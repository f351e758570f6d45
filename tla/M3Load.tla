------------------------------- MODULE M3Load -------------------------------
(***************************************************************************)
(* How Wasm3 reads a module (src/m3_parse.c, src/m3_module.c), loads it    *)
(* into a runtime, finds a function in it (src/m3_env.c) and frees it.     *)
(*                                                                         *)
(* The bytes are any bytes: each step reads one more entry of a section,   *)
(* and any read may fail. What is kept of the module is who owns the       *)
(* strings it was read with, in which order its functions came, and what   *)
(* their names are. A string is its place in strings, 0 is NULL.           *)
(***************************************************************************)
EXTENDS Integers, Sequences, FiniteSets, SequencesExt

CONSTANTS Texts,         \* names of functions and globals
          Sections,      \* sections the module may have
          MaxNames,      \* d_m3MaxDuplicateFunctionImpl
          MaxStrings,    \* bound: strings read
          MaxFunctions,  \* bound: functions of the module
          MaxGlobals     \* bound: globals of the module

ASSUME LoadAssumption ==
    MaxNames \in Nat /\ MaxNames >= 2 /\ MaxStrings \in Nat /\ "none" \notin Sections

VARIABLES strings,          \* the text of each string and how often it was freed
          module,           \* M3Module
          expectedSection,
          section,          \* the section that is read, or "none"
          custom,           \* the name of the custom section that is read
          stage,            \* of the module: "parsing", "failed", "parsed", "loaded", "freed"
          exported,         \* what the module exports: names and functions
          lost              \* strings whose last pointer went away where none frees them
vars == <<strings, module, expectedSection, section, custom, stage, exported, lost>>

NoImport == [moduleUtf8 |-> 0, fieldUtf8 |-> 0]
\* decl: which entry of the function section it is, or 0; wasm: which body.
Blank == [names |-> <<>>, export_name |-> 0, import |-> NoImport, decl |-> 0, wasm |-> 0]

NoModule ==
    [numFuncTypes |-> 0, numFuncImports |-> 0, functions |-> <<>>, bodies |-> 0,
     globals |-> <<>>, memoryImport |-> NoImport, memoryImported |-> FALSE,
     memoryExportName |-> 0, table0ExportName |-> 0, segmentsFit |-> TRUE]

Init ==
    /\ strings = <<>> /\ module = NoModule
    /\ expectedSection = 1 /\ section = "none" /\ custom = 0
    /\ stage = "parsing" /\ exported = {} /\ lost = {}
----------------------------------------------------------------------------
(* Strings.                                                                *)

\* Read_utf8: the strings with one more, at New.
New == Len(strings) + 1
Read(text) == Append(strings, [text |-> text, freed |-> 0])
Room(n) == Len(strings) + n <= MaxStrings

\* m3_Free of the string at each place of a function from places to strings.
m3_Free(ss, pointers) ==
    [s \in DOMAIN ss |->
        [ss[s] EXCEPT !.freed = @ + Cardinality({ k \in DOMAIN pointers : pointers[k] = s })]]

FreeImportInfo(info) == <<info.moduleUtf8, info.fieldUtf8>>

\* What Function_Release frees: a name can be an alias of fieldUtf8.
\* Mutant: the alias is forgotten.
Function_Release_Alias(f) == FreeImportInfo(f.import) \o f.names
Function_Release(f) ==
    FreeImportInfo(f.import)
    \o [k \in DOMAIN f.names |-> IF f.names[k] = f.import.fieldUtf8 THEN 0 ELSE f.names[k]]

\* The parts of a module that hold strings, and the strings of each.
Parts(m) ==
    ({"function"} \X DOMAIN m.functions) \union ({"global"} \X DOMAIN m.globals)
    \union {<<"module", 0>>}
Release(m, part) ==
    CASE part[1] = "function" -> Function_Release(m.functions[part[2]])
      [] part[1] = "global" ->
            FreeImportInfo(m.globals[part[2]].import) \o <<m.globals[part[2]].name>>
      [] OTHER ->
            FreeImportInfo(m.memoryImport) \o <<m.memoryExportName, m.table0ExportName>>

Points(m) == UNION { ToSet(Release(m, part)) : part \in Parts(m) }

\* What m3_FreeModule frees: at each place of a part a string.
FreeModule(m) ==
    [place \in UNION { {part} \X DOMAIN Release(m, part) : part \in Parts(m) } |->
        Release(m, place[1])[place[2]]]
----------------------------------------------------------------------------
(* Sections.                                                               *)

sectionsOrder ==
    <<"Type", "Import", "Function", "Table", "Memory", "Global", "Export", "Start",
      "Element", "DataCount", "Code", "Data">>

\* Where the search for a section from the expected one on ends: after it, or
\* at 0 if it is not there.
\* Mutant: any order will do.
After_Any(s) == IF s \in ToSet(sectionsOrder) THEN 1 ELSE 0
After(s) ==
    IF \E k \in expectedSection .. Len(sectionsOrder) : sectionsOrder[k] = s
    THEN (CHOOSE k \in DOMAIN sectionsOrder : sectionsOrder[k] = s) + 1
    ELSE 0

Fails ==
    /\ stage' = "failed" /\ section' = "none"
    /\ UNCHANGED <<expectedSection, exported>>

Begins(s) ==
    /\ stage = "parsing" /\ section = "none"
    /\ IF After(s) # 0
       THEN expectedSection' = After(s) /\ section' = s /\ UNCHANGED <<stage, exported>>
       ELSE Fails
    /\ UNCHANGED <<strings, module, custom, lost>>

Reads(s) == stage = "parsing" /\ section = s
Goes == UNCHANGED <<expectedSection, section, stage, exported>>

\* The section is read to its end; of the bodies the number must be right.
Ends ==
    /\ stage = "parsing" /\ section \notin {"none", "Name"}
    /\ section = "Code" => module.bodies = Len(module.functions) - module.numFuncImports
    /\ section' = "none"
    /\ UNCHANGED <<strings, module, expectedSection, custom, stage, exported, lost>>

\* The bytes of an entry end too soon, or are malformed, after n strings of it
\* have been read: the section frees them.
EntryFails(n) ==
    /\ stage = "parsing" /\ section # "Name" /\ Room(n)
    /\ n = 0 \/ (n = 1 /\ section = "Export") \/ (n \in 1 .. 2 /\ section = "Import")
    /\ strings' = strings \o [i \in 1 .. n |-> [text |-> "unused", freed |-> 1]]
    /\ Fails
    /\ UNCHANGED <<module, custom, lost>>

TypeEntry ==
    /\ Reads("Type") /\ module.numFuncTypes = 0
    /\ module' = [module EXCEPT !.numFuncTypes = 1]
    /\ Goes /\ UNCHANGED <<strings, custom, lost>>

\* Module_AddFunction: the function is there also if its type is not.
Module_AddFunction(f, typeIndex) ==
    [module EXCEPT !.functions = Append(@, IF typeIndex < module.numFuncTypes THEN f ELSE Blank)]

\* The strings of an import, at New and after it.
ReadImport(field) == Append(Read("module"), [text |-> field, freed |-> 0])
Import == [moduleUtf8 |-> New, fieldUtf8 |-> New + 1]

ImportFunction(field, typeIndex) ==
    LET f == [Blank EXCEPT !.import = Import, !.names = <<New + 1>>]
        added == Module_AddFunction(f, typeIndex)
    IN /\ Reads("Import") /\ Room(2) /\ Len(module.functions) < MaxFunctions
       /\ IF typeIndex < module.numFuncTypes
          THEN /\ strings' = ReadImport(field) /\ Goes
               /\ module' = [added EXCEPT !.numFuncImports = @ + 1]
          ELSE /\ strings' = m3_Free(ReadImport(field), FreeImportInfo(Import)) /\ Fails
               /\ module' = added
       /\ UNCHANGED <<custom, lost>>

\* The limits of an imported table are not read: they are the next entry.
ImportTable(field) ==
    /\ Reads("Import") /\ Room(2)
    /\ strings' = m3_Free(ReadImport(field), FreeImportInfo(Import)) /\ Goes
    /\ UNCHANGED <<module, custom, lost>>

\* The strings of an earlier import of a memory are lost.
ImportMemory(field) ==
    /\ Reads("Import") /\ Room(2)
    /\ strings' = ReadImport(field) /\ Goes
    /\ module' = [module EXCEPT !.memoryImport = Import, !.memoryImported = TRUE]
    /\ lost' = lost \union (ToSet(FreeImportInfo(module.memoryImport)) \ {0})
    /\ UNCHANGED custom

ImportGlobal(field) ==
    /\ Reads("Import") /\ Room(2) /\ Len(module.globals) < MaxGlobals
    /\ strings' = ReadImport(field) /\ Goes
    /\ module' = [module EXCEPT !.globals = Append(@, [name |-> 0, import |-> Import])]
    /\ UNCHANGED <<custom, lost>>

FunctionEntry(typeIndex) ==
    LET decl == Len(module.functions) - module.numFuncImports + 1
    IN /\ Reads("Function") /\ Len(module.functions) < MaxFunctions
       /\ module' = Module_AddFunction([Blank EXCEPT !.decl = decl], typeIndex)
       /\ IF typeIndex < module.numFuncTypes THEN Goes ELSE Fails
       /\ UNCHANGED <<strings, custom, lost>>

GlobalEntry(hasInitExpr) ==
    /\ Reads("Global") /\ Len(module.globals) < MaxGlobals
    /\ module' = [module EXCEPT !.globals = Append(@, [name |-> 0, import |-> NoImport])]
    /\ IF hasInitExpr THEN Goes ELSE Fails
    /\ UNCHANGED <<strings, custom, lost>>

\* A function has room for MaxNames names; further ones are dropped.
ExportFunction(index, text) ==
    LET f == module.functions[index]
    IN /\ Reads("Export") /\ Room(1)
       /\ IF index \notin DOMAIN module.functions
          THEN /\ strings' = m3_Free(Read(text), <<New>>) /\ Fails
               /\ UNCHANGED module
          ELSE /\ exported' = exported \union {<<text, index>>}
               /\ UNCHANGED <<expectedSection, section, stage>>
               /\ IF Len(f.names) < MaxNames
                  THEN /\ strings' = Read(text)
                       /\ module' = [module EXCEPT !.functions[index].names = Append(@, New),
                                                   !.functions[index].export_name = New]
                  ELSE /\ strings' = m3_Free(Read(text), <<New>>)
                       /\ UNCHANGED module
       /\ UNCHANGED <<custom, lost>>

\* A global that is exported again loses the name it had.
\* Mutant: without freeing it.
ExportGlobal_Leak(index, text) ==
    /\ Reads("Export") /\ Room(1)
    /\ IF index \notin DOMAIN module.globals
       THEN strings' = m3_Free(Read(text), <<New>>) /\ Fails /\ UNCHANGED module
       ELSE /\ strings' = Read(text) /\ Goes
            /\ module' = [module EXCEPT !.globals[index].name = New]
    /\ UNCHANGED <<custom, lost>>
ExportGlobal(index, text) ==
    /\ Reads("Export") /\ Room(1)
    /\ IF index \notin DOMAIN module.globals
       THEN strings' = m3_Free(Read(text), <<New>>) /\ Fails /\ UNCHANGED module
       ELSE /\ strings' = m3_Free(Read(text), <<module.globals[index].name>>) /\ Goes
            /\ module' = [module EXCEPT !.globals[index].name = New]
    /\ UNCHANGED <<custom, lost>>

ExportMemory(text) ==
    /\ Reads("Export") /\ Room(1)
    /\ strings' = m3_Free(Read(text), <<module.memoryExportName>>) /\ Goes
    /\ module' = [module EXCEPT !.memoryExportName = New]
    /\ UNCHANGED <<custom, lost>>

ExportTable(text) ==
    /\ Reads("Export") /\ Room(1)
    /\ strings' = m3_Free(Read(text), <<module.table0ExportName>>) /\ Goes
    /\ module' = [module EXCEPT !.table0ExportName = New]
    /\ UNCHANGED <<custom, lost>>

\* An empty body leaves the function without code.
CodeEntry(isEmpty) ==
    LET f == module.numFuncImports + module.bodies + 1
    IN /\ Reads("Code") /\ f \in DOMAIN module.functions
       /\ module' = [module EXCEPT !.bodies = @ + 1,
                                   !.functions[f].wasm = IF isEmpty THEN @ ELSE module.bodies + 1]
       /\ Goes /\ UNCHANGED <<strings, custom, lost>>

\* Segments of data and of the table; whether one is out of bounds shows
\* when the module is loaded.
SegmentEntry(fits) ==
    /\ stage = "parsing" /\ section \in {"Element", "Data"}
    /\ module' = [module EXCEPT !.segmentsFit = @ /\ fits]
    /\ Goes /\ UNCHANGED <<strings, custom, lost>>
----------------------------------------------------------------------------
(* Custom sections, which may come anywhere.                               *)

\* One that is not the name section is passed over.
CustomSection(isName) ==
    /\ stage = "parsing" /\ section = "none" /\ Room(1)
    /\ IF isName
       THEN strings' = Read("name") /\ custom' = New /\ section' = "Name"
       ELSE strings' = m3_Free(Read("other"), <<New>>) /\ UNCHANGED <<custom, section>>
    /\ UNCHANGED <<module, expectedSection, stage, exported, lost>>

\* A function that has no name yet takes this one.
NameEntry(index, text) ==
    /\ Reads("Name") /\ Room(1)
    /\ IF index \in DOMAIN module.functions /\ module.functions[index].names = <<>>
       THEN strings' = Read(text) /\ module' = [module EXCEPT !.functions[index].names = <<New>>]
       ELSE strings' = m3_Free(Read(text), <<New>>) /\ UNCHANGED module
    /\ Goes /\ UNCHANGED <<custom, lost>>

\* If the names fail, the name of the section is not freed. An empty name
\* section returns a result that was never assigned: it may fail or not.
NameSectionEnds(fails) ==
    /\ Reads("Name") /\ custom' = 0
    /\ IF fails
       THEN Fails /\ lost' = lost \union {custom} /\ UNCHANGED strings
       ELSE /\ strings' = m3_Free(strings, <<custom>>) /\ section' = "none"
            /\ UNCHANGED <<expectedSection, stage, exported, lost>>
    /\ UNCHANGED module
----------------------------------------------------------------------------
(* The module as a whole.                                                  *)

Parsed ==
    /\ stage = "parsing" /\ section = "none"
    /\ stage' = "parsed"
    /\ UNCHANGED <<strings, module, expectedSection, section, custom, exported, lost>>

\* A module that imports its memory has none to put its data in. A module
\* that is not loaded belongs to nobody: the sandbox frees only the runtime.
m3_LoadModule(evaluates) ==
    /\ stage = "parsed"
    /\ IF evaluates /\ module.segmentsFit /\ ~module.memoryImported
       THEN stage' = "loaded" /\ UNCHANGED <<module, lost>>
       ELSE /\ stage' = "freed" /\ module' = NoModule
            /\ lost' = lost \union (Points(module) \ {0})
    /\ UNCHANGED <<strings, expectedSection, section, custom, exported>>

\* m3_ParseModule after a failure, and m3_FreeRuntime
m3_FreeModule ==
    /\ stage \in {"failed", "loaded"}
    /\ strings' = m3_Free(strings, FreeModule(module))
    /\ stage' = "freed" /\ module' = NoModule
    /\ UNCHANGED <<expectedSection, section, custom, exported, lost>>

Next ==
    \/ \E s \in Sections : Begins(s)
    \/ Ends
    \/ \E n \in 0 .. 2 : EntryFails(n)
    \/ TypeEntry
    \/ \E typeIndex \in 0 .. 1 :
          FunctionEntry(typeIndex) \/ \E field \in Texts : ImportFunction(field, typeIndex)
    \/ \E field \in Texts : ImportTable(field) \/ ImportMemory(field) \/ ImportGlobal(field)
    \/ \E b \in BOOLEAN : GlobalEntry(b) \/ CodeEntry(b) \/ SegmentEntry(b)
    \/ \E index \in 1 .. MaxFunctions, text \in Texts :
          ExportFunction(index, text) \/ NameEntry(index, text)
    \/ \E index \in 1 .. MaxGlobals, text \in Texts : ExportGlobal(index, text)
    \/ \E text \in Texts : ExportMemory(text) \/ ExportTable(text)
    \/ \E b \in BOOLEAN : CustomSection(b) \/ NameSectionEnds(b) \/ m3_LoadModule(b)
    \/ Parsed \/ m3_FreeModule

Spec == Init /\ [][Next]_vars

Named(i, text) == \E s \in ToSet(module.functions[i].names) : strings[s].text = text

First(indices) == IF indices = {} THEN 0 ELSE CHOOSE i \in indices : \A j \in indices : i <= j

\* The function that m3_FindFunction finds, or 0: first by export_name, which
\* is the last name exported, then by any name of what is not imported.
\* Mutant: by any name at once.
v_FindFunction_Names(text) == First({ i \in DOMAIN module.functions : Named(i, text) })
v_FindFunction(text) ==
    LET f(i) == module.functions[i]
        byExport == { i \in DOMAIN module.functions :
                        f(i).export_name # 0 /\ strings[f(i).export_name].text = text }
        internal == { i \in DOMAIN module.functions : f(i).import = NoImport /\ Named(i, text) }
    IN First(IF byExport # {} THEN byExport ELSE internal)
----------------------------------------------------------------------------
(* Properties.                                                             *)

Owned == Points(module) \union {custom}

\* No string is freed twice, and none that a module or the reader of a
\* custom section still points to has been freed, whichever entries were
\* read before a failure and whatever replaced what.
NothingFreedTwice ==
    LET owned == Owned
    IN \A s \in DOMAIN strings : strings[s].freed <= IF s \in owned THEN 0 ELSE 1

\* A string that is not freed yet has somebody who will free it, or was lost
\* in one of three places: the name of a name section that fails, an import
\* of a memory that a second one replaces, and a module that was not loaded.
NothingElseLost ==
    LET owned == Owned
    IN \A s \in DOMAIN strings : strings[s].freed = 0 => s \in owned \union lost

\* A body becomes the code of the function that the function section
\* declares in its place, never of an import and never of another one.
BodiesMatch ==
    \A i \in DOMAIN module.functions :
        module.functions[i].wasm # 0 => module.functions[i].wasm = module.functions[i].decl

Exports(text) == { i \in DOMAIN module.functions : <<text, i>> \in exported }

\* In a module that exports no function twice, a name that is exported finds
\* a function that is exported by it, whatever the name section calls others.
FindsExported ==
    stage = "loaded" /\ (\A i \in DOMAIN module.functions :
                            Cardinality({ e \in exported : e[2] = i }) <= 1)
        => \A text \in Texts : Exports(text) # {} => v_FindFunction(text) \in Exports(text)

\* An exported function is preferred to one that only the name section calls
\* so, by whichever of its names it is asked for.
PrefersExported ==
    stage = "loaded"
        => \A text \in Texts : Exports(text) # {} => v_FindFunction(text) \in Exports(text)
=============================================================================
