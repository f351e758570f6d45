---------------------------- MODULE M3LoadProofs ----------------------------
(***************************************************************************)
(* The properties of parsing, loading and freeing a module, for modules of *)
(* any size.                                                               *)
(*                                                                         *)
(* The invariant says of each place in the module that points to a string, *)
(* the reader of a custom section being one more, that it is the only one  *)
(* that does; where the sections are, and so which functions have come;    *)
(* and what the last name exported is, of each function that is exported.  *)
(***************************************************************************)
EXTENDS M3Load, FiniteSetTheorems, SequenceTheorems, TLAPS

AllTexts == Texts \union {"module", "name", "other", "unused"}
String == [text : AllTexts, freed : Nat]
Info == [moduleUtf8 : Nat, fieldUtf8 : Nat]
M3Function ==
  [names : Seq(Nat), export_name : Nat, import : Info, decl : Int, wasm : Nat]
M3Global == [name : Nat, import : Info]
M3Module ==
  [numFuncTypes : Nat, numFuncImports : Nat, functions : Seq(M3Function), bodies : Nat,
   globals : Seq(M3Global), memoryImport : Info, memoryImported : BOOLEAN,
   memoryExportName : Nat, table0ExportName : Nat, segmentsFit : BOOLEAN]

Types ==
  /\ strings \in Seq(String) /\ module \in M3Module
  /\ expectedSection \in Nat \ {0} /\ custom \in Nat
  /\ stage \in {"parsing", "failed", "parsed", "loaded", "freed"}
  /\ exported \subseteq Texts \X Nat

-----------------------------------------------------------------------------
\* The places that point to strings, with the name of the custom section.
Custom == <<<<"custom", 0>>, 1>>
Pointers(m, name) ==
  [p \in DOMAIN FreeModule(m) \union {Custom} |->
     IF p = Custom THEN name ELSE FreeModule(m)[p]]

\* At most one place points to a string, none to one that was freed, and one
\* to each that was neither freed nor lost.
Owning(P, ss, ls) ==
  /\ \A p, q \in DOMAIN P : P[p] = P[q] /\ P[p] # 0 => p = q
  /\ \A p \in DOMAIN P : P[p] \in 0 .. Len(ss) /\ (P[p] # 0 => ss[P[p]].freed = 0)
  /\ \A s \in DOMAIN ss :
       /\ ss[s].freed \in 0 .. 1
       /\ ss[s].freed = 0 => s \in ls \/ \E p \in DOMAIN P : P[p] = s

Held == Owning(Pointers(module, custom), strings, lost)

\* Only the name section is read with a name.
Reading == custom # 0 => stage = "parsing" /\ section = "Name"

-----------------------------------------------------------------------------
\* The functions that are declared come after those that are imported.
Ordered ==
  /\ section = "Import" => expectedSection = 3
  /\ section = "Function" => expectedSection = 4
  /\ stage = "parsing" =>
       /\ expectedSection <= 3 => Len(module.functions) = module.numFuncImports
       /\ \A i \in DOMAIN module.functions :
            i > module.numFuncImports => module.functions[i].decl = i - module.numFuncImports

\* A function that is exported has the text of its last exported name.
Exporting ==
  stage # "freed" =>
    /\ \A e \in exported :
         e[2] \in DOMAIN module.functions /\ module.functions[e[2]].export_name # 0
    /\ \A i \in DOMAIN module.functions :
         LET f == module.functions[i] IN
         IF f.export_name = 0 THEN Len(f.names) <= 1
         ELSE /\ f.export_name \in DOMAIN strings
              /\ <<strings[f.export_name].text, i>> \in exported

IInv ==
  /\ Types /\ Held /\ Reading /\ Ordered /\ BodiesMatch
  /\ IsFiniteSet(exported) /\ Exporting
-----------------------------------------------------------------------------
(***************************************************************************)
(* Places and pointers.                                                    *)
(***************************************************************************)

LEMMA AfterTwo ==
  ASSUME NEW a \in Seq(Nat), NEW b \in Seq(Nat), Len(a) = 2
  PROVE  /\ a \o b \in Seq(Nat) /\ Len(a \o b) = Len(b) + 2
         /\ (a \o b)[1] = a[1] /\ (a \o b)[2] = a[2]
         /\ \A k \in 1 .. Len(b) : (a \o b)[k + 2] = b[k]
<1>1. PICK n \in Nat : n = Len(b)
  OBVIOUS
<1>2. /\ a \o b \in Seq(Nat) /\ Len(a \o b) = 2 + n
      /\ \A k \in 1 .. 2 + n : (a \o b)[k] = IF k <= 2 THEN a[k] ELSE b[k - 2]
  <2>1. /\ a \o b \in Seq(Nat) /\ Len(a \o b) = Len(a) + Len(b)
        /\ \A k \in 1 .. Len(a) + Len(b) :
             (a \o b)[k] = IF k <= Len(a) THEN a[k] ELSE b[k - Len(a)]
    BY ConcatProperties
  <2> QED BY <1>1, <2>1
<1>3. ASSUME NEW k \in 1 .. n PROVE (a \o b)[k + 2] = b[k]
  <2>1. k + 2 \in 1 .. 2 + n /\ ~(k + 2 <= 2) /\ (k + 2) - 2 = k
    BY <1>1
  <2> QED BY <1>2, <2>1
<1>4. (a \o b)[1] = a[1] /\ (a \o b)[2] = a[2]
  <2>1. 1 \in 1 .. 2 + n /\ 2 \in 1 .. 2 + n
    BY <1>1
  <2> QED BY <1>2, <2>1
<1> QED BY <1>1, <1>2, <1>3, <1>4

\* What a function releases: an alias of its import is not released twice.
LEMMA FunctionReleases ==
  ASSUME NEW f \in M3Function
  PROVE  LET ps == Function_Release(f)
         IN /\ DOMAIN ps = 1 .. Len(f.names) + 2 /\ Len(f.names) \in Nat
            /\ ps[1] = f.import.moduleUtf8 /\ ps[2] = f.import.fieldUtf8
            /\ \A k \in 1 .. Len(f.names) :
                 ps[k + 2] = IF f.names[k] = f.import.fieldUtf8 THEN 0 ELSE f.names[k]
<1> DEFINE a == <<f.import.moduleUtf8, f.import.fieldUtf8>>
           b == [k \in DOMAIN f.names |->
                   IF f.names[k] = f.import.fieldUtf8 THEN 0 ELSE f.names[k]]
<1>1. Function_Release(f) = a \o b
  BY DEF Function_Release, FreeImportInfo
<1>2. f.names \in Seq(Nat) /\ f.import.moduleUtf8 \in Nat /\ f.import.fieldUtf8 \in Nat
  BY DEF M3Function, Info
<1>3. b \in Seq(Nat) /\ Len(b) = Len(f.names)
  <2>1. DOMAIN f.names = 1 .. Len(f.names) /\ Len(f.names) \in Nat
    BY <1>2
  <2>2. b = [k \in 1 .. Len(f.names) |->
               IF f.names[k] = f.import.fieldUtf8 THEN 0 ELSE f.names[k]]
    BY <2>1
  <2>3. \A k \in 1 .. Len(f.names) :
          (IF f.names[k] = f.import.fieldUtf8 THEN 0 ELSE f.names[k]) \in Nat
    BY <1>2
  <2> HIDE DEF a
  <2> QED BY <2>1, <2>2, <2>3
<1>4. a \in Seq(Nat) /\ Len(a) = 2 /\ a[1] = f.import.moduleUtf8 /\ a[2] = f.import.fieldUtf8
  BY <1>2
<1>5. \A k \in DOMAIN f.names :
        b[k] = IF f.names[k] = f.import.fieldUtf8 THEN 0 ELSE f.names[k]
  OBVIOUS
<1>6. DOMAIN f.names = 1 .. Len(f.names) /\ Len(f.names) \in Nat
  BY <1>2
<1> HIDE DEF a, b
<1>7. /\ a \o b \in Seq(Nat) /\ Len(a \o b) = Len(b) + 2
      /\ (a \o b)[1] = a[1] /\ (a \o b)[2] = a[2]
      /\ \A k \in 1 .. Len(b) : (a \o b)[k + 2] = b[k]
  BY <1>3, <1>4, AfterTwo
<1>8. DOMAIN (a \o b) = 1 .. Len(f.names) + 2
  BY <1>3, <1>7
<1> QED BY ZenonT(60), <1>1, <1>3, <1>4, <1>5, <1>6, <1>7, <1>8

LEMMA GlobalReleases ==
  ASSUME NEW g \in M3Global
  PROVE  LET ps == FreeImportInfo(g.import) \o <<g.name>>
         IN /\ DOMAIN ps = 1 .. 3
            /\ ps[1] = g.import.moduleUtf8 /\ ps[2] = g.import.fieldUtf8 /\ ps[3] = g.name
<1>1. g.name \in Nat /\ g.import.moduleUtf8 \in Nat /\ g.import.fieldUtf8 \in Nat
  BY DEF M3Global, Info
<1>2. PICK a : a = <<g.import.moduleUtf8, g.import.fieldUtf8>>
  OBVIOUS
<1>3. PICK b : b = <<g.name>>
  OBVIOUS
<1>4. /\ a \in Seq(Nat) /\ Len(a) = 2 /\ b \in Seq(Nat) /\ Len(b) = 1 /\ b[1] = g.name
      /\ a[1] = g.import.moduleUtf8 /\ a[2] = g.import.fieldUtf8 /\ 1 \in 1 .. Len(b)
  BY <1>1, <1>2, <1>3
<1>5. /\ a \o b \in Seq(Nat) /\ Len(a \o b) = Len(b) + 2
      /\ (a \o b)[1] = a[1] /\ (a \o b)[2] = a[2] /\ (a \o b)[1 + 2] = b[1]
  BY <1>4, AfterTwo
<1>6. DOMAIN (a \o b) = 1 .. 3
  BY SMTT(40), <1>4, <1>5
<1>7. FreeImportInfo(g.import) \o <<g.name>> = a \o b
  BY <1>2, <1>3 DEF FreeImportInfo
<1> QED BY SMTT(40), <1>4, <1>5, <1>6, <1>7

LEMMA ModuleReleases ==
  ASSUME NEW m \in M3Module
  PROVE  LET ps == Release(m, <<"module", 0>>)
         IN /\ DOMAIN ps = 1 .. 4
            /\ ps[1] = m.memoryImport.moduleUtf8 /\ ps[2] = m.memoryImport.fieldUtf8
            /\ ps[3] = m.memoryExportName /\ ps[4] = m.table0ExportName
<1> DEFINE a == <<m.memoryImport.moduleUtf8, m.memoryImport.fieldUtf8>>
           b == <<m.memoryExportName, m.table0ExportName>>
<1>1. Release(m, <<"module", 0>>) = FreeImportInfo(m.memoryImport) \o b
  BY DEF Release
<1>2. FreeImportInfo(m.memoryImport) = a
  BY DEF FreeImportInfo
<1>3. /\ m.memoryImport.moduleUtf8 \in Nat /\ m.memoryImport.fieldUtf8 \in Nat
      /\ m.memoryExportName \in Nat /\ m.table0ExportName \in Nat
  BY DEF M3Module, Info
<1>4. /\ a \in Seq(Nat) /\ Len(a) = 2
      /\ a[1] = m.memoryImport.moduleUtf8 /\ a[2] = m.memoryImport.fieldUtf8
      /\ b \in Seq(Nat) /\ Len(b) = 2
      /\ b[1] = m.memoryExportName /\ b[2] = m.table0ExportName
  BY <1>3
<1> HIDE DEF a, b
<1>5. /\ a \o b \in Seq(Nat) /\ Len(a \o b) = Len(a) + Len(b)
      /\ \A k \in 1 .. Len(a) + Len(b) :
           (a \o b)[k] = IF k <= Len(a) THEN a[k] ELSE b[k - Len(a)]
  BY ZenonT(60), <1>4, ConcatProperties
<1>6. /\ Len(a \o b) = 4 /\ (a \o b)[1] = a[1] /\ (a \o b)[2] = a[2]
      /\ (a \o b)[3] = b[1] /\ (a \o b)[4] = b[2]
  BY <1>4, <1>5
<1>7. Release(m, <<"module", 0>>) = a \o b
  BY <1>1, <1>2
<1>8. DOMAIN (a \o b) = 1 .. 4
  <2>1. PICK ps \in Seq(Nat) : ps = a \o b
    BY <1>5
  <2>2. DOMAIN ps = 1 .. Len(ps) /\ Len(ps) = 4
    BY <1>6, <2>1
  <2> QED BY <2>1, <2>2
<1> QED BY <1>4, <1>5, <1>6, <1>7, <1>8

LEMMA PlacesAre ==
  ASSUME NEW m, NEW name
  PROVE  /\ \A p : p \in DOMAIN FreeModule(m)
              <=> \E part \in Parts(m) : \E k \in DOMAIN Release(m, part) : p = <<part, k>>
         /\ \A part \in Parts(m) : \A k \in DOMAIN Release(m, part) :
              /\ <<part, k>> \in DOMAIN FreeModule(m)
              /\ FreeModule(m)[<<part, k>>] = Release(m, part)[k]
              /\ <<part, k>> \in DOMAIN Pointers(m, name) /\ <<part, k>> # Custom
              /\ Pointers(m, name)[<<part, k>>] = Release(m, part)[k]
         /\ \A p \in DOMAIN Pointers(m, name) :
              p = Custom
              \/ \E part \in Parts(m) : \E k \in DOMAIN Release(m, part) : p = <<part, k>>
         /\ Custom \in DOMAIN Pointers(m, name) /\ Pointers(m, name)[Custom] = name
<1>1. \A p : p \in DOMAIN FreeModule(m)
        <=> \E part \in Parts(m) : \E k \in DOMAIN Release(m, part) : p = <<part, k>>
  BY DEF FreeModule
<1>2. ASSUME NEW part \in Parts(m), NEW k \in DOMAIN Release(m, part)
      PROVE  /\ <<part, k>> \in DOMAIN FreeModule(m)
             /\ FreeModule(m)[<<part, k>>] = Release(m, part)[k]
             /\ <<part, k>> \in DOMAIN Pointers(m, name) /\ <<part, k>> # Custom
             /\ Pointers(m, name)[<<part, k>>] = Release(m, part)[k]
  <2>1. <<part, k>> \in DOMAIN FreeModule(m)
    BY <1>1
  <2>2. FreeModule(m)[<<part, k>>] = Release(m, part)[k]
    BY <2>1 DEF FreeModule
  <2>3. <<part, k>> # Custom
    BY DEF Custom, Parts
  <2> QED BY <2>1, <2>2, <2>3 DEF Pointers
<1>3. ASSUME NEW p \in DOMAIN Pointers(m, name), p # Custom
      PROVE  \E part \in Parts(m) : \E k \in DOMAIN Release(m, part) : p = <<part, k>>
  BY <1>1, <1>3 DEF Pointers
<1>4. Custom \in DOMAIN Pointers(m, name) /\ Pointers(m, name)[Custom] = name
  BY DEF Pointers
<1> QED BY <1>1, <1>2, <1>3, <1>4

-----------------------------------------------------------------------------
(***************************************************************************)
(* Freeing.                                                                *)
(***************************************************************************)

\* What m3_Free does to each string, if no two places point to the same one.
LEMMA Frees ==
  ASSUME NEW ss \in Seq(String), NEW P,
         \A k, l \in DOMAIN P : P[k] = P[l] /\ P[k] # 0 => k = l
  PROVE  /\ m3_Free(ss, P) \in Seq(String) /\ Len(m3_Free(ss, P)) = Len(ss)
         /\ \A s \in DOMAIN ss :
              /\ m3_Free(ss, P)[s].text = ss[s].text
              /\ (\E k \in DOMAIN P : P[k] = s) => m3_Free(ss, P)[s].freed = ss[s].freed + 1
              /\ ~(\E k \in DOMAIN P : P[k] = s) => m3_Free(ss, P)[s].freed = ss[s].freed
<1> DEFINE At(s) == { k \in DOMAIN P : P[k] = s }
<1>1. DOMAIN ss = 1 .. Len(ss) /\ Len(ss) \in Nat /\ \A s \in DOMAIN ss : ss[s] \in String
  OBVIOUS
<1>2. ASSUME NEW s \in DOMAIN ss, NEW k \in DOMAIN P, P[k] = s
      PROVE  Cardinality(At(s)) = 1
  <2>1. s # 0
    BY <1>1
  <2>2. At(s) = {k}
    BY <1>2, <2>1
  <2> QED BY <2>2, FS_Singleton
<1>3. ASSUME NEW s \in DOMAIN ss, ~(\E k \in DOMAIN P : P[k] = s)
      PROVE  Cardinality(At(s)) = 0
  <2>1. At(s) = {}
    BY <1>3
  <2> QED BY <2>1, FS_EmptySet
<1>4. ASSUME NEW s \in DOMAIN ss
      PROVE  Cardinality(At(s)) \in Nat
  BY <1>2, <1>3
<1>5. m3_Free(ss, P)
        = [s \in DOMAIN ss |-> [ss[s] EXCEPT !.freed = @ + Cardinality(At(s))]]
  BY DEF m3_Free
<1> HIDE DEF At
<1>6. ASSUME NEW s \in DOMAIN ss
      PROVE  /\ m3_Free(ss, P)[s] \in String /\ m3_Free(ss, P)[s].text = ss[s].text
             /\ m3_Free(ss, P)[s].freed = ss[s].freed + Cardinality(At(s))
  <2>1. m3_Free(ss, P)[s] = [ss[s] EXCEPT !.freed = @ + Cardinality(At(s))]
    BY <1>5
  <2>2. ss[s] \in String /\ Cardinality(At(s)) \in Nat
    BY <1>1, <1>4
  <2> QED BY SMTT(40), <2>1, <2>2 DEF String
<1>7. m3_Free(ss, P) \in Seq(String) /\ Len(m3_Free(ss, P)) = Len(ss)
  <2>1. m3_Free(ss, P) \in [1 .. Len(ss) -> String]
    BY <1>1, <1>5, <1>6
  <2> QED BY <1>1, <2>1
<1>8. \A s \in DOMAIN ss : ss[s].freed \in Nat
  BY <1>1 DEF String
<1> QED BY <1>2, <1>3, <1>6, <1>7, <1>8

\* A string that is read is the last.
LEMMA ReadIs ==
  ASSUME NEW ss \in Seq(String), NEW x \in String
  PROVE  /\ Append(ss, x) \in Seq(String) /\ Len(Append(ss, x)) = Len(ss) + 1
         /\ Append(ss, x)[Len(ss) + 1] = x
         /\ \A s \in DOMAIN ss : Append(ss, x)[s] = ss[s]
  OBVIOUS

\* How places change from F to G: a string that is there before is kept,
\* freed or lost; one that is new has one place, or is freed.
Repoints(F, G, ss, tt, lt) ==
  /\ \A q \in DOMAIN G : \/ G[q] = 0
                         \/ q \in DOMAIN F /\ G[q] = F[q]
                         \/ G[q] \in Len(ss) + 1 .. Len(tt)
  /\ \A p, q \in DOMAIN G : G[p] = G[q] /\ G[p] \in Len(ss) + 1 .. Len(tt) => p = q
  /\ \A s \in Len(ss) + 1 .. Len(tt) :
       /\ tt[s].freed \in 0 .. 1
       /\ tt[s].freed = 0 <=> \E q \in DOMAIN G : G[q] = s
  /\ \A s \in DOMAIN ss :
       \/ /\ tt[s].freed = ss[s].freed
          /\ \A p \in DOMAIN F : F[p] = s => (s \in lt \/ (p \in DOMAIN G /\ G[p] = s))
       \/ /\ tt[s].freed = 1
          /\ \A q \in DOMAIN G : G[q] # s

LEMMA Repoint ==
  ASSUME NEW F, NEW G, NEW ss \in Seq(String), NEW tt \in Seq(String), NEW ls, NEW lt,
         Owning(F, ss, ls), Len(ss) <= Len(tt), ls \subseteq lt, Repoints(F, G, ss, tt, lt)
  PROVE  Owning(G, tt, lt)
<1> USE DEF Repoints
<1>1. /\ DOMAIN ss = 1 .. Len(ss) /\ Len(ss) \in Nat
      /\ DOMAIN tt = 1 .. Len(tt) /\ Len(tt) \in Nat
  OBVIOUS
<1>2. \A p \in DOMAIN F : F[p] \in 0 .. Len(ss) /\ (F[p] # 0 => ss[F[p]].freed = 0)
  BY DEF Owning
<1>3. ASSUME NEW p \in DOMAIN G, NEW q \in DOMAIN G, G[p] = G[q], G[p] # 0
      PROVE  p = q
  <2>1. CASE G[p] \in Len(ss) + 1 .. Len(tt)
    BY <1>3, <2>1
  <2>2. CASE G[p] \notin Len(ss) + 1 .. Len(tt)
    <3>1. p \in DOMAIN F /\ G[p] = F[p] /\ q \in DOMAIN F /\ G[q] = F[q]
      BY <1>3, <2>2
    <3> QED BY ZenonT(60), <1>3, <3>1 DEF Owning
  <2> QED BY <2>1, <2>2
<1>4. ASSUME NEW p \in DOMAIN G
      PROVE  G[p] \in 0 .. Len(tt) /\ (G[p] # 0 => tt[G[p]].freed = 0)
  <2>1. CASE G[p] = 0
    BY <1>1, <2>1
  <2>2. CASE G[p] \in Len(ss) + 1 .. Len(tt)
    <3>1. tt[G[p]].freed = 0
      BY <2>2
    <3>2. G[p] \in 0 .. Len(tt)
      BY <1>1, <2>2
    <3> QED BY <3>1, <3>2
  <2>3. CASE G[p] # 0 /\ p \in DOMAIN F /\ G[p] = F[p]
    <3>1. G[p] \in 1 .. Len(ss) /\ ss[G[p]].freed = 0
      BY <1>1, <1>2, <2>3
    <3>2. tt[G[p]].freed = 0
      BY <1>1, <3>1
    <3>3. G[p] \in 0 .. Len(tt)
      BY <1>1, <3>1
    <3> QED BY <3>2, <3>3
  <2> QED BY <2>1, <2>2, <2>3
<1>5. ASSUME NEW s \in DOMAIN tt
      PROVE  /\ tt[s].freed \in 0 .. 1
             /\ tt[s].freed = 0 => s \in lt \/ \E p \in DOMAIN G : G[p] = s
  <2>1. CASE s \in Len(ss) + 1 .. Len(tt)
    BY <2>1
  <2>2. CASE s \in DOMAIN ss
    <3>1. /\ ss[s].freed \in 0 .. 1
          /\ ss[s].freed = 0 => s \in ls \/ \E p \in DOMAIN F : F[p] = s
      BY <2>2 DEF Owning
    <3> QED BY <2>2, <3>1
  <2>3. s \in DOMAIN ss \/ s \in Len(ss) + 1 .. Len(tt)
    BY <1>1
  <2> QED BY <2>1, <2>2, <2>3
<1> QED BY <1>3, <1>4, <1>5 DEF Owning

\* What becomes of the pointers of one part of the module, A, which are B
\* after the step.
Replaces(A, B, ss, tt, lt) ==
  /\ \A k \in DOMAIN B : \/ B[k] = 0
                         \/ k \in DOMAIN A /\ B[k] = A[k]
                         \/ B[k] \in Len(ss) + 1 .. Len(tt)
  /\ \A k, l \in DOMAIN B : B[k] = B[l] /\ B[k] \in Len(ss) + 1 .. Len(tt) => k = l
  /\ \A s \in Len(ss) + 1 .. Len(tt) :
       /\ tt[s].freed \in 0 .. 1
       /\ tt[s].freed = 0 <=> \E k \in DOMAIN B : B[k] = s
  /\ \A s \in DOMAIN ss :
       \/ /\ tt[s].freed = ss[s].freed
          /\ \A k \in DOMAIN A : A[k] = s => (s \in lt \/ (k \in DOMAIN B /\ B[k] = s))
       \/ /\ tt[s].freed = 1
          /\ \E k \in DOMAIN A : A[k] = s /\ ~(k \in DOMAIN B /\ B[k] = s)

PointersOf(m, part) == IF part \in Parts(m) THEN Release(m, part) ELSE <<>>

\* A step that replaces the pointers of one part, old or new.
LEMMA Repart ==
  ASSUME NEW m, NEW n, NEW name, NEW part,
         NEW ss \in Seq(String), NEW tt \in Seq(String), NEW ls, NEW lt,
         Owning(Pointers(m, name), ss, ls), Len(ss) <= Len(tt), ls \subseteq lt,
         Parts(n) = Parts(m) \union {part},
         \A other \in Parts(m) \ {part} : Release(n, other) = Release(m, other),
         Replaces(PointersOf(m, part), Release(n, part), ss, tt, lt)
  PROVE  Owning(Pointers(n, name), tt, lt)
<1> DEFINE F == Pointers(m, name)
           G == Pointers(n, name)
           A == PointersOf(m, part)
           B == Release(n, part)
<1>1. /\ DOMAIN ss = 1 .. Len(ss) /\ Len(ss) \in Nat
      /\ DOMAIN tt = 1 .. Len(tt) /\ Len(tt) \in Nat
  OBVIOUS
<1>2. ASSUME NEW q \in DOMAIN G
      PROVE  \/ q \in DOMAIN F /\ G[q] = F[q]
             \/ \E k \in DOMAIN B : q = <<part, k>> /\ G[q] = B[k]
  <2>1. CASE q = Custom
    BY <2>1, PlacesAre
  <2>2. CASE q # Custom
    <3>1. PICK other \in Parts(n) : \E k \in DOMAIN Release(n, other) : q = <<other, k>>
      BY <2>2, PlacesAre
    <3>2. PICK k \in DOMAIN Release(n, other) : q = <<other, k>>
      BY <3>1
    <3>3. G[q] = Release(n, other)[k]
      BY <3>1, <3>2, PlacesAre
    <3>4. CASE other = part
      BY <3>2, <3>3, <3>4
    <3>5. CASE other # part
      <4>1. other \in Parts(m) /\ Release(n, other) = Release(m, other)
        BY <3>1, <3>5
      <4>2. k \in DOMAIN Release(m, other)
        BY <3>2, <4>1
      <4>3. q \in DOMAIN F /\ F[q] = Release(m, other)[k]
        BY <3>2, <4>1, <4>2, PlacesAre
      <4> QED BY <3>3, <4>1, <4>3
    <3> QED BY <3>4, <3>5
  <2> QED BY <2>1, <2>2
<1>3. \A k \in DOMAIN B : <<part, k>> \in DOMAIN G /\ G[<<part, k>>] = B[k]
  BY PlacesAre
<1>4. \A k \in DOMAIN A : <<part, k>> \in DOMAIN F /\ F[<<part, k>>] = A[k]
  <2>1. CASE part \in Parts(m)
    BY <2>1, PlacesAre DEF PointersOf
  <2>2. CASE part \notin Parts(m)
    <3>1. A = <<>>
      BY <2>2 DEF PointersOf
    <3> QED BY <3>1
  <2> QED BY <2>1, <2>2
<1>5. ASSUME NEW p \in DOMAIN F
      PROVE  \/ p \in DOMAIN G /\ G[p] = F[p]
             \/ \E k \in DOMAIN A : p = <<part, k>> /\ F[p] = A[k]
  <2>1. CASE p = Custom
    BY <2>1, PlacesAre
  <2>2. CASE p # Custom
    <3>1. PICK other \in Parts(m) : \E k \in DOMAIN Release(m, other) : p = <<other, k>>
      BY <2>2, PlacesAre
    <3>2. PICK k \in DOMAIN Release(m, other) : p = <<other, k>>
      BY <3>1
    <3>3. F[p] = Release(m, other)[k]
      BY <3>1, <3>2, PlacesAre
    <3>4. CASE other = part
      <4>1. A = Release(m, other)
        BY <3>1, <3>4 DEF PointersOf
      <4> QED BY <3>2, <3>3, <3>4, <4>1
    <3>5. CASE other # part
      <4>1. other \in Parts(n) /\ Release(n, other) = Release(m, other)
        BY <3>1, <3>5
      <4>2. k \in DOMAIN Release(n, other)
        BY <3>2, <4>1
      <4>3. p \in DOMAIN G /\ G[p] = Release(n, other)[k]
        BY <3>2, <4>1, <4>2, PlacesAre
      <4> QED BY <3>3, <4>1, <4>3
    <3> QED BY <3>4, <3>5
  <2> QED BY <2>1, <2>2
<1>6. ASSUME NEW k, <<part, k>> \in DOMAIN G
       PROVE  k \in DOMAIN B
  <2>1. part \in Parts(n)
    OBVIOUS
  <2>2. part # <<"custom", 0>>
    BY <2>1 DEF Parts
  <2>3. <<part, k>> # Custom
    BY <2>2 DEF Custom
  <2>4. PICK other \in Parts(n) : \E l \in DOMAIN Release(n, other) : <<part, k>> = <<other, l>>
    BY <1>6, <2>3, PlacesAre
  <2> QED BY <2>4
<1>7. /\ \A p, q \in DOMAIN F : F[p] = F[q] /\ F[p] # 0 => p = q
      /\ \A p \in DOMAIN F : F[p] \in 0 .. Len(ss)
  BY DEF Owning
<1>8. /\ \A k \in DOMAIN B : \/ B[k] = 0
                             \/ k \in DOMAIN A /\ B[k] = A[k]
                             \/ B[k] \in Len(ss) + 1 .. Len(tt)
      /\ \A k, l \in DOMAIN B : B[k] = B[l] /\ B[k] \in Len(ss) + 1 .. Len(tt) => k = l
      /\ \A s \in Len(ss) + 1 .. Len(tt) :
           /\ tt[s].freed \in 0 .. 1
           /\ tt[s].freed = 0 <=> \E k \in DOMAIN B : B[k] = s
      /\ \A s \in DOMAIN ss :
           \/ /\ tt[s].freed = ss[s].freed
              /\ \A k \in DOMAIN A : A[k] = s => (s \in lt \/ (k \in DOMAIN B /\ B[k] = s))
           \/ /\ tt[s].freed = 1
              /\ \E k \in DOMAIN A : A[k] = s /\ ~(k \in DOMAIN B /\ B[k] = s)
  BY DEF Replaces
<1> HIDE DEF F, G, A, B
<1>9. \A q \in DOMAIN G : \/ G[q] = 0
                          \/ q \in DOMAIN F /\ G[q] = F[q]
                          \/ G[q] \in Len(ss) + 1 .. Len(tt)
  BY <1>2, <1>4, <1>8
<1>10. ASSUME NEW q \in DOMAIN G, G[q] \in Len(ss) + 1 .. Len(tt)
      PROVE  \E k \in DOMAIN B : q = <<part, k>> /\ G[q] = B[k]
  <2>1. ~(q \in DOMAIN F /\ G[q] = F[q])
    BY <1>1, <1>7, <1>10
  <2> QED BY <1>2, <2>1
<1>11. ASSUME NEW p \in DOMAIN G, NEW q \in DOMAIN G,
              G[p] = G[q], G[p] \in Len(ss) + 1 .. Len(tt)
       PROVE  p = q
  <2>1. PICK k \in DOMAIN B : p = <<part, k>> /\ G[p] = B[k]
    BY <1>10, <1>11
  <2>2. PICK l \in DOMAIN B : q = <<part, l>> /\ G[q] = B[l]
    BY <1>10, <1>11
  <2>3. k = l
    BY <1>8, <1>11, <2>1, <2>2
  <2> QED BY <2>1, <2>2, <2>3
<1>12. ASSUME NEW s \in Len(ss) + 1 .. Len(tt)
       PROVE  /\ tt[s].freed \in 0 .. 1
              /\ tt[s].freed = 0 <=> \E q \in DOMAIN G : G[q] = s
  <2>1. (\E q \in DOMAIN G : G[q] = s) <=> (\E k \in DOMAIN B : B[k] = s)
    BY <1>3, <1>10
  <2> QED BY <1>8, <2>1
<1>13. ASSUME NEW s \in DOMAIN ss
       PROVE  \/ /\ tt[s].freed = ss[s].freed
                 /\ \A p \in DOMAIN F : F[p] = s => (s \in lt \/ (p \in DOMAIN G /\ G[p] = s))
              \/ /\ tt[s].freed = 1
                 /\ \A q \in DOMAIN G : G[q] # s
  <2>1. CASE /\ tt[s].freed = ss[s].freed
             /\ \A k \in DOMAIN A : A[k] = s => (s \in lt \/ (k \in DOMAIN B /\ B[k] = s))
    BY <1>3, <1>5, <2>1
  <2>2. ASSUME tt[s].freed = 1,
               NEW k \in DOMAIN A, A[k] = s, ~(k \in DOMAIN B /\ B[k] = s),
               NEW q \in DOMAIN G, G[q] = s
        PROVE  FALSE
    <3>1. s # 0 /\ s \notin Len(ss) + 1 .. Len(tt)
      BY <1>1
    <3>2. q \in DOMAIN F /\ F[q] = s
      BY <1>9, <2>2, <3>1
    <3>3. <<part, k>> \in DOMAIN F /\ F[<<part, k>>] = s
      BY <1>4, <2>2
    <3>4. q = <<part, k>>
      BY <1>7, <3>1, <3>2, <3>3
    <3>5. k \in DOMAIN B
      BY <1>6, <3>4
    <3>6. B[k] = s
      BY <1>3, <2>2, <3>4, <3>5
    <3> QED BY <2>2, <3>5, <3>6
  <2> QED BY <1>8, <2>1, <2>2
<1>14. Owning(F, ss, ls)
  BY DEF F
<1>15. Repoints(F, G, ss, tt, lt)
  BY <1>9, <1>11, <1>12, <1>13 DEF Repoints
<1>16. Owning(G, tt, lt)
  BY <1>14, <1>15, Repoint
<1> QED BY <1>16 DEF G

-----------------------------------------------------------------------------
(***************************************************************************)
(* What is read.                                                           *)
(***************************************************************************)

\* The strings with n more, which have been freed so often.
Grows(ss, tt, n, freed) ==
  /\ tt \in Seq(String) /\ Len(tt) = Len(ss) + n
  /\ \A s \in DOMAIN ss : tt[s] = ss[s]
  /\ \A s \in Len(ss) + 1 .. Len(tt) : tt[s].freed = freed

LEMMA Strings ==
  ASSUME NEW text \in AllTexts
  PROVE  /\ [text |-> text, freed |-> 0] \in String
         /\ [text |-> text, freed |-> 0].freed = 0
         /\ [text |-> text, freed |-> 0].text = text
  BY DEF String

LEMMA SomeTexts ==
  {"module", "name", "other", "unused"} \subseteq AllTexts /\ Texts \subseteq AllTexts
  BY DEF AllTexts

LEMMA ReadGrows ==
  ASSUME Types, NEW text \in AllTexts
  PROVE  /\ Grows(strings, Read(text), 1, 0)
         /\ New \in DOMAIN Read(text) /\ Read(text)[New].text = text
         /\ New = Len(strings) + 1 /\ Len(strings) \in Nat
<1>1. strings \in Seq(String)
  BY DEF Types
<1>2. DOMAIN strings = 1 .. Len(strings) /\ Len(strings) \in Nat
  BY <1>1
<1> DEFINE x == [text |-> text, freed |-> 0]
<1>3. x \in String /\ x.freed = 0 /\ x.text = text
  BY Strings
<1>4. Read(text) = Append(strings, x)
  BY DEF Read
<1> HIDE DEF x
<1>5. /\ Read(text) \in Seq(String) /\ Len(Read(text)) = Len(strings) + 1
      /\ Read(text)[Len(strings) + 1] = x
      /\ \A s \in DOMAIN strings : Read(text)[s] = strings[s]
  BY <1>1, <1>3, <1>4, ReadIs
<1>6. \A s \in Len(strings) + 1 .. Len(Read(text)) : Read(text)[s].freed = 0
  BY <1>2, <1>3, <1>5
<1>7. New = Len(strings) + 1
  BY DEF New
<1>8. DOMAIN Read(text) = 1 .. Len(Read(text))
  BY <1>5
<1>9. New \in DOMAIN Read(text)
  BY <1>2, <1>5, <1>7, <1>8
<1> QED BY <1>2, <1>3, <1>5, <1>6, <1>7, <1>9 DEF Grows

\* A string that is freed where it is read.
LEMMA ReadFreedGrows ==
  ASSUME Types, NEW text \in AllTexts
  PROVE  Grows(strings, m3_Free(Read(text), <<New>>), 1, 1)
<1> DEFINE tt == Read(text)
           P == <<New>>
           uu == m3_Free(tt, P)
<1>1. /\ tt \in Seq(String) /\ Len(tt) = Len(strings) + 1
      /\ \A s \in DOMAIN strings : tt[s] = strings[s]
      /\ \A s \in Len(strings) + 1 .. Len(tt) : tt[s].freed = 0
      /\ New \in DOMAIN tt /\ New = Len(strings) + 1 /\ Len(strings) \in Nat
  BY ReadGrows DEF Grows
<1>2. DOMAIN P = {1} /\ P[1] = New
  OBVIOUS
<1>3. strings \in Seq(String) /\ DOMAIN strings = 1 .. Len(strings)
  BY DEF Types
<1> HIDE DEF tt, P
<1>4. \A k, l \in DOMAIN P : P[k] = P[l] /\ P[k] # 0 => k = l
  BY <1>2
<1>5. /\ uu \in Seq(String) /\ Len(uu) = Len(tt)
      /\ \A s \in DOMAIN tt :
           /\ uu[s].text = tt[s].text
           /\ (\E k \in DOMAIN P : P[k] = s) => uu[s].freed = tt[s].freed + 1
           /\ ~(\E k \in DOMAIN P : P[k] = s) => uu[s].freed = tt[s].freed
  BY <1>1, <1>4, Frees
<1>6. DOMAIN tt = 1 .. Len(tt)
  BY <1>1
<1> HIDE DEF uu
<1>7. ASSUME NEW s \in DOMAIN strings
      PROVE  uu[s] = strings[s]
  <2>1. s \in DOMAIN tt /\ s # New
    BY <1>1, <1>3, <1>6
  <2>2. uu[s].text = tt[s].text /\ uu[s].freed = tt[s].freed
    BY <1>2, <1>5, <2>1
  <2>3. uu[s] \in String /\ tt[s] \in String
    <3>1. s \in 1 .. Len(uu) /\ s \in 1 .. Len(tt)
      BY <1>5, <1>6, <2>1
    <3> QED BY <1>1, <1>5, <3>1
  <2>4. uu[s] = tt[s]
    BY <2>2, <2>3 DEF String
  <2> QED BY <1>1, <2>4
<1>8. ASSUME NEW s \in Len(strings) + 1 .. Len(uu)
      PROVE  uu[s].freed = 1
  <2>1. s = New /\ s \in DOMAIN tt /\ tt[s].freed = 0
    BY <1>1, <1>5
  <2> QED BY <1>2, <1>5, <2>1
<1>9. Grows(strings, uu, 1, 1)
  BY <1>1, <1>5, <1>7, <1>8 DEF Grows
<1> QED BY <1>9 DEF uu, tt, P

\* A string that is read instead of one that is freed, if there was one.
LEMMA ReadInsteadIs ==
  ASSUME Types, NEW text \in AllTexts, NEW x \in 0 .. Len(strings)
  PROVE  LET uu == m3_Free(Read(text), <<x>>)
         IN /\ uu \in Seq(String) /\ Len(uu) = Len(strings) + 1
            /\ \A s \in DOMAIN strings :
                 /\ uu[s].text = strings[s].text
                 /\ uu[s].freed = IF s = x THEN strings[s].freed + 1 ELSE strings[s].freed
            /\ \A s \in Len(strings) + 1 .. Len(uu) : uu[s].freed = 0
<1> DEFINE tt == Read(text)
           P == <<x>>
           uu == m3_Free(tt, P)
<1>1. /\ tt \in Seq(String) /\ Len(tt) = Len(strings) + 1
      /\ \A s \in DOMAIN strings : tt[s] = strings[s]
      /\ \A s \in Len(strings) + 1 .. Len(tt) : tt[s].freed = 0
      /\ New \in DOMAIN tt /\ New = Len(strings) + 1 /\ Len(strings) \in Nat
  BY ReadGrows DEF Grows
<1>2. DOMAIN P = {1} /\ P[1] = x
  OBVIOUS
<1>3. strings \in Seq(String) /\ DOMAIN strings = 1 .. Len(strings)
  BY DEF Types
<1> HIDE DEF tt, P
<1>4. \A k, l \in DOMAIN P : P[k] = P[l] /\ P[k] # 0 => k = l
  BY <1>2
<1>5. /\ uu \in Seq(String) /\ Len(uu) = Len(tt)
      /\ \A s \in DOMAIN tt :
           /\ uu[s].text = tt[s].text
           /\ (\E k \in DOMAIN P : P[k] = s) => uu[s].freed = tt[s].freed + 1
           /\ ~(\E k \in DOMAIN P : P[k] = s) => uu[s].freed = tt[s].freed
  BY <1>1, <1>4, Frees
<1>6. DOMAIN tt = 1 .. Len(tt)
  BY <1>1
<1> HIDE DEF uu
<1>7. ASSUME NEW s \in DOMAIN strings
      PROVE  /\ uu[s].text = strings[s].text
             /\ uu[s].freed = IF s = x THEN strings[s].freed + 1 ELSE strings[s].freed
  <2>1. s \in DOMAIN tt /\ tt[s] = strings[s]
    BY <1>1, <1>3, <1>6
  <2> QED BY <1>2, <1>5, <2>1
<1>8. ASSUME NEW s \in Len(strings) + 1 .. Len(uu)
      PROVE  uu[s].freed = 0
  <2>1. s = New /\ s \in DOMAIN tt /\ tt[s].freed = 0 /\ s # x
    BY <1>1, <1>5
  <2> QED BY <1>2, <1>5, <2>1
<1> QED BY <1>1, <1>5, <1>7, <1>8 DEF uu, tt, P

\* The two strings of an import.
LEMMA ReadImportGrows ==
  ASSUME Types, NEW field \in Texts
  PROVE  /\ Grows(strings, ReadImport(field), 2, 0)
         /\ Import.moduleUtf8 = Len(strings) + 1 /\ Import.fieldUtf8 = Len(strings) + 2
         /\ Import \in Info /\ Import # NoImport /\ Len(strings) \in Nat
<1> DEFINE tt == Read("module")
           x == [text |-> field, freed |-> 0]
           uu == ReadImport(field)
<1>1. /\ tt \in Seq(String) /\ Len(tt) = Len(strings) + 1
      /\ \A s \in DOMAIN strings : tt[s] = strings[s]
      /\ \A s \in Len(strings) + 1 .. Len(tt) : tt[s].freed = 0
      /\ New \in DOMAIN tt /\ New = Len(strings) + 1 /\ Len(strings) \in Nat
  BY ReadGrows, SomeTexts DEF Grows
<1>2. strings \in Seq(String) /\ DOMAIN strings = 1 .. Len(strings)
  BY DEF Types
<1>3. x \in String /\ x.freed = 0
  BY Strings, SomeTexts
<1>4. uu = Append(tt, x)
  BY DEF ReadImport
<1>5. DOMAIN tt = 1 .. Len(tt)
  BY <1>1
<1> HIDE DEF tt, x, uu
<1>6. /\ uu \in Seq(String) /\ Len(uu) = Len(tt) + 1 /\ uu[Len(tt) + 1] = x
      /\ \A s \in DOMAIN tt : uu[s] = tt[s]
  BY <1>1, <1>3, <1>4, ReadIs
<1>7. ASSUME NEW s \in DOMAIN strings
      PROVE  uu[s] = strings[s]
  BY <1>1, <1>2, <1>5, <1>6
<1>8. ASSUME NEW s \in Len(strings) + 1 .. Len(uu)
      PROVE  uu[s].freed = 0
  <2>1. CASE s = Len(strings) + 1
    <3>1. s \in DOMAIN tt /\ tt[s].freed = 0
      BY <1>1, <2>1
    <3> QED BY <1>6, <3>1
  <2>2. CASE s # Len(strings) + 1
    <3>1. s = Len(tt) + 1
      BY <1>1, <1>6, <2>2
    <3> QED BY <1>3, <1>6, <3>1
  <2> QED BY <2>1, <2>2
<1>9. Grows(strings, uu, 2, 0)
  BY <1>1, <1>6, <1>7, <1>8 DEF Grows
<1>10. /\ Import.moduleUtf8 = Len(strings) + 1 /\ Import.fieldUtf8 = Len(strings) + 2
       /\ Import \in Info /\ Import # NoImport
  <2>1. Import = [moduleUtf8 |-> New, fieldUtf8 |-> New + 1]
    BY DEF Import
  <2>2. New \in Nat \ {0} /\ New + 1 = Len(strings) + 2
    BY <1>1
  <2>3. NoImport.moduleUtf8 = 0
    BY DEF NoImport
  <2> QED BY <1>1, <2>1, <2>2, <2>3 DEF Info
<1> QED BY <1>1, <1>9, <1>10 DEF uu

LEMMA ImportFreedGrows ==
  ASSUME Types, NEW field \in Texts
  PROVE  Grows(strings, m3_Free(ReadImport(field), FreeImportInfo(Import)), 2, 1)
<1> DEFINE tt == ReadImport(field)
           P == FreeImportInfo(Import)
           uu == m3_Free(tt, P)
<1>1. /\ tt \in Seq(String) /\ Len(tt) = Len(strings) + 2
      /\ \A s \in DOMAIN strings : tt[s] = strings[s]
      /\ \A s \in Len(strings) + 1 .. Len(tt) : tt[s].freed = 0
      /\ Len(strings) \in Nat
  BY ReadImportGrows DEF Grows
<1>2. DOMAIN P = {1, 2} /\ P[1] = Len(strings) + 1 /\ P[2] = Len(strings) + 2
  <2>1. P = <<Import.moduleUtf8, Import.fieldUtf8>>
    BY DEF FreeImportInfo
  <2> QED BY <2>1, ReadImportGrows
<1>3. strings \in Seq(String) /\ DOMAIN strings = 1 .. Len(strings)
  BY DEF Types
<1> HIDE DEF tt, P
<1>4. \A k, l \in DOMAIN P : P[k] = P[l] /\ P[k] # 0 => k = l
  BY <1>1, <1>2
<1>5. /\ uu \in Seq(String) /\ Len(uu) = Len(tt)
      /\ \A s \in DOMAIN tt :
           /\ uu[s].text = tt[s].text
           /\ (\E k \in DOMAIN P : P[k] = s) => uu[s].freed = tt[s].freed + 1
           /\ ~(\E k \in DOMAIN P : P[k] = s) => uu[s].freed = tt[s].freed
  BY <1>1, <1>4, Frees
<1>6. DOMAIN tt = 1 .. Len(tt)
  BY <1>1
<1> HIDE DEF uu
<1>7. ASSUME NEW s \in DOMAIN strings
      PROVE  uu[s] = strings[s]
  <2>1. s \in DOMAIN tt /\ s # Len(strings) + 1 /\ s # Len(strings) + 2
    BY <1>1, <1>3, <1>6
  <2>2. uu[s].text = tt[s].text /\ uu[s].freed = tt[s].freed
    BY <1>2, <1>5, <2>1
  <2>3. uu[s] \in String /\ tt[s] \in String
    <3>1. s \in 1 .. Len(uu) /\ s \in 1 .. Len(tt)
      BY <1>5, <1>6, <2>1
    <3> QED BY <1>1, <1>5, <3>1
  <2>4. uu[s] = tt[s]
    BY <2>2, <2>3 DEF String
  <2> QED BY <1>1, <2>4
<1>8. ASSUME NEW s \in Len(strings) + 1 .. Len(uu)
      PROVE  uu[s].freed = 1
  <2>1. (s = Len(strings) + 1 \/ s = Len(strings) + 2) /\ s \in DOMAIN tt /\ tt[s].freed = 0
    BY <1>1, <1>5
  <2>2. \E k \in DOMAIN P : P[k] = s
    BY <1>2, <2>1
  <2> QED BY <1>5, <2>1, <2>2
<1>9. Grows(strings, uu, 2, 1)
  BY <1>1, <1>5, <1>7, <1>8 DEF Grows
<1> QED BY <1>9 DEF uu, tt, P

\* Strings of an entry that fails.
LEMMA UnusedGrows ==
  ASSUME Types, NEW n \in 0 .. 2
  PROVE  Grows(strings, strings \o [i \in 1 .. n |-> [text |-> "unused", freed |-> 1]], n, 1)
<1> DEFINE x == [text |-> "unused", freed |-> 1]
           xs == [i \in 1 .. n |-> x]
           tt == strings \o xs
<1>1. strings \in Seq(String) /\ DOMAIN strings = 1 .. Len(strings) /\ Len(strings) \in Nat
  BY DEF Types
<1>2. x \in String /\ x.freed = 1
  BY SomeTexts DEF String
<1> HIDE DEF x
<1>3. xs \in Seq(String) /\ Len(xs) = n /\ \A i \in 1 .. n : xs[i] = x
  BY <1>2
<1> HIDE DEF xs
<1>4. /\ tt \in Seq(String) /\ Len(tt) = Len(strings) + Len(xs)
      /\ \A i \in 1 .. Len(strings) + Len(xs) :
           tt[i] = IF i <= Len(strings) THEN strings[i] ELSE xs[i - Len(strings)]
  BY <1>1, <1>3, ConcatProperties
<1> HIDE DEF tt
<1>5. ASSUME NEW s \in Len(strings) + 1 .. Len(tt)
      PROVE  tt[s].freed = 1
  <2>1. s \in 1 .. Len(strings) + Len(xs) /\ ~(s <= Len(strings)) /\ s - Len(strings) \in 1 .. n
    BY <1>1, <1>3, <1>4
  <2> QED BY <1>2, <1>3, <1>4, <2>1
<1>6. \A s \in DOMAIN strings : tt[s] = strings[s]
  BY <1>1, <1>3, <1>4
<1>7. Grows(strings, tt, n, 1)
  BY <1>3, <1>4, <1>5, <1>6 DEF Grows
<1> QED BY <1>7 DEF tt, xs, x

\* Nothing is read.
LEMMA SameGrows ==
  ASSUME Types
  PROVE  Grows(strings, strings, 0, 1)
<1>1. strings \in Seq(String) /\ Len(strings) \in Nat
  BY DEF Types
<1> QED BY <1>1 DEF Grows

-----------------------------------------------------------------------------
(***************************************************************************)
(* Parts that change.                                                      *)
(***************************************************************************)

\* The pointers of a part, of one that there is or not.
LEMMA PartOwns ==
  ASSUME NEW m, NEW name, NEW part, NEW ss, NEW ls, Owning(Pointers(m, name), ss, ls)
  PROVE  LET A == PointersOf(m, part)
         IN /\ \A k, l \in DOMAIN A : A[k] = A[l] /\ A[k] # 0 => k = l
            /\ \A k \in DOMAIN A :
                 A[k] \in 0 .. Len(ss) /\ (A[k] # 0 => ss[A[k]].freed = 0)
<1> DEFINE A == PointersOf(m, part)
           F == Pointers(m, name)
<1>1. CASE part \in Parts(m)
  <2>1. \A k \in DOMAIN A : <<part, k>> \in DOMAIN F /\ F[<<part, k>>] = A[k]
    BY <1>1, PlacesAre DEF PointersOf
  <2>2. /\ \A p, q \in DOMAIN F : F[p] = F[q] /\ F[p] # 0 => p = q
        /\ \A p \in DOMAIN F : F[p] \in 0 .. Len(ss) /\ (F[p] # 0 => ss[F[p]].freed = 0)
    BY DEF Owning
  <2> HIDE DEF A, F
  <2>3. ASSUME NEW k \in DOMAIN A, NEW l \in DOMAIN A, A[k] = A[l], A[k] # 0
        PROVE  k = l
    <3>1. <<part, k>> = <<part, l>>
      BY <2>1, <2>2, <2>3
    <3> QED BY <3>1
  <2>4. \A k \in DOMAIN A :
          A[k] \in 0 .. Len(ss) /\ (A[k] # 0 => ss[A[k]].freed = 0)
    BY ZenonT(60), <2>1, <2>2
  <2> QED BY <2>3, <2>4 DEF A
<1>2. CASE part \notin Parts(m)
  <2>1. A = <<>>
    BY <1>2 DEF PointersOf
  <2> QED BY <2>1
<1> QED BY <1>1, <1>2

\* A part whose pointers stay; what is read is freed.
LEMMA PartStays ==
  ASSUME Types, NEW tt, NEW n \in Nat, Grows(strings, tt, n, 1), NEW A, NEW B, NEW lt,
         \A k \in DOMAIN A : A[k] \in 0 .. Len(strings),
         \A k \in DOMAIN B : B[k] = 0 \/ (k \in DOMAIN A /\ B[k] = A[k]),
         \A k \in DOMAIN A : A[k] = 0 \/ (k \in DOMAIN B /\ B[k] = A[k])
  PROVE  /\ Replaces(A, B, strings, tt, lt)
         /\ tt \in Seq(String) /\ Len(strings) <= Len(tt)
<1>1. strings \in Seq(String) /\ DOMAIN strings = 1 .. Len(strings) /\ Len(strings) \in Nat
  BY DEF Types
<1>2. /\ tt \in Seq(String) /\ Len(tt) = Len(strings) + n
      /\ \A s \in DOMAIN strings : tt[s] = strings[s]
      /\ \A s \in Len(strings) + 1 .. Len(tt) : tt[s].freed = 1
  BY DEF Grows
<1>3. ASSUME NEW k \in DOMAIN B
      PROVE  B[k] \notin Len(strings) + 1 .. Len(tt)
  BY <1>1
<1>4. ASSUME NEW s \in DOMAIN strings
      PROVE  /\ tt[s].freed = strings[s].freed
             /\ \A k \in DOMAIN A : A[k] = s => (s \in lt \/ (k \in DOMAIN B /\ B[k] = s))
  BY <1>1, <1>2
<1>5. ASSUME NEW s \in Len(strings) + 1 .. Len(tt)
      PROVE  /\ tt[s].freed \in 0 .. 1
             /\ tt[s].freed = 0 <=> \E k \in DOMAIN B : B[k] = s
  BY <1>2, <1>3
<1>6. Len(strings) <= Len(tt)
  BY <1>1, <1>2
<1> QED BY <1>2, <1>3, <1>4, <1>5, <1>6 DEF Replaces

\* A part that points to the string that is read, at one place; what it
\* pointed to there is freed.
ReadInto(A, B, at, x, tt) ==
  /\ tt \in Seq(String) /\ Len(tt) = Len(strings) + 1
  /\ x \in 0 .. Len(strings)
  /\ \A s \in DOMAIN strings :
       tt[s].freed = IF s = x THEN strings[s].freed + 1 ELSE strings[s].freed
  /\ \A s \in Len(strings) + 1 .. Len(tt) : tt[s].freed = 0
  /\ \A k \in DOMAIN A :
       A[k] \in 0 .. Len(strings) /\ (A[k] # 0 => strings[A[k]].freed = 0)
  /\ \A k, l \in DOMAIN A : A[k] = A[l] /\ A[k] # 0 => k = l
  /\ at \in DOMAIN B /\ B[at] = Len(strings) + 1
  /\ x # 0 => at \in DOMAIN A
  /\ at \in DOMAIN A => A[at] = x
  /\ \A k \in DOMAIN B \ {at} : k \in DOMAIN A /\ B[k] = A[k]
  /\ \A k \in DOMAIN A \ {at} : k \in DOMAIN B /\ B[k] = A[k]

LEMMA PartGains ==
  ASSUME Types, NEW A, NEW B, NEW at, NEW x, NEW tt, NEW lt, ReadInto(A, B, at, x, tt)
  PROVE  Replaces(A, B, strings, tt, lt) /\ Len(strings) <= Len(tt)
<1> USE DEF ReadInto
<1>1. strings \in Seq(String) /\ DOMAIN strings = 1 .. Len(strings) /\ Len(strings) \in Nat
  BY DEF Types
<1>2. ASSUME NEW k \in DOMAIN B, k # at
      PROVE  B[k] \notin Len(strings) + 1 .. Len(tt) /\ (B[k] = 0 \/ (k \in DOMAIN A /\ B[k] = A[k]))
  BY <1>1, <1>2
<1>3. \A s \in Len(strings) + 1 .. Len(tt) : s = Len(strings) + 1
  BY <1>1
<1>4. ASSUME NEW s \in Len(strings) + 1 .. Len(tt)
      PROVE  /\ tt[s].freed \in 0 .. 1
             /\ tt[s].freed = 0 <=> \E k \in DOMAIN B : B[k] = s
  BY <1>3
<1>5. ASSUME NEW s \in DOMAIN strings
      PROVE  \/ /\ tt[s].freed = strings[s].freed
                /\ \A k \in DOMAIN A : A[k] = s => (s \in lt \/ (k \in DOMAIN B /\ B[k] = s))
             \/ /\ tt[s].freed = 1
                /\ \E k \in DOMAIN A : A[k] = s /\ ~(k \in DOMAIN B /\ B[k] = s)
  <2>1. CASE s = x
    <3>1. at \in DOMAIN A /\ A[at] = s /\ B[at] # s
      BY <1>1, <2>1
    <3>2. strings[s].freed = 0
      BY <1>1, <3>1
    <3> QED BY <2>1, <3>1, <3>2
  <2>2. CASE s # x
    <3>1. tt[s].freed = strings[s].freed
      BY <2>2
    <3>2. ASSUME NEW k \in DOMAIN A, A[k] = s
          PROVE  k \in DOMAIN B /\ B[k] = s
      BY <1>1, <2>2, <3>2
    <3> QED BY <3>1, <3>2
  <2> QED BY <2>1, <2>2
<1>6. at \in DOMAIN B /\ B[at] \in Len(strings) + 1 .. Len(tt) /\ Len(strings) <= Len(tt)
  BY <1>1
<1> QED BY <1>2, <1>4, <1>5, <1>6 DEF Replaces

\* A part that points to the two strings of an import; what it pointed to
\* there is lost.
LEMMA PartImports ==
  ASSUME Types, NEW tt, Grows(strings, tt, 2, 0), NEW A, NEW B, NEW lt,
         \A k \in DOMAIN A : A[k] \in 0 .. Len(strings),
         1 \in DOMAIN B, B[1] = Len(strings) + 1, 2 \in DOMAIN B, B[2] = Len(strings) + 2,
         \A k \in DOMAIN A \cap {1, 2} : A[k] = 0 \/ A[k] \in lt,
         \A k \in DOMAIN B \ {1, 2} : B[k] = 0 \/ (k \in DOMAIN A /\ B[k] = A[k]),
         \A k \in DOMAIN A \ {1, 2} : A[k] = 0 \/ (k \in DOMAIN B /\ B[k] = A[k])
  PROVE  /\ Replaces(A, B, strings, tt, lt)
         /\ tt \in Seq(String) /\ Len(strings) <= Len(tt)
<1>1. strings \in Seq(String) /\ DOMAIN strings = 1 .. Len(strings) /\ Len(strings) \in Nat
  BY DEF Types
<1>2. /\ tt \in Seq(String) /\ Len(tt) = Len(strings) + 2
      /\ \A s \in DOMAIN strings : tt[s] = strings[s]
      /\ \A s \in Len(strings) + 1 .. Len(tt) : tt[s].freed = 0
  BY DEF Grows
<1>3. ASSUME NEW k \in DOMAIN B, k \notin {1, 2}
      PROVE  B[k] \notin Len(strings) + 1 .. Len(tt) /\ (B[k] = 0 \/ (k \in DOMAIN A /\ B[k] = A[k]))
  BY <1>1, <1>3
<1>4. /\ B[1] \in Len(strings) + 1 .. Len(tt) /\ B[2] \in Len(strings) + 1 .. Len(tt)
      /\ B[1] # B[2] /\ Len(strings) <= Len(tt)
      /\ \A s \in Len(strings) + 1 .. Len(tt) : s = B[1] \/ s = B[2]
  BY <1>1, <1>2
<1>5. ASSUME NEW s \in DOMAIN strings
      PROVE  /\ tt[s].freed = strings[s].freed
             /\ \A k \in DOMAIN A : A[k] = s => (s \in lt \/ (k \in DOMAIN B /\ B[k] = s))
  <2>1. s # 0
    BY <1>1
  <2>2. ASSUME NEW k \in DOMAIN A, A[k] = s
        PROVE  s \in lt \/ (k \in DOMAIN B /\ B[k] = s)
    BY <2>1, <2>2
  <2> QED BY <1>2, <2>2
<1>6. ASSUME NEW s \in Len(strings) + 1 .. Len(tt)
      PROVE  /\ tt[s].freed \in 0 .. 1
             /\ tt[s].freed = 0 <=> \E k \in DOMAIN B : B[k] = s
  BY <1>2, <1>4
<1>7. ASSUME NEW k \in DOMAIN B, NEW l \in DOMAIN B,
             B[k] = B[l], B[k] \in Len(strings) + 1 .. Len(tt)
      PROVE  k = l
  BY <1>3, <1>4, <1>7
<1> QED BY <1>2, <1>3, <1>4, <1>5, <1>6, <1>7 DEF Replaces

\* The parts that a step leaves alone.
LEMMA PartStep ==
  ASSUME NEW m \in M3Module, NEW n \in M3Module, NEW name, NEW part,
         NEW ss \in Seq(String), NEW tt \in Seq(String), NEW ls, NEW lt,
         Owning(Pointers(m, name), ss, ls), Len(ss) <= Len(tt), ls \subseteq lt,
         Parts(n) = Parts(m) \union {part},
         \A i \in DOMAIN m.functions :
           \/ part = <<"function", i>>
           \/ Function_Release(n.functions[i]) = Function_Release(m.functions[i]),
         \A i \in DOMAIN m.globals :
           part = <<"global", i>> \/ n.globals[i] = m.globals[i],
         \/ part = <<"module", 0>>
         \/ /\ n.memoryImport = m.memoryImport
            /\ n.memoryExportName = m.memoryExportName
            /\ n.table0ExportName = m.table0ExportName,
         Replaces(PointersOf(m, part), Release(n, part), ss, tt, lt)
  PROVE  Owning(Pointers(n, name), tt, lt)
<1>1. ASSUME NEW other \in Parts(m) \ {part}
      PROVE  Release(n, other) = Release(m, other)
  <2>1. CASE \E i \in DOMAIN m.functions : other = <<"function", i>>
    BY <1>1, <2>1 DEF Release
  <2>2. CASE \E i \in DOMAIN m.globals : other = <<"global", i>>
    <3>1. PICK i \in DOMAIN m.globals : other = <<"global", i>>
      BY <2>2
    <3>2. n.globals[i] = m.globals[i]
      BY <1>1, <3>1
    <3>3. /\ Release(n, <<"global", i>>) = FreeImportInfo(n.globals[i].import) \o <<n.globals[i].name>>
          /\ Release(m, <<"global", i>>) = FreeImportInfo(m.globals[i].import) \o <<m.globals[i].name>>
      BY DEF Release
    <3> QED BY <3>1, <3>2, <3>3
  <2>3. CASE other = <<"module", 0>>
    BY <1>1, <2>3 DEF Release
  <2> QED BY <2>1, <2>2, <2>3 DEF Parts
<1> QED BY <1>1, Repart

-----------------------------------------------------------------------------
(***************************************************************************)
(* Each part of a module.                                                  *)
(***************************************************************************)

\* A function that is added.
LEMMA AddsFunction ==
  ASSUME Types, Held, NEW n \in M3Module, NEW f \in M3Function,
         n.functions = Append(module.functions, f), n.globals = module.globals,
         n.memoryImport = module.memoryImport, n.memoryExportName = module.memoryExportName,
         n.table0ExportName = module.table0ExportName,
         NEW tt \in Seq(String), Len(strings) <= Len(tt), NEW lt, lost \subseteq lt,
         Replaces(<<>>, Function_Release(f), strings, tt, lt)
  PROVE  Owning(Pointers(n, custom), tt, lt)
<1> DEFINE part == <<"function", Len(module.functions) + 1>>
<1>1. module \in M3Module /\ strings \in Seq(String)
  BY DEF Types
<1>2. /\ module.functions \in Seq(M3Function)
      /\ DOMAIN module.functions = 1 .. Len(module.functions) /\ Len(module.functions) \in Nat
  BY <1>1 DEF M3Module
<1>3. /\ DOMAIN n.functions = DOMAIN module.functions \union {Len(module.functions) + 1}
      /\ n.functions[Len(module.functions) + 1] = f
      /\ \A i \in DOMAIN module.functions : n.functions[i] = module.functions[i]
  BY <1>2
<1>4. Parts(n) = Parts(module) \union {part}
  BY <1>3 DEF Parts
<1>5. part \notin Parts(module)
  BY <1>2 DEF Parts
<1>6. PointersOf(module, part) = <<>>
  BY <1>5 DEF PointersOf
<1>7. Release(n, part) = Function_Release(f)
  BY <1>3 DEF Release
<1>8. \A i \in DOMAIN module.functions :
        Function_Release(n.functions[i]) = Function_Release(module.functions[i])
  BY <1>3
<1>9. \A i \in DOMAIN module.globals : n.globals[i] = module.globals[i]
  BY <1>3
<1>10. Owning(Pointers(module, custom), strings, lost)
  BY DEF Held
<1> HIDE DEF part
<1>11. Replaces(PointersOf(module, part), Release(n, part), strings, tt, lt)
  BY <1>6, <1>7
<1> QED BY ZenonT(60), <1>1, <1>4, <1>8, <1>9, <1>10, <1>11, PartStep

\* A function that changes.
LEMMA ChangesFunction ==
  ASSUME Types, Held, NEW n \in M3Module, NEW i \in DOMAIN module.functions, NEW f,
         n.functions = [module.functions EXCEPT ![i] = f], n.globals = module.globals,
         n.memoryImport = module.memoryImport, n.memoryExportName = module.memoryExportName,
         n.table0ExportName = module.table0ExportName,
         NEW tt \in Seq(String), Len(strings) <= Len(tt), NEW lt, lost \subseteq lt,
         Replaces(Release(module, <<"function", i>>), Function_Release(f), strings, tt, lt)
  PROVE  Owning(Pointers(n, custom), tt, lt)
<1> DEFINE part == <<"function", i>>
<1>1. module \in M3Module /\ strings \in Seq(String)
  BY DEF Types
<1>2. /\ DOMAIN n.functions = DOMAIN module.functions /\ n.functions[i] = f
      /\ \A j \in DOMAIN module.functions : i = j \/ n.functions[j] = module.functions[j]
  OBVIOUS
<1>3. part \in Parts(module)
  BY DEF Parts
<1>4. Parts(n) = Parts(module) \union {part}
  BY <1>2, <1>3 DEF Parts
<1>5. PointersOf(module, part) = Release(module, <<"function", i>>)
  BY <1>3 DEF PointersOf
<1>6. Release(n, part) = Function_Release(f)
  BY <1>2 DEF Release
<1>7. \A j \in DOMAIN module.functions :
        part = <<"function", j>> \/ Function_Release(n.functions[j]) = Function_Release(module.functions[j])
  BY <1>2
<1>8. \A j \in DOMAIN module.globals : part = <<"global", j>> \/ n.globals[j] = module.globals[j]
  BY <1>2
<1>9. Owning(Pointers(module, custom), strings, lost)
  BY DEF Held
<1> HIDE DEF part
<1>10. Replaces(PointersOf(module, part), Release(n, part), strings, tt, lt)
  BY <1>5, <1>6
<1> QED BY ZenonT(60), <1>1, <1>4, <1>7, <1>8, <1>9, <1>10, PartStep

\* A global that is added.
LEMMA AddsGlobal ==
  ASSUME Types, Held, NEW n \in M3Module, NEW f \in M3Global,
         n.globals = Append(module.globals, f), n.functions = module.functions,
         n.memoryImport = module.memoryImport, n.memoryExportName = module.memoryExportName,
         n.table0ExportName = module.table0ExportName,
         NEW tt \in Seq(String), Len(strings) <= Len(tt), NEW lt, lost \subseteq lt,
         Replaces(<<>>, FreeImportInfo(f.import) \o <<f.name>>, strings, tt, lt)
  PROVE  Owning(Pointers(n, custom), tt, lt)
<1> DEFINE part == <<"global", Len(module.globals) + 1>>
<1>1. module \in M3Module /\ strings \in Seq(String)
  BY DEF Types
<1>2. /\ module.globals \in Seq(M3Global)
      /\ DOMAIN module.globals = 1 .. Len(module.globals) /\ Len(module.globals) \in Nat
  BY <1>1 DEF M3Module
<1>3. /\ DOMAIN n.globals = DOMAIN module.globals \union {Len(module.globals) + 1}
      /\ n.globals[Len(module.globals) + 1] = f
      /\ \A i \in DOMAIN module.globals : n.globals[i] = module.globals[i]
  BY SMTT(40), <1>2
<1>4. Parts(n) = Parts(module) \union {part}
  BY <1>3 DEF Parts
<1>5. part \notin Parts(module)
  BY SMTT(40), <1>2 DEF Parts
<1>6. PointersOf(module, part) = <<>>
  BY <1>5 DEF PointersOf
<1>7. Release(n, part) = FreeImportInfo(f.import) \o <<f.name>>
  BY <1>3 DEF Release
<1>8. \A i \in DOMAIN module.functions :
        Function_Release(n.functions[i]) = Function_Release(module.functions[i])
  BY <1>3
<1>9. \A i \in DOMAIN module.globals : n.globals[i] = module.globals[i]
  BY <1>3
<1>10. Owning(Pointers(module, custom), strings, lost)
  BY DEF Held
<1> HIDE DEF part
<1>11. Replaces(PointersOf(module, part), Release(n, part), strings, tt, lt)
  BY <1>6, <1>7
<1> QED BY <1>1, <1>4, <1>8, <1>9, <1>10, <1>11, PartStep

\* A global that changes.
LEMMA ChangesGlobal ==
  ASSUME Types, Held, NEW n \in M3Module, NEW i \in DOMAIN module.globals, NEW f,
         n.globals = [module.globals EXCEPT ![i] = f], n.functions = module.functions,
         n.memoryImport = module.memoryImport, n.memoryExportName = module.memoryExportName,
         n.table0ExportName = module.table0ExportName,
         NEW tt \in Seq(String), Len(strings) <= Len(tt), NEW lt, lost \subseteq lt,
         Replaces(Release(module, <<"global", i>>), FreeImportInfo(f.import) \o <<f.name>>, strings, tt, lt)
  PROVE  Owning(Pointers(n, custom), tt, lt)
<1> DEFINE part == <<"global", i>>
<1>1. module \in M3Module /\ strings \in Seq(String)
  BY DEF Types
<1>2. /\ DOMAIN n.globals = DOMAIN module.globals /\ n.globals[i] = f
      /\ \A j \in DOMAIN module.globals : i = j \/ n.globals[j] = module.globals[j]
  OBVIOUS
<1>3. part \in Parts(module)
  BY DEF Parts
<1>4. Parts(n) = Parts(module) \union {part}
  BY <1>2, <1>3 DEF Parts
<1>5. PointersOf(module, part) = Release(module, <<"global", i>>)
  BY <1>3 DEF PointersOf
<1>6. Release(n, part) = FreeImportInfo(f.import) \o <<f.name>>
  BY <1>2 DEF Release
<1>7. \A j \in DOMAIN module.functions :
        part = <<"function", j>> \/ Function_Release(n.functions[j]) = Function_Release(module.functions[j])
  BY <1>2
<1>8. \A j \in DOMAIN module.globals : part = <<"global", j>> \/ n.globals[j] = module.globals[j]
  BY <1>2
<1>9. Owning(Pointers(module, custom), strings, lost)
  BY DEF Held
<1> HIDE DEF part
<1>10. Replaces(PointersOf(module, part), Release(n, part), strings, tt, lt)
  BY <1>5, <1>6
<1> QED BY ZenonT(60), <1>1, <1>4, <1>7, <1>8, <1>9, <1>10, PartStep

\* The memory and the table.
LEMMA ChangesModule ==
  ASSUME Types, Held, NEW n \in M3Module,
         n.functions = module.functions, n.globals = module.globals,
         NEW tt \in Seq(String), Len(strings) <= Len(tt), NEW lt, lost \subseteq lt,
         Replaces(Release(module, <<"module", 0>>), Release(n, <<"module", 0>>), strings, tt, lt)
  PROVE  Owning(Pointers(n, custom), tt, lt)
<1> DEFINE part == <<"module", 0>>
<1>1. module \in M3Module /\ strings \in Seq(String)
  BY DEF Types
<1>2. part \in Parts(module) /\ Parts(n) = Parts(module) \union {part}
  BY DEF Parts
<1>3. PointersOf(module, part) = Release(module, part)
  BY <1>2 DEF PointersOf
<1>4. Owning(Pointers(module, custom), strings, lost)
  BY DEF Held
<1>5. /\ \A i \in DOMAIN module.functions :
           Function_Release(n.functions[i]) = Function_Release(module.functions[i])
      /\ \A i \in DOMAIN module.globals : n.globals[i] = module.globals[i]
  OBVIOUS
<1>6. Replaces(PointersOf(module, part), Release(n, part), strings, tt, lt)
  BY <1>3
<1>7. part = <<"module", 0>>
  OBVIOUS
<1> HIDE DEF part
<1> QED BY <1>1, <1>2, <1>4, <1>5, <1>6, <1>7, PartStep

\* The pointers of a part that is there.
LEMMA HeldPart ==
  ASSUME Types, Held, NEW part \in Parts(module)
  PROVE  LET A == Release(module, part)
         IN /\ \A k, l \in DOMAIN A : A[k] = A[l] /\ A[k] # 0 => k = l
            /\ \A k \in DOMAIN A :
                 A[k] \in 0 .. Len(strings) /\ (A[k] # 0 => strings[A[k]].freed = 0)
<1>1. PointersOf(module, part) = Release(module, part)
  BY DEF PointersOf
<1>2. Owning(Pointers(module, custom), strings, lost)
  BY DEF Held
<1> DEFINE A == PointersOf(module, part)
<1>3. /\ \A k, l \in DOMAIN A : A[k] = A[l] /\ A[k] # 0 => k = l
      /\ \A k \in DOMAIN A :
           A[k] \in 0 .. Len(strings) /\ (A[k] # 0 => strings[A[k]].freed = 0)
  BY <1>2, PartOwns
<1> QED BY <1>1, <1>3

\* Every pointer stays.
LEMMA Stays ==
  ASSUME Types, Held, NEW n \in M3Module,
         n.functions = module.functions, n.globals = module.globals,
         n.memoryImport = module.memoryImport, n.memoryExportName = module.memoryExportName,
         n.table0ExportName = module.table0ExportName,
         NEW tt, NEW k \in Nat, Grows(strings, tt, k, 1)
  PROVE  tt \in Seq(String) /\ Owning(Pointers(n, custom), tt, lost)
<1> DEFINE A == Release(module, <<"module", 0>>)
           B == Release(n, <<"module", 0>>)
<1>1. A = B
  BY DEF Release
<1>2. \A j \in DOMAIN A : A[j] \in 0 .. Len(strings)
  <2>1. <<"module", 0>> \in Parts(module)
    BY DEF Parts
  <2> QED BY <2>1, HeldPart
<1> HIDE DEF A, B
<1>3. Replaces(A, B, strings, tt, lost) /\ tt \in Seq(String) /\ Len(strings) <= Len(tt)
  BY <1>1, <1>2, PartStays
<1>4. Replaces(Release(module, <<"module", 0>>), Release(n, <<"module", 0>>), strings, tt, lost)
  BY <1>3 DEF A, B
<1> QED BY <1>3, <1>4, ChangesModule

\* A function that holds no string is added.
LEMMA AddsBlank ==
  ASSUME Types, Held, NEW n \in M3Module, NEW f \in M3Function,
         f.names = <<>>, f.import = NoImport,
         n.functions = Append(module.functions, f), n.globals = module.globals,
         n.memoryImport = module.memoryImport, n.memoryExportName = module.memoryExportName,
         n.table0ExportName = module.table0ExportName,
         NEW tt, NEW k \in Nat, Grows(strings, tt, k, 1)
  PROVE  tt \in Seq(String) /\ Owning(Pointers(n, custom), tt, lost)
<1> DEFINE B == Function_Release(f)
<1>1. DOMAIN B = {1, 2} /\ B[1] = 0 /\ B[2] = 0
  <2>1. B = <<0, 0>> \o [j \in DOMAIN f.names |-> IF f.names[j] = f.import.fieldUtf8 THEN 0 ELSE f.names[j]]
    BY DEF Function_Release, FreeImportInfo, NoImport
  <2>2. [j \in DOMAIN f.names |-> IF f.names[j] = f.import.fieldUtf8 THEN 0 ELSE f.names[j]] = <<>>
    BY DEF Function_Release
  <2>3. B = <<0, 0>> \o <<>>
    BY <2>1, <2>2
  <2>4. <<0, 0>> \in Seq(Nat)
    OBVIOUS
  <2>5. B = <<0, 0>>
    BY <2>3, <2>4, ConcatEmptySeq
  <2> QED BY <2>5
<1> HIDE DEF B
<1>2. PICK A : A = <<>> /\ DOMAIN A = {}
  OBVIOUS
<1>3. Replaces(A, B, strings, tt, lost) /\ tt \in Seq(String) /\ Len(strings) <= Len(tt)
  BY <1>1, <1>2, PartStays
<1>4. Replaces(<<>>, Function_Release(f), strings, tt, lost)
  BY <1>2, <1>3 DEF B
<1> QED BY <1>3, <1>4, AddsFunction

LEMMA BlankIs ==
  /\ Blank \in M3Function /\ Blank.names = <<>> /\ Blank.import = NoImport
  /\ Blank.export_name = 0 /\ Blank.wasm = 0 /\ Blank.decl = 0
<1>1. NoImport \in Info
  BY DEF NoImport, Info
<1>2. <<>> \in Seq(Nat)
  OBVIOUS
<1> QED BY <1>1, <1>2 DEF Blank, M3Function

-----------------------------------------------------------------------------
(***************************************************************************)
(* Every step keeps the strings held.                                      *)
(***************************************************************************)

\* The section that begins is one from the expected one on.
LEMMA AfterIs ==
  ASSUME Types, NEW s, After(s) # 0
  PROVE  /\ After(s) \in 2 .. 13 /\ After(s) > expectedSection
         /\ s = sectionsOrder[After(s) - 1]
<1>1. Len(sectionsOrder) = 12 /\ DOMAIN sectionsOrder = 1 .. 12
  BY DEF sectionsOrder
<1>2. expectedSection \in Nat \ {0}
  BY DEF Types
<1>3. PICK k \in expectedSection .. 12 : sectionsOrder[k] = s
  BY <1>1 DEF After
<1>4. k \in 1 .. 12
  BY <1>2
<1>5. \A i, j \in 1 .. 12 : sectionsOrder[i] = sectionsOrder[j] => i = j
  BY DEF sectionsOrder
<1>6. (CHOOSE j \in DOMAIN sectionsOrder : sectionsOrder[j] = s) = k
  BY <1>1, <1>3, <1>4, <1>5
<1>7. After(s) = k + 1
  BY <1>1, <1>3, <1>6 DEF After
<1> QED BY <1>2, <1>3, <1>4, <1>7

LEMMA BeginsHeld ==
  ASSUME Types, Held, NEW s, Begins(s)
  PROVE  Types' /\ Held'
<1>1. CASE After(s) # 0
  <2>1. After(s) \in Nat \ {0}
    BY <1>1, AfterIs
  <2> QED BY <1>1, <2>1 DEF Begins, Types, Held
<1>2. CASE After(s) = 0
  BY <1>2 DEF Begins, Fails, Types, Held
<1> QED BY <1>1, <1>2

LEMMA EndsHeld ==
  ASSUME Types, Held, Ends
  PROVE  Types' /\ Held'
BY DEF Ends, Types, Held

LEMMA EntryFailsHeld ==
  ASSUME Types, Held, NEW k \in 0 .. 2, EntryFails(k)
  PROVE  Types' /\ Held'
<1>1. PICK tt : tt = strings \o [i \in 1 .. k |-> [text |-> "unused", freed |-> 1]]
  OBVIOUS
<1>2. strings' = tt /\ module' = module /\ custom' = custom /\ lost' = lost
  BY <1>1 DEF EntryFails
<1>3. Grows(strings, tt, k, 1)
  BY <1>1, UnusedGrows
<1>4. module \in M3Module
  BY DEF Types
<1>5. tt \in Seq(String) /\ Owning(Pointers(module, custom), tt, lost)
  BY <1>3, <1>4, Stays
<1> QED BY <1>2, <1>5 DEF EntryFails, Fails, Types, Held

LEMMA TypeEntryHeld ==
  ASSUME Types, Held, TypeEntry
  PROVE  Types' /\ Held'
<1>1. PICK n : n = [module EXCEPT !.numFuncTypes = 1]
  OBVIOUS
<1>2. module' = n /\ strings' = strings /\ custom' = custom /\ lost' = lost
  BY <1>1 DEF TypeEntry
<1>3. module \in M3Module
  BY DEF Types
<1>4. /\ n \in M3Module /\ n.functions = module.functions /\ n.globals = module.globals
      /\ n.memoryImport = module.memoryImport /\ n.memoryExportName = module.memoryExportName
      /\ n.table0ExportName = module.table0ExportName
  BY <1>1, <1>3 DEF M3Module
<1>5. strings \in Seq(String) /\ Owning(Pointers(n, custom), strings, lost)
  BY <1>4, SameGrows, Stays
<1> QED BY <1>2, <1>4, <1>5 DEF TypeEntry, Goes, Types, Held

LEMMA SegmentEntryHeld ==
  ASSUME Types, Held, NEW fits \in BOOLEAN, SegmentEntry(fits)
  PROVE  Types' /\ Held'
<1>1. PICK n : n = [module EXCEPT !.segmentsFit = @ /\ fits]
  OBVIOUS
<1>2. module' = n /\ strings' = strings /\ custom' = custom /\ lost' = lost
  BY <1>1 DEF SegmentEntry
<1>3. module \in M3Module
  BY DEF Types
<1>4. /\ n \in M3Module /\ n.functions = module.functions /\ n.globals = module.globals
      /\ n.memoryImport = module.memoryImport /\ n.memoryExportName = module.memoryExportName
      /\ n.table0ExportName = module.table0ExportName
  BY <1>1, <1>3 DEF M3Module
<1>5. strings \in Seq(String) /\ Owning(Pointers(n, custom), strings, lost)
  BY <1>4, SameGrows, Stays
<1> QED BY <1>2, <1>4, <1>5 DEF SegmentEntry, Goes, Types, Held

LEMMA ImportTableHeld ==
  ASSUME Types, Held, NEW field \in Texts, ImportTable(field)
  PROVE  Types' /\ Held'
<1>1. PICK tt : tt = m3_Free(ReadImport(field), FreeImportInfo(Import))
  OBVIOUS
<1>2. strings' = tt /\ module' = module /\ custom' = custom /\ lost' = lost
  BY <1>1 DEF ImportTable
<1>3. Grows(strings, tt, 2, 1)
  BY <1>1, ImportFreedGrows
<1>4. module \in M3Module
  BY DEF Types
<1>5. tt \in Seq(String) /\ Owning(Pointers(module, custom), tt, lost)
  BY <1>3, <1>4, Stays
<1> QED BY <1>2, <1>5 DEF ImportTable, Goes, Types, Held

\* Module_AddFunction adds the function, or a blank one.
LEMMA AddFunctionIs ==
  ASSUME Types, NEW f \in M3Function, NEW typeIndex \in Nat
  PROVE  LET n == Module_AddFunction(f, typeIndex)
             added == IF typeIndex < module.numFuncTypes THEN f ELSE Blank
         IN /\ n \in M3Module /\ added \in M3Function
            /\ n.functions = Append(module.functions, added) /\ n.globals = module.globals
            /\ n.memoryImport = module.memoryImport /\ n.memoryExportName = module.memoryExportName
            /\ n.table0ExportName = module.table0ExportName
            /\ n.numFuncImports = module.numFuncImports
            /\ n = [module EXCEPT !.functions = Append(module.functions, added)]
<1> DEFINE added == IF typeIndex < module.numFuncTypes THEN f ELSE Blank
           n == Module_AddFunction(f, typeIndex)
<1>1. added \in M3Function
  BY BlankIs
<1>2. module \in M3Module
  BY DEF Types
<1>3. n = [module EXCEPT !.functions = Append(module.functions, added)]
  BY DEF Module_AddFunction
<1> HIDE DEF added, n
<1>4. Append(module.functions, added) \in Seq(M3Function)
  <2>1. module.functions \in Seq(M3Function)
    BY <1>2 DEF M3Module
  <2> QED BY <1>1, <2>1
<1>5. /\ n \in M3Module
      /\ n.functions = Append(module.functions, added) /\ n.globals = module.globals
      /\ n.memoryImport = module.memoryImport /\ n.memoryExportName = module.memoryExportName
      /\ n.table0ExportName = module.table0ExportName
      /\ n.numFuncImports = module.numFuncImports
  BY <1>2, <1>3, <1>4 DEF M3Module
<1> QED BY <1>1, <1>3, <1>5 DEF added, n

LEMMA FunctionEntryHeld ==
  ASSUME Types, Held, NEW typeIndex \in 0 .. 1, FunctionEntry(typeIndex)
  PROVE  Types' /\ Held'
<1> DEFINE decl == Len(module.functions) - module.numFuncImports + 1
           f == [Blank EXCEPT !.decl = decl]
           added == IF typeIndex < module.numFuncTypes THEN f ELSE Blank
<1>1. f \in M3Function /\ f.names = <<>> /\ f.import = NoImport
  <2>1. module \in M3Module
    BY DEF Types
  <2>2. decl \in Int
    BY <2>1 DEF M3Module
  <2> HIDE DEF decl
  <2> QED BY <2>2, BlankIs DEF M3Function
<1>2. PICK n : n = Module_AddFunction(f, typeIndex)
  OBVIOUS
<1>3. module' = n /\ strings' = strings /\ custom' = custom /\ lost' = lost
  BY <1>2 DEF FunctionEntry
<1> HIDE DEF f
<1>4. /\ n \in M3Module /\ added \in M3Function
      /\ n.functions = Append(module.functions, added) /\ n.globals = module.globals
      /\ n.memoryImport = module.memoryImport /\ n.memoryExportName = module.memoryExportName
      /\ n.table0ExportName = module.table0ExportName
  BY <1>1, <1>2, AddFunctionIs
<1>5. added.names = <<>> /\ added.import = NoImport
  BY <1>1, BlankIs
<1> HIDE DEF added
<1>6. strings \in Seq(String) /\ Owning(Pointers(n, custom), strings, lost)
  BY <1>4, <1>5, SameGrows, AddsBlank
<1> QED BY <1>3, <1>4, <1>6 DEF FunctionEntry, Goes, Fails, Types, Held

LEMMA ImportFunctionHeld ==
  ASSUME Types, Held, NEW field \in Texts, NEW typeIndex \in 0 .. 1,
         ImportFunction(field, typeIndex)
  PROVE  Types' /\ Held'
<1> DEFINE f == [Blank EXCEPT !.import = Import, !.names = <<New + 1>>]
           added == IF typeIndex < module.numFuncTypes THEN f ELSE Blank
           a == Module_AddFunction(f, typeIndex)
<1>1. Len(strings) \in Nat /\ New + 1 = Len(strings) + 2
  BY ReadGrows, SomeTexts DEF New
<1>2. /\ f \in M3Function /\ f.names = <<New + 1>> /\ f.import = Import
  <2>1. PICK names : names = <<New + 1>>
    OBVIOUS
  <2>2. names \in Seq(Nat)
    BY <1>1, <2>1
  <2>3. f = [Blank EXCEPT !.import = Import, !.names = names]
    BY <2>1
  <2>4. Import \in Info
    BY ReadImportGrows
  <2>5. f \in M3Function /\ f.names = names /\ f.import = Import
    BY <2>2, <2>3, <2>4, BlankIs DEF M3Function
  <2> QED BY <2>1, <2>5
<1>3. CASE typeIndex < module.numFuncTypes
  <2>1. PICK n : n = [a EXCEPT !.numFuncImports = @ + 1]
    OBVIOUS
  <2>2. PICK tt : tt = ReadImport(field)
    OBVIOUS
  <2>3. module' = n /\ strings' = tt /\ custom' = custom /\ lost' = lost
    BY <1>3, <2>1, <2>2 DEF ImportFunction
  <2> HIDE DEF f
  <2>4. /\ a \in M3Module
        /\ a.functions = Append(module.functions, f) /\ a.globals = module.globals
        /\ a.memoryImport = module.memoryImport /\ a.memoryExportName = module.memoryExportName
        /\ a.table0ExportName = module.table0ExportName
    BY <1>2, <1>3, AddFunctionIs
  <2> HIDE DEF a
  <2>5. /\ n \in M3Module
        /\ n.functions = Append(module.functions, f) /\ n.globals = module.globals
        /\ n.memoryImport = module.memoryImport /\ n.memoryExportName = module.memoryExportName
        /\ n.table0ExportName = module.table0ExportName
    <3>1. PICK x \in M3Module : x = a
      BY <2>4
    <3>2. x.numFuncImports + 1 \in Nat
      BY DEF M3Module
    <3>3. n = [x EXCEPT !.numFuncImports = x.numFuncImports + 1]
      BY <2>1, <3>1
    <3>4. /\ n \in M3Module
          /\ n.functions = x.functions /\ n.globals = x.globals
          /\ n.memoryImport = x.memoryImport /\ n.memoryExportName = x.memoryExportName
          /\ n.table0ExportName = x.table0ExportName
      BY <3>2, <3>3 DEF M3Module
    <3> QED BY <2>4, <3>1, <3>4
  <2> DEFINE B == Function_Release(f)
  <2>6. /\ DOMAIN B = {1, 2, 3} /\ B[1] = Len(strings) + 1 /\ B[2] = Len(strings) + 2 /\ B[3] = 0
    <3>1. B = <<Import.moduleUtf8, Import.fieldUtf8>>
                \o [k \in DOMAIN f.names |->
                      IF f.names[k] = f.import.fieldUtf8 THEN 0 ELSE f.names[k]]
      BY <1>2 DEF Function_Release, FreeImportInfo
    <3>2. Import.moduleUtf8 = Len(strings) + 1 /\ Import.fieldUtf8 = Len(strings) + 2
      BY ReadImportGrows
    <3>3. [k \in DOMAIN f.names |->
             IF f.names[k] = f.import.fieldUtf8 THEN 0 ELSE f.names[k]] = <<0>>
      <4>1. DOMAIN f.names = 1 .. 1 /\ f.names[1] = f.import.fieldUtf8
        BY <1>1, <1>2, <3>2
      <4> QED BY <4>1
    <3>4. PICK x : x = <<Len(strings) + 1, Len(strings) + 2>>
      OBVIOUS
    <3>5. x \in Seq(Nat) /\ Len(x) = 2 /\ x[1] = Len(strings) + 1 /\ x[2] = Len(strings) + 2
      BY <1>1, <3>4
    <3>6. PICK y : y = <<0>>
      OBVIOUS
    <3>7. y \in Seq(Nat) /\ Len(y) = 1 /\ y[1] = 0
      BY <3>6
    <3>8. B = x \o y
      BY <3>1, <3>2, <3>3, <3>4, <3>6
    <3>9. x \o y \in Seq(Nat) /\ Len(x \o y) = Len(y) + 2
      BY <3>5, <3>7, AfterTwo
    <3>10. (x \o y)[1] = x[1] /\ (x \o y)[2] = x[2] /\ (x \o y)[1 + 2] = y[1]
      <4>1. 1 \in 1 .. Len(y)
        BY <3>7
      <4> QED BY <3>5, <3>7, <4>1, AfterTwo
    <3>11. DOMAIN B = 1 .. 3
      BY SMTT(40), <3>7, <3>8, <3>9
    <3> QED BY <3>5, <3>7, <3>8, <3>10, <3>11
  <2>7. Grows(strings, tt, 2, 0)
    BY <2>2, ReadImportGrows
  <2>8. PICK A : A = <<>> /\ DOMAIN A = {}
    OBVIOUS
  <2> HIDE DEF B
  <2>9. Replaces(A, B, strings, tt, lost) /\ tt \in Seq(String) /\ Len(strings) <= Len(tt)
    BY <2>6, <2>7, <2>8, PartImports
  <2>10. Replaces(<<>>, Function_Release(f), strings, tt, lost)
    BY <2>8, <2>9 DEF B
  <2>11. Owning(Pointers(n, custom), tt, lost)
    BY <1>2, <2>5, <2>9, <2>10, AddsFunction
  <2> QED BY <1>3, <2>3, <2>5, <2>9, <2>11 DEF ImportFunction, Goes, Types, Held
<1>4. CASE ~(typeIndex < module.numFuncTypes)
  <2>1. PICK n : n = a
    OBVIOUS
  <2>2. PICK tt : tt = m3_Free(ReadImport(field), FreeImportInfo(Import))
    OBVIOUS
  <2>3. module' = n /\ strings' = tt /\ custom' = custom /\ lost' = lost
    BY <1>4, <2>1, <2>2 DEF ImportFunction
  <2> HIDE DEF f
  <2>4. /\ n \in M3Module
        /\ n.functions = Append(module.functions, Blank) /\ n.globals = module.globals
        /\ n.memoryImport = module.memoryImport /\ n.memoryExportName = module.memoryExportName
        /\ n.table0ExportName = module.table0ExportName
    BY <1>2, <1>4, <2>1, AddFunctionIs
  <2>5. Grows(strings, tt, 2, 1)
    BY <2>2, ImportFreedGrows
  <2>6. tt \in Seq(String) /\ Owning(Pointers(n, custom), tt, lost)
    BY <2>4, <2>5, BlankIs, AddsBlank
  <2> QED BY <1>4, <2>3, <2>4, <2>6 DEF ImportFunction, Fails, Types, Held
<1> QED BY <1>3, <1>4

\* A global that is added to a module.
LEMMA AddGlobalIs ==
  ASSUME Types, NEW g \in M3Global
  PROVE  LET n == [module EXCEPT !.globals = Append(@, g)]
         IN /\ n \in M3Module
            /\ n.globals = Append(module.globals, g) /\ n.functions = module.functions
            /\ n.memoryImport = module.memoryImport /\ n.memoryExportName = module.memoryExportName
            /\ n.table0ExportName = module.table0ExportName
<1>1. module \in M3Module
  BY DEF Types
<1>2. Append(module.globals, g) \in Seq(M3Global)
  <2>1. module.globals \in Seq(M3Global)
    BY <1>1 DEF M3Module
  <2> QED BY <2>1
<1>3. PICK gs : gs = Append(module.globals, g)
  OBVIOUS
<1>4. PICK n : n = [module EXCEPT !.globals = gs]
  OBVIOUS
<1>5. /\ n \in M3Module
      /\ n.globals = gs /\ n.functions = module.functions
      /\ n.memoryImport = module.memoryImport /\ n.memoryExportName = module.memoryExportName
      /\ n.table0ExportName = module.table0ExportName
  BY <1>1, <1>2, <1>3, <1>4 DEF M3Module
<1> QED BY <1>3, <1>4, <1>5

LEMMA ImportMemoryHeld ==
  ASSUME Types, Held, NEW field \in Texts, ImportMemory(field)
  PROVE  Types' /\ Held'
<1>1. PICK n : n = [module EXCEPT !.memoryImport = Import, !.memoryImported = TRUE]
  OBVIOUS
<1>2. PICK tt : tt = ReadImport(field)
  OBVIOUS
<1>3. PICK lt : lt = lost \union (ToSet(FreeImportInfo(module.memoryImport)) \ {0})
  OBVIOUS
<1>4. module' = n /\ strings' = tt /\ custom' = custom /\ lost' = lt
  BY <1>1, <1>2, <1>3 DEF ImportMemory
<1>5. module \in M3Module /\ Import \in Info
  BY ReadImportGrows DEF Types
<1>6. /\ n \in M3Module /\ n.functions = module.functions /\ n.globals = module.globals
      /\ n.memoryImport = Import /\ n.memoryExportName = module.memoryExportName
      /\ n.table0ExportName = module.table0ExportName
  BY <1>1, <1>5 DEF M3Module
<1>7. /\ Grows(strings, tt, 2, 0)
      /\ Import.moduleUtf8 = Len(strings) + 1 /\ Import.fieldUtf8 = Len(strings) + 2
  BY <1>2, ReadImportGrows
<1> DEFINE A == Release(module, <<"module", 0>>)
           B == Release(n, <<"module", 0>>)
<1>8. /\ DOMAIN A = 1 .. 4 /\ A[1] = module.memoryImport.moduleUtf8
      /\ A[2] = module.memoryImport.fieldUtf8
      /\ A[3] = module.memoryExportName /\ A[4] = module.table0ExportName
  BY <1>5, ModuleReleases
<1>9. /\ DOMAIN B = 1 .. 4 /\ B[1] = Len(strings) + 1 /\ B[2] = Len(strings) + 2
      /\ B[3] = module.memoryExportName /\ B[4] = module.table0ExportName
  BY <1>6, <1>7, ModuleReleases
<1>10. \A k \in DOMAIN A : A[k] \in 0 .. Len(strings)
  <2>1. <<"module", 0>> \in Parts(module)
    BY DEF Parts
  <2> QED BY <2>1, HeldPart
<1>11. module.memoryImport.moduleUtf8 \in lt \union {0} /\ module.memoryImport.fieldUtf8 \in lt \union {0}
  <2>1. FreeImportInfo(module.memoryImport)
          = <<module.memoryImport.moduleUtf8, module.memoryImport.fieldUtf8>>
    BY DEF FreeImportInfo
  <2> QED BY <1>3, <2>1 DEF ToSet
<1> HIDE DEF A, B
<1>12. lost \subseteq lt
  BY <1>3
<1>13. \A k \in DOMAIN A \cap {1, 2} : A[k] = 0 \/ A[k] \in lt
  BY <1>8, <1>11
<1>14. /\ \A k \in DOMAIN B \ {1, 2} : B[k] = 0 \/ (k \in DOMAIN A /\ B[k] = A[k])
       /\ \A k \in DOMAIN A \ {1, 2} : A[k] = 0 \/ (k \in DOMAIN B /\ B[k] = A[k])
  BY <1>8, <1>9
<1>15. 1 \in DOMAIN B /\ 2 \in DOMAIN B
  BY <1>9
<1>16. Replaces(A, B, strings, tt, lt) /\ tt \in Seq(String) /\ Len(strings) <= Len(tt)
  BY <1>7, <1>9, <1>10, <1>13, <1>14, <1>15, PartImports
<1>17. Owning(Pointers(n, custom), tt, lt)
  BY <1>6, <1>12, <1>16, ChangesModule DEF A, B
<1> QED BY <1>4, <1>6, <1>16, <1>17 DEF ImportMemory, Goes, Types, Held

LEMMA ImportGlobalHeld ==
  ASSUME Types, Held, NEW field \in Texts, ImportGlobal(field)
  PROVE  Types' /\ Held'
<1> DEFINE g == [name |-> 0, import |-> Import]
<1>1. g \in M3Global /\ g.name = 0 /\ g.import = Import
  BY ReadImportGrows DEF M3Global
<1>2. PICK n : n = [module EXCEPT !.globals = Append(@, g)]
  OBVIOUS
<1>3. PICK tt : tt = ReadImport(field)
  OBVIOUS
<1>4. module' = n /\ strings' = tt /\ custom' = custom /\ lost' = lost
  BY <1>2, <1>3 DEF ImportGlobal
<1> HIDE DEF g
<1>5. /\ n \in M3Module
      /\ n.globals = Append(module.globals, g) /\ n.functions = module.functions
      /\ n.memoryImport = module.memoryImport /\ n.memoryExportName = module.memoryExportName
      /\ n.table0ExportName = module.table0ExportName
  BY <1>1, <1>2, AddGlobalIs
<1>6. /\ Grows(strings, tt, 2, 0)
      /\ Import.moduleUtf8 = Len(strings) + 1 /\ Import.fieldUtf8 = Len(strings) + 2
  BY <1>3, ReadImportGrows
<1> DEFINE B == FreeImportInfo(g.import) \o <<g.name>>
<1>7. DOMAIN B = 1 .. 3 /\ B[1] = Len(strings) + 1 /\ B[2] = Len(strings) + 2 /\ B[3] = 0
  BY <1>1, <1>6, GlobalReleases
<1>8. PICK A : A = <<>> /\ DOMAIN A = {}
  OBVIOUS
<1> HIDE DEF B
<1>9. Replaces(A, B, strings, tt, lost) /\ tt \in Seq(String) /\ Len(strings) <= Len(tt)
  <2>1. 1 \in DOMAIN B /\ 2 \in DOMAIN B /\ \A k \in DOMAIN B \ {1, 2} : B[k] = 0
    BY <1>7
  <2> QED BY <1>6, <1>7, <1>8, <2>1, PartImports
<1>10. Replaces(<<>>, FreeImportInfo(g.import) \o <<g.name>>, strings, tt, lost)
  BY <1>8, <1>9 DEF B
<1>11. Owning(Pointers(n, custom), tt, lost)
  BY <1>1, <1>5, <1>9, <1>10, AddsGlobal
<1> QED BY <1>4, <1>5, <1>9, <1>11 DEF ImportGlobal, Goes, Types, Held

LEMMA GlobalEntryHeld ==
  ASSUME Types, Held, NEW hasInitExpr \in BOOLEAN, GlobalEntry(hasInitExpr)
  PROVE  Types' /\ Held'
<1> DEFINE g == [name |-> 0, import |-> NoImport]
<1>1. g \in M3Global /\ g.name = 0 /\ g.import = NoImport
  BY DEF M3Global, NoImport, Info
<1>2. PICK n : n = [module EXCEPT !.globals = Append(@, g)]
  OBVIOUS
<1>3. module' = n /\ strings' = strings /\ custom' = custom /\ lost' = lost
  BY <1>2 DEF GlobalEntry
<1> HIDE DEF g
<1>4. /\ n \in M3Module
      /\ n.globals = Append(module.globals, g) /\ n.functions = module.functions
      /\ n.memoryImport = module.memoryImport /\ n.memoryExportName = module.memoryExportName
      /\ n.table0ExportName = module.table0ExportName
  BY <1>1, <1>2, AddGlobalIs
<1> DEFINE B == FreeImportInfo(g.import) \o <<g.name>>
<1>5. DOMAIN B = 1 .. 3 /\ B[1] = 0 /\ B[2] = 0 /\ B[3] = 0
  <2>1. NoImport.moduleUtf8 = 0 /\ NoImport.fieldUtf8 = 0
    BY DEF NoImport
  <2> QED BY <1>1, <2>1, GlobalReleases
<1>6. PICK A : A = <<>> /\ DOMAIN A = {}
  OBVIOUS
<1> HIDE DEF B
<1>7. Replaces(A, B, strings, strings, lost) /\ strings \in Seq(String) /\ Len(strings) <= Len(strings)
  <2>1. \A k \in DOMAIN B : B[k] = 0
    BY <1>5
  <2> QED BY <1>6, <2>1, SameGrows, PartStays
<1>8. Replaces(<<>>, FreeImportInfo(g.import) \o <<g.name>>, strings, strings, lost)
  BY <1>6, <1>7 DEF B
<1>9. Owning(Pointers(n, custom), strings, lost)
  BY <1>1, <1>4, <1>7, <1>8, AddsGlobal
<1> QED BY <1>3, <1>4, <1>9 DEF GlobalEntry, Goes, Fails, Types, Held

LEMMA ExportMemoryHeld ==
  ASSUME Types, Held, NEW text \in Texts, ExportMemory(text)
  PROVE  Types' /\ Held'
<1> DEFINE x == module.memoryExportName
<1>1. PICK n : n = [module EXCEPT !.memoryExportName = New]
  OBVIOUS
<1>2. PICK tt : tt = m3_Free(Read(text), <<x>>)
  OBVIOUS
<1>3. module' = n /\ strings' = tt /\ custom' = custom /\ lost' = lost
  BY <1>1, <1>2 DEF ExportMemory
<1>4. module \in M3Module /\ New = Len(strings) + 1 /\ Len(strings) \in Nat
  BY ReadGrows, SomeTexts DEF Types
<1>5. /\ n \in M3Module /\ n.functions = module.functions /\ n.globals = module.globals
      /\ n.memoryImport = module.memoryImport /\ n.memoryExportName = New
      /\ n.table0ExportName = module.table0ExportName
  BY SMTT(40), <1>1, <1>4 DEF M3Module
<1> DEFINE A == Release(module, <<"module", 0>>)
           B == Release(n, <<"module", 0>>)
<1>6. /\ DOMAIN A = 1 .. 4 /\ A[1] = module.memoryImport.moduleUtf8
      /\ A[2] = module.memoryImport.fieldUtf8
      /\ A[3] = module.memoryExportName /\ A[4] = module.table0ExportName
  BY <1>4, ModuleReleases
<1>7. /\ DOMAIN B = 1 .. 4 /\ B[1] = n.memoryImport.moduleUtf8
      /\ B[2] = n.memoryImport.fieldUtf8
      /\ B[3] = n.memoryExportName /\ B[4] = n.table0ExportName
  BY <1>5, ModuleReleases
<1>8. /\ \A k, l \in DOMAIN A : A[k] = A[l] /\ A[k] # 0 => k = l
      /\ \A k \in DOMAIN A :
           A[k] \in 0 .. Len(strings) /\ (A[k] # 0 => strings[A[k]].freed = 0)
  <2>1. <<"module", 0>> \in Parts(module)
    BY DEF Parts
  <2> QED BY <2>1, HeldPart
<1> HIDE DEF A, B
<1>9. x \in 0 .. Len(strings) /\ A[3] = x
  <2>1. 3 \in DOMAIN A /\ A[3] = x
    BY <1>6
  <2> QED BY <1>8, <2>1
<1> HIDE DEF x
<1>10. /\ tt \in Seq(String) /\ Len(tt) = Len(strings) + 1
       /\ \A s \in DOMAIN strings :
            tt[s].freed = IF s = x THEN strings[s].freed + 1 ELSE strings[s].freed
       /\ \A s \in Len(strings) + 1 .. Len(tt) : tt[s].freed = 0
  BY SMTT(40), <1>2, <1>9, ReadInsteadIs, SomeTexts
<1>11. /\ 3 \in DOMAIN B /\ 3 \in DOMAIN A /\ B[3] = Len(strings) + 1
       /\ \A k \in DOMAIN B \ {3} : k \in DOMAIN A /\ B[k] = A[k]
       /\ \A k \in DOMAIN A \ {3} : k \in DOMAIN B /\ B[k] = A[k]
  BY <1>4, <1>5, <1>6, <1>7
<1>12. Replaces(A, B, strings, tt, lost) /\ Len(strings) <= Len(tt)
  <2>1. ReadInto(A, B, 3, x, tt)
    BY <1>8, <1>9, <1>10, <1>11 DEF ReadInto
  <2> QED BY <2>1, PartGains
<1>13. Owning(Pointers(n, custom), tt, lost)
  BY <1>5, <1>10, <1>12, ChangesModule DEF A, B
<1> QED BY <1>3, <1>5, <1>10, <1>13 DEF ExportMemory, Goes, Types, Held

LEMMA ExportTableHeld ==
  ASSUME Types, Held, NEW text \in Texts, ExportTable(text)
  PROVE  Types' /\ Held'
<1> DEFINE x == module.table0ExportName
<1>1. PICK n : n = [module EXCEPT !.table0ExportName = New]
  OBVIOUS
<1>2. PICK tt : tt = m3_Free(Read(text), <<x>>)
  OBVIOUS
<1>3. module' = n /\ strings' = tt /\ custom' = custom /\ lost' = lost
  BY <1>1, <1>2 DEF ExportTable
<1>4. module \in M3Module /\ New = Len(strings) + 1 /\ Len(strings) \in Nat
  BY ReadGrows, SomeTexts DEF Types
<1>5. /\ n \in M3Module /\ n.functions = module.functions /\ n.globals = module.globals
      /\ n.memoryImport = module.memoryImport /\ n.table0ExportName = New
      /\ n.memoryExportName = module.memoryExportName
  BY SMTT(40), <1>1, <1>4 DEF M3Module
<1> DEFINE A == Release(module, <<"module", 0>>)
           B == Release(n, <<"module", 0>>)
<1>6. /\ DOMAIN A = 1 .. 4 /\ A[1] = module.memoryImport.moduleUtf8
      /\ A[2] = module.memoryImport.fieldUtf8
      /\ A[3] = module.memoryExportName /\ A[4] = module.table0ExportName
  BY <1>4, ModuleReleases
<1>7. /\ DOMAIN B = 1 .. 4 /\ B[1] = n.memoryImport.moduleUtf8
      /\ B[2] = n.memoryImport.fieldUtf8
      /\ B[3] = n.memoryExportName /\ B[4] = n.table0ExportName
  BY <1>5, ModuleReleases
<1>8. /\ \A k, l \in DOMAIN A : A[k] = A[l] /\ A[k] # 0 => k = l
      /\ \A k \in DOMAIN A :
           A[k] \in 0 .. Len(strings) /\ (A[k] # 0 => strings[A[k]].freed = 0)
  <2>1. <<"module", 0>> \in Parts(module)
    BY DEF Parts
  <2> QED BY <2>1, HeldPart
<1> HIDE DEF A, B
<1>9. x \in 0 .. Len(strings) /\ A[4] = x
  <2>1. 4 \in DOMAIN A /\ A[4] = x
    BY <1>6
  <2> QED BY <1>8, <2>1
<1> HIDE DEF x
<1>10. /\ tt \in Seq(String) /\ Len(tt) = Len(strings) + 1
       /\ \A s \in DOMAIN strings :
            tt[s].freed = IF s = x THEN strings[s].freed + 1 ELSE strings[s].freed
       /\ \A s \in Len(strings) + 1 .. Len(tt) : tt[s].freed = 0
  <2>1. text \in AllTexts
    BY SomeTexts
  <2> QED BY <1>2, <1>9, <2>1, ReadInsteadIs
<1>11. /\ 4 \in DOMAIN B /\ 4 \in DOMAIN A /\ B[4] = Len(strings) + 1
       /\ \A k \in DOMAIN B \ {4} : k \in DOMAIN A /\ B[k] = A[k]
       /\ \A k \in DOMAIN A \ {4} : k \in DOMAIN B /\ B[k] = A[k]
  BY <1>4, <1>5, <1>6, <1>7
<1>12. Replaces(A, B, strings, tt, lost) /\ Len(strings) <= Len(tt)
  <2>1. ReadInto(A, B, 4, x, tt)
    BY <1>8, <1>9, <1>10, <1>11 DEF ReadInto
  <2> QED BY <2>1, PartGains
<1>13. Owning(Pointers(n, custom), tt, lost)
  BY <1>5, <1>10, <1>12, ChangesModule DEF A, B
<1> QED BY <1>3, <1>5, <1>10, <1>13 DEF ExportTable, Goes, Types, Held

LEMMA ExportGlobalHeld ==
  ASSUME Types, Held, NEW index \in Nat, NEW text \in Texts, ExportGlobal(index, text)
  PROVE  Types' /\ Held'
<1>1. CASE index \notin DOMAIN module.globals
  <2>1. PICK tt : tt = m3_Free(Read(text), <<New>>)
    OBVIOUS
  <2>2. strings' = tt /\ module' = module /\ custom' = custom /\ lost' = lost
    BY <1>1, <2>1 DEF ExportGlobal
  <2>3. Grows(strings, tt, 1, 1) /\ module \in M3Module
    BY <2>1, ReadFreedGrows, SomeTexts DEF Types
  <2>4. tt \in Seq(String) /\ Owning(Pointers(module, custom), tt, lost)
    BY <2>3, Stays
  <2> QED BY <1>1, <2>2, <2>4 DEF ExportGlobal, Fails, Types, Held
<1>2. CASE index \in DOMAIN module.globals
  <2> DEFINE old == module.globals[index]
             g == [old EXCEPT !.name = New]
             x == old.name
             part == <<"global", index>>
  <2>1. PICK n : n = [module EXCEPT !.globals[index].name = New]
    OBVIOUS
  <2>2. PICK tt : tt = m3_Free(Read(text), <<x>>)
    OBVIOUS
  <2>3. module' = n /\ strings' = tt /\ custom' = custom /\ lost' = lost
    BY <1>2, <2>1, <2>2 DEF ExportGlobal
  <2>4. module \in M3Module /\ New = Len(strings) + 1 /\ Len(strings) \in Nat
    BY ReadGrows, SomeTexts DEF Types
  <2>5. module.globals \in Seq(M3Global)
    BY <2>4 DEF M3Module
  <2>6. old \in M3Global
    BY <1>2, <2>5
  <2>7. g \in M3Global /\ g.import = old.import /\ g.name = New
    <3> HIDE DEF old
    <3> QED BY <2>4, <2>6 DEF M3Global
  <2>8. PICK gs : gs = [module.globals EXCEPT ![index] = g]
    OBVIOUS
  <2>9. gs \in Seq(M3Global)
    <3> HIDE DEF g
    <3> QED BY <1>2, <2>5, <2>7, <2>8
  <2>10. n = [module EXCEPT !.globals = gs]
    BY <1>2, <2>1, <2>4, <2>8 DEF M3Module
  <2>11. /\ n \in M3Module /\ n.functions = module.functions /\ n.globals = gs
         /\ n.memoryImport = module.memoryImport /\ n.memoryExportName = module.memoryExportName
         /\ n.table0ExportName = module.table0ExportName
    BY <2>4, <2>9, <2>10 DEF M3Module
  <2> DEFINE A == Release(module, part)
             B == FreeImportInfo(g.import) \o <<g.name>>
  <2>12. A = FreeImportInfo(old.import) \o <<old.name>>
    BY DEF Release
  <2>13. /\ DOMAIN A = 1 .. 3 /\ A[1] = old.import.moduleUtf8 /\ A[2] = old.import.fieldUtf8
         /\ A[3] = x
    BY <2>6, <2>12, GlobalReleases
  <2>14. /\ DOMAIN B = 1 .. 3 /\ B[1] = old.import.moduleUtf8 /\ B[2] = old.import.fieldUtf8
         /\ B[3] = Len(strings) + 1
    <3> HIDE DEF g, old
    <3> QED BY <2>4, <2>7, GlobalReleases
  <2>15. /\ \A k, l \in DOMAIN A : A[k] = A[l] /\ A[k] # 0 => k = l
         /\ \A k \in DOMAIN A :
              A[k] \in 0 .. Len(strings) /\ (A[k] # 0 => strings[A[k]].freed = 0)
    <3>1. part \in Parts(module)
      BY <1>2 DEF Parts
    <3> QED BY <3>1, HeldPart
  <2> HIDE DEF A, B, old, g
  <2>16. x \in 0 .. Len(strings)
    <3>1. 3 \in DOMAIN A
      BY <2>13
    <3> QED BY <2>13, <2>15, <3>1
  <2> HIDE DEF x
  <2>17. /\ tt \in Seq(String) /\ Len(tt) = Len(strings) + 1
         /\ \A s \in DOMAIN strings :
              tt[s].freed = IF s = x THEN strings[s].freed + 1 ELSE strings[s].freed
         /\ \A s \in Len(strings) + 1 .. Len(tt) : tt[s].freed = 0
    BY SMTT(40), <2>2, <2>16, ReadInsteadIs, SomeTexts
  <2>18. /\ 3 \in DOMAIN B /\ 3 \in DOMAIN A
         /\ \A k \in DOMAIN B \ {3} : k \in DOMAIN A /\ B[k] = A[k]
         /\ \A k \in DOMAIN A \ {3} : k \in DOMAIN B /\ B[k] = A[k]
    BY <2>13, <2>14
  <2>19. Replaces(A, B, strings, tt, lost) /\ Len(strings) <= Len(tt)
    <3>1. ReadInto(A, B, 3, x, tt)
      BY <2>13, <2>14, <2>15, <2>16, <2>17, <2>18 DEF ReadInto
    <3> QED BY <3>1, PartGains
  <2>20. Replaces(Release(module, <<"global", index>>), FreeImportInfo(g.import) \o <<g.name>>,
                  strings, tt, lost)
    BY <2>19 DEF A, B
  <2>21. Owning(Pointers(n, custom), tt, lost)
    BY <1>2, <2>8, <2>11, <2>17, <2>19, <2>20, ChangesGlobal
  <2> QED BY <1>2, <2>3, <2>11, <2>17, <2>21 DEF ExportGlobal, Goes, Types, Held
<1> QED BY <1>1, <1>2

\* A function of the module that changes.
LEMMA SetFunctionIs ==
  ASSUME Types, NEW i \in DOMAIN module.functions, NEW f \in M3Function, NEW bodies \in Nat
  PROVE  LET n == [module EXCEPT !.functions = [@ EXCEPT ![i] = f], !.bodies = bodies]
         IN /\ n \in M3Module
            /\ n.functions = [module.functions EXCEPT ![i] = f] /\ n.globals = module.globals
            /\ n.memoryImport = module.memoryImport /\ n.memoryExportName = module.memoryExportName
            /\ n.table0ExportName = module.table0ExportName
            /\ n.numFuncImports = module.numFuncImports
<1>1. module \in M3Module
  BY DEF Types
<1>2. module.functions \in Seq(M3Function)
  BY <1>1 DEF M3Module
<1>3. PICK fs : fs = [module.functions EXCEPT ![i] = f]
  OBVIOUS
<1>4. fs \in Seq(M3Function)
  BY <1>2, <1>3
<1>5. PICK n : n = [module EXCEPT !.functions = fs, !.bodies = bodies]
  OBVIOUS
<1>6. /\ n \in M3Module
      /\ n.functions = fs /\ n.globals = module.globals
      /\ n.memoryImport = module.memoryImport /\ n.memoryExportName = module.memoryExportName
      /\ n.table0ExportName = module.table0ExportName
      /\ n.numFuncImports = module.numFuncImports
  BY <1>1, <1>4, <1>5 DEF M3Module
<1>7. n = [module EXCEPT !.functions = [@ EXCEPT ![i] = f], !.bodies = bodies]
  BY <1>3, <1>5
<1> QED BY <1>3, <1>6, <1>7

\* A function that has one more name, the string that is read.
LEMMA NamesFunction ==
  ASSUME Types, Held, NEW text \in Texts, NEW i \in DOMAIN module.functions, NEW f \in M3Function,
         f.names = Append(module.functions[i].names, New),
         f.import = module.functions[i].import,
         NEW n \in M3Module,
         n.functions = [module.functions EXCEPT ![i] = f], n.globals = module.globals,
         n.memoryImport = module.memoryImport, n.memoryExportName = module.memoryExportName,
         n.table0ExportName = module.table0ExportName
  PROVE  Read(text) \in Seq(String) /\ Owning(Pointers(n, custom), Read(text), lost)
<1> DEFINE old == module.functions[i]
           part == <<"function", i>>
           A == Release(module, part)
           B == Function_Release(f)
<1>1. module \in M3Module /\ New = Len(strings) + 1 /\ Len(strings) \in Nat
  BY ReadGrows, SomeTexts DEF Types
<1>2. old \in M3Function
  BY SMTT(40), <1>1 DEF M3Module
<1>3. A = Function_Release(old)
  BY DEF Release
<1>4. PICK len \in Nat : len = Len(old.names)
  BY <1>2, FunctionReleases
<1>5. /\ DOMAIN A = 1 .. len + 2
      /\ A[1] = old.import.moduleUtf8 /\ A[2] = old.import.fieldUtf8
      /\ \A k \in 1 .. len :
           A[k + 2] = IF old.names[k] = old.import.fieldUtf8 THEN 0 ELSE old.names[k]
  <2>1. PICK g \in M3Function : g = old
    BY <1>2
  <2>2. PICK ps : ps = Function_Release(g)
    OBVIOUS
  <2>3. /\ DOMAIN ps = 1 .. Len(g.names) + 2 /\ Len(g.names) \in Nat
        /\ ps[1] = g.import.moduleUtf8 /\ ps[2] = g.import.fieldUtf8
        /\ \A k \in 1 .. Len(g.names) :
             ps[k + 2] = IF g.names[k] = g.import.fieldUtf8 THEN 0 ELSE g.names[k]
    BY SMTT(40), <2>2, FunctionReleases
  <2>4. A = ps
    BY <1>3, <2>1, <2>2
  <2> HIDE DEF A, old
  <2> QED BY <1>4, <2>1, <2>3, <2>4
<1>6. /\ Len(f.names) = len + 1 /\ f.names[len + 1] = New
      /\ \A k \in 1 .. len : f.names[k] = old.names[k]
  <2>1. old.names \in Seq(Nat)
    BY <1>2 DEF M3Function
  <2> HIDE DEF old
  <2> QED BY <1>1, <1>4, <2>1 DEF old
<1>7. /\ DOMAIN B = 1 .. len + 3
      /\ B[1] = old.import.moduleUtf8 /\ B[2] = old.import.fieldUtf8
      /\ \A k \in 1 .. len + 1 :
           B[k + 2] = IF f.names[k] = old.import.fieldUtf8 THEN 0 ELSE f.names[k]
  <2>1. PICK ps : ps = Function_Release(f)
    OBVIOUS
  <2>2. /\ DOMAIN ps = 1 .. Len(f.names) + 2 /\ Len(f.names) \in Nat
        /\ ps[1] = f.import.moduleUtf8 /\ ps[2] = f.import.fieldUtf8
        /\ \A k \in 1 .. Len(f.names) :
             ps[k + 2] = IF f.names[k] = f.import.fieldUtf8 THEN 0 ELSE f.names[k]
    BY <2>1, FunctionReleases
  <2>3. B = ps
    BY <2>1
  <2>4. (len + 1) + 2 = len + 3 /\ f.import = old.import
    OBVIOUS
  <2> HIDE DEF B, old
  <2> QED BY SMTT(40), <1>6, <2>2, <2>3, <2>4
<1>8. /\ \A k, l \in DOMAIN A : A[k] = A[l] /\ A[k] # 0 => k = l
      /\ \A k \in DOMAIN A :
           A[k] \in 0 .. Len(strings) /\ (A[k] # 0 => strings[A[k]].freed = 0)
  <2>1. part \in Parts(module)
    BY DEF Parts
  <2> QED BY <2>1, HeldPart
<1> HIDE DEF A, B, old
<1>9. old.import.fieldUtf8 \in 0 .. Len(strings)
  BY <1>5, <1>8
<1>10. len + 3 \in DOMAIN B /\ len + 3 \notin DOMAIN A /\ B[len + 3] = Len(strings) + 1
  <2>1. len + 1 \in 1 .. len + 1 /\ (len + 1) + 2 = len + 3 /\ New # old.import.fieldUtf8
    BY <1>1, <1>9
  <2>2. B[len + 3] = New
    BY <1>6, <1>7, <2>1
  <2> QED BY <1>1, <1>5, <1>7, <2>2
<1>11. ASSUME NEW k \in 1 .. len + 2
       PROVE  A[k] = B[k]
  <2>1. CASE k = 1 \/ k = 2
    BY <1>5, <1>7, <2>1
  <2>2. CASE k - 2 \in 1 .. len
    <3>1. PICK j \in 1 .. len : k = j + 2
      BY <2>2
    <3>2. j \in 1 .. len + 1
      OBVIOUS
    <3>3. A[j + 2] = IF old.names[j] = old.import.fieldUtf8 THEN 0 ELSE old.names[j]
      BY <1>5
    <3>4. B[j + 2] = IF f.names[j] = old.import.fieldUtf8 THEN 0 ELSE f.names[j]
      BY <1>7, <3>2
    <3>5. f.names[j] = old.names[j]
      BY <1>6
    <3> QED BY <3>1, <3>3, <3>4, <3>5
  <2> QED BY <2>1, <2>2
<1>12. PICK at : at = len + 3
  OBVIOUS
<1>13. /\ at \in DOMAIN B /\ at \notin DOMAIN A /\ B[at] = Len(strings) + 1
       /\ \A k \in DOMAIN B \ {at} : k \in DOMAIN A /\ B[k] = A[k]
       /\ \A k \in DOMAIN A \ {at} : k \in DOMAIN B /\ B[k] = A[k]
  BY <1>5, <1>7, <1>10, <1>11, <1>12
<1>14. PICK tt : tt = Read(text)
  OBVIOUS
<1>15. /\ tt \in Seq(String) /\ Len(tt) = Len(strings) + 1
       /\ \A s \in DOMAIN strings : tt[s] = strings[s]
       /\ \A s \in Len(strings) + 1 .. Len(tt) : tt[s].freed = 0
  <2>1. text \in AllTexts
    BY SomeTexts
  <2> QED BY <1>14, <2>1, ReadGrows DEF Grows
<1>16. DOMAIN strings = 1 .. Len(strings)
  BY DEF Types
<1>17. PICK x \in 0 .. Len(strings) : x = 0
  BY <1>1
<1>18. \A s \in DOMAIN strings :
         tt[s].freed = IF s = x THEN strings[s].freed + 1 ELSE strings[s].freed
  BY <1>15, <1>16, <1>17
<1>19. Replaces(A, B, strings, tt, lost) /\ Len(strings) <= Len(tt)
  <2>1. ReadInto(A, B, at, x, tt)
    BY <1>8, <1>13, <1>15, <1>17, <1>18 DEF ReadInto
  <2> QED BY <2>1, PartGains
<1>20. Replaces(Release(module, <<"function", i>>), Function_Release(f), strings, tt, lost)
  BY <1>19 DEF A, B
<1>21. Owning(Pointers(n, custom), tt, lost)
  BY <1>15, <1>19, <1>20, ChangesFunction
<1> QED BY <1>14, <1>15, <1>21

LEMMA ExportFunctionHeld ==
  ASSUME Types, Held, NEW index \in Nat, NEW text \in Texts, ExportFunction(index, text)
  PROVE  Types' /\ Held'
<1> DEFINE f == module.functions[index]
<1>1. module \in M3Module /\ New = Len(strings) + 1 /\ Len(strings) \in Nat
  BY ReadGrows, SomeTexts DEF Types
<1>2. CASE index \in DOMAIN module.functions /\ Len(f.names) < MaxNames
  <2> DEFINE g == [f EXCEPT !.names = Append(@, New), !.export_name = New]
             n == [module EXCEPT !.functions = [@ EXCEPT ![index] = g], !.bodies = module.bodies]
  <2>1. f \in M3Function
    BY SMTT(40), <1>1, <1>2 DEF M3Module
  <2>2. PICK names : names = Append(f.names, New)
    OBVIOUS
  <2>3. names \in Seq(Nat)
    BY SMTT(40), <1>1, <2>1, <2>2 DEF M3Function
  <2>4. g = [f EXCEPT !.names = names, !.export_name = New]
    BY <2>2
  <2>5. g \in M3Function /\ g.names = Append(f.names, New) /\ g.import = f.import
    <3>1. PICK h \in M3Function : h = f
      BY <2>1
    <3>2. g = [h EXCEPT !.names = names, !.export_name = New] /\ New \in Nat
      BY <1>1, <2>4, <3>1
    <3>3. g \in M3Function /\ g.names = names /\ g.import = h.import
      BY <2>3, <3>2 DEF M3Function
    <3> QED BY <2>2, <3>1, <3>3
  <2>6. module' = n
    <3>1. module' = [module EXCEPT !.functions[index].names = Append(@, New),
                                   !.functions[index].export_name = New]
      BY <1>2 DEF ExportFunction
    <3> QED BY ZenonT(60), <1>1, <1>2, <3>1 DEF M3Module
  <2>7. strings' = Read(text) /\ custom' = custom /\ lost' = lost
    BY <1>2 DEF ExportFunction
  <2>8. module.bodies \in Nat
    BY SMTT(40), <1>1 DEF M3Module
  <2> HIDE DEF g
  <2>9. /\ n \in M3Module
        /\ n.functions = [module.functions EXCEPT ![index] = g] /\ n.globals = module.globals
        /\ n.memoryImport = module.memoryImport /\ n.memoryExportName = module.memoryExportName
        /\ n.table0ExportName = module.table0ExportName
    BY ZenonT(60), <1>2, <2>5, <2>8, SetFunctionIs
  <2> HIDE DEF n
  <2>10. Read(text) \in Seq(String) /\ Owning(Pointers(n, custom), Read(text), lost)
    BY <1>2, <2>5, <2>9, NamesFunction
  <2>11. exported' = exported \union {<<text, index>>}
         /\ expectedSection' = expectedSection /\ stage' = stage
    BY <1>2 DEF ExportFunction
  <2> QED BY <2>6, <2>7, <2>9, <2>10, <2>11 DEF Types, Held
<1>3. CASE ~(index \in DOMAIN module.functions /\ Len(f.names) < MaxNames)
  <2>1. PICK tt : tt = m3_Free(Read(text), <<New>>)
    OBVIOUS
  <2>2. strings' = tt /\ module' = module /\ custom' = custom /\ lost' = lost
    BY <1>3, <2>1 DEF ExportFunction
  <2>3. Grows(strings, tt, 1, 1)
    BY <2>1, ReadFreedGrows, SomeTexts
  <2>4. tt \in Seq(String) /\ Owning(Pointers(module, custom), tt, lost)
    BY <1>1, <2>3, Stays
  <2>5. /\ exported' \subseteq exported \union {<<text, index>>}
        /\ expectedSection' = expectedSection /\ stage' \in {stage, "failed"}
    BY <1>3 DEF ExportFunction, Fails
  <2> QED BY <2>2, <2>4, <2>5 DEF Types, Held
<1> QED BY <1>2, <1>3

LEMMA NameEntryHeld ==
  ASSUME Types, Held, NEW index \in Nat, NEW text \in Texts, NameEntry(index, text)
  PROVE  Types' /\ Held'
<1> DEFINE f == module.functions[index]
<1>1. module \in M3Module /\ New = Len(strings) + 1 /\ Len(strings) \in Nat
  BY ReadGrows, SomeTexts DEF Types
<1>2. CASE index \in DOMAIN module.functions /\ f.names = <<>>
  <2> DEFINE g == [f EXCEPT !.names = <<New>>]
             n == [module EXCEPT !.functions = [@ EXCEPT ![index] = g], !.bodies = module.bodies]
  <2>1. f \in M3Function
    BY SMTT(40), <1>1, <1>2 DEF M3Module
  <2>2. PICK names : names = <<New>>
    OBVIOUS
  <2>3. names \in Seq(Nat) /\ names = Append(f.names, New)
    BY <1>1, <1>2, <2>2
  <2>4. g = [f EXCEPT !.names = names]
    BY <2>2
  <2>5. g \in M3Function /\ g.names = Append(f.names, New) /\ g.import = f.import
    <3> HIDE DEF f
    <3> QED BY <1>1, <2>1, <2>3, <2>4 DEF M3Function
  <2>6. module' = n
    <3>1. module' = [module EXCEPT !.functions[index].names = <<New>>]
      BY <1>2 DEF NameEntry
    <3> QED BY <1>1, <1>2, <3>1 DEF M3Module
  <2>7. strings' = Read(text) /\ custom' = custom /\ lost' = lost
    BY <1>2 DEF NameEntry
  <2>8. module.bodies \in Nat
    BY <1>1 DEF M3Module
  <2> HIDE DEF g
  <2>9. /\ n \in M3Module
        /\ n.functions = [module.functions EXCEPT ![index] = g] /\ n.globals = module.globals
        /\ n.memoryImport = module.memoryImport /\ n.memoryExportName = module.memoryExportName
        /\ n.table0ExportName = module.table0ExportName
    BY ZenonT(60), <1>2, <2>5, <2>8, SetFunctionIs
  <2> HIDE DEF n
  <2>10. Read(text) \in Seq(String) /\ Owning(Pointers(n, custom), Read(text), lost)
    BY <1>2, <2>5, <2>9, NamesFunction
  <2> QED BY <2>6, <2>7, <2>9, <2>10 DEF NameEntry, Goes, Types, Held
<1>3. CASE ~(index \in DOMAIN module.functions /\ f.names = <<>>)
  <2>1. PICK tt : tt = m3_Free(Read(text), <<New>>)
    OBVIOUS
  <2>2. strings' = tt /\ module' = module /\ custom' = custom /\ lost' = lost
    BY <1>3, <2>1 DEF NameEntry
  <2>3. Grows(strings, tt, 1, 1)
    BY <2>1, ReadFreedGrows, SomeTexts
  <2>4. tt \in Seq(String) /\ Owning(Pointers(module, custom), tt, lost)
    BY <1>1, <2>3, Stays
  <2> QED BY <2>2, <2>4 DEF NameEntry, Goes, Types, Held
<1> QED BY <1>2, <1>3

LEMMA CodeEntryHeld ==
  ASSUME Types, Held, NEW isEmpty \in BOOLEAN, CodeEntry(isEmpty)
  PROVE  Types' /\ Held'
<1> DEFINE i == module.numFuncImports + module.bodies + 1
           f == module.functions[i]
           g == [f EXCEPT !.wasm = IF isEmpty THEN @ ELSE module.bodies + 1]
           n == [module EXCEPT !.functions = [@ EXCEPT ![i] = g], !.bodies = module.bodies + 1]
<1>1. module \in M3Module /\ i \in DOMAIN module.functions
  BY DEF Types, CodeEntry
<1>2. f \in M3Function /\ module.bodies \in Nat
  BY <1>1 DEF M3Module
<1>3. PICK old \in M3Function : old = f
  BY <1>2
<1>4. PICK wasm \in Nat : wasm = IF isEmpty THEN old.wasm ELSE module.bodies + 1
  BY <1>2 DEF M3Function
<1>5. g = [old EXCEPT !.wasm = wasm]
  BY <1>3, <1>4
<1>6. g \in M3Function /\ g.names = old.names /\ g.import = old.import
  BY <1>5 DEF M3Function
<1>7. module' = n /\ strings' = strings /\ custom' = custom /\ lost' = lost
  <2>1. module' = [module EXCEPT !.bodies = @ + 1,
                                 !.functions[i].wasm = IF isEmpty THEN @ ELSE module.bodies + 1]
    BY DEF CodeEntry
  <2> QED BY <1>1, <2>1 DEF M3Module, CodeEntry
<1>8. module.bodies + 1 \in Nat
  BY <1>2
<1> HIDE DEF g, f, i
<1>9. /\ n \in M3Module
      /\ n.functions = [module.functions EXCEPT ![i] = g] /\ n.globals = module.globals
      /\ n.memoryImport = module.memoryImport /\ n.memoryExportName = module.memoryExportName
      /\ n.table0ExportName = module.table0ExportName
  BY ZenonT(60), <1>1, <1>6, <1>8, SetFunctionIs
<1> HIDE DEF n
<1> DEFINE A == Release(module, <<"function", i>>)
           B == Function_Release(g)
<1>10. A = B
  BY <1>3, <1>6 DEF Release, Function_Release, f
<1>11. \A k \in DOMAIN A : A[k] \in 0 .. Len(strings)
  <2>1. <<"function", i>> \in Parts(module)
    BY <1>1 DEF Parts
  <2> QED BY <2>1, HeldPart
<1> HIDE DEF A, B
<1>12. Replaces(A, B, strings, strings, lost) /\ strings \in Seq(String) /\ Len(strings) <= Len(strings)
  BY <1>10, <1>11, SameGrows, PartStays
<1>13. Replaces(Release(module, <<"function", i>>), Function_Release(g), strings, strings, lost)
  BY <1>12 DEF A, B
<1>14. Owning(Pointers(n, custom), strings, lost)
  BY <1>1, <1>9, <1>12, <1>13, ChangesFunction
<1> QED BY <1>7, <1>9, <1>14 DEF CodeEntry, Goes, Types, Held

\* The pointers of a module next to another name.
LEMMA OtherName ==
  ASSUME NEW m, NEW a, NEW b
  PROVE  /\ DOMAIN Pointers(m, a) = DOMAIN Pointers(m, b)
         /\ Custom \in DOMAIN Pointers(m, b)
         /\ Pointers(m, a)[Custom] = a /\ Pointers(m, b)[Custom] = b
         /\ \A p \in DOMAIN Pointers(m, a) : p # Custom => Pointers(m, a)[p] = Pointers(m, b)[p]
BY DEF Pointers

LEMMA CustomSectionHeld ==
  ASSUME Types, Held, Reading, NEW isName \in BOOLEAN, CustomSection(isName)
  PROVE  Types' /\ Held'
<1>1. module \in M3Module /\ strings \in Seq(String) /\ Len(strings) \in Nat
  BY DEF Types
<1>2. CASE isName
  <2>1. custom = 0 /\ New = Len(strings) + 1 /\ "name" \in AllTexts
    BY SomeTexts DEF Reading, CustomSection, New
  <2>2. PICK tt : tt = Read("name")
    OBVIOUS
  <2>3. strings' = tt /\ custom' = New /\ module' = module /\ lost' = lost
    BY <1>2, <2>2 DEF CustomSection
  <2>4. /\ tt \in Seq(String) /\ Len(tt) = Len(strings) + 1
        /\ \A s \in DOMAIN strings : tt[s] = strings[s]
        /\ \A s \in Len(strings) + 1 .. Len(tt) : tt[s].freed = 0
    BY <2>1, <2>2, ReadGrows DEF Grows
  <2> DEFINE F == Pointers(module, custom)
             G == Pointers(module, New)
  <2>5. /\ DOMAIN F = DOMAIN G /\ Custom \in DOMAIN G /\ F[Custom] = 0 /\ G[Custom] = New
        /\ \A p \in DOMAIN F : p # Custom => F[p] = G[p]
    BY <2>1, OtherName
  <2>6. Owning(F, strings, lost)
    BY DEF Held
  <2>7. \A p \in DOMAIN F : F[p] \in 0 .. Len(strings)
    BY <2>6 DEF Owning
  <2> HIDE DEF F, G
  <2>8. DOMAIN strings = 1 .. Len(strings)
    BY <1>1
  <2>9. \A q \in DOMAIN G : G[q] \in Len(strings) + 1 .. Len(tt) => q = Custom
    BY <1>1, <2>5, <2>7
  <2>10. \A s \in Len(strings) + 1 .. Len(tt) : s = New
    BY <1>1, <2>1, <2>4
  <2>11. \A s \in DOMAIN strings : s # 0
    BY <2>8
  <2>12. New \in Len(strings) + 1 .. Len(tt) /\ Len(strings) <= Len(tt)
    BY <1>1, <2>1, <2>4
  <2>13. Repoints(F, G, strings, tt, lost)
    BY <2>4, <2>5, <2>9, <2>10, <2>11, <2>12 DEF Repoints
  <2>14. Owning(G, tt, lost)
    BY <1>1, <2>4, <2>6, <2>12, <2>13, Repoint
  <2>15. Owning(Pointers(module, New), tt, lost)
    BY <2>14 DEF G
  <2>16. New \in Nat
    BY <1>1, <2>1
  <2> QED BY <1>1, <2>3, <2>4, <2>15, <2>16 DEF CustomSection, Types, Held
<1>3. CASE ~isName
  <2>1. PICK tt : tt = m3_Free(Read("other"), <<New>>)
    OBVIOUS
  <2>2. strings' = tt /\ custom' = custom /\ module' = module /\ lost' = lost
    BY <1>3, <2>1 DEF CustomSection
  <2>3. "other" \in AllTexts
    BY SomeTexts
  <2>4. Grows(strings, tt, 1, 1)
    BY <2>1, <2>3, ReadFreedGrows
  <2>5. tt \in Seq(String) /\ Owning(Pointers(module, custom), tt, lost)
    BY <1>1, <2>4, Stays
  <2> QED BY <2>2, <2>5 DEF CustomSection, Types, Held
<1> QED BY <1>2, <1>3

LEMMA NameSectionEndsHeld ==
  ASSUME Types, Held, NEW fails \in BOOLEAN, NameSectionEnds(fails)
  PROVE  Types' /\ Held'
<1> DEFINE F == Pointers(module, custom)
           G == Pointers(module, 0)
<1>1. module \in M3Module /\ strings \in Seq(String) /\ Len(strings) \in Nat
  BY DEF Types
<1>2. DOMAIN strings = 1 .. Len(strings)
  BY <1>1
<1>3. /\ DOMAIN F = DOMAIN G /\ Custom \in DOMAIN G /\ F[Custom] = custom /\ G[Custom] = 0
      /\ \A p \in DOMAIN F : p # Custom => F[p] = G[p]
  BY OtherName
<1>4. Owning(F, strings, lost)
  BY DEF Held
<1>5. /\ \A p, q \in DOMAIN F : F[p] = F[q] /\ F[p] # 0 => p = q
      /\ \A p \in DOMAIN F : F[p] \in 0 .. Len(strings) /\ (F[p] # 0 => strings[F[p]].freed = 0)
  BY <1>4 DEF Owning
<1> HIDE DEF F, G
<1>6. custom \in 0 .. Len(strings)
  BY <1>3, <1>5
<1>7. /\ \A q \in DOMAIN G : G[q] = 0 \/ (q \in DOMAIN F /\ G[q] = F[q])
      /\ \A q \in DOMAIN G : G[q] \notin Len(strings) + 1 .. Len(strings)
  BY <1>1, <1>3
<1>8. custom' = 0 /\ module' = module
  BY DEF NameSectionEnds
<1>9. CASE fails
  <2>1. PICK lt : lt = lost \union {custom}
    OBVIOUS
  <2>2. strings' = strings /\ lost' = lt
    BY <1>9, <2>1 DEF NameSectionEnds
  <2>3. \A s \in Len(strings) + 1 .. Len(strings) : FALSE
    BY <1>1
  <2>4. ASSUME NEW s \in DOMAIN strings, NEW p \in DOMAIN F, F[p] = s
        PROVE  s \in lt \/ (p \in DOMAIN G /\ G[p] = s)
    BY <1>3, <2>1, <2>4
  <2>5. Repoints(F, G, strings, strings, lt)
    BY <1>7, <2>3, <2>4 DEF Repoints
  <2>6. lost \subseteq lt /\ Len(strings) <= Len(strings)
    BY <1>1, <2>1
  <2>7. Owning(G, strings, lt)
    BY <1>1, <1>4, <2>5, <2>6, Repoint
  <2>8. Owning(Pointers(module, 0), strings, lt)
    BY <2>7 DEF G
  <2> QED BY <1>8, <1>9, <2>2, <2>8 DEF NameSectionEnds, Fails, Types, Held
<1>10. CASE ~fails
  <2>1. PICK P : P = <<custom>>
    OBVIOUS
  <2>2. DOMAIN P = {1} /\ P[1] = custom
    BY <2>1
  <2>3. PICK tt : tt = m3_Free(strings, P)
    OBVIOUS
  <2>4. strings' = tt /\ lost' = lost
    BY <1>10, <2>1, <2>3 DEF NameSectionEnds
  <2>5. \A k, l \in DOMAIN P : P[k] = P[l] /\ P[k] # 0 => k = l
    BY <2>2
  <2>6. /\ tt \in Seq(String) /\ Len(tt) = Len(strings)
        /\ \A s \in DOMAIN strings :
             /\ s = custom => tt[s].freed = strings[s].freed + 1
             /\ s # custom => tt[s].freed = strings[s].freed
    BY <1>1, <2>2, <2>3, <2>5, Frees
  <2>7. \A s \in Len(strings) + 1 .. Len(tt) : FALSE
    BY <1>1, <2>6
  <2>8. ASSUME NEW s \in DOMAIN strings
        PROVE  \/ /\ tt[s].freed = strings[s].freed
                  /\ \A p \in DOMAIN F : F[p] = s => (s \in lost \/ (p \in DOMAIN G /\ G[p] = s))
               \/ /\ tt[s].freed = 1
                  /\ \A q \in DOMAIN G : G[q] # s
    <3>1. CASE s = custom
      <4>1. s # 0 /\ F[Custom] = s /\ strings[s].freed = 0
        BY <1>2, <1>3, <1>5, <3>1
      <4>2. tt[s].freed = 1
        BY <2>6, <3>1, <4>1
      <4>3. ASSUME NEW q \in DOMAIN G PROVE G[q] # s
        BY <1>3, <1>5, <4>1
      <4> QED BY <4>2, <4>3
    <3>2. CASE s # custom
      BY <1>3, <2>6, <3>2
    <3> QED BY <3>1, <3>2
  <2>9. Len(strings) <= Len(tt)
    BY <1>1, <2>6
  <2>10. Repoints(F, G, strings, tt, lost)
    BY <1>7, <2>7, <2>8 DEF Repoints
  <2>11. Owning(G, tt, lost)
    BY <1>1, <1>4, <2>6, <2>9, <2>10, Repoint
  <2>12. Owning(Pointers(module, 0), tt, lost)
    BY <2>11 DEF G
  <2> QED BY <1>8, <1>10, <2>4, <2>6, <2>12 DEF NameSectionEnds, Types, Held
<1> QED BY <1>9, <1>10

LEMMA NoModuleIs ==
  /\ NoModule \in M3Module
  /\ \A p \in DOMAIN Pointers(NoModule, 0) : Pointers(NoModule, 0)[p] = 0
<1>1. NoModule \in M3Module
  <2>1. PICK empty : empty = <<>>
    OBVIOUS
  <2>2. empty \in Seq(M3Function) /\ empty \in Seq(M3Global)
    BY <2>1
  <2>3. NoImport \in Info
    BY DEF NoImport, Info
  <2>4. NoModule =
          [numFuncTypes |-> 0, numFuncImports |-> 0, functions |-> empty, bodies |-> 0,
           globals |-> empty, memoryImport |-> NoImport, memoryImported |-> FALSE,
           memoryExportName |-> 0, table0ExportName |-> 0, segmentsFit |-> TRUE]
    BY <2>1 DEF NoModule
  <2> QED BY <2>2, <2>3, <2>4 DEF M3Module
<1>2. Parts(NoModule) = {<<"module", 0>>}
  <2>1. NoModule.functions = <<>> /\ NoModule.globals = <<>>
    BY DEF NoModule
  <2>2. DOMAIN NoModule.functions = {} /\ DOMAIN NoModule.globals = {}
    BY <2>1
  <2> QED BY <2>2 DEF Parts
<1>3. PICK ps : ps = Release(NoModule, <<"module", 0>>)
  OBVIOUS
<1>4. DOMAIN ps = 1 .. 4 /\ ps[1] = 0 /\ ps[2] = 0 /\ ps[3] = 0 /\ ps[4] = 0
  <2>1. /\ NoModule.memoryImport.moduleUtf8 = 0 /\ NoModule.memoryImport.fieldUtf8 = 0
        /\ NoModule.memoryExportName = 0 /\ NoModule.table0ExportName = 0
    BY DEF NoModule, NoImport
  <2> QED BY <1>1, <1>3, <2>1, ModuleReleases
<1>5. \A k \in DOMAIN ps : ps[k] = 0
  BY <1>4
<1>6. ASSUME NEW p \in DOMAIN Pointers(NoModule, 0)
      PROVE  Pointers(NoModule, 0)[p] = 0
  <2>1. CASE p = Custom
    BY <2>1, PlacesAre
  <2>2. CASE p # Custom
    <3>1. PICK part \in Parts(NoModule) : \E k \in DOMAIN Release(NoModule, part) : p = <<part, k>>
      BY <2>2, PlacesAre
    <3>2. part = <<"module", 0>>
      BY <1>2, <3>1
    <3>3. PICK k \in DOMAIN Release(NoModule, part) : p = <<part, k>>
      BY <3>1
    <3>4. Pointers(NoModule, 0)[p] = Release(NoModule, part)[k]
      BY <3>1, <3>3, PlacesAre
    <3> QED BY <1>3, <1>5, <3>2, <3>3, <3>4
  <2> QED BY <2>1, <2>2
<1> QED BY <1>1, <1>6

\* A place is one of the module, or that of the name.
LEMMA PlacesOfModule ==
  ASSUME NEW m, NEW name
  PROVE  /\ \A p \in DOMAIN FreeModule(m) :
              p \in DOMAIN Pointers(m, name) /\ p # Custom /\ Pointers(m, name)[p] = FreeModule(m)[p]
         /\ \A p \in DOMAIN Pointers(m, name) :
              p = Custom \/ (p \in DOMAIN FreeModule(m) /\ Pointers(m, name)[p] \in Points(m))
<1>1. ASSUME NEW p \in DOMAIN FreeModule(m)
      PROVE  p \in DOMAIN Pointers(m, name) /\ p # Custom /\ Pointers(m, name)[p] = FreeModule(m)[p]
  <2>1. PICK part \in Parts(m) : \E k \in DOMAIN Release(m, part) : p = <<part, k>>
    BY DEF FreeModule
  <2>2. PICK k \in DOMAIN Release(m, part) : p = <<part, k>>
    BY <2>1
  <2> QED BY <2>1, <2>2, PlacesAre
<1>2. ASSUME NEW p \in DOMAIN Pointers(m, name), p # Custom
      PROVE  p \in DOMAIN FreeModule(m) /\ Pointers(m, name)[p] \in Points(m)
  <2>1. PICK part \in Parts(m) : \E k \in DOMAIN Release(m, part) : p = <<part, k>>
    BY <1>2, PlacesAre
  <2>2. PICK k \in DOMAIN Release(m, part) : p = <<part, k>>
    BY <2>1
  <2>3. p \in DOMAIN FreeModule(m) /\ Pointers(m, name)[p] = Release(m, part)[k]
    BY <2>1, <2>2, PlacesAre
  <2>4. Release(m, part)[k] \in ToSet(Release(m, part))
    BY <2>2 DEF ToSet
  <2>5. Release(m, part)[k] \in Points(m)
    BY <2>1, <2>4 DEF Points
  <2> QED BY <2>3, <2>5
<1> QED BY <1>1, <1>2

LEMMA ParsedHeld ==
  ASSUME Types, Held, Parsed
  PROVE  Types' /\ Held'
BY DEF Parsed, Types, Held

LEMMA LoadModuleHeld ==
  ASSUME Types, Held, Reading, NEW evaluates \in BOOLEAN, m3_LoadModule(evaluates)
  PROVE  Types' /\ Held'
<1>1. module \in M3Module /\ strings \in Seq(String) /\ Len(strings) \in Nat
  BY DEF Types
<1>2. CASE evaluates /\ module.segmentsFit /\ ~module.memoryImported
  BY <1>2 DEF m3_LoadModule, Types, Held
<1>3. CASE ~(evaluates /\ module.segmentsFit /\ ~module.memoryImported)
  <2> DEFINE F == Pointers(module, custom)
             G == Pointers(NoModule, 0)
  <2>1. PICK lt : lt = lost \union (Points(module) \ {0})
    OBVIOUS
  <2>2. custom = 0
    BY DEF Reading, m3_LoadModule
  <2>3. module' = NoModule /\ custom' = 0 /\ strings' = strings /\ lost' = lt
    BY <1>3, <2>1, <2>2 DEF m3_LoadModule
  <2>4. \A q \in DOMAIN G : G[q] = 0
    BY NoModuleIs
  <2>5. Owning(F, strings, lost)
    BY DEF Held
  <2>6. \A p \in DOMAIN F : F[p] = 0 \/ F[p] \in lt
    <3>1. \A p \in DOMAIN F : F[p] \in Points(module) \/ F[p] = 0
      BY <2>2, PlacesOfModule, OtherName
    <3> HIDE DEF F
    <3> QED BY <2>1, <3>1
  <2> HIDE DEF F, G
  <2>7. DOMAIN strings = 1 .. Len(strings)
    BY <1>1
  <2>8. ASSUME NEW s \in DOMAIN strings, NEW p \in DOMAIN F, F[p] = s
        PROVE  s \in lt \/ (p \in DOMAIN G /\ G[p] = s)
    BY <2>6, <2>7, <2>8
  <2>9. \A s \in Len(strings) + 1 .. Len(strings) : FALSE
    BY <1>1
  <2>10. \A q \in DOMAIN G : G[q] \notin Len(strings) + 1 .. Len(strings)
    BY <2>9
  <2>11. Repoints(F, G, strings, strings, lt)
    BY <2>4, <2>8, <2>9, <2>10 DEF Repoints
  <2>12. lost \subseteq lt /\ Len(strings) <= Len(strings)
    BY <1>1, <2>1
  <2>13. Owning(G, strings, lt)
    BY <1>1, <2>5, <2>11, <2>12, Repoint
  <2>14. Owning(Pointers(NoModule, 0), strings, lt)
    BY <2>13 DEF G
  <2> QED BY <1>3, <2>3, <2>14, NoModuleIs DEF m3_LoadModule, Types, Held
<1> QED BY <1>2, <1>3

LEMMA FreeModuleHeld ==
  ASSUME Types, Held, Reading, m3_FreeModule
  PROVE  Types' /\ Held'
<1> DEFINE F == Pointers(module, custom)
           G == Pointers(NoModule, 0)
<1>1. module \in M3Module /\ strings \in Seq(String) /\ Len(strings) \in Nat
  BY DEF Types
<1>2. custom = 0
  BY DEF Reading, m3_FreeModule
<1>3. PICK P : P = FreeModule(module)
  OBVIOUS
<1>4. PICK tt : tt = m3_Free(strings, P)
  OBVIOUS
<1>5. module' = NoModule /\ custom' = 0 /\ strings' = tt /\ lost' = lost
  BY <1>2, <1>3, <1>4 DEF m3_FreeModule
<1>6. \A q \in DOMAIN G : G[q] = 0
  BY NoModuleIs
<1>7. Owning(F, strings, lost)
  BY DEF Held
<1>8. /\ \A p, q \in DOMAIN F : F[p] = F[q] /\ F[p] # 0 => p = q
      /\ \A p \in DOMAIN F : F[p] \in 0 .. Len(strings) /\ (F[p] # 0 => strings[F[p]].freed = 0)
  BY <1>7 DEF Owning
<1>9. /\ \A p \in DOMAIN P : p \in DOMAIN F /\ F[p] = P[p]
      /\ \A p \in DOMAIN F : F[p] = 0 \/ (p \in DOMAIN P /\ F[p] = P[p])
  BY <1>2, <1>3, PlacesOfModule, OtherName
<1> HIDE DEF F, G
<1>10. \A k, l \in DOMAIN P : P[k] = P[l] /\ P[k] # 0 => k = l
  BY <1>8, <1>9
<1>11. /\ tt \in Seq(String) /\ Len(tt) = Len(strings)
       /\ \A s \in DOMAIN strings :
            /\ (\E k \in DOMAIN P : P[k] = s) => tt[s].freed = strings[s].freed + 1
            /\ ~(\E k \in DOMAIN P : P[k] = s) => tt[s].freed = strings[s].freed
  BY <1>1, <1>4, <1>10, Frees
<1>12. DOMAIN strings = 1 .. Len(strings)
  BY <1>1
<1>13. ASSUME NEW s \in DOMAIN strings
       PROVE  \/ /\ tt[s].freed = strings[s].freed
                 /\ \A p \in DOMAIN F : F[p] = s => (s \in lost \/ (p \in DOMAIN G /\ G[p] = s))
              \/ /\ tt[s].freed = 1
                 /\ \A q \in DOMAIN G : G[q] # s
  <2>1. s # 0
    BY <1>12
  <2>2. CASE \E k \in DOMAIN P : P[k] = s
    <3>1. strings[s].freed = 0
      BY <1>8, <1>9, <2>1, <2>2
    <3>2. tt[s].freed = 1
      BY <1>11, <2>2, <3>1
    <3> QED BY <1>6, <2>1, <3>2
  <2>3. CASE ~(\E k \in DOMAIN P : P[k] = s)
    BY <1>9, <1>11, <2>1, <2>3
  <2> QED BY <2>2, <2>3
<1>14. (\A s \in Len(strings) + 1 .. Len(tt) : FALSE) /\ Len(strings) <= Len(tt)
  BY <1>1, <1>11
<1>15. Repoints(F, G, strings, tt, lost)
  BY <1>6, <1>13, <1>14 DEF Repoints
<1>16. Owning(G, tt, lost)
  BY <1>1, <1>7, <1>11, <1>14, <1>15, Repoint
<1>17. Owning(Pointers(NoModule, 0), tt, lost)
  BY <1>16 DEF G
<1> QED BY <1>5, <1>11, <1>17, NoModuleIs DEF m3_FreeModule, Types, Held

LEMMA InitHeld ==
  ASSUME Init
  PROVE  Types /\ Held
<1>1. PICK ss : ss = <<>>
  OBVIOUS
<1>2. ss \in Seq(String) /\ Len(ss) = 0 /\ DOMAIN ss = {}
  BY <1>1
<1>3. strings = ss /\ module = NoModule /\ custom = 0 /\ lost = {} /\ exported = {}
      /\ expectedSection = 1 /\ stage = "parsing"
  BY <1>1 DEF Init
<1>4. PICK G : G = Pointers(NoModule, 0)
  OBVIOUS
<1>5. \A p \in DOMAIN G : G[p] = 0
  BY <1>4, NoModuleIs
<1>6. Owning(G, ss, lost)
  BY <1>2, <1>5 DEF Owning
<1> QED BY <1>2, <1>3, <1>4, <1>6, NoModuleIs DEF Types, Held

-----------------------------------------------------------------------------
(***************************************************************************)
(* Sections and the order of functions.                                    *)
(***************************************************************************)

\* Which section is read follows from which is expected, and what is not a
\* name is not read with one.
LEMMA ReadingStep ==
  ASSUME Types, Reading, [Next]_vars
  PROVE  Reading'
<1> USE DEF Reading, Fails, Goes
<1>1. CASE \E s \in Sections : Begins(s)
  BY <1>1 DEF Begins
<1>2. CASE Ends
  BY <1>2 DEF Ends
<1>3. CASE \E n \in 0 .. 2 : EntryFails(n)
  BY <1>3 DEF EntryFails
<1>4. CASE TypeEntry
  BY <1>4 DEF TypeEntry
<1>5. CASE \E typeIndex \in 0 .. 1 :
             FunctionEntry(typeIndex) \/ \E field \in Texts : ImportFunction(field, typeIndex)
  BY <1>5 DEF FunctionEntry, ImportFunction, Reads
<1>6. CASE \E field \in Texts : ImportTable(field) \/ ImportMemory(field) \/ ImportGlobal(field)
  BY <1>6 DEF ImportTable, ImportMemory, ImportGlobal
<1>7. CASE \E b \in BOOLEAN : GlobalEntry(b) \/ CodeEntry(b) \/ SegmentEntry(b)
  BY <1>7 DEF GlobalEntry, CodeEntry, SegmentEntry, Reads
<1>8. CASE \E index \in 1 .. MaxFunctions, text \in Texts :
             ExportFunction(index, text) \/ NameEntry(index, text)
  BY <1>8 DEF ExportFunction, NameEntry, Reads
<1>9. CASE \E index \in 1 .. MaxGlobals, text \in Texts : ExportGlobal(index, text)
  BY <1>9 DEF ExportGlobal, Reads
<1>10. CASE \E text \in Texts : ExportMemory(text) \/ ExportTable(text)
  BY <1>10 DEF ExportMemory, ExportTable
<1>11. CASE \E b \in BOOLEAN : CustomSection(b) \/ NameSectionEnds(b) \/ m3_LoadModule(b)
  BY <1>11 DEF CustomSection, NameSectionEnds, m3_LoadModule
<1>12. CASE Parsed \/ m3_FreeModule
  BY <1>12 DEF Parsed, m3_FreeModule
<1>13. CASE UNCHANGED vars
  BY <1>13 DEF vars
<1> QED BY <1>1, <1>2, <1>3, <1>4, <1>5, <1>6, <1>7, <1>8, <1>9, <1>10, <1>11, <1>12, <1>13
        DEF Next

\* Every step keeps the strings held.
LEMMA HeldStep ==
  ASSUME Types, Held, Reading, [Next]_vars
  PROVE  Types' /\ Held'
<1>1. CASE \E s \in Sections : Begins(s)
  BY <1>1, BeginsHeld
<1>2. CASE Ends
  BY <1>2, EndsHeld
<1>3. CASE \E n \in 0 .. 2 : EntryFails(n)
  BY <1>3, EntryFailsHeld
<1>4. CASE TypeEntry
  BY <1>4, TypeEntryHeld
<1>5. CASE \E typeIndex \in 0 .. 1 :
             FunctionEntry(typeIndex) \/ \E field \in Texts : ImportFunction(field, typeIndex)
  BY <1>5, FunctionEntryHeld, ImportFunctionHeld
<1>6. CASE \E field \in Texts : ImportTable(field) \/ ImportMemory(field) \/ ImportGlobal(field)
  BY <1>6, ImportTableHeld, ImportMemoryHeld, ImportGlobalHeld
<1>7. CASE \E b \in BOOLEAN : GlobalEntry(b) \/ CodeEntry(b) \/ SegmentEntry(b)
  BY <1>7, GlobalEntryHeld, CodeEntryHeld, SegmentEntryHeld
<1>8. CASE \E index \in 1 .. MaxFunctions, text \in Texts :
             ExportFunction(index, text) \/ NameEntry(index, text)
  <2>1. PICK index \in 1 .. MaxFunctions, text \in Texts :
               ExportFunction(index, text) \/ NameEntry(index, text)
    BY <1>8
  <2> QED BY <2>1, ExportFunctionHeld, NameEntryHeld
<1>9. CASE \E index \in 1 .. MaxGlobals, text \in Texts : ExportGlobal(index, text)
  BY <1>9, ExportGlobalHeld
<1>10. CASE \E text \in Texts : ExportMemory(text) \/ ExportTable(text)
  BY <1>10, ExportMemoryHeld, ExportTableHeld
<1>11. CASE \E b \in BOOLEAN : CustomSection(b) \/ NameSectionEnds(b) \/ m3_LoadModule(b)
  BY <1>11, CustomSectionHeld, NameSectionEndsHeld, LoadModuleHeld
<1>12. CASE Parsed
  BY <1>12, ParsedHeld
<1>13. CASE m3_FreeModule
  BY <1>13, FreeModuleHeld
<1>14. CASE UNCHANGED vars
  BY <1>14 DEF vars, Types, Held
<1> QED BY <1>1, <1>2, <1>3, <1>4, <1>5, <1>6, <1>7, <1>8, <1>9, <1>10, <1>11, <1>12, <1>13,
           <1>14
        DEF Next

-----------------------------------------------------------------------------
(***************************************************************************)
(* Texts stay.                                                             *)
(***************************************************************************)

KeepsTexts(tt) == \A s \in DOMAIN strings : s \in DOMAIN tt /\ tt[s].text = strings[s].text

LEMMA GrowsKeeps ==
  ASSUME Types, NEW tt, NEW n \in Nat, NEW freed, Grows(strings, tt, n, freed)
  PROVE  KeepsTexts(tt)
<1>1. strings \in Seq(String) /\ DOMAIN strings = 1 .. Len(strings) /\ Len(strings) \in Nat
  BY DEF Types
<1>2. /\ tt \in Seq(String) /\ Len(tt) = Len(strings) + n
      /\ \A s \in DOMAIN strings : tt[s] = strings[s]
  BY DEF Grows
<1>3. DOMAIN tt = 1 .. Len(tt)
  BY <1>2
<1> QED BY <1>1, <1>2, <1>3 DEF KeepsTexts

LEMMA InsteadKeeps ==
  ASSUME Types, NEW text \in Texts, NEW x \in 0 .. Len(strings)
  PROVE  KeepsTexts(m3_Free(Read(text), <<x>>))
<1>1. strings \in Seq(String) /\ DOMAIN strings = 1 .. Len(strings) /\ Len(strings) \in Nat
  BY DEF Types
<1>2. PICK tt : tt = m3_Free(Read(text), <<x>>)
  OBVIOUS
<1>3. text \in AllTexts
  BY SomeTexts
<1>4. /\ tt \in Seq(String) /\ Len(tt) = Len(strings) + 1
      /\ \A s \in DOMAIN strings : tt[s].text = strings[s].text
  BY <1>2, <1>3, ReadInsteadIs
<1>5. DOMAIN tt = 1 .. Len(tt)
  BY <1>4
<1> QED BY SMTT(40), <1>1, <1>2, <1>4, <1>5 DEF KeepsTexts

\* What any places free keeps its text.
LEMMA FreeKeeps ==
  ASSUME Types, NEW P
  PROVE  KeepsTexts(m3_Free(strings, P))
<1>1. \A s \in DOMAIN strings : strings[s] \in String
  BY DEF Types
<1>2. \A s \in DOMAIN strings :
        m3_Free(strings, P)[s]
          = [strings[s] EXCEPT !.freed = @ + Cardinality({ k \in DOMAIN P : P[k] = s })]
  BY DEF m3_Free
<1>3. DOMAIN m3_Free(strings, P) = DOMAIN strings
  BY DEF m3_Free
<1>4. ASSUME NEW s \in DOMAIN strings
      PROVE  m3_Free(strings, P)[s].text = strings[s].text
  <2>1. PICK x \in String : x = strings[s]
    BY <1>1
  <2>2. PICK c : c = x.freed + Cardinality({ k \in DOMAIN P : P[k] = s })
    OBVIOUS
  <2>3. m3_Free(strings, P)[s] = [x EXCEPT !.freed = c]
    BY <1>2, <2>1, <2>2
  <2>4. [x EXCEPT !.freed = c].text = x.text
    BY DEF String
  <2> QED BY <2>1, <2>3, <2>4
<1> QED BY <1>3, <1>4 DEF KeepsTexts

LEMMA TextsStay ==
  ASSUME Types, Held, [Next]_vars
  PROVE  KeepsTexts(strings')
<1>1. ASSUME strings' = strings
      PROVE  KeepsTexts(strings')
  BY <1>1 DEF KeepsTexts
<1>2. ASSUME NEW text \in AllTexts,
             strings' = Read(text) \/ strings' = m3_Free(Read(text), <<New>>)
      PROVE  KeepsTexts(strings')
  <2>1. KeepsTexts(Read(text))
    BY ReadGrows, GrowsKeeps
  <2>2. KeepsTexts(m3_Free(Read(text), <<New>>))
    BY ReadFreedGrows, GrowsKeeps
  <2> QED BY <1>2, <2>1, <2>2
<1>3. ASSUME NEW field \in Texts,
             \/ strings' = ReadImport(field)
             \/ strings' = m3_Free(ReadImport(field), FreeImportInfo(Import))
      PROVE  KeepsTexts(strings')
  <2>1. KeepsTexts(ReadImport(field))
    BY ReadImportGrows, GrowsKeeps
  <2>2. KeepsTexts(m3_Free(ReadImport(field), FreeImportInfo(Import)))
    BY ImportFreedGrows, GrowsKeeps
  <2> QED BY <1>3, <2>1, <2>2
<1>4. \A text \in Texts : text \in AllTexts
  BY SomeTexts
<1>5. module \in M3Module
  BY DEF Types
<1>6. CASE \E s \in Sections : Begins(s)
  BY <1>1, <1>6 DEF Begins
<1>7. CASE Ends
  BY <1>1, <1>7 DEF Ends
<1>8. CASE \E n \in 0 .. 2 : EntryFails(n)
  <2>1. PICK n \in 0 .. 2 : EntryFails(n)
    BY <1>8
  <2>2. PICK tt : tt = strings \o [i \in 1 .. n |-> [text |-> "unused", freed |-> 1]]
    OBVIOUS
  <2>3. KeepsTexts(tt)
    <3>1. Grows(strings, tt, n, 1)
      BY <2>2, UnusedGrows
    <3>2. n \in Nat
      OBVIOUS
    <3> QED BY <3>1, <3>2, GrowsKeeps
  <2> QED BY <2>1, <2>2, <2>3 DEF EntryFails
<1>9. CASE TypeEntry
  BY <1>1, <1>9 DEF TypeEntry
<1>10. CASE \E typeIndex \in 0 .. 1 :
              FunctionEntry(typeIndex) \/ \E field \in Texts : ImportFunction(field, typeIndex)
  BY <1>1, <1>3, <1>10 DEF FunctionEntry, ImportFunction
<1>11. CASE \E field \in Texts : ImportTable(field) \/ ImportMemory(field) \/ ImportGlobal(field)
  BY <1>3, <1>11 DEF ImportTable, ImportMemory, ImportGlobal
<1>12. CASE \E b \in BOOLEAN : GlobalEntry(b) \/ CodeEntry(b) \/ SegmentEntry(b)
  BY <1>1, <1>12 DEF GlobalEntry, CodeEntry, SegmentEntry
<1>13. CASE \E index \in 1 .. MaxFunctions, text \in Texts :
              ExportFunction(index, text) \/ NameEntry(index, text)
  <2>1. PICK index \in 1 .. MaxFunctions, text \in Texts :
               ExportFunction(index, text) \/ NameEntry(index, text)
    BY <1>13
  <2>2. strings' = Read(text) \/ strings' = m3_Free(Read(text), <<New>>)
    BY <2>1 DEF ExportFunction, NameEntry
  <2> QED BY <1>2, <1>4, <2>2
<1>14. CASE \E index \in 1 .. MaxGlobals, text \in Texts : ExportGlobal(index, text)
  <2>1. PICK index \in 1 .. MaxGlobals, text \in Texts : ExportGlobal(index, text)
    BY <1>14
  <2>2. CASE index \notin DOMAIN module.globals
    BY <1>2, <1>4, <2>1, <2>2 DEF ExportGlobal
  <2>3. CASE index \in DOMAIN module.globals
    <3>1. PICK x : x = module.globals[index].name
      OBVIOUS
    <3>2. x \in 0 .. Len(strings)
      <4>1. PICK g \in M3Global : g = module.globals[index]
        BY <1>5, <2>3 DEF M3Module
      <4>2. PICK ps : ps = Release(module, <<"global", index>>)
        OBVIOUS
      <4>3. ps = FreeImportInfo(g.import) \o <<g.name>>
        BY <4>1, <4>2 DEF Release
      <4>4. DOMAIN ps = 1 .. 3 /\ ps[3] = g.name
        BY <4>3, GlobalReleases
      <4>5. <<"global", index>> \in Parts(module)
        BY <2>3 DEF Parts
      <4>6. \A k \in DOMAIN ps : ps[k] \in 0 .. Len(strings)
        BY <4>2, <4>5, HeldPart
      <4>7. 3 \in DOMAIN ps
        BY <4>4
      <4> QED BY <3>1, <4>1, <4>4, <4>6, <4>7
    <3> QED BY <2>1, <2>3, <3>1, <3>2, InsteadKeeps DEF ExportGlobal
  <2> QED BY <2>2, <2>3
<1>15. CASE \E text \in Texts : ExportMemory(text) \/ ExportTable(text)
  <2>1. PICK text \in Texts : ExportMemory(text) \/ ExportTable(text)
    BY <1>15
  <2>2. PICK ps : ps = Release(module, <<"module", 0>>)
    OBVIOUS
  <2>3. /\ DOMAIN ps = 1 .. 4
        /\ ps[3] = module.memoryExportName /\ ps[4] = module.table0ExportName
    BY <1>5, <2>2, ModuleReleases
  <2>4. <<"module", 0>> \in Parts(module)
    BY DEF Parts
  <2>5. \A k \in DOMAIN ps : ps[k] \in 0 .. Len(strings)
    BY <2>2, <2>4, HeldPart
  <2>6. 3 \in DOMAIN ps /\ 4 \in DOMAIN ps
    BY <2>3
  <2>7. module.memoryExportName \in 0 .. Len(strings) /\ module.table0ExportName \in 0 .. Len(strings)
    BY <2>3, <2>5, <2>6
  <2> QED BY <2>1, <2>7, InsteadKeeps DEF ExportMemory, ExportTable
<1>16. CASE \E b \in BOOLEAN : CustomSection(b) \/ NameSectionEnds(b) \/ m3_LoadModule(b)
  <2>1. PICK b \in BOOLEAN : CustomSection(b) \/ NameSectionEnds(b) \/ m3_LoadModule(b)
    BY <1>16
  <2>2. CASE CustomSection(b)
    BY <1>2, <2>2, SomeTexts DEF CustomSection
  <2>3. CASE NameSectionEnds(b)
    BY <1>1, <2>3, FreeKeeps DEF NameSectionEnds
  <2>4. CASE m3_LoadModule(b)
    BY <1>1, <2>4 DEF m3_LoadModule
  <2> QED BY <2>1, <2>2, <2>3, <2>4
<1>17. CASE Parsed
  BY <1>1, <1>17 DEF Parsed
<1>18. CASE m3_FreeModule
  BY <1>18, FreeKeeps DEF m3_FreeModule
<1>19. CASE UNCHANGED vars
  BY <1>1, <1>19 DEF vars
<1> QED BY <1>6, <1>7, <1>8, <1>9, <1>10, <1>11, <1>12, <1>13, <1>14, <1>15, <1>16, <1>17,
           <1>18, <1>19
        DEF Next

-----------------------------------------------------------------------------
(***************************************************************************)
(* Functions, their order and their names.                                 *)
(***************************************************************************)

\* What most steps leave alone.
Quiet ==
  /\ module'.functions = module.functions
  /\ module'.numFuncImports = module.numFuncImports
  /\ exported' = exported
  /\ stage' = stage \/ (stage # "freed" /\ stage' \in {"failed", "parsed", "loaded"})
InPlace == expectedSection' = expectedSection /\ section' \in {section, "none", "Name"}

LEMMA Kinds ==
  ASSUME Types, [Next]_vars
  PROVE  \/ Quiet /\ InPlace
         \/ \E s \in Sections : Begins(s)
         \/ \E typeIndex \in 0 .. 1 :
               FunctionEntry(typeIndex) \/ \E field \in Texts : ImportFunction(field, typeIndex)
         \/ \E b \in BOOLEAN : CodeEntry(b)
         \/ \E index \in Nat, text \in Texts :
               ExportFunction(index, text) \/ NameEntry(index, text)
         \/ module' = NoModule /\ stage' = "freed" /\ exported' = exported /\ InPlace
<1>1. module \in M3Module /\ stage \in {"parsing", "failed", "parsed", "loaded", "freed"}
  BY DEF Types
<1> USE DEF Quiet, InPlace, Goes, Fails, Reads
<1>2. CASE Ends
  BY <1>2 DEF Ends
<1>3. CASE \E n \in 0 .. 2 : EntryFails(n)
  BY <1>3 DEF EntryFails
<1>4. CASE TypeEntry
  <2>1. module' = [module EXCEPT !.numFuncTypes = 1]
    BY <1>4 DEF TypeEntry
  <2>2. module'.functions = module.functions /\ module'.numFuncImports = module.numFuncImports
    BY <1>1, <2>1 DEF M3Module
  <2> QED BY <1>4, <2>2 DEF TypeEntry
<1>5. CASE \E field \in Texts : ImportTable(field) \/ ImportMemory(field) \/ ImportGlobal(field)
  <2>1. PICK field \in Texts : ImportTable(field) \/ ImportMemory(field) \/ ImportGlobal(field)
    BY <1>5
  <2>2. CASE ImportTable(field)
    <3>1. module' = module
      BY <2>2 DEF ImportTable
    <3>2. module'.functions = module.functions /\ module'.numFuncImports = module.numFuncImports
      BY <1>1, <3>1 DEF M3Module
    <3> QED BY <2>2, <3>2 DEF ImportTable
  <2>3. CASE ImportMemory(field)
    <3>1. module' = [module EXCEPT !.memoryImport = Import, !.memoryImported = TRUE]
      BY <2>3 DEF ImportMemory
    <3>2. module'.functions = module.functions /\ module'.numFuncImports = module.numFuncImports
      BY <1>1, <3>1 DEF M3Module
    <3> QED BY <2>3, <3>2 DEF ImportMemory
  <2>4. CASE ImportGlobal(field)
    <3>1. module' = [module EXCEPT !.globals = Append(@, [name |-> 0, import |-> Import])]
      BY <2>4 DEF ImportGlobal
    <3>2. module'.functions = module.functions /\ module'.numFuncImports = module.numFuncImports
      BY <1>1, <3>1 DEF M3Module
    <3> QED BY <2>4, <3>2 DEF ImportGlobal
  <2> QED BY <2>1, <2>2, <2>3, <2>4
<1>6. CASE \E b \in BOOLEAN : GlobalEntry(b) \/ SegmentEntry(b)
  <2>1. PICK b \in BOOLEAN : GlobalEntry(b) \/ SegmentEntry(b)
    BY <1>6
  <2>2. CASE GlobalEntry(b)
    <3>1. module' = [module EXCEPT !.globals = Append(@, [name |-> 0, import |-> NoImport])]
      BY <2>2 DEF GlobalEntry
    <3>2. module'.functions = module.functions /\ module'.numFuncImports = module.numFuncImports
      BY <1>1, <3>1 DEF M3Module
    <3> QED BY <2>2, <3>2 DEF GlobalEntry
  <2>3. CASE SegmentEntry(b)
    <3>1. module' = [module EXCEPT !.segmentsFit = @ /\ b]
      BY <2>3 DEF SegmentEntry
    <3>2. module'.functions = module.functions /\ module'.numFuncImports = module.numFuncImports
      BY <1>1, <3>1 DEF M3Module
    <3> QED BY <2>3, <3>2 DEF SegmentEntry
  <2> QED BY <2>1, <2>2, <2>3
<1>7. CASE \E index \in 1 .. MaxGlobals, text \in Texts : ExportGlobal(index, text)
  <2>1. PICK index \in 1 .. MaxGlobals, text \in Texts : ExportGlobal(index, text)
    BY <1>7
  <2>2. CASE index \notin DOMAIN module.globals
    BY <2>1, <2>2 DEF ExportGlobal
  <2>3. CASE index \in DOMAIN module.globals
    <3>1. module' = [module EXCEPT !.globals[index].name = New]
      BY <2>1, <2>3 DEF ExportGlobal
    <3>2. module'.functions = module.functions /\ module'.numFuncImports = module.numFuncImports
      BY <1>1, <3>1 DEF M3Module
    <3> QED BY <2>1, <2>3, <3>2 DEF ExportGlobal
  <2> QED BY <2>2, <2>3
<1>8. CASE \E text \in Texts : ExportMemory(text) \/ ExportTable(text)
  <2>1. PICK text \in Texts : ExportMemory(text) \/ ExportTable(text)
    BY <1>8
  <2>2. CASE ExportMemory(text)
    <3>1. module' = [module EXCEPT !.memoryExportName = New]
      BY <2>2 DEF ExportMemory
    <3>2. module'.functions = module.functions /\ module'.numFuncImports = module.numFuncImports
      BY <1>1, <3>1 DEF M3Module
    <3> QED BY <2>2, <3>2 DEF ExportMemory
  <2>3. CASE ExportTable(text)
    <3>1. module' = [module EXCEPT !.table0ExportName = New]
      BY <2>3 DEF ExportTable
    <3>2. module'.functions = module.functions /\ module'.numFuncImports = module.numFuncImports
      BY <1>1, <3>1 DEF M3Module
    <3> QED BY <2>3, <3>2 DEF ExportTable
  <2> QED BY <2>1, <2>2, <2>3
<1>9. CASE \E b \in BOOLEAN : CustomSection(b) \/ NameSectionEnds(b) \/ m3_LoadModule(b)
  BY <1>9 DEF CustomSection, NameSectionEnds, m3_LoadModule
<1>10. CASE Parsed
  BY <1>10 DEF Parsed
<1>11. CASE m3_FreeModule
  BY <1>11 DEF m3_FreeModule
<1>12. CASE UNCHANGED vars
  BY <1>12 DEF vars
<1>13. CASE \E index \in 1 .. MaxFunctions, text \in Texts :
              ExportFunction(index, text) \/ NameEntry(index, text)
  <2>1. \A index \in 1 .. MaxFunctions : index \in Nat
    OBVIOUS
  <2> QED BY <1>13, <2>1
<1>14. CASE \/ \E s \in Sections : Begins(s)
            \/ \E typeIndex \in 0 .. 1 :
                  FunctionEntry(typeIndex) \/ \E field \in Texts : ImportFunction(field, typeIndex)
            \/ \E b \in BOOLEAN : CodeEntry(b)
  BY <1>14
<1> QED BY <1>2, <1>3, <1>4, <1>5, <1>6, <1>7, <1>8, <1>9, <1>10, <1>11, <1>12, <1>13, <1>14
        DEF Next

\* Which section is read follows from which is expected next.
LEMMA OrderStep ==
  ASSUME Types, Ordered, [Next]_vars
  PROVE  /\ section' = "Import" => expectedSection' = 3
         /\ section' = "Function" => expectedSection' = 4
         /\ stage' = "parsing" => stage = "parsing"
         /\ expectedSection' >= expectedSection
<1>1. expectedSection \in Nat \ {0}
  BY DEF Types
<1>2. CASE \E s \in Sections : Begins(s)
  <2>1. PICK s \in Sections : Begins(s)
    BY <1>2
  <2>2. CASE After(s) # 0
    <3>1. expectedSection' = After(s) /\ section' = s /\ stage' = stage
      BY <2>1, <2>2 DEF Begins
    <3>2. /\ After(s) \in 2 .. 13 /\ After(s) > expectedSection
          /\ s = sectionsOrder[After(s) - 1]
      BY <2>2, AfterIs
    <3>3. /\ \A k \in 1 .. 12 : sectionsOrder[k] = "Import" => k = 2
          /\ \A k \in 1 .. 12 : sectionsOrder[k] = "Function" => k = 3
      BY DEF sectionsOrder
    <3>4. PICK k \in 1 .. 12 : After(s) = k + 1 /\ k = After(s) - 1
      BY <3>2
    <3>5. /\ s = "Import" => After(s) = 3
          /\ s = "Function" => After(s) = 4
      BY <3>2, <3>3, <3>4
    <3> QED BY <1>1, <3>1, <3>2, <3>5, <2>1 DEF Begins
  <2>3. CASE After(s) = 0
    BY <1>1, <2>1, <2>3 DEF Begins, Fails
  <2> QED BY <2>2, <2>3
<1>3. CASE Quiet /\ InPlace
  BY <1>1, <1>3 DEF Quiet, InPlace, Ordered
<1>4. CASE \E typeIndex \in 0 .. 1 :
             FunctionEntry(typeIndex) \/ \E field \in Texts : ImportFunction(field, typeIndex)
  BY <1>1, <1>4 DEF FunctionEntry, ImportFunction, Goes, Fails, Reads, Ordered
<1>5. CASE \E b \in BOOLEAN : CodeEntry(b)
  BY <1>1, <1>5 DEF CodeEntry, Goes, Ordered
<1>6. CASE \E index \in Nat, text \in Texts : ExportFunction(index, text) \/ NameEntry(index, text)
  BY <1>1, <1>6 DEF ExportFunction, NameEntry, Goes, Fails, Reads, Ordered
<1>7. CASE module' = NoModule /\ stage' = "freed" /\ exported' = exported /\ InPlace
  BY <1>1, <1>7 DEF InPlace, Ordered
<1> QED BY <1>2, <1>3, <1>4, <1>5, <1>6, <1>7, Kinds

\* A function that is added comes after the others, with no body yet and
\* not exported.
LEMMA AddedFunctions ==
  ASSUME Types, BodiesMatch, Exporting, KeepsTexts(strings'),
         NEW f \in M3Function, module'.functions = Append(module.functions, f),
         f.export_name = 0, f.wasm = 0, Len(f.names) <= 1,
         exported' = exported, stage = "parsing"
  PROVE  BodiesMatch' /\ Exporting'
<1>1. module \in M3Module
  BY DEF Types
<1>2. PICK fs \in Seq(M3Function) : fs = module.functions
  BY <1>1 DEF M3Module
<1>3. PICK gs : gs = Append(fs, f)
  OBVIOUS
<1>4. /\ DOMAIN gs = DOMAIN fs \union {Len(fs) + 1} /\ gs[Len(fs) + 1] = f
      /\ \A i \in DOMAIN fs : gs[i] = fs[i]
  BY <1>3
<1>5. module'.functions = gs
  BY <1>2, <1>3
<1>6. BodiesMatch'
  BY <1>2, <1>4, <1>5 DEF BodiesMatch
<1>7. /\ \A e \in exported : e[2] \in DOMAIN fs /\ fs[e[2]].export_name # 0
      /\ \A i \in DOMAIN fs :
           IF fs[i].export_name = 0 THEN Len(fs[i].names) <= 1
           ELSE /\ fs[i].export_name \in DOMAIN strings
                /\ <<strings[fs[i].export_name].text, i>> \in exported
  BY <1>2 DEF Exporting
<1>8. \A i \in DOMAIN gs :
        IF gs[i].export_name = 0 THEN Len(gs[i].names) <= 1
        ELSE /\ gs[i].export_name \in DOMAIN strings'
             /\ <<strings'[gs[i].export_name].text, i>> \in exported'
  BY ZenonT(60), <1>4, <1>7 DEF KeepsTexts
<1>9. \A e \in exported' : e[2] \in DOMAIN gs /\ gs[e[2]].export_name # 0
  BY <1>4, <1>7
<1> QED BY <1>5, <1>6, <1>8, <1>9 DEF Exporting

\* A function that changes keeps its place.
LEMMA ChangedFunctions ==
  ASSUME Types, BodiesMatch, Exporting, KeepsTexts(strings'),
         NEW i \in DOMAIN module.functions, NEW f,
         module'.functions = [module.functions EXCEPT ![i] = f], stage = "parsing",
         f.wasm # 0 => f.wasm = f.decl, exported \subseteq exported',
         \A e \in exported' \ exported : e[2] = i,
         (\E e \in exported' : e[2] = i) => f.export_name # 0,
         IF f.export_name = 0 THEN Len(f.names) <= 1
         ELSE /\ f.export_name \in DOMAIN strings'
              /\ <<strings'[f.export_name].text, i>> \in exported'
  PROVE  BodiesMatch' /\ Exporting'
<1>1. PICK fs : fs = module.functions
  OBVIOUS
<1>2. PICK gs : gs = [fs EXCEPT ![i] = f]
  OBVIOUS
<1>3. /\ DOMAIN gs = DOMAIN fs /\ gs[i] = f /\ i \in DOMAIN fs
      /\ \A j \in DOMAIN fs : j # i => gs[j] = fs[j]
  BY <1>1, <1>2
<1>4. module'.functions = gs
  BY <1>1, <1>2
<1>5. BodiesMatch'
  BY <1>1, <1>3, <1>4 DEF BodiesMatch
<1>6. /\ \A e \in exported : e[2] \in DOMAIN fs /\ fs[e[2]].export_name # 0
      /\ \A j \in DOMAIN fs :
           IF fs[j].export_name = 0 THEN Len(fs[j].names) <= 1
           ELSE /\ fs[j].export_name \in DOMAIN strings
                /\ <<strings[fs[j].export_name].text, j>> \in exported
  BY <1>1 DEF Exporting
<1>7. ASSUME NEW j \in DOMAIN gs
      PROVE  IF gs[j].export_name = 0 THEN Len(gs[j].names) <= 1
             ELSE /\ gs[j].export_name \in DOMAIN strings'
                  /\ <<strings'[gs[j].export_name].text, j>> \in exported'
  <2>1. CASE j = i
    BY <1>3, <2>1
  <2>2. CASE j # i
    BY ZenonT(60), <1>3, <1>6, <2>2 DEF KeepsTexts
  <2> QED BY <2>1, <2>2
<1>8. ASSUME NEW e \in exported'
      PROVE  e[2] \in DOMAIN gs /\ gs[e[2]].export_name # 0
  <2>1. CASE e[2] = i
    BY <1>3, <2>1
  <2>2. CASE e[2] # i
    BY <1>3, <1>6, <2>2
  <2> QED BY <2>1, <2>2
<1> QED BY <1>4, <1>5, <1>7, <1>8 DEF Exporting

LEMMA QuietFunctions ==
  ASSUME Types, BodiesMatch, Exporting, KeepsTexts(strings'), Quiet
  PROVE  BodiesMatch' /\ Exporting'
<1>1. /\ module'.functions = module.functions /\ exported' = exported
      /\ stage' # "freed" => stage # "freed"
  BY DEF Quiet
<1>2. BodiesMatch'
  BY <1>1 DEF BodiesMatch
<1>3. CASE stage = "freed"
  <2>1. stage' = "freed"
    BY <1>3 DEF Quiet
  <2> QED BY <1>2, <2>1 DEF Exporting
<1>4. CASE stage # "freed"
  <2>1. PICK fs : fs = module.functions
    OBVIOUS
  <2>2. /\ \A e \in exported : e[2] \in DOMAIN fs /\ fs[e[2]].export_name # 0
        /\ \A j \in DOMAIN fs :
             IF fs[j].export_name = 0 THEN Len(fs[j].names) <= 1
             ELSE /\ fs[j].export_name \in DOMAIN strings
                  /\ <<strings[fs[j].export_name].text, j>> \in exported
    BY <1>4, <2>1 DEF Exporting
  <2>3. \A j \in DOMAIN fs :
          IF fs[j].export_name = 0 THEN Len(fs[j].names) <= 1
          ELSE /\ fs[j].export_name \in DOMAIN strings'
               /\ <<strings'[fs[j].export_name].text, j>> \in exported'
    BY <1>1, <2>2 DEF KeepsTexts
  <2>4. module'.functions = fs /\ \A e \in exported' : e[2] \in DOMAIN fs /\ fs[e[2]].export_name # 0
    BY <1>1, <2>1, <2>2
  <2> QED BY <1>2, <2>3, <2>4 DEF Exporting
<1> QED BY <1>2, <1>3, <1>4

-----------------------------------------------------------------------------
(***************************************************************************)
(* Every step keeps the functions as they should be.                       *)
(***************************************************************************)

LEMMA ImportFunctionOrders ==
  ASSUME IInv, KeepsTexts(strings'), Types',
         NEW field \in Texts, NEW typeIndex \in 0 .. 1, ImportFunction(field, typeIndex)
  PROVE  /\ BodiesMatch' /\ Exporting' /\ exported' = exported
         /\ stage' = "parsing" =>
              /\ expectedSection' <= 3
                   => Len(module'.functions) = module'.numFuncImports
              /\ \A i \in DOMAIN module'.functions :
                   i > module'.numFuncImports
                     => module'.functions[i].decl = i - module'.numFuncImports
<1> DEFINE f == [Blank EXCEPT !.import = Import, !.names = <<New + 1>>]
           added == IF typeIndex < module.numFuncTypes THEN f ELSE Blank
           a == Module_AddFunction(f, typeIndex)
<1>1. Len(strings) \in Nat /\ New + 1 \in Nat /\ Types
  BY ReadGrows, SomeTexts DEF New, IInv
<1>2. PICK names : names = <<New + 1>>
  OBVIOUS
<1>3. names \in Seq(Nat) /\ Len(names) = 1
  BY <1>1, <1>2
<1>4. /\ f \in M3Function /\ Len(f.names) <= 1 /\ f.export_name = 0 /\ f.wasm = 0
  <2>1. Import \in Info
    BY <1>1, ReadImportGrows
  <2>2. f = [Blank EXCEPT !.import = Import, !.names = names]
    BY <1>2
  <2>3. f \in M3Function /\ f.names = names /\ f.export_name = 0 /\ f.wasm = 0
    BY <1>3, <2>1, <2>2, BlankIs DEF M3Function
  <2> QED BY <1>3, <2>3
<1>5. exported' = exported /\ stage = "parsing" /\ section = "Import"
  BY DEF ImportFunction, Goes, Fails, Reads
<1> HIDE DEF f
<1>6. /\ a \in M3Module /\ added \in M3Function
      /\ a.functions = Append(module.functions, added)
      /\ a.numFuncImports = module.numFuncImports
  BY SMTT(40), <1>1, <1>4, AddFunctionIs
<1>7. Len(added.names) <= 1 /\ added.export_name = 0 /\ added.wasm = 0
  BY <1>4, BlankIs
<1>8. /\ module'.functions = a.functions
      /\ typeIndex < module.numFuncTypes => module'.numFuncImports = module.numFuncImports + 1
  <2>1. PICK x \in M3Module : x = a
    BY <1>6
  <2>2. [x EXCEPT !.numFuncImports = @ + 1].functions = x.functions
        /\ [x EXCEPT !.numFuncImports = @ + 1].numFuncImports = x.numFuncImports + 1
    BY DEF M3Module
  <2>3. /\ typeIndex < module.numFuncTypes => module' = [x EXCEPT !.numFuncImports = @ + 1]
        /\ ~(typeIndex < module.numFuncTypes) => module' = x
    BY <2>1 DEF ImportFunction, f
  <2> QED BY <1>6, <2>1, <2>2, <2>3
<1>9. BodiesMatch' /\ Exporting'
  <2>1. BodiesMatch /\ Exporting
    BY DEF IInv
  <2>2. module'.functions = Append(module.functions, added)
    BY <1>6, <1>8
  <2> HIDE DEF added, a
  <2> QED BY <1>1, <1>5, <1>6, <1>7, <2>1, <2>2, AddedFunctions
<1>10. ASSUME stage' = "parsing"
       PROVE  /\ Len(module'.functions) = module'.numFuncImports
              /\ \A i \in DOMAIN module'.functions : ~(i > module'.numFuncImports)
  <2>1. typeIndex < module.numFuncTypes
    BY <1>10 DEF ImportFunction, Fails
  <2>2. expectedSection = 3
    BY <1>5 DEF IInv, Ordered
  <2>3. Len(module.functions) = module.numFuncImports
    BY <1>5, <2>2 DEF IInv, Ordered
  <2>4. PICK fs \in Seq(M3Function) : fs = module.functions
    BY <1>1 DEF Types, M3Module
  <2>5. PICK gs : gs = Append(fs, added)
    OBVIOUS
  <2>6. gs \in Seq(M3Function) /\ Len(gs) = Len(fs) + 1 /\ DOMAIN gs = 1 .. Len(gs)
    BY <1>6, <2>4, <2>5
  <2>7. module'.functions = gs /\ module'.numFuncImports = Len(gs)
    BY <1>6, <1>8, <2>1, <2>3, <2>4, <2>5, <2>6
  <2> QED BY <2>6, <2>7
<1> QED BY <1>5, <1>9, <1>10

LEMMA FunctionEntryOrders ==
  ASSUME IInv, KeepsTexts(strings'), Types', NEW typeIndex \in 0 .. 1, FunctionEntry(typeIndex)
  PROVE  /\ BodiesMatch' /\ Exporting' /\ exported' = exported
         /\ stage' = "parsing" =>
              /\ expectedSection' <= 3
                   => Len(module'.functions) = module'.numFuncImports
              /\ \A i \in DOMAIN module'.functions :
                   i > module'.numFuncImports
                     => module'.functions[i].decl = i - module'.numFuncImports
<1> DEFINE decl == Len(module.functions) - module.numFuncImports + 1
           f == [Blank EXCEPT !.decl = decl]
           added == IF typeIndex < module.numFuncTypes THEN f ELSE Blank
<1>1. module \in M3Module /\ Types
  BY DEF IInv, Types
<1>2. decl \in Int
  BY <1>1 DEF M3Module
<1>3. /\ f \in M3Function /\ Len(f.names) <= 1 /\ f.export_name = 0 /\ f.wasm = 0
      /\ f.decl = decl
  <2> HIDE DEF decl
  <2>1. /\ f \in M3Function /\ f.names = <<>> /\ f.export_name = 0 /\ f.wasm = 0 /\ f.decl = decl
    BY <1>2, BlankIs DEF M3Function
  <2> QED BY <2>1
<1>4. /\ exported' = exported /\ stage = "parsing" /\ section = "Function"
      /\ expectedSection' = expectedSection
      /\ module' = Module_AddFunction(f, typeIndex)
  BY DEF FunctionEntry, Goes, Fails, Reads
<1> HIDE DEF f
<1>5. /\ added \in M3Function
      /\ module'.functions = Append(module.functions, added)
      /\ module'.numFuncImports = module.numFuncImports
  BY <1>1, <1>3, <1>4, AddFunctionIs
<1>6. Len(added.names) <= 1 /\ added.export_name = 0 /\ added.wasm = 0
  <2>1. Len(Blank.names) <= 1
    BY BlankIs
  <2> QED BY <1>3, <2>1, BlankIs
<1>7. BodiesMatch' /\ Exporting'
  <2>1. BodiesMatch /\ Exporting
    BY DEF IInv
  <2> HIDE DEF added
  <2> QED BY <1>1, <1>4, <1>5, <1>6, <2>1, AddedFunctions
<1>8. expectedSection = 4
  BY <1>4 DEF IInv, Ordered
<1>9. ASSUME stage' = "parsing", NEW i \in DOMAIN module'.functions, i > module'.numFuncImports
      PROVE  module'.functions[i].decl = i - module'.numFuncImports
  <2>1. typeIndex < module.numFuncTypes
    BY <1>9 DEF FunctionEntry, Fails
  <2>2. added = f
    BY <2>1
  <2>3. PICK fs \in Seq(M3Function) : fs = module.functions
    BY <1>1 DEF M3Module
  <2>4. PICK gs : gs = Append(fs, f)
    OBVIOUS
  <2>5. /\ DOMAIN gs = DOMAIN fs \union {Len(fs) + 1} /\ gs[Len(fs) + 1] = f
        /\ \A j \in DOMAIN fs : gs[j] = fs[j]
    BY <2>4
  <2>6. module'.functions = gs
    BY <1>5, <2>2, <2>3, <2>4
  <2>7. PICK imports \in Nat : imports = module.numFuncImports
    BY <1>1 DEF M3Module
  <2>8. CASE i = Len(fs) + 1
    <3>1. PICK n \in Nat : n = Len(fs)
      OBVIOUS
    <3>2. gs[i].decl = n - imports + 1
      BY <1>3, <2>3, <2>5, <2>7, <2>8, <3>1
    <3>3. i = n + 1
      BY <2>8, <3>1
    <3>4. gs[i].decl = i - imports
      BY <3>2, <3>3
    <3> QED BY <1>5, <2>6, <2>7, <3>4
  <2>9. CASE i \in DOMAIN fs
    <3>1. fs[i].decl = i - imports
      BY <1>4, <1>5, <1>9, <2>3, <2>7, <2>9 DEF IInv, Ordered
    <3> QED BY <1>5, <2>5, <2>6, <2>7, <2>9, <3>1
  <2> QED BY <1>9, <2>5, <2>6, <2>8, <2>9
<1> QED BY <1>4, <1>7, <1>8, <1>9

\* A function that changes and stays declared where it was.
LEMMA ChangeOrders ==
  ASSUME Types, Ordered, NEW i \in DOMAIN module.functions, NEW f,
         f.decl = module.functions[i].decl,
         module'.functions = [module.functions EXCEPT ![i] = f],
         module'.numFuncImports = module.numFuncImports,
         expectedSection' = expectedSection, stage = "parsing"
  PROVE  /\ expectedSection' <= 3 => Len(module'.functions) = module'.numFuncImports
         /\ \A j \in DOMAIN module'.functions :
              j > module'.numFuncImports
                => module'.functions[j].decl = j - module'.numFuncImports
<1>1. module \in M3Module
  BY DEF Types
<1>2. PICK fs \in Seq(M3Function) : fs = module.functions
  BY <1>1 DEF M3Module
<1>3. PICK gs : gs = [fs EXCEPT ![i] = f]
  OBVIOUS
<1>4. /\ DOMAIN gs = DOMAIN fs /\ Len(gs) = Len(fs)
      /\ \A j \in DOMAIN fs : gs[j].decl = fs[j].decl
  BY <1>2, <1>3
<1>5. /\ expectedSection <= 3 => Len(fs) = module.numFuncImports
      /\ \A j \in DOMAIN fs :
           j > module.numFuncImports => fs[j].decl = j - module.numFuncImports
  BY <1>2 DEF Ordered
<1>6. module'.functions = gs
  BY <1>2, <1>3
<1> QED BY <1>4, <1>5, <1>6

LEMMA CodeEntryOrders ==
  ASSUME IInv, KeepsTexts(strings'), Types', NEW isEmpty \in BOOLEAN, CodeEntry(isEmpty)
  PROVE  /\ BodiesMatch' /\ Exporting' /\ exported' = exported
         /\ expectedSection' <= 3 => Len(module'.functions) = module'.numFuncImports
         /\ \A j \in DOMAIN module'.functions :
              j > module'.numFuncImports
                => module'.functions[j].decl = j - module'.numFuncImports
<1> DEFINE i == module.numFuncImports + module.bodies + 1
           f == module.functions[i]
           g == [f EXCEPT !.wasm = IF isEmpty THEN @ ELSE module.bodies + 1]
<1>1. Types /\ Ordered /\ BodiesMatch /\ Exporting /\ module \in M3Module
  BY DEF IInv, Types
<1>2. /\ i \in DOMAIN module.functions /\ stage = "parsing" /\ exported' = exported
      /\ expectedSection' = expectedSection
      /\ module' = [module EXCEPT !.bodies = @ + 1,
                                  !.functions[i].wasm = IF isEmpty THEN @ ELSE module.bodies + 1]
  BY DEF CodeEntry, Reads, Goes
<1>3. PICK imports \in Nat, bodies \in Nat :
        imports = module.numFuncImports /\ bodies = module.bodies
  BY <1>1 DEF M3Module
<1>4. /\ module'.functions = [module.functions EXCEPT ![i] = g]
      /\ module'.numFuncImports = module.numFuncImports
  BY <1>1, <1>2 DEF M3Module
<1>5. PICK old \in M3Function : old = f
  BY <1>1, <1>2 DEF M3Module
<1>6. old.decl = bodies + 1
  <2>1. i > module.numFuncImports
    BY <1>3
  <2>2. old.decl = i - module.numFuncImports
    BY <1>1, <1>2, <1>5, <2>1 DEF Ordered
  <2> QED BY <1>3, <2>2
<1>7. PICK wasm : wasm = IF isEmpty THEN old.wasm ELSE bodies + 1
  OBVIOUS
<1>8. g = [old EXCEPT !.wasm = wasm]
  BY <1>3, <1>5, <1>7
<1>9. /\ g.decl = old.decl /\ g.wasm = wasm /\ g.names = old.names
      /\ g.export_name = old.export_name
  BY SMTT(40), <1>8 DEF M3Function
<1>10. old.wasm # 0 => old.wasm = old.decl
  BY <1>1, <1>2, <1>5 DEF BodiesMatch
<1>11. /\ (\E e \in exported : e[2] = i) => old.export_name # 0
       /\ IF old.export_name = 0 THEN Len(old.names) <= 1
          ELSE /\ old.export_name \in DOMAIN strings
               /\ <<strings[old.export_name].text, i>> \in exported
  BY <1>1, <1>2, <1>5 DEF Exporting
<1>12. g.decl = module.functions[i].decl
  BY <1>5, <1>9
<1> HIDE DEF g, f, i
<1>13. /\ g.wasm # 0 => g.wasm = g.decl
       /\ (\E e \in exported' : e[2] = i) => g.export_name # 0
       /\ IF g.export_name = 0 THEN Len(g.names) <= 1
          ELSE /\ g.export_name \in DOMAIN strings'
               /\ <<strings'[g.export_name].text, i>> \in exported'
  BY <1>2, <1>6, <1>7, <1>9, <1>10, <1>11 DEF KeepsTexts
<1>14. BodiesMatch' /\ Exporting'
  BY <1>1, <1>2, <1>4, <1>13, ChangedFunctions
<1> QED BY <1>1, <1>2, <1>4, <1>12, <1>14, ChangeOrders

LEMMA NameEntryOrders ==
  ASSUME IInv, KeepsTexts(strings'), Types',
         NEW index \in Nat, NEW text \in Texts, NameEntry(index, text)
  PROVE  /\ BodiesMatch' /\ Exporting' /\ exported' = exported
         /\ expectedSection' <= 3 => Len(module'.functions) = module'.numFuncImports
         /\ \A j \in DOMAIN module'.functions :
              j > module'.numFuncImports
                => module'.functions[j].decl = j - module'.numFuncImports
<1> DEFINE f == module.functions[index]
           g == [f EXCEPT !.names = <<New>>]
<1>1. Types /\ Ordered /\ BodiesMatch /\ Exporting /\ module \in M3Module
  BY DEF IInv, Types
<1>2. /\ stage = "parsing" /\ stage' = stage /\ exported' = exported
      /\ expectedSection' = expectedSection
  BY DEF NameEntry, Reads, Goes
<1>3. CASE index \in DOMAIN module.functions /\ f.names = <<>>
  <2>1. module' = [module EXCEPT !.functions[index].names = <<New>>]
    BY <1>3 DEF NameEntry
  <2>2. /\ module'.functions = [module.functions EXCEPT ![index] = g]
        /\ module'.numFuncImports = module.numFuncImports
    BY <1>1, <1>3, <2>1 DEF M3Module
  <2>3. PICK old \in M3Function : old = f
    BY <1>1, <1>3 DEF M3Module
  <2>4. PICK names : names = <<New>> /\ Len(names) = 1
    <3>1. Len(<<New>>) = 1
      OBVIOUS
    <3> QED BY <3>1
  <2>5. g = [old EXCEPT !.names = names]
    BY <2>3, <2>4
  <2>6. /\ g.decl = old.decl /\ g.wasm = old.wasm /\ g.names = names
        /\ g.export_name = old.export_name
    BY <2>5 DEF M3Function
  <2>7. old.wasm # 0 => old.wasm = old.decl
    BY <1>1, <1>3, <2>3 DEF BodiesMatch
  <2>8. /\ (\E e \in exported : e[2] = index) => old.export_name # 0
        /\ old.export_name # 0 =>
             /\ old.export_name \in DOMAIN strings
             /\ <<strings[old.export_name].text, index>> \in exported
    BY <1>1, <1>2, <1>3, <2>3 DEF Exporting
  <2>9. g.decl = module.functions[index].decl
    BY <2>3, <2>6
  <2> HIDE DEF g, f
  <2>10. /\ g.wasm # 0 => g.wasm = g.decl
         /\ (\E e \in exported' : e[2] = index) => g.export_name # 0
         /\ IF g.export_name = 0 THEN Len(g.names) <= 1
            ELSE /\ g.export_name \in DOMAIN strings'
                 /\ <<strings'[g.export_name].text, index>> \in exported'
    BY <1>2, <2>4, <2>6, <2>7, <2>8 DEF KeepsTexts
  <2>11. BodiesMatch' /\ Exporting'
    BY <1>1, <1>2, <1>3, <2>2, <2>10, ChangedFunctions
  <2> QED BY <1>1, <1>2, <1>3, <2>2, <2>9, <2>11, ChangeOrders
<1>4. CASE ~(index \in DOMAIN module.functions /\ f.names = <<>>)
  <2>1. module' = module
    BY <1>4 DEF NameEntry
  <2>2. Quiet
    BY <1>2, <2>1 DEF Quiet
  <2>3. BodiesMatch' /\ Exporting'
    BY <1>1, <2>2, QuietFunctions
  <2> QED BY <1>1, <1>2, <2>1, <2>3 DEF Ordered
<1> QED BY <1>3, <1>4

LEMMA ExportFunctionOrders ==
  ASSUME IInv, KeepsTexts(strings'), Types',
         NEW index \in Nat, NEW text \in Texts, ExportFunction(index, text)
  PROVE  /\ BodiesMatch' /\ Exporting' /\ exported' \subseteq exported \union {<<text, index>>}
         /\ stage' = "parsing" =>
              /\ expectedSection' <= 3
                   => Len(module'.functions) = module'.numFuncImports
              /\ \A j \in DOMAIN module'.functions :
                   j > module'.numFuncImports
                     => module'.functions[j].decl = j - module'.numFuncImports
<1> DEFINE f == module.functions[index]
           g == [f EXCEPT !.names = Append(@, New), !.export_name = New]
<1>1. Types /\ Ordered /\ BodiesMatch /\ Exporting /\ module \in M3Module
  BY DEF IInv, Types
<1>2. stage = "parsing" /\ New \in Nat \ {0} /\ text \in AllTexts
  BY <1>1, ReadGrows, SomeTexts DEF ExportFunction, Reads
<1>3. CASE index \notin DOMAIN module.functions
  <2>1. module' = module /\ stage' = "failed" /\ exported' = exported
    BY <1>3 DEF ExportFunction, Fails
  <2>2. Quiet
    BY SMTT(40), <1>2, <2>1 DEF Quiet
  <2>3. BodiesMatch' /\ Exporting'
    BY <1>1, <2>2, QuietFunctions
  <2> QED BY <2>1, <2>3
<1>4. CASE index \in DOMAIN module.functions /\ Len(f.names) < MaxNames
  <2>1. /\ module' = [module EXCEPT !.functions[index].names = Append(@, New),
                                    !.functions[index].export_name = New]
        /\ exported' = exported \union {<<text, index>>}
        /\ expectedSection' = expectedSection /\ strings' = Read(text)
    BY <1>4 DEF ExportFunction
  <2>2. /\ module'.functions = [module.functions EXCEPT ![index] = g]
        /\ module'.numFuncImports = module.numFuncImports
    BY <1>1, <1>4, <2>1 DEF M3Module
  <2>3. PICK old \in M3Function : old = f
    BY <1>1, <1>4 DEF M3Module
  <2>4. PICK names : names = Append(old.names, New)
    OBVIOUS
  <2>5. g = [old EXCEPT !.names = names, !.export_name = New]
    BY <2>3, <2>4
  <2>6. g.decl = old.decl /\ g.wasm = old.wasm /\ g.export_name = New
    BY <2>5 DEF M3Function
  <2>7. old.wasm # 0 => old.wasm = old.decl
    BY <1>1, <1>4, <2>3 DEF BodiesMatch
  <2>8. New \in DOMAIN Read(text) /\ Read(text)[New].text = text
    BY <1>1, <1>2, ReadGrows
  <2>9. g.decl = module.functions[index].decl
    BY <2>3, <2>6
  <2> HIDE DEF g, f
  <2>10. /\ g.wasm # 0 => g.wasm = g.decl
         /\ g.export_name # 0
         /\ g.export_name \in DOMAIN strings'
         /\ <<strings'[g.export_name].text, index>> \in exported'
    BY <1>2, <2>1, <2>6, <2>7, <2>8
  <2>11. exported \subseteq exported' /\ \A e \in exported' \ exported : e[2] = index
    BY <2>1
  <2>12. BodiesMatch' /\ Exporting'
    BY <1>1, <1>2, <1>4, <2>2, <2>10, <2>11, ChangedFunctions
  <2> QED BY <1>1, <1>2, <1>4, <2>1, <2>2, <2>9, <2>12, ChangeOrders
<1>5. CASE index \in DOMAIN module.functions /\ ~(Len(f.names) < MaxNames)
  <2>1. /\ module' = module /\ exported' = exported \union {<<text, index>>}
        /\ expectedSection' = expectedSection /\ stage' = stage
    BY <1>5 DEF ExportFunction
  <2>2. PICK old \in M3Function : old = f
    BY <1>1, <1>5 DEF M3Module
  <2>3. Len(old.names) \in Nat /\ ~(Len(old.names) <= 1)
    BY SMTT(40), <1>5, <2>2, LoadAssumption DEF M3Function
  <2>4. old.export_name # 0
    BY <1>1, <1>2, <1>5, <2>2, <2>3 DEF Exporting
  <2>5. old.export_name \in DOMAIN strings /\ <<strings[old.export_name].text, index>> \in exported
    BY <1>1, <1>2, <1>5, <2>2, <2>4 DEF Exporting
  <2>6. old.wasm # 0 => old.wasm = old.decl
    BY <1>1, <1>5, <2>2 DEF BodiesMatch
  <2>7. module'.functions = [module.functions EXCEPT ![index] = old]
    <3>1. module.functions \in Seq(M3Function)
      BY <1>1 DEF M3Module
    <3> QED BY <1>5, <2>1, <2>2, <3>1
  <2>8. exported \subseteq exported' /\ \A e \in exported' \ exported : e[2] = index
    BY <2>1
  <2>9. old.export_name \in DOMAIN strings' /\ <<strings'[old.export_name].text, index>> \in exported'
    BY <2>1, <2>5 DEF KeepsTexts
  <2>10. BodiesMatch' /\ Exporting'
    BY <1>1, <1>2, <1>5, <2>4, <2>6, <2>7, <2>8, <2>9, ChangedFunctions
  <2> QED BY <1>1, <1>2, <2>1, <2>10 DEF Ordered
<1> QED BY <1>3, <1>4, <1>5

LEMMA FunctionsStep ==
  ASSUME IInv, [Next]_vars, Types'
  PROVE  (Ordered /\ BodiesMatch /\ IsFiniteSet(exported) /\ Exporting)'
<1>1. Types /\ Held /\ Ordered /\ BodiesMatch /\ Exporting /\ IsFiniteSet(exported)
  BY DEF IInv
<1>2. KeepsTexts(strings')
  BY <1>1, TextsStay
<1>3. /\ section' = "Import" => expectedSection' = 3
      /\ section' = "Function" => expectedSection' = 4
      /\ stage' = "parsing" => stage = "parsing"
      /\ expectedSection' >= expectedSection
  BY <1>1, OrderStep
<1>4. expectedSection \in Nat /\ expectedSection' \in Nat
  BY <1>1 DEF Types
<1> DEFINE OrderedThen ==
      stage' = "parsing" =>
        /\ expectedSection' <= 3 => Len(module'.functions) = module'.numFuncImports
        /\ \A i \in DOMAIN module'.functions :
             i > module'.numFuncImports => module'.functions[i].decl = i - module'.numFuncImports
<1>5. ASSUME Quiet
      PROVE  OrderedThen /\ BodiesMatch' /\ Exporting' /\ exported' = exported
  <2>1. BodiesMatch' /\ Exporting'
    BY <1>1, <1>2, <1>5, QuietFunctions
  <2>2. OrderedThen
    BY <1>1, <1>3, <1>4, <1>5 DEF Quiet, Ordered
  <2> QED BY <1>5, <2>1, <2>2 DEF Quiet
<1>6. \/ OrderedThen /\ BodiesMatch' /\ Exporting' /\ exported' = exported
      \/ \E text \in Texts, index \in Nat :
           /\ OrderedThen /\ BodiesMatch' /\ Exporting'
           /\ exported' \subseteq exported \union {<<text, index>>}
  <2>1. CASE Quiet /\ InPlace
    BY <1>5, <2>1
  <2>2. CASE \E s \in Sections : Begins(s)
    <3>1. Quiet
      BY <1>1, <2>2 DEF Begins, Fails, Quiet
    <3> QED BY <1>5, <3>1
  <2>3. CASE \E typeIndex \in 0 .. 1 : FunctionEntry(typeIndex)
    BY <1>2, <2>3, FunctionEntryOrders
  <2>4. CASE \E typeIndex \in 0 .. 1 : \E field \in Texts : ImportFunction(field, typeIndex)
    BY <1>2, <2>4, ImportFunctionOrders
  <2>5. CASE \E b \in BOOLEAN : CodeEntry(b)
    BY <1>2, <2>5, CodeEntryOrders
  <2>6. CASE \E index \in Nat, text \in Texts : ExportFunction(index, text)
    BY <1>2, <2>6, ExportFunctionOrders
  <2>7. CASE \E index \in Nat, text \in Texts : NameEntry(index, text)
    BY <1>2, <2>7, NameEntryOrders
  <2>8. CASE module' = NoModule /\ stage' = "freed" /\ exported' = exported /\ InPlace
    <3>1. DOMAIN module'.functions = {}
      <4>1. module'.functions = <<>>
        BY <2>8 DEF NoModule
      <4> QED BY <4>1
    <3>2. BodiesMatch'
      BY <3>1 DEF BodiesMatch
    <3>3. Exporting'
      BY <2>8 DEF Exporting
    <3> QED BY <2>8, <3>2, <3>3
  <2> QED BY <1>1, <2>1, <2>2, <2>3, <2>4, <2>5, <2>6, <2>7, <2>8, Kinds
<1>7. OrderedThen /\ BodiesMatch' /\ Exporting'
  <2> HIDE DEF OrderedThen
  <2> QED BY <1>6
<1>8. \/ exported' = exported
      \/ \E e : exported' \subseteq exported \union {e}
  <2> HIDE DEF OrderedThen
  <2> QED BY <1>6
<1>9. IsFiniteSet(exported')
  BY <1>1, <1>8, FS_AddElement, FS_Subset
<1> QED BY <1>3, <1>7, <1>9 DEF Ordered

-----------------------------------------------------------------------------
(***************************************************************************)
(* The theorems.                                                           *)
(***************************************************************************)

LEMMA InitIInv ==
  ASSUME Init
  PROVE  IInv
<1>1. Types /\ Held
  BY InitHeld
<1>2. PICK fs : fs = <<>>
  OBVIOUS
<1>3. module.functions = fs /\ module.numFuncImports = 0 /\ custom = 0 /\ section = "none"
      /\ exported = {}
  BY <1>2 DEF Init, NoModule
<1>4. Len(fs) = 0 /\ DOMAIN fs = {}
  BY <1>2
<1>5. Reading
  BY <1>3 DEF Reading
<1>6. Ordered
  BY <1>3, <1>4 DEF Ordered
<1>7. BodiesMatch
  BY <1>3, <1>4 DEF BodiesMatch
<1>8. IsFiniteSet(exported)
  BY <1>3, FS_EmptySet
<1>9. Exporting
  BY <1>3, <1>4 DEF Exporting
<1> QED BY <1>1, <1>5, <1>6, <1>7, <1>8, <1>9 DEF IInv

\* Whatever bytes a module is read from, each string that is not freed has
\* exactly one pointer or was lost, the declared functions come after the
\* imported ones, and a function that is exported has its last exported name
\* (m3_ParseModule, m3_LoadModule and m3_FreeModule).
THEOREM StringsHaveOneOwner == Spec => []IInv
<1>1. Init => IInv
  BY InitIInv
<1>2. IInv /\ [Next]_vars => IInv'
  <2> SUFFICES ASSUME IInv, [Next]_vars PROVE IInv'
    OBVIOUS
  <2>1. Types /\ Held /\ Reading
    BY DEF IInv
  <2>2. Types' /\ Held'
    BY <2>1, HeldStep
  <2>3. Reading'
    BY <2>1, ReadingStep
  <2>4. (Ordered /\ BodiesMatch /\ IsFiniteSet(exported) /\ Exporting)'
    BY <2>2, FunctionsStep
  <2> QED BY <2>2, <2>3, <2>4 DEF IInv
<1> QED BY <1>1, <1>2, PTL DEF Spec

\* What is owned is what is at a place.
LEMMA OwnedIsPointedTo ==
  ASSUME NEW s
  PROVE  s \in Owned
           <=> \E p \in DOMAIN Pointers(module, custom) : Pointers(module, custom)[p] = s
<1> DEFINE P == Pointers(module, custom)
<1>1. /\ \A part \in Parts(module) : \A k \in DOMAIN Release(module, part) :
           /\ <<part, k>> \in DOMAIN P
           /\ P[<<part, k>>] = Release(module, part)[k]
      /\ \A p \in DOMAIN P :
           p = Custom
           \/ \E part \in Parts(module) : \E k \in DOMAIN Release(module, part) :
                p = <<part, k>>
      /\ Custom \in DOMAIN P /\ P[Custom] = custom
  BY PlacesAre
<1>2. s \in Points(module)
        <=> \E part \in Parts(module) : \E k \in DOMAIN Release(module, part) :
              Release(module, part)[k] = s
  BY DEF Points, ToSet
<1> HIDE DEF P
<1>3. s \in Owned <=> s \in Points(module) \/ s = custom
  BY DEF Owned
<1>4. ASSUME s \in Owned PROVE \E p \in DOMAIN P : P[p] = s
  <2>1. CASE s = custom
    BY <2>1, <1>1
  <2>2. CASE s \in Points(module)
    <3>1. PICK part \in Parts(module) : \E k \in DOMAIN Release(module, part) :
              Release(module, part)[k] = s
      BY <2>2, <1>2
    <3>2. PICK k \in DOMAIN Release(module, part) : Release(module, part)[k] = s
      BY <3>1
    <3> QED BY <3>2, <1>1
  <2> QED BY <2>1, <2>2, <1>3, <1>4
<1>5. ASSUME NEW p \in DOMAIN P, P[p] = s PROVE s \in Owned
  <2>1. CASE p = Custom
    BY <2>1, <1>1, <1>3, <1>5
  <2>2. ASSUME NEW part \in Parts(module), NEW k \in DOMAIN Release(module, part),
               p = <<part, k>>
        PROVE  s \in Owned
    BY <2>2, <1>1, <1>2, <1>3, <1>5
  <2> QED BY <2>1, <2>2, <1>1
<1>6. s \in Owned <=> \E p \in DOMAIN P : P[p] = s
  BY <1>4, <1>5
<1> QED BY <1>6 DEF P

\* No string is freed twice and none that is still pointed to is freed,
\* whichever section fails and whatever is replaced (Function_Release,
\* FreeImportInfo and the m3_Free calls of m3_parse.c).
THEOREM StringsAreFreedOnce == Spec => []NothingFreedTwice
<1>1. IInv => NothingFreedTwice
  <2> SUFFICES ASSUME IInv, NEW s \in DOMAIN strings
               PROVE  strings[s].freed <= IF s \in Owned THEN 0 ELSE 1
    BY DEF NothingFreedTwice
  <2> DEFINE P == Pointers(module, custom)
  <2>1. Types /\ Owning(P, strings, lost)
    BY DEF IInv, Held
  <2>2. strings[s].freed \in 0 .. 1
    BY <2>1 DEF Owning
  <2>3. s # 0
    BY <2>1 DEF Types
  <2>4. ASSUME s \in Owned PROVE strings[s].freed = 0
    <3>1. PICK p \in DOMAIN P : P[p] = s
      BY <2>4, OwnedIsPointedTo
    <3> HIDE DEF P
    <3> QED BY <3>1, <2>1, <2>3 DEF Owning
  <2> HIDE DEF P
  <2> QED BY <2>2, <2>4
<1> QED BY <1>1, StringsHaveOneOwner, PTL

\* A string that nothing will free was lost in one of the three places where
\* the code drops a pointer: NameSectionEnds, ImportMemory and m3_LoadModule.
THEOREM StringsAreFreedOrOwned == Spec => []NothingElseLost
<1>1. IInv => NothingElseLost
  <2> SUFFICES ASSUME IInv, NEW s \in DOMAIN strings, strings[s].freed = 0
               PROVE  s \in Owned \union lost
    BY DEF NothingElseLost
  <2> DEFINE P == Pointers(module, custom)
  <2>1. Owning(P, strings, lost)
    BY DEF IInv, Held
  <2>2. s \in lost \/ \E p \in DOMAIN P : P[p] = s
    <3> HIDE DEF P
    <3> QED BY <2>1 DEF Owning
  <2> QED BY <2>2, OwnedIsPointedTo
<1> QED BY <1>1, StringsHaveOneOwner, PTL

\* A body becomes the code of the function that was declared in its place,
\* with any number of imports (ParseSection_Code).
THEOREM BodiesAreOfTheirFunctions == Spec => []BodiesMatch
<1>1. IInv => BodiesMatch
  BY DEF IInv
<1> QED BY <1>1, StringsHaveOneOwner, PTL

LEMMA OnlyOne ==
  ASSUME NEW S, IsFiniteSet(S), Cardinality(S) <= 1, NEW a \in S, NEW b \in S
  PROVE  a = b
<1> SUFFICES ASSUME a # b PROVE FALSE
  OBVIOUS
<1>1. /\ IsFiniteSet(S \ {a}) /\ Cardinality(S \ {a}) = Cardinality(S) - 1
      /\ Cardinality(S) \in Nat /\ Cardinality(S \ {a}) \in Nat
  BY FS_RemoveElement, FS_CardinalityType
<1>2. Cardinality(S \ {a}) = 0
  BY <1>1
<1>3. S \ {a} = {}
  BY <1>1, <1>2, FS_EmptySet
<1> QED BY <1>3

LEMMA LeastOf ==
  ASSUME NEW ns \in SUBSET Nat, ns # {}
  PROVE  \E n \in ns : \A m \in ns : n <= m
<1> DEFINE starts == {0 .. n : n \in ns}
           before == StrictSubsetOrdering(Nat)
<1>1. starts \subseteq FiniteSubsetsOf(Nat) /\ starts # {}
  <2>1. ASSUME NEW n \in ns PROVE 0 .. n \in FiniteSubsetsOf(Nat)
    BY FS_Interval DEF FiniteSubsetsOf
  <2> QED BY <2>1
<1>2. PICK x \in starts : \A y \in starts : ~(<<y, x>> \in before)
  <2>1. IsWellFoundedOn(before, FiniteSubsetsOf(Nat))
    BY FS_StrictSubsetOrderingWellFounded
  <2> HIDE DEF before, starts
  <2> QED BY <1>1, <2>1, WFMin
<1>3. PICK n \in ns : x = 0 .. n
  OBVIOUS
<1>4. ASSUME NEW m \in ns PROVE n <= m
  <2>1. ~(<<0 .. m, 0 .. n>> \in before)
    BY <1>2, <1>3
  <2> SUFFICES ASSUME m < n PROVE FALSE
    OBVIOUS
  <2>2. m \in Nat /\ n \in Nat
    OBVIOUS
  <2> HIDE DEF starts, before
  <2>3. n \in 0 .. n /\ n \notin 0 .. m
    BY <2>2
  <2>4. 0 .. m \subseteq 0 .. n /\ 0 .. m \in SUBSET Nat /\ 0 .. n \in SUBSET Nat
    BY <2>2
  <2>5. <<0 .. m, 0 .. n>> \in before
    BY <2>3, <2>4 DEF StrictSubsetOrdering, before
  <2> QED BY <2>1, <2>5
<1> QED BY <1>4

LEMMA FirstIsMember ==
  ASSUME NEW ns \in SUBSET Nat, ns # {}
  PROVE  First(ns) \in ns
<1>1. \E n \in ns : \A m \in ns : n <= m
  BY LeastOf
<1> QED BY <1>1 DEF First

\* In a module that exports no function under two names, an exported name
\* finds a function that is exported by it (v_FindFunction in m3_env.c, with
\* the export_name that ParseSection_Export sets).
THEOREM ExportedNamesAreFound == Spec => []FindsExported
<1>1. IInv => FindsExported
  <2> SUFFICES ASSUME IInv, stage = "loaded",
                      \A i \in DOMAIN module.functions :
                        Cardinality({e \in exported : e[2] = i}) <= 1,
                      NEW text \in Texts, Exports(text) # {}
               PROVE  v_FindFunction(text) \in Exports(text)
    BY DEF FindsExported
  <2> DEFINE f(i) == module.functions[i]
             byExport == {i \in DOMAIN module.functions :
                            f(i).export_name # 0 /\ strings[f(i).export_name].text = text}
  <2>1. /\ Types /\ IsFiniteSet(exported)
        /\ \A e \in exported :
             e[2] \in DOMAIN module.functions /\ f(e[2]).export_name # 0
        /\ \A i \in DOMAIN module.functions :
             f(i).export_name # 0 => <<strings[f(i).export_name].text, i>> \in exported
    BY DEF IInv, Exporting
  <2>2. DOMAIN module.functions \subseteq Nat
    <3>1. module.functions \in Seq(M3Function)
      BY <2>1 DEF Types, M3Module
    <3> QED BY <3>1
  <2>3. Exports(text) \subseteq byExport
    <3> SUFFICES ASSUME NEW i \in DOMAIN module.functions, <<text, i>> \in exported
                 PROVE  i \in byExport
      BY DEF Exports
    <3> DEFINE S == {e \in exported : e[2] = i}
               last == <<strings[f(i).export_name].text, i>>
    <3>1. f(i).export_name # 0
      <4>1. f(<<text, i>>[2]).export_name # 0
        BY <2>1
      <4> QED BY <4>1
    <3>2. last \in exported
      BY <2>1, <3>1
    <3>3. IsFiniteSet(S) /\ Cardinality(S) <= 1
      BY <2>1, FS_Subset
    <3>4. <<text, i>> \in S /\ last \in S
      BY <3>2
    <3>5. <<text, i>> = last
      <4> HIDE DEF S, last
      <4> QED BY <3>3, <3>4, OnlyOne
    <3> QED BY <3>1, <3>5
  <2>4. byExport \subseteq Exports(text)
    BY <2>1 DEF Exports
  <2>5. First(byExport) \in byExport
    <3>1. byExport \in SUBSET Nat /\ byExport # {}
      BY <2>2, <2>3
    <3> HIDE DEF byExport
    <3> QED BY <3>1, FirstIsMember
  <2>6. v_FindFunction(text) = First(byExport)
    BY <2>3 DEF v_FindFunction
  <2> HIDE DEF byExport
  <2> QED BY <2>4, <2>5, <2>6
<1> QED BY <1>1, StringsHaveOneOwner, PTL

=============================================================================
