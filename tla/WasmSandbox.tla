---------------------------- MODULE WasmSandbox ----------------------------
(***************************************************************************)
(* execute_wasm_in_sandbox (src/src/velum_core.cpp): one task after the    *)
(* other, each in an environment and a runtime of its own, on top of the   *)
(* code pages of Wasm3.  Every step can fail, for want of memory or by the *)
(* task's own fault, and every failure has its early return.  The heap is  *)
(* the set of what the run has allocated and not freed.                    *)
(*                                                                         *)
(* What a module holds is left out, and so are the values it computes: a   *)
(* step succeeds or fails, and compiles what it has to compile.            *)
(***************************************************************************)
EXTENDS M3CodePages

VARIABLES
  pc,       \* the step of execute_wasm_in_sandbox
  heap,     \* what this run has allocated, apart from the pages
  modules,  \* runtime->modules
  start,    \* the module's start function is still to be run
  code      \* what the last run returned: "value" or the code of an error

svars == <<pc, heap, modules, start, code>>
vars  == <<pvars, svars>>

Init ==
  /\ store = EmptyStore
  /\ rt = NoRuntime /\ page = NoPage /\ frames = <<>> /\ thrown = FALSE /\ abandoned = FALSE
  /\ pc = "idle" /\ heap = {} /\ modules = {} /\ start = FALSE /\ code = "value"

-----------------------------------------------------------------------------
\* A new run.  What the one before has left behind stays allocated, and nothing
\* refers to it any more.
m3_NewEnvironment ==
  /\ pc = "idle"
  /\ store' = EmptyStore /\ abandoned' = FALSE
  /\ \/ /\ heap' = {"environment"} /\ pc' = "new runtime"
        /\ UNCHANGED <<modules, start, code>>
     \/ /\ heap' = {} /\ code' = "-1"
        /\ UNCHANGED <<pc, modules, start>>
  /\ UNCHANGED <<rt, page, frames, thrown>>

\* Without its stack the runtime is freed again.
m3_NewRuntime ==
  /\ pc = "new runtime"
  /\ \/ heap' = heap \cup {"runtime", "stack"} /\ pc' = "parse" /\ UNCHANGED code
     \/ code' = "-1" /\ pc' = "free environment" /\ UNCHANGED heap
  /\ UNCHANGED <<pvars, modules, start>>

\* An error frees the module before it is returned.
m3_ParseModule ==
  /\ pc = "parse"
  /\ \/ /\ heap' = heap \cup {"module"} /\ start' \in BOOLEAN
        /\ pc' = "init memory" /\ UNCHANGED code
     \/ code' = "-2" /\ pc' = "free runtime" /\ UNCHANGED <<heap, start>>
  /\ UNCHANGED <<pvars, modules>>

-----------------------------------------------------------------------------
\* The code that a step which has failed returns.
Failure == [s \in {"init memory", "load", "find", "call"} |->
              IF s = "find" THEN "-4" ELSE IF s = "call" THEN "-5" ELSE "-3"]

\* m3_LoadModule begins with the linear memory, unless the module imports it.
InitMemory ==
  /\ pc = "init memory"
  /\ \/ /\ heap' \in {heap, heap \cup {"memory"}} /\ pc' = "load" /\ UNCHANGED code
     \/ /\ code' = Failure[pc] /\ pc' = "free runtime" /\ UNCHANGED heap
  /\ UNCHANGED <<pvars, modules, start>>

\* The value of a global, of the offset of a data segment or of a table segment.
EvaluateExpression ==
  /\ pc = "load"
  /\ BeginCompile("expr")
  /\ UNCHANGED svars

\* The module joins the runtime, or does not: then it is left as it is.  Without
\* a memory of its own it does not (InitDataSegments).
m3_LoadModule ==
  /\ pc = "load" /\ rt = NoRuntime
  /\ \/ "memory" \in heap /\ modules' = {"module"} /\ pc' = "find" /\ UNCHANGED code
     \/ code' = Failure[pc] /\ pc' = "free runtime" /\ UNCHANGED modules
  /\ UNCHANGED <<pvars, heap, start>>

-----------------------------------------------------------------------------
\* A function is compiled when it is looked up, when it is the start function and
\* when it is first called.
CompileFunction ==
  /\ pc \in {"find", "call"}
  /\ BeginCompile("main")
  /\ UNCHANGED svars

\* The compilation ends, and with an error the step that needed it.
Compiled ==
  /\ EndCompile
  /\ IF thrown THEN code' = Failure[pc] /\ pc' = "free runtime" ELSE UNCHANGED <<code, pc>>
  /\ UNCHANGED <<heap, modules, start>>

Compile ==
  /\ CompileStep
  /\ UNCHANGED svars

m3_FindFunction ==
  /\ pc = "find" /\ rt = NoRuntime
  /\ \/ pc' = "call" /\ UNCHANGED code
     \/ code' = Failure[pc] /\ pc' = "free runtime"
  /\ UNCHANGED <<pvars, heap, modules, start>>

\* checkStartFunction: the start function runs before the first call, once.
m3_RunStart ==
  /\ pc = "call" /\ rt = NoRuntime /\ start
  /\ \/ start' = FALSE /\ UNCHANGED <<pc, code>>
     \/ code' = Failure[pc] /\ pc' = "free runtime" /\ UNCHANGED start
  /\ UNCHANGED <<pvars, heap, modules>>

\* The result, or a wrong number of arguments or a trap.
m3_Call ==
  /\ pc = "call" /\ rt = NoRuntime
  /\ \/ ~start /\ code' = "value"
     \/ code' = Failure[pc]
  /\ pc' = "free runtime"
  /\ UNCHANGED <<pvars, heap, modules, start>>

-----------------------------------------------------------------------------
\* Mutant: the modules are not visited.
Freed_NoModules == {"runtime", "stack", "memory"}
Freed == modules \cup {"runtime", "stack", "memory"}

m3_FreeRuntime ==
  /\ pc = "free runtime"
  /\ store' = Runtime_Release(store, "main")
  /\ heap' = heap \ Freed /\ modules' = {} /\ start' = FALSE
  /\ pc' = "free environment"
  /\ UNCHANGED <<comp, code>>

m3_FreeEnvironment ==
  /\ pc = "free environment"
  /\ store' = Environment_Release(store)
  /\ heap' = heap \ {"environment"}
  /\ pc' = "idle"
  /\ UNCHANGED <<comp, modules, start, code>>

Next ==
  \/ m3_NewEnvironment \/ m3_NewRuntime \/ m3_ParseModule
  \/ InitMemory \/ EvaluateExpression \/ m3_LoadModule
  \/ CompileFunction \/ Compile \/ Compiled \/ m3_FindFunction
  \/ m3_RunStart \/ m3_Call
  \/ m3_FreeRuntime \/ m3_FreeEnvironment

Spec == Init /\ [][Next]_vars

-----------------------------------------------------------------------------
(***************************************************************************)
(* Correctness.                                                            *)
(***************************************************************************)
Steps == {"idle", "new runtime", "parse", "init memory", "load", "find", "call",
          "free runtime", "free environment"}

\* Every variable has its type.
TypeOK ==
  /\ PagesTypeOK
  /\ pc \in Steps /\ heap \subseteq {"environment", "runtime", "stack", "memory", "module"}
  /\ modules \subseteq {"module"} /\ start \in BOOLEAN
  /\ code \in {"value", "-1", "-2", "-3", "-4", "-5"}

\* The assertion of Runtime_Release: when a runtime is released no page of it is
\* active, but for the pages a branch table has lost.
NoneActive ==
  /\ rt # "expr" => store.numActiveCodePages["expr"] = 0
  /\ pc = "free runtime" => store.numActiveCodePages["main"] = Cardinality(Lost)

\* A task leaves nothing behind, whatever fails at whatever point, but for two
\* cases: a module whose load fails belongs to nobody, and an error in a branch
\* table can lose pages.  Its runtimes are released with no other page active.
ReturnsClean ==
  /\ pc = "idle" => /\ heap = IF code = "-3" THEN {"module"} ELSE {}
                    /\ Allocated(store) # {} => abandoned
  /\ NoneActive
=============================================================================
