------------------------------- MODULE M3Exec -------------------------------
(***************************************************************************)
(* The interpreter of Wasm3 (include/m3_exec.h) and the calls into it      *)
(* (src/m3_env.c): operations that call each other in C, each with its own *)
(* copy of the pointer _mem to the linear memory, which memory.grow moves. *)
(*                                                                         *)
(* frames are the activations in C that wait for one they called: op_Call, *)
(* op_Loop, op_CallRawFunction, m3_Call and m3_RunStart. run is the code   *)
(* that runs: its function, its _sp, whether its _mem is the memory of the *)
(* runtime (fresh) and, for the program, the loops it is in (open) and the *)
(* last loop it has come past (pos). r is what the code returns to the     *)
(* innermost frame, or says who runs. The program is any program: each     *)
(* step is one of the operations that touch this state.                    *)
(***************************************************************************)
EXTENDS Integers, Sequences, FiniteSets, FiniteSetsExt, SequencesExt

CONSTANTS Functions,       \* functions of the module
          Broken,          \* the ones that do not compile
          StartFunction,   \* one of them, or "none"
          FrameSlots,      \* maxStackSlots of each function
          CallSlots,       \* slots of the arguments and results of a call, at most
          Table,           \* table0: functions, "null" and "other type"
          Outer,           \* for each loop of a function the one around it, or 0
          NumStackSlots,   \* of the runtime
          MaxPages, PageSize, HeaderSize,
          U32,             \* a u32 is below this
          GrowsInCallback, \* code that a host function has called may grow the memory
          MaxFrames        \* bound: frames in C

Slack == 4  \* slots of the stack beyond numStackSlots
Loops == DOMAIN Outer

ASSUME ExecAssumption ==
    /\ "none" \notin Functions /\ "null" \notin Functions /\ "other type" \notin Functions
    /\ Broken \subseteq Functions /\ StartFunction \in Functions \union {"none"}
    /\ FrameSlots \in [Functions -> Nat] /\ CallSlots \in Nat
    /\ Table \in Seq(Functions \union {"null", "other type"})
    /\ Outer \in Seq(Nat) /\ \A l \in Loops : Outer[l] \in 0 .. l - 1
    /\ NumStackSlots \in Nat /\ NumStackSlots % 2 = 0 /\ GrowsInCallback \in BOOLEAN
    /\ MaxPages \in Nat /\ PageSize \in Nat /\ HeaderSize \in Nat /\ U32 \in Nat \ {0}
    /\ MaxPages * PageSize <= U32

VARIABLES memory,    \* M3Memory, and the header and bytes of mallocated
          written,   \* the bytes that hold data, for the program
          runtime,   \* stack, lastCalled and the startFunction of the module
          compiled,  \* functions with compiled code
          sites,     \* the operation at the call site of each function
          frames, run, r,
          holds,     \* the function whose results are at the base of the stack
          wild       \* control has gone to what is not code
vars == <<memory, written, runtime, compiled, sites, frames, run, r, holds, wild>>

Running == [is |-> "running", loop |-> 0, open |-> <<>>]
InHost == [Running EXCEPT !.is = "host"]
Returned == [Running EXCEPT !.is = "none"]
Trapped == [Running EXCEPT !.is = "trap"]

Idle == [fn |-> "none", sp |-> 0, fresh |-> TRUE, open |-> <<>>, pos |-> 0]
Code(fn, sp) == [Idle EXCEPT !.fn = fn, !.sp = sp]

Top == Last(frames)
Depth(op) == Cardinality({ k \in DOMAIN frames : frames[k].op = op })
----------------------------------------------------------------------------
(* The linear memory.                                                      *)

(***************************************************************************)
(* m3_Realloc: the block of a header and of old contents becomes one of    *)
(* newSize bytes; what is above oldSize is set to zero. Bytes that have    *)
(* just been allocated are junk.                                           *)
(***************************************************************************)
Reallocated(cells, newSize, oldSize) ==
    [i \in 0 .. newSize - HeaderSize - 1 |->
        IF HeaderSize + i >= oldSize THEN "zero"
        ELSE IF i \in DOMAIN cells THEN cells[i] ELSE "junk"]

\* The size in bytes the memory had, with its header.
\* Mutant: without the header.
PreviousBytes_NoHeader(m) == m.numPages * PageSize
PreviousBytes(m) ==
    LET bytes == m.numPages * PageSize
    IN IF bytes = 0 THEN 0 ELSE bytes + HeaderSize

\* The product of pages and bytes is a u32.
ResizeMemory(m, numPages, stack) ==
    LET bytes == (numPages * PageSize) % U32
    IN [numPages |-> numPages, length |-> bytes,
        maxStack |-> stack + NumStackSlots,
        cells |-> Reallocated(m.cells, bytes + HeaderSize, PreviousBytes(m))]

NoMemory == [numPages |-> 0, length |-> 0, maxStack |-> 0, cells |-> <<>>]

InitMemory == \E pages \in 0 .. MaxPages : memory = ResizeMemory(NoMemory, pages, 0)

\* The operand and the offset are u32, their sum is a u64.
\* Mutant: it is a u32.
MemCheck_u32(operand, offset, size) == ((operand + offset) % U32) + size <= memory.length
MemCheck(operand, offset, size) == operand + offset + size <= memory.length

Bytes(from, size) == from .. from + size - 1

\* A trap ends the code that runs.
Trap == r' = Trapped /\ run' = Idle

Computes == r.is = "running"

\* op_MemGrow: the block may move, and only this code learns of it. Without
\* memory for the block the old one stays.
MemGrow(pages, moves, fails) ==
    LET required == memory.numPages + pages
    IN /\ Computes
       /\ GrowsInCallback \/ Depth("Raw") = 0
       /\ fails \/ required <= MaxPages
       /\ fails => ~moves
       /\ memory' = IF fails THEN memory ELSE ResizeMemory(memory, required, runtime.stack)
       /\ frames' = IF moves
                    THEN [k \in DOMAIN frames |-> [frames[k] EXCEPT !.code.fresh = FALSE]]
                    ELSE frames
       /\ run' = [run EXCEPT !.fresh = TRUE]
       /\ UNCHANGED <<written, runtime, compiled, sites, r, holds, wild>>

Access(allowed, bytes, cell, data) ==
    /\ Computes
    /\ IF allowed
       THEN /\ memory' = [memory EXCEPT !.cells = [i \in DOMAIN @ |->
                             IF i \in bytes THEN cell[i] ELSE @[i]]]
            /\ written' = (written \ bytes) \union data
            /\ UNCHANGED <<run, r>>
       ELSE Trap /\ UNCHANGED <<memory, written>>
    /\ UNCHANGED <<runtime, compiled, sites, frames, holds, wild>>

Store(operand, offset, size) ==
    LET bytes == Bytes(operand + offset, size)
    IN Access(MemCheck(operand, offset, size), bytes, [i \in bytes |-> "data"], bytes)

MemFill(destination, size) ==
    LET bytes == Bytes(destination, size)
    IN Access(MemCheck(destination, 0, size), bytes, [i \in bytes |-> "zero"], {})

MemCopy(destination, source, size) ==
    LET bytes == Bytes(destination, size)
        From(i) == i - destination + source
        allowed == MemCheck(destination, 0, size) /\ MemCheck(source, 0, size)
    IN Access(allowed, bytes,
              IF allowed THEN [i \in bytes |-> memory.cells[From(i)]] ELSE <<>>,
              { i \in bytes : From(i) \in written })
----------------------------------------------------------------------------
(* Calls and returns.                                                      *)

\* op_Entry, with fs the frames below it.
\* Mutant: the stack may be filled to one frame above its end.
Enters_Late(fn, sp, fs) ==
    /\ frames' = fs
    /\ IF sp < memory.maxStack
       THEN run' = Code(fn, sp) /\ r' = Running ELSE Trap
Enters(fn, sp, fs) ==
    /\ frames' = fs
    /\ IF sp + FrameSlots[fn] < memory.maxStack
       THEN run' = Code(fn, sp) /\ r' = Running ELSE Trap

Waiting(op, code) == Append(frames, [op |-> op, code |-> code, fn |-> "none", stack |-> 0])

\* The frame of the callee begins above what the caller has in use, at most
\* its frame and at least one slot, at an even slot.
TopSlot(fn) ==
    LET top == IF FrameSlots[fn] = 0 THEN 1 ELSE FrameSlots[fn]
    IN top + (top % 2)
CalleeStack == run.sp + TopSlot(run.fn)

\* op_Call
Calls(fn) == Enters(fn, CalleeStack, Waiting("Call", run))

\* op_Compile makes itself an op_Call before it compiles the function whose
\* code the op_Call needs: after a failure the code is missing.
Call(fn) ==
    /\ Computes /\ Len(frames) < MaxFrames
    /\ wild' = (sites[fn] = "unpatched")
    /\ sites' = [sites EXCEPT ![fn] = IF fn \in Broken THEN "unpatched" ELSE "Call"]
    /\ IF fn \in Broken
       THEN Trap /\ UNCHANGED <<compiled, frames>>
       ELSE compiled' = compiled \union {fn} /\ Calls(fn)
    /\ UNCHANGED <<memory, written, runtime, holds>>

CallIndirect(tableIndex) ==
    /\ Computes /\ Len(frames) < MaxFrames
    /\ IF tableIndex \in DOMAIN Table /\ Table[tableIndex] \in Functions \ Broken
       THEN /\ compiled' = compiled \union {Table[tableIndex]}
            /\ Calls(Table[tableIndex])
       ELSE Trap /\ UNCHANGED <<compiled, frames>>
    /\ UNCHANGED <<memory, written, runtime, sites, holds, wild>>

\* op_Call of an imported function: op_CallRawFunction gives the host a
\* stack of its own above the caller's.
CallRawFunction ==
    /\ Computes /\ Len(frames) + 1 < MaxFrames
    /\ frames' = Waiting("Call", run)
                 \o <<[op |-> "Raw", code |-> Code("none", CalleeStack), fn |-> "none",
                       stack |-> runtime.stack]>>
    /\ runtime' = [runtime EXCEPT !.stack = CalleeStack]
    /\ run' = Idle /\ r' = InHost
    /\ UNCHANGED <<memory, written, compiled, sites, holds, wild>>

\* A host function that has called code which has failed fails too.
HostReturns(result) ==
    /\ r.is = "host" \/ (r.is = "failed" /\ result = Trapped)
    /\ frames # <<>>
    /\ runtime' = [runtime EXCEPT !.stack = Top.stack]
    /\ frames' = Front(frames) /\ r' = result
    /\ UNCHANGED <<memory, written, compiled, sites, run, holds, wild>>

\* op_Return, op_End
Return ==
    /\ Computes
    /\ r' = Returned /\ run' = Idle
    /\ UNCHANGED <<memory, written, runtime, compiled, sites, frames, holds, wild>>

\* op_Unreachable, and the operations that trap on their operands
Unreachable ==
    /\ Computes /\ Trap
    /\ UNCHANGED <<memory, written, runtime, compiled, sites, frames, holds, wild>>

\* The code that a frame goes on with, its _mem taken from the runtime.
\* Mutant: it keeps the _mem it had.
Refreshed_Not(frame) == frame.code
Refreshed(frame) == [frame.code EXCEPT !.fresh = TRUE]

ReturnToCall ==
    /\ r.is \in {"none", "trap"} /\ frames # <<>> /\ Top.op = "Call"
    /\ frames' = Front(frames)
    /\ IF r.is = "none" THEN run' = Refreshed(Top) /\ r' = Running ELSE UNCHANGED <<run, r>>
    /\ UNCHANGED <<memory, written, runtime, compiled, sites, holds, wild>>
----------------------------------------------------------------------------
(* Loops. A branch out of a loop leaves the frame of its op_Loop where it  *)
(* is: the code after the loop runs in it, to the end of the function.     *)

Innermost(open) == IF open = <<>> THEN 0 ELSE Last(open)

\* A loop and the loops around it: the least set that holds it and, with a
\* loop, the one around that. The last loop inside l, in the order of the code.
Closed(ls) == \A l \in ls : Outer[l] # 0 => Outer[l] \in ls
Around(k) == { l \in Loops : \A ls \in SUBSET Loops : k \in ls /\ Closed(ls) => l \in ls }
LastInside(l) == Max({ k \in Loops : l \in Around(k) })

Loop(l) ==
    /\ Computes /\ Len(frames) < MaxFrames
    /\ l > run.pos /\ Outer[l] = Innermost(run.open)
    /\ LET body == [run EXCEPT !.open = Append(@, l), !.pos = l]
       IN frames' = Waiting("Loop", body) /\ run' = body
    /\ UNCHANGED <<memory, written, runtime, compiled, sites, r, holds, wild>>

\* A branch to a label outside of the innermost n loops, or their end.
Branch(n) ==
    /\ Computes /\ n \in 1 .. Len(run.open)
    /\ run' = [run EXCEPT !.open = SubSeq(@, 1, Len(@) - n),
                          !.pos = LastInside(run.open[Len(run.open) - n + 1])]
    /\ UNCHANGED <<memory, written, runtime, compiled, sites, frames, r, holds, wild>>

\* op_ContinueLoop, op_ContinueLoopIf
ContinueLoop(n) ==
    /\ Computes /\ n \in DOMAIN run.open
    /\ r' = [is |-> "loop", loop |-> run.open[n], open |-> SubSeq(run.open, 1, n)]
    /\ run' = Idle
    /\ UNCHANGED <<memory, written, runtime, compiled, sites, frames, holds, wild>>

\* Mutant: any loop is continued by the innermost op_Loop.
ReturnToLoop_Any ==
    /\ r.is \in {"none", "trap", "loop"} /\ frames # <<>> /\ Top.op = "Loop"
    /\ IF r.is = "loop"
       THEN run' = Refreshed(Top) /\ r' = Running /\ UNCHANGED frames
       ELSE frames' = Front(frames) /\ UNCHANGED <<run, r>>
    /\ UNCHANGED <<memory, written, runtime, compiled, sites, holds, wild>>
ReturnToLoop ==
    /\ r.is \in {"none", "trap", "loop"} /\ frames # <<>> /\ Top.op = "Loop"
    /\ IF r.is = "loop" /\ r.loop = Innermost(Top.code.open)
       THEN run' = Refreshed(Top) /\ r' = Running /\ UNCHANGED frames
       ELSE frames' = Front(frames) /\ UNCHANGED <<run, r>>
    /\ UNCHANGED <<memory, written, runtime, compiled, sites, holds, wild>>
----------------------------------------------------------------------------
(* The embedding program.                                                  *)

\* m3_FindFunction
FindFunction(fn) ==
    /\ r.is = "host" /\ fn \notin Broken
    /\ compiled' = compiled \union {fn}
    /\ UNCHANGED <<memory, written, runtime, sites, frames, run, r, holds, wild>>

\* RunCode, from a function of the embedding program.
RunCode(op, fn, caller) ==
    Enters(fn, runtime.stack,
           Append(frames, [op |-> op, code |-> Idle, fn |-> caller, stack |-> 0]))

\* The arguments go to the base of the stack.
RunsFunction(fn) ==
    /\ holds' = IF runtime.stack = 0 THEN "none" ELSE holds
    /\ RunCode("m3_Call", fn, fn)

\* m3_Call, m3_CallV and m3_CallArgv. Before the first call the start
\* function runs. A runtime in which a call has failed is not used again.
\* Mutant: it is.
m3_Call_Again(fn) ==
    /\ r.is \in {"host", "failed"} /\ Len(frames) < MaxFrames
    /\ fn \in compiled
    /\ runtime.startFunction \notin Broken
    /\ IF runtime.startFunction # "none"
       THEN /\ runtime' = [runtime EXCEPT !.startFunction = "none"]
            /\ compiled' = compiled \union {runtime.startFunction}
            /\ holds' = IF runtime.stack = 0 THEN "none" ELSE holds
            /\ RunCode("m3_RunStart", runtime.startFunction, fn)
       ELSE RunsFunction(fn) /\ UNCHANGED <<runtime, compiled>>
    /\ UNCHANGED <<memory, written, sites, wild>>
m3_Call(fn) ==
    /\ r.is = "host" /\ Len(frames) < MaxFrames
    /\ fn \in compiled
    /\ runtime.startFunction \notin Broken
    /\ IF runtime.startFunction # "none"
       THEN /\ runtime' = [runtime EXCEPT !.startFunction = "none"]
            /\ compiled' = compiled \union {runtime.startFunction}
            /\ holds' = IF runtime.stack = 0 THEN "none" ELSE holds
            /\ RunCode("m3_RunStart", runtime.startFunction, fn)
       ELSE RunsFunction(fn) /\ UNCHANGED <<runtime, compiled>>
    /\ UNCHANGED <<memory, written, sites, wild>>

\* What a call from the host leaves.
Back(result) == IF result.is = "trap" THEN [Running EXCEPT !.is = "failed"] ELSE InHost

ReturnToRunStart ==
    /\ r.is \in {"none", "trap"} /\ frames # <<>> /\ Top.op = "m3_RunStart"
    /\ IF r.is = "none"
       THEN /\ Enters(Top.fn, runtime.stack,
                      Append(Front(frames), [Top EXCEPT !.op = "m3_Call"]))
            /\ holds' = IF runtime.stack = 0 THEN "none" ELSE holds
            /\ UNCHANGED runtime
       ELSE /\ runtime' = [runtime EXCEPT !.startFunction = StartFunction]
            /\ frames' = Front(frames) /\ r' = Back(r)
            /\ UNCHANGED <<run, holds>>
    /\ UNCHANGED <<memory, written, compiled, sites, wild>>

\* Mutant: lastCalled is left alone when a call fails.
LastCalled_Kept(fn, result) == IF result.is = "trap" THEN runtime.lastCalled ELSE fn
LastCalled(fn, result) == IF result.is = "trap" THEN "none" ELSE fn

ReturnToHost ==
    /\ r.is \in {"none", "trap"} /\ frames # <<>> /\ Top.op = "m3_Call"
    /\ runtime' = [runtime EXCEPT !.lastCalled = LastCalled(Top.fn, r)]
    /\ holds' = IF runtime.stack = 0 /\ r.is = "none" THEN Top.fn ELSE holds
    /\ frames' = Front(frames) /\ r' = Back(r)
    /\ UNCHANGED <<memory, written, compiled, sites, run, wild>>

\* The sandbox frees a runtime in which a call has failed; the next task
\* gets a new one.
NewRuntime ==
    /\ r.is = "failed" /\ frames = <<>>
    /\ \E pages \in 0 .. MaxPages : memory' = ResizeMemory(NoMemory, pages, 0)
    /\ written' = {}
    /\ runtime' = [stack |-> 0, lastCalled |-> "none", startFunction |-> StartFunction]
    /\ compiled' = {} /\ sites' = [fn \in Functions |-> "Compile"]
    /\ frames' = <<>> /\ run' = Idle /\ r' = InHost
    /\ holds' = "none" /\ wild' = FALSE

Init ==
    /\ InitMemory /\ written = {}
    /\ runtime = [stack |-> 0, lastCalled |-> "none", startFunction |-> StartFunction]
    /\ compiled = {} /\ sites = [fn \in Functions |-> "Compile"]
    /\ frames = <<>> /\ run = Idle /\ r = InHost
    /\ holds = "none" /\ wild = FALSE

Next ==
    \/ \E fn \in Functions : FindFunction(fn) \/ m3_Call(fn) \/ Call(fn)
    \/ \E i \in 1 .. Len(Table) + 1 : CallIndirect(i)
    \/ CallRawFunction
    \/ HostReturns(Returned) \/ HostReturns(Trapped)
    \/ Return \/ Unreachable
    \/ ReturnToCall \/ ReturnToLoop \/ ReturnToRunStart \/ ReturnToHost
    \/ \E l \in Loops : Loop(l) \/ Branch(l) \/ ContinueLoop(l)
    \/ \E pages \in 1 .. MaxPages, moves, fails \in BOOLEAN : MemGrow(pages, moves, fails)
    \/ \E operand \in 0 .. U32 - 1, size \in 1 .. 2 :
          \/ \E offset \in {0, U32 - 1} : Store(operand, offset, size)
          \/ MemFill(operand, size)
          \/ \E source \in 0 .. U32 - 1 : MemCopy(operand, source, size)
    \/ NewRuntime

Spec == Init /\ [][Next]_vars
----------------------------------------------------------------------------
(* Properties.                                                             *)

\* The code that runs never has a _mem that memory.grow, in this function or
\* in one it called, in this iteration of a loop or in an earlier one, has
\* moved away.
MemoryFresh == Computes => run.fresh

\* An access is let through exactly if all its bytes are in the pages the
\* program has, for every operand and offset.
BoundsExact ==
    \A operand, offset \in 0 .. U32 - 1, size \in 1 .. 2 :
        MemCheck(operand, offset, size)
            <=> operand + offset + size <= memory.numPages * PageSize

\* However the memory has grown and moved, it holds what the program has
\* written and zeros elsewhere.
ContentsKept ==
    memory.cells = [i \in 0 .. memory.numPages * PageSize - 1 |->
                       IF i \in written THEN "data" ELSE "zero"]

\* Where the code that runs, or the host, puts the arguments of a call:
\* before op_Entry of the callee looks whether its frame fits.
ArgumentsAt == IF Computes THEN CalleeStack ELSE runtime.stack
ArgumentsFit ==
    Computes \/ r.is = "host" => ArgumentsAt + CallSlots <= NumStackSlots + Slack

\* The frame of the code that runs ends below the end of the stack, and host
\* functions get their stack within it, however programs and hosts have
\* called each other; outside of all calls the stack of the runtime begins at
\* the block. The arguments and results of calls are within the block if they
\* take no more than its spare slots, which the code does not see to.
StackFits ==
    /\ Computes => run.sp + FrameSlots[run.fn] < NumStackSlots
    /\ runtime.stack <= NumStackSlots
    /\ frames = <<>> => runtime.stack = 0
    /\ CallSlots <= Slack => ArgumentsFit

\* A continue of a loop goes on with that loop, in the activation of the
\* function it is in, however many frames of other loops are in between.
ContinuesItsLoop ==
    [][r.is = "loop" /\ r'.is = "running" => run'.open = r.open]_vars

\* A call site is executed only with the code of its function in place.
CallsGoToCode == ~wild

\* m3_GetResults, which asks for lastCalled, finds the results of that
\* function on the stack, also after a call that has failed. (A start
\* function that has failed leaves the lastCalled of the calls it has made.)
ResultsOfLastCall ==
    frames = <<>> /\ runtime.lastCalled # "none" /\ runtime.startFunction = "none"
        => holds = runtime.lastCalled
=============================================================================
