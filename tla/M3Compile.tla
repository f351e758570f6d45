----------------------------- MODULE M3Compile -----------------------------
(***************************************************************************)
(* The compiler of Wasm3 (src/m3_compile.c): where it keeps the operands   *)
(* of a Wasm function while it turns its opcodes, one by one, into         *)
(* operations on stack slots and two registers.                            *)
(*                                                                         *)
(* The state o is the struct M3Compilation. Beside it the module follows   *)
(* one run of the code that is emitted: mem is what slots and registers    *)
(* hold, block[k].operands and locals what the Wasm program would have on  *)
(* its stack and in its locals. Each operation is executed as soon as it   *)
(* is emitted if the run comes by (running), and skipped if it has jumped  *)
(* over it (goal says to where). A value is a number; a 64-bit value v     *)
(* fills two slots with v and -v; Junk is anything else.                   *)
(***************************************************************************)
EXTENDS Integers, Sequences, FiniteSets, FiniteSetsExt, SequencesExt

CONSTANTS MaxSlots,      \* d_m3MaxFunctionSlots
          MaxHeight,     \* d_m3MaxFunctionStackHeight
          MaxConsts,     \* d_m3MaxConstantTableSize
          MaxCallSlots,  \* slots of d_m3MaxSaneFunctionArgRetCount values
          Functions,     \* kinds of functions to compile
          ConstValues    \* the constants they use

IntTypes == {"i32", "i64"}
FpTypes == {"f32", "f64"}
FuncTypes == [params : Seq(IntTypes \union FpTypes), rets : Seq(IntTypes \union FpTypes)]

(***************************************************************************)
(* A kind of function: its type and the types of its locals; the types of  *)
(* operations, blocks and calls and the opcodes it may use; how many       *)
(* opcodes, operands in one block and nested blocks it has at most.        *)
(***************************************************************************)
ASSUME FunctionsAssumption ==
    /\ {MaxSlots, MaxHeight, MaxConsts, MaxCallSlots} \subseteq Nat
    /\ \A v \in ConstValues : v \in Nat /\ v > MaxSlots
    /\ \A f \in Functions :
          /\ DOMAIN f = {"type", "locals", "types", "blocks", "calls", "opcodes",
                         "maxOpcodes", "maxOperands", "maxDepth"}
          /\ {f.type} \union f.blocks \union f.calls \subseteq FuncTypes
          /\ f.locals \in Seq(IntTypes \union FpTypes)
          /\ f.types \subseteq IntTypes \union FpTypes
          /\ \A t \in f.calls : 2 * (Len(t.params) + Len(t.rets)) <= MaxCallSlots
          /\ {f.maxOpcodes, f.maxOperands, f.maxDepth} \subseteq Nat

Junk == 0

\* Beyond all slots, those of the arguments of calls included.
Reg0SlotAlias == MaxSlots + MaxCallSlots + 100
Fp0SlotAlias == MaxSlots + MaxCallSlots + 102
SlotUnused == MaxSlots + MaxCallSlots + 200

VARIABLE o
----------------------------------------------------------------------------
(* Types and slots.                                                        *)

IsFpType(type) == type \in FpTypes
Is64BitType(type) == type \in {"i64", "f64"}

GetTypeNumSlots(type) == IF Is64BitType(type) THEN 2 ELSE 1

\* All arguments and returns are aligned to 64 bits.
ioSlotCount == 2

AlignSlotToType(slot, type) ==
    IF Is64BitType(type) THEN slot + (slot % 2) ELSE slot

SlotsOf(slot, type) == slot .. slot + GetTypeNumSlots(type) - 1

IsRegisterSlotAlias(slot) == slot \in {Reg0SlotAlias, Fp0SlotAlias}

RegisterFor(type) == IF IsFpType(type) THEN Fp0SlotAlias ELSE Reg0SlotAlias

Block(c) == Last(c.block)
Height(c) == Len(c.stack)
IsStackPolymorphic(c) == Block(c).isPolymorphic
GetNumBlockValuesOnStack(c) == Height(c) - Block(c).blockStackIndex

\* A step that has failed leaves the rest undone: every operator that can
\* follow one keeps the state of a failed compilation.
Fail(c) == [c EXCEPT !.error = TRUE]

\* The compiler writes past m3Slots. What it does then is not described.
Overrun(c) == IF c.error THEN c ELSE [c EXCEPT !.error = TRUE, !.overrun = TRUE]

\* The d_m3Asserts, which a release build leaves out. In code that nothing
\* reaches a second return leaves its operands, and they do not hold.
Assert_(c, holds) ==
    IF holds \/ IsStackPolymorphic(c) THEN c ELSE [c EXCEPT !.asserted = FALSE]

\* Stack positions count from one; items of args and locals, below
\* stackFirstDynamicIndex, are hidden from the top.
GetStackTypeFromTop(c, offset) ==
    LET i == Height(c) - offset
    IN IF i > c.stackFirstDynamicIndex THEN c.stack[i].type ELSE "none"

GetStackTopType(c) == GetStackTypeFromTop(c, 0)

GetStackTypeFromBottom(c, i) ==
    IF i \in DOMAIN c.stack THEN c.stack[i].type ELSE "none"

GetSlotForStackIndex(c, i) ==
    IF i \in DOMAIN c.stack THEN c.stack[i].slot ELSE SlotUnused

GetStackTopSlotNumber(c) == GetSlotForStackIndex(c, Height(c))

IsStackIndexInRegister(c, i) ==
    i \in DOMAIN c.stack /\ c.stack[i].slot >= Reg0SlotAlias
IsStackTopInRegister(c) == IsStackIndexInRegister(c, Height(c))
IsStackTopMinus1InRegister(c) == IsStackIndexInRegister(c, Height(c) - 1)
IsStackTopMinus2InRegister(c) == IsStackIndexInRegister(c, Height(c) - 2)

IsConstantSlot(c, slot) ==
    c.slotFirstConstIndex <= slot /\ slot < c.slotMaxConstIndex
----------------------------------------------------------------------------
(* The run: what slots and registers hold.                                 *)

Get(c, loc, type) ==
    IF loc \notin DOMAIN c.mem THEN Junk
    ELSE IF IsRegisterSlotAlias(loc) \/ ~Is64BitType(type) THEN c.mem[loc]
    ELSE IF c.mem[loc + 1] = -c.mem[loc] THEN c.mem[loc] ELSE Junk

\* A store to slots, remembered for the question whether the frame is large
\* enough, and whether what it stores is an argument of a call.
Writes(slots, argument) == { [slot |-> s, argument |-> argument] : s \in slots }

\* An emitted operation stores v, if the run comes by.
Put(c, loc, type, v) ==
    IF c.error \/ ~c.running THEN c
    ELSE IF IsRegisterSlotAlias(loc) THEN [c EXCEPT !.mem[loc] = v]
    ELSE [c EXCEPT !.mem = [s \in DOMAIN @ |->
                               IF s \notin SlotsOf(loc, type) THEN @[s]
                               ELSE IF s = loc THEN v ELSE -v],
                   !.written = @ \union Writes(SlotsOf(loc, type), FALSE)]

\* An emitted operation reads loc for the operand v of the program.
Read(c, loc, type, v) ==
    IF c.error \/ ~c.running THEN c
    ELSE [c EXCEPT !.misread = @ \/ Get(c, loc, type) # v]

\* op_SetSlot, op_SetRegister, op_CopySlot
CopySlot(c, dest, src, type) == Put(c, dest, type, Get(c, src, type))

\* op_PreserveSetSlot, op_PreserveCopySlot: what dest holds is kept first.
PreserveCopySlot(c, dest, src, preserve, type) ==
    CopySlot(CopySlot(c, preserve, dest, type), dest, src, type)

Operands(c) == Block(c).operands

\* The last n items of a sequence.
Upper(s, n) == SubSeq(s, Len(s) - n + 1, Len(s))

\* The i-th operand from the top (0 is the top).
Operand(c, i) ==
    IF i < Len(Operands(c)) THEN Operands(c)[Len(Operands(c)) - i] ELSE Junk

Locals(c) == { c.locals[i] : i \in DOMAIN c.locals }

\* Values the program still has; all others are forgotten after each opcode.
Known(c) ==
    (UNION { Range(c.block[k].operands) : k \in DOMAIN c.block })
        \union Range(c.goal.values) \union Locals(c)

\* Values not in use.
Fresh(c, n) ==
    LET free == (1 .. MaxSlots) \ Known(c)
        Nth[i \in 1 .. n] == Min(free \ { Nth[j] : j \in 1 .. i - 1 })
    IN Nth

\* The program takes n operands and gives values vs of types ts.
Eval(c, n, ts, vs) ==
    LET have == Block(c).types
        values == Operands(c)
    IN [c EXCEPT !.block[Len(c.block)] =
           [@ EXCEPT !.types = SubSeq(have, 1, Len(have) - Min({n, Len(have)})) \o ts,
                     !.operands = IF ~c.running THEN values
                                  ELSE SubSeq(values, 1, Len(values) - n) \o vs]]

\* The program has operands of types ts on top, or is in code that nothing
\* reaches and has as many as there are of the right types.
HasOperands(c, ts) ==
    LET have == Block(c).types
        n == Min({Len(ts), Len(have)})
    IN (n = Len(ts) \/ Block(c).dead) /\ Upper(have, n) = Upper(ts, n)

\* What follows is not reached.
Unreached(c) ==
    [c EXCEPT !.block[Len(c.block)] =
        [@ EXCEPT !.types = <<>>, !.dead = TRUE]]

NoGoal == [depth |-> 0, at |-> "never", values |-> <<>>]

\* The run leaves for the end, or the else, of the scope at depth.
Leave(c, depth, at, values) ==
    IF c.running
    THEN [c EXCEPT !.running = FALSE,
                   !.goal = [depth |-> depth, at |-> at, values |-> values],
                   !.block = [k \in DOMAIN @ |->
                       IF k < depth THEN @[k] ELSE [@[k] EXCEPT !.operands = <<>>]]]
    ELSE c

\* ... and comes back there.
Resume(c, depth, at) ==
    IF ~c.running /\ c.goal.depth = depth /\ c.goal.at = at
    THEN [c EXCEPT !.running = TRUE, !.goal = NoGoal,
                   !.block[Len(c.block)].operands = @ \o c.goal.values]
    ELSE c
----------------------------------------------------------------------------
(* Allocation of slots and registers.                                      *)

\* Mutant: the frame is a slot too small.
TouchSlot_Short(c, slot) == [c EXCEPT !.maxStackSlots = Max({@, slot})]
TouchSlot(c, slot) == [c EXCEPT !.maxStackSlots = Max({@, slot + 1})]

MarkSlotsAllocatedByType(c, slot, type) ==
    IF c.error THEN c
    ELSE [Assert_(TouchSlot(c, slot + GetTypeNumSlots(type) - 1),
                  \A s \in SlotsOf(slot, type) : c.m3Slots[s] = 0)
             EXCEPT !.m3Slots = [s \in DOMAIN @ |->
                                    IF s \in SlotsOf(slot, type) THEN 1 ELSE @[s]],
                    !.slotMaxAllocatedIndexPlusOne =
                        Max({@, slot + GetTypeNumSlots(type)})]

\* The first free slot, or pair of slots, of a range.
FindSlotsWithinRange(c, type, startSlot, endSlot) ==
    LET fits == { s \in AlignSlotToType(startSlot, type)
                            .. endSlot - GetTypeNumSlots(type) :
                     /\ AlignSlotToType(s, type) = s
                     /\ \A t \in SlotsOf(s, type) : c.m3Slots[t] = 0 }
    IN IF fits = {} THEN SlotUnused ELSE Min(fits)

FindSlots(c, type) ==
    FindSlotsWithinRange(c, type, c.slotFirstDynamicIndex, MaxSlots)

AllocateSlots(c, type) ==
    IF c.error \/ FindSlots(c, type) = SlotUnused THEN Fail(c)
    ELSE MarkSlotsAllocatedByType(c, FindSlots(c, type), type)

FindConstantSlots(c, type) ==
    FindSlotsWithinRange(c, type, c.slotFirstConstIndex,
        Min({c.slotFirstDynamicIndex, c.slotFirstConstIndex + MaxConsts}))

\* n more uses. The usage count is a byte: 255 uses are the most.
IncrementSlotUsageCount(c, slot, n) ==
    IF c.error \/ c.m3Slots[slot] + n > 255 THEN Fail(c)
    ELSE [Assert_(c, c.m3Slots[slot] > 0) EXCEPT !.m3Slots[slot] = @ + n]

DeallocateSlot(c, slot, type) ==
    [Assert_(c, /\ slot < c.slotMaxAllocatedIndexPlusOne
                /\ \A s \in SlotsOf(slot, type) : c.m3Slots[s] > 0)
        EXCEPT !.m3Slots = [s \in DOMAIN @ |->
            IF s \in SlotsOf(slot, type) THEN (@[s] - 1) % 256 ELSE @[s]]]

IsRegisterAllocated(c, reg) == c.regStackIndexPlusOne[reg] # 0

AllocateRegister(c, reg, stackIndex) ==
    [Assert_(c, ~IsRegisterAllocated(c, reg))
        EXCEPT !.regStackIndexPlusOne[reg] = stackIndex]

DeallocateRegister(c, reg) ==
    [Assert_(c, IsRegisterAllocated(c, reg))
        EXCEPT !.regStackIndexPlusOne[reg] = 0]

GetMaxUsedSlotPlusOne(c) ==
    Max({c.slotFirstDynamicIndex} \union
        { s + 1 : s \in { t \in c.slotFirstDynamicIndex
                                 .. c.slotMaxAllocatedIndexPlusOne - 1 :
                           c.m3Slots[t] # 0 } })

\* op_SetSlot: the register goes to a slot of its own.
PreserveRegisterIfOccupied(c, type) ==
    LET reg == RegisterFor(type)
        i == c.regStackIndexPlusOne[reg]
        held == GetStackTypeFromBottom(c, i)
        slot == FindSlots(c, held)
    IN IF c.error \/ ~IsRegisterAllocated(c, reg) THEN c
       ELSE IF slot = SlotUnused THEN Fail(c)
       ELSE CopySlot([AllocateSlots(DeallocateRegister(c, reg), held)
                         EXCEPT !.stack[i].slot = slot],
                     slot, reg, held)

PreserveRegisters(c) ==
    PreserveRegisterIfOccupied(PreserveRegisterIfOccupied(c, "f64"), "i64")

\* Mutant: an if is entered with a value in a register.
PreserveNonTopRegisters_None(c) == c
PreserveNonTopRegisters(c) ==
    LET NonTop(d, type) ==
            IF d.regStackIndexPlusOne[RegisterFor(type)] = Height(d) THEN d
            ELSE PreserveRegisterIfOccupied(d, type)
    IN NonTop(NonTop(c, "i64"), "f64")
----------------------------------------------------------------------------
(* The compiler's stack.                                                   *)

Push(c, type, slot) ==
    IF c.error \/ Height(c) >= MaxHeight THEN Fail(c)
    ELSE LET d == [c EXCEPT !.stack = Append(@, [slot |-> slot, type |-> type])]
         IN IF IsRegisterSlotAlias(slot)
            THEN AllocateRegister(d, slot, Height(d)) ELSE d

PushRegister(c, type) == Push(c, type, RegisterFor(type))

Pop(c) ==
    IF c.error THEN c
    ELSE IF Height(c) > Block(c).blockStackIndex
    THEN LET top == Last(c.stack)
             d == [c EXCEPT !.stack = Front(@)]
         IN IF IsRegisterSlotAlias(top.slot) THEN DeallocateRegister(d, top.slot)
            ELSE IF top.slot >= c.slotFirstDynamicIndex /\ top.slot # SlotUnused
            THEN DeallocateSlot(d, top.slot, top.type)
            ELSE d
    ELSE IF IsStackPolymorphic(c) THEN c ELSE Fail(c)

PopType(c, type) ==
    IF GetStackTopType(c) = type \/ IsStackPolymorphic(c) THEN Pop(c) ELSE Fail(c)

\* The top n items are popped.
Pops(c, n) ==
    LET go[k \in 0 .. n] == IF k = 0 THEN c ELSE Pop(go[k - 1])
    IN go[n]

UnwindBlockStack(c) ==
    IF c.error THEN c ELSE Pops(c, GetNumBlockValuesOnStack(c))

SetStackPolymorphic(c) ==
    UnwindBlockStack([c EXCEPT !.block[Len(c.block)].isPolymorphic = TRUE])

\* (_PushAllocatedSlotAndEmit: whether the slot is also emitted is up to the
\* caller.)
PushAllocatedSlot(c, type) ==
    IF c.error THEN c ELSE Push(AllocateSlots(c, type), type, FindSlots(c, type))

\* A constant that is in the table is used again; otherwise it goes to the
\* table, from which op_Entry fills its slots before all else; a full table
\* makes it an op_Const. The halves of a 64-bit constant are found by 32-bit
\* ones.
PushConst(c, v, type) ==
    LET n == GetTypeNumSlots(type)
        Held(s, i) == s + i < c.slotMaxConstIndex
                        /\ c.m3Slots[s + i] # 0
                        /\ c.constants[s + i] = (IF i = 0 THEN v ELSE -v)
        found == { s \in AlignSlotToType(c.slotFirstConstIndex, type)
                             .. c.slotMaxConstIndex - 1 :
                     /\ AlignSlotToType(s, type) = s
                     /\ \A i \in 0 .. n - 1 : Held(s, i) }
        slot == FindConstantSlots(c, type)
        Word(s) == IF s = slot THEN v ELSE -v
    IN IF found # {} THEN Push(c, type, Min(found))
       ELSE IF slot = SlotUnused
       THEN Put(PushAllocatedSlot(c, type), FindSlots(c, type), type, v)
       ELSE [Push(MarkSlotsAllocatedByType(c, slot, type), type, slot) EXCEPT
                !.constants = [s \in DOMAIN @ |->
                    IF s \in SlotsOf(slot, type) THEN Word(s) ELSE @[s]],
                !.mem = [s \in DOMAIN @ |->
                    IF s \in SlotsOf(slot, type) THEN Word(s) ELSE @[s]],
                !.slotMaxConstIndex = Max({slot + n, @})]

\* The operand offset from the top as an operation reads it: from its slot,
\* or from the register its type belongs to.
Source(c, offset, type) ==
    IF IsStackIndexInRegister(c, Height(c) - offset) THEN RegisterFor(type)
    ELSE GetSlotForStackIndex(c, Height(c) - offset)

ReadOperand(c, offset, type) ==
    Read(c, Source(c, offset, type), type, Operand(c, offset))

\* The operands of types ts, the last of which is the top.
ReadOperands(c, ts) ==
    LET Misreads(i) ==
            LET type == ts[Len(ts) - i]
            IN Get(c, Source(c, i, type), type) # Operand(c, i)
    IN IF c.error \/ ~c.running THEN c
       ELSE [c EXCEPT !.misread = @ \/ \E i \in 0 .. Len(ts) - 1 : Misreads(i)]

\* The value of a stack item goes to a slot.
CopyStackIndexToSlot(c, destSlot, i) ==
    LET type == GetStackTypeFromBottom(c, i)
        loc == IF IsStackIndexInRegister(c, i) THEN RegisterFor(type)
               ELSE GetSlotForStackIndex(c, i)
    IN IF c.error THEN c ELSE CopySlot(c, destSlot, loc, type)

CopyStackTopToSlot(c, destSlot) == CopyStackIndexToSlot(c, destSlot, Height(c))

PreservedCopyTopSlot(c, destSlot, preserveSlot) ==
    LET type == GetStackTopType(c)
    IN IF c.error THEN c
       ELSE PreserveCopySlot(Assert_(c, destSlot # preserveSlot), destSlot,
                             Source(c, 0, type), preserveSlot, type)

\* op_SetRegister
CopyStackTopToRegister(c, updateStack) ==
    LET type == GetStackTopType(c)
        preserved == PreserveRegisterIfOccupied(c, type)
        set == CopySlot(preserved, RegisterFor(type), GetStackTopSlotNumber(c), type)
    IN IF IsStackTopInRegister(c) THEN c
       ELSE IF updateStack THEN PushRegister(PopType(set, type), type) ELSE set

\* Locals are copied on write: a local.get refers to the local's slot, and
\* before the local is set the references move to a slot of their own. They
\* are looked for up to the innermost scope that is no plain block.
ReferenceStart(c) ==
    LET scopes == { k \in DOMAIN c.block : c.block[k].opcode # "block" }
    IN c.block[Max(scopes)].blockStackIndex

FindReferencedLocalWithinCurrentBlock(c, localSlot) ==
    LET refs == { i \in ReferenceStart(c) + 1 .. Height(c) :
                     c.stack[i].slot = localSlot }
        type == GetStackTypeFromBottom(c, Min(refs))
        slot == FindSlots(c, type)
    IN IF c.error \/ refs = {} THEN [state |-> c, slot |-> localSlot]
       ELSE [state |-> [IncrementSlotUsageCount(AllocateSlots(c, type), slot,
                                                Cardinality(refs) - 1)
                           EXCEPT !.stack = [i \in DOMAIN @ |->
                               IF i \in refs THEN [@[i] EXCEPT !.slot = slot]
                               ELSE @[i]]],
             slot |-> slot]

PreserveLocal(c, i) ==
    LET slot == GetSlotForStackIndex(c, i)
        found == FindReferencedLocalWithinCurrentBlock(c, slot)
        type == GetStackTypeFromBottom(c, i)
    IN IF found.slot = slot THEN c
       ELSE CopySlot(found.state, found.slot, slot, type)

\* References from before a loop or an if are out of reach for a local.set in
\* it: they move when it begins. Mutant: they do not.
PreserveArgsAndLocals_None(c) == c
PreserveArgsAndLocals(c) ==
    LET n == c.stackFirstDynamicIndex
        go[i \in 0 .. n] == IF i = 0 THEN c ELSE PreserveLocal(go[i - 1], i)
    IN IF c.error \/ Height(c) <= n THEN c ELSE go[n]
----------------------------------------------------------------------------
(* Where a branch, a return and a call put their values.                   *)

\* The item at i is copied to slot. An item still to be copied, up to end,
\* whose slot is about to be overwritten moves to a temporary slot first.
CopyStackSlot(p, slot, i, end) ==
    LET d == p.state
        Collides(j) ==
            LET extra == GetTypeNumSlots(d.stack[i].type) - 1
                other == d.stack[j].slot
                otherExtra == other + GetTypeNumSlots(d.stack[j].type) - 1
            IN slot \in {other, otherExtra} \/ slot + extra = other
        hit == { j \in i + 1 .. end : Collides(j) }
        moved == IF hit = {} THEN d
                 ELSE IF p.temp >= MaxSlots THEN Fail(d)
                 ELSE TouchSlot([CopyStackIndexToSlot(d, p.temp, Min(hit))
                                    EXCEPT !.stack[Min(hit)].slot = p.temp],
                                p.temp + 1)
    IN IF d.error \/ slot = d.stack[i].slot THEN p
       ELSE [state |-> [CopyStackIndexToSlot(moved, slot, i)
                           EXCEPT !.stack[i].slot = slot],
             temp |-> IF hit = {} THEN p.temp ELSE p.temp + 2]

\* Copies the n items above from to the slots of the records above target.
\* The stack is as before afterwards.
CopyStackSlots(c, target, from, n, tempSlot) ==
    LET go[k \in 0 .. n] ==
            IF k = 0 THEN [state |-> c, temp |-> tempSlot]
            ELSE CopyStackSlot(go[k - 1],
                               GetSlotForStackIndex(go[k - 1].state, target + k),
                               from + k, from + n)
    IN [go[n].state EXCEPT !.stack = c.stack]

\* The values for the scope at depth k go to the slots set aside for its
\* results, or to its parameters' if it is a loop that is continued; a last
\* value that is a float goes to the register.
ResolveBlockResults(c, k, isBranch) ==
    LET scope == c.block[k]
        isLoop == scope.opcode = "loop" /\ isBranch
        numParams == Len(scope.type.params)
        numValues == IF isLoop THEN numParams ELSE Len(scope.type.rets)
        records == scope.exitStackIndex + (IF isLoop THEN 0 ELSE numParams)
        height == GetNumBlockValuesOnStack(c)
        inFp == ~isLoop /\ IsFpType(GetStackTopType(c))
        d == IF inFp THEN CopyStackTopToRegister(c, FALSE) ELSE c
        end == IF inFp THEN Height(c) - 1 ELSE Height(c)
        rest == IF inFp THEN numValues - 1 ELSE numValues
    IN IF c.error \/ (IF isBranch THEN height < numValues ELSE height # numValues)
       THEN Fail(c)
       ELSE IF numValues = 0 THEN c
       ELSE CopyStackSlots(d, records, end - rest, rest,
                           AlignSlotToType(d.maxStackSlots, "i64"))

\* The i-th of the values a return takes from the top.
ReturnValue(c, i) ==
    LET type == c.f.type.rets[Len(c.f.type.rets) - i + 1]
        slot == (Len(c.f.type.rets) - i) * ioSlotCount
    IN Read(CopyStackIndexToSlot(c, slot, Height(c) - i + 1), slot, type,
            Operand(c, i - 1))

\* The values of the function go to its return slots, which come first.
ReturnValues(c, isBranch) ==
    LET rets == c.f.type.rets
        n == Len(rets)
        height == GetNumBlockValuesOnStack(c)
        Type(i) == IF IsStackPolymorphic(c) /\ GetStackTypeFromTop(c, i) = "none"
                   THEN rets[n - i] ELSE GetStackTypeFromTop(c, i)
        go[i \in 0 .. n] == IF i = 0 THEN c ELSE ReturnValue(go[i - 1], i)
        copied == IF IsStackPolymorphic(c) THEN c ELSE go[n]
    IN IF \/ c.error
          \/ /\ ~IsStackPolymorphic(c)
             /\ IF isBranch THEN height < n ELSE height # n
          \/ \E i \in 0 .. n - 1 : Type(i) # rets[n - i]
       THEN Fail(c)
       ELSE IF isBranch THEN copied ELSE Pops(copied, n)

\* op_Return, op_Unreachable: the run ends here.
Returned(c) ==
    IF ~c.running THEN c
    ELSE [Leave(c, 0, "never", <<>>) EXCEPT !.locals = [i \in DOMAIN @ |-> Junk]]

\* Where the compiler takes the locals and the operands of scopes to be.
Places(c, stack, block) ==
    { [value |-> c.locals[i], item |-> stack[i]] : i \in DOMAIN c.locals }
    \union
    UNION { { [value |-> block[k].operands[i],
               item |-> stack[block[k].blockStackIndex + i]] :
                 i \in DOMAIN block[k].operands } : k \in DOMAIN block }

AllInPlace(c, stack, block) ==
    \A p \in Places(c, stack, block) : Get(c, p.item.slot, p.item.type) = p.value

\* op_ContinueLoop: the loop's code is entered again, which was compiled for
\* the stack as it was at its beginning.
ContinueLoop(c, k) ==
    LET values == Upper(Operands(c), Len(c.block[k].type.params))
        again == [SubSeq(c.block, 1, k) EXCEPT ![k].operands = values]
    IN IF c.error \/ ~c.running THEN c
       ELSE [Returned(c) EXCEPT !.misread = @ \/ ~AllInPlace(c, c.block[k].entry, again)]

\* The frame of the callee begins at an even slot above all that is in use, at
\* the end of the caller's frame at the latest: first its results, then its
\* arguments.
FrameEnd(slots) == AlignSlotToType(Max({1, slots}), "i64")
CallTop(c) == FrameEnd(GetMaxUsedSlotPlusOne(c))

\* The i-th argument from the top goes to the frame of the callee. No slot is
\* touched for it, so that it may be outside of this one.
\* Mutant: the slot of an argument is taken before argTop is lowered.
PassArg_Above(c, i, type, topSlot, skipped) ==
    LET n == Len(type.params)
        slot == topSlot + (Len(type.rets) + n - i + 1) * ioSlotCount
        copied == CopyStackTopToSlot([c EXCEPT !.written = {}], slot)
        arguments == Writes({ w.slot : w \in copied.written }, TRUE)
    IN Pop(Read([copied EXCEPT !.written = c.written \union arguments],
                slot, type.params[n - i + 1], Operand(c, skipped + i - 1)))
PassArg(c, i, type, topSlot, skipped) ==
    LET n == Len(type.params)
        slot == topSlot + (Len(type.rets) + n - i) * ioSlotCount
        copied == CopyStackTopToSlot([c EXCEPT !.written = {}], slot)
        arguments == Writes({ w.slot : w \in copied.written }, TRUE)
    IN Pop(Read([copied EXCEPT !.written = c.written \union arguments],
                slot, type.params[n - i + 1], Operand(c, skipped + i - 1)))

\* Nothing sees to it that there is a slot for the result.
TakeResult(c, i, type, topSlot) ==
    LET slot == topSlot + (i - 1) * ioSlotCount
        pushed == Push(c, type.rets[i], slot)
    IN IF slot + GetTypeNumSlots(type.rets[i]) > MaxSlots THEN Overrun(pushed)
       ELSE MarkSlotsAllocatedByType(pushed, slot, type.rets[i])

PassArgs(c, type, topSlot, skipped) ==
    LET n == Len(type.params)
        go[i \in 0 .. n] ==
            IF i = 0 THEN c ELSE PassArg(go[i - 1], i, type, topSlot, skipped)
    IN go[n]

TakeResults(c, type, topSlot) ==
    LET m == Len(type.rets)
        go[i \in 0 .. m] == IF i = 0 THEN c ELSE TakeResult(go[i - 1], i, type, topSlot)
    IN go[m]

CompileCallArgsAndReturn(c, type, isIndirect) ==
    LET topSlot == CallTop(c)
        n == Len(type.params)
        m == Len(type.rets)
        c1 == [c EXCEPT !.slotMaxAllocatedIndexPlusOne = GetMaxUsedSlotPlusOne(c)]
        c2 == IF isIndirect THEN Pop(c1) ELSE c1
        skipped == IF isIndirect THEN 1 ELSE 0
        args == PassArgs(c2, type, topSlot, skipped)
        passed == IF isIndirect
                  THEN Read(args, GetStackTopSlotNumber(c), "i32", Operand(c, 0))
                  ELSE args
        fresh == Fresh(c, m)
        Frame(s) == IF \E i \in 1 .. m : s = topSlot + (i - 1) * ioSlotCount
                    THEN fresh[(s - topSlot) \div ioSlotCount + 1]
                    ELSE IF \E i \in 1 .. m : s = topSlot + (i - 1) * ioSlotCount + 1
                    THEN -fresh[(s - topSlot) \div ioSlotCount + 1]
                    ELSE Junk
        called == IF ~passed.running THEN passed
                  ELSE [passed EXCEPT !.mem = [s \in DOMAIN @ |->
                           IF s >= topSlot /\ ~IsRegisterSlotAlias(s) THEN Frame(s)
                           ELSE @[s]]]
    IN Eval(TakeResults(called, type, topSlot),
            n + skipped, type.rets, [i \in 1 .. m |-> fresh[i]])
----------------------------------------------------------------------------
(* Blocks.                                                                 *)

PushResult(c, i, type) ==
    IF i = Len(type.rets) /\ IsFpType(type.rets[i])
    THEN PushRegister(c, type.rets[i]) ELSE PushAllocatedSlot(c, type.rets[i])

PushBlockResults(c, type) ==
    LET n == Len(type.rets)
        go[i \in 0 .. n] == IF i = 0 THEN c ELSE PushResult(go[i - 1], i, type)
    IN go[n]

\* The i-th parameter is pushed again, with the slot it was popped from.
PushParam(c, i, type, slot) ==
    LET pushed == Push(c, type.params[i], slot)
    IN IF slot >= c.slotFirstDynamicIndex /\ slot # SlotUnused
       THEN MarkSlotsAllocatedByType(pushed, slot, type.params[i]) ELSE pushed

PushParams(c, type, exit, results) ==
    LET n == Len(type.params)
        go[i \in 0 .. n] ==
            IF i = 0 THEN c
            ELSE PushParam(go[i - 1], i, type, GetSlotForStackIndex(results, exit + i))
    IN go[n]

PopParams(c, type) ==
    LET n == Len(type.params)
        go[i \in 0 .. n] ==
            IF i = 0 THEN c ELSE PopType(go[i - 1], type.params[n - i + 1])
    IN go[n]

\* The block c begins is open: results is c with its parameters popped and
\* the slots of its results pushed, exit the height between the two. The new
\* scope is a copy of the outer one where it says nothing else, so a block in
\* code that is not reached begins polymorphic.
OpenBlock(c, type, opcode, exit, results) ==
    LET n == Len(type.params)
        freed == [Pops(results, Len(type.rets)) EXCEPT !.stack = results.stack]
        scope == [opcode |-> opcode, type |-> type,
                  blockStackIndex |-> Height(results), exitStackIndex |-> exit,
                  isPolymorphic |-> IsStackPolymorphic(c),
                  stackIndex |-> Height(c), entry |-> <<>>,
                  types |-> type.params, dead |-> FALSE,
                  operands |-> IF c.running THEN Upper(Operands(c), n) ELSE <<>>]
        opened == [(IF opcode = "else" THEN freed ELSE Eval(freed, n, <<>>, <<>>))
                      EXCEPT !.block = Append(@, scope)]
    IN IF c.error \/ results.error THEN Fail(c)
       ELSE PushParams(opened, type, exit, results)

\* A loop is continued with the stack it began with.
RememberEntry(c, opcode) ==
    IF c.error \/ opcode # "loop" THEN c
    ELSE [c EXCEPT !.block[Len(c.block)].entry = c.stack]

\* The first half of CompileBlock. The records of the parameters, and of the
\* slots the results will have, stay on the stack although what they refer
\* to has been given back; then the parameters are pushed anew.
BeginBlock(c, type, opcode) ==
    LET n == Len(type.params)
        entered == Assert_(c, \A r \in DOMAIN c.regStackIndexPlusOne :
                                 ~IsRegisterAllocated(c, r))
        short == IsStackPolymorphic(c) /\ Block(c).blockStackIndex + n > Height(c)
        popped == IF opcode # "else" THEN PopParams(entered, type)
                  ELSE [entered EXCEPT !.stack = SubSeq(@, 1,
                           IF short THEN Block(c).blockStackIndex ELSE Len(@) - n)]
        results == PushBlockResults([popped EXCEPT !.stack = c.stack], type)
    IN RememberEntry(OpenBlock(c, type, opcode, Height(popped), results), opcode)

\* The values of the scope are put in their places and its slots given back.
LeaveScope(c) ==
    LET k == Len(c.block)
        resolved == IF IsStackPolymorphic(c) THEN c ELSE ResolveBlockResults(c, k, FALSE)
    IN UnwindBlockStack(IF Block(c).opcode = "if" THEN Leave(resolved, k, "end", Operands(c))
                        ELSE resolved)

PushScopeResults(c, scope) ==
    PushBlockResults([c EXCEPT !.stack = SubSeq(@, 1, scope.exitStackIndex)], scope.type)

CloseBlock(c, scope, operands) ==
    LET outer == [c EXCEPT !.block = Front(@)]
    IN IF c.error THEN Fail(c)
       ELSE IF scope.opcode = "if" THEN outer
       ELSE Resume(Eval(outer, 0, scope.type.rets, operands), Len(c.block), "end")

\* The second half of CompileBlock. The results are pushed, unless this is
\* the first part of an if: a loop has left numResults at 65535 by then.
EndBlock(c) ==
    IF c.error THEN c
    ELSE CloseBlock(IF Block(c).opcode = "if" THEN LeaveScope(c)
                    ELSE PushScopeResults(LeaveScope(c), Block(c)),
                    Block(c), Operands(c))

\* The other part of an if, whether or not the program has it.
CompileElseBlock(c, scope) ==
    IF c.error THEN c
    ELSE Resume(BeginBlock([c EXCEPT !.stack = SubSeq(@, 1, scope.stackIndex)],
                           scope.type, "else"),
                Len(c.block) + 1, "else")

InstantiateConstant(c, i) ==
    LET slot == FindSlots(c, c.stack[i].type)
    IN IF c.error \/ ~IsConstantSlot(c, GetSlotForStackIndex(c, i)) THEN c
       ELSE [CopyStackIndexToSlot(AllocateSlots(c, c.stack[i].type), slot, i)
                EXCEPT !.stack[i].slot = slot]

\* Parameters of a loop are not left in the slots of constants.
InstantiateConstants(c, type) ==
    LET n == Len(type.params)
        go[i \in 0 .. n] ==
            IF i = 0 THEN c ELSE InstantiateConstant(go[i - 1], Height(c) - n + i)
    IN IF c.error \/ GetNumBlockValuesOnStack(c) < n THEN c ELSE go[n]

\* op_Loop, op_Entry: d_m3ClearRegisters
ClearRegisters(c) ==
    IF c.error THEN c
    ELSE Put(Put(c, Reg0SlotAlias, "i32", Junk), Fp0SlotAlias, "f32", Junk)
----------------------------------------------------------------------------
(* One action for each kind of opcode, of a valid program.                 *)

\* A compilation that has not begun: slots for the results are taken.
Blank(f) ==
    [f |-> f, length |-> 0,
     stack |-> <<>>, stackFirstDynamicIndex |-> 0,
     m3Slots |-> [s \in 0 .. MaxSlots - 1 |->
                     IF s < Len(f.type.rets) * ioSlotCount THEN 1 ELSE 0],
     regStackIndexPlusOne |-> [r \in {Reg0SlotAlias, Fp0SlotAlias} |-> 0],
     slotFirstDynamicIndex |-> Len(f.type.rets) * ioSlotCount,
     slotMaxAllocatedIndexPlusOne |-> Len(f.type.rets) * ioSlotCount,
     slotFirstConstIndex |-> 0, slotMaxConstIndex |-> 0, maxStackSlots |-> 0,
     constants |-> [s \in 0 .. MaxSlots - 1 |-> Junk],
     block |-> <<[opcode |-> "function", type |-> f.type,
                  blockStackIndex |-> 0, exitStackIndex |-> 0,
                  isPolymorphic |-> FALSE, stackIndex |-> 0, entry |-> <<>>,
                  types |-> <<>>, dead |-> FALSE, operands |-> <<>>]>>,
     error |-> FALSE, overrun |-> FALSE, done |-> FALSE, asserted |-> TRUE,
     mem |-> [s \in (0 .. MaxSlots + MaxCallSlots) \union {Reg0SlotAlias, Fp0SlotAlias} |-> Junk],
     locals |-> <<>>, running |-> TRUE, goal |-> NoGoal,
     written |-> {}, misread |-> FALSE]

\* With slots for the frame there is room for write w.
InRoom(w, slots) ==
    w.slot < IF w.argument THEN FrameEnd(slots) + MaxCallSlots ELSE slots

\* What is left of the state between two opcodes: values the program has no
\* more are Junk, and of the writes the ones there is no room for.
Tidy(c) ==
    [c EXCEPT !.mem = [s \in DOMAIN @ |->
                          IF @[s] \in Known(c) \union ConstValues
                             \/ -@[s] \in Known(c) \union ConstValues
                          THEN @[s] ELSE Junk],
              !.written = { w \in @ : ~InRoom(w, c.maxStackSlots) },
              !.length = @ + 1]

\* A compilation that fails gives back all it has.
Becomes(c) ==
    o' = IF c.error THEN [Fail(Blank(o.f)) EXCEPT !.overrun = c.overrun] ELSE Tidy(c)

\* The next opcode is one that takes operands of types ts.
Compiles(opcode, ts) ==
    /\ opcode \in o.f.opcodes
    /\ o.length < o.f.maxOpcodes
    /\ ~o.error /\ ~o.done
    /\ HasOperands(o, ts)

HasRoom == Len(Block(o).types) < o.f.maxOperands

Compile_Const(type, v) ==
    /\ Compiles("const", <<>>) /\ HasRoom
    /\ Becomes(Eval(PushConst(o, v, type), 0, <<type>>, <<v>>))

Compile_GetLocal(i) ==
    /\ Compiles("local.get", <<>>) /\ HasRoom
    /\ LET item == o.stack[i]
       IN Becomes(Eval(Push(o, item.type, item.slot), 0, <<item.type>>, <<o.locals[i]>>))

SetLocal(c, i) ==
    LET slot == GetSlotForStackIndex(c, i)
        found == FindReferencedLocalWithinCurrentBlock(c, slot)
        set == IF found.slot = slot THEN CopyStackTopToSlot(c, slot)
               ELSE PreservedCopyTopSlot(found.state, slot, found.slot)
    IN IF c.running THEN [set EXCEPT !.locals[i] = Operand(c, 0)] ELSE set

Compile_SetLocal(i) ==
    /\ Compiles("local.set", <<o.stack[i].type>>)
    /\ Becomes(Eval(Pop(SetLocal(o, i)), 1, <<>>, <<>>))

Compile_TeeLocal(i) ==
    /\ Compiles("local.tee", <<o.stack[i].type>>)
    /\ Becomes(Eval(SetLocal(o, i), 1, <<o.stack[i].type>>, <<Operand(o, 0)>>))

\* op_GetGlobal
Compile_GetGlobal(type) ==
    /\ Compiles("global.get", <<>>) /\ HasRoom
    /\ LET v == Fresh(o, 1)[1]
           c == PushAllocatedSlot(o, type)
       IN Becomes(Eval(Put(c, FindSlots(o, type), type, v), 0, <<type>>, <<v>>))

\* op_SetGlobal, of a global that is mutable.
Compile_SetGlobal(type) ==
    /\ Compiles("global.set", <<type>>)
    /\ Becomes(Eval(Pop(ReadOperand(o, 0, type)), 1, <<>>, <<>>))
----------------------------------------------------------------------------
(* The table of operations: what an opcode takes and gives, and which of   *)
(* the four variants (top in register, top in slot, both in slots, both in *)
(* registers) the table has for it.                                        *)

Unary(from, to) ==
    [operands |-> <<from>>, stackOffset |-> 0, type |-> to, operations |-> {0, 1}]
Binary(from, to) ==
    [operands |-> <<from, from>>, stackOffset |-> -1, type |-> to,
     operations |-> {0, 1, 2}]
CommutativeBinary(from, to) ==
    [Binary(from, to) EXCEPT !.operations = {0, 2}]

\* i32.eqz ... f64.copysign, i32.wrap, i64.extend, f32.demote, f64.promote
Operators(types) ==
    (UNION { { Unary(t, t), Binary(t, t), CommutativeBinary(t, t),
               Binary(t, "i32"), CommutativeBinary(t, "i32") } : t \in types })
    \union { Unary(t, u) : t, u \in types \intersect IntTypes }
    \union { Unary(t, u) : t, u \in types \intersect FpTypes }

\* i32.load ... i64.load32_u
Loads(types) == { Unary("i32", t) : t \in types }

\* i32.store ... i64.store32
Stores(types) ==
    { [operands |-> <<"i32", t>>, stackOffset |-> -2, type |-> "none",
       operations |-> IF IsFpType(t) THEN 0 .. 3 ELSE 0 .. 2] : t \in types }

\* i32.trunc_s/f32 ... f64.reinterpret/i64, and the saturating ones
Conversions(types) ==
    { op \in { Unary(t, u) : t, u \in types } :
        IsFpType(op.operands[1]) # IsFpType(op.type) }

\* The variant of an operation that is emitted, after what it needs is done.
Operator(c, op) ==
    LET c1 == IF IsFpType(GetStackTopType(c)) /\ op.type \in IntTypes
              THEN PreserveRegisterIfOccupied(c, op.type) ELSE c
        topReg == IsStackTopInRegister(c1)
        nextReg == op.stackOffset # 0 /\ IsStackTopMinus1InRegister(c1)
        variant == IF op.stackOffset = 0 THEN IF topReg THEN 0 ELSE 1
                   ELSE IF topReg THEN IF nextReg THEN 3 ELSE 0
                   ELSE IF nextReg THEN IF 1 \in op.operations THEN 1 ELSE 0
                   ELSE 2
        c2 == IF topReg \/ nextReg THEN c1 ELSE PreserveRegisterIfOccupied(c1, op.type)
        n == Len(op.operands)
        popped == Pops(ReadOperands(c2, op.operands), n)
        v == Fresh(c, 1)[1]
    IN IF c2.error \/ variant \notin op.operations THEN Fail(c)
       ELSE IF op.type = "none" THEN Eval(popped, n, <<>>, <<>>)
       ELSE Eval(Put(PushRegister(popped, op.type), RegisterFor(op.type), op.type, v),
                 n, <<op.type>>, <<v>>)

Compile_Operator(op) ==
    /\ Compiles("operator", op.operands)
    /\ Becomes(Operator(o, op))

Compile_Load_Store(op) ==
    /\ Compiles("memory", op.operands)
    /\ Becomes(Operator(IF IsFpType(op.type) THEN PreserveRegisterIfOccupied(o, "f64")
                        ELSE o, op))

\* The result goes to a slot if its register is taken.
Compile_Convert(op) ==
    /\ Compiles("convert", op.operands)
    /\ LET v == Fresh(o, 1)[1]
           popped == Pop(ReadOperand(o, 0, op.operands[1]))
           toSlot == IsRegisterAllocated(o, RegisterFor(op.type))
           pushed == IF toSlot
                     THEN Put(PushAllocatedSlot(popped, op.type),
                              FindSlots(popped, op.type), op.type, v)
                     ELSE Put(PushRegister(popped, op.type), RegisterFor(op.type),
                              op.type, v)
       IN Becomes(Eval(pushed, 1, <<op.type>>, <<v>>))

\* op_Select: the condition and the two it selects from.
ReadSelect(c, type) == ReadOperands(c, <<type, type, "i32">>)

\* Of the three operands one at most is in the integer register,
\* and of the two that are selected from one at most in the other.
Compile_Select(type) ==
    /\ Compiles("select", <<type, type, "i32">>)
    /\ LET top == GetStackTypeFromTop(o, 1)
           inRegister == \/ IsStackTopMinus1InRegister(o)
                         \/ IsStackTopMinus2InRegister(o)
                         \/ top \in IntTypes /\ IsStackTopInRegister(o)
           c1 == IF inRegister \/ top \notin IntTypes \union FpTypes THEN o
                 ELSE PreserveRegisterIfOccupied(o, top)
           popped == IF top = "none" THEN c1 ELSE Pops(ReadSelect(c1, top), 3)
           v == Fresh(o, 1)[1]
       IN Becomes(IF top = "none" /\ ~IsStackPolymorphic(o) THEN Fail(o)
                  ELSE Eval(Put(PushRegister(popped, top), RegisterFor(top), top, v),
                            3, <<type>>, <<v>>))

Compile_Drop(type) ==
    /\ Compiles("drop", <<type>>)
    /\ Becomes(Eval(Pop(o), 1, <<>>, <<>>))

Compile_Memory_Size ==
    /\ Compiles("memory.size", <<>>) /\ HasRoom
    /\ LET v == Fresh(o, 1)[1]
           c == PushRegister(PreserveRegisterIfOccupied(o, "i32"), "i32")
       IN Becomes(Eval(Put(c, Reg0SlotAlias, "i32", v), 0, <<"i32">>, <<v>>))

\* The top goes to the register for op_MemGrow, op_MemCopy and op_MemFill.
\* Mutant: it is taken to be there already.
TopInRegister_Taken(c) == PopType(Read(c, Reg0SlotAlias, "i32", Operand(c, 0)), "i32")
TopInRegister(c) ==
    LET d == CopyStackTopToRegister(c, FALSE)
    IN PopType(Read(d, Reg0SlotAlias, "i32", Operand(c, 0)), "i32")

Compile_Memory_Grow ==
    /\ Compiles("memory.grow", <<"i32">>)
    /\ LET v == Fresh(o, 1)[1]
       IN Becomes(Eval(Put(PushRegister(TopInRegister(o), "i32"), Reg0SlotAlias, "i32", v),
                       1, <<"i32">>, <<v>>))

Compile_Memory_CopyFill ==
    /\ Compiles("memory.copy", <<"i32", "i32", "i32">>)
    /\ LET c == TopInRegister(o)
           Slot(d, i) == Pop(Read(d, GetStackTopSlotNumber(d), "i32", Operand(d, i)))
       IN Becomes(Eval(Slot(Slot(c, 1), 2), 3, <<>>, <<>>))
----------------------------------------------------------------------------
(* Control.                                                                *)

Compile_LoopOrBlock(opcode, type) ==
    /\ Compiles(opcode, type.params)
    /\ Len(o.block) <= o.f.maxDepth
    /\ LET c1 == PreserveArgsAndLocals(PreserveRegisters(o))
           c2 == IF opcode = "loop" THEN ClearRegisters(InstantiateConstants(c1, type))
                 ELSE c1
       IN Becomes(BeginBlock(c2, type, opcode))

ElseUnless(c, holds) ==
    IF c.error \/ holds THEN c ELSE Leave(c, Len(c.block), "else", Operands(c))

\* op_If: the condition holds, or the run goes on at the else.
Compile_If(type, holds) ==
    /\ Compiles("if", Append(type.params, "i32"))
    /\ Len(o.block) <= o.f.maxDepth
    /\ holds \/ o.running
    /\ LET c1 == PreserveArgsAndLocals(PreserveNonTopRegisters(o))
           c2 == Eval(Pop(ReadOperand(c1, 0, "i32")), 1, <<>>, <<>>)
       IN Becomes(ElseUnless(BeginBlock(c2, type, "if"), holds))

\* The operands are exactly the results of the block.
BlockIsComplete ==
    /\ HasOperands(o, Block(o).type.rets)
    /\ Len(Block(o).types) <= Len(Block(o).type.rets)

Compile_Else ==
    /\ Compiles("if", <<>>)
    /\ Block(o).opcode = "if" /\ BlockIsComplete
    /\ Becomes(CompileElseBlock(EndBlock(o), Block(o)))

\* An if without else that has results gets an else made up for it, which
\* passes its parameters on.
EndWithoutElse(c, scope) ==
    LET k == Len(c.block) + 1
    IN IF scope.opcode # "if" \/ c.error THEN c
       ELSE IF scope.type.rets # <<>> THEN EndBlock(CompileElseBlock(c, scope))
       ELSE Resume(Resume(c, k, "end"), k, "else")

Compile_End ==
    /\ ~o.error /\ ~o.done
    /\ Len(o.block) > 1 /\ BlockIsComplete
    /\ Block(o).opcode = "if" => Block(o).type.params = Block(o).type.rets
    /\ Becomes(EndWithoutElse(EndBlock(o), Block(o)))

\* The end of the function.
Compile_FunctionEnd ==
    /\ ~o.error /\ ~o.done
    /\ Len(o.block) = 1 /\ BlockIsComplete
    /\ Becomes([Returned(ReturnValues(o, FALSE)) EXCEPT !.done = TRUE])

Compile_Return ==
    /\ Compiles("return", o.f.type.rets)
    /\ Becomes(Unreached(IF IsStackPolymorphic(o) THEN o
                         ELSE SetStackPolymorphic(Returned(ReturnValues(o, TRUE)))))

Compile_Unreachable ==
    /\ Compiles("unreachable", <<>>)
    /\ Becomes(Unreached(SetStackPolymorphic(Returned(o))))

\* The values a branch to the scope at depth k takes along.
LabelTypes(k) == IF o.block[k].opcode = "loop" THEN o.block[k].type.params
                 ELSE o.block[k].type.rets

\* The code of a branch to a scope that is no loop, and the run along it.
BranchForward(c, k) ==
    LET values == Upper(Operands(c), Len(LabelTypes(k)))
    IN IF c.error \/ IsStackPolymorphic(c) THEN c
       ELSE IF k = 1 THEN Returned(ReturnValues(c, TRUE))
       ELSE Leave(ResolveBlockResults(c, k, TRUE), k, "end", values)

Compile_Branch(k) ==
    /\ Compiles("br", LabelTypes(k))
    /\ Becomes(Unreached(
           IF o.block[k].opcode = "loop"
           THEN [ContinueLoop(o, k) EXCEPT !.block[Len(o.block)].isPolymorphic = TRUE]
           ELSE SetStackPolymorphic(BranchForward(o, k))))

\* What follows is executed only if the run takes this way.
OnlyIf(c, taken) == [c EXCEPT !.running = @ /\ taken]
Otherwise(c, before, taken) ==
    IF before.running /\ ~taken THEN [c EXCEPT !.running = TRUE] ELSE c

\* What a br_if to the scope at depth k does if it is taken.
BranchFrom(c, k) ==
    LET toLoop == o.block[k].opcode = "loop"
    IN IF toLoop /\ LabelTypes(k) = <<>> THEN ContinueLoop(c, k)
       ELSE IF toLoop THEN ContinueLoop(ResolveBlockResults(c, k, TRUE), k)
       ELSE IF LabelTypes(k) = <<>> /\ k # 1
       THEN IF c.running THEN Leave(c, k, "end", <<>>) ELSE c
       ELSE BranchForward(c, k)

Compile_BranchIf(k, taken) ==
    /\ Compiles("br_if", Append(LabelTypes(k), "i32"))
    /\ taken => o.running
    /\ LET plain == o.block[k].opcode = "loop" /\ LabelTypes(k) = <<>>
           c1 == IF plain THEN TopInRegister(o) ELSE Pop(ReadOperand(o, 0, "i32"))
           c2 == OnlyIf(Eval(c1, 1, <<>>, <<>>), taken)
       IN Becomes(Otherwise(BranchFrom(c2, k), o, taken))

\* The code of one target, and the run along it if it is the one chosen.
BranchTarget(c, k, taken) ==
    LET here == [c EXCEPT !.running = taken]
        d == IF o.block[k].opcode = "loop"
             THEN ContinueLoop(ResolveBlockResults(here, k, TRUE), k)
             ELSE BranchForward(here, k)
    IN [d EXCEPT !.running = FALSE]

\* Each of the two targets (a bound) gets code of its own, of which the run
\* executes one.
Compile_BranchTable(j, k, chosen) ==
    /\ Compiles("br_table", Append(LabelTypes(j), "i32"))
    /\ LabelTypes(j) = LabelTypes(k)
    /\ LET preserved == PreserveRegisterIfOccupied(o, "i64")
           c1 == Eval(Pop(Read(preserved, GetStackTopSlotNumber(preserved), "i32",
                               Operand(o, 0))), 1, <<>>, <<>>)
           c2 == BranchTarget(c1, j, c1.running /\ chosen = 1)
           c3 == BranchTarget(c2, k, c1.running /\ chosen = 2)
       IN Becomes(Unreached(SetStackPolymorphic(c3)))

Compile_Call(type) ==
    /\ Compiles("call", type.params)
    /\ Becomes(CompileCallArgsAndReturn(o, type, FALSE))

Compile_CallIndirect(type) ==
    /\ Compiles("call_indirect", Append(type.params, "i32"))
    /\ LET c == IF IsStackTopInRegister(o) THEN PreserveRegisterIfOccupied(o, "i32") ELSE o
       IN Becomes(CompileCallArgsAndReturn(c, type, TRUE))
----------------------------------------------------------------------------
(* The function: its return slots, arguments, locals and constants come    *)
(* first. How many slots ReserveConstants sets aside depends on the bytes  *)
(* of the whole function.                                                  *)

\* op_Entry has put a value into each argument and local.
PushLocal(c, type) ==
    LET slot == FindSlots(c, type)
        v == Len(c.locals) + 1
    IN Put([PushAllocatedSlot(c, type) EXCEPT !.locals = Append(@, v)], slot, type, v)

PushArg(c, type) ==
    [PushLocal(c, type) EXCEPT !.slotFirstDynamicIndex = @ + ioSlotCount]

PushLocals(c, types) ==
    LET go[i \in 0 .. Len(types)] == IF i = 0 THEN c ELSE PushLocal(go[i - 1], types[i])
    IN go[Len(types)]

PushArgs(c, types) ==
    LET go[i \in 0 .. Len(types)] == IF i = 0 THEN c ELSE PushArg(go[i - 1], types[i])
    IN go[Len(types)]

\* ReserveConstants, and what follows from it for the slots.
ReserveConstants(c, maxSlot, firstDynamic) ==
    [c EXCEPT !.slotFirstConstIndex = maxSlot, !.slotMaxConstIndex = maxSlot,
              !.slotFirstDynamicIndex = firstDynamic,
              !.maxStackSlots = firstDynamic,
              !.slotMaxAllocatedIndexPlusOne = firstDynamic,
              !.stackFirstDynamicIndex = Height(c),
              !.block[1].blockStackIndex = Height(c),
              !.written = {}]

CompileFunction(f, numConstantSlots) ==
    LET args == PushArgs(Blank(f), f.type.params)
        c == PushLocals([args EXCEPT
                            !.slotMaxAllocatedIndexPlusOne = args.slotFirstDynamicIndex],
                        f.locals)
        maxSlot == GetMaxUsedSlotPlusOne(c)
    IN ReserveConstants(c, maxSlot, maxSlot + numConstantSlots)

Starts(kinds) == { CompileFunction(f, 2 * n) : f \in kinds, n \in 0 .. MaxConsts \div 2 }

Init == o \in Starts(Functions)

NextFunction ==
    /\ o.done \/ o.error \/ o.length >= o.f.maxOpcodes
    /\ o' \in Starts({o.f})

Next ==
    \/ \E t \in o.f.types : \/ \E v \in ConstValues : Compile_Const(t, v)
                        \/ Compile_GetGlobal(t)
                        \/ Compile_SetGlobal(t)
                        \/ Compile_Select(t)
                        \/ Compile_Drop(t)
    \/ \E i \in DOMAIN o.locals : \/ Compile_GetLocal(i)
                                 \/ Compile_SetLocal(i)
                                 \/ Compile_TeeLocal(i)
    \/ \E op \in Operators(o.f.types) : Compile_Operator(op)
    \/ \E op \in Loads(o.f.types) \union Stores(o.f.types) : Compile_Load_Store(op)
    \/ \E op \in Conversions(o.f.types) : Compile_Convert(op)
    \/ Compile_Memory_Size
    \/ Compile_Memory_Grow
    \/ Compile_Memory_CopyFill
    \/ \E type \in o.f.blocks :
          \/ \E opcode \in {"block", "loop"} : Compile_LoopOrBlock(opcode, type)
          \/ \E holds \in BOOLEAN : Compile_If(type, holds)
    \/ Compile_Else
    \/ Compile_End
    \/ Compile_FunctionEnd
    \/ Compile_Return
    \/ Compile_Unreachable
    \/ \E k \in DOMAIN o.block :
          \/ Compile_Branch(k)
          \/ \E taken \in BOOLEAN : Compile_BranchIf(k, taken)
          \/ \E j \in DOMAIN o.block, chosen \in 1 .. 2 :
                Compile_BranchTable(j, k, chosen)
    \/ \E type \in o.f.calls : Compile_Call(type) \/ Compile_CallIndirect(type)
    \/ NextFunction

Spec == Init /\ [][Next]_o
----------------------------------------------------------------------------
(* Properties.                                                             *)

\* While the run comes by, every operand and every local is where the
\* compiler takes it to be.
ValuesInPlace == o.running => AllInPlace(o, o.stack, o.block)

\* Every operation that was executed has read the operand of its opcode, a
\* return and a call have put their values where the other side takes them
\* from, and a loop is continued with its values in place.
ReadsRight == ~o.misread

\* The d_m3Asserts of the compiler hold.
AssertsHold == o.asserted

\* No operation of the function writes above maxStackSlots, which is what
\* op_Entry asks the stack to have room for, but those that pass arguments:
\* they may write above it, no further from the end of the frame than the
\* results and arguments of a call reach.
FrameCoversWrites == o.written = {}
====
