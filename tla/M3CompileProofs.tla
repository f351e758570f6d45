-------------------------- MODULE M3CompileProofs --------------------------
(***************************************************************************)
(* Proof that no operation the compiler of Wasm3 emits writes outside the  *)
(* frame it asks for, or the room of a call behind it for its arguments    *)
(* (FrameCoversWrites of M3Compile), by the invariant of                   *)
(* M3CompileInvariant.                                                     *)
(***************************************************************************)
EXTENDS M3CompileInvariant, FiniteSetTheorems, SequenceTheorems, TLAPS

-----------------------------------------------------------------------------
(***************************************************************************)
(* Numbers.                                                                *)
(***************************************************************************)
LEMMA LeastOf ==
  ASSUME NEW ns \in SUBSET Nat, ns # {}
  PROVE  \E n \in ns : \A m \in ns : n <= m
<1> DEFINE ts == {0 .. n : n \in ns}
           before == StrictSubsetOrdering(Nat)
<1>1. IsWellFoundedOn(before, FiniteSubsetsOf(Nat))  BY FS_StrictSubsetOrderingWellFounded
<1>2. ts \subseteq FiniteSubsetsOf(Nat) /\ ts # {}
  <2>1. ASSUME NEW n \in ns PROVE 0 .. n \in FiniteSubsetsOf(Nat)
    BY FS_Interval DEF FiniteSubsetsOf
  <2> QED BY <2>1
<1>3. PICK x \in ts : \A y \in ts : ~(<<y, x>> \in before)
  <2> HIDE DEF before, ts
  <2> QED BY <1>1, <1>2, WFMin
<1>4. PICK n \in ns : x = 0 .. n  OBVIOUS
<1>5. ASSUME NEW m \in ns PROVE n <= m
  <2>1. ~(<<0 .. m, 0 .. n>> \in before)  BY <1>3, <1>4
  <2> SUFFICES ASSUME m < n PROVE FALSE
    OBVIOUS
  <2>2. 0 .. m \subseteq 0 .. n /\ 0 .. m # 0 .. n
        /\ 0 .. m \in SUBSET Nat /\ 0 .. n \in SUBSET Nat
    <3>1. m \in Nat /\ n \in Nat  OBVIOUS
    <3> HIDE DEF ts, before
    <3> QED BY <3>1
  <2> QED BY <2>1, <2>2 DEF StrictSubsetOrdering
<1> QED BY <1>5

LEMMA MinIn ==
  ASSUME NEW ns \in SUBSET Nat, ns # {}
  PROVE  Min(ns) \in ns /\ \A n \in ns : Min(ns) <= n
<1>1. PICK m \in ns : \A n \in ns : m <= n  BY LeastOf
<1> QED BY <1>1 DEF Min

LEMMA MaxIn ==
  ASSUME NEW bound \in Nat, NEW ns \in SUBSET (0 .. bound), ns # {}
  PROVE  Max(ns) \in ns /\ \A n \in ns : Max(ns) >= n
<1> DEFINE rest == {bound - n : n \in ns}
<1>1. rest \in SUBSET Nat /\ rest # {}
  <2>1. \A n \in ns : bound - n \in Nat  OBVIOUS
  <2> QED BY <2>1
<1>2. PICK m \in rest : \A n \in rest : m <= n
  <2> HIDE DEF rest
  <2> QED BY <1>1, LeastOf
<1>3. PICK x \in ns : m = bound - x  OBVIOUS
<1>4. ASSUME NEW n \in ns PROVE x >= n  BY <1>2, <1>3
<1> QED BY <1>4 DEF Max

LEMMA MaxOfTwo ==
  ASSUME NEW a \in Nat, NEW b \in Nat
  PROVE  Max({a, b}) \in Nat /\ Max({a, b}) >= a /\ Max({a, b}) >= b
         /\ Max({a, b}) \in {a, b}
<1>1. \E x \in {a, b} : \A y \in {a, b} : x >= y  BY SMT
<1> QED BY <1>1 DEF Max

LEMMA MinOfTwo ==
  ASSUME NEW a \in Nat, NEW b \in Nat
  PROVE  Min({a, b}) \in Nat /\ Min({a, b}) <= a /\ Min({a, b}) <= b
         /\ Min({a, b}) \in {a, b}
<1> QED BY MinIn

LEMMA Induct ==
  ASSUME NEW S, 0 \in S, \A n \in Nat : n \in S => n + 1 \in S
  PROVE  \A n \in Nat : n \in S
<1> DEFINE out == {n \in Nat : n \notin S}
<1> SUFFICES ASSUME out # {} PROVE FALSE
  OBVIOUS
<1>1. PICK m \in out : \A n \in out : m <= n
  <2>1. out \in SUBSET Nat  OBVIOUS
  <2> HIDE DEF out
  <2> QED BY <2>1, LeastOf
<1> QED BY <1>1

LEMMA Constants ==
  /\ MaxSlots \in Nat /\ MaxHeight \in Nat /\ MaxConsts \in Nat /\ MaxCallSlots \in Nat
  /\ Reg0SlotAlias \in Nat /\ Fp0SlotAlias \in Nat /\ SlotUnused \in Nat
  /\ Reg0SlotAlias > MaxSlots /\ Fp0SlotAlias > MaxSlots /\ SlotUnused > MaxSlots
  /\ SlotUnused \notin Registers
  /\ \A f \in Functions : /\ f.type \in FuncTypes
                          /\ f.blocks \subseteq FuncTypes /\ f.calls \subseteq FuncTypes
                          /\ f.locals \in Seq(ValueTypes) /\ f.types \subseteq ValueTypes
<1>1. MaxSlots \in Nat /\ MaxHeight \in Nat /\ MaxConsts \in Nat /\ MaxCallSlots \in Nat
  BY FunctionsAssumption
<1>2. /\ Reg0SlotAlias \in Nat /\ Fp0SlotAlias \in Nat /\ SlotUnused \in Nat
      /\ Reg0SlotAlias > MaxSlots /\ Fp0SlotAlias > MaxSlots /\ SlotUnused > MaxSlots
      /\ SlotUnused \notin Registers
  BY <1>1 DEF Reg0SlotAlias, Fp0SlotAlias, SlotUnused, Registers
<1> QED BY <1>1, <1>2, FunctionsAssumption DEF ValueTypes

LEMMA Widths ==
  /\ \A type : GetTypeNumSlots(type) \in {1, 2}
  /\ \A slot, type : slot \in Nat =>
        AlignSlotToType(slot, type) \in Nat /\ slot <= AlignSlotToType(slot, type)
BY DEF GetTypeNumSlots, AlignSlotToType

LEMMA FrameEndIs ==
  ASSUME NEW n \in Nat
  PROVE  /\ FrameEnd(n) \in Nat /\ n <= FrameEnd(n)
         /\ \A m \in Nat : m <= n => FrameEnd(m) <= FrameEnd(n)
<1>1. ASSUME NEW m \in Nat
      PROVE  FrameEnd(m) = IF m = 0 THEN 2 ELSE m + (m % 2)
  <2>1. Max({1, m}) = IF m = 0 THEN 1 ELSE m  BY MaxOfTwo
  <2> QED BY <2>1 DEF FrameEnd, AlignSlotToType, Is64BitType
<1>2. \A m \in Nat : m <= n => m + (m % 2) <= n + (n % 2) /\ n % 2 \in {0, 1}  OBVIOUS
<1> QED BY <1>1, <1>2

\* Where there is room for a write, there is room with more slots.
LEMMA WritesHeldOn ==
  ASSUME NEW c, NEW d, WritesHeld(c), c.maxStackSlots \in Nat, d.maxStackSlots \in Nat,
         c.maxStackSlots <= d.maxStackSlots,
         \A w \in d.written : w \in c.written \/ (w.slot \in Int /\ InRoom(w, d.maxStackSlots))
  PROVE  WritesHeld(d)
<1>1. FrameEnd(c.maxStackSlots) <= FrameEnd(d.maxStackSlots)
      /\ FrameEnd(c.maxStackSlots) \in Nat /\ FrameEnd(d.maxStackSlots) \in Nat
  BY FrameEndIs
<1>2. ASSUME NEW w \in c.written PROVE w.slot \in Int /\ InRoom(w, d.maxStackSlots)
  BY <1>1, Constants DEF WritesHeld, InRoom
<1> QED BY <1>2 DEF WritesHeld

LEMMA WritesIn ==
  ASSUME NEW slots, NEW frame
  PROVE  /\ (\A s \in slots : s \in Int /\ s < frame) =>
                \A w \in Writes(slots, FALSE) : w.slot \in Int /\ InRoom(w, frame)
         /\ (\A s \in slots : s \in Int /\ s < FrameEnd(frame) + MaxCallSlots) =>
                \A w \in Writes(slots, TRUE) : w.slot \in Int /\ InRoom(w, frame)
BY DEF Writes, InRoom

-----------------------------------------------------------------------------
(***************************************************************************)
(* What operations on slots, registers and the stack leave as it is.       *)
(***************************************************************************)
LEMMA FollowsTrans ==
  ASSUME NEW c, NEW d, NEW e, NEW S, Good(c, S), Good(d, S), Good(e, S),
         Follows(c, d), Follows(d, e)
  PROVE  Follows(c, e)
<1> SUFFICES ASSUME ~e.error PROVE Follows(c, e)
  BY DEF Follows
<1>1. ~d.error /\ Same(d, e) /\ SameLocals(d, e) /\ d.maxStackSlots <= e.maxStackSlots
  BY DEF Follows
<1>2. ~c.error /\ Same(c, d) /\ SameLocals(c, d) /\ c.maxStackSlots <= d.maxStackSlots
  BY <1>1 DEF Follows
<1>5. c.maxStackSlots \in Nat /\ d.maxStackSlots \in Nat /\ e.maxStackSlots \in Nat
  BY <1>1, <1>2 DEF Good, Body, Sizes
<1> QED BY <1>1, <1>2, <1>5 DEF Follows, Same, SameLocals

LEMMA KeepsTrans ==
  ASSUME NEW c, NEW d, NEW e, NEW S, Good(c, S), Keeps(c, d, S), Keeps(d, e, S)
  PROVE  Keeps(c, e, S)
<1> QED BY FollowsTrans DEF Keeps, Follows

LEMMA CalmTrans ==
  ASSUME NEW c, NEW d, NEW e, NEW S, Good(c, S), Calm(c, d, S), Calm(d, e, S)
  PROVE  Calm(c, e, S)
<1> QED BY FollowsTrans DEF Calm, Follows

LEMMA KeepsSelf ==
  ASSUME NEW c, NEW S, Good(c, S)
  PROVE  Keeps(c, c, S) /\ Calm(c, c, S)
<1> QED BY DEF Keeps, Calm, Follows, Same, SameLocals, Good, Body, Sizes

LEMMA CalmKeeps ==
  ASSUME NEW c, NEW d, NEW S, Calm(c, d, S)
  PROVE  Keeps(c, d, S)
BY DEF Calm, Keeps, Types

LEMMA Fails ==
  ASSUME NEW c, NEW S, IsState(c)
  PROVE  /\ IsState(Fail(c)) /\ Fail(c).error /\ Fail(c).f = c.f
         /\ Good(Fail(c), S) /\ \A b : Keeps(b, Fail(c), S)
<1> QED BY DEF Good, Keeps, Follows, IsState, Fail, Fields

LEMMA HeldOn ==
  ASSUME NEW c, NEW d, NEW it \in Items, ItemHeld(c, it), Same(c, d), SameLocals(c, d),
         c.maxStackSlots \in Nat, d.maxStackSlots \in Nat,
         c.maxStackSlots <= d.maxStackSlots
  PROVE  ItemHeld(d, it)
<1> QED BY Widths DEF ItemHeld, Same, SameLocals, InFrame, Items

LEMMA ScopeTyped ==
  ASSUME NEW S \in Seq(ScopeSet), NEW k \in 1 .. Len(S)
  PROVE  /\ S[k] \in ScopeSet
         /\ S[k].blockStackIndex \in Nat /\ S[k].exitStackIndex \in Nat
         /\ S[k].stackIndex \in Nat /\ S[k].isPolymorphic \in BOOLEAN
         /\ S[k].dead \in BOOLEAN /\ S[k].types \in Seq(ValueTypes)
         /\ S[k].type \in FuncTypes
         /\ S[k].type.params \in Seq(ValueTypes) /\ S[k].type.rets \in Seq(ValueTypes)
<1>1. S[k] \in ScopeSet  OBVIOUS
<1>2. S[k].type \in FuncTypes  BY <1>1 DEF ScopeSet
<1> QED BY <1>1, <1>2 DEF ScopeSet, FuncTypes, ValueTypes

LEMMA Stacked ==
  ASSUME NEW p \in Nat, NEW m \in Nat, NEW n \in Nat, NEW k \in Nat
  PROVE  /\ \A j \in 1 .. m : p + j \in 1 .. p + m + n + k
         /\ \A j \in 1 .. n : p + m + j \in 1 .. p + m + n + k
         /\ \A j \in 1 .. k : p + m + n + j \in 1 .. p + m + n + k
OBVIOUS

\* The scopes beneath the innermost one do not see what happens above them.
LEMMA NestedOn ==
  ASSUME NEW S \in Seq(ScopeSet), NEW T, NEW U, NEW base, Nested(S, T, base),
         TopScope(S).blockStackIndex <= Len(U),
         \A i \in 1 .. TopScope(S).blockStackIndex : U[i] = T[i]
  PROVE  Nested(S, U, base)
<1> DEFINE top == TopScope(S).blockStackIndex
<1>1. ASSUME NEW k \in 2 .. Len(S), ~S[k - 1].isPolymorphic
      PROVE  Records(U, S[k - 1], S[k])
  <2>1. Records(T, S[k - 1], S[k])  BY <1>1 DEF Nested
  <2>2. Len(S) \in Nat /\ k \in 1 .. Len(S) /\ k - 1 \in 1 .. Len(S)  OBVIOUS
  <2>3. S[k].blockStackIndex <= top  BY SMTT(40), <2>2, ScopeTyped DEF TopScope, Nested, Inside
  <2>4. /\ S[k].blockStackIndex \in Nat /\ S[k].exitStackIndex \in Nat
        /\ S[k].stackIndex \in Nat /\ S[k - 1].blockStackIndex \in Nat
        /\ top \in Nat
    <3>1. Len(S) \in 1 .. Len(S)  BY <2>2
    <3> QED BY <2>2, <3>1, ScopeTyped DEF TopScope
  <2>5. /\ Len(S[k - 1].types) \in Nat /\ Len(S[k].type.params) \in Nat
        /\ Len(S[k].type.rets) \in Nat
    BY SMTT(40), <2>2, ScopeTyped
  <2> DEFINE p == S[k - 1].blockStackIndex
             e == S[k].exitStackIndex
             s == S[k].stackIndex
             b == S[k].blockStackIndex
  <2>6. e = p + Len(S[k - 1].types) /\ s = e + Len(S[k].type.params)
        /\ b = s + Len(S[k].type.rets)
    BY <2>1 DEF Records
  <2>7. \A i \in 1 .. b : U[i] = T[i]  BY SMTT(40), <2>3, <2>4
  <2>11. p \in Nat /\ e \in Nat /\ s \in Nat /\ b \in Nat  BY <2>4
  <2>12. /\ HasTypes(T, p, S[k - 1].types) /\ HasTypes(T, e, S[k].type.params)
         /\ HasTypes(T, s, S[k].type.rets)
    BY <2>1 DEF Records
  <2>13. /\ \A j \in 1 .. Len(S[k - 1].types) : p + j \in 1 .. b
         /\ \A j \in 1 .. Len(S[k].type.params) : e + j \in 1 .. b
         /\ \A j \in 1 .. Len(S[k].type.rets) : s + j \in 1 .. b
    <3> HIDE DEF p, e, s, b
    <3> QED BY <2>11, <2>5, <2>6, Stacked
  <2> HIDE DEF p, e, s, b
  <2>8. HasTypes(U, p, S[k - 1].types)  BY <2>11, <2>13, <2>12, <2>7 DEF HasTypes
  <2>9. HasTypes(U, e, S[k].type.params)  BY <2>11, <2>13, <2>12, <2>7 DEF HasTypes
  <2>10. HasTypes(U, s, S[k].type.rets)  BY <2>11, <2>13, <2>12, <2>7 DEF HasTypes
  <2> USE DEF p, e, s, b
  <2> QED BY <2>1, <2>8, <2>9, <2>10 DEF Records
<1> QED BY <1>1 DEF Nested

LEMMA TopTyped ==
  ASSUME NEW S \in Seq(ScopeSet), S # <<>>
  PROVE  /\ Len(S) \in Nat /\ Len(S) >= 1 /\ Len(S) \in 1 .. Len(S)
         /\ TopScope(S) \in ScopeSet /\ TopScope(S).blockStackIndex \in Nat
         /\ TopScope(S).isPolymorphic \in BOOLEAN
<1> QED BY ScopeTyped DEF TopScope

LEMMA NearGood ==
  ASSUME NEW c, NEW d, NEW S, Good(c, S), ~c.error, IsState(d), Near(c, d, S)
  PROVE  Good(d, S) /\ Follows(c, d)
<1>1. Body(c, S)  BY DEF Good
<1>3. Sizes(d)
  <2>1. Sizes(c) /\ Same(c, d)  BY <1>1 DEF Body, Near
  <2>2. Len(c.f.type.rets) * ioSlotCount \in Nat
    BY SMTT(40), <2>1, Constants DEF Sizes, FuncTypes, ioSlotCount
  <2>3. Len(c.f.type.rets) * ioSlotCount <= d.maxStackSlots
        /\ d.slotFirstDynamicIndex <= d.maxStackSlots
    BY SMTT(40), <2>1, <2>2 DEF Sizes, Near, Same
  <2> QED BY <2>1, <2>3 DEF Sizes, Near, Same
<1>4. ArgsAndLocals(d)
  <2>1. c.stackFirstDynamicIndex <= Len(d.stack)
    <3>3. c.stackFirstDynamicIndex \in Nat /\ Len(d.stack) \in Nat
      BY <1>1 DEF Body, Sizes, Near
    <3> QED BY SMTT(40), <3>3, TopTyped, <1>1 DEF Near, TopScope, Body, Nested, BlocksHeld
  <2> QED BY <2>1, <1>1 DEF Body, ArgsAndLocals, Near, Same, SameLocals
<1>5. BlocksHeld(d, S) /\ RunsLive(d, S)  BY <1>1 DEF Body, BlocksHeld, RunsLive, Near, Same
<1>6. Nested(S, Types(d), d.stackFirstDynamicIndex)
  <2>1. S \in Seq(ScopeSet) /\ S # <<>> /\ Nested(S, Types(c), c.stackFirstDynamicIndex)
    BY <1>1 DEF Body, BlocksHeld, Nested
  <2>3. /\ d.stack \in Seq(Items) /\ c.stack \in Seq(Items)
        /\ TopScope(S).blockStackIndex <= Len(d.stack)
    BY <1>1 DEF Body, Near
  <2>4. /\ DOMAIN d.stack = 1 .. Len(d.stack) /\ DOMAIN c.stack = 1 .. Len(c.stack)
        /\ Len(Types(d)) = Len(d.stack) /\ Len(Types(c)) = Len(c.stack)
    BY <2>3 DEF Types
  <2>7. \A i \in 1 .. TopScope(S).blockStackIndex : Types(d)[i] = Types(c)[i]
    BY <2>3, <2>4, <2>1, TopTyped DEF Types, Near, Nested
  <2> QED BY <2>1, <2>3, <2>4, <2>7, NestedOn DEF Near, Same
<1> QED BY <1>3, <1>4, <1>5, <1>6 DEF Good, Body, Near, Follows
-----------------------------------------------------------------------------

(***************************************************************************)
(* Allocation.                                                             *)
(***************************************************************************)
LEMMA Quiet ==
  ASSUME NEW c, NEW d, NEW S, Good(c, S), IsState(d), d.error = c.error,
         ~c.error => /\ Same(c, d) /\ d.stack = c.stack
                     /\ d.maxStackSlots \in Nat /\ c.maxStackSlots <= d.maxStackSlots
                     /\ d.slotMaxAllocatedIndexPlusOne \in 0 .. d.maxStackSlots
                     /\ d.slotMaxConstIndex = c.slotMaxConstIndex
                     /\ NoLocalInRegister(d) /\ WritesHeld(d)
  PROVE  Calm(c, d, S)
<1>1. CASE c.error  BY <1>1 DEF Calm, Good, Follows
<1>2. CASE ~c.error
  <2>1. Body(c, S)  BY <1>2 DEF Good
  <2>2. SameLocals(c, d)  BY <1>2 DEF SameLocals
  <2>3. ItemsHeld(d, S)
    <3> SUFFICES ASSUME NEW i \in DOMAIN c.stack, LiveItem(S, i)
                 PROVE  ItemHeld(d, c.stack[i])
      BY <1>2 DEF ItemsHeld
    <3> QED BY <2>2, <1>2, HeldOn, <2>1 DEF Body, ItemsHeld, Sizes
  <2>5. Near(c, d, S)  BY SMTT(40), <1>2, <2>2, <2>3, <2>1 DEF Near, Body, Nested, Types, Sizes
  <2> QED BY <1>2, <2>5, NearGood DEF Calm
<1> QED BY <1>1, <1>2

LEMMA Bodies ==
  ASSUME NEW c, NEW S, Good(c, S), ~c.error
  PROVE  Body(c, S) /\ Sizes(c) /\ c.stack \in Seq(Items) /\ ArgsAndLocals(c)
         /\ NoLocalInRegister(c) /\ WritesHeld(c) /\ ItemsHeld(c, S)
         /\ RunsLive(c, S) /\ BlocksHeld(c, S) /\ S \in Seq(ScopeSet) /\ S # <<>>
         /\ Nested(S, Types(c), c.stackFirstDynamicIndex)
BY DEF Good, Body, BlocksHeld, Nested

LEMMA ItemTyped ==
  ASSUME NEW stack \in Seq(Items), NEW i \in DOMAIN stack
  PROVE  /\ stack[i] \in Items /\ stack[i].slot \in Nat
         /\ stack[i].type \in ValueTypes \union {"none"}
         /\ GetTypeNumSlots(stack[i].type) \in {1, 2}
         /\ stack[i] = [slot |-> stack[i].slot, type |-> stack[i].type]
         /\ DOMAIN stack[i] = {"slot", "type"}
<1>1. stack[i] \in Items  OBVIOUS
<1> QED BY <1>1, Widths DEF Items

LEMMA Found ==
  ASSUME NEW c, NEW type, NEW start \in Nat, NEW end \in Int
  PROVE  LET s == FindSlotsWithinRange(c, type, start, end)
         IN s = SlotUnused \/ (s \in Nat /\ start <= s /\ s + GetTypeNumSlots(type) <= end)
<1> DEFINE w == GetTypeNumSlots(type)
           first == AlignSlotToType(start, type)
           fits == { s \in first .. end - w :
                        /\ AlignSlotToType(s, type) = s
                        /\ \A t \in SlotsOf(s, type) : c.m3Slots[t] = 0 }
<1>1. w \in {1, 2} /\ first \in Nat /\ start <= first  BY Widths
<1>2. CASE fits = {}  BY <1>2 DEF FindSlotsWithinRange
<1>3. CASE fits # {}
  <2>1. FindSlotsWithinRange(c, type, start, end) = Min(fits)  BY <1>3 DEF FindSlotsWithinRange
  <2>2. fits \subseteq first .. end - w  OBVIOUS
  <2> HIDE DEF fits, first, w
  <2>4. Min(fits) \in fits  BY <1>3, MinIn, <1>1, <2>2
  <2>5. Min(fits) \in first .. end - w  BY <2>2, <2>4
  <2> QED BY <2>1, <2>5, <1>1 DEF w
<1> QED BY <1>2, <1>3

LEMMA FoundFree ==
  ASSUME NEW c, NEW type, c.slotFirstDynamicIndex \in Nat
  PROVE  \/ FindSlots(c, type) = SlotUnused
         \/ /\ FindSlots(c, type) \in Nat
            /\ c.slotFirstDynamicIndex <= FindSlots(c, type)
            /\ FindSlots(c, type) + GetTypeNumSlots(type) <= MaxSlots
            /\ FindSlots(c, type) # SlotUnused
<1> QED BY Found, Constants, Widths DEF FindSlots

LEMMA Marked ==
  ASSUME NEW c, NEW S, Good(c, S), NEW slot \in Nat, NEW type
  PROVE  LET d == MarkSlotsAllocatedByType(c, slot, type)
         IN /\ Calm(c, d, S)
            /\ ~c.error => slot + GetTypeNumSlots(type) <= d.maxStackSlots
            /\ d.slotMaxConstIndex = c.slotMaxConstIndex
            /\ d.regStackIndexPlusOne = c.regStackIndexPlusOne
            /\ d.locals = c.locals
<1> DEFINE d == MarkSlotsAllocatedByType(c, slot, type)
           w == GetTypeNumSlots(type)
<1>1. CASE c.error  BY <1>1, KeepsSelf DEF MarkSlotsAllocatedByType
<1>2. CASE ~c.error
  <2>1. Body(c, S) /\ IsState(c)  BY <1>2 DEF Good
  <2>2. w \in {1, 2} /\ c.maxStackSlots \in Nat
        /\ c.slotMaxAllocatedIndexPlusOne \in 0 .. c.maxStackSlots
    BY SMTT(40), <2>1, Widths DEF Body, Sizes
  <2>3. /\ IsState(d) /\ d.error = c.error /\ Same(c, d) /\ d.stack = c.stack
        /\ d.maxStackSlots = Max({c.maxStackSlots, slot + w - 1 + 1})
        /\ d.slotMaxAllocatedIndexPlusOne = Max({c.slotMaxAllocatedIndexPlusOne, slot + w})
        /\ d.slotMaxConstIndex = c.slotMaxConstIndex /\ d.written = c.written
        /\ d.regStackIndexPlusOne = c.regStackIndexPlusOne /\ d.locals = c.locals
    BY <1>2, <2>1 DEF MarkSlotsAllocatedByType, Assert_, TouchSlot, IsState, Fields, Same
  <2>4. /\ d.maxStackSlots \in Nat /\ c.maxStackSlots <= d.maxStackSlots
        /\ slot + w <= d.maxStackSlots
        /\ d.slotMaxAllocatedIndexPlusOne \in 0 .. d.maxStackSlots
    <3>1. slot + w - 1 + 1 = slot + w /\ slot + w \in Nat  BY <2>2
    <3> HIDE DEF d, w
    <3> QED BY <2>2, <2>3, <3>1, MaxOfTwo
  <2>5. NoLocalInRegister(d) /\ WritesHeld(d)
    <3> HIDE DEF d
    <3>1. NoLocalInRegister(d)  BY <2>3, <2>1 DEF NoLocalInRegister, Same, Body
    <3> QED BY <2>2, <2>3, <2>4, <2>1, <3>1, WritesHeldOn DEF Body
  <2> HIDE DEF d
  <2> QED BY <2>3, <2>4, <2>5, Quiet DEF d
<1> QED BY <1>1, <1>2

LEMMA FreshHeld ==
  ASSUME NEW c, NEW S, Good(c, S), ~c.error, NEW slot \in Nat, NEW type,
         \/ slot \in Registers
         \/ c.slotFirstConstIndex <= slot /\ slot + GetTypeNumSlots(type) <= c.maxStackSlots
  PROVE  ItemHeld(c, [slot |-> slot, type |-> type])
<1>1. Sizes(c) /\ ArgsAndLocals(c) /\ c.stack \in Seq(Items)  BY Bodies
<1>3. ASSUME NEW l \in 1 .. c.stackFirstDynamicIndex PROVE slot # c.stack[l].slot
  <2>2. c.stack[l].slot \in Nat /\ GetTypeNumSlots(c.stack[l].type) \in {1, 2}
    BY SMTT(40), <1>1, ItemTyped DEF ArgsAndLocals, Sizes
  <2>3. c.stack[l].slot < c.slotFirstConstIndex /\ c.stack[l].slot < MaxSlots
    <3> DEFINE at == c.stack[l].slot
               w == GetTypeNumSlots(c.stack[l].type)
    <3>1. at + w <= c.slotFirstConstIndex /\ at + w <= MaxSlots  BY <1>1 DEF ArgsAndLocals
    <3>2. c.slotFirstConstIndex \in Nat /\ MaxSlots \in Nat  BY <1>1, Constants DEF Sizes
    <3>3. at \in Nat /\ w \in {1, 2}  BY <2>2
    <3> HIDE DEF at, w
    <3>4. at < c.slotFirstConstIndex /\ at < MaxSlots  BY <3>1, <3>2, <3>3
    <3> QED BY <3>4 DEF at
  <2> QED BY SMTT(40), <1>1, <2>2, <2>3, Constants DEF Sizes, Registers
<1> QED BY <1>3 DEF ItemHeld, InFrame, IsRegisterSlotAlias, Registers

LEMMA Allocated ==
  ASSUME NEW c, NEW S, Good(c, S), NEW type
  PROVE  LET d == AllocateSlots(c, type)
             s == FindSlots(c, type)
         IN /\ Keeps(c, d, S)
            /\ ~d.error => /\ ~c.error /\ Calm(c, d, S)
                           /\ s \in Nat /\ s # SlotUnused
                           /\ c.slotFirstDynamicIndex <= s
                           /\ s + GetTypeNumSlots(type) <= MaxSlots
                           /\ s + GetTypeNumSlots(type) <= d.maxStackSlots
                           /\ d.regStackIndexPlusOne = c.regStackIndexPlusOne
                           /\ ItemHeld(d, [slot |-> s, type |-> type])
<1> DEFINE d == AllocateSlots(c, type)
           s == FindSlots(c, type)
<1>1. CASE c.error \/ s = SlotUnused  BY <1>1, Fails DEF AllocateSlots, Good
<1>2. CASE ~c.error /\ s # SlotUnused
  <2>1. c.slotFirstDynamicIndex \in Nat /\ c.slotFirstConstIndex \in Nat
        /\ c.slotFirstConstIndex <= c.slotFirstDynamicIndex
    BY <1>2, Bodies DEF Sizes
  <2>2. /\ s \in Nat /\ c.slotFirstDynamicIndex <= s
        /\ s + GetTypeNumSlots(type) <= MaxSlots
    BY <1>2, <2>1, FoundFree
  <2>4. /\ Calm(c, d, S) /\ s + GetTypeNumSlots(type) <= d.maxStackSlots
        /\ d.regStackIndexPlusOne = c.regStackIndexPlusOne
    BY <1>2, <2>2, Marked DEF AllocateSlots
  <2>7. ItemHeld(d, [slot |-> s, type |-> type])
    <3> HIDE DEF d, s
    <3> QED BY <2>2, <2>4, FreshHeld, <2>1, <1>2 DEF Calm, Follows, Same
  <2> QED BY <1>2, <2>2, <2>4, <2>7, CalmKeeps
<1> QED BY <1>1, <1>2

LEMMA Deallocated ==
  ASSUME NEW c, NEW S, Good(c, S), NEW slot, NEW type
  PROVE  Calm(c, DeallocateSlot(c, slot, type), S)
<1> DEFINE d == DeallocateSlot(c, slot, type)
<1>1. /\ IsState(d) /\ d.error = c.error /\ Same(c, d) /\ d.stack = c.stack
      /\ d.maxStackSlots = c.maxStackSlots
      /\ d.slotMaxAllocatedIndexPlusOne = c.slotMaxAllocatedIndexPlusOne
      /\ d.slotMaxConstIndex = c.slotMaxConstIndex /\ d.written = c.written
      /\ d.regStackIndexPlusOne = c.regStackIndexPlusOne
  BY DEF DeallocateSlot, Assert_, Good, IsState, Fields, Same
<1> HIDE DEF d
<1>4. Calm(c, d, S)  BY SMTT(40), <1>1, Quiet, Bodies DEF Sizes, NoLocalInRegister, WritesHeld, Same
<1> QED BY <1>4 DEF d

LEMMA Increments ==
  ASSUME NEW c, NEW S, Good(c, S), NEW slot, NEW n
  PROVE  LET d == IncrementSlotUsageCount(c, slot, n)
         IN Keeps(c, d, S) /\ (~d.error => Calm(c, d, S))
<1> DEFINE d == IncrementSlotUsageCount(c, slot, n)
<1>1. CASE c.error \/ c.m3Slots[slot] + n > 255
  BY <1>1, Fails DEF IncrementSlotUsageCount, Good
<1>2. CASE ~(c.error \/ c.m3Slots[slot] + n > 255)
  <2>1. /\ IsState(d) /\ d.error = c.error /\ Same(c, d) /\ d.stack = c.stack
        /\ d.maxStackSlots = c.maxStackSlots
        /\ d.slotMaxAllocatedIndexPlusOne = c.slotMaxAllocatedIndexPlusOne
        /\ d.slotMaxConstIndex = c.slotMaxConstIndex /\ d.written = c.written
        /\ d.regStackIndexPlusOne = c.regStackIndexPlusOne
    BY <1>2 DEF IncrementSlotUsageCount, Assert_, Good, IsState, Fields, Same
  <2> HIDE DEF d
  <2>4. Calm(c, d, S)
    BY SMTT(40), <2>1, Quiet, <1>2, Bodies DEF Sizes, NoLocalInRegister, WritesHeld, Same
  <2> QED BY <2>4, CalmKeeps DEF d
<1> QED BY <1>1, <1>2

LEMMA Registered ==
  ASSUME NEW c, NEW S, Good(c, S), NEW reg, NEW i \in Nat,
         ~c.error => i \notin 1 .. c.stackFirstDynamicIndex
  PROVE  Calm(c, AllocateRegister(c, reg, i), S)
<1> DEFINE d == AllocateRegister(c, reg, i)
<1>1. /\ IsState(d) /\ d.error = c.error /\ Same(c, d) /\ d.stack = c.stack
      /\ d.maxStackSlots = c.maxStackSlots
      /\ d.slotMaxAllocatedIndexPlusOne = c.slotMaxAllocatedIndexPlusOne
      /\ d.slotMaxConstIndex = c.slotMaxConstIndex /\ d.written = c.written
      /\ d.regStackIndexPlusOne = [c.regStackIndexPlusOne EXCEPT ![reg] = i]
  BY DEF AllocateRegister, Assert_, Good, IsState, Fields, Same
<1>2. ~c.error => Sizes(c) /\ NoLocalInRegister(c) /\ WritesHeld(c) /\ BlocksHeld(c, S)
  BY Bodies
<1> HIDE DEF d
<1>4. ASSUME ~c.error PROVE NoLocalInRegister(d)
  <2> SUFFICES ASSUME NEW r \in Registers
               PROVE  d.regStackIndexPlusOne[r] \in Nat \ (1 .. c.stackFirstDynamicIndex)
    BY <1>1 DEF NoLocalInRegister, Same
  <2> QED BY <1>1, <1>4, <1>2 DEF NoLocalInRegister
<1> QED BY SMTT(40), <1>1, <1>2, <1>4, Quiet DEF d, Sizes, WritesHeld

LEMMA Released ==
  ASSUME NEW c, NEW S, Good(c, S), NEW reg
  PROVE  Calm(c, DeallocateRegister(c, reg), S)
         /\ FindSlots(DeallocateRegister(c, reg), "i32") = FindSlots(c, "i32")
         /\ \A type : FindSlots(DeallocateRegister(c, reg), type) = FindSlots(c, type)
<1> DEFINE d == DeallocateRegister(c, reg)
<1>1. /\ IsState(d) /\ d.error = c.error /\ Same(c, d) /\ d.stack = c.stack
      /\ d.maxStackSlots = c.maxStackSlots
      /\ d.slotMaxAllocatedIndexPlusOne = c.slotMaxAllocatedIndexPlusOne
      /\ d.slotMaxConstIndex = c.slotMaxConstIndex /\ d.written = c.written
      /\ d.regStackIndexPlusOne = [c.regStackIndexPlusOne EXCEPT ![reg] = 0]
      /\ d.m3Slots = c.m3Slots
  BY DEF DeallocateRegister, Assert_, Good, IsState, Fields, Same
<1>2. ~c.error => Sizes(c) /\ NoLocalInRegister(c) /\ WritesHeld(c) /\ BlocksHeld(c, S)
  BY Bodies
<1> HIDE DEF d
<1>4. ASSUME ~c.error PROVE NoLocalInRegister(d)
  <2> SUFFICES ASSUME NEW r \in Registers
               PROVE  d.regStackIndexPlusOne[r] \in Nat \ (1 .. c.stackFirstDynamicIndex)
    BY <1>1 DEF NoLocalInRegister, Same
  <2> QED BY <1>1, <1>4, <1>2 DEF NoLocalInRegister
<1>5. Calm(c, d, S)  BY SMTT(40), <1>1, <1>2, <1>4, Quiet DEF Sizes, WritesHeld
<1> QED BY <1>5, <1>1 DEF d, FindSlots, FindSlotsWithinRange, Same

LEMMA Written ==
  ASSUME NEW c, NEW S, Good(c, S), NEW loc, NEW type, NEW v,
         ~c.error /\ c.running =>
            loc \in Nat /\ InFrame(loc, type, c.maxStackSlots)
  PROVE  Calm(c, Put(c, loc, type, v), S)
<1> DEFINE d == Put(c, loc, type, v)
<1>1. CASE c.error \/ ~c.running  BY <1>1, KeepsSelf DEF Put
<1>2. CASE ~c.error /\ c.running
  <2>1. /\ IsState(d) /\ d.error = c.error /\ Same(c, d) /\ d.stack = c.stack
        /\ d.maxStackSlots = c.maxStackSlots
        /\ d.slotMaxAllocatedIndexPlusOne = c.slotMaxAllocatedIndexPlusOne
        /\ d.slotMaxConstIndex = c.slotMaxConstIndex
        /\ d.regStackIndexPlusOne = c.regStackIndexPlusOne
    BY <1>2 DEF Put, Good, IsState, Fields, Same
  <2>2. Sizes(c) /\ NoLocalInRegister(c) /\ WritesHeld(c)  BY <1>2, Bodies
  <2>3. WritesHeld(d)
    <3>1. CASE IsRegisterSlotAlias(loc)
      <4>1. d.written = c.written  BY <1>2, <3>1 DEF Put, Good, IsState, Fields
      <4> HIDE DEF d
      <4> QED BY <2>1, <2>2, <4>1 DEF WritesHeld
    <3>2. CASE ~IsRegisterSlotAlias(loc)
      <4>1. d.written = c.written \union Writes(SlotsOf(loc, type), FALSE)
        BY <1>2, <3>2 DEF Put, Good, IsState, Fields
      <4>3. \A s \in SlotsOf(loc, type) : s \in Int /\ s < c.maxStackSlots
        BY SMTT(40), <1>2, <2>2, <3>2, Widths DEF SlotsOf, InFrame, Sizes
      <4>4. \A w \in Writes(SlotsOf(loc, type), FALSE) :
               w.slot \in Int /\ InRoom(w, c.maxStackSlots)
        BY <4>3, WritesIn
      <4> HIDE DEF d
      <4> QED BY <2>1, <2>2, <4>1, <4>4 DEF WritesHeld
    <3> QED BY <3>1, <3>2
  <2> HIDE DEF d
  <2>4. NoLocalInRegister(d)  BY <2>1, <2>2 DEF NoLocalInRegister, Same
  <2> QED BY <1>2, <2>1, <2>2, <2>3, <2>4, Quiet DEF d, Sizes
<1> QED BY <1>1, <1>2

LEMMA Reads ==
  ASSUME NEW c, NEW S, Good(c, S), NEW m
  PROVE  Calm(c, [c EXCEPT !.misread = m], S)
<1> DEFINE d == [c EXCEPT !.misread = m]
<1>1. /\ IsState(d) /\ d.error = c.error /\ Same(c, d) /\ d.stack = c.stack
      /\ d.maxStackSlots = c.maxStackSlots
      /\ d.slotMaxAllocatedIndexPlusOne = c.slotMaxAllocatedIndexPlusOne
      /\ d.slotMaxConstIndex = c.slotMaxConstIndex /\ d.written = c.written
      /\ d.regStackIndexPlusOne = c.regStackIndexPlusOne
  BY DEF Good, IsState, Fields, Same
<1> HIDE DEF d
<1>4. Calm(c, d, S)  BY <1>1, Quiet, Bodies DEF Sizes, NoLocalInRegister, WritesHeld, Same
<1> QED BY <1>4 DEF d

LEMMA ReadCalm ==
  ASSUME NEW c, NEW S, Good(c, S)
  PROVE  /\ \A loc, type, v : Calm(c, Read(c, loc, type, v), S)
         /\ \A i, type : Calm(c, ReadOperand(c, i, type), S)
         /\ \A ts : Calm(c, ReadOperands(c, ts), S)
<1>1. ASSUME NEW loc, NEW type, NEW v PROVE Calm(c, Read(c, loc, type, v), S)
  BY Reads, KeepsSelf DEF Read
<1>2. ASSUME NEW ts PROVE Calm(c, ReadOperands(c, ts), S)
  BY Reads, KeepsSelf DEF ReadOperands
<1> QED BY <1>1, <1>2 DEF ReadOperand
-----------------------------------------------------------------------------

(***************************************************************************)
(* The stack: push and pop.                                                *)
(***************************************************************************)
LEMMA TypesSeq ==
  ASSUME NEW c, c.stack \in Seq(Items)
  PROVE  /\ Types(c) \in Seq(ValueTypes \union {"none"})
         /\ Len(Types(c)) = Len(c.stack) /\ Len(c.stack) \in Nat
         /\ DOMAIN Types(c) = 1 .. Len(c.stack) /\ DOMAIN c.stack = 1 .. Len(c.stack)
         /\ Height(c) = Len(c.stack)
         /\ \A i \in 1 .. Len(c.stack) : Types(c)[i] = c.stack[i].type
<1> QED BY SMTT(40), ItemTyped DEF Types, Height

LEMMA TypesAppend ==
  ASSUME NEW c, NEW d, NEW it \in Items, c.stack \in Seq(Items),
         d.stack = Append(c.stack, it)
  PROVE  Types(d) = Append(Types(c), it.type) /\ d.stack \in Seq(Items)
         /\ Len(d.stack) = Len(c.stack) + 1
<1>1. d.stack \in Seq(Items) /\ Len(d.stack) = Len(c.stack) + 1  OBVIOUS
<1> DEFINE T == Append(Types(c), it.type)
<1>2. /\ Types(c) \in Seq({Types(c)[i] : i \in 1 .. Len(c.stack)} \union {it.type})
      /\ Len(Types(c)) = Len(c.stack) /\ Len(c.stack) \in Nat
      /\ DOMAIN c.stack = 1 .. Len(c.stack)
      /\ \A i \in 1 .. Len(c.stack) : Types(c)[i] = c.stack[i].type
  <2>1. Types(c) = [i \in 1 .. Len(c.stack) |-> c.stack[i].type]  BY DEF Types
  <2> QED BY SMTT(40), <2>1, TypesSeq
<1>3. /\ DOMAIN T = 1 .. Len(c.stack) + 1
      /\ \A i \in 1 .. Len(c.stack) : T[i] = c.stack[i].type
      /\ T[Len(c.stack) + 1] = it.type
  BY <1>2
<1>4. /\ DOMAIN d.stack = 1 .. Len(c.stack) + 1
      /\ \A i \in 1 .. Len(c.stack) : d.stack[i] = c.stack[i]
      /\ d.stack[Len(c.stack) + 1] = it
  BY <1>1, <1>2
<1>5. ASSUME NEW i \in 1 .. Len(c.stack) + 1 PROVE T[i] = d.stack[i].type
  BY <1>2, <1>3, <1>4
<1>6. T = [i \in 1 .. Len(c.stack) + 1 |-> T[i]]
  <2>1. \E X : T \in Seq(X)
    <3>1. PICK X : Types(c) \in Seq(X) /\ it.type \in X  BY <1>2
    <3> QED BY <3>1
  <2>2. Len(T) = Len(c.stack) + 1  BY <1>2
  <2> HIDE DEF T
  <2> QED BY <2>1, <2>2
<1> HIDE DEF T
<1> QED BY <1>1, <1>4, <1>5, <1>6 DEF Types, T

LEMMA TopBelow ==
  ASSUME NEW c, NEW S, Good(c, S), ~c.error
  PROVE  /\ TopScope(S).blockStackIndex \in Nat
         /\ TopScope(S).blockStackIndex <= Len(c.stack)
         /\ c.stackFirstDynamicIndex \in Nat
         /\ c.stackFirstDynamicIndex <= TopScope(S).blockStackIndex
         /\ TopScope(S).isPolymorphic \in BOOLEAN
<1> QED BY TypesSeq, TopTyped, Bodies DEF Nested, TopScope, Sizes

\* A stack that is as it was as far as the innermost scope goes.
LEMMA Restacked ==
  ASSUME NEW c, NEW d, NEW S, Good(c, S), ~c.error, IsState(d), ~d.error, Same(c, d),
         d.maxStackSlots = c.maxStackSlots,
         d.slotMaxAllocatedIndexPlusOne = c.slotMaxAllocatedIndexPlusOne,
         d.slotMaxConstIndex = c.slotMaxConstIndex,
         d.regStackIndexPlusOne = c.regStackIndexPlusOne, d.written = c.written,
         d.stack \in Seq(Items), TopScope(S).blockStackIndex <= Len(d.stack),
         \A i \in 1 .. TopScope(S).blockStackIndex : d.stack[i] = c.stack[i],
         \A i \in DOMAIN d.stack :
            LiveItem(S, i) => \/ i \in DOMAIN c.stack /\ d.stack[i] = c.stack[i]
                              \/ ItemHeld(c, d.stack[i])
  PROVE  Good(d, S) /\ Follows(c, d)
<1>1. Sizes(c) /\ NoLocalInRegister(c) /\ WritesHeld(c) /\ ItemsHeld(c, S)  BY Bodies
<1>2. NoLocalInRegister(d) /\ WritesHeld(d)  BY <1>1 DEF NoLocalInRegister, WritesHeld, Same
<1>3. SameLocals(c, d)  BY TopBelow DEF SameLocals
<1>4. ItemsHeld(d, S)
  <2> SUFFICES ASSUME NEW i \in DOMAIN d.stack, LiveItem(S, i)
               PROVE  ItemHeld(d, d.stack[i])
    BY DEF ItemsHeld
  <2> QED BY <1>1, <1>3, HeldOn DEF Sizes, ItemsHeld
<1> QED BY SMTT(40), NearGood, <1>1, <1>2, <1>3, <1>4 DEF Near, Sizes

LEMMA Pushed ==
  ASSUME NEW c, NEW S, Good(c, S), NEW type \in ValueTypes \union {"none"},
         NEW slot \in Nat,
         ~c.error /\ ~TopScope(S).isPolymorphic =>
            ItemHeld(c, [slot |-> slot, type |-> type])
  PROVE  LET d == Push(c, type, slot)
         IN /\ Pushes(c, d, type, S)
            /\ ~d.error => d.stack = Append(c.stack, [slot |-> slot, type |-> type])
<1> DEFINE d == Push(c, type, slot)
           it == [slot |-> slot, type |-> type]
           m == [c EXCEPT !.stack = Append(@, it)]
<1>1. CASE c.error \/ Height(c) >= MaxHeight  BY <1>1, Fails DEF Push, Good, Pushes, Follows
<1>2. CASE ~(c.error \/ Height(c) >= MaxHeight)
  <2>1. /\ IsState(m) /\ ~m.error /\ Same(c, m) /\ m.stack = Append(c.stack, it)
        /\ m.maxStackSlots = c.maxStackSlots
        /\ m.slotMaxAllocatedIndexPlusOne = c.slotMaxAllocatedIndexPlusOne
        /\ m.slotMaxConstIndex = c.slotMaxConstIndex /\ m.written = c.written
        /\ m.regStackIndexPlusOne = c.regStackIndexPlusOne
    BY <1>2 DEF Good, IsState, Fields, Same
  <2>2. c.stack \in Seq(Items) /\ it \in Items  BY <1>2, Bodies DEF Items
  <2>3. d = IF IsRegisterSlotAlias(slot) THEN AllocateRegister(m, slot, Height(m)) ELSE m
    BY <1>2 DEF Push
  <2> HIDE DEF m
  <2>4. /\ m.stack \in Seq(Items) /\ Len(m.stack) = Len(c.stack) + 1
        /\ Types(m) = Append(Types(c), it.type)
    <3> HIDE DEF it
    <3> QED BY <2>1, <2>2, TypesAppend
  <2>5. /\ TopScope(S).blockStackIndex \in Nat
        /\ TopScope(S).blockStackIndex <= Len(c.stack)
        /\ c.stackFirstDynamicIndex \in Nat
        /\ c.stackFirstDynamicIndex <= TopScope(S).blockStackIndex
    BY <1>2, TopBelow
  <2>6. /\ DOMAIN c.stack = 1 .. Len(c.stack) /\ Len(c.stack) \in Nat
        /\ DOMAIN m.stack = 1 .. Len(c.stack) + 1
        /\ \A i \in 1 .. Len(c.stack) : m.stack[i] = c.stack[i]
        /\ m.stack[Len(c.stack) + 1] = it
    <3> HIDE DEF it
    <3> QED BY <2>1, <2>2
  <2>7. ASSUME NEW i \in DOMAIN m.stack, LiveItem(S, i)
        PROVE  \/ i \in DOMAIN c.stack /\ m.stack[i] = c.stack[i]
               \/ ItemHeld(c, m.stack[i])
    BY SMTT(40), <2>6, <1>2, Bodies, <2>5, <2>7 DEF LiveItem, TopScope
  <2>8. Good(m, S) /\ Follows(c, m)
    <3>1. \A i \in 1 .. TopScope(S).blockStackIndex : m.stack[i] = c.stack[i]  BY <2>5, <2>6
    <3>2. TopScope(S).blockStackIndex <= Len(m.stack)  BY <2>4, <2>5, <2>6
    <3> QED BY <1>2, <2>1, <2>4, <2>7, <3>1, <3>2, Restacked
  <2>9. Height(m) \in Nat /\ Height(m) \notin 1 .. m.stackFirstDynamicIndex
    <3>1. Height(m) = Len(c.stack) + 1  BY <2>4, TypesSeq
    <3> QED BY <3>1, <2>1, <2>5, <2>6 DEF Same
  <2>10. Calm(m, d, S)  BY <2>3, <2>8, <2>9, Registered, KeepsSelf
  <2> HIDE DEF d
  <2>12. d.stack = m.stack  BY <2>1, <2>10 DEF Calm
  <2>13. Types(d) = Append(Types(c), type)  BY <2>4, <2>12 DEF Types
  <2> QED BY <2>1, <2>10, <2>12, <2>13, <2>8, FollowsTrans DEF Pushes, Calm, d
<1> QED BY <1>1, <1>2

\* An item of the innermost scope is the only one that goes.
LEMMA BlockTop ==
  ASSUME NEW c, Good(c, Scopes(c)), ~c.error
  PROVE  /\ Len(c.block) = Len(Scopes(c)) /\ Len(c.block) \in Nat /\ Len(c.block) >= 1
         /\ DOMAIN c.block = 1 .. Len(c.block)
         /\ \A k \in 1 .. Len(c.block) : Scopes(c)[k] = ScopeOf(c.block[k])
         /\ TopScope(Scopes(c)) = ScopeOf(Block(c))
         /\ Block(c) = c.block[Len(c.block)] /\ DOMAIN Block(c) = ScopeFields
         /\ IsStackPolymorphic(c) = TopScope(Scopes(c)).isPolymorphic
         /\ Block(c).blockStackIndex = TopScope(Scopes(c)).blockStackIndex
         /\ Block(c).types = TopScope(Scopes(c)).types
         /\ Block(c).opcode = TopScope(Scopes(c)).opcode
         /\ Block(c).type = TopScope(Scopes(c)).type
         /\ Block(c).dead = TopScope(Scopes(c)).dead
<1>1. PICK B : c.block \in Seq(B)  BY Bodies DEF BlocksHeld
<1>2. c.block # <<>> /\ \A k \in DOMAIN c.block : DOMAIN c.block[k] = ScopeFields
  BY Bodies DEF BlocksHeld
<1>3. /\ Len(c.block) \in Nat /\ Len(c.block) >= 1 /\ DOMAIN c.block = 1 .. Len(c.block)
  BY <1>1, <1>2
<1>4. Scopes(c) = [k \in 1 .. Len(c.block) |-> ScopeOf(c.block[k])]  BY <1>3 DEF Scopes
<1>5. Len(Scopes(c)) = Len(c.block)  BY <1>3, <1>4
<1>6. Len(c.block) \in 1 .. Len(c.block)  BY <1>3
<1>7. TopScope(Scopes(c)) = ScopeOf(Block(c)) /\ Block(c) = c.block[Len(c.block)]
  BY <1>4, <1>5, <1>6 DEF TopScope, Block, Last
<1> QED BY SMTT(40), <1>2, <1>3, <1>4, <1>5, <1>6, <1>7 DEF ScopeOf, IsStackPolymorphic

LEMMA Popped ==
  ASSUME NEW c, NEW S, S = Scopes(c), Good(c, S)
  PROVE  LET d == Pop(c)
         IN /\ Good(d, S) /\ Follows(c, d)
            /\ ~d.error =>
                  \/ /\ Len(c.stack) > TopScope(S).blockStackIndex
                     /\ d.stack = SubSeq(c.stack, 1, Len(c.stack) - 1)
                  \/ /\ Len(c.stack) = TopScope(S).blockStackIndex
                     /\ TopScope(S).isPolymorphic /\ d.stack = c.stack
<1> DEFINE d == Pop(c)
           n == Len(c.stack)
           m == [c EXCEPT !.stack = Front(@)]
           top == Last(c.stack)
<1>1. CASE c.error  BY <1>1, KeepsSelf DEF Pop, Keeps
<1> SUFFICES ASSUME ~c.error
             PROVE  /\ Good(d, S) /\ Follows(c, d)
                    /\ ~d.error =>
                          \/ n > TopScope(S).blockStackIndex
                               /\ d.stack = SubSeq(c.stack, 1, n - 1)
                          \/ n = TopScope(S).blockStackIndex
                               /\ TopScope(S).isPolymorphic /\ d.stack = c.stack
  BY <1>1
<1>2. /\ TopScope(S).blockStackIndex \in Nat /\ TopScope(S).blockStackIndex <= n
      /\ c.stack \in Seq(Items) /\ n \in Nat /\ Height(c) = n
      /\ TopScope(S).isPolymorphic \in BOOLEAN
  BY TopBelow, Bodies DEF Height
<1>3. /\ Block(c).blockStackIndex = TopScope(S).blockStackIndex
      /\ IsStackPolymorphic(c) = TopScope(S).isPolymorphic
  BY BlockTop
<1>4. CASE ~(n > TopScope(S).blockStackIndex)
  <2>2. n = TopScope(S).blockStackIndex  BY <1>2, <1>4
  <2> QED BY SMTT(40), <2>2, <1>3, KeepsSelf, Fails, <1>2, <1>4 DEF Keeps, Good, Pop
<1>5. CASE n > TopScope(S).blockStackIndex
  <2>1. /\ IsState(m) /\ ~m.error /\ Same(c, m) /\ m.stack = SubSeq(c.stack, 1, n - 1)
        /\ m.maxStackSlots = c.maxStackSlots
        /\ m.slotMaxAllocatedIndexPlusOne = c.slotMaxAllocatedIndexPlusOne
        /\ m.slotMaxConstIndex = c.slotMaxConstIndex /\ m.written = c.written
        /\ m.regStackIndexPlusOne = c.regStackIndexPlusOne
    BY DEF Good, IsState, Fields, Same, Front
  <2>2. \/ d = DeallocateRegister(m, top.slot) \/ d = DeallocateSlot(m, top.slot, top.type)
        \/ d = m
    BY <1>2, <1>3, <1>5 DEF Pop
  <2> HIDE DEF m, d, top
  <2>3. /\ m.stack \in Seq(Items) /\ Len(m.stack) = n - 1
        /\ \A i \in 1 .. n - 1 : m.stack[i] = c.stack[i]
        /\ DOMAIN m.stack = 1 .. n - 1 /\ DOMAIN c.stack = 1 .. n
    BY <1>2, <1>5, <2>1
  <2>4. Good(m, S) /\ Follows(c, m)
    <3>1. \A i \in 1 .. TopScope(S).blockStackIndex : m.stack[i] = c.stack[i]
      BY <1>2, <1>5, <2>3
    <3> HIDE DEF n
    <3> QED BY SMTT(40), <2>1, <2>3, <3>1, Restacked, <1>2, <1>5
  <2> QED BY <1>5, <2>1, <2>4, FollowsTrans, <2>2, Released, Deallocated, KeepsSelf DEF Calm
<1> QED BY <1>4, <1>5

LEMMA PoppedType ==
  ASSUME NEW c, NEW S, S = Scopes(c), Good(c, S), NEW type
  PROVE  LET d == PopType(c, type)
         IN /\ Good(d, S) /\ Follows(c, d)
            /\ ~d.error =>
                  \/ /\ Len(c.stack) > TopScope(S).blockStackIndex
                     /\ d.stack = SubSeq(c.stack, 1, Len(c.stack) - 1)
                  \/ /\ Len(c.stack) = TopScope(S).blockStackIndex
                     /\ TopScope(S).isPolymorphic /\ d.stack = c.stack
<1>1. CASE GetStackTopType(c) = type \/ IsStackPolymorphic(c)  BY <1>1, Popped DEF PopType
<1>2. CASE ~(GetStackTopType(c) = type \/ IsStackPolymorphic(c))
  BY <1>2, Fails DEF PopType, Good, Keeps
<1> QED BY <1>1, <1>2

LEMMA DropsNone ==
  ASSUME NEW c, NEW S, Good(c, S)
  PROVE  Drops(c, c, 0, S)
<1>1. CASE c.error  BY <1>1, KeepsSelf DEF Drops, Keeps
<1>2. CASE ~c.error  BY <1>2, Bodies, TopBelow, KeepsSelf DEF Drops, Keeps
<1> QED BY <1>1, <1>2

LEMMA DropsOne ==
  ASSUME NEW c, NEW d, NEW e, NEW S, NEW n \in Nat, Good(c, S),
         Drops(c, d, n, S), Good(e, S), Follows(d, e),
         ~e.error => \/ /\ Len(d.stack) > TopScope(S).blockStackIndex
                        /\ e.stack = SubSeq(d.stack, 1, Len(d.stack) - 1)
                     \/ /\ Len(d.stack) = TopScope(S).blockStackIndex
                        /\ TopScope(S).isPolymorphic /\ e.stack = d.stack
  PROVE  Drops(c, e, n + 1, S)
<1>1. Follows(c, e)  BY FollowsTrans DEF Drops
<1> SUFFICES ASSUME ~e.error
             PROVE  /\ Len(e.stack) \in TopScope(S).blockStackIndex .. Len(c.stack)
                    /\ e.stack = SubSeq(c.stack, 1, Len(e.stack))
                    /\ \/ ~TopScope(S).isPolymorphic
                       \/ Len(c.stack) - (n + 1) >= TopScope(S).blockStackIndex
                       => Len(e.stack) = Len(c.stack) - (n + 1)
  BY <1>1 DEF Drops
<1>2. ~d.error /\ ~c.error  BY <1>1 DEF Follows
<1>3. /\ c.stack \in Seq(Items) /\ Len(c.stack) \in Nat
      /\ TopScope(S).blockStackIndex \in Nat /\ TopScope(S).isPolymorphic \in BOOLEAN
  BY <1>2, Bodies, TopBelow
<1>4. /\ Len(d.stack) \in TopScope(S).blockStackIndex .. Len(c.stack)
      /\ d.stack = SubSeq(c.stack, 1, Len(d.stack))
      /\ \/ ~TopScope(S).isPolymorphic
         \/ Len(c.stack) - n >= TopScope(S).blockStackIndex
         => Len(d.stack) = Len(c.stack) - n
  BY <1>2 DEF Drops
<1>5. CASE /\ Len(d.stack) > TopScope(S).blockStackIndex
           /\ e.stack = SubSeq(d.stack, 1, Len(d.stack) - 1)
  <2> DEFINE s == c.stack
             k == Len(d.stack)
  <2>2. d.stack = SubSeq(s, 1, k)  BY <1>4
  <2> HIDE DEF s, k
  <2>4. e.stack = SubSeq(s, 1, k - 1) /\ Len(e.stack) = k - 1  BY <1>5, <2>2, <1>3, <1>4 DEF k
  <2> QED BY SMTT(40), <1>3, <1>4, <1>5, <2>4 DEF s, k
<1>6. CASE /\ Len(d.stack) = TopScope(S).blockStackIndex
           /\ TopScope(S).isPolymorphic /\ e.stack = d.stack
  BY SMTT(40), <1>3, <1>4, <1>6
<1> QED BY <1>5, <1>6

LEMMA PoppedAll ==
  ASSUME NEW c, NEW S, S = Scopes(c), Good(c, S), NEW N \in Nat
  PROVE  Drops(c, Pops(c, N), N, S)
<1> DEFINE Runs(g, n) == g = [k \in 0 .. n |-> IF k = 0 THEN c ELSE Pop(g[k - 1])]
           R == {n \in Nat : \E g : Runs(g, n)}
<1>1. 0 \in R
  <2>1. Runs([k \in {0} |-> c], 0)  OBVIOUS
  <2> QED BY <2>1
<1>2. ASSUME NEW n \in Nat, n \in R PROVE n + 1 \in R
  <2>1. PICK g : Runs(g, n)  BY <1>2
  <2>2. Runs([k \in 0 .. n + 1 |-> IF k <= n THEN g[k] ELSE Pop(g[n])], n + 1)  BY <2>1
  <2> HIDE DEF Runs
  <2> QED BY <2>2
<1>3. N \in R
  <2> HIDE DEF R
  <2> QED BY <1>1, <1>2, Induct
<1>4. PICK go : go = (CHOOSE g : Runs(g, N)) /\ Runs(go, N)  BY <1>3
<1>5. Pops(c, N) = go[N]  BY <1>4 DEF Pops
<1>6. go[0] = c /\ \A k \in 1 .. N : go[k] = Pop(go[k - 1])
  <2>1. go = [k \in 0 .. N |-> IF k = 0 THEN c ELSE Pop(go[k - 1])]  BY <1>4
  <2> QED BY <2>1
<1> HIDE DEF Runs
<1> DEFINE I == {n \in Nat : n <= N => Drops(c, go[n], n, S)}
<1>7. 0 \in I  BY <1>6, DropsNone
<1>8. ASSUME NEW n \in Nat, n \in I PROVE n + 1 \in I
  <2> SUFFICES ASSUME n + 1 <= N PROVE Drops(c, go[n + 1], n + 1, S)
    OBVIOUS
  <2>1. n + 1 \in 1 .. N /\ (n + 1) - 1 = n /\ n <= N  BY <1>8
  <2>2. Drops(c, go[n], n, S)  BY <1>8, <2>1
  <2>3. go[n + 1] = Pop(go[n])  BY <1>6, <2>1
  <2> HIDE DEF I
  <2>4. CASE go[n].error  BY <2>4, <2>2, <2>3 DEF Pop, Drops, Follows
  <2>5. CASE ~go[n].error
    <3>1. S = Scopes(go[n]) /\ Good(go[n], S)  BY <2>2, <2>5 DEF Drops, Follows, Same, Scopes
    <3> QED BY <2>2, <2>3, <3>1, Popped, DropsOne
  <2> QED BY <2>4, <2>5
<1>9. N \in I
  <2> HIDE DEF I
  <2> QED BY <1>7, <1>8, Induct
<1> QED BY <1>5, <1>9

LEMMA PoppedParams ==
  ASSUME NEW c, NEW S, S = Scopes(c), Good(c, S), NEW type, Len(type.params) \in Nat
  PROVE  Drops(c, PopParams(c, type), Len(type.params), S)
<1> DEFINE N == Len(type.params)
           Step(d, k) == PopType(d, type.params[N - k + 1])
           Runs(g, n) == g = [k \in 0 .. n |-> IF k = 0 THEN c ELSE Step(g[k - 1], k)]
           R == {n \in Nat : \E g : Runs(g, n)}
<1>0. N \in Nat  OBVIOUS
<1>1. 0 \in R
  <2>1. Runs([k \in {0} |-> c], 0)  OBVIOUS
  <2> QED BY <2>1
<1>2. ASSUME NEW n \in Nat, n \in R PROVE n + 1 \in R
  <2>1. PICK g : Runs(g, n)  BY <1>2
  <2> HIDE DEF Step
  <2>2. Runs([k \in 0 .. n + 1 |-> IF k <= n THEN g[k] ELSE Step(g[n], n + 1)], n + 1)  BY <2>1
  <2> HIDE DEF Runs
  <2> QED BY <2>2
<1>3. N \in R
  <2> HIDE DEF R, N
  <2> QED BY <1>0, <1>1, <1>2, Induct
<1>4. PICK go : go = (CHOOSE g : Runs(g, N)) /\ Runs(go, N)  BY <1>3
<1>5. PopParams(c, type) = go[N]  BY <1>4 DEF PopParams
<1>6. go[0] = c /\ \A k \in 1 .. N : go[k] = Step(go[k - 1], k)
  <2> HIDE DEF Step, N
  <2>1. go = [k \in 0 .. N |-> IF k = 0 THEN c ELSE Step(go[k - 1], k)]  BY <1>4
  <2> QED BY <2>1, <1>0
<1> HIDE DEF Runs, N
<1> DEFINE I == {n \in Nat : n <= N => Drops(c, go[n], n, S)}
<1>7. 0 \in I  BY <1>6, DropsNone
<1>8. ASSUME NEW n \in Nat, n \in I PROVE n + 1 \in I
  <2> SUFFICES ASSUME n + 1 <= N PROVE Drops(c, go[n + 1], n + 1, S)
    OBVIOUS
  <2>1. n + 1 \in 1 .. N /\ (n + 1) - 1 = n /\ n <= N  BY <1>0, <1>8
  <2>2. Drops(c, go[n], n, S)  BY <1>8, <2>1
  <2>3. \E t : go[n + 1] = PopType(go[n], t)  BY <1>6, <2>1
  <2> HIDE DEF I, Step
  <2>4. CASE go[n].error
    <3>1. go[n + 1] = go[n] \/ go[n + 1] = Fail(go[n])  BY <2>3, <2>4 DEF PopType, Pop
    <3>2. Good(go[n], S)  BY <2>2 DEF Drops
    <3> QED BY <3>1, <3>2, <2>4, Fails DEF Drops, Follows, Good
  <2>5. CASE ~go[n].error
    <3>1. S = Scopes(go[n]) /\ Good(go[n], S)  BY <2>2, <2>5 DEF Drops, Follows, Same, Scopes
    <3> QED BY <2>2, <2>3, <3>1, PoppedType, DropsOne
  <2> QED BY <2>4, <2>5
<1>9. N \in I
  <2> HIDE DEF I
  <2> QED BY <1>0, <1>7, <1>8, Induct
<1> QED BY <1>0, <1>5, <1>9 DEF N
-----------------------------------------------------------------------------

(***************************************************************************)
(* Operands that are pushed and copied.                                    *)
(***************************************************************************)
LEMMA Unwound ==
  ASSUME NEW c, NEW S, S = Scopes(c), Good(c, S)
  PROVE  LET d == UnwindBlockStack(c)
         IN /\ Good(d, S) /\ Follows(c, d)
            /\ ~d.error => /\ d.stack = SubSeq(c.stack, 1, TopScope(S).blockStackIndex)
                           /\ Len(d.stack) = TopScope(S).blockStackIndex
<1>1. CASE c.error  BY <1>1, KeepsSelf DEF UnwindBlockStack, Keeps
<1>2. CASE ~c.error
  <2> DEFINE n == GetNumBlockValuesOnStack(c)
             d == Pops(c, n)
  <2>1. /\ TopScope(S).blockStackIndex \in Nat /\ Len(c.stack) \in Nat
        /\ TopScope(S).blockStackIndex <= Len(c.stack)
        /\ n = Len(c.stack) - TopScope(S).blockStackIndex
    BY <1>2, TopBelow, Bodies, BlockTop DEF GetNumBlockValuesOnStack, Height
  <2> HIDE DEF n
  <2>3. Drops(c, d, n, S)  BY PoppedAll, <2>1
  <2>5. UnwindBlockStack(c) = d  BY <1>2 DEF UnwindBlockStack, n
  <2> HIDE DEF d
  <2> QED BY SMTT(40), <2>3, <2>5, <2>1 DEF Drops
<1> QED BY <1>1, <1>2

LEMMA PushesCalm ==
  ASSUME NEW c, NEW d, NEW e, NEW S, NEW type, Good(c, S), Pushes(c, d, type, S),
         Calm(d, e, S)
  PROVE  Pushes(c, e, type, S)
<1> QED BY FollowsTrans DEF Pushes, Calm, Follows, Types

LEMMA PushedRegister ==
  ASSUME NEW c, NEW S, Good(c, S), NEW type \in ValueTypes
  PROVE  Pushes(c, PushRegister(c, type), type, S)
<1>1. RegisterFor(type) \in Registers /\ RegisterFor(type) \in Nat
  BY Constants DEF RegisterFor, Registers
<1>2. ~c.error => ItemHeld(c, [slot |-> RegisterFor(type), type |-> type])  BY <1>1, FreshHeld
<1> QED BY <1>1, <1>2, Pushed DEF PushRegister

LEMMA PushedSlot ==
  ASSUME NEW c, NEW S, Good(c, S), NEW type \in ValueTypes
  PROVE  LET d == PushAllocatedSlot(c, type)
         IN /\ Pushes(c, d, type, S)
            /\ \A v : Pushes(c, Put(d, FindSlots(c, type), type, v), type, S)
<1> DEFINE d == PushAllocatedSlot(c, type)
           m == AllocateSlots(c, type)
           s == FindSlots(c, type)
<1>1. CASE c.error
  BY <1>1, KeepsSelf, Fails DEF PushAllocatedSlot, Put, Pushes, Keeps, Good, Follows
<1>2. CASE ~c.error /\ m.error
  <2>1. Good(m, S) /\ IsState(m)  BY Allocated DEF Keeps, Good
  <2>3. Good(d, S) /\ d.error  BY <2>1, Fails, <1>2 DEF PushAllocatedSlot, Push
  <2> QED BY <2>3 DEF Pushes, Follows, Put
<1>3. CASE ~c.error /\ ~m.error
  <2>1. /\ Calm(c, m, S) /\ s \in Nat /\ s # SlotUnused
        /\ s + GetTypeNumSlots(type) <= m.maxStackSlots
        /\ ItemHeld(m, [slot |-> s, type |-> type])
    BY <1>3, Allocated
  <2>2. d = Push(m, type, s)  BY <1>3 DEF PushAllocatedSlot
  <2>3. Pushes(m, d, type, S)
    <3> HIDE DEF d, s, m
    <3> QED BY <2>1, <2>2, Pushed DEF Calm
  <2> HIDE DEF d, s, m
  <2>4. Pushes(c, d, type, S)
    <3>1. Follows(c, d) /\ (~d.error => Types(d) = Append(Types(c), type))
      BY <2>1, <2>3, FollowsTrans DEF Pushes, Calm, Follows, Types
    <3> QED BY <2>3, <3>1 DEF Pushes
  <2>5. ASSUME NEW v PROVE Pushes(c, Put(d, s, type, v), type, S)
    <3>1. ~d.error => InFrame(s, type, d.maxStackSlots)
      <4> SUFFICES ASSUME ~d.error PROVE s + GetTypeNumSlots(type) <= d.maxStackSlots
        BY DEF InFrame
      <4>3. GetTypeNumSlots(type) \in {1, 2}  BY Widths
      <4> QED BY SMTT(40), <2>1, <4>3, Bodies, <2>3 DEF Sizes, Pushes, Calm, Follows
    <3>2. Calm(d, Put(d, s, type, v), S)  BY <2>1, <2>4, <3>1, Written DEF Pushes
    <3> QED BY <2>4, <3>2, PushesCalm
  <2> QED BY <2>4, <2>5 DEF d, s
<1> QED BY SMTT(40), <1>1, <1>2, <1>3

\* A copy of the stack is put back.
LEMMA Restored ==
  ASSUME NEW c, NEW d, NEW S, Good(c, S), Good(d, S), Follows(c, d)
  PROVE  LET e == [d EXCEPT !.stack = c.stack]
         IN /\ Keeps(c, e, S) /\ e.error = d.error
            /\ ~d.error => Calm(c, e, S) /\ e.maxStackSlots = d.maxStackSlots
<1> DEFINE e == [d EXCEPT !.stack = c.stack]
<1>1. /\ IsState(e) /\ e.error = d.error /\ e.stack = c.stack /\ Same(d, e)
      /\ e.maxStackSlots = d.maxStackSlots
      /\ e.slotMaxAllocatedIndexPlusOne = d.slotMaxAllocatedIndexPlusOne
      /\ e.slotMaxConstIndex = d.slotMaxConstIndex /\ e.written = d.written
      /\ e.regStackIndexPlusOne = d.regStackIndexPlusOne
  BY DEF Good, IsState, Fields, Same
<1> HIDE DEF e
<1>2. CASE d.error  BY <1>1, <1>2 DEF Keeps, Good, Follows, e
<1>3. CASE ~d.error
  <2>1. ~c.error /\ Same(c, d) /\ c.maxStackSlots <= d.maxStackSlots  BY <1>3 DEF Follows
  <2>2. Sizes(d) /\ NoLocalInRegister(d) /\ WritesHeld(d)  BY <1>3, Bodies
  <2>3. NoLocalInRegister(e) /\ WritesHeld(e) /\ Same(c, e) /\ SameLocals(c, e)
    BY <1>1, <2>1, <2>2 DEF NoLocalInRegister, WritesHeld, Same, SameLocals
  <2>4. /\ c.stack \in Seq(Items) /\ TopScope(S).blockStackIndex <= Len(c.stack)
    BY <2>1, Bodies, TopBelow
  <2>5. ItemsHeld(e, S)
    <3> SUFFICES ASSUME NEW i \in DOMAIN c.stack, LiveItem(S, i)
                 PROVE  ItemHeld(e, c.stack[i])
      BY <1>1 DEF ItemsHeld
    <3> QED BY SMTT(40), <1>1, <2>1, <2>2, <2>3, HeldOn, Bodies DEF Sizes, ItemsHeld
  <2>7. Near(c, e, S)  BY <1>1, <2>1, <2>2, <2>3, <2>4, <2>5 DEF Near, Sizes, Same
  <2>9. Calm(c, e, S)  BY <1>1, <1>3, <2>1, <2>7, NearGood DEF Calm, Good, IsState
  <2> QED BY <1>1, <2>9, CalmKeeps DEF e
<1> QED BY <1>2, <1>3 DEF e

\* The table of constants grows within what is reserved for it.
LEMMA Remembered ==
  ASSUME NEW c, NEW S, Good(c, S), NEW n \in Nat, NEW constants, NEW mem,
         ~c.error => n <= c.slotFirstDynamicIndex
  PROVE  Calm(c, [c EXCEPT !.constants = constants, !.mem = mem,
                           !.slotMaxConstIndex = Max({n, @})], S)
<1> DEFINE e == [c EXCEPT !.constants = constants, !.mem = mem,
                          !.slotMaxConstIndex = Max({n, @})]
<1>1. /\ IsState(e) /\ e.error = c.error /\ e.stack = c.stack /\ Same(c, e)
      /\ e.maxStackSlots = c.maxStackSlots
      /\ e.slotMaxAllocatedIndexPlusOne = c.slotMaxAllocatedIndexPlusOne
      /\ e.slotMaxConstIndex = Max({n, c.slotMaxConstIndex}) /\ e.written = c.written
      /\ e.regStackIndexPlusOne = c.regStackIndexPlusOne
  BY DEF Good, IsState, Fields, Same
<1> HIDE DEF e
<1>2. CASE c.error  BY <1>1, <1>2 DEF Calm, Good, Follows, e
<1>3. CASE ~c.error
  <2>1. Sizes(c) /\ NoLocalInRegister(c) /\ WritesHeld(c) /\ c.stack \in Seq(Items)
        /\ ItemsHeld(c, S) /\ TopScope(S).blockStackIndex <= Len(c.stack)
    BY <1>3, Bodies, TopBelow
  <2>2. NoLocalInRegister(e) /\ WritesHeld(e) /\ SameLocals(c, e)
    BY <1>1, <2>1 DEF NoLocalInRegister, WritesHeld, Same, SameLocals
  <2>3. ItemsHeld(e, S)
    <3> SUFFICES ASSUME NEW i \in DOMAIN c.stack, LiveItem(S, i)
                 PROVE  ItemHeld(e, c.stack[i])
      BY <1>1 DEF ItemsHeld
    <3> QED BY <1>1, <2>2, HeldOn, <2>1 DEF ItemsHeld, Sizes
  <2>4. /\ e.slotMaxConstIndex \in Nat /\ c.slotFirstConstIndex <= e.slotMaxConstIndex
        /\ e.slotMaxConstIndex <= c.slotFirstDynamicIndex
    <3>1. /\ c.slotMaxConstIndex \in Nat /\ c.slotFirstConstIndex \in Nat
          /\ c.slotFirstDynamicIndex \in Nat
          /\ c.slotFirstConstIndex <= c.slotMaxConstIndex
          /\ c.slotMaxConstIndex <= c.slotFirstDynamicIndex
      BY <2>1 DEF Sizes
    <3> QED BY <1>3, <3>1, <1>1, MaxOfTwo
  <2>5. Near(c, e, S)  BY <1>1, <2>1, <2>2, <2>3, <2>4 DEF Near, Sizes
  <2> QED BY <1>1, <1>3, <2>5, NearGood DEF e, Calm
<1> QED BY <1>2, <1>3 DEF e

LEMMA PushedConst ==
  ASSUME NEW c, NEW S, Good(c, S), ~c.error, NEW type \in ValueTypes, NEW v
  PROVE  Pushes(c, PushConst(c, v, type), type, S)
<1> DEFINE n == GetTypeNumSlots(type)
           Held(s, i) == s + i < c.slotMaxConstIndex
                           /\ c.m3Slots[s + i] # 0
                           /\ c.constants[s + i] = (IF i = 0 THEN v ELSE -v)
           first == AlignSlotToType(c.slotFirstConstIndex, type)
           found == { s \in first .. c.slotMaxConstIndex - 1 :
                        /\ AlignSlotToType(s, type) = s
                        /\ \A i \in 0 .. n - 1 : Held(s, i) }
           slot == FindConstantSlots(c, type)
<1>1. /\ c.slotFirstConstIndex \in Nat /\ c.slotMaxConstIndex \in Nat
      /\ c.slotFirstDynamicIndex \in Nat /\ c.maxStackSlots \in Nat
      /\ c.slotMaxConstIndex <= c.slotFirstDynamicIndex
      /\ c.slotFirstDynamicIndex <= c.maxStackSlots
      /\ n \in {1, 2} /\ MaxConsts \in Nat
      /\ first \in Nat /\ c.slotFirstConstIndex <= first
  BY Bodies, Widths, Constants DEF Sizes
<1>2. CASE found # {}
  <2>1. PushConst(c, v, type) = Push(c, type, Min(found))  BY <1>2 DEF PushConst
  <2>2. \A s \in found : s \in Nat /\ first <= s /\ s + n <= c.slotMaxConstIndex
    <3> SUFFICES ASSUME NEW s \in found
                 PROVE  s \in Nat /\ first <= s /\ s + n <= c.slotMaxConstIndex
      OBVIOUS
    <3>1. s \in first .. c.slotMaxConstIndex - 1 /\ \A i \in 0 .. n - 1 : Held(s, i)  OBVIOUS
    <3> HIDE DEF found, n, first
    <3> QED BY <1>1, <3>1
  <2> HIDE DEF found, first
  <2>4. /\ Min(found) \in Nat /\ c.slotFirstConstIndex <= Min(found)
        /\ Min(found) + n <= c.maxStackSlots
    BY <1>1, <2>2, <1>2, MinIn
  <2>5. ItemHeld(c, [slot |-> Min(found), type |-> type])  BY <2>4, FreshHeld
  <2> QED BY <2>1, <2>4, <2>5, Pushed
<1>3. CASE found = {} /\ slot = SlotUnused  BY <1>3, PushedSlot DEF PushConst
<1>4. CASE found = {} /\ slot # SlotUnused
  <2> DEFINE m == MarkSlotsAllocatedByType(c, slot, type)
             d == Push(m, type, slot)
             Word(s) == IF s = slot THEN v ELSE -v
             constants == [s \in DOMAIN d.constants |->
                 IF s \in SlotsOf(slot, type) THEN Word(s) ELSE d.constants[s]]
             mem == [s \in DOMAIN d.mem |->
                 IF s \in SlotsOf(slot, type) THEN Word(s) ELSE d.mem[s]]
  <2>1. PushConst(c, v, type)
          = [d EXCEPT !.constants = constants, !.mem = mem,
                      !.slotMaxConstIndex = Max({slot + n, @})]
    BY <1>4 DEF PushConst
  <2>2. slot \in Nat /\ c.slotFirstConstIndex <= slot /\ slot + n <= c.slotFirstDynamicIndex
    <3> DEFINE end == Min({c.slotFirstDynamicIndex, c.slotFirstConstIndex + MaxConsts})
    <3>1. end \in Nat /\ end <= c.slotFirstDynamicIndex  BY <1>1, MinOfTwo
    <3>2. slot = FindSlotsWithinRange(c, type, c.slotFirstConstIndex, end)
      BY DEF FindConstantSlots
    <3> HIDE DEF end, slot
    <3> QED BY <1>1, <1>4, <3>1, <3>2, Found
  <2> HIDE DEF constants, mem, slot
  <2>3. Calm(c, m, S) /\ slot + n <= m.maxStackSlots  BY <2>2, Marked
  <2>4. Good(m, S) /\ ~m.error /\ m.slotFirstConstIndex = c.slotFirstConstIndex
        /\ Follows(c, m) /\ Types(m) = Types(c)
    BY <2>3 DEF Calm, Follows, Same, Types
  <2> HIDE DEF m
  <2>5. ItemHeld(m, [slot |-> slot, type |-> type])  BY <2>2, <2>3, <2>4, FreshHeld
  <2>6. Pushes(m, d, type, S)  BY <2>2, <2>4, <2>5, Pushed
  <2> HIDE DEF d
  <2>7. Pushes(c, d, type, S)  BY <2>4, <2>6, FollowsTrans DEF Pushes
  <2>8. Calm(d, PushConst(c, v, type), S)
    <3>1. ~d.error => slot + n <= d.slotFirstDynamicIndex
      BY <2>2, <2>7 DEF Pushes, Follows, Same
    <3>2. slot + n \in Nat /\ Good(d, S)  BY SMTT(40), <1>1, <2>2, <2>7 DEF Pushes
    <3> HIDE DEF n
    <3>3. Calm(d, [d EXCEPT !.constants = constants, !.mem = mem,
                           !.slotMaxConstIndex = Max({slot + n, @})], S)
      BY <3>1, <3>2, Remembered
    <3> QED BY <2>1, <3>3
  <2> QED BY <2>7, <2>8, PushesCalm
<1> QED BY <1>2, <1>3, <1>4

LEMMA CopiedIndex ==
  ASSUME NEW c, NEW S, Good(c, S), NEW dest, NEW i,
         ~c.error /\ c.running =>
            dest \in Nat /\ InFrame(dest, GetStackTypeFromBottom(c, i), c.maxStackSlots)
  PROVE  Calm(c, CopyStackIndexToSlot(c, dest, i), S)
BY Written, KeepsSelf DEF CopyStackIndexToSlot, CopySlot

LEMMA Cleared ==
  ASSUME NEW c, NEW S, Good(c, S)
  PROVE  Calm(c, ClearRegisters(c), S)
<1>1. \A r \in Registers : \A type, n : r \in Nat /\ InFrame(r, type, n)
  BY Constants DEF Registers, InFrame, IsRegisterSlotAlias
<1> DEFINE d == Put(c, Reg0SlotAlias, "i32", Junk)
<1>2. Calm(c, d, S)  BY <1>1, Written DEF Registers
<1>3. Calm(d, Put(d, Fp0SlotAlias, "f32", Junk), S)
  <2> HIDE DEF d
  <2> QED BY <1>1, Written, <1>2 DEF Registers, Calm
<1>4. Calm(c, Put(d, Fp0SlotAlias, "f32", Junk), S)
  <2> HIDE DEF d
  <2> QED BY <1>2, <1>3, CalmTrans
<1> QED BY <1>4, KeepsSelf DEF ClearRegisters

\* Items refs of the operands get another slot.
LEMMA Moved ==
  ASSUME NEW c, NEW d, NEW S, Good(c, S), ~c.error, NEW refs, NEW slot \in Nat,
         IsState(d), ~d.error, Same(c, d), d.maxStackSlots \in Nat,
         c.maxStackSlots <= d.maxStackSlots, d.slotMaxConstIndex = c.slotMaxConstIndex,
         d.slotMaxAllocatedIndexPlusOne = c.slotMaxAllocatedIndexPlusOne,
         d.regStackIndexPlusOne = c.regStackIndexPlusOne, WritesHeld(d),
         d.stack = [j \in DOMAIN c.stack |->
                       IF j \in refs THEN [c.stack[j] EXCEPT !.slot = slot]
                       ELSE c.stack[j]],
         \A j \in refs : j \in DOMAIN c.stack => j > c.stackFirstDynamicIndex,
         \A j \in refs : j \in DOMAIN c.stack /\ LiveItem(S, j) =>
            ItemHeld(d, [slot |-> slot, type |-> c.stack[j].type])
  PROVE  Keeps(c, d, S)
<1>1. /\ Sizes(c) /\ NoLocalInRegister(c) /\ c.stack \in Seq(Items) /\ ItemsHeld(c, S)
      /\ TopScope(S).blockStackIndex <= Len(c.stack)
      /\ TopScope(S).blockStackIndex \in Nat
      /\ c.stackFirstDynamicIndex <= TopScope(S).blockStackIndex
  BY Bodies, TopBelow
<1>2. DOMAIN c.stack = 1 .. Len(c.stack) /\ Len(c.stack) \in Nat  BY <1>1
<1>3. ASSUME NEW j \in 1 .. Len(c.stack)
      PROVE  /\ d.stack[j] \in Items /\ d.stack[j].type = c.stack[j].type
             /\ j \in refs =>
                   d.stack[j] = [slot |-> slot, type |-> c.stack[j].type]
             /\ j \notin refs => d.stack[j] = c.stack[j]
  <2>1. c.stack[j] \in Items  BY <1>1, <1>2
  <2>2. CASE j \in refs  BY ZenonT(60), <1>2, <2>2, <2>1 DEF Items
  <2>3. CASE j \notin refs  BY <1>2, <2>1, <2>3
  <2> QED BY <2>2, <2>3
<1>4. d.stack \in Seq(Items) /\ Len(d.stack) = Len(c.stack)
      /\ DOMAIN d.stack = 1 .. Len(c.stack)
  <2>1. d.stack = [j \in 1 .. Len(c.stack) |-> d.stack[j]]  BY <1>2
  <2>2. \A j \in 1 .. Len(c.stack) : d.stack[j] \in Items  BY <1>3
  <2>3. d.stack \in [1 .. Len(c.stack) -> Items]  BY <2>1, <2>2
  <2> QED BY <1>2, <2>3
<1>5. SameLocals(c, d)
  <2>1. \A l \in 1 .. c.stackFirstDynamicIndex : l \in 1 .. Len(c.stack) /\ l \notin refs
    BY SMTT(40), <1>1, <1>2 DEF Sizes
  <2> QED BY <1>3, <2>1 DEF SameLocals
<1>6. ItemsHeld(d, S)
  <2> SUFFICES ASSUME NEW j \in 1 .. Len(c.stack), LiveItem(S, j)
               PROVE  ItemHeld(d, d.stack[j])
    BY <1>4 DEF ItemsHeld
  <2>1. CASE j \in refs  BY <1>2, <1>3, <2>1
  <2>2. CASE j \notin refs
    <3>1. c.stack[j] \in Items /\ ItemHeld(c, c.stack[j]) /\ c.maxStackSlots \in Nat
      BY <1>1, <1>2 DEF ItemsHeld, Sizes
    <3> QED BY <1>3, <2>2, <1>5, <3>1, HeldOn
  <2> QED BY <2>1, <2>2
<1>8. \A i \in 1 .. TopScope(S).blockStackIndex : d.stack[i].type = c.stack[i].type
  BY SMTT(40), <1>1, <1>2, <1>3
<1>9. Near(c, d, S)  BY SMTT(40), <1>1, <1>4, <1>5, <1>6, <1>8 DEF Near, Sizes, NoLocalInRegister, Same
<1> QED BY <1>9, NearGood, <1>2, <1>3, <1>4 DEF Keeps, Types

\* One item gets another slot.
LEMMA Reslotted ==
  ASSUME NEW c, NEW S, Good(c, S), NEW i, NEW slot \in Nat,
         ~c.error => /\ i \in DOMAIN c.stack => i > c.stackFirstDynamicIndex
                     /\ i \in DOMAIN c.stack /\ LiveItem(S, i) =>
                           ItemHeld(c, [slot |-> slot, type |-> c.stack[i].type])
  PROVE  LET d == [c EXCEPT !.stack[i].slot = slot]
         IN Keeps(c, d, S) /\ d.error = c.error /\ d.maxStackSlots = c.maxStackSlots
<1> DEFINE d == [c EXCEPT !.stack[i].slot = slot]
<1>1. /\ IsState(d) /\ d.error = c.error /\ Same(c, d)
      /\ d.maxStackSlots = c.maxStackSlots /\ d.slotMaxConstIndex = c.slotMaxConstIndex
      /\ d.slotMaxAllocatedIndexPlusOne = c.slotMaxAllocatedIndexPlusOne
      /\ d.regStackIndexPlusOne = c.regStackIndexPlusOne /\ d.written = c.written
      /\ d.stack = [c.stack EXCEPT ![i].slot = slot]
  BY DEF Good, IsState, Fields, Same
<1> HIDE DEF d
<1>2. CASE c.error  BY <1>1, <1>2 DEF Keeps, Good, Follows, d
<1>3. CASE ~c.error
  <2>1. Sizes(c) /\ WritesHeld(c) /\ ArgsAndLocals(c)  BY <1>3, Bodies
  <2>2. WritesHeld(d)  BY <1>1, <2>1 DEF WritesHeld
  <2>3. d.stack = [j \in DOMAIN c.stack |->
                      IF j \in {i} THEN [c.stack[j] EXCEPT !.slot = slot]
                      ELSE c.stack[j]]
    BY <1>1
  <2>5. i \in DOMAIN c.stack => SameLocals(c, d)
    <3> SUFFICES ASSUME i \in DOMAIN c.stack, NEW l \in 1 .. c.stackFirstDynamicIndex
                 PROVE  d.stack[l] = c.stack[l]
      BY DEF SameLocals
    <3> QED BY SMTT(40), <1>1, <1>3, <2>1, Bodies DEF ArgsAndLocals, Sizes
  <2>6. ASSUME i \in DOMAIN c.stack, LiveItem(S, i)
        PROVE  ItemHeld(d, [slot |-> slot, type |-> c.stack[i].type])
    BY <1>3, <2>6, <1>1, <2>5 DEF Same, SameLocals, ItemHeld
  <2>7. Keeps(c, d, S)
    <3>1. ~d.error /\ d.maxStackSlots \in Nat /\ c.maxStackSlots <= d.maxStackSlots
      BY <1>1, <1>3, <2>1 DEF Sizes
    <3>2. \A j \in {i} : j \in DOMAIN c.stack => j > c.stackFirstDynamicIndex  BY <1>3
    <3>3. \A j \in {i} : j \in DOMAIN c.stack /\ LiveItem(S, j) =>
             ItemHeld(d, [slot |-> slot, type |-> c.stack[j].type])
      BY <2>6
    <3> QED BY <1>1, <1>3, <2>2, <2>3, <3>1, <3>2, <3>3, Moved
  <2> QED BY <1>1, <2>7 DEF d
<1> QED BY <1>2, <1>3

(***************************************************************************)
(* What is done for registers and locals keeps the types of the stack.     *)
(***************************************************************************)
LEMMA Preserved ==
  ASSUME NEW c, NEW S, Good(c, S), NEW type
  PROVE  Keeps(c, PreserveRegisterIfOccupied(c, type), S)
<1> DEFINE reg == RegisterFor(type)
           i == c.regStackIndexPlusOne[reg]
           held == GetStackTypeFromBottom(c, i)
           slot == FindSlots(c, held)
           r == DeallocateRegister(c, reg)
           a == AllocateSlots(r, held)
           m == [a EXCEPT !.stack[i].slot = slot]
           d == CopySlot(m, slot, reg, held)
<1>1. CASE c.error \/ ~IsRegisterAllocated(c, reg)
  BY <1>1, KeepsSelf DEF PreserveRegisterIfOccupied
<1>2. CASE ~(c.error \/ ~IsRegisterAllocated(c, reg)) /\ slot = SlotUnused
  BY <1>2, Fails DEF PreserveRegisterIfOccupied, Good
<1>3. CASE ~(c.error \/ ~IsRegisterAllocated(c, reg)) /\ slot # SlotUnused
  <2>1. PreserveRegisterIfOccupied(c, type) = d  BY <1>3 DEF PreserveRegisterIfOccupied
  <2>2. i \in Nat /\ (i \in DOMAIN c.stack => i > c.stackFirstDynamicIndex)
    <3>2. c.stackFirstDynamicIndex \in Nat  BY <1>3, Bodies DEF Sizes
    <3> QED
      BY SMTT(40), <3>2, <1>3, Bodies DEF NoLocalInRegister, IsRegisterAllocated, Registers,
         RegisterFor
  <2>3. Calm(c, r, S) /\ slot = FindSlots(r, held)  BY Released
  <2> HIDE DEF reg, i, r
  <2>4. Keeps(r, a, S) /\ (~a.error => /\ Calm(r, a, S) /\ slot \in Nat
                                       /\ slot + GetTypeNumSlots(held) <= a.maxStackSlots
                                       /\ ItemHeld(a, [slot |-> slot, type |-> held]))
    <3> HIDE DEF held, slot
    <3> QED BY <2>3, Allocated DEF Calm
  <2>5. Keeps(c, a, S)  BY <2>3, <2>4, CalmKeeps, KeepsTrans
  <2>6. CASE a.error
    <3>1. d = m  BY <2>6 DEF CopySlot, Put, Keeps, Good, IsState, Fields
    <3>2. IsState(m) /\ m.error  BY <2>5, <2>6 DEF Keeps, Good, IsState, Fields
    <3> QED BY <2>1, <3>1, <3>2 DEF Keeps, Good, Follows
  <2>7. CASE ~a.error
    <3>2. a.stack = c.stack /\ a.stackFirstDynamicIndex = c.stackFirstDynamicIndex
          /\ Good(a, S)
      BY <2>7, <2>3, <2>4, CalmTrans DEF Calm, Follows, Same
    <3>4. i \in DOMAIN a.stack => held = a.stack[i].type  BY <3>2 DEF GetStackTypeFromBottom
    <3> HIDE DEF held, slot, a
    <3>5. Keeps(a, m, S) /\ m.error = a.error /\ m.maxStackSlots = a.maxStackSlots
      <4>1. i \in DOMAIN a.stack /\ LiveItem(S, i) =>
               ItemHeld(a, [slot |-> slot, type |-> a.stack[i].type])
        BY <2>4, <2>7, <3>4
      <4> QED BY <3>2, <4>1, Reslotted, <2>2, <2>4, <2>7
    <3> HIDE DEF m
    <3>6. Calm(m, d, S)  BY <2>4, <2>7, <3>5, Written DEF InFrame, Keeps, CopySlot
    <3> HIDE DEF d
    <3> QED BY <2>1, <2>5, <3>5, <3>6, CalmKeeps, KeepsTrans
  <2> QED BY <2>6, <2>7
<1> QED BY SMTT(40), <1>1, <1>2, <1>3

LEMMA PreservedBoth ==
  ASSUME NEW c, NEW S, Good(c, S)
  PROVE  Keeps(c, PreserveRegisters(c), S) /\ Keeps(c, PreserveNonTopRegisters(c), S)
<1>1. ASSUME NEW d, NEW t, Good(d, S)
      PROVE  Keeps(d, IF d.regStackIndexPlusOne[RegisterFor(t)] = Height(d) THEN d
                      ELSE PreserveRegisterIfOccupied(d, t), S)
  BY <1>1, Preserved, KeepsSelf
<1>2. ASSUME NEW d, Keeps(c, d, S) PROVE Good(d, S)
  BY <1>2 DEF Keeps
<1>3. Keeps(c, PreserveRegisters(c), S)
  <2> DEFINE d == PreserveRegisterIfOccupied(c, "f64")
  <2>1. Keeps(c, d, S)  BY Preserved
  <2> HIDE DEF d
  <2> QED BY <2>1, KeepsTrans, <1>2, Preserved DEF PreserveRegisters, d
<1>4. Keeps(c, PreserveNonTopRegisters(c), S)
  <2> DEFINE NonTop(e, t) == IF e.regStackIndexPlusOne[RegisterFor(t)] = Height(e) THEN e
                             ELSE PreserveRegisterIfOccupied(e, t)
             d == NonTop(c, "i64")
  <2>1. Keeps(c, d, S)  BY <1>1
  <2> HIDE DEF d
  <2>2. Keeps(d, NonTop(d, "f64"), S)  BY <1>1, <1>2, <2>1
  <2>3. Keeps(c, NonTop(d, "f64"), S)
    <3> HIDE DEF NonTop
    <3> QED BY <2>1, <2>2, KeepsTrans
  <2> QED BY <2>3 DEF PreserveNonTopRegisters, d
<1> QED BY <1>3, <1>4

LEMMA TopCopied ==
  ASSUME NEW c, NEW S, Good(c, S)
  PROVE  Keeps(c, CopyStackTopToRegister(c, FALSE), S)
<1> DEFINE type == GetStackTopType(c)
           p == PreserveRegisterIfOccupied(c, type)
           d == CopySlot(p, RegisterFor(type), GetStackTopSlotNumber(c), type)
<1>1. Keeps(c, p, S)  BY Preserved
<1>2. Calm(p, d, S)
  <2> HIDE DEF p, type
  <2> QED
    BY Written, Constants, <1>1 DEF CopySlot, RegisterFor, InFrame, IsRegisterSlotAlias, Keeps
<1>3. Keeps(c, d, S)
  <2> HIDE DEF d, p
  <2> QED BY <1>1, <1>2, CalmKeeps, KeepsTrans
<1> QED BY <1>3, KeepsSelf DEF CopyStackTopToRegister

\* In code that can be reached no scope is polymorphic.
LEMMA AllLive ==
  ASSUME NEW c, NEW S, Good(c, S), ~c.error, ~TopScope(S).isPolymorphic
  PROVE  /\ \A k \in 1 .. Len(S) : ~S[k].isPolymorphic
         /\ \A i : LiveItem(S, i)
         /\ \A i \in DOMAIN c.stack : ItemHeld(c, c.stack[i])
         /\ \A k \in 2 .. Len(S) : Records(Types(c), S[k - 1], S[k])
<1>1. S \in Seq(ScopeSet) /\ S # <<>> /\ Nested(S, Types(c), c.stackFirstDynamicIndex)
      /\ ItemsHeld(c, S)
  BY Bodies
<1>2. Len(S) \in 1 .. Len(S) /\ DOMAIN S = 1 .. Len(S) /\ Len(S) \in Nat  BY <1>1
<1>3. ASSUME NEW k \in 1 .. Len(S) PROVE ~S[k].isPolymorphic
  <2>1. CASE k = Len(S)  BY <2>1 DEF TopScope
  <2>2. CASE k # Len(S)
    <3>1. k \in 1 .. Len(S) - 1
      <4>1. \A n \in Nat : \A j \in 1 .. n : j # n => j \in 1 .. n - 1  OBVIOUS
      <4> QED BY <1>2, <2>2, <4>1
    <3>2. Inside(S[k], S[Len(S)])  BY <1>1, <1>2, <3>1 DEF Nested
    <3> QED BY SMTT(40), <3>2 DEF Inside, TopScope
  <2> QED BY <2>1, <2>2
<1> QED BY <1>1, <1>3, <1>2 DEF ItemsHeld, Nested, LiveItem

LEMMA ReferencesAbove ==
  ASSUME NEW c, Good(c, Scopes(c)), ~c.error
  PROVE  /\ ReferenceStart(c) \in Nat
         /\ c.stackFirstDynamicIndex <= ReferenceStart(c)
<1> DEFINE S == Scopes(c)
           outer == { k \in DOMAIN c.block : c.block[k].opcode # "block" }
<1>1. /\ S \in Seq(ScopeSet) /\ S # <<>> /\ Nested(S, Types(c), c.stackFirstDynamicIndex)
  BY Bodies
<1>2. /\ Len(c.block) = Len(S) /\ Len(c.block) \in Nat /\ Len(c.block) >= 1
      /\ DOMAIN c.block = 1 .. Len(c.block)
      /\ \A k \in 1 .. Len(c.block) : S[k] = ScopeOf(c.block[k])
  BY BlockTop
<1> HIDE DEF S
<1>3. c.block[1].opcode = "function" /\ 1 \in DOMAIN c.block
  <2>1. 1 \in 1 .. Len(c.block) /\ S[1].opcode = "function"  BY <1>1, <1>2 DEF Nested
  <2>2. S[1] = ScopeOf(c.block[1])  BY <1>2, <2>1
  <2> QED BY <1>2, <2>1, <2>2 DEF ScopeOf
<1>4. outer \in SUBSET (0 .. Len(c.block)) /\ outer # {}  BY <1>2, <1>3
<1>5. Max(outer) \in outer
  <2> HIDE DEF outer
  <2> QED BY <1>2, <1>4, MaxIn
<1>6. Max(outer) \in 1 .. Len(S)  BY <1>2, <1>5
<1>7. ReferenceStart(c) = S[Max(outer)].blockStackIndex
  <2>1. ReferenceStart(c) = c.block[Max(outer)].blockStackIndex  BY DEF ReferenceStart
  <2> HIDE DEF outer
  <2>2. S[Max(outer)] = ScopeOf(c.block[Max(outer)])  BY <1>2, <1>6
  <2> QED BY <2>1, <2>2 DEF ScopeOf
<1>8. ReferenceStart(c) \in Nat /\ c.stackFirstDynamicIndex <= ReferenceStart(c)
  <2> HIDE DEF outer
  <2> QED BY SMTT(40), <1>1, <1>6, <1>7, ScopeTyped DEF Nested
<1> QED BY <1>8

\* The references to a local move to a slot that is as wide as the local.
LEMMA Referenced ==
  ASSUME NEW c, NEW S, S = Scopes(c), Good(c, S), NEW l \in 1 .. c.stackFirstDynamicIndex,
         ~c.error
  PROVE  LET r == FindReferencedLocalWithinCurrentBlock(c, c.stack[l].slot)
         IN /\ Keeps(c, r.state, S)
            /\ \/ r.slot = c.stack[l].slot /\ r.state = c
               \/ /\ ~r.state.error => r.slot \in Nat
                  /\ ~r.state.error /\ c.running =>
                        InFrame(r.slot, c.stack[l].type, r.state.maxStackSlots)
<1> DEFINE local == c.stack[l].slot
           refs == { i \in ReferenceStart(c) + 1 .. Height(c) : c.stack[i].slot = local }
           type == GetStackTypeFromBottom(c, Min(refs))
           slot == FindSlots(c, type)
           a == AllocateSlots(c, type)
           n == Cardinality(refs) - 1
           u == IncrementSlotUsageCount(a, slot, n)
           d == [u EXCEPT !.stack = [i \in DOMAIN @ |->
                               IF i \in refs THEN [@[i] EXCEPT !.slot = slot]
                               ELSE @[i]]]
           r == FindReferencedLocalWithinCurrentBlock(c, local)
<1>1. /\ Sizes(c) /\ ArgsAndLocals(c) /\ c.stack \in Seq(Items) /\ ItemsHeld(c, S)
      /\ c.stackFirstDynamicIndex \in Nat
  BY SMTT(40), Bodies DEF Sizes
<1>3. CASE refs = {}  BY SMTT(40), <1>3, KeepsSelf DEF FindReferencedLocalWithinCurrentBlock
<1>4. CASE refs # {}
  <2>1. r = [state |-> d, slot |-> slot]
    BY Zenon, <1>4 DEF FindReferencedLocalWithinCurrentBlock
  <2>2. /\ refs \in SUBSET Nat
        /\ \A i \in refs : /\ i \in DOMAIN c.stack /\ i > c.stackFirstDynamicIndex
                           /\ c.stack[i].slot = local
    BY SMTT(40), <1>1, ReferencesAbove DEF Height
  <2> HIDE DEF refs
  <2>3. Min(refs) \in refs /\ \A i \in refs : Min(refs) <= i  BY <1>4, <2>2, MinIn
  <2>4. type = c.stack[Min(refs)].type  BY <2>2, <2>3 DEF GetStackTypeFromBottom
  <2>5. ASSUME NEW i \in refs, LiveItem(S, i) PROVE c.stack[i].type = c.stack[l].type
    BY <1>1, <2>2, <2>5 DEF ItemsHeld, ItemHeld
  <2>6. ASSUME NEW i \in refs, LiveItem(S, i)
        PROVE  c.stack[i].type = type /\ type = c.stack[l].type
    <3>1. LiveItem(S, Min(refs))
      <4> SUFFICES ASSUME NEW k \in DOMAIN S, S[k].isPolymorphic
                   PROVE  Min(refs) <= S[k].blockStackIndex
        BY DEF LiveItem
      <4>3. i \in Nat /\ Min(refs) \in Nat  BY <2>2, <2>3
      <4> QED BY SMTT(40), <4>3, <2>3, <2>6, Bodies, ScopeTyped DEF LiveItem
    <3> QED BY <2>3, <2>4, <2>5, <2>6, <3>1
  <2> HIDE DEF type, n
  <2>7. /\ Keeps(c, a, S)
        /\ ~a.error => /\ Calm(c, a, S) /\ slot \in Nat
                       /\ slot + GetTypeNumSlots(type) <= a.maxStackSlots
                       /\ ItemHeld(a, [slot |-> slot, type |-> type])
    BY Allocated
  <2> HIDE DEF slot, a
  <2>8. Keeps(a, u, S) /\ (~u.error => Calm(a, u, S))  BY <2>7, Increments DEF Keeps
  <2> HIDE DEF u
  <2>9. CASE u.error
    <3>1. IsState(d) /\ d.error  BY <2>8, <2>9 DEF Keeps, Good, IsState, Fields
    <3>2. Keeps(c, d, S) /\ r.state = d /\ r.slot = slot
      <4> HIDE DEF d
      <4> QED BY <2>1, <3>1 DEF Keeps, Good, Follows
    <3> QED BY <3>1, <3>2
  <2>10. CASE ~u.error
    <3>1. Calm(a, u, S) /\ ~a.error  BY <2>8, <2>10 DEF Calm, Follows
    <3>2. Calm(c, u, S)  BY <2>7, <3>1, CalmTrans
    <3>3. /\ Good(u, S) /\ u.stack = c.stack /\ u.stackFirstDynamicIndex
              = c.stackFirstDynamicIndex /\ c.running = u.running
      BY <2>10, <3>2 DEF Calm, Follows, Same
    <3>4. ItemHeld(u, [slot |-> slot, type |-> type])
      <4>1. [slot |-> slot, type |-> type] \in Items
        BY <2>2, <2>3, <2>4, <2>7, <3>1, <1>1, ItemTyped DEF Items
      <4>2. /\ Same(a, u) /\ SameLocals(a, u) /\ a.maxStackSlots <= u.maxStackSlots
            /\ Good(a, S)
        BY <2>7, <2>10, <3>1 DEF Calm, Follows
      <4> QED BY <2>7, <3>1, <4>1, <4>2, HeldOn, <2>10, <3>3, Bodies DEF Sizes
    <3>5. Keeps(u, d, S) /\ ~d.error /\ d.maxStackSlots = u.maxStackSlots
      <4>1. /\ IsState(d) /\ ~d.error /\ Same(u, d) /\ d.maxStackSlots = u.maxStackSlots
            /\ d.slotMaxConstIndex = u.slotMaxConstIndex
            /\ d.slotMaxAllocatedIndexPlusOne = u.slotMaxAllocatedIndexPlusOne
            /\ d.regStackIndexPlusOne = u.regStackIndexPlusOne /\ d.written = u.written
            /\ d.stack = [i \in DOMAIN u.stack |->
                   IF i \in refs THEN [u.stack[i] EXCEPT !.slot = slot]
                   ELSE u.stack[i]]
        BY <2>10, <3>3 DEF Good, IsState, Fields, Same
      <4> HIDE DEF d
      <4>2. WritesHeld(d) /\ d.maxStackSlots \in Nat /\ u.maxStackSlots <= d.maxStackSlots
        BY <2>10, <3>3, <4>1, Bodies DEF WritesHeld, Sizes
      <4>3. \A j \in refs : j \in DOMAIN u.stack => j > u.stackFirstDynamicIndex  BY <2>2, <3>3
      <4>4. ASSUME NEW j \in refs, j \in DOMAIN u.stack, LiveItem(S, j)
            PROVE  ItemHeld(d, [slot |-> slot, type |-> u.stack[j].type])
        <5>1. u.stack[j].type = type  BY <2>6, <3>3, <4>4
        <5>2. SameLocals(u, d)
          <6> SUFFICES ASSUME NEW k \in 1 .. u.stackFirstDynamicIndex
                       PROVE  d.stack[k] = u.stack[k]
            BY DEF SameLocals
          <6> QED BY <4>1, <1>1, <3>3, <2>2 DEF ArgsAndLocals
        <5> QED BY ZenonT(60), <3>4, <4>1, <5>1, <5>2 DEF ItemHeld, Same, SameLocals
      <4>5. slot \in Nat  BY <2>7, <3>1
      <4>6. Keeps(u, d, S)  BY <2>10, <3>3, <4>1, <4>2, <4>3, <4>4, <4>5, Moved
      <4> QED BY <4>1, <4>6
    <3> HIDE DEF d
    <3>7. ASSUME c.running PROVE InFrame(slot, c.stack[l].type, d.maxStackSlots)
      BY <3>7, Bodies, AllLive, <2>3, <2>6, <3>4, <3>5 DEF RunsLive, ItemHeld
    <3> QED BY <2>1, <2>7, <3>1, <3>7, <3>2, <3>5, CalmKeeps, KeepsTrans
  <2> QED BY SMTT(40), <2>9, <2>10
<1> QED BY <1>3, <1>4

LEMMA Asserted ==
  ASSUME NEW c, NEW S, Good(c, S), NEW holds
  PROVE  Calm(c, Assert_(c, holds), S)
<1> DEFINE d == [c EXCEPT !.asserted = FALSE]
<1>1. /\ IsState(d) /\ d.error = c.error /\ Same(c, d) /\ d.stack = c.stack
      /\ d.maxStackSlots = c.maxStackSlots
      /\ d.slotMaxAllocatedIndexPlusOne = c.slotMaxAllocatedIndexPlusOne
      /\ d.slotMaxConstIndex = c.slotMaxConstIndex /\ d.written = c.written
      /\ d.regStackIndexPlusOne = c.regStackIndexPlusOne
  BY DEF Good, IsState, Fields, Same
<1> HIDE DEF d
<1>4. Calm(c, d, S)  BY <1>1, Quiet, Bodies DEF Sizes, NoLocalInRegister, WritesHeld, Same
<1> QED BY <1>4, KeepsSelf DEF d, Assert_

LEMMA LocalChanged ==
  ASSUME NEW c, NEW S, Good(c, S), NEW i, NEW v
  PROVE  Calm(c, [c EXCEPT !.locals[i] = v], S)
<1> DEFINE d == [c EXCEPT !.locals[i] = v]
<1>1. /\ IsState(d) /\ d.error = c.error /\ Same(c, d) /\ d.stack = c.stack
      /\ d.maxStackSlots = c.maxStackSlots
      /\ d.slotMaxAllocatedIndexPlusOne = c.slotMaxAllocatedIndexPlusOne
      /\ d.slotMaxConstIndex = c.slotMaxConstIndex /\ d.written = c.written
      /\ d.regStackIndexPlusOne = c.regStackIndexPlusOne
  BY DEF Good, IsState, Fields, Same
<1>2. ~c.error => Sizes(c) /\ NoLocalInRegister(c) /\ WritesHeld(c)  BY Bodies
<1> HIDE DEF d
<1>4. Calm(c, d, S)  BY SMTT(40), <1>1, <1>2, Quiet DEF Sizes, NoLocalInRegister, WritesHeld, Same
<1> QED BY <1>4 DEF d

\* A local is in the frame, and is on the stack as it was in an earlier state.
LEMMA LocalHeld ==
  ASSUME NEW c, NEW d, NEW S, Good(c, S), Good(d, S), Follows(c, d), ~d.error,
         NEW l \in 1 .. c.stackFirstDynamicIndex
  PROVE  /\ l \in DOMAIN c.stack /\ l \in DOMAIN d.stack /\ c.stack[l].slot \in Nat
         /\ d.stack[l] = c.stack[l] /\ c.stack[l].type \in ValueTypes
         /\ InFrame(c.stack[l].slot, c.stack[l].type, d.maxStackSlots)
<1>1. /\ ~c.error /\ d.stack[l] = c.stack[l] /\ c.maxStackSlots <= d.maxStackSlots
      /\ l \in 1 .. d.stackFirstDynamicIndex
  BY DEF Follows, Same, SameLocals
<1>2. /\ Sizes(c) /\ Sizes(d) /\ ArgsAndLocals(c) /\ ArgsAndLocals(d)
      /\ c.stack \in Seq(Items) /\ d.stack \in Seq(Items)
  BY <1>1, Bodies
<1>3. l \in DOMAIN c.stack /\ l \in DOMAIN d.stack  BY SMTT(40), <1>2, <1>1 DEF ArgsAndLocals, Sizes
<1>4. c.stack[l].slot \in Nat /\ GetTypeNumSlots(c.stack[l].type) \in {1, 2}
  BY <1>2, <1>3, ItemTyped
<1>5. c.stack[l].slot + GetTypeNumSlots(c.stack[l].type) <= d.maxStackSlots
  <2>1. c.stack[l].slot + GetTypeNumSlots(c.stack[l].type) <= c.slotFirstConstIndex
    BY <1>2 DEF ArgsAndLocals
  <2>2. /\ c.slotFirstConstIndex \in Nat /\ c.slotMaxConstIndex \in Nat
        /\ c.slotFirstDynamicIndex \in Nat /\ c.maxStackSlots \in Nat
        /\ c.slotFirstConstIndex <= c.slotMaxConstIndex
        /\ c.slotMaxConstIndex <= c.slotFirstDynamicIndex
        /\ c.slotFirstDynamicIndex <= c.maxStackSlots /\ d.maxStackSlots \in Nat
    BY <1>2 DEF Sizes
  <2> QED BY <1>1, <1>4, <2>1, <2>2
<1> QED BY <1>1, <1>2, <1>3, <1>4, <1>5 DEF InFrame, ArgsAndLocals

LEMMA PreservedLocal ==
  ASSUME NEW c, NEW S, S = Scopes(c), Good(c, S), ~c.error,
         NEW l \in 1 .. c.stackFirstDynamicIndex
  PROVE  Keeps(c, PreserveLocal(c, l), S)
<1> DEFINE slot == c.stack[l].slot
           r == FindReferencedLocalWithinCurrentBlock(c, slot)
           d == CopySlot(r.state, r.slot, slot, c.stack[l].type)
<1>2. PreserveLocal(c, l) = IF r.slot = slot THEN c ELSE d
  BY KeepsSelf, LocalHeld DEF PreserveLocal, GetSlotForStackIndex, GetStackTypeFromBottom, Keeps
<1>3. /\ Keeps(c, r.state, S)
      /\ \/ r.slot = slot /\ r.state = c
         \/ /\ ~r.state.error => r.slot \in Nat
            /\ ~r.state.error /\ c.running =>
                  InFrame(r.slot, c.stack[l].type, r.state.maxStackSlots)
  BY Referenced
<1> HIDE DEF r
<1>4. CASE r.slot = slot  BY <1>2, <1>4, KeepsSelf
<1>5. CASE r.slot # slot
  <2>2. Calm(r.state, d, S)
    <3> HIDE DEF slot
    <3> QED BY <1>3, <1>5, Written DEF CopySlot, Keeps, Follows, Same
  <2> HIDE DEF d
  <2> QED BY <1>2, <1>3, <1>5, <2>2, CalmKeeps, KeepsTrans
<1> QED BY <1>4, <1>5

LEMMA LocalsRun ==
  ASSUME NEW c, NEW M, ~c.error, c.stackFirstDynamicIndex = M, ~(Height(c) <= M), M \in Nat
  PROVE  \E go : /\ PreserveArgsAndLocals(c) = go[M] /\ go[0] = c
                 /\ \A k \in 1 .. M : go[k] = PreserveLocal(go[k - 1], k)
<1> DEFINE N == M
           Step(d, k) == PreserveLocal(d, k)
           Runs(g, n) == g = [k \in 0 .. n |-> IF k = 0 THEN c ELSE Step(g[k - 1], k)]
           R == {n \in Nat : \E g : Runs(g, n)}
<1>0. N \in Nat  OBVIOUS
<1>1. 0 \in R
  <2>1. Runs([k \in {0} |-> c], 0)  OBVIOUS
  <2> QED BY <2>1
<1>2. ASSUME NEW n \in Nat, n \in R PROVE n + 1 \in R
  <2>1. PICK g : Runs(g, n)  BY <1>2
  <2> HIDE DEF Step
  <2>2. Runs([k \in 0 .. n + 1 |-> IF k <= n THEN g[k] ELSE Step(g[n], n + 1)], n + 1)  BY <2>1
  <2> HIDE DEF Runs
  <2> QED BY <2>2
<1>3. N \in R
  <2> HIDE DEF R, N
  <2> QED BY <1>0, <1>1, <1>2, Induct
<1>4. PICK go : go = (CHOOSE g : Runs(g, N)) /\ Runs(go, N)  BY <1>3
<1>5. PreserveArgsAndLocals(c) = go[N]  BY <1>4 DEF PreserveArgsAndLocals
<1>6. go[0] = c /\ \A k \in 1 .. N : go[k] = Step(go[k - 1], k)
  <2> HIDE DEF Step, N
  <2>1. go = [k \in 0 .. N |-> IF k = 0 THEN c ELSE Step(go[k - 1], k)]  BY <1>4
  <2> QED BY <2>1, <1>0
<1> QED BY <1>5, <1>6

LEMMA PreservedArgsAndLocals ==
  ASSUME NEW c, NEW S, S = Scopes(c), Good(c, S)
  PROVE  Keeps(c, PreserveArgsAndLocals(c), S)
<1>1. CASE c.error \/ Height(c) <= c.stackFirstDynamicIndex
  BY <1>1, KeepsSelf DEF PreserveArgsAndLocals
<1>2. CASE ~(c.error \/ Height(c) <= c.stackFirstDynamicIndex)
  <2> DEFINE N == c.stackFirstDynamicIndex
  <2>0. N \in Nat  BY <1>2, Bodies DEF Sizes
  <2>1. PICK go : /\ PreserveArgsAndLocals(c) = go[N] /\ go[0] = c
                  /\ \A k \in 1 .. N : go[k] = PreserveLocal(go[k - 1], k)
    BY <1>2, <2>0, LocalsRun
  <2> DEFINE I == {n \in Nat : n <= N => Keeps(c, go[n], S)}
  <2>2. 0 \in I  BY <2>1, KeepsSelf
  <2>3. ASSUME NEW n \in Nat, n \in I PROVE n + 1 \in I
    <3> SUFFICES ASSUME n + 1 <= N PROVE Keeps(c, go[n + 1], S)
      OBVIOUS
    <3>1. n + 1 \in 1 .. N /\ (n + 1) - 1 = n /\ n <= N  BY <2>0
    <3>2. Keeps(c, go[n], S)  BY <2>3, <3>1
    <3>3. go[n + 1] = PreserveLocal(go[n], n + 1)  BY SMTT(40), <2>1, <3>1
    <3> HIDE DEF I
    <3>4. CASE go[n].error
      BY <3>4, <3>2, <3>3 DEF PreserveLocal, FindReferencedLocalWithinCurrentBlock
    <3>5. CASE ~go[n].error
      <4>2. Keeps(go[n], go[n + 1], S)
        BY <3>3, <3>5, PreservedLocal, <3>1, <3>2 DEF Keeps, Follows, Same, Scopes
      <4> QED BY <3>2, <4>2, KeepsTrans
    <3> QED BY <3>4, <3>5
  <2>4. N \in I
    <3> HIDE DEF I, N
    <3> QED BY <2>0, <2>2, <2>3, Induct
  <2> QED BY <2>0, <2>1, <2>4
<1> QED BY <1>1, <1>2

LEMMA LocalIsSet ==
  ASSUME NEW c, NEW S, S = Scopes(c), Good(c, S), ~c.error,
         NEW l \in 1 .. c.stackFirstDynamicIndex,
         c.running => /\ Height(c) > c.stackFirstDynamicIndex
                      /\ c.stack[Height(c)].type = c.stack[l].type
  PROVE  Keeps(c, SetLocal(c, l), S)
<1> DEFINE slot == c.stack[l].slot
           r == FindReferencedLocalWithinCurrentBlock(c, slot)
           s == r.state
           type == GetStackTopType(s)
           a == Assert_(s, slot # r.slot)
           p == CopySlot(a, r.slot, slot, type)
           q == CopySlot(p, slot, Source(s, 0, type), type)
           set == IF r.slot = slot THEN CopyStackTopToSlot(c, slot)
                  ELSE IF s.error THEN s ELSE q
<1>1. /\ l \in DOMAIN c.stack /\ slot \in Nat
      /\ InFrame(slot, c.stack[l].type, c.maxStackSlots)
  BY KeepsSelf, LocalHeld DEF Keeps
<1>2. SetLocal(c, l) = IF c.running THEN [set EXCEPT !.locals[l] = Operand(c, 0)] ELSE set
  BY SMTT(40), <1>1 DEF SetLocal, GetSlotForStackIndex, PreservedCopyTopSlot, PreserveCopySlot
<1>3. /\ Keeps(c, s, S)
      /\ \/ r.slot = slot /\ s = c
         \/ /\ ~s.error => r.slot \in Nat
            /\ ~s.error /\ c.running => InFrame(r.slot, c.stack[l].type, s.maxStackSlots)
  BY Referenced
<1>4. Height(c) = Len(c.stack) /\ Len(c.stack) \in Nat /\ c.stack \in Seq(Items)
      /\ DOMAIN c.stack = 1 .. Len(c.stack) /\ c.stackFirstDynamicIndex \in Nat
  BY Bodies DEF Height, Sizes
<1> HIDE DEF r, slot
<1>5. Keeps(c, set, S)
  <2>1. CASE r.slot = slot
    BY <1>4, <1>1, CopiedIndex, <2>1, CalmKeeps DEF GetStackTypeFromBottom, CopyStackTopToSlot
  <2>2. CASE r.slot # slot /\ s.error  BY <1>3, <2>2
  <2>3. CASE r.slot # slot /\ ~s.error
    <3>1. /\ Good(s, S) /\ Follows(c, s) /\ Types(s) = Types(c)
          /\ s.running = c.running /\ s.stackFirstDynamicIndex = c.stackFirstDynamicIndex
      BY <1>3, <2>3 DEF Keeps, Follows, Same
    <3>2. c.running => type = c.stack[l].type
      BY SMTT(40), <2>3, <3>1, Bodies, <1>4, TypesSeq DEF GetStackTopType, GetStackTypeFromTop
    <3> HIDE DEF type, s
    <3>3. Calm(s, a, S)  BY <3>1, Asserted
    <3>4. /\ Good(a, S) /\ ~a.error /\ a.running = c.running
          /\ s.maxStackSlots <= a.maxStackSlots
      BY <2>3, <3>1, <3>3 DEF Calm, Follows, Same
    <3> HIDE DEF a
    <3>5. Calm(a, p, S)
      <4>1. c.running => r.slot \in Nat /\ InFrame(r.slot, type, a.maxStackSlots)
        <5>1. s.maxStackSlots \in Nat /\ a.maxStackSlots \in Nat
          BY <2>3, <3>1, <3>4, Bodies DEF Sizes
        <5> QED BY <1>3, <2>3, <3>2, <3>4, <5>1, Widths DEF InFrame
      <4> QED BY <3>4, <4>1, Written DEF CopySlot
    <3>6. /\ Good(p, S) /\ ~p.error /\ p.running = c.running
          /\ Calm(s, p, S)
      BY <3>1, <3>3, <3>5, CalmTrans, <3>4 DEF Calm, Follows, Same
    <3> HIDE DEF p
    <3>7. Keeps(c, p, S)  BY <1>3, <3>6, CalmKeeps, KeepsTrans
    <3>8. Calm(p, q, S)  BY <3>6, <3>7, LocalHeld, <1>1, <3>2, Written DEF Keeps, slot, CopySlot
    <3> HIDE DEF q
    <3> QED BY <2>3, <3>7, <3>8, CalmKeeps, KeepsTrans
  <2> QED BY <2>1, <2>2, <2>3
<1> HIDE DEF set
<1>6. Calm(set, [set EXCEPT !.locals[l] = Operand(c, 0)], S)  BY <1>5, LocalChanged DEF Keeps
<1> QED BY <1>2, <1>5, <1>6, CalmKeeps, KeepsTrans

(***************************************************************************)
(* Values that are put in the places of others.                            *)
(***************************************************************************)
LEMMA Stored ==
  ASSUME NEW c, IsState(c), NEW loc, NEW type, NEW v
  PROVE  LET d == Put(c, loc, type, v)
         IN /\ IsState(d) /\ d.error = c.error /\ Same(c, d) /\ d.stack = c.stack
            /\ d.maxStackSlots = c.maxStackSlots
            /\ d.slotMaxAllocatedIndexPlusOne = c.slotMaxAllocatedIndexPlusOne
            /\ d.slotMaxConstIndex = c.slotMaxConstIndex
            /\ d.regStackIndexPlusOne = c.regStackIndexPlusOne
            /\ d.written \subseteq c.written \union Writes(SlotsOf(loc, type), FALSE)
<1>1. CASE c.error \/ ~c.running  BY <1>1 DEF Put, Same
<1>2. CASE ~(c.error \/ ~c.running)  BY <1>2 DEF Put, IsState, Fields, Same
<1> QED BY <1>1, <1>2

\* An item in the way goes to a temporary slot, above all the others.
LEMMA MovedAway ==
  ASSUME NEW c, NEW S, Good(c, S), ~c.error, NEW temp \in Nat,
         c.slotFirstConstIndex <= temp, NEW h \in DOMAIN c.stack,
         h > c.stackFirstDynamicIndex
  PROVE  Keeps(c, TouchSlot([CopyStackIndexToSlot(c, temp, h) EXCEPT !.stack[h].slot = temp],
                            temp + 1), S)
<1> DEFINE type == GetStackTypeFromBottom(c, h)
           v == Get(c, IF IsStackIndexInRegister(c, h) THEN RegisterFor(type)
                       ELSE GetSlotForStackIndex(c, h), type)
           w == Put(c, temp, type, v)
           d == TouchSlot([w EXCEPT !.stack[h].slot = temp], temp + 1)
<1>1. TouchSlot([CopyStackIndexToSlot(c, temp, h) EXCEPT !.stack[h].slot = temp], temp + 1)
        = d
  BY DEF CopyStackIndexToSlot, CopySlot
<1>2. /\ Sizes(c) /\ c.stack \in Seq(Items) /\ ArgsAndLocals(c) /\ WritesHeld(c)  BY Bodies
<1>3. type = c.stack[h].type  BY DEF GetStackTypeFromBottom
<1> HIDE DEF type, v
<1>4. /\ IsState(w) /\ w.error = c.error /\ Same(c, w) /\ w.stack = c.stack
      /\ w.maxStackSlots = c.maxStackSlots
      /\ w.slotMaxAllocatedIndexPlusOne = c.slotMaxAllocatedIndexPlusOne
      /\ w.slotMaxConstIndex = c.slotMaxConstIndex
      /\ w.regStackIndexPlusOne = c.regStackIndexPlusOne
      /\ w.written \subseteq c.written \union Writes(SlotsOf(temp, type), FALSE)
  BY Stored DEF Good
<1> HIDE DEF w
<1>5. /\ IsState(d) /\ ~d.error /\ Same(c, d)
      /\ d.maxStackSlots = Max({c.maxStackSlots, temp + 1 + 1})
      /\ d.slotMaxAllocatedIndexPlusOne = c.slotMaxAllocatedIndexPlusOne
      /\ d.slotMaxConstIndex = c.slotMaxConstIndex
      /\ d.regStackIndexPlusOne = c.regStackIndexPlusOne
      /\ d.written = w.written
      /\ d.stack = [c.stack EXCEPT ![h].slot = temp]
  <2> DEFINE m == [w EXCEPT !.stack[h].slot = temp]
  <2>1. /\ IsState(m) /\ ~m.error /\ Same(c, m) /\ m.maxStackSlots = c.maxStackSlots
        /\ m.slotMaxAllocatedIndexPlusOne = c.slotMaxAllocatedIndexPlusOne
        /\ m.slotMaxConstIndex = c.slotMaxConstIndex
        /\ m.regStackIndexPlusOne = c.regStackIndexPlusOne /\ m.written = w.written
        /\ m.stack = [c.stack EXCEPT ![h].slot = temp]
    BY <1>4 DEF IsState, Fields, Same
  <2>2. d = TouchSlot(m, temp + 1)  OBVIOUS
  <2> HIDE DEF d, m
  <2> QED BY SMTT(40), <2>1, <2>2 DEF TouchSlot, IsState, Fields, Same
<1> HIDE DEF d
<1>6. d.stack = [j \in DOMAIN c.stack |->
                    IF j \in {h} THEN [c.stack[j] EXCEPT !.slot = temp] ELSE c.stack[j]]
  BY <1>5
<1>7. /\ d.maxStackSlots \in Nat /\ c.maxStackSlots <= d.maxStackSlots
      /\ temp + 2 <= d.maxStackSlots
  <2>1. c.maxStackSlots \in Nat /\ temp + 1 + 1 \in Nat /\ temp + 1 + 1 = temp + 2
    BY <1>2 DEF Sizes
  <2> QED BY <1>5, <2>1, MaxOfTwo
<1>8. GetTypeNumSlots(type) \in {1, 2}  BY Widths
<1>9. WritesHeld(d)
  <2>1. \A s \in SlotsOf(temp, type) : s \in Int /\ s < d.maxStackSlots
    BY <1>7, <1>8 DEF SlotsOf
  <2>2. \A x \in Writes(SlotsOf(temp, type), FALSE) :
           x.slot \in Int /\ InRoom(x, d.maxStackSlots)
    BY <2>1, WritesIn
  <2> QED BY <1>2, <1>4, <1>5, <1>7, <2>2, WritesHeldOn DEF Sizes
<1>10. SameLocals(c, d)
  <2> SUFFICES ASSUME NEW l \in 1 .. c.stackFirstDynamicIndex
               PROVE  d.stack[l] = c.stack[l]
    BY DEF SameLocals
  <2> QED BY SMTT(40), <1>5, <1>2, KeepsSelf, LocalHeld DEF Sizes, Keeps
<1>11. ItemHeld(d, [slot |-> temp, type |-> type])
  <2>2. ASSUME NEW l \in 1 .. c.stackFirstDynamicIndex PROVE temp # c.stack[l].slot
    <3>2. /\ GetTypeNumSlots(c.stack[l].type) \in {1, 2}
          /\ c.stack[l].slot + GetTypeNumSlots(c.stack[l].type) <= c.slotFirstConstIndex
          /\ c.slotFirstConstIndex \in Nat
      BY <1>2, Widths DEF ArgsAndLocals, Sizes
    <3> QED BY <3>2, KeepsSelf, LocalHeld DEF Keeps
  <2>3. \A l \in 1 .. d.stackFirstDynamicIndex : temp # d.stack[l].slot
    BY <1>5, <1>10, <2>2 DEF Same, SameLocals
  <2> QED BY <2>3, <1>7, <1>8 DEF ItemHeld, InFrame
<1>12. \A j \in {h} : j \in DOMAIN c.stack => j > c.stackFirstDynamicIndex  OBVIOUS
<1>13. \A j \in {h} : j \in DOMAIN c.stack /\ LiveItem(S, j) =>
          ItemHeld(d, [slot |-> temp, type |-> c.stack[j].type])
  BY <1>3, <1>11
<1>14. Keeps(c, d, S)  BY <1>5, <1>6, <1>7, <1>9, <1>12, <1>13, Moved
<1> QED BY <1>1, <1>14

\* One value: t is the place it is to take, at i it is.
LEMMA CopiedSlot ==
  ASSUME NEW p, NEW S, Good(p.state, S), p.temp \in Nat, NEW t, NEW i \in Nat, NEW end \in Nat,
         ~p.state.error =>
            /\ p.state.slotFirstConstIndex <= p.temp
            /\ end <= Len(p.state.stack) /\ i \in 1 .. end
            /\ i > p.state.stackFirstDynamicIndex
            /\ LiveItem(S, i) => /\ t \in 1 .. i
                                 /\ Types(p.state)[t] = Types(p.state)[i]
  PROVE  LET q == CopyStackSlot(p, GetSlotForStackIndex(p.state, t), i, end)
         IN Keeps(p.state, q.state, S) /\ q.temp \in Nat /\ q.temp >= p.temp
<1> DEFINE d == p.state
           slot == GetSlotForStackIndex(d, t)
           Collides(j) ==
               LET extra == GetTypeNumSlots(d.stack[i].type) - 1
                   other == d.stack[j].slot
                   otherExtra == other + GetTypeNumSlots(d.stack[j].type) - 1
               IN slot \in {other, otherExtra} \/ slot + extra = other
           hit == { j \in i + 1 .. end : Collides(j) }
           away == TouchSlot([CopyStackIndexToSlot(d, p.temp, Min(hit))
                                 EXCEPT !.stack[Min(hit)].slot = p.temp], p.temp + 1)
           moved == IF hit = {} THEN d ELSE IF p.temp >= MaxSlots THEN Fail(d) ELSE away
           w == CopyStackIndexToSlot(moved, slot, i)
           e == [w EXCEPT !.stack[i].slot = slot]
           q == CopyStackSlot(p, slot, i, end)
<1>1. q = IF d.error \/ slot = d.stack[i].slot THEN p
          ELSE [state |-> e, temp |-> IF hit = {} THEN p.temp ELSE p.temp + 2]
  BY DEF CopyStackSlot
<1>2. q.temp \in Nat /\ q.temp >= p.temp
  <2> HIDE DEF e, hit, d, slot
  <2> HIDE DEF q
  <2> QED BY <1>1
<1>3. CASE d.error \/ slot = d.stack[i].slot
  <2>1. q = p  BY Zenon, <1>1, <1>3
  <2> QED BY SMTT(40), <1>2, <2>1, KeepsSelf
<1>4. CASE ~(d.error \/ slot = d.stack[i].slot)
  <2>1. q.state = e
    <3> HIDE DEF e, hit, d, slot, q
    <3> QED BY <1>1, <1>4
  <2>2. /\ d.slotFirstConstIndex <= p.temp /\ end <= Len(d.stack) /\ i \in 1 .. end
        /\ i > d.stackFirstDynamicIndex
        /\ LiveItem(S, i) => t \in 1 .. i /\ Types(d)[t] = Types(d)[i]
    BY <1>4
  <2>3. /\ d.stack \in Seq(Items) /\ Len(d.stack) \in Nat /\ Sizes(d) /\ ItemsHeld(d, S)
        /\ DOMAIN d.stack = 1 .. Len(d.stack)
    BY SMTT(40), <1>4, Bodies
  <2>4. Keeps(d, moved, S)
    <3>1. CASE hit = {}  BY ZenonT(60), <3>1, KeepsSelf
    <3>2. CASE hit # {} /\ p.temp >= MaxSlots  BY Zenon, <3>2, Fails DEF Good
    <3>3. CASE hit # {} /\ ~(p.temp >= MaxSlots)
      <4>1. hit \in SUBSET Nat /\ \A j \in hit : j \in i + 1 .. end  OBVIOUS
      <4> HIDE DEF hit
      <4>2. Min(hit) \in i + 1 .. end  BY <3>3, <4>1, MinIn
      <4>3. Min(hit) \in DOMAIN d.stack /\ Min(hit) > d.stackFirstDynamicIndex
        BY SMTT(40), <2>2, <2>3, <4>2 DEF Sizes
      <4>4. Keeps(d, away, S)
        <5>1. Good(d, S) /\ ~d.error /\ d.slotFirstConstIndex <= p.temp  BY <1>4, <2>2
        <5> HIDE DEF d
        <5> QED BY <4>3, <5>1, MovedAway
      <4> QED BY <3>3, <4>4
    <3> QED BY ZenonT(60), <3>1, <3>2, <3>3
  <2>5. slot \in Nat  BY <2>3, ItemTyped, Constants DEF GetSlotForStackIndex
  <2> HIDE DEF moved, hit
  <2>6. CASE moved.error
    <3>1. w = moved  BY <2>6 DEF CopyStackIndexToSlot
    <3>2. IsState(e) /\ e.error  BY <2>4, <2>6, <3>1 DEF Keeps, Good, IsState, Fields
    <3> QED BY <1>2, <2>1, <3>2 DEF Keeps, Good, Follows
  <2>7. CASE ~moved.error
    <3>1. /\ Good(moved, S) /\ Same(d, moved) /\ SameLocals(d, moved)
          /\ d.maxStackSlots <= moved.maxStackSlots /\ Types(moved) = Types(d)
      BY <2>4, <2>7 DEF Keeps, Follows
    <3>2. moved.stack \in Seq(Items) /\ Sizes(moved)  BY <2>7, <3>1, Bodies
    <3>3. i \in DOMAIN moved.stack /\ moved.stack[i].type = d.stack[i].type
          /\ i \in DOMAIN d.stack
      BY <2>2, <2>3, <3>1, <3>2, TypesSeq
    <3>4. ASSUME LiveItem(S, i)
          PROVE  ItemHeld(moved, [slot |-> slot, type |-> d.stack[i].type])
      <4>1. t \in 1 .. i /\ t \in DOMAIN d.stack /\ Types(d)[t] = Types(d)[i]
        BY <2>2, <2>3, <3>4
      <4>3. LiveItem(S, t)
        <5> SUFFICES ASSUME NEW k \in DOMAIN S, S[k].isPolymorphic
                     PROVE  t <= S[k].blockStackIndex
          BY DEF LiveItem
        <5>1. S[k].blockStackIndex \in Nat
          <6>1. S \in Seq(ScopeSet)  BY <1>4, Bodies
          <6> QED BY SMTT(40), <6>1, ScopeTyped
        <5> QED BY <5>1, <3>4, <4>1 DEF LiveItem
      <4>4. d.stack[t] \in Items /\ ItemHeld(d, d.stack[t])
            /\ d.stack[t] = [slot |-> slot, type |-> d.stack[i].type]
        BY <2>3, <4>1, <4>3, ItemTyped, <3>3 DEF ItemsHeld, Types, GetSlotForStackIndex
      <4>5. d.maxStackSlots \in Nat /\ moved.maxStackSlots \in Nat  BY <2>3, <3>2 DEF Sizes
      <4> QED BY <3>1, <4>4, <4>5, HeldOn
    <3>5. Calm(moved, w, S)
      <4>3. moved.running =>
               InFrame(slot, GetStackTypeFromBottom(moved, i), moved.maxStackSlots)
        BY <2>7, <3>1, <3>4, Bodies, AllLive, <3>3 DEF ItemHeld, RunsLive,
           GetStackTypeFromBottom
      <4> HIDE DEF slot
      <4> QED BY <2>5, <3>1, <4>3, CopiedIndex
    <3>6. /\ Good(w, S) /\ ~w.error /\ w.stack = moved.stack /\ Same(moved, w)
          /\ SameLocals(moved, w) /\ moved.maxStackSlots <= w.maxStackSlots
      BY <2>7, <3>5 DEF Calm, Follows
    <3> HIDE DEF w
    <3>8. ASSUME LiveItem(S, i)
          PROVE  ItemHeld(w, [slot |-> slot, type |-> w.stack[i].type])
      <4>2. [slot |-> slot, type |-> w.stack[i].type] \in Items
        BY <2>5, <3>2, <3>3, <3>6, ItemTyped DEF Items
      <4> QED BY SMTT(40), <3>6, <4>2, HeldOn, <3>3, <3>4, <3>8, <3>2, Bodies DEF Sizes
    <3>9. Keeps(w, e, S)
      <4> HIDE DEF slot
      <4>1. Good(w, S) /\ slot \in Nat  BY <2>5, <3>6
      <4> QED BY SMTT(40), <4>1, Reslotted, <3>8, <2>2, <3>1, <3>6 DEF Same
    <3> HIDE DEF e
    <3> QED BY <1>2, <2>1, <2>4, <3>5, CalmKeeps, KeepsTrans, <3>9
  <2> QED BY <2>6, <2>7
<1> QED BY <1>3, <1>4

LEMMA CopiesRun ==
  ASSUME NEW c, NEW target, NEW from, NEW tempSlot, NEW M, M \in Nat
  PROVE  \E go : CopyRun(c, target, from, M, tempSlot, go)
<1> DEFINE N == M
           Step(d, k) == CopyStackSlot(d, GetSlotForStackIndex(d.state, target + k),
                                       from + k, from + M)
           Runs(g, n) == g = [k \in 0 .. n |-> IF k = 0 THEN [state |-> c, temp |-> tempSlot]
                                               ELSE Step(g[k - 1], k)]
           R == {n \in Nat : \E g : Runs(g, n)}
<1>0. N \in Nat  OBVIOUS
<1>1. 0 \in R
  <2>1. Runs([k \in {0} |-> [state |-> c, temp |-> tempSlot]], 0)  OBVIOUS
  <2> QED BY <2>1
<1>2. ASSUME NEW n \in Nat, n \in R PROVE n + 1 \in R
  <2>1. PICK g : Runs(g, n)  BY <1>2
  <2> HIDE DEF Step
  <2>2. Runs([k \in 0 .. n + 1 |-> IF k <= n THEN g[k] ELSE Step(g[n], n + 1)], n + 1)  BY <2>1
  <2> HIDE DEF Runs
  <2> QED BY <2>2
<1>3. N \in R
  <2> HIDE DEF R, N
  <2> QED BY <1>0, <1>1, <1>2, Induct
<1>4. PICK go : go = (CHOOSE g : Runs(g, N)) /\ Runs(go, N)  BY <1>3
<1>5. CopyStackSlots(c, target, from, M, tempSlot) = [go[N].state EXCEPT !.stack = c.stack]
  BY <1>4 DEF CopyStackSlots
<1>6. go[0] = [state |-> c, temp |-> tempSlot] /\ \A k \in 1 .. N : go[k] = Step(go[k - 1], k)
  <2> HIDE DEF Step, N
  <2>1. go = [k \in 0 .. N |-> IF k = 0 THEN [state |-> c, temp |-> tempSlot]
                               ELSE Step(go[k - 1], k)]
    BY <1>4
  <2> QED BY <2>1, <1>0
<1> QED BY <1>5, <1>6 DEF CopyRun

LEMMA CopiedSlots ==
  ASSUME NEW c, NEW S, Good(c, S), NEW target \in Nat, NEW from \in Nat, NEW N \in Nat,
         NEW temp,
         ~c.error =>
            /\ temp \in Nat /\ c.slotFirstConstIndex <= temp
            /\ from + N <= Len(c.stack) /\ c.stackFirstDynamicIndex <= from
            /\ \A k \in 1 .. N : LiveItem(S, from + k) =>
                  target <= from /\ Types(c)[target + k] = Types(c)[from + k]
  PROVE  Keeps(c, CopyStackSlots(c, target, from, N, temp), S)
<1> DEFINE Step(p, k) == CopyStackSlot(p, GetSlotForStackIndex(p.state, target + k),
                                       from + k, from + N)
           Holds(p) == Keeps(c, p.state, S)
                         /\ (~c.error => p.temp \in Nat /\ c.slotFirstConstIndex <= p.temp)
<1>1. PICK go : /\ CopyStackSlots(c, target, from, N, temp)
                     = [go[N].state EXCEPT !.stack = c.stack]
                /\ go[0] = [state |-> c, temp |-> temp]
                /\ \A k \in 1 .. N : go[k] = Step(go[k - 1], k)
  <2>1. PICK go : CopyRun(c, target, from, N, temp, go)  BY CopiesRun
  <2> QED BY <2>1 DEF CopyRun
<1> DEFINE I == {n \in Nat : n <= N => Holds(go[n])}
<1>2. 0 \in I  BY <1>1, KeepsSelf
<1>3. ASSUME NEW n \in Nat, n \in I PROVE n + 1 \in I
  <2> SUFFICES ASSUME n + 1 <= N PROVE Holds(go[n + 1])
    OBVIOUS
  <2> DEFINE p == go[n]
             q == go[n + 1]
  <2>1. n + 1 \in 1 .. N /\ (n + 1) - 1 = n /\ n <= N  OBVIOUS
  <2>2. Holds(p)  BY <1>3, <2>1
  <2>3. q = Step(p, n + 1)  BY SMTT(40), <1>1, <2>1
  <2> HIDE DEF I, p, q
  <2>4. CASE p.state.error
    <3>1. q = p  BY Zenon, <2>3, <2>4 DEF CopyStackSlot
    <3> QED BY <2>2, <3>1 DEF p, q
  <2>5. CASE ~p.state.error
    <3>1. /\ ~c.error /\ Good(p.state, S) /\ Same(c, p.state) /\ Types(p.state) = Types(c)
          /\ p.temp \in Nat /\ c.slotFirstConstIndex <= p.temp
      BY <2>2, <2>5 DEF Keeps, Follows
    <3>2. /\ p.state.stackFirstDynamicIndex = c.stackFirstDynamicIndex
          /\ p.state.slotFirstConstIndex = c.slotFirstConstIndex
      BY <3>1 DEF Same
    <3>3. Len(p.state.stack) = Len(c.stack) /\ c.stackFirstDynamicIndex \in Nat
          /\ Len(c.stack) \in Nat /\ c.slotFirstConstIndex \in Nat
      <4> QED BY <3>1, Bodies, TypesSeq, <2>5 DEF Sizes
    <3> DEFINE i == from + (n + 1)
               t == target + (n + 1)
               end == from + N
    <3>4. /\ i \in Nat /\ end \in Nat /\ end <= Len(p.state.stack) /\ i \in 1 .. end
          /\ i > p.state.stackFirstDynamicIndex
      BY <3>1, <3>2, <3>3, <2>1
    <3>5. LiveItem(S, i) => t \in 1 .. i /\ Types(p.state)[t] = Types(p.state)[i]
      <4> SUFFICES ASSUME LiveItem(S, i)
                   PROVE  t \in 1 .. i /\ Types(p.state)[t] = Types(p.state)[i]
        OBVIOUS
      <4> QED BY SMTT(40), <3>1, <2>1
    <3>6. /\ Keeps(p.state, q.state, S) /\ q.temp \in Nat /\ q.temp >= p.temp
      <4>1. ~p.state.error =>
               /\ p.state.slotFirstConstIndex <= p.temp
               /\ end <= Len(p.state.stack) /\ i \in 1 .. end
               /\ i > p.state.stackFirstDynamicIndex
               /\ LiveItem(S, i) => /\ t \in 1 .. i
                                    /\ Types(p.state)[t] = Types(p.state)[i]
        BY <3>1, <3>2, <3>4, <3>5
      <4>2. q = CopyStackSlot(p, GetSlotForStackIndex(p.state, t), i, end)  BY <2>3
      <4> HIDE DEF t, i, end
      <4> QED BY <3>1, <3>4, <4>1, <4>2, CopiedSlot
    <3> QED BY SMTT(40), <2>2, <3>6, KeepsTrans, <3>1, <3>3 DEF q
  <2> QED BY <2>4, <2>5
<1>4. N \in I
  <2> HIDE DEF I
  <2> QED BY <1>2, <1>3, Induct
<1>5. Keeps(c, go[N].state, S)  BY <1>4
<1>6. Keeps(c, [go[N].state EXCEPT !.stack = c.stack], S)  BY <1>5, Restored DEF Keeps
<1> QED BY <1>1, <1>6

LEMMA ScopesWithin ==
  ASSUME NEW S \in Seq(ScopeSet), NEW T, NEW base, Nested(S, T, base), NEW k \in 1 .. Len(S)
  PROVE  S[k].blockStackIndex <= TopScope(S).blockStackIndex
<1>1. Len(S) \in Nat /\ Len(S) \in 1 .. Len(S)  OBVIOUS
<1>2. /\ S[k].blockStackIndex \in Nat /\ S[Len(S)].blockStackIndex \in Nat
      /\ S[Len(S)].exitStackIndex \in Nat
  BY <1>1, ScopeTyped
<1>3. CASE k = Len(S)  BY <1>2, <1>3 DEF TopScope
<1>4. CASE k # Len(S)  BY <1>1, <1>4, <1>2 DEF Nested, Inside, TopScope
<1> QED BY <1>3, <1>4

LEMMA Joined ==
  ASSUME NEW xs \in Seq(ValueTypes), NEW ys \in Seq(ValueTypes)
  PROVE  /\ xs \o ys \in Seq(ValueTypes) /\ Len(xs \o ys) = Len(xs) + Len(ys)
         /\ Len(xs) \in Nat /\ Len(ys) \in Nat
         /\ \A j \in 1 .. Len(xs) : (xs \o ys)[j] = xs[j]
         /\ \A j \in 1 .. Len(ys) : (xs \o ys)[Len(xs) + j] = ys[j]
OBVIOUS

LEMMA Resolved ==
  ASSUME NEW c, NEW S, S = Scopes(c), Good(c, S), NEW k, NEW isBranch, NEW xs, NEW values,
         ~c.error =>
            /\ k \in 2 .. Len(S) /\ xs \in Seq(ValueTypes)
            /\ values = IF S[k].opcode = "loop" /\ isBranch THEN S[k].type.params
                        ELSE S[k].type.rets
            /\ TopIs(S, Types(c), xs \o values)
  PROVE  Keeps(c, ResolveBlockResults(c, k, isBranch), S)
<1> DEFINE scope == c.block[k]
           isLoop == scope.opcode = "loop" /\ isBranch
           numParams == Len(scope.type.params)
           numValues == IF isLoop THEN numParams ELSE Len(scope.type.rets)
           records == scope.exitStackIndex + (IF isLoop THEN 0 ELSE numParams)
           height == GetNumBlockValuesOnStack(c)
           inFp == ~isLoop /\ IsFpType(GetStackTopType(c))
           d == IF inFp THEN CopyStackTopToRegister(c, FALSE) ELSE c
           end == IF inFp THEN Height(c) - 1 ELSE Height(c)
           rest == IF inFp THEN numValues - 1 ELSE numValues
           temp == AlignSlotToType(d.maxStackSlots, "i64")
           fails == c.error \/ (IF isBranch THEN height < numValues ELSE height # numValues)
           e == CopyStackSlots(d, records, end - rest, rest, temp)
<1>1. ResolveBlockResults(c, k, isBranch)
        = IF fails THEN Fail(c) ELSE IF numValues = 0 THEN c ELSE e
  BY DEF ResolveBlockResults
<1>2. CASE fails
  <2> HIDE DEF fails
  <2> QED BY <1>1, <1>2, Fails DEF Good
<1>3. CASE ~fails /\ numValues = 0
  <2> HIDE DEF fails
  <2> QED BY <1>1, <1>3, KeepsSelf
<1>4. CASE ~fails /\ numValues # 0
  <2>1. ResolveBlockResults(c, k, isBranch) = e
    <3> HIDE DEF fails, e, numValues
    <3> QED BY <1>1, <1>4
  <2>2. /\ ~c.error /\ (IF isBranch THEN ~(height < numValues) ELSE height = numValues)  BY <1>4
  <2>3. /\ k \in 2 .. Len(S) /\ xs \in Seq(ValueTypes) /\ TopIs(S, Types(c), xs \o values)
        /\ S \in Seq(ScopeSet) /\ Nested(S, Types(c), c.stackFirstDynamicIndex)
        /\ c.stack \in Seq(Items) /\ Len(S) \in Nat
    BY <2>2, Bodies
  <2>4. k \in 1 .. Len(S) /\ k - 1 \in 1 .. Len(S)  BY <2>3
  <2>5. S[k] = ScopeOf(scope)  BY <2>2, <2>4, BlockTop
  <2>6. /\ scope.opcode = S[k].opcode /\ scope.type = S[k].type
        /\ scope.exitStackIndex = S[k].exitStackIndex
    BY <2>5 DEF ScopeOf
  <2>7. /\ S[k].exitStackIndex \in Nat /\ S[k].stackIndex \in Nat
        /\ S[k].blockStackIndex \in Nat
        /\ S[k].type.params \in Seq(ValueTypes) /\ S[k].type.rets \in Seq(ValueTypes)
    BY <2>3, <2>4, ScopeTyped
  <2>8. /\ numParams \in Nat /\ Len(S[k].type.rets) \in Nat /\ numValues \in Nat
        /\ numValues = Len(values) /\ values \in Seq(ValueTypes) /\ records \in Nat
        /\ records = IF isLoop THEN S[k].exitStackIndex
                     ELSE S[k].exitStackIndex + Len(S[k].type.params)
        /\ values = IF isLoop THEN S[k].type.params ELSE S[k].type.rets
    <3>2. values = IF isLoop THEN S[k].type.params ELSE S[k].type.rets  BY <2>2, <2>6
    <3>3. numParams = Len(S[k].type.params)
          /\ numValues = IF isLoop THEN numParams ELSE Len(S[k].type.rets)
      BY <2>6
    <3>4. records = IF isLoop THEN S[k].exitStackIndex ELSE S[k].exitStackIndex + numParams
      BY <2>7, <2>6
    <3>5. numParams \in Nat /\ Len(S[k].type.rets) \in Nat  BY SMTT(40), <2>7, <3>3
    <3> HIDE DEF isLoop, numParams, numValues, records
    <3> QED BY <3>2, <3>3, <3>4, <3>5, <2>7
  <2>9. /\ height = Len(c.stack) - TopScope(S).blockStackIndex
        /\ TopScope(S).blockStackIndex \in Nat /\ Len(c.stack) \in Nat
        /\ TopScope(S).blockStackIndex <= Len(c.stack) /\ Height(c) = Len(c.stack)
        /\ c.stackFirstDynamicIndex <= TopScope(S).blockStackIndex
        /\ c.stackFirstDynamicIndex \in Nat
    BY SMTT(40), <2>2, <2>3, TopBelow, BlockTop DEF GetNumBlockValuesOnStack, Height
  <2> DEFINE from == end - rest
  <2> HIDE DEF scope, isLoop, numParams, numValues, records, height
  <2>10. /\ rest \in Nat /\ rest <= numValues /\ from = Len(c.stack) - numValues
         /\ from + rest <= Len(c.stack)
         /\ from \in Nat /\ TopScope(S).blockStackIndex <= from
    <3>1. height >= numValues  BY SMTT(40), <2>2, <2>8, <2>9
    <3>2. /\ numValues \in Nat /\ numValues # 0  BY <1>4, <2>8
    <3>3. \/ end = Len(c.stack) /\ rest = numValues
          \/ end = Len(c.stack) - 1 /\ rest = numValues - 1
      BY <2>9
    <3>4. rest \in Nat /\ rest <= numValues /\ end - rest = Len(c.stack) - numValues
          /\ end <= Len(c.stack) /\ end \in Int
      <4> HIDE DEF end, rest
      <4> QED BY SMTT(40), <2>9, <3>2, <3>3
    <3> HIDE DEF end, rest
    <3> QED BY SMTT(40), <2>9, <3>1, <3>2, <3>4
  <2> HIDE DEF rest, end, from
  <2>11. Keeps(c, d, S)  BY TopCopied, KeepsSelf
  <2> HIDE DEF inFp, d
  <2>12. ASSUME ~d.error
         PROVE  /\ temp \in Nat /\ d.slotFirstConstIndex <= temp
                /\ Len(d.stack) = Len(c.stack) /\ Types(d) = Types(c)
                /\ d.stackFirstDynamicIndex = c.stackFirstDynamicIndex
    <3>1. Good(d, S) /\ Same(c, d) /\ Types(d) = Types(c)  BY <2>11, <2>12 DEF Keeps, Follows
    <3>2. Sizes(d) /\ d.stack \in Seq(Items)  BY <2>12, <3>1, Bodies
    <3>3. d.maxStackSlots \in Nat /\ d.slotFirstConstIndex <= d.maxStackSlots
          /\ d.slotFirstConstIndex \in Nat
      BY SMTT(40), <3>2 DEF Sizes
    <3>4. temp \in Nat /\ d.maxStackSlots <= temp  BY <3>3, Widths
    <3> HIDE DEF temp
    <3> QED BY <3>1, <3>3, <3>4, <2>3, <3>2, TypesSeq DEF Same
  <2> HIDE DEF temp
  <2>13. ASSUME NEW j \in 1 .. rest, LiveItem(S, from + j)
         PROVE  records <= from /\ Types(c)[records + j] = Types(c)[from + j]
    <3>1. ~TopScope(S).isPolymorphic
      <4>2. S[Len(S)].isPolymorphic => from + j <= S[Len(S)].blockStackIndex
        BY <2>13, <2>3 DEF LiveItem
      <4> QED BY SMTT(40), <4>2, <2>9, <2>10 DEF TopScope
    <3>2. Records(Types(c), S[k - 1], S[k])  BY <2>2, <2>3, <3>1, AllLive
    <3>3. S[k].blockStackIndex <= from
      <4>1. S[k].blockStackIndex <= TopScope(S).blockStackIndex  BY <2>3, <2>4, ScopesWithin
      <4> QED BY SMTT(40), <2>7, <2>9, <2>10, <4>1
    <3>4. j \in 1 .. numValues  BY SMTT(40), <2>8, <2>10
    <3>5. Types(c)[records + j] = values[j]  BY ZenonT(60), <2>8, <3>2, <3>4 DEF Records, HasTypes
    <3>6. records <= from
      <4>3. /\ S[k].exitStackIndex \in Nat /\ Len(S[k].type.rets) \in Nat /\ from \in Nat
            /\ S[k].blockStackIndex <= from
            /\ \/ records = S[k].exitStackIndex
               \/ records = S[k].exitStackIndex + Len(S[k].type.params)
        BY SMTT(40), <2>7, <2>8, <2>10, <3>3
      <4> DEFINE x == S[k].exitStackIndex
                 m == Len(S[k].type.params)
                 n == Len(S[k].type.rets)
      <4>4. x \in Nat /\ m \in Nat /\ n \in Nat /\ x + m + n <= from /\ from \in Nat
        BY SMTT(40), <4>3, <3>2, <2>7 DEF Records
      <4>5. records = x \/ records = x + m  BY <4>3
      <4> HIDE DEF x, m, n
      <4> QED BY <4>5, <4>4
    <3>7. Types(c)[from + j] = values[j]
      <4> DEFINE bsi == TopScope(S).blockStackIndex
      <4>1. /\ Len(Types(c)) = bsi + Len(xs \o values) /\ HasTypes(Types(c), bsi, xs \o values)
            /\ Len(Types(c)) = Len(c.stack)
        BY <2>3, <3>1, TypesSeq DEF TopIs
      <4>2. /\ Len(xs \o values) = Len(xs) + numValues /\ Len(xs) \in Nat
            /\ (xs \o values)[Len(xs) + j] = values[j]
        BY SMTT(40), <2>3, <2>8, <3>4, Joined
      <4>3. from = bsi + Len(xs)
        <5>1. Len(c.stack) = bsi + (Len(xs) + numValues)  BY <4>1, <4>2
        <5>2. bsi \in Nat /\ numValues \in Nat /\ Len(xs) \in Nat  BY <2>8, <2>9, <4>2
        <5> HIDE DEF bsi
        <5> QED BY <5>1, <5>2, <2>10
      <4>4. Len(xs) + j \in 1 .. Len(xs \o values)  BY <2>8, <3>4, <4>2
      <4>5. Types(c)[bsi + (Len(xs) + j)] = values[j]  BY <4>1, <4>2, <4>4 DEF HasTypes
      <4> QED BY SMTT(40), <4>5, <2>9, <3>4, <4>2, <4>3
    <3> QED BY <3>5, <3>6, <3>7
  <2>14. Keeps(d, e, S)
    <3>1. Good(d, S)  BY <2>11 DEF Keeps
    <3>2. ~d.error =>
             /\ temp \in Nat /\ d.slotFirstConstIndex <= temp
             /\ from + rest <= Len(d.stack) /\ d.stackFirstDynamicIndex <= from
             /\ \A j \in 1 .. rest : LiveItem(S, from + j) =>
                   records <= from /\ Types(d)[records + j] = Types(d)[from + j]
      BY SMTT(40), <2>9, <2>10, <2>12, <2>13
    <3>3. e = CopyStackSlots(d, records, from, rest, temp)  BY DEF from
    <3> HIDE DEF e
    <3> QED BY ZenonT(60), <2>8, <2>10, <3>1, <3>2, <3>3, CopiedSlots
  <2> HIDE DEF e
  <2> QED BY <2>1, <2>11, <2>14, KeepsTrans
<1> QED BY <1>2, <1>3, <1>4

-----------------------------------------------------------------------------
(***************************************************************************)
(* The values of a return.                                                 *)
(***************************************************************************)
LEMMA ReturnsRun ==
  ASSUME NEW c, NEW M, M = Len(c.f.type.rets), M \in Nat
  PROVE  \E go : ReturnRun(c, M, go)
<1> DEFINE N == M
           Step(d, k) == ReturnValue(d, k)
           Runs(g, n) == g = [k \in 0 .. n |-> IF k = 0 THEN c ELSE Step(g[k - 1], k)]
           R == {n \in Nat : \E g : Runs(g, n)}
<1>0. N \in Nat  OBVIOUS
<1>1. 0 \in R
  <2>1. Runs([k \in {0} |-> c], 0)  OBVIOUS
  <2> QED BY <2>1
<1>2. ASSUME NEW n \in Nat, n \in R PROVE n + 1 \in R
  <2>1. PICK g : Runs(g, n)  BY <1>2
  <2> HIDE DEF Step
  <2>2. Runs([k \in 0 .. n + 1 |-> IF k <= n THEN g[k] ELSE Step(g[n], n + 1)], n + 1)  BY <2>1
  <2> HIDE DEF Runs
  <2> QED BY <2>2
<1>3. N \in R
  <2> HIDE DEF R, N
  <2> QED BY <1>0, <1>1, <1>2, Induct
<1>4. PICK go : go = (CHOOSE g : Runs(g, N)) /\ Runs(go, N)  BY <1>3
<1>5. ASSUME NEW isBranch \in BOOLEAN
      PROVE  \/ ReturnValues(c, isBranch) = Fail(c)
             \/ /\ ~c.error
                /\ LET copied == IF IsStackPolymorphic(c) THEN c ELSE go[N]
                   IN ReturnValues(c, isBranch) = IF isBranch THEN copied ELSE Pops(copied, N)
  BY <1>4 DEF ReturnValues
<1>6. go[0] = c /\ \A k \in 1 .. N : go[k] = Step(go[k - 1], k)
  <2> HIDE DEF Step, N
  <2>1. go = [k \in 0 .. N |-> IF k = 0 THEN c ELSE Step(go[k - 1], k)]  BY <1>4
  <2> QED BY <2>1, <1>0
<1> QED BY <1>5, <1>6 DEF ReturnRun

LEMMA ReturnsOne ==
  ASSUME NEW c, NEW S, Good(c, S), NEW i,
         ~c.error => i \in 1 .. Len(c.f.type.rets)
  PROVE  Calm(c, ReturnValue(c, i), S)
<1> DEFINE slot == (Len(c.f.type.rets) - i) * ioSlotCount
           d == CopyStackIndexToSlot(c, slot, Height(c) - i + 1)
<1>1. ~c.error /\ c.running =>
         slot \in Nat /\ InFrame(slot, GetStackTypeFromBottom(c, Height(c) - i + 1),
                               c.maxStackSlots)
  <2> SUFFICES ASSUME ~c.error
               PROVE  slot \in Nat
                      /\ \A type : InFrame(slot, type, c.maxStackSlots)
    OBVIOUS
  <2> DEFINE n == Len(c.f.type.rets)
  <2>1. Sizes(c)  BY Bodies
  <2>2. n \in Nat /\ n * 2 <= c.maxStackSlots /\ c.maxStackSlots \in Nat
    BY <2>1, Constants DEF Sizes, FuncTypes, ioSlotCount
  <2>3. i \in 1 .. n  OBVIOUS
  <2> HIDE DEF n
  <2>4. slot = (n - i) * 2  BY DEF n, ioSlotCount
  <2> HIDE DEF slot
  <2>5. slot \in Nat /\ slot + 2 <= c.maxStackSlots  BY <2>2, <2>3, <2>4
  <2>6. ASSUME NEW type PROVE slot + GetTypeNumSlots(type) <= c.maxStackSlots
    BY <2>2, <2>5, Widths
  <2> QED BY <2>5, <2>6 DEF InFrame
<1>2. Calm(c, d, S)
  <2> HIDE DEF slot
  <2> QED BY <1>1, CopiedIndex
<1>3. \A loc, type, v : Calm(d, Read(d, loc, type, v), S)
  <2> HIDE DEF d
  <2> QED BY <1>2, ReadCalm DEF Calm
<1> HIDE DEF d
<1> QED BY <1>2, <1>3, CalmTrans DEF ReturnValue, d

LEMMA SameScopes ==
  ASSUME NEW c, NEW d, Follows(c, d), ~d.error
  PROVE  Scopes(d) = Scopes(c)
BY DEF Follows, Same, Scopes

LEMMA PassedReturn ==
  ASSUME NEW c, NEW S, S = Scopes(c), Good(c, S)
  PROVE  /\ Keeps(c, ReturnValues(c, TRUE), S)
         /\ LET d == ReturnValues(c, FALSE) IN Good(d, S) /\ Follows(c, d)
<1>1. CASE c.error  BY <1>1, Fails DEF ReturnValues, Good, Keeps
<1>2. CASE ~c.error
  <2> DEFINE N == Len(c.f.type.rets)
  <2>1. N \in Nat  BY <1>2, Bodies, Constants DEF Sizes, FuncTypes
  <2>2. PICK go : ReturnRun(c, N, go)  BY <2>1, ReturnsRun
  <2> DEFINE I == {n \in Nat : n <= N => Calm(c, go[n], S)}
  <2>3. 0 \in I  BY <2>2, KeepsSelf DEF ReturnRun
  <2>4. ASSUME NEW n \in Nat, n \in I PROVE n + 1 \in I
    <3> SUFFICES ASSUME n + 1 <= N PROVE Calm(c, go[n + 1], S)
      OBVIOUS
    <3>1. n + 1 \in 1 .. N /\ (n + 1) - 1 = n /\ n <= N  BY <2>1
    <3>2. Calm(c, go[n], S)  BY <2>4, <3>1
    <3>3. go[n + 1] = ReturnValue(go[n], n + 1)  BY <2>2, <3>1 DEF ReturnRun
    <3> HIDE DEF I
    <3> QED BY <3>2, CalmTrans, <3>1, <3>3, ReturnsOne, <1>2 DEF Calm, Follows, Same
  <2>5. Calm(c, go[N], S)
    <3>1. N \in I
      <4> HIDE DEF I, N
      <4> QED BY <2>1, <2>3, <2>4, Induct
    <3> QED BY <2>1, <3>1
  <2> HIDE DEF N
  <2> DEFINE copied == IF IsStackPolymorphic(c) THEN c ELSE go[N]
  <2>6. Calm(c, copied, S)  BY <2>5, KeepsSelf
  <2>7. ASSUME NEW b \in BOOLEAN
        PROVE  \/ ReturnValues(c, b) = Fail(c)
               \/ ReturnValues(c, b) = IF b THEN copied ELSE Pops(copied, N)
    BY <2>2 DEF ReturnRun
  <2> HIDE DEF copied
  <2>9. Keeps(c, copied, S) /\ Keeps(c, Fail(c), S)  BY <2>6, CalmKeeps, Fails DEF Good
  <2>10. Good(Pops(copied, N), S) /\ Follows(c, Pops(copied, N))
    BY <1>2, <2>6, SameScopes, <2>1, PoppedAll, FollowsTrans DEF Calm, Drops
  <2> QED BY <2>7, <2>9, <2>10 DEF Keeps
<1> QED BY <1>1, <1>2

-----------------------------------------------------------------------------
(***************************************************************************)
(* The operands of an operation: ts are their types before it.             *)
(***************************************************************************)
LEMMA YieldsSelf ==
  ASSUME NEW c, NEW S, NEW ts, Good(c, S), ~c.error => TopIs(S, Types(c), ts)
  PROVE  Yields(c, c, S, ts)
BY KeepsSelf DEF Yields, Keeps

LEMMA YieldsGood ==
  ASSUME NEW c, NEW d, NEW S, NEW ts, Yields(c, d, S, ts)
  PROVE  Good(d, S) /\ Follows(c, d) /\ (~d.error => Scopes(d) = Scopes(c))
BY SameScopes DEF Yields

LEMMA YieldsKeeps ==
  ASSUME NEW c, NEW d, NEW e, NEW S, NEW ts, Good(c, S), Yields(c, d, S, ts),
         Keeps(d, e, S)
  PROVE  Yields(c, e, S, ts)
<1> QED BY FollowsTrans DEF Yields, Keeps, Follows

LEMMA YieldsCalm ==
  ASSUME NEW c, NEW d, NEW e, NEW S, NEW ts, Good(c, S), Yields(c, d, S, ts),
         Calm(d, e, S)
  PROVE  Yields(c, e, S, ts)
BY CalmKeeps, YieldsKeeps

LEMMA YieldsPushes ==
  ASSUME NEW c, NEW d, NEW e, NEW S, NEW ts \in Seq(ValueTypes), NEW type \in ValueTypes,
         Good(c, S), Yields(c, d, S, ts), Pushes(d, e, type, S)
  PROVE  Yields(c, e, S, ts \o <<type>>)
<1>2. ASSUME ~e.error, ~TopScope(S).isPolymorphic
      PROVE  TopIs(S, Types(e), ts \o <<type>>)
  <2> DEFINE T == Types(d)
             U == Types(e)
             b == TopScope(S).blockStackIndex
             us == ts \o <<type>>
  <2>1. ~d.error /\ U = Append(T, type) /\ Good(d, S)  BY <1>2 DEF Pushes, Follows, Yields
  <2>2. Len(T) = b + Len(ts) /\ HasTypes(T, b, ts)  BY <1>2, <2>1 DEF Yields, TopIs
  <2>3. b \in Nat /\ d.stack \in Seq(Items)  BY <2>1, TopBelow, Bodies
  <2> HIDE DEF T, U, b
  <2>5. /\ Len(U) = Len(T) + 1 /\ U[Len(T) + 1] = type
        /\ \A i \in 1 .. Len(T) : U[i] = T[i]
    BY <2>1, <2>3, TypesSeq
  <2>6. /\ Len(us) = Len(ts) + 1 /\ us[Len(ts) + 1] = type /\ Len(ts) \in Nat
        /\ \A i \in 1 .. Len(ts) : us[i] = ts[i]
    OBVIOUS
  <2> HIDE DEF us
  <2>7. ASSUME NEW j \in 1 .. Len(us) PROVE U[b + j] = us[j]
    <3>1. CASE j = Len(ts) + 1  BY <2>2, <2>3, <2>5, <2>6, <3>1
    <3>2. CASE j # Len(ts) + 1
      <4> QED BY SMTT(40), <2>2, <2>5, <2>6, <2>3, <2>7, <3>2 DEF HasTypes
    <3> QED BY <3>1, <3>2
  <2>8. Len(U) = b + Len(us)  BY <2>2, <2>3, <2>5, <2>6
  <2> QED BY <2>7, <2>8 DEF TopIs, HasTypes, U, us, b
<1> QED BY <1>2, FollowsTrans DEF Yields, Pushes, TopIs

LEMMA YieldsDrops ==
  ASSUME NEW c, NEW d, NEW e, NEW S, NEW ts \in Seq(ValueTypes), NEW us \in Seq(ValueTypes),
         Good(c, S), Yields(c, d, S, ts \o us), Drops(d, e, Len(us), S)
  PROVE  Yields(c, e, S, ts)
<1>2. ASSUME ~e.error, ~TopScope(S).isPolymorphic
      PROVE  TopIs(S, Types(e), ts)
  <2> DEFINE T == Types(d)
             U == Types(e)
             b == TopScope(S).blockStackIndex
             l == Len(e.stack)
  <2>1. /\ ~d.error /\ Good(d, S) /\ e.stack = SubSeq(d.stack, 1, Len(e.stack))
        /\ Len(e.stack) = Len(d.stack) - Len(us) /\ Good(e, S)
    BY <1>2 DEF Drops, Follows, Yields
  <2>2. Len(T) = b + Len(ts \o us) /\ HasTypes(T, b, ts \o us)  BY <1>2, <2>1 DEF Yields, TopIs
  <2>3. b \in Nat /\ d.stack \in Seq(Items) /\ e.stack \in Seq(Items)
    BY <1>2, <2>1, TopBelow, Bodies
  <2>4. /\ Len(T) = Len(d.stack) /\ Len(U) = l /\ l \in Nat
        /\ \A i \in 1 .. l : U[i] = e.stack[i].type
        /\ \A i \in 1 .. Len(d.stack) : T[i] = d.stack[i].type
    BY <2>3, TypesSeq
  <2>5. /\ Len(ts \o us) = Len(ts) + Len(us) /\ Len(ts) \in Nat /\ Len(us) \in Nat
        /\ \A j \in 1 .. Len(ts) : (ts \o us)[j] = ts[j]
    BY Joined
  <2>6. \A i \in 1 .. l : i \in 1 .. Len(d.stack) /\ e.stack[i] = d.stack[i]  BY <2>1, <2>3
  <2>7. l = Len(d.stack) - Len(us)  BY <2>1
  <2> HIDE DEF T, U, b, l
  <2>8. l = b + Len(ts)
    <3> DEFINE n == Len(ts)
               m == Len(us)
               h == Len(d.stack)
    <3>1. n \in Nat /\ m \in Nat /\ h = b + (n + m) /\ l = h - m  BY <2>2, <2>4, <2>5, <2>7
    <3> HIDE DEF n, m, h
    <3> QED BY <2>3, <3>1 DEF n
  <2>9. ASSUME NEW j \in 1 .. Len(ts) PROVE U[b + j] = ts[j]
    <3>1. b + j \in 1 .. l /\ j \in 1 .. Len(ts \o us)  BY <2>3, <2>5, <2>8
    <3>4. T[b + j] = d.stack[b + j].type /\ e.stack[b + j] = d.stack[b + j]  BY <2>4, <2>6, <3>1
    <3> QED BY <3>4, <2>2, <2>5, <3>1, <2>4 DEF HasTypes
  <2> QED BY <2>4, <2>8, <2>9 DEF TopIs, HasTypes, U, b
<1> QED BY <1>2, FollowsTrans DEF Yields, Drops, TopIs

\* One item is popped, whatever its type is taken to be.
LEMMA YieldsPop ==
  ASSUME NEW c, NEW d, NEW S, S = Scopes(c), NEW ts \in Seq(ValueTypes),
         NEW type \in ValueTypes, Good(c, S), Yields(c, d, S, ts \o <<type>>), NEW t
  PROVE  /\ Yields(c, Pop(d), S, ts) /\ Yields(c, PopType(d, t), S, ts)
<1>1. Good(d, S) /\ (~d.error => S = Scopes(d))  BY YieldsGood
<1>2. CASE d.error  BY SMTT(40), <1>1, <1>2, Fails DEF Pop, PopType, Good, Yields, Follows
<1>3. CASE ~d.error
  <2>3. Drops(d, Pop(d), 0 + 1, S) /\ Drops(d, PopType(d, t), 0 + 1, S)
    BY <1>1, Popped, PoppedType, DropsOne, <1>3, DropsNone
  <2>4. Len(<<type>>) = 0 + 1 /\ <<type>> \in Seq(ValueTypes)  OBVIOUS
  <2> QED BY <2>3, <2>4, YieldsDrops
<1> QED BY <1>2, <1>3

LEMMA PopsFailed ==
  ASSUME NEW c, IsState(c), c.error, NEW N \in Nat
  PROVE  IsState(Pops(c, N)) /\ Pops(c, N).error
<1> QED BY PoppedAll DEF Drops, Good, Follows

LEMMA YieldsPops ==
  ASSUME NEW c, NEW d, NEW S, S = Scopes(c), NEW ts \in Seq(ValueTypes),
         NEW us \in Seq(ValueTypes), Good(c, S), Yields(c, d, S, ts \o us)
  PROVE  Yields(c, Pops(d, Len(us)), S, ts)
<1>1. Good(d, S) /\ (~d.error => S = Scopes(d)) /\ Len(us) \in Nat  BY YieldsGood
<1>2. CASE d.error
  <2>1. IsState(Pops(d, Len(us))) /\ Pops(d, Len(us)).error  BY <1>1, <1>2, PopsFailed DEF Good
  <2> QED BY <2>1 DEF Yields, Good, Follows
<1>3. CASE ~d.error  BY <1>1, <1>3, PoppedAll, YieldsDrops
<1> QED BY <1>2, <1>3

\* op_MemGrow, op_MemCopy, op_MemFill and ContinueLoop_If take the top from
\* the register.
LEMMA YieldsTopInRegister ==
  ASSUME NEW c, NEW S, S = Scopes(c), NEW ts \in Seq(ValueTypes),
         NEW type \in ValueTypes, Good(c, S), Yields(c, c, S, ts \o <<type>>)
  PROVE  Yields(c, TopInRegister(c), S, ts)
<1> DEFINE d == CopyStackTopToRegister(c, FALSE)
           e == Read(d, Reg0SlotAlias, "i32", Operand(c, 0))
<1>1. Keeps(c, d, S)  BY TopCopied
<1>2. Calm(d, e, S)
  <2> HIDE DEF d
  <2> QED BY <1>1, ReadCalm DEF Keeps
<1>3. TopInRegister(c) = PopType(e, "i32")  BY DEF TopInRegister
<1> HIDE DEF d, e
<1>4. Yields(c, e, S, ts \o <<type>>)  BY <1>1, <1>2, YieldsKeeps, YieldsCalm
<1> QED BY <1>3, <1>4, YieldsPop

-----------------------------------------------------------------------------
(***************************************************************************)
(* Steps of the program: what it has in the innermost scope, and whether   *)
(* code there is reached, is not what it was.                              *)
(***************************************************************************)
LEMMA NestedAlike ==
  ASSUME NEW S \in Seq(ScopeSet), NEW R, NEW T, NEW base, Nested(S, T, base), Alike(S, R)
  PROVE  /\ Nested(R, T, base) /\ R # <<>>
         /\ TopScope(R).blockStackIndex = TopScope(S).blockStackIndex
<1>1. Len(S) \in Nat /\ Len(S) \in 1 .. Len(S) /\ S # <<>> /\ Len(R) = Len(S) /\ R \in Seq(ScopeSet)
  BY DEF Nested, Alike
<1>3. ASSUME NEW k \in 1 .. Len(R)
      PROVE  /\ base <= R[k].blockStackIndex
             /\ R[k].exitStackIndex <= R[k].blockStackIndex
             /\ R[k].stackIndex <= R[k].blockStackIndex
             /\ R[k].dead => R[k].isPolymorphic
  BY <1>1 DEF Alike, Nested
<1>4. ASSUME NEW k \in 1 .. Len(R), NEW j \in 1 .. k - 1
      PROVE  Inside(R[j], R[k])
  <2>1. k \in 1 .. Len(S) /\ j \in 1 .. Len(S) /\ j \in 1 .. Len(S) - 1  BY <1>1
  <2> QED BY <2>1 DEF Inside, Nested, Alike
<1>5. ASSUME NEW k \in 2 .. Len(R), ~R[k - 1].isPolymorphic
      PROVE  Records(T, R[k - 1], R[k])
  <2>1. k \in 1 .. Len(S) /\ k - 1 \in 1 .. Len(S) /\ k - 1 \in 1 .. Len(S) - 1
        /\ k \in 2 .. Len(S)
    BY <1>1
  <2>2. R[k - 1].types = S[k - 1].types /\ ~S[k - 1].isPolymorphic
        /\ R[k - 1].blockStackIndex = S[k - 1].blockStackIndex
    BY <1>5, <2>1 DEF Alike
  <2> QED BY SMTT(40), <2>2, <2>1 DEF Records, Nested, Alike
<1> QED BY <1>3, <1>4, <1>5, <1>1 DEF Nested, Alike, TopScope

LEMMA Regarded ==
  ASSUME NEW c, NEW d, NEW S, NEW R, Good(c, S), IsState(d), d.error = c.error,
         ~c.error => /\ SameFrame(c, d) /\ Alike(S, R) /\ BlocksHeld(d, R)
                     /\ RunsLive(d, R)
  PROVE  Good(d, R)
<1> SUFFICES ASSUME ~d.error PROVE Body(d, R)
  BY DEF Good
<1>1. Body(c, S) /\ SameFrame(c, d) /\ Alike(S, R) /\ BlocksHeld(d, R) /\ RunsLive(d, R)
      /\ S \in Seq(ScopeSet) /\ c.stack \in Seq(Items)
  BY Bodies
<1>4. Types(d) = Types(c)  BY <1>1 DEF SameFrame, Types
<1>5. Nested(R, Types(d), d.stackFirstDynamicIndex)
  BY <1>1, NestedAlike, <1>4 DEF Body, SameFrame
<1>6. ItemsHeld(d, R)
  <2> SUFFICES ASSUME NEW i \in DOMAIN d.stack, LiveItem(R, i) PROVE ItemHeld(d, d.stack[i])
    BY DEF ItemsHeld
  <2>1. LiveItem(S, i)
    <3> SUFFICES ASSUME NEW k \in DOMAIN S, S[k].isPolymorphic
                 PROVE  i <= S[k].blockStackIndex
      BY DEF LiveItem
    <3> QED BY <1>1 DEF Alike, LiveItem
  <2> QED BY <1>1, <2>1 DEF SameFrame, ItemHeld, Body, ItemsHeld
<1> QED
  BY <1>1, <1>5, <1>6 DEF Body, SameFrame, Sizes, WritesHeld, ArgsAndLocals, NoLocalInRegister

LEMMA AlikeSelf ==
  ASSUME NEW c, NEW S, Good(c, S), ~c.error
  PROVE  Alike(S, S) /\ SameFrame(c, c)
<1> QED BY Bodies DEF Alike, SameFrame, Nested

\* The values the program has are changed, or where the run is.
LEMMA Reblocked ==
  ASSUME NEW c, NEW d, NEW S, S = Scopes(c), Good(c, S), IsState(d), d.error = c.error,
         ~c.error => /\ SameFrame(c, d) /\ RunsLive(d, S)
                     /\ \E B : d.block \in Seq(B)
                     /\ Len(d.block) = Len(c.block)
                     /\ \A k \in 1 .. Len(c.block) :
                           /\ DOMAIN d.block[k] = ScopeFields
                           /\ ScopeOf(d.block[k]) = ScopeOf(c.block[k])
  PROVE  Good(d, S) /\ (~d.error => Scopes(d) = S)
<1>1. CASE c.error  BY <1>1, Regarded
<1>2. CASE ~c.error  BY SMTT(40), <1>2, Bodies, AlikeSelf, BlockTop, Regarded DEF Scopes, BlocksHeld
<1> QED BY <1>1, <1>2

LEMMA Retopped ==
  ASSUME NEW c, NEW d, NEW b, NEW S, S = Scopes(c), Good(c, S), ~c.error, Retops(c, d, b)
  PROVE  /\ Good(d, Scopes(d)) /\ Alike(S, Scopes(d)) /\ Block(d) = b
         /\ TopScope(Scopes(d)) = ScopeOf(b)
<1> USE DEF Retops
<1> DEFINE R == Scopes(d)
           n == Len(c.block)
<1>1. /\ n \in Nat /\ n >= 1 /\ Len(S) = n /\ DOMAIN c.block = 1 .. n
      /\ \A k \in 1 .. n : S[k] = ScopeOf(c.block[k])
      /\ Block(c) = c.block[n] /\ n \in 1 .. n
  BY BlockTop
<1>2. S \in Seq(ScopeSet) /\ BlocksHeld(c, S) /\ Nested(S, Types(c), c.stackFirstDynamicIndex)
  BY Bodies
<1>3. PICK B : c.block \in Seq(B)  BY <1>2 DEF BlocksHeld
<1>4. /\ d.block \in Seq(B \union {b}) /\ Len(d.block) = n /\ DOMAIN d.block = 1 .. n
      /\ d.block[n] = b /\ \A k \in 1 .. n : k # n => d.block[k] = c.block[k]
  BY <1>3, <1>1
<1>5. /\ DOMAIN R = 1 .. n /\ R[n] = ScopeOf(b)
      /\ \A k \in 1 .. n : k # n => R[k] = S[k]
  BY <1>1, <1>4 DEF Scopes
<1>6. ScopeOf(b) \in ScopeSet
  <2>1. S[n] \in ScopeSet /\ S[n] = ScopeOf(Block(c))  BY <1>1, <1>2
  <2> QED BY <2>1 DEF ScopeOf, ScopeSet
<1>7. \A k \in 1 .. n : R[k] \in ScopeSet
  <2> SUFFICES ASSUME NEW k \in 1 .. n PROVE R[k] \in ScopeSet
    OBVIOUS
  <2> QED BY <1>5, <1>6, <1>1, <1>2
<1>8. R \in Seq(ScopeSet) /\ Len(R) = n
  <2>1. R = [k \in 1 .. n |-> R[k]]  BY <1>5 DEF Scopes
  <2> HIDE DEF R, n
  <2> QED BY SMTT(40), <1>1, <1>7, <2>1
<1>9. R[n].isPolymorphic = b.isPolymorphic /\ R[n].dead = b.dead
      /\ R[n].opcode = S[n].opcode /\ R[n].type = S[n].type
      /\ R[n].blockStackIndex = S[n].blockStackIndex
      /\ R[n].exitStackIndex = S[n].exitStackIndex
      /\ R[n].stackIndex = S[n].stackIndex
      /\ (S[n].isPolymorphic => R[n].isPolymorphic)
  <2> HIDE DEF R, n
  <2> QED BY <1>1, <1>5 DEF ScopeOf
<1>10. \A k \in 1 .. n : S[k].dead => S[k].isPolymorphic  BY <1>1, <1>2 DEF Nested
<1> HIDE DEF R, n
<1>12. Alike(S, R)
  <2>1. ASSUME NEW k \in 1 .. n
        PROVE  /\ R[k].opcode = S[k].opcode /\ R[k].type = S[k].type
               /\ R[k].blockStackIndex = S[k].blockStackIndex
               /\ R[k].exitStackIndex = S[k].exitStackIndex
               /\ R[k].stackIndex = S[k].stackIndex
               /\ S[k].isPolymorphic => R[k].isPolymorphic
               /\ R[k].dead => R[k].isPolymorphic
    BY <1>9, <1>5, <1>10
  <2> QED BY <1>1, <1>8, <2>1, <1>5 DEF Alike
<1>13. TopScope(R) = ScopeOf(b) /\ Block(d) = b  BY <1>4, <1>5, <1>8 DEF TopScope, Block, Last
<1>14. BlocksHeld(d, R)
  <2>1. \A k \in DOMAIN c.block : DOMAIN c.block[k] = ScopeFields  BY <1>2 DEF BlocksHeld
  <2>2. \A k \in DOMAIN d.block : DOMAIN d.block[k] = ScopeFields  BY <1>1, <1>4, <2>1
  <2> QED BY <1>1, <1>4, <1>8, <2>2 DEF BlocksHeld
<1> QED BY <1>12, <1>13, <1>14, Regarded DEF R, Good, IsState, RunsLive, ScopeOf

LEMMA Evaluated ==
  ASSUME NEW c, Good(c, Scopes(c)), NEW n \in Nat, NEW ts \in Seq(ValueTypes), NEW vs
  PROVE  Retyped(c, Eval(c, n, ts, vs),
                 SubSeq(Block(c).types, 1, Len(Block(c).types)
                                             - Min({n, Len(Block(c).types)})) \o ts)
<1> DEFINE d == Eval(c, n, ts, vs)
           old == Block(c).types
           us == SubSeq(old, 1, Len(old) - Min({n, Len(old)})) \o ts
           S == Scopes(c)
<1>1. IsState(d) /\ d.error = c.error  BY DEF Good, IsState, Eval, Fields
<1>2. ASSUME ~c.error
      PROVE  /\ Good(d, Scopes(d)) /\ Alike(S, Scopes(d)) /\ SameFrame(c, d)
             /\ Block(d).isPolymorphic = Block(c).isPolymorphic
             /\ Block(d).types = us /\ Block(d).dead = Block(c).dead
             /\ d.running = c.running /\ d.goal = c.goal
  <2> DEFINE vals == IF ~c.running THEN Block(c).operands
                     ELSE SubSeq(Block(c).operands, 1, Len(Block(c).operands) - n) \o vs
             b == [Block(c) EXCEPT !.types = us, !.operands = vals]
  <2>1. /\ Len(c.block) \in DOMAIN c.block /\ Block(c) = c.block[Len(c.block)]
        /\ DOMAIN Block(c) = ScopeFields /\ TopScope(S) = ScopeOf(Block(c))
    BY <1>2, BlockTop
  <2>2. TopScope(S) \in ScopeSet /\ RunsLive(c, S) /\ S \in Seq(ScopeSet)
        /\ (TopScope(S).dead => TopScope(S).isPolymorphic)
    BY <1>2, Bodies, TopTyped DEF Nested, TopScope
  <2>3. old \in Seq(ValueTypes) /\ Block(c).dead \in BOOLEAN
        /\ Block(c).isPolymorphic \in BOOLEAN
        /\ (Block(c).dead => Block(c).isPolymorphic)
    BY <2>1, <2>2 DEF ScopeOf, ScopeSet
  <2>4. us \in Seq(ValueTypes)
    <3> DEFINE m == Min({n, Len(old)})
    <3> HIDE DEF m, old
    <3>3. SubSeq(old, 1, Len(old) - m) \in Seq(ValueTypes)
      <4>1. Len(old) - m \in 0 .. Len(old)  BY SMTT(40), MinOfTwo, <2>3 DEF m
      <4> QED BY <2>3, <4>1
    <3>4. us = SubSeq(old, 1, Len(old) - m) \o ts  BY DEF m
    <3> HIDE DEF us
    <3> QED BY <3>3, <3>4
  <2> HIDE DEF us, vals, old
  <2>5. d = [c EXCEPT !.block[Len(c.block)] =
                [@ EXCEPT !.types = us, !.operands = vals]]
    BY DEF Eval, us, vals, old, Operands
  <2> HIDE DEF d
  <2>6. /\ d.block = [c.block EXCEPT ![Len(c.block)] = b] /\ SameFrame(c, d)
        /\ d.running = c.running /\ d.goal = c.goal
    BY <2>1, <2>5 DEF Good, IsState, Fields, SameFrame
  <2>7. /\ DOMAIN b = ScopeFields /\ b.opcode = Block(c).opcode /\ b.type = Block(c).type
        /\ b.blockStackIndex = Block(c).blockStackIndex
        /\ b.exitStackIndex = Block(c).exitStackIndex
        /\ b.stackIndex = Block(c).stackIndex /\ b.types = us
        /\ b.dead = Block(c).dead /\ b.isPolymorphic = Block(c).isPolymorphic
    BY <2>1 DEF ScopeFields
  <2>8. d.running => d.goal.depth = 0 /\ ~b.isPolymorphic
    BY <2>1, <2>2, <2>6, <2>7 DEF RunsLive, ScopeOf
  <2> HIDE DEF b
  <2>9. Good(d, Scopes(d)) /\ Alike(S, Scopes(d)) /\ Block(d) = b
    <3>2. Retops(c, d, b)  BY <1>1, <1>2, <2>3, <2>4, <2>6, <2>7, <2>8 DEF Retops
    <3> QED BY <1>1, <1>2, <2>2, <3>2, Retopped
  <2> QED BY <2>6, <2>7, <2>9
<1> QED BY <1>1, <1>2 DEF Retyped

\* What is to be shown of a step for the invariant to hold after it.
LEMMA Becoming ==
  ASSUME IInv, NEW c, Good(c, Scopes(c)),
         ~c.error /\ ~c.done => /\ TopIs(Scopes(c), Types(c), Block(c).types)
                                /\ GoalIsOpen(c, Scopes(c)),
         Becomes(c)
  PROVE  IInv'
<1>1. CASE c.error
  <2> DEFINE d == [Fail(Blank(o.f)) EXCEPT !.overrun = c.overrun]
  <2>2. IsState(d) /\ d.f = o.f /\ d.written = {} /\ d.error
    BY DEF IsState, Blank, Fields, Fail
  <2>3. o' = d  BY <1>1 DEF Becomes
  <2> HIDE DEF d
  <2> QED BY <2>2, <2>3 DEF IInv, Good
<1>2. CASE ~c.error
  <2> DEFINE d == Tidy(c)
             S == Scopes(c)
  <2>1. o' = d  BY <1>2 DEF Becomes
  <2>2. /\ IsState(d) /\ ~d.error /\ Same(c, d) /\ d.stack = c.stack
        /\ d.maxStackSlots = c.maxStackSlots
        /\ d.slotMaxAllocatedIndexPlusOne = c.slotMaxAllocatedIndexPlusOne
        /\ d.slotMaxConstIndex = c.slotMaxConstIndex
        /\ d.regStackIndexPlusOne = c.regStackIndexPlusOne
        /\ d.written = {w \in c.written : ~InRoom(w, c.maxStackSlots)}
        /\ d.done = c.done
    BY <1>2 DEF Good, IsState, Tidy, Fields, Same
  <2>3. Sizes(c) /\ WritesHeld(c) /\ NoLocalInRegister(c)  BY <1>2, Bodies
  <2>4. d.written = {}  BY <2>3, <2>2 DEF WritesHeld
  <2> HIDE DEF d
  <2>5. Calm(c, d, S)
    <3>1. /\ NoLocalInRegister(d) /\ WritesHeld(d) /\ c.maxStackSlots \in Nat
          /\ c.slotMaxAllocatedIndexPlusOne \in 0 .. c.maxStackSlots
      BY SMTT(40), <2>2, <2>3, <2>4 DEF NoLocalInRegister, Same, WritesHeld, Sizes
    <3> HIDE DEF S
    <3> QED BY <2>2, <3>1, Quiet, <1>2 DEF S, Good, IsState
  <2>6. /\ Good(d, S) /\ Scopes(d) = S /\ Types(d) = Types(c) /\ Block(d) = Block(c)
        /\ d.f = c.f /\ d.goal = c.goal
    BY <2>2, <2>5, SameScopes DEF Calm, Types, Block, Same
  <2>8. ~d.done => TopIs(Scopes(d), Types(d), Block(d).types) /\ GoalIsOpen(d, Scopes(d))
    <3> SUFFICES ASSUME ~d.done
                 PROVE  TopIs(Scopes(d), Types(d), Block(d).types) /\ GoalIsOpen(d, Scopes(d))
      OBVIOUS
    <3> QED BY <1>2, <2>6, <2>2 DEF GoalIsOpen
  <2> HIDE DEF S
  <2> QED BY <2>1, <2>4, <2>6, <2>8, <2>3 DEF IInv, Sizes
<1> QED BY <1>1, <1>2

-----------------------------------------------------------------------------
(***************************************************************************)
(* Opcodes that begin and end in one scope.                                *)
(***************************************************************************)
LEMMA SeqSplit ==
  ASSUME NEW have \in Seq(ValueTypes), NEW ts \in Seq(ValueTypes), Len(ts) <= Len(have),
         Upper(have, Len(ts)) = ts
  PROVE  LET xs == SubSeq(have, 1, Len(have) - Len(ts))
         IN xs \in Seq(ValueTypes) /\ have = xs \o ts /\ Len(xs) = Len(have) - Len(ts)
<1> DEFINE l == Len(have)
           n == Len(ts)
           xs == SubSeq(have, 1, l - n)
<1>1. l \in Nat /\ n \in Nat /\ l - n \in 0 .. l  OBVIOUS
<1>2. /\ xs \in Seq(ValueTypes) /\ Len(xs) = l - n
      /\ \A i \in 1 .. l - n : xs[i] = have[i]
  BY <1>1
<1>3. /\ Len(xs \o ts) = l /\ xs \o ts \in Seq(ValueTypes)
      /\ \A i \in 1 .. l : (xs \o ts)[i] = IF i <= l - n THEN xs[i] ELSE ts[i - (l - n)]
  <2> HIDE DEF xs
  <2> QED BY <1>1, <1>2
<1>4. \A j \in 1 .. n : ts[j] = have[(l - n) + j]
  <2>1. Upper(have, n) = SubSeq(have, l - n + 1, l)  BY DEF Upper
  <2> HIDE DEF l, n
  <2>2. \A j \in 1 .. n : SubSeq(have, l - n + 1, l)[j] = have[(l - n) + j]  BY <1>1 DEF l
  <2> QED BY <2>1, <2>2 DEF n
<1> HIDE DEF xs, l, n
<1>5. ASSUME NEW i \in 1 .. l PROVE (xs \o ts)[i] = have[i]  BY SMTT(40), <1>1, <1>2, <1>3, <1>4
<1>6. have = xs \o ts
  <2> DEFINE ys == xs \o ts
  <2>1. ys \in Seq(ValueTypes) /\ Len(ys) = Len(have) /\ \A i \in 1 .. Len(have) : ys[i] = have[i]
    BY <1>3, <1>5 DEF l
  <2> HIDE DEF ys
  <2>2. have = ys  BY <2>1, SeqEqual
  <2> QED BY <2>2 DEF ys
<1> QED BY <1>2, <1>6 DEF xs, l, n

\* Operands of types ts lie above others, of types xs.
LEMMA OperandsLie ==
  ASSUME IInv, ~o.error, ~o.done, NEW ts \in Seq(ValueTypes), HasOperands(o, ts)
  PROVE  \E xs \in Seq(ValueTypes) :
            /\ TopIs(Scopes(o), Types(o), xs \o ts)
            /\ Block(o).dead \/ Block(o).types = xs \o ts
<1> DEFINE have == Block(o).types
           n == Min({Len(ts), Len(have)})
           S == Scopes(o)
<1>1. /\ Good(o, S) /\ TopIs(S, Types(o), have) /\ S \in Seq(ScopeSet) /\ S # <<>>
      /\ Nested(S, Types(o), o.stackFirstDynamicIndex)
  BY Bodies DEF IInv
<1>2. /\ TopScope(S) \in ScopeSet /\ TopScope(S) = ScopeOf(Block(o))
      /\ (TopScope(S).dead => TopScope(S).isPolymorphic)
  BY <1>1, BlockTop, TopTyped DEF Nested, TopScope
<1>3. have \in Seq(ValueTypes) /\ have = TopScope(S).types /\ Block(o).dead = TopScope(S).dead
  BY <1>2 DEF ScopeOf, ScopeSet
<1>4. (n = Len(ts) \/ Block(o).dead) /\ Upper(have, n) = Upper(ts, n)  BY DEF HasOperands
<1>5. CASE Block(o).dead  BY <1>2, <1>3, <1>5 DEF TopIs
<1>6. CASE ~Block(o).dead
  <2>1. Len(ts) \in Nat /\ Len(have) \in Nat  BY <1>3
  <2>2. n = Len(ts) /\ Len(ts) <= Len(have)  BY <1>4, <1>6, <2>1, MinOfTwo
  <2>3. Upper(ts, Len(ts)) = ts  BY <2>1 DEF Upper
  <2>4. Upper(have, Len(ts)) = ts  BY <1>4, <2>2, <2>3
  <2> HIDE DEF have, S
  <2>5. \E xs \in Seq(ValueTypes) : have = xs \o ts
    <3> DEFINE ys == SubSeq(have, 1, Len(have) - Len(ts))
    <3>0. have \in Seq(ValueTypes)  BY <1>3
    <3>1. ys \in Seq(ValueTypes) /\ have = ys \o ts  BY <3>0, <2>2, <2>4, SeqSplit
    <3> HIDE DEF ys
    <3> QED BY <3>1
  <2> QED BY <1>1, <2>5 DEF have, S
<1> QED BY <1>5, <1>6

\* GoalIsOpen looks at the state's goal and at little of its scopes.
LEMMA GoalStays ==
  ASSUME NEW c, NEW d, NEW S, NEW R, GoalIsOpen(c, S), Alike(S, R), d.goal = c.goal,
         S \in Seq(ScopeSet)
  PROVE  GoalIsOpen(d, R)
<1> SUFFICES ASSUME d.goal.depth # 0
             PROVE  /\ d.goal.depth \in 2 .. Len(R)
                    /\ ~R[d.goal.depth - 1].isPolymorphic
                    /\ d.goal.at \in {"end", "else"}
                    /\ d.goal.at = "else" => R[d.goal.depth].opcode = "if"
  BY DEF GoalIsOpen
<1> DEFINE k == d.goal.depth
<1>1. /\ k \in 2 .. Len(S) /\ ~S[k - 1].isPolymorphic /\ d.goal.at \in {"end", "else"}
      /\ d.goal.at = "else" => S[k].opcode = "if"
  BY DEF GoalIsOpen
<1> HIDE DEF k
<1>4. /\ R[k].opcode = S[k].opcode /\ Len(R) = Len(S)
      /\ R[k - 1].isPolymorphic = S[k - 1].isPolymorphic
  BY <1>1 DEF Alike
<1> QED BY <1>1, <1>4 DEF k

LEMMA Operates ==
  ASSUME IInv, ~o.error, ~o.done, NEW us \in Seq(ValueTypes), NEW rs \in Seq(ValueTypes),
         HasOperands(o, us), NEW n, n = Len(us), NEW d, NEW vs,
         \A xs \in Seq(ValueTypes) :
            TopIs(Scopes(o), Types(o), xs \o us) => Yields(o, d, Scopes(o), xs \o rs)
  PROVE  Evolved(d, Eval(d, n, rs, vs))
<1> DEFINE S == Scopes(o)
           e == Eval(d, n, rs, vs)
<1>1. PICK xs \in Seq(ValueTypes) : /\ TopIs(S, Types(o), xs \o us)
                                    /\ Block(o).dead \/ Block(o).types = xs \o us
  BY OperandsLie
<1>2. Yields(o, d, S, xs \o rs)  BY <1>1
<1>3. Good(d, S) /\ Follows(o, d) /\ (~d.error => Scopes(d) = S)  BY <1>2, YieldsGood
<1>4. CASE d.error
  <2>1. IsState(e) /\ e.error
    <3>1. IsState(d)  BY <1>3 DEF Good
    <3> QED BY <1>4, <3>1 DEF IsState, Eval, Fields
  <2> HIDE DEF e
  <2> QED BY <1>4, <2>1, <1>3 DEF e, Evolved, Good, IsState
<1>5. CASE ~d.error
  <2>0. n \in Nat  OBVIOUS
  <2> DEFINE have == Block(d).types
             new == SubSeq(have, 1, Len(have) - Min({n, Len(have)})) \o rs
  <2>1. Retyped(d, e, new)  BY <1>3, <1>5, <2>0, Evaluated
  <2>2. Block(d) = Block(o) /\ d.goal = o.goal /\ d.running = o.running /\ d.f = o.f
    BY <1>3, <1>5 DEF Follows, Same, Block
  <2> DEFINE R == Scopes(e)
  <2> HIDE DEF e, new
  <2>3. /\ Good(e, R) /\ Alike(S, R) /\ SameFrame(d, e) /\ ~e.error
        /\ Block(e).isPolymorphic = Block(d).isPolymorphic
        /\ Block(e).types = new /\ e.goal = d.goal /\ e.running = d.running
        /\ IsState(e) /\ e.error = d.error
    BY <1>3, <1>5, <2>1 DEF Retyped
  <2>4. /\ Types(e) = Types(d)
        /\ TopScope(R).isPolymorphic = Block(e).isPolymorphic
        /\ TopScope(S).isPolymorphic = Block(d).isPolymorphic
        /\ TopScope(R).blockStackIndex = TopScope(S).blockStackIndex
    <3>3. TopScope(R).blockStackIndex = TopScope(S).blockStackIndex
      <4>1. S \in Seq(ScopeSet) /\ Nested(S, Types(d), d.stackFirstDynamicIndex)
        BY <1>3, <1>5, Bodies
      <4> QED BY <2>3, <4>1, NestedAlike
    <3> QED BY <3>3, <2>3, <1>3, <1>5, BlockTop DEF ScopeOf, SameFrame, Types
  <2>5. TopIs(R, Types(e), Block(e).types)
    <3> SUFFICES ASSUME ~TopScope(R).isPolymorphic PROVE new = xs \o rs
      <4>1. TopIs(S, Types(d), xs \o rs)  BY <1>2, <1>5 DEF Yields
      <4> QED BY <2>3, <2>4, <4>1 DEF TopIs
    <3>2. ~Block(o).dead
      <4>1. Good(o, S) /\ S # <<>> /\ S \in Seq(ScopeSet)
            /\ Nested(S, Types(o), o.stackFirstDynamicIndex)
        BY Bodies DEF IInv
      <4>2. Len(S) \in 1 .. Len(S) /\ TopScope(S) = ScopeOf(Block(o))
        BY <4>1, TopTyped, BlockTop
      <4>3. TopScope(S).dead => TopScope(S).isPolymorphic  BY <4>1, <4>2 DEF Nested, TopScope
      <4> QED BY <4>2, <4>3, <2>2, <2>3, <2>4 DEF ScopeOf
    <3>3. have = xs \o us  BY <1>1, <2>2, <3>2
    <3>4. /\ Len(have) = Len(xs) + Len(us) /\ Len(xs) \in Nat /\ Len(us) \in Nat
          /\ \A j \in 1 .. Len(xs) : have[j] = xs[j] /\ have \in Seq(ValueTypes)
      BY <3>3, Joined
    <3>5. Min({n, Len(have)}) = n
      <4>1. Len(have) \in Nat /\ n <= Len(have)  BY <3>4
      <4> HIDE DEF have
      <4>2. \A a, b \in Nat : a <= b => Min({a, b}) = a  BY SMTT(40), MinOfTwo
      <4> QED BY SMTT(40), <2>0, <4>1, <4>2
    <3>6. SubSeq(have, 1, Len(have) - n) = xs
      <4> HIDE DEF have
      <4> QED BY <3>4, <3>3, Joined
    <3> QED BY <3>5, <3>6 DEF new
  <2>6. GoalIsOpen(e, R)  BY Bodies, <2>2, <2>3, GoalStays DEF IInv
  <2> QED BY <2>2, <2>3, <2>4, <1>5, <2>5, <2>6 DEF e, SameFrame, Evolved
<1> QED BY <1>4, <1>5

LEMMA Failing ==
  ASSUME IInv, NEW c, IsState(c), c.error, Becomes(c)
  PROVE  IInv'
BY Becoming DEF Good

LEMMA RegisterWritten ==
  ASSUME NEW c, NEW S, Good(c, S), NEW loc \in Registers, NEW type, NEW v
  PROVE  Calm(c, Put(c, loc, type, v), S)
<1> QED BY Written, Constants DEF Registers, InFrame, IsRegisterSlotAlias

LEMMA RegisterFits ==
  /\ \A type : RegisterFor(type) \in Registers
  /\ RegisterFor("i32") = Reg0SlotAlias /\ Reg0SlotAlias \in Registers
BY DEF RegisterFor, Registers, IsFpType, FpTypes

\* The result of an operation goes to a register.
LEMMA YieldsRegister ==
  ASSUME NEW c, NEW d, NEW S, NEW ts \in Seq(ValueTypes), NEW type \in ValueTypes, NEW v,
         Good(c, S), Yields(c, d, S, ts)
  PROVE  Yields(c, Put(PushRegister(d, type), RegisterFor(type), type, v), S,
                ts \o <<type>>)
<1> DEFINE e == PushRegister(d, type)
<1> HIDE DEF e
<1>2. Yields(c, e, S, ts \o <<type>>)  BY YieldsPushes, YieldsGood, PushedRegister DEF e
<1> QED BY <1>2, YieldsCalm, YieldsGood, RegisterFits, RegisterWritten DEF e

\* The result of an operation goes to a slot.
LEMMA YieldsSlot ==
  ASSUME NEW c, NEW d, NEW S, NEW ts \in Seq(ValueTypes), NEW type \in ValueTypes, NEW v,
         Good(c, S), Yields(c, d, S, ts)
  PROVE  Yields(c, Put(PushAllocatedSlot(d, type), FindSlots(d, type), type, v), S,
                ts \o <<type>>)
<1> DEFINE e == Put(PushAllocatedSlot(d, type), FindSlots(d, type), type, v)
<1> HIDE DEF e
<1> QED BY YieldsPushes, YieldsGood, PushedSlot DEF e

LEMMA NoneMore ==
  ASSUME NEW xs \in Seq(ValueTypes)
  PROVE  xs \o <<>> = xs /\ <<>> \in Seq(ValueTypes) /\ Len(<<>>) = 0
         /\ \A t \in ValueTypes : <<t>> \in Seq(ValueTypes) /\ Len(<<t>>) = 1
OBVIOUS

\* The last of the operands is the top of the stack.
LEMMA TopTypeIs ==
  ASSUME NEW c, NEW S, Good(c, S), ~c.error, ~TopScope(S).isPolymorphic,
         NEW xs \in Seq(ValueTypes), NEW t \in ValueTypes, TopIs(S, Types(c), xs \o <<t>>)
  PROVE  /\ Height(c) = Len(c.stack) /\ Height(c) > c.stackFirstDynamicIndex
         /\ Height(c) \in DOMAIN c.stack /\ c.stack[Height(c)].type = t
<1> DEFINE b == TopScope(S).blockStackIndex
           T == Types(c)
           ts == xs \o <<t>>
<1>1. /\ b \in Nat /\ c.stackFirstDynamicIndex \in Nat /\ c.stackFirstDynamicIndex <= b
      /\ c.stack \in Seq(Items)
  BY TopBelow, Bodies
<1>2. /\ Len(T) = Len(c.stack) /\ Height(c) = Len(c.stack) /\ Len(c.stack) \in Nat
      /\ \A i \in 1 .. Len(c.stack) : T[i] = c.stack[i].type
      /\ DOMAIN c.stack = 1 .. Len(c.stack)
  BY <1>1, TypesSeq
<1>3. Len(T) = b + Len(ts) /\ HasTypes(T, b, ts)  BY DEF TopIs
<1>4. Len(ts) = Len(xs) + 1 /\ Len(xs) \in Nat /\ ts[Len(ts)] = t  OBVIOUS
<1> HIDE DEF ts, T, b
<1> QED BY <1>2, <1>3, <1>4, <1>1 DEF HasTypes

\* What an opcode of one scope begins with.
LEMMA Begins ==
  ASSUME IInv, NEW opcode, NEW ts, Compiles(opcode, ts)
  PROVE  /\ ~o.error /\ ~o.done /\ HasOperands(o, ts) /\ Good(o, Scopes(o))
         /\ \A us : TopIs(Scopes(o), Types(o), us) => Yields(o, o, Scopes(o), us)
BY YieldsSelf DEF Compiles, IInv

LEMMA Steps ==
  ASSUME IInv, NEW opcode, NEW us \in Seq(ValueTypes), NEW rs \in Seq(ValueTypes),
         Compiles(opcode, us), NEW n, n = Len(us), NEW d, NEW vs, Turns(d, us, rs),
         Becomes(Eval(d, n, rs, vs))
  PROVE  IInv'
<1> DEFINE e == Eval(d, n, rs, vs)
<1>2. Evolved(d, e)  BY Operates, Begins DEF Turns
<1>3. Becomes(e)  OBVIOUS
<1> HIDE DEF e
<1> QED BY <1>3, Becoming, <1>2 DEF Evolved, Good

LEMMA ConstStep ==
  ASSUME IInv, NEW type \in ValueTypes, NEW v, Compile_Const(type, v)
  PROVE  IInv'
<1>1. Compiles("const", <<>>) /\ Becomes(Eval(PushConst(o, v, type), 0, <<type>>, <<v>>))
  BY DEF Compile_Const
<1>2. ASSUME NEW xs \in Seq(ValueTypes), TopIs(Scopes(o), Types(o), xs \o <<>>)
      PROVE  Yields(o, PushConst(o, v, type), Scopes(o), xs \o <<type>>)
  BY <1>1, <1>2, Begins, NoneMore, PushedConst, YieldsPushes
<1>3. Turns(PushConst(o, v, type), <<>>, <<type>>)  BY <1>2 DEF Turns
<1>4. <<>> \in Seq(ValueTypes) /\ <<type>> \in Seq(ValueTypes) /\ 0 = Len(<<>>)  OBVIOUS
<1> QED BY <1>1, <1>3, <1>4, Steps

LEMMA GetLocalStep ==
  ASSUME IInv, NEW i \in DOMAIN o.locals, Compile_GetLocal(i)
  PROVE  IInv'
<1> DEFINE item == o.stack[i]
           d == Push(o, item.type, item.slot)
           S == Scopes(o)
<1>1. Compiles("local.get", <<>>)
      /\ Becomes(Eval(d, 0, <<item.type>>, <<o.locals[i]>>))
  BY DEF Compile_GetLocal
<1>2. Good(o, S) /\ ~o.error  BY <1>1, Begins
<1>3. i \in 1 .. o.stackFirstDynamicIndex /\ o.stackFirstDynamicIndex \in Nat
      /\ o.stackFirstDynamicIndex <= Len(o.stack) /\ o.stack \in Seq(Items)
      /\ item.type \in ValueTypes
  BY <1>2, Bodies DEF ArgsAndLocals, Sizes
<1>4. i \in DOMAIN o.stack  BY <1>3
<1>5. item \in Items /\ item.slot \in Nat /\ item = [slot |-> item.slot, type |-> item.type]
  BY <1>3, <1>4, ItemTyped
<1> HIDE DEF item
<1>6. ~TopScope(S).isPolymorphic => ItemHeld(o, [slot |-> item.slot, type |-> item.type])
  <2> SUFFICES ASSUME ~TopScope(S).isPolymorphic PROVE ItemHeld(o, item)
    BY <1>5
  <2> QED BY <1>2, <1>4, AllLive DEF item
<1>7. Pushes(o, d, item.type, S)  BY <1>2, <1>3, <1>5, <1>6, Pushed
<1> HIDE DEF d
<1>8. ASSUME NEW xs \in Seq(ValueTypes), TopIs(Scopes(o), Types(o), xs \o <<>>)
      PROVE  Yields(o, d, Scopes(o), xs \o <<item.type>>)
  BY <1>1, <1>8, Begins, NoneMore, <1>2, <1>3, <1>7, YieldsPushes
<1>9. Turns(d, <<>>, <<item.type>>)  BY <1>8 DEF Turns
<1>10. <<>> \in Seq(ValueTypes) /\ <<item.type>> \in Seq(ValueTypes) /\ 0 = Len(<<>>)  BY <1>3
<1> QED BY <1>1, <1>9, <1>10, Steps

LEMMA LocalSet ==
  ASSUME IInv, NEW i \in DOMAIN o.locals, NEW opcode,
         Compiles(opcode, <<o.stack[i].type>>)
  PROVE  /\ o.stack[i].type \in ValueTypes
         /\ \A xs \in Seq(ValueTypes) :
              TopIs(Scopes(o), Types(o), xs \o <<o.stack[i].type>>) =>
                 Yields(o, SetLocal(o, i), Scopes(o), xs \o <<o.stack[i].type>>)
<1> DEFINE S == Scopes(o)
           type == o.stack[i].type
<1>1. Good(o, S) /\ ~o.error  BY Begins
<1>2. i \in 1 .. o.stackFirstDynamicIndex /\ type \in ValueTypes
  BY <1>1, Bodies DEF ArgsAndLocals
<1>3. ASSUME NEW xs \in Seq(ValueTypes), TopIs(S, Types(o), xs \o <<type>>)
      PROVE  Yields(o, SetLocal(o, i), S, xs \o <<type>>)
  <2>2. o.running => /\ Height(o) > o.stackFirstDynamicIndex
                     /\ o.stack[Height(o)].type = o.stack[i].type
    <3> SUFFICES ASSUME o.running
                 PROVE  /\ Height(o) > o.stackFirstDynamicIndex
                        /\ o.stack[Height(o)].type = type
      OBVIOUS
    <3> HIDE DEF type, S
    <3> QED BY <1>1, <1>2, <1>3, TopTypeIs, Bodies DEF RunsLive
  <2> QED BY <1>1, YieldsKeeps, <1>3, Begins, <1>2, <2>2, LocalIsSet
<1> QED BY <1>2, <1>3

LEMMA SetLocalStep ==
  ASSUME IInv, NEW i \in DOMAIN o.locals, Compile_SetLocal(i) \/ Compile_TeeLocal(i)
  PROVE  IInv'
<1> DEFINE type == o.stack[i].type
           d == SetLocal(o, i)
           S == Scopes(o)
<1>1. CASE Compile_SetLocal(i)
  <2>1. Compiles("local.set", <<type>>) /\ Becomes(Eval(Pop(d), 1, <<>>, <<>>))
    BY <1>1 DEF Compile_SetLocal
  <2>2. /\ type \in ValueTypes
        /\ \A xs \in Seq(ValueTypes) :
             TopIs(S, Types(o), xs \o <<type>>) => Yields(o, d, S, xs \o <<type>>)
    BY <2>1, LocalSet
  <2> HIDE DEF type, d
  <2>3. ASSUME NEW xs \in Seq(ValueTypes), TopIs(S, Types(o), xs \o <<type>>)
        PROVE  Yields(o, Pop(d), S, xs \o <<>>)
    BY <2>1, Begins, <2>2, <2>3, YieldsPop, NoneMore
  <2>4. Turns(Pop(d), <<type>>, <<>>)  BY <2>3 DEF Turns
  <2>5. <<>> \in Seq(ValueTypes) /\ <<type>> \in Seq(ValueTypes) /\ 1 = Len(<<type>>)  BY <2>2
  <2> QED BY <2>1, <2>4, <2>5, Steps
<1>2. CASE Compile_TeeLocal(i)
  <2>1. Compiles("local.tee", <<type>>)
        /\ Becomes(Eval(d, 1, <<type>>, <<Operand(o, 0)>>))
    BY <1>2 DEF Compile_TeeLocal
  <2>2. /\ type \in ValueTypes
        /\ \A xs \in Seq(ValueTypes) :
             TopIs(S, Types(o), xs \o <<type>>) => Yields(o, d, S, xs \o <<type>>)
    BY <2>1, LocalSet
  <2> HIDE DEF type, d
  <2>4. Turns(d, <<type>>, <<type>>)  BY <2>2 DEF Turns
  <2>5. <<type>> \in Seq(ValueTypes) /\ 1 = Len(<<type>>)  BY <2>2
  <2> QED BY <2>1, <2>4, <2>5, Steps
<1> QED BY <1>1, <1>2

LEMMA Singles ==
  ASSUME NEW t \in ValueTypes
  PROVE  <<t>> \in Seq(ValueTypes) /\ Len(<<t>>) = 1
OBVIOUS

LEMMA GlobalStep ==
  ASSUME IInv, NEW type \in ValueTypes, Compile_GetGlobal(type) \/ Compile_SetGlobal(type)
  PROVE  IInv'
<1> DEFINE S == Scopes(o)
<1>1. CASE Compile_GetGlobal(type)
  <2> DEFINE v == Fresh(o, 1)[1]
             d == Put(PushAllocatedSlot(o, type), FindSlots(o, type), type, v)
  <2>1. Compiles("global.get", <<>>) /\ Becomes(Eval(d, 0, <<type>>, <<v>>))
    BY <1>1 DEF Compile_GetGlobal
  <2> HIDE DEF v
  <2>2. ASSUME NEW xs \in Seq(ValueTypes), TopIs(S, Types(o), xs \o <<>>)
        PROVE  Yields(o, d, S, xs \o <<type>>)
    BY <2>1, <2>2, Begins, NoneMore, YieldsSlot
  <2> HIDE DEF d
  <2>3. Turns(d, <<>>, <<type>>)  BY <2>2 DEF Turns
  <2> QED BY <2>1, <2>3, NoneMore, Singles, Steps
<1>2. CASE Compile_SetGlobal(type)
  <2> DEFINE d == Pop(ReadOperand(o, 0, type))
  <2>1. Compiles("global.set", <<type>>) /\ Becomes(Eval(d, 1, <<>>, <<>>))
    BY <1>2 DEF Compile_SetGlobal
  <2>2. ASSUME NEW xs \in Seq(ValueTypes), TopIs(S, Types(o), xs \o <<type>>)
        PROVE  Yields(o, d, S, xs \o <<>>)
    BY <2>1, <2>2, Begins, ReadCalm, YieldsCalm, YieldsPop, NoneMore
  <2> HIDE DEF d
  <2>3. Turns(d, <<type>>, <<>>)  BY <2>2 DEF Turns
  <2> QED BY <2>1, <2>3, NoneMore, Singles, Steps
<1> QED BY <1>1, <1>2

LEMMA DropStep ==
  ASSUME IInv, NEW type \in ValueTypes, Compile_Drop(type)
  PROVE  IInv'
<1> DEFINE S == Scopes(o)
<1>1. Compiles("drop", <<type>>) /\ Becomes(Eval(Pop(o), 1, <<>>, <<>>))  BY DEF Compile_Drop
<1>2. ASSUME NEW xs \in Seq(ValueTypes), TopIs(S, Types(o), xs \o <<type>>)
      PROVE  Yields(o, Pop(o), S, xs \o <<>>)
  BY <1>1, <1>2, Begins, YieldsPop, NoneMore
<1>3. Turns(Pop(o), <<type>>, <<>>)  BY <1>2 DEF Turns
<1> QED BY <1>1, <1>3, NoneMore, Singles, Steps

LEMMA OperationsTyped ==
  ASSUME NEW types \in SUBSET ValueTypes,
         NEW op \in Operators(types) \union Loads(types) \union Stores(types)
                        \union Conversions(types)
  PROVE  OperationTyped(op)
<1>0. "i32" \in ValueTypes  BY DEF ValueTypes, IntTypes
<1>1. \A t, u \in ValueTypes : OperationTyped(Unary(t, u)) /\ OperationTyped(Binary(t, u))
                               /\ OperationTyped(CommutativeBinary(t, u))
  BY DEF Unary, Binary, CommutativeBinary, OperationTyped
<1>2. CASE op \in Operators(types)
  <2>1. PICK t \in ValueTypes, u \in ValueTypes :
           op = Unary(t, u) \/ op = Binary(t, u) \/ op = CommutativeBinary(t, u)
    <3>1. CASE op \in UNION { { Unary(t, t), Binary(t, t), CommutativeBinary(t, t),
                    Binary(t, "i32"), CommutativeBinary(t, "i32") } : t \in types }
      <4>1. PICK t \in types : op \in { Unary(t, t), Binary(t, t), CommutativeBinary(t, t),
                    Binary(t, "i32"), CommutativeBinary(t, "i32") }
        BY <3>1
      <4> QED BY <1>0, <4>1
    <3>2. CASE op \in { Unary(t, u) : t, u \in types \intersect IntTypes }
                     \union { Unary(t, u) : t, u \in types \intersect FpTypes }
      BY <3>2
    <3> QED BY <1>2, <3>1, <3>2 DEF Operators
  <2> QED BY <1>1, <2>1
<1>3. CASE op \in Loads(types)  BY <1>0, <1>1, <1>3 DEF Loads
<1>4. CASE op \in Stores(types)
  <2>1. PICK t \in types : op.operands = <<"i32", t>> /\ op.type = "none"  BY <1>4 DEF Stores
  <2> QED BY <1>0, <2>1 DEF OperationTyped
<1>5. CASE op \in Conversions(types)  BY <1>1, <1>5 DEF Conversions
<1> QED BY <1>2, <1>3, <1>4, <1>5

LEMMA OperatorStep ==
  ASSUME IInv, NEW opcode, NEW op, OperationTyped(op), Compiles(opcode, op.operands),
         NEW c, Keeps(o, c, Scopes(o)), Becomes(Operator(c, op))
  PROVE  IInv'
<1> DEFINE S == Scopes(o)
           c1 == IF IsFpType(GetStackTopType(c)) /\ op.type \in IntTypes
                 THEN PreserveRegisterIfOccupied(c, op.type) ELSE c
           topReg == IsStackTopInRegister(c1)
           nextReg == op.stackOffset # 0 /\ IsStackTopMinus1InRegister(c1)
           variant == IF op.stackOffset = 0 THEN IF topReg THEN 0 ELSE 1
                      ELSE IF topReg THEN IF nextReg THEN 3 ELSE 0
                      ELSE IF nextReg THEN IF 1 \in op.operations THEN 1 ELSE 0
                      ELSE 2
           c2 == IF topReg \/ nextReg THEN c1 ELSE PreserveRegisterIfOccupied(c1, op.type)
           n == Len(op.operands)
           read == ReadOperands(c2, op.operands)
           popped == Pops(read, n)
           v == Fresh(c, 1)[1]
           pushed == Put(PushRegister(popped, op.type), RegisterFor(op.type), op.type, v)
<1>1. Operator(c, op) =
        IF c2.error \/ variant \notin op.operations THEN Fail(c)
        ELSE IF op.type = "none" THEN Eval(popped, n, <<>>, <<>>)
        ELSE Eval(pushed, n, <<op.type>>, <<v>>)
  BY DEF Operator
<1>2. Good(o, S) /\ Good(c, S)  BY Begins DEF Keeps
<1>3. Keeps(o, c1, S)  BY <1>2, Preserved, KeepsTrans
<1>4. Keeps(o, c2, S)
  <2> HIDE DEF c1
  <2>2. Keeps(c1, c2, S)  BY Preserved, KeepsSelf, <1>3 DEF Keeps
  <2> HIDE DEF c2
  <2> QED BY <1>2, <1>3, <2>2, KeepsTrans
<1> HIDE DEF c1, c2, topReg, nextReg, variant
<1>5. CASE c2.error \/ variant \notin op.operations
  BY <1>1, <1>5, <1>2, Fails, Failing DEF Good
<1>6. CASE ~(c2.error \/ variant \notin op.operations)
  <2>1. op.operands \in Seq(ValueTypes) /\ op.type \in ValueTypes \union {"none"}
    BY DEF OperationTyped
  <2>2. Calm(c2, read, S) /\ ~read.error  BY <1>4, ReadCalm, <1>6 DEF Keeps, Calm
  <2> HIDE DEF read
  <2>3. ASSUME NEW xs \in Seq(ValueTypes), TopIs(S, Types(o), xs \o op.operands)
        PROVE  Yields(o, popped, S, xs)
    <3>2. Yields(o, read, S, xs \o op.operands)
      BY <1>2, <1>4, <2>2, YieldsKeeps, YieldsCalm, <2>3, Begins
    <3> QED BY <1>2, <2>1, <2>2, <3>2, YieldsPops
  <2> HIDE DEF popped
  <2>4. CASE op.type = "none"
    <3>1. Becomes(Eval(popped, n, <<>>, <<>>))  BY <1>1, <1>6, <2>4
    <3>2. Turns(popped, op.operands, <<>>)
      <4>1. ASSUME NEW xs \in Seq(ValueTypes), TopIs(S, Types(o), xs \o op.operands)
            PROVE  Yields(o, popped, S, xs \o <<>>)
        BY <2>3, <4>1, NoneMore
      <4> QED BY <4>1 DEF Turns
    <3> QED BY <2>1, <3>1, <3>2, NoneMore, Steps
  <2>5. CASE op.type # "none"
    <3>0. op.type \in ValueTypes  BY <2>1, <2>5
    <3>1. Becomes(Eval(pushed, n, <<op.type>>, <<v>>))  BY <1>1, <1>6, <2>5
    <3> HIDE DEF v
    <3>2. Turns(pushed, op.operands, <<op.type>>)
      <4>1. ASSUME NEW xs \in Seq(ValueTypes), TopIs(S, Types(o), xs \o op.operands)
            PROVE  Yields(o, pushed, S, xs \o <<op.type>>)
        BY <2>3, <4>1, <1>2, <3>0, YieldsRegister
      <4> HIDE DEF pushed
      <4> QED BY <4>1 DEF Turns
    <3> HIDE DEF pushed
    <3> QED BY <2>1, <3>0, <3>1, <3>2, Singles, Steps
  <2> QED BY <2>4, <2>5
<1> QED BY SMTT(40), <1>5, <1>6

LEMMA TableStep ==
  ASSUME IInv, NEW types \in SUBSET ValueTypes,
         \/ \E op \in Operators(types) : Compile_Operator(op)
         \/ \E op \in Loads(types) \union Stores(types) : Compile_Load_Store(op)
  PROVE  IInv'
<1>1. CASE \E op \in Operators(types) : Compile_Operator(op)
  <2>1. PICK op \in Operators(types) : Compile_Operator(op)  BY <1>1
  <2>2. Compiles("operator", op.operands) /\ Becomes(Operator(o, op))
    BY <2>1 DEF Compile_Operator
  <2>3. OperationTyped(op)  BY OperationsTyped
  <2> QED BY <2>2, <2>3, OperatorStep, Begins, KeepsSelf
<1>2. CASE \E op \in Loads(types) \union Stores(types) : Compile_Load_Store(op)
  <2>1. PICK op \in Loads(types) \union Stores(types) : Compile_Load_Store(op)  BY <1>2
  <2> DEFINE c == IF IsFpType(op.type) THEN PreserveRegisterIfOccupied(o, "f64") ELSE o
  <2>2. Compiles("memory", op.operands) /\ Becomes(Operator(c, op))
    BY <2>1 DEF Compile_Load_Store
  <2>3. OperationTyped(op)  BY OperationsTyped
  <2>4. Keeps(o, c, Scopes(o))  BY <2>2, Begins, KeepsSelf, Preserved
  <2> HIDE DEF c
  <2> QED BY <2>2, <2>3, <2>4, OperatorStep
<1> QED BY <1>1, <1>2

LEMMA ConvertStep ==
  ASSUME IInv, NEW types \in SUBSET ValueTypes, NEW op \in Conversions(types),
         Compile_Convert(op)
  PROVE  IInv'
<1> DEFINE S == Scopes(o)
           from == op.operands[1]
           v == Fresh(o, 1)[1]
           popped == Pop(ReadOperand(o, 0, from))
           inSlot == Put(PushAllocatedSlot(popped, op.type), FindSlots(popped, op.type),
                         op.type, v)
           inRegister == Put(PushRegister(popped, op.type), RegisterFor(op.type), op.type, v)
           pushed == IF IsRegisterAllocated(o, RegisterFor(op.type)) THEN inSlot
                     ELSE inRegister
<1>1. PICK t \in ValueTypes, u \in ValueTypes : op.operands = <<t>> /\ op.type = u
  BY DEF Conversions, Unary
<1>2. Compiles("convert", op.operands) /\ Becomes(Eval(pushed, 1, <<op.type>>, <<v>>))
  BY DEF Compile_Convert
<1> HIDE DEF v
<1>3. ASSUME NEW xs \in Seq(ValueTypes), TopIs(S, Types(o), xs \o <<t>>)
      PROVE  Yields(o, pushed, S, xs \o <<u>>)
  <2>1. Good(o, S) /\ Yields(o, o, S, xs \o <<t>>)  BY <1>1, <1>2, <1>3, Begins
  <2>3. Yields(o, popped, S, xs)  BY <2>1, YieldsPop, ReadCalm, YieldsCalm
  <2> HIDE DEF popped
  <2>4. Yields(o, inSlot, S, xs \o <<u>>) /\ Yields(o, inRegister, S, xs \o <<u>>)
    BY <1>1, <2>1, <2>3, YieldsSlot, YieldsRegister
  <2> HIDE DEF inSlot, inRegister
  <2> QED BY <2>4
<1> HIDE DEF pushed
<1>4. Turns(pushed, <<t>>, <<u>>)  BY <1>3 DEF Turns
<1> QED BY <1>1, <1>2, <1>4, Singles, Steps

LEMMA MemoryStep ==
  ASSUME IInv, Compile_Memory_Size \/ Compile_Memory_Grow \/ Compile_Memory_CopyFill
  PROVE  IInv'
<1> DEFINE S == Scopes(o)
           v == Fresh(o, 1)[1]
<1>0. "i32" \in ValueTypes /\ RegisterFor("i32") = Reg0SlotAlias
  BY RegisterFits DEF ValueTypes, IntTypes
<1>1. CASE Compile_Memory_Size
  <2> DEFINE c == PreserveRegisterIfOccupied(o, "i32")
             d == Put(PushRegister(c, "i32"), Reg0SlotAlias, "i32", v)
  <2>1. Compiles("memory.size", <<>>) /\ Becomes(Eval(d, 0, <<"i32">>, <<v>>))
    BY <1>1 DEF Compile_Memory_Size
  <2> HIDE DEF v
  <2>2. ASSUME NEW xs \in Seq(ValueTypes), TopIs(S, Types(o), xs \o <<>>)
        PROVE  Yields(o, d, S, xs \o <<"i32">>)
    <3>1. Good(o, S) /\ Yields(o, o, S, xs)  BY <2>1, <2>2, Begins, NoneMore
    <3>2. Yields(o, c, S, xs)  BY <3>1, Preserved, YieldsKeeps
    <3> HIDE DEF c
    <3> QED BY <1>0, <3>1, <3>2, YieldsRegister
  <2> HIDE DEF d
  <2>3. Turns(d, <<>>, <<"i32">>)  BY <2>2 DEF Turns
  <2> QED BY <1>0, <2>1, <2>3, NoneMore, Singles, Steps
<1>2. CASE Compile_Memory_Grow
  <2> DEFINE c == TopInRegister(o)
             d == Put(PushRegister(c, "i32"), Reg0SlotAlias, "i32", v)
  <2>1. Compiles("memory.grow", <<"i32">>) /\ Becomes(Eval(d, 1, <<"i32">>, <<v>>))
    BY <1>2 DEF Compile_Memory_Grow
  <2> HIDE DEF v
  <2>2. ASSUME NEW xs \in Seq(ValueTypes), TopIs(S, Types(o), xs \o <<"i32">>)
        PROVE  Yields(o, d, S, xs \o <<"i32">>)
    <3>1. Good(o, S) /\ Yields(o, o, S, xs \o <<"i32">>)  BY <2>1, <2>2, Begins
    <3>2. Yields(o, c, S, xs)  BY <1>0, <3>1, YieldsTopInRegister
    <3> HIDE DEF c
    <3> QED BY <1>0, <3>1, <3>2, YieldsRegister
  <2> HIDE DEF d
  <2>3. Turns(d, <<"i32">>, <<"i32">>)  BY <2>2 DEF Turns
  <2> QED BY <1>0, <2>1, <2>3, Singles, Steps
<1>3. CASE Compile_Memory_CopyFill
  <2> DEFINE c == TopInRegister(o)
             Taken(d, i) == Read(d, GetStackTopSlotNumber(d), "i32", Operand(d, i))
             d1 == Pop(Taken(c, 1))
             d2 == Pop(Taken(d1, 2))
  <2>1. Compiles("memory.copy", <<"i32", "i32", "i32">>) /\ Becomes(Eval(d2, 3, <<>>, <<>>))
    BY <1>3 DEF Compile_Memory_CopyFill
  <2>2. ASSUME NEW xs \in Seq(ValueTypes),
               TopIs(S, Types(o), xs \o <<"i32", "i32", "i32">>)
        PROVE  Yields(o, d2, S, xs \o <<>>)
    <3> DEFINE one == xs \o <<"i32">>
               two == one \o <<"i32">>
    <3>1. Good(o, S) /\ one \in Seq(ValueTypes) /\ two \in Seq(ValueTypes)
      BY <1>0, <2>1, Begins
    <3>2. xs \o <<"i32", "i32", "i32">> = two \o <<"i32">>  BY <1>0
    <3>3. Yields(o, o, S, two \o <<"i32">>)  BY <2>1, <2>2, <3>2, Begins
    <3> HIDE DEF one, two
    <3>4. Yields(o, c, S, two)  BY <1>0, <3>1, <3>3, YieldsTopInRegister
    <3> HIDE DEF c
    <3>6. Yields(o, d1, S, one)
      BY <1>0, <3>1, YieldsPop, <3>4, YieldsGood, ReadCalm, YieldsCalm DEF two
    <3> HIDE DEF d1
    <3>8. Yields(o, d2, S, xs)
      BY <1>0, <3>1, YieldsPop, <3>6, YieldsGood, ReadCalm, YieldsCalm DEF one
    <3> HIDE DEF d2
    <3> QED BY <3>8, NoneMore
  <2> HIDE DEF d2
  <2>3. Turns(d2, <<"i32", "i32", "i32">>, <<>>)  BY <2>2 DEF Turns
  <2>4. <<"i32", "i32", "i32">> \in Seq(ValueTypes) /\ 3 = Len(<<"i32", "i32", "i32">>)  BY <1>0
  <2> QED BY <2>1, <2>3, <2>4, NoneMore, Steps
<1> QED BY <1>1, <1>2, <1>3

LEMMA SelectStep ==
  ASSUME IInv, NEW type \in ValueTypes, Compile_Select(type)
  PROVE  IInv'
<1> DEFINE S == Scopes(o)
           top == GetStackTypeFromTop(o, 1)
           inRegister == \/ IsStackTopMinus1InRegister(o)
                         \/ IsStackTopMinus2InRegister(o)
                         \/ top \in IntTypes /\ IsStackTopInRegister(o)
           c1 == IF inRegister \/ top \notin IntTypes \union FpTypes THEN o
                 ELSE PreserveRegisterIfOccupied(o, top)
           read == ReadSelect(c1, top)
           popped == IF top = "none" THEN c1 ELSE Pops(read, 3)
           v == Fresh(o, 1)[1]
           pushed == Put(PushRegister(popped, top), RegisterFor(top), top, v)
           us == <<type, type, "i32">>
<1>0. us \in Seq(ValueTypes) /\ Len(us) = 3 /\ "i32" \in ValueTypes  BY DEF ValueTypes, IntTypes
<1>1. Compiles("select", us)
      /\ Becomes(IF top = "none" /\ ~IsStackPolymorphic(o) THEN Fail(o)
                 ELSE Eval(pushed, 3, <<type>>, <<v>>))
  BY DEF Compile_Select
<1>2. Good(o, S) /\ ~o.error  BY <1>1, Begins
<1>3. CASE top = "none" /\ ~IsStackPolymorphic(o)  BY <1>1, <1>3, <1>2, Fails, Failing DEF Good
<1>4. CASE ~(top = "none" /\ ~IsStackPolymorphic(o))
  <2>1. Becomes(Eval(pushed, 3, <<type>>, <<v>>))  BY <1>1, <1>4
  <2>2. Keeps(o, c1, S)  BY <1>2, KeepsSelf, Preserved
  <2> HIDE DEF inRegister, c1, v
  <2>3. \E w : w \in ValueTypes \union {"none"} /\ w = top
    BY <1>2, Bodies, TypesSeq, ItemTyped DEF Sizes, GetStackTypeFromTop
  <2>4. Good(popped, S) /\ Follows(o, popped)
    <3>1. Calm(c1, read, S)  BY <2>2, ReadCalm DEF Keeps, ReadSelect
    <3>2. CASE top = "none"  BY <2>2, <3>2 DEF Keeps
    <3>3. CASE top # "none"
      <4> HIDE DEF top, read
      <4>2. Keeps(o, read, S)  BY <1>2, <2>2, KeepsTrans, <3>1, CalmKeeps
      <4>3. Good(Pops(read, 3), S) /\ Follows(read, Pops(read, 3))
        BY <4>2, PopsFailed, SameScopes, PoppedAll DEF Keeps, Good, Follows, Drops
      <4> QED BY <1>2, <3>3, <4>2, <4>3, FollowsTrans DEF Keeps
    <3> QED BY <3>2, <3>3
  <2>5. ASSUME NEW xs \in Seq(ValueTypes), TopIs(S, Types(o), xs \o us)
        PROVE  Yields(o, pushed, S, xs \o <<type>>)
    <3>1. CASE TopScope(S).isPolymorphic
      <4> HIDE DEF top, popped
      <4> DEFINE r == RegisterFor(top)
                 e == Push(popped, top, r)
      <4>1. r \in Registers /\ r \in Nat  BY RegisterFits, Constants DEF Registers
      <4>2. Pushes(popped, e, top, S)
        <5> HIDE DEF r
        <5> QED BY <2>3, <2>4, <3>1, <4>1, Pushed
      <4>3. Calm(e, pushed, S)
        <5>1. pushed = Put(e, r, top, v)  BY DEF PushRegister
        <5> HIDE DEF e, r, pushed
        <5> QED BY <4>1, <4>2, <5>1, RegisterWritten DEF Pushes
      <4> HIDE DEF e, pushed
      <4>4. Pushes(popped, pushed, top, S)  BY <2>4, <4>2, <4>3, PushesCalm
      <4> QED BY <3>1, <1>2, <2>4, <4>4, FollowsTrans DEF Yields, TopIs, Pushes
    <3>2. CASE ~TopScope(S).isPolymorphic
      <4>1. top = type
        <5> DEFINE b == TopScope(S).blockStackIndex
                   T == Types(o)
        <5>1. /\ b \in Nat /\ o.stackFirstDynamicIndex \in Nat
              /\ o.stackFirstDynamicIndex <= b /\ o.stack \in Seq(Items)
          BY <1>2, TopBelow, Bodies
        <5>2. /\ Len(T) = Len(o.stack) /\ Height(o) = Len(o.stack) /\ Len(o.stack) \in Nat
              /\ \A i \in 1 .. Len(o.stack) : T[i] = o.stack[i].type
          BY <5>1, TypesSeq
        <5>3. Len(T) = b + Len(xs \o us) /\ HasTypes(T, b, xs \o us)  BY <2>5, <3>2 DEF TopIs
        <5>4. Len(xs \o us) = Len(xs) + 3 /\ Len(xs) \in Nat /\ (xs \o us)[Len(xs) + 2] = type
          <6>1. us[2] = type /\ 2 \in 1 .. Len(us)  BY <1>0
          <6>2. us \in Seq(ValueTypes) /\ Len(us) = 3  BY <1>0
          <6> HIDE DEF us
          <6>4. Len(xs \o us) = Len(xs) + Len(us) /\ Len(xs) \in Nat  BY <6>2, Joined
          <6> QED BY <6>1, <6>2, <6>4, Joined
        <5> HIDE DEF T, b, us
        <5>6. Height(o) - 1 = b + (Len(xs) + 2) /\ Height(o) - 1 > o.stackFirstDynamicIndex
              /\ Height(o) - 1 \in 1 .. Len(o.stack)
          BY SMTT(40), <5>1, <5>2, <5>3, <5>4
        <5> QED BY SMTT(40), <5>2, <5>6, <5>4, <5>3 DEF GetStackTypeFromTop, HasTypes
      <4> HIDE DEF top
      <4>3. /\ popped = Pops(read, 3)
            /\ pushed = Put(PushRegister(popped, type), RegisterFor(type), type, v)
        BY <4>1 DEF ValueTypes, IntTypes, FpTypes
      <4> HIDE DEF popped, pushed
      <4>4. Yields(o, popped, S, xs)
        <5>2. Yields(o, c1, S, xs \o us)  BY <1>2, <2>2, YieldsKeeps, <1>1, <2>5, Begins
        <5>4. Yields(o, read, S, xs \o us)
          BY <1>2, <5>2, YieldsCalm, <2>2, ReadCalm DEF Keeps, ReadSelect
        <5> HIDE DEF read, us
        <5> QED BY <1>0, <1>2, <4>3, <5>4, YieldsPops
      <4> QED BY <1>2, <4>3, <4>4, YieldsRegister
    <3> QED BY <3>1, <3>2
  <2> HIDE DEF pushed, us
  <2>6. Turns(pushed, us, <<type>>)  BY <2>5 DEF Turns
  <2> QED BY <1>0, <1>1, <2>1, <2>6, Singles, Steps
<1> QED BY <1>3, <1>4

-----------------------------------------------------------------------------
(***************************************************************************)
(* Calls.                                                                  *)
(***************************************************************************)
LEMMA CallTopAbove ==
  ASSUME NEW c, Sizes(c)
  PROVE  /\ GetMaxUsedSlotPlusOne(c) \in 0 .. c.maxStackSlots
         /\ CallTop(c) \in Nat /\ c.slotFirstDynamicIndex <= CallTop(c)
         /\ CallTop(c) <= FrameEnd(c.maxStackSlots)
<1> DEFINE f == c.slotFirstDynamicIndex
           m == c.slotMaxAllocatedIndexPlusOne
           frame == c.maxStackSlots
           used == { t \in f .. m - 1 : c.m3Slots[t] # 0 }
           ns == {f} \union { s + 1 : s \in used }
           top == GetMaxUsedSlotPlusOne(c)
<1>1. f \in Nat /\ frame \in Nat /\ m \in 0 .. frame /\ f <= frame  BY DEF Sizes
<1>2. ns \in SUBSET (0 .. frame) /\ ns # {} /\ f \in ns
  <2> HIDE DEF f, m, frame
  <2>1. \A s \in used : s + 1 \in 0 .. frame  BY <1>1
  <2> HIDE DEF used
  <2> QED BY <2>1, <1>1
<1>3. top = Max(ns)  BY DEF GetMaxUsedSlotPlusOne
<1> HIDE DEF ns, top
<1>4. top \in ns /\ f <= top
  <2> HIDE DEF f, m, frame
  <2>1. Max(ns) \in ns /\ \A n \in ns : Max(ns) >= n  BY <1>1, <1>2, MaxIn
  <2> QED BY <1>1, <1>2, <1>3, <2>1
<1>5. top \in 0 .. frame  BY <1>2, <1>4
<1>6. top \in Nat /\ CallTop(c) = FrameEnd(top)  BY <1>1, <1>5 DEF CallTop, top
<1>7. /\ FrameEnd(top) \in Nat /\ top <= FrameEnd(top)
      /\ FrameEnd(top) <= FrameEnd(c.maxStackSlots)
  BY <1>1, <1>5, <1>6, FrameEndIs
<1> QED BY <1>1, <1>4, <1>5, <1>6, <1>7 DEF top

\* A result lies where the callee has left it.
LEMMA TookResult ==
  ASSUME NEW c, NEW S, Good(c, S), NEW slot \in Nat, NEW type \in ValueTypes,
         ~c.error => c.slotFirstConstIndex <= slot
  PROVE  LET p == Push(c, type, slot)
             d == IF slot + GetTypeNumSlots(type) > MaxSlots THEN Overrun(p)
                  ELSE MarkSlotsAllocatedByType(p, slot, type)
         IN Pushes(c, d, type, S)
<1> DEFINE it == [slot |-> slot, type |-> type]
           p == Push(c, type, slot)
           d == MarkSlotsAllocatedByType(p, slot, type)
           e == MarkSlotsAllocatedByType(c, slot, type)
           o1 == Overrun(p)
<1> SUFFICES /\ slot + GetTypeNumSlots(type) > MaxSlots => Pushes(c, o1, type, S)
             /\ ~(slot + GetTypeNumSlots(type) > MaxSlots) => Pushes(c, d, type, S)
  OBVIOUS
<1>1. CASE c.error \/ Height(c) >= MaxHeight
  <2>1. p = Fail(c)  BY <1>1 DEF Push
  <2>2. p.error /\ IsState(p)  BY <2>1, Fails DEF Good
  <2> HIDE DEF p
  <2> QED BY <2>2 DEF Pushes, Good, Follows, MarkSlotsAllocatedByType, Overrun
<1>2. CASE ~(c.error \/ Height(c) >= MaxHeight) /\ slot + GetTypeNumSlots(type) > MaxSlots
  <2>1. IsState(p)  BY <1>2 DEF Push, AllocateRegister, Assert_, IsState, Fields, Good
  <2> HIDE DEF p
  <2>2. IsState(o1) /\ o1.error  BY <2>1 DEF Overrun, IsState, Fields
  <2> QED BY <1>2, <2>2 DEF Pushes, Good, Follows
<1>3. CASE /\ ~(c.error \/ Height(c) >= MaxHeight)
           /\ ~(slot + GetTypeNumSlots(type) > MaxSlots)
  <2>1. IsState(c) /\ ~c.error /\ c.stack \in Seq(Items) /\ c.slotFirstConstIndex \in Nat
    BY <1>3, Bodies DEF Good, Sizes
  <2>2. ~IsRegisterSlotAlias(slot) /\ it \in Items
    BY <1>3, <2>1, Constants, Widths DEF IsRegisterSlotAlias, Items
  <2>4. /\ IsState(p) /\ ~p.error /\ p.stack = Append(c.stack, it) /\ Same(c, p)
        /\ p.maxStackSlots = c.maxStackSlots
        /\ p.slotMaxAllocatedIndexPlusOne = c.slotMaxAllocatedIndexPlusOne
        /\ p.slotMaxConstIndex = c.slotMaxConstIndex
        /\ p.regStackIndexPlusOne = c.regStackIndexPlusOne /\ p.written = c.written
    BY SMTT(40), <2>1, <1>3, <2>2 DEF IsState, Fields, Same, Push
  <2>5. /\ IsState(d) /\ ~d.error /\ d.stack = p.stack /\ Same(p, d)
        /\ d.maxStackSlots = Max({p.maxStackSlots, slot + GetTypeNumSlots(type) - 1 + 1})
        /\ d.slotMaxAllocatedIndexPlusOne
              = Max({p.slotMaxAllocatedIndexPlusOne, slot + GetTypeNumSlots(type)})
        /\ d.slotMaxConstIndex = p.slotMaxConstIndex
        /\ d.regStackIndexPlusOne = p.regStackIndexPlusOne /\ d.written = p.written
    <3> HIDE DEF p
    <3> QED BY ZenonT(60), <2>4 DEF MarkSlotsAllocatedByType, Assert_, TouchSlot, IsState,
         Fields, Same
  <2>6. /\ IsState(e) /\ ~e.error /\ e.stack = c.stack /\ Same(c, e)
        /\ e.maxStackSlots = Max({c.maxStackSlots, slot + GetTypeNumSlots(type) - 1 + 1})
        /\ e.slotMaxAllocatedIndexPlusOne
              = Max({c.slotMaxAllocatedIndexPlusOne, slot + GetTypeNumSlots(type)})
        /\ e.slotMaxConstIndex = c.slotMaxConstIndex
        /\ e.regStackIndexPlusOne = c.regStackIndexPlusOne /\ e.written = c.written
    BY <2>1 DEF MarkSlotsAllocatedByType, Assert_, TouchSlot, IsState, Fields, Same
  <2>7. Calm(c, e, S) /\ slot + GetTypeNumSlots(type) <= e.maxStackSlots  BY <2>1, Marked
  <2> HIDE DEF p, d, e
  <2>8. ItemHeld(e, it)  BY SMTT(40), <1>3, <2>6, <2>7, FreshHeld DEF Same, Calm
  <2>9. Good(d, S) /\ Follows(e, d)
    <3>1. Same(e, d)  BY <2>4, <2>5, <2>6 DEF Same
    <3>2. /\ d.stack = Append(c.stack, it) /\ d.stack \in Seq(Items)
          /\ Len(d.stack) = Len(c.stack) + 1 /\ Len(c.stack) \in Nat
          /\ d.stack[Len(c.stack) + 1] = it
          /\ \A i \in 1 .. Len(c.stack) : d.stack[i] = c.stack[i]
      <4> HIDE DEF it
      <4> QED BY <2>1, <2>2, <2>4, <2>5
    <3>4. ASSUME NEW i \in DOMAIN d.stack
          PROVE  \/ i \in DOMAIN e.stack /\ d.stack[i] = e.stack[i]
                 \/ ItemHeld(e, d.stack[i])
      BY <2>1, <2>6, <3>2, <2>8
    <3>5. Good(e, S) /\ TopScope(S).blockStackIndex <= Len(d.stack)
          /\ \A i \in 1 .. TopScope(S).blockStackIndex : d.stack[i] = e.stack[i]
      BY <2>6, <2>7, <3>2, <2>1, TopBelow DEF Calm
    <3>6. /\ d.maxStackSlots = e.maxStackSlots
          /\ d.slotMaxAllocatedIndexPlusOne = e.slotMaxAllocatedIndexPlusOne
          /\ d.slotMaxConstIndex = e.slotMaxConstIndex
          /\ d.regStackIndexPlusOne = e.regStackIndexPlusOne /\ d.written = e.written
      BY <2>4, <2>5, <2>6
    <3> QED BY <2>5, <2>6, <3>1, <3>2, <3>4, <3>5, <3>6, Restacked
  <2>11. Types(d) = Append(Types(c), type)  BY SMTT(40), <2>4, <2>5, <2>1, <2>2, TypesAppend
  <2> QED BY <1>3, <2>9, <2>11, <2>7, FollowsTrans DEF Pushes, d, p, Calm
<1> QED BY <1>1, <1>2, <1>3

LEMMA ResultsRun ==
  ASSUME NEW c, NEW type, NEW topSlot, NEW M, M = Len(type.rets), M \in Nat
  PROVE  \E go : ResultRun(c, type, topSlot, M, go)
<1> DEFINE N == M
           Step(d, k) == TakeResult(d, k, type, topSlot)
           Runs(g, n) == g = [k \in 0 .. n |-> IF k = 0 THEN c ELSE Step(g[k - 1], k)]
           R == {n \in Nat : \E g : Runs(g, n)}
<1>0. N \in Nat  OBVIOUS
<1>1. 0 \in R
  <2>1. Runs([k \in {0} |-> c], 0)  OBVIOUS
  <2> QED BY <2>1
<1>2. ASSUME NEW n \in Nat, n \in R PROVE n + 1 \in R
  <2>1. PICK g : Runs(g, n)  BY <1>2
  <2> HIDE DEF Step
  <2>2. Runs([k \in 0 .. n + 1 |-> IF k <= n THEN g[k] ELSE Step(g[n], n + 1)], n + 1)  BY <2>1
  <2> HIDE DEF Runs
  <2> QED BY <2>2
<1>3. N \in R
  <2> HIDE DEF R, N
  <2> QED BY <1>0, <1>1, <1>2, Induct
<1>4. PICK go : go = (CHOOSE g : Runs(g, N)) /\ Runs(go, N)  BY <1>3
<1>5. TakeResults(c, type, topSlot) = go[N]  BY <1>4 DEF TakeResults
<1>6. go[0] = c /\ \A k \in 1 .. N : go[k] = Step(go[k - 1], k)
  <2> HIDE DEF Step, N
  <2>1. go = [k \in 0 .. N |-> IF k = 0 THEN c ELSE Step(go[k - 1], k)]  BY <1>4
  <2> QED BY <2>1, <1>0
<1> QED BY <1>5, <1>6 DEF ResultRun

LEMMA ArgsRun ==
  ASSUME NEW c, NEW type, NEW topSlot, NEW skipped, NEW M, M = Len(type.params), M \in Nat
  PROVE  \E go : ArgRun(c, type, topSlot, skipped, M, go)
<1> DEFINE N == M
           Step(d, k) == PassArg(d, k, type, topSlot, skipped)
           Runs(g, n) == g = [k \in 0 .. n |-> IF k = 0 THEN c ELSE Step(g[k - 1], k)]
           R == {n \in Nat : \E g : Runs(g, n)}
<1>0. N \in Nat  OBVIOUS
<1>1. 0 \in R
  <2>1. Runs([k \in {0} |-> c], 0)  OBVIOUS
  <2> QED BY <2>1
<1>2. ASSUME NEW n \in Nat, n \in R PROVE n + 1 \in R
  <2>1. PICK g : Runs(g, n)  BY <1>2
  <2> HIDE DEF Step
  <2>2. Runs([k \in 0 .. n + 1 |-> IF k <= n THEN g[k] ELSE Step(g[n], n + 1)], n + 1)  BY <2>1
  <2> HIDE DEF Runs
  <2> QED BY <2>2
<1>3. N \in R
  <2> HIDE DEF R, N
  <2> QED BY <1>0, <1>1, <1>2, Induct
<1>4. PICK go : go = (CHOOSE g : Runs(g, N)) /\ Runs(go, N)  BY <1>3
<1>5. PassArgs(c, type, topSlot, skipped) = go[N]  BY <1>4 DEF PassArgs
<1>6. go[0] = c /\ \A k \in 1 .. N : go[k] = Step(go[k - 1], k)
  <2> HIDE DEF Step, N
  <2>1. go = [k \in 0 .. N |-> IF k = 0 THEN c ELSE Step(go[k - 1], k)]  BY <1>4
  <2> QED BY <2>1, <1>0
<1> QED BY <1>5, <1>6 DEF ArgRun

\* The arguments of a call lie at most MaxCallSlots above the end of the frame.
LEMMA PassedArg ==
  ASSUME NEW c, NEW S, S = Scopes(c), Good(c, S), ~c.error, NEW type, NEW topSlot \in Nat,
         NEW skipped, CallFits(type), NEW i \in 1 .. Len(type.params),
         topSlot <= FrameEnd(c.maxStackSlots)
  PROVE  LET d == PassArg(c, i, type, topSlot, skipped)
         IN /\ Good(d, S) /\ Follows(c, d)
            /\ ~d.error =>
                  \/ /\ Len(c.stack) > TopScope(S).blockStackIndex
                     /\ d.stack = SubSeq(c.stack, 1, Len(c.stack) - 1)
                  \/ /\ Len(c.stack) = TopScope(S).blockStackIndex
                     /\ TopScope(S).isPolymorphic /\ d.stack = c.stack
<1> DEFINE n == Len(type.params)
           slot == topSlot + (Len(type.rets) + n - i) * ioSlotCount
           none == [c EXCEPT !.written = {}]
           copied == CopyStackTopToSlot(none, slot)
           slots == {w.slot : w \in copied.written}
           e == [copied EXCEPT !.written = c.written \union Writes(slots, TRUE)]
           r == Read(e, slot, type.params[n - i + 1], Operand(c, skipped + i - 1))
<1>1. PassArg(c, i, type, topSlot, skipped) = Pop(r)  BY DEF PassArg
<1>6. /\ Sizes(c) /\ FrameEnd(c.maxStackSlots) \in Nat /\ MaxCallSlots \in Nat
      /\ slot \in Nat /\ slot + 2 <= FrameEnd(c.maxStackSlots) + MaxCallSlots
  <2>1. Sizes(c) /\ FrameEnd(c.maxStackSlots) \in Nat /\ MaxCallSlots \in Nat
    BY Bodies, FrameEndIs, Constants DEF Sizes
  <2> DEFINE k == Len(type.rets)
             a == FrameEnd(c.maxStackSlots)
  <2>2. k \in Nat /\ n \in Nat /\ i \in 1 .. n /\ 2 * (n + k) <= MaxCallSlots /\ topSlot <= a
    BY DEF CallFits
  <2>3. slot = topSlot + (k + n - i) * 2  BY DEF ioSlotCount
  <2> HIDE DEF slot, k, n, a
  <2>4. slot \in Nat /\ slot + 2 <= a + MaxCallSlots  BY <2>1, <2>2, <2>3 DEF a
  <2> QED BY <2>1, <2>4 DEF a
<1> HIDE DEF slot, n
<1>2. Calm(c, e, S)
  <2>1. \E t, v : copied = Put(none, slot, t, v)
    BY DEF CopyStackTopToSlot, CopyStackIndexToSlot, CopySlot, Good, IsState, Fields
  <2>2. PICK t, v : copied = Put(none, slot, t, v)  BY <2>1
  <2>3. /\ IsState(none) /\ none.error = c.error /\ Same(c, none) /\ none.stack = c.stack
        /\ none.maxStackSlots = c.maxStackSlots /\ none.written = {}
        /\ none.slotMaxAllocatedIndexPlusOne = c.slotMaxAllocatedIndexPlusOne
        /\ none.slotMaxConstIndex = c.slotMaxConstIndex
        /\ none.regStackIndexPlusOne = c.regStackIndexPlusOne
    BY DEF Good, IsState, Fields, Same
  <2> HIDE DEF none, copied
  <2>4. /\ IsState(copied) /\ copied.error = none.error /\ Same(none, copied)
        /\ copied.stack = c.stack /\ copied.maxStackSlots = c.maxStackSlots
        /\ copied.slotMaxAllocatedIndexPlusOne = c.slotMaxAllocatedIndexPlusOne
        /\ copied.slotMaxConstIndex = c.slotMaxConstIndex
        /\ copied.regStackIndexPlusOne = c.regStackIndexPlusOne
        /\ copied.written \subseteq Writes(SlotsOf(slot, t), FALSE)
    <3> DEFINE d == Put(none, slot, t, v)
    <3>1. /\ IsState(d) /\ d.error = none.error /\ Same(none, d) /\ d.stack = none.stack
          /\ d.maxStackSlots = none.maxStackSlots
          /\ d.slotMaxAllocatedIndexPlusOne = none.slotMaxAllocatedIndexPlusOne
          /\ d.slotMaxConstIndex = none.slotMaxConstIndex
          /\ d.regStackIndexPlusOne = none.regStackIndexPlusOne
          /\ d.written \subseteq none.written \union Writes(SlotsOf(slot, t), FALSE)
      BY <2>3, Stored
    <3> HIDE DEF d
    <3>2. copied = d  BY <2>2 DEF d
    <3> QED BY <2>3, <3>1, <3>2
  <2>5. \A s \in slots : s \in Int /\ s < FrameEnd(c.maxStackSlots) + MaxCallSlots
    <3>1. slots \subseteq SlotsOf(slot, t)  BY <2>4 DEF Writes
    <3>2. \A s \in SlotsOf(slot, t) : s \in Int /\ s < FrameEnd(c.maxStackSlots) + MaxCallSlots
      BY <1>6, Widths DEF SlotsOf
    <3> HIDE DEF slots
    <3> QED BY <3>1, <3>2
  <2> HIDE DEF slots
  <2>6. /\ IsState(e) /\ e.error = c.error /\ Same(c, e)
        /\ e.stack = c.stack /\ e.maxStackSlots = c.maxStackSlots
        /\ e.slotMaxAllocatedIndexPlusOne = c.slotMaxAllocatedIndexPlusOne
        /\ e.slotMaxConstIndex = c.slotMaxConstIndex
        /\ e.regStackIndexPlusOne = c.regStackIndexPlusOne
        /\ e.written = c.written \union Writes(slots, TRUE)
    BY <2>3, <2>4 DEF IsState, Fields, Same
  <2> HIDE DEF e
  <2>7. WritesHeld(e)
    <3>1. \A w \in Writes(slots, TRUE) : w.slot \in Int /\ InRoom(w, c.maxStackSlots)
      BY <2>5, WritesIn
    <3> QED BY <2>6, <3>1, Bodies DEF WritesHeld
  <2>8. NoLocalInRegister(e)  BY <2>6, Bodies DEF NoLocalInRegister, Same
  <2> QED BY SMTT(40), <1>6, <2>6, <2>7, <2>8, Quiet DEF Sizes
<1> HIDE DEF e
<1>3. Calm(e, r, S)  BY <1>2, ReadCalm DEF Calm
<1> HIDE DEF r
<1>5. Good(r, S) /\ Follows(c, r) /\ ~r.error /\ r.stack = c.stack
  BY <1>2, <1>3, CalmTrans DEF Calm
<1> QED BY <1>1, <1>5, FollowsTrans, Popped, SameScopes

LEMMA PassedFailed ==
  ASSUME NEW c, c.error, NEW i, NEW type, NEW topSlot, NEW skipped, IsState(c)
  PROVE  LET d == PassArg(c, i, type, topSlot, skipped) IN IsState(d) /\ d.error
<1> DEFINE none == [c EXCEPT !.written = {}]
           e == [none EXCEPT !.written = c.written
                                         \union Writes({w.slot : w \in none.written}, TRUE)]
<1>1. IsState(none) /\ none.error  BY DEF IsState, Fields
<1>2. IsState(e) /\ e.error  BY DEF IsState, Fields
<1>3. PassArg(c, i, type, topSlot, skipped) = e
  <2> HIDE DEF none
  <2>1. \A slot : CopyStackTopToSlot(none, slot) = none
    BY <1>1 DEF CopyStackTopToSlot, CopyStackIndexToSlot
  <2> HIDE DEF e
  <2>2. \A loc, t, v : Pop(Read(e, loc, t, v)) = e  BY <1>2 DEF Read, Pop
  <2> QED BY ZenonT(60), <2>1, <2>2 DEF PassArg, e, none
<1> QED BY <1>2, <1>3

LEMMA PassedArgs ==
  ASSUME NEW c, NEW S, S = Scopes(c), Good(c, S), NEW type, NEW topSlot, NEW skipped,
         CallFits(type), topSlot \in Nat, ~c.error => topSlot <= FrameEnd(c.maxStackSlots)
  PROVE  Drops(c, PassArgs(c, type, topSlot, skipped), Len(type.params), S)
<1> DEFINE N == Len(type.params)
<1>0. N \in Nat /\ N = Len(type.params)  BY DEF CallFits
<1> HIDE DEF N
<1>1. PICK go : ArgRun(c, type, topSlot, skipped, N, go)  BY <1>0, ArgsRun
<1> DEFINE I == {n \in Nat : n <= N => Drops(c, go[n], n, S)}
<1>2. 0 \in I  BY <1>1, DropsNone DEF ArgRun
<1>3. ASSUME NEW n \in Nat, n \in I PROVE n + 1 \in I
  <2> SUFFICES ASSUME n + 1 <= N PROVE Drops(c, go[n + 1], n + 1, S)
    OBVIOUS
  <2>1. n + 1 \in 1 .. N /\ (n + 1) - 1 = n /\ n <= N  BY <1>0
  <2>2. Drops(c, go[n], n, S)  BY <1>3, <2>1
  <2>3. go[n + 1] = PassArg(go[n], n + 1, type, topSlot, skipped)  BY <1>1, <2>1 DEF ArgRun
  <2> HIDE DEF I
  <2>4. CASE go[n].error  BY <2>2, <2>3, <2>4, PassedFailed DEF Drops, Good, Follows
  <2>5. CASE ~go[n].error
    <3>1. Good(go[n], S) /\ Follows(c, go[n])  BY <2>2 DEF Drops
    <3>2. topSlot <= FrameEnd(go[n].maxStackSlots)
      <4>1. /\ c.maxStackSlots \in Nat /\ go[n].maxStackSlots \in Nat /\ ~c.error
            /\ c.maxStackSlots <= go[n].maxStackSlots
        BY <2>5, <3>1, Bodies DEF Follows, Sizes
      <4>2. FrameEnd(c.maxStackSlots) \in Nat /\ FrameEnd(go[n].maxStackSlots) \in Nat
            /\ FrameEnd(c.maxStackSlots) <= FrameEnd(go[n].maxStackSlots)
        BY <4>1, FrameEndIs
      <4> QED BY <4>1, <4>2
    <3>3. n + 1 \in 1 .. Len(type.params) /\ S = Scopes(go[n])
      BY <1>0, <2>1, <2>5, <3>1, SameScopes DEF Follows
    <3> DEFINE b == go[n]
               a == go[n + 1]
    <3>4. /\ Good(a, S) /\ Follows(b, a)
          /\ ~a.error =>
                \/ /\ Len(b.stack) > TopScope(S).blockStackIndex
                   /\ a.stack = SubSeq(b.stack, 1, Len(b.stack) - 1)
                \/ /\ Len(b.stack) = TopScope(S).blockStackIndex
                   /\ TopScope(S).isPolymorphic /\ a.stack = b.stack
      <4>1. a = PassArg(b, n + 1, type, topSlot, skipped)  BY <2>3
      <4>2. Good(b, S) /\ ~b.error /\ S = Scopes(b) /\ topSlot <= FrameEnd(b.maxStackSlots)
        BY <2>5, <3>1, <3>2, <3>3
      <4> HIDE DEF a, b
      <4>3. n + 1 \in 1 .. Len(type.params)  BY <3>3
      <4>4. LET d == PassArg(b, n + 1, type, topSlot, skipped)
            IN /\ Good(d, S) /\ Follows(b, d)
               /\ ~d.error =>
                     \/ /\ Len(b.stack) > TopScope(S).blockStackIndex
                        /\ d.stack = SubSeq(b.stack, 1, Len(b.stack) - 1)
                     \/ /\ Len(b.stack) = TopScope(S).blockStackIndex
                        /\ TopScope(S).isPolymorphic /\ d.stack = b.stack
        BY <4>2, <4>3, PassedArg
      <4> QED BY <4>1, <4>4
    <3> QED BY <2>2, DropsOne, <2>5, <3>1, <3>4
  <2> QED BY <2>4, <2>5
<1>4. N \in I
  <2> HIDE DEF I
  <2> QED BY <1>0, <1>2, <1>3, Induct
<1> QED BY <1>0, <1>1, <1>4 DEF ArgRun

LEMMA SeqGrows ==
  ASSUME NEW ts \in Seq(ValueTypes), NEW n \in Nat, n + 1 <= Len(ts), NEW xs \in Seq(ValueTypes)
  PROVE  /\ SubSeq(ts, 1, n) \in Seq(ValueTypes) /\ ts[n + 1] \in ValueTypes
         /\ xs \o SubSeq(ts, 1, n + 1) = (xs \o SubSeq(ts, 1, n)) \o <<ts[n + 1]>>
         /\ xs \o SubSeq(ts, 1, n) \in Seq(ValueTypes)
         /\ SubSeq(ts, 1, 0) = <<>> /\ SubSeq(ts, 1, Len(ts)) = ts
<1>1. SubSeq(ts, 1, n) \in Seq(ValueTypes) /\ ts[n + 1] \in ValueTypes  BY SMT
<1> DEFINE us == SubSeq(ts, 1, n)
<1>2. SubSeq(ts, 1, n + 1) = us \o <<ts[n + 1]>>
  <2>1. SubSeq(ts, 1, n + 1) \in Seq(ValueTypes) /\ Len(SubSeq(ts, 1, n + 1)) = n + 1
        /\ \A i \in 1 .. n + 1 : SubSeq(ts, 1, n + 1)[i] = ts[i]
    OBVIOUS
  <2>2. Len(us) = n /\ \A i \in 1 .. n : us[i] = ts[i]  OBVIOUS
  <2> DEFINE a == SubSeq(ts, 1, n + 1)
             b == us \o <<ts[n + 1]>>
  <2>3. b \in Seq(ValueTypes) /\ Len(b) = n + 1
        /\ \A i \in 1 .. n + 1 : b[i] = IF i <= n THEN us[i] ELSE ts[n + 1]
    <3> HIDE DEF us
    <3> QED BY <1>1, <2>2 DEF us
  <2>4. \A i \in 1 .. n + 1 : a[i] = b[i]
    <3> HIDE DEF us, a, b
    <3> QED BY <2>1, <2>2, <2>3 DEF a
  <2> HIDE DEF a, b
  <2> QED BY <2>1, <2>3, <2>4, SeqEqual DEF a, b
<1> HIDE DEF us
<1> QED BY SMTT(40), <1>1, <1>2 DEF us

LEMMA PassedArgsFailed ==
  ASSUME NEW c, IsState(c), c.error, NEW type, NEW topSlot, NEW skipped,
         Len(type.params) \in Nat
  PROVE  LET d == PassArgs(c, type, topSlot, skipped) IN IsState(d) /\ d.error
<1> DEFINE N == Len(type.params)
<1>0. N \in Nat /\ N = Len(type.params)  OBVIOUS
<1> HIDE DEF N
<1>1. PICK go : ArgRun(c, type, topSlot, skipped, N, go)  BY <1>0, ArgsRun
<1> DEFINE P(n) == n <= N => IsState(go[n]) /\ go[n].error = TRUE
           I == {n \in Nat : P(n)}
<1>2. 0 \in I  BY <1>1 DEF ArgRun, IsState
<1>3. ASSUME NEW n \in Nat, n \in I PROVE n + 1 \in I
  <2>1. P(n)
    <3> HIDE DEF P
    <3> QED BY <1>3
  <2> SUFFICES P(n + 1)
    <3> HIDE DEF P
    <3> QED OBVIOUS
  <2> HIDE DEF I
  <2> HAVE n + 1 <= N
  <2> QED BY <2>1, PassedFailed, <1>1, <1>0 DEF IsState, ArgRun
<1>4. N \in I
  <2> HIDE DEF I
  <2> QED BY <1>0, <1>2, <1>3, Induct
<1>5. P(N)
  <2> HIDE DEF P
  <2> QED BY <1>4
<1> HIDE DEF I
<1> QED BY <1>0, <1>1, <1>5 DEF ArgRun

\* What slots and registers hold is up to the run.
LEMMA MemChanged ==
  ASSUME NEW c, NEW S, Good(c, S), NEW mem
  PROVE  Calm(c, [c EXCEPT !.mem = mem], S)
<1> DEFINE d == [c EXCEPT !.mem = mem]
<1>1. /\ IsState(d) /\ d.error = c.error /\ Same(c, d) /\ d.stack = c.stack
      /\ d.maxStackSlots = c.maxStackSlots
      /\ d.slotMaxAllocatedIndexPlusOne = c.slotMaxAllocatedIndexPlusOne
      /\ d.slotMaxConstIndex = c.slotMaxConstIndex
      /\ d.regStackIndexPlusOne = c.regStackIndexPlusOne /\ d.written = c.written
  BY DEF IsState, Fields, Same, Good
<1> HIDE DEF d
<1>2. ~c.error => /\ NoLocalInRegister(d) /\ WritesHeld(d) /\ d.maxStackSlots \in Nat
                  /\ d.slotMaxAllocatedIndexPlusOne \in 0 .. d.maxStackSlots
                  /\ c.maxStackSlots <= d.maxStackSlots
  <2> SUFFICES ASSUME ~c.error
               PROVE  /\ NoLocalInRegister(d) /\ WritesHeld(d) /\ d.maxStackSlots \in Nat
                      /\ d.slotMaxAllocatedIndexPlusOne \in 0 .. d.maxStackSlots
                      /\ c.maxStackSlots <= d.maxStackSlots
    OBVIOUS
  <2> QED BY <1>1, Bodies DEF NoLocalInRegister, WritesHeld, Sizes, Same
<1>3. Calm(c, d, S)  BY <1>1, <1>2, Quiet
<1> QED BY <1>3 DEF d

LEMMA Assoc ==
  ASSUME NEW xs \in Seq(ValueTypes), NEW ys \in Seq(ValueTypes), NEW t \in ValueTypes
  PROVE  /\ xs \o (ys \o <<t>>) = (xs \o ys) \o <<t>>
         /\ xs \o ys \in Seq(ValueTypes) /\ Append(ys, t) = ys \o <<t>>
  BY SMTT(40)

LEMMA TookResults ==
  ASSUME NEW c, NEW d, NEW S, Good(c, S), NEW xs \in Seq(ValueTypes), Yields(c, d, S, xs),
         NEW type, type.rets \in Seq(ValueTypes), NEW topSlot,
         ~d.error => topSlot \in Nat /\ c.slotFirstConstIndex <= topSlot
  PROVE  Yields(c, TakeResults(d, type, topSlot), S, xs \o type.rets)
<1> DEFINE N == Len(type.rets)
           ts == type.rets
<1>0. N \in Nat /\ N = Len(type.rets) /\ ts \in Seq(ValueTypes) /\ Len(ts) = N /\ ts = type.rets
  OBVIOUS
<1> HIDE DEF N, ts
<1>1. PICK go : ResultRun(d, type, topSlot, N, go)  BY <1>0, ResultsRun
<1> DEFINE P(n) == n <= N => /\ Yields(c, go[n], S, xs \o SubSeq(ts, 1, n))
                             /\ d.error => go[n].error
           I == {n \in Nat : P(n)}
<1>2. 0 \in I
  <2>1. SubSeq(ts, 1, 0) = <<>> /\ go[0] = d  BY <1>0, <1>1 DEF ResultRun
  <2>2. xs \o <<>> = xs  BY NoneMore
  <2> QED BY <2>1, <2>2
<1>3. ASSUME NEW n \in Nat, n \in I PROVE n + 1 \in I
  <2> SUFFICES P(n + 1)
    <3> HIDE DEF P
    <3> QED OBVIOUS
  <2> HAVE n + 1 <= N
  <2>1. n + 1 \in 1 .. N /\ (n + 1) - 1 = n /\ n <= N  BY <1>0
  <2>2. Yields(c, go[n], S, xs \o SubSeq(ts, 1, n)) /\ (d.error => go[n].error)
    <3>1. P(n)
      <4> HIDE DEF P
      <4> QED BY <1>3
    <3> QED BY <2>1, <3>1
  <2> HIDE DEF I
  <2> DEFINE slot == topSlot + n * ioSlotCount
             us == xs \o SubSeq(ts, 1, n)
             e == Push(go[n], ts[n + 1], slot)
  <2>3. go[n + 1] = IF slot + GetTypeNumSlots(ts[n + 1]) > MaxSlots THEN Overrun(e)
                    ELSE MarkSlotsAllocatedByType(e, slot, ts[n + 1])
    BY <1>1, <2>1, <1>0 DEF ResultRun, TakeResult
  <2>4. ~go[n].error => slot \in Nat /\ go[n].slotFirstConstIndex <= slot
    <3> SUFFICES ASSUME ~go[n].error
                 PROVE  slot \in Nat /\ go[n].slotFirstConstIndex <= slot
      OBVIOUS
    <3>1. ~c.error /\ go[n].slotFirstConstIndex = c.slotFirstConstIndex /\ ~d.error
      BY <2>2 DEF Yields, Follows, Same
    <3>4. slot = topSlot + n * 2  BY DEF ioSlotCount
    <3> HIDE DEF slot
    <3> QED BY SMTT(40), <1>0, <2>1, <3>1, <3>4, Bodies DEF Sizes, ioSlotCount
  <2> HIDE DEF slot
  <2>5. us \in Seq(ValueTypes) /\ ts[n + 1] \in ValueTypes
        /\ xs \o SubSeq(ts, 1, n + 1) = us \o <<ts[n + 1]>>
    BY SMTT(40), <1>0, <2>1, SeqGrows
  <2> HIDE DEF us
  <2>6. Good(go[n], S) /\ Follows(c, go[n])  BY <2>2 DEF Yields
  <2>7. Pushes(go[n], go[n + 1], ts[n + 1], S)
    <3>1. CASE go[n].error
      <4>1. e = Fail(go[n]) /\ e.error /\ Keeps(go[n], e, S)
        BY <2>6, <3>1, Fails DEF Push, Good
      <4> HIDE DEF e
      <4> QED BY <4>1, <2>3 DEF Pushes, Keeps, MarkSlotsAllocatedByType, Overrun
    <3>2. CASE ~go[n].error  BY SMTT(40), <2>3, <2>4, <2>5, <2>6, <3>2, TookResult
    <3> QED BY <3>1, <3>2
  <2>8. Yields(c, go[n], S, us)  BY <2>2 DEF us
  <2>9. Yields(c, go[n + 1], S, us \o <<ts[n + 1]>>)  BY <2>5, <2>7, <2>8, YieldsPushes
  <2>10. d.error => go[n + 1].error  BY <2>2, <2>7 DEF Pushes, Follows
  <2> QED BY <2>5, <2>9, <2>10
<1>4. N \in I
  <2> HIDE DEF I
  <2> QED BY <1>0, <1>2, <1>3, Induct
<1>6. Yields(c, go[N], S, xs \o SubSeq(ts, 1, N))
  <2>1. P(N)
    <3> HIDE DEF P
    <3> QED BY <1>4
  <2> QED BY <1>0, <2>1
<1>5. SubSeq(ts, 1, N) = ts /\ TakeResults(d, type, topSlot) = go[N]
  BY <1>1, <1>0 DEF ResultRun
<1> HIDE DEF I
<1> QED BY <1>0, <1>5, <1>6

\* The frame of a callee begins above the constants of its caller, and at the
\* end of its frame at the latest.
LEMMA CallTopIs ==
  ASSUME NEW c, NEW S, Good(c, S), ~c.error
  PROVE  /\ CallTop(c) \in Nat /\ GetMaxUsedSlotPlusOne(c) \in 0 .. c.maxStackSlots
         /\ c.slotFirstConstIndex <= CallTop(c) /\ CallTop(c) <= FrameEnd(c.maxStackSlots)
<1>1. Sizes(c)  BY Bodies
<1> QED BY SMTT(40), <1>1, CallTopAbove DEF Sizes

LEMMA CalledResults ==
  ASSUME IInv, NEW c, Keeps(o, c, Scopes(o)), Good(o, Scopes(o)), ~o.error,
         NEW type \in FuncTypes, NEW isIndirect \in BOOLEAN, NEW us,
         us = IF isIndirect THEN type.params \o <<"i32">> ELSE type.params,
         CallFits(type)
  PROVE  \E d, vs : /\ CompileCallArgsAndReturn(c, type, isIndirect)
                            = Eval(d, Len(us), type.rets, vs)
                    /\ Turns(d, us, type.rets)
<1> DEFINE S == Scopes(o)
           topSlot == CallTop(c)
           n == Len(type.params)
           m == Len(type.rets)
           c1 == [c EXCEPT !.slotMaxAllocatedIndexPlusOne = GetMaxUsedSlotPlusOne(c)]
           c2 == IF isIndirect THEN Pop(c1) ELSE c1
           skipped == IF isIndirect THEN 1 ELSE 0
           args == PassArgs(c2, type, topSlot, skipped)
           passed == IF isIndirect
                     THEN Read(args, GetStackTopSlotNumber(c), "i32", Operand(c, 0))
                     ELSE args
           fresh == Fresh(c, m)
           Frame(s) == IF \E i \in 1 .. m : s = topSlot + (i - 1) * ioSlotCount
                       THEN fresh[(s - topSlot) \div ioSlotCount + 1]
                       ELSE IF \E i \in 1 .. m : s = topSlot + (i - 1) * ioSlotCount + 1
                       THEN -fresh[(s - topSlot) \div ioSlotCount + 1]
                       ELSE Junk
           called == IF ~passed.running THEN passed
                     ELSE [passed EXCEPT !.mem = [s \in DOMAIN @ |->
                              IF s >= topSlot /\ ~IsRegisterSlotAlias(s) THEN Frame(s)
                              ELSE @[s]]]
           d == TakeResults(called, type, topSlot)
<1>1. CompileCallArgsAndReturn(c, type, isIndirect)
        = Eval(d, n + skipped, type.rets, [i \in 1 .. m |-> fresh[i]])
  BY DEF CompileCallArgsAndReturn
<1>2. /\ type.params \in Seq(ValueTypes) /\ type.rets \in Seq(ValueTypes)
      /\ n \in Nat /\ <<"i32">> \in Seq(ValueTypes) /\ Len(<<"i32">>) = 1
      /\ us \in Seq(ValueTypes) /\ Len(us) = n + skipped
  <2>1. type.params \in Seq(ValueTypes) /\ type.rets \in Seq(ValueTypes)
    BY DEF FuncTypes, ValueTypes
  <2>2. <<"i32">> \in Seq(ValueTypes) /\ Len(<<"i32">>) = 1  BY Singles DEF ValueTypes, IntTypes
  <2>3. n \in Nat  BY <2>1
  <2>4. CASE isIndirect
    <3>1. us = type.params \o <<"i32">> /\ skipped = 1  BY <2>4
    <3> HIDE DEF skipped
    <3> QED BY <2>1, <2>2, <2>3, <3>1, Joined
  <2>5. CASE ~isIndirect
    <3>1. us = type.params /\ skipped = 0  BY <2>5
    <3> HIDE DEF skipped
    <3> QED BY <2>1, <2>2, <2>3, <3>1
  <2> QED BY <2>1, <2>2, <2>3, <2>4, <2>5
<1>3. Calm(c, c1, S) /\ c1.error = c.error
  <2>1. Good(c, S)  BY DEF Keeps
  <2>2. CASE c.error
    <3>1. IsState(c1) /\ c1.error = c.error  BY <2>1 DEF IsState, Fields, Good
    <3> QED BY <2>2, <3>1 DEF Calm, Good, Follows
  <2>3. CASE ~c.error
    <3>1. /\ IsState(c1) /\ c1.error = c.error /\ Same(c, c1) /\ c1.stack = c.stack
          /\ c1.maxStackSlots = c.maxStackSlots
          /\ c1.slotMaxAllocatedIndexPlusOne = GetMaxUsedSlotPlusOne(c)
          /\ c1.slotMaxConstIndex = c.slotMaxConstIndex
          /\ c1.regStackIndexPlusOne = c.regStackIndexPlusOne /\ c1.written = c.written
      BY <2>1 DEF IsState, Fields, Same, Good
    <3> HIDE DEF c1
    <3>2. c1.slotMaxAllocatedIndexPlusOne \in 0 .. c1.maxStackSlots
      BY <2>1, <2>3, <3>1, CallTopIs
    <3>3. NoLocalInRegister(c1) /\ WritesHeld(c1) /\ c1.maxStackSlots \in Nat
      BY SMTT(40), <3>1, <2>1, <2>3, Bodies DEF NoLocalInRegister, WritesHeld, Sizes, Same
    <3> QED BY SMTT(40), <2>1, <3>1, <3>2, <3>3, Quiet, <2>3
  <2> QED BY <2>2, <2>3
<1> HIDE DEF c1
<1>4. ASSUME NEW xs \in Seq(ValueTypes), TopIs(S, Types(o), xs \o us)
      PROVE  Yields(o, d, S, xs \o type.rets)
  <2>2. Yields(o, c, S, xs \o us)  BY YieldsKeeps, <1>4, YieldsSelf
  <2>3. Yields(o, c1, S, xs \o us)  BY <1>3, <2>2, YieldsCalm
  <2>4. Yields(o, c2, S, xs \o type.params)
    <3>1. CASE isIndirect
      <4>1. us = type.params \o <<"i32">>  BY <3>1
      <4>3. "i32" \in ValueTypes  BY DEF ValueTypes, IntTypes
      <4>2. xs \o us = (xs \o type.params) \o <<"i32">> /\ xs \o type.params \in Seq(ValueTypes)
        <5> DEFINE ps == type.params
        <5>1. ps \in Seq(ValueTypes)  BY <1>2
        <5> HIDE DEF ps
        <5>2. xs \o (ps \o <<"i32">>) = (xs \o ps) \o <<"i32">> /\ xs \o ps \in Seq(ValueTypes)
          BY SMTT(40), <4>3, <5>1, Assoc
        <5> QED BY <4>1, <5>2 DEF ps
      <4> QED BY <2>3, <3>1, <4>2, <4>3, YieldsPop
    <3>2. CASE ~isIndirect  BY <2>3, <3>2
    <3> QED BY <3>1, <3>2
  <2>10. ~c2.error => topSlot \in Nat /\ topSlot <= FrameEnd(c2.maxStackSlots)
    <3> SUFFICES ASSUME ~c2.error
                 PROVE  topSlot \in Nat /\ topSlot <= FrameEnd(c2.maxStackSlots)
      OBVIOUS
    <3>1. ~c1.error /\ ~c.error  BY <1>3 DEF Pop
    <3>2. Good(c, S) /\ Good(c1, S) /\ Good(c2, S) /\ Follows(c, c1)
      BY <1>3, <2>4 DEF Calm, Keeps, Yields
    <3>3. S = Scopes(c1)  BY <3>1, <3>2, SameScopes DEF Keeps
    <3>4. Follows(c1, c2)  BY <3>2, <3>3, Popped, KeepsSelf DEF Keeps
    <3> HIDE DEF c2
    <3>5. /\ c.maxStackSlots \in Nat /\ c1.maxStackSlots \in Nat
          /\ c2.maxStackSlots \in Nat /\ c.maxStackSlots <= c1.maxStackSlots
          /\ c1.maxStackSlots <= c2.maxStackSlots
      BY <3>1, <3>2, <3>4, Bodies DEF Sizes, Follows
    <3>6. /\ CallTop(c) \in Nat /\ FrameEnd(c.maxStackSlots) \in Nat
          /\ CallTop(c) <= FrameEnd(c.maxStackSlots) /\ FrameEnd(c2.maxStackSlots) \in Nat
          /\ FrameEnd(c.maxStackSlots) <= FrameEnd(c2.maxStackSlots)
      <4>1. c.maxStackSlots <= c2.maxStackSlots  BY <3>5
      <4> QED BY <3>1, <3>2, <3>5, <4>1, CallTopIs, FrameEndIs
    <3> QED BY <3>6
  <2> HIDE DEF c2, topSlot, skipped
  <2>5. Yields(o, args, S, xs)
    <3>1. Good(c2, S) /\ Follows(o, c2)  BY <2>4 DEF Yields
    <3>2. CASE c2.error
      <4>2. IsState(args) /\ args.error  BY <1>2, <3>2, PassedArgsFailed, <3>1 DEF Good
      <4> HIDE DEF args
      <4> QED BY <4>2 DEF Yields, Good, Follows
    <3>3. CASE ~c2.error
      <4>1. S = Scopes(c2)  BY <3>1, <3>3, SameScopes DEF Follows
      <4>2. Drops(c2, args, n, S)  BY <1>2, <2>10, <3>1, PassedArgs, <3>3, <4>1
      <4> HIDE DEF args
      <4> QED BY <1>2, <2>4, <4>2, YieldsDrops
    <3> QED BY <3>2, <3>3
  <2> HIDE DEF args
  <2>6. Yields(o, passed, S, xs)
    <3>2. Calm(args, Read(args, GetStackTopSlotNumber(c), "i32", Operand(c, 0)), S)
      BY ReadCalm, <2>5 DEF Yields
    <3> QED BY <2>5, <3>2, YieldsCalm
  <2> HIDE DEF passed, Frame
  <2>7. Yields(o, called, S, xs)
    <3>1. CASE ~passed.running  BY <2>6, <3>1
    <3>2. CASE passed.running
      <4> DEFINE mem == [s \in DOMAIN passed.mem |->
                           IF s >= topSlot /\ ~IsRegisterSlotAlias(s) THEN Frame(s)
                           ELSE passed.mem[s]]
      <4>1. called = [passed EXCEPT !.mem = mem]  BY <3>2
      <4>2. Good(passed, S)  BY <2>6 DEF Yields
      <4> HIDE DEF mem, called
      <4>3. Calm(passed, called, S)  BY <4>1, <4>2, MemChanged
      <4> QED BY <2>6, <4>3, YieldsCalm
    <3> QED BY <3>1, <3>2
  <2> HIDE DEF called
  <2>8. ~called.error => ~c.error
    <3>1. passed.error => called.error  BY <2>6 DEF Yields, Good, called, IsState, Fields
    <3>3. c2.error => args.error
      <4> SUFFICES ASSUME c2.error PROVE args.error
        OBVIOUS
      <4> QED BY <1>2, PassedArgsFailed, <2>4 DEF args, Yields, Good
    <3> QED BY <1>3, <3>1, <3>3 DEF passed, Read, c2, Pop
  <2>9. ~called.error => topSlot \in Nat /\ o.slotFirstConstIndex <= topSlot
    <3> SUFFICES ASSUME ~called.error
                 PROVE  topSlot \in Nat /\ o.slotFirstConstIndex <= topSlot
      OBVIOUS
    <3> QED BY <1>2, CallTopIs, <2>8 DEF topSlot, Keeps, Follows, Same
  <2> QED BY <1>2, <2>7, <2>9, TookResults
<1>5. Turns(d, us, type.rets)
  <2> HIDE DEF d
  <2> QED BY <1>4 DEF Turns
<1> HIDE DEF d
<1> QED BY <1>1, <1>2, <1>5

LEMMA CallStep ==
  ASSUME IInv, NEW type \in FuncTypes, type \in o.f.calls,
         Compile_Call(type) \/ Compile_CallIndirect(type)
  PROVE  IInv'
<1>3. CallFits(type)
  <2>1. type.params \in Seq(ValueTypes) /\ type.rets \in Seq(ValueTypes)
    BY DEF FuncTypes, ValueTypes
  <2>2. 2 * (Len(type.params) + Len(type.rets)) <= MaxCallSlots
    BY FunctionsAssumption DEF IInv
  <2>3. Len(type.params) \in Nat /\ Len(type.rets) \in Nat  BY <2>1
  <2> QED BY Zenon, <2>2, <2>3 DEF CallFits
<1>1. CASE Compile_Call(type)
  <2>1. Compiles("call", type.params)
        /\ Becomes(CompileCallArgsAndReturn(o, type, FALSE))
    BY <1>1 DEF Compile_Call
  <2>2. ~o.error /\ Good(o, Scopes(o))  BY <2>1, Begins
  <2>3. Keeps(o, o, Scopes(o))  BY <2>2, KeepsSelf
  <2>4. type.params \in Seq(ValueTypes) /\ type.rets \in Seq(ValueTypes)
    BY DEF FuncTypes, ValueTypes
  <2>5. PICK d, vs : /\ CompileCallArgsAndReturn(o, type, FALSE)
                            = Eval(d, Len(type.params), type.rets, vs)
                     /\ Turns(d, type.params, type.rets)
    BY <1>3, <2>1, <2>2, <2>3, CalledResults
  <2> QED BY <2>1, <2>4, <2>5, Steps
<1>2. CASE Compile_CallIndirect(type)
  <2> DEFINE c == IF IsStackTopInRegister(o) THEN PreserveRegisterIfOccupied(o, "i32") ELSE o
             us == type.params \o <<"i32">>
  <2>1. Compiles("call_indirect", Append(type.params, "i32"))
        /\ Becomes(CompileCallArgsAndReturn(c, type, TRUE))
    BY <1>2 DEF Compile_CallIndirect
  <2>2. ~o.error /\ Good(o, Scopes(o))  BY <2>1, Begins
  <2>3. Keeps(o, c, Scopes(o))  BY <2>2, KeepsSelf, Preserved
  <2>4. type.params \in Seq(ValueTypes) /\ type.rets \in Seq(ValueTypes)
        /\ <<"i32">> \in Seq(ValueTypes) /\ us \in Seq(ValueTypes)
    BY Singles, Joined DEF FuncTypes, ValueTypes, IntTypes
  <2>5. Append(type.params, "i32") = us
    <3>1. type.params \in Seq(ValueTypes) /\ "i32" \in ValueTypes
      BY <2>4 DEF ValueTypes, IntTypes
    <3> QED BY <3>1
  <2> HIDE DEF c
  <2>6. PICK d, vs : /\ CompileCallArgsAndReturn(c, type, TRUE)
                            = Eval(d, Len(us), type.rets, vs)
                     /\ Turns(d, us, type.rets)
    BY <1>3, <2>1, <2>2, <2>3, CalledResults
  <2>7. Compiles("call_indirect", us)  BY <2>1, <2>5
  <2> HIDE DEF us
  <2> QED BY <2>1, <2>4, <2>6, <2>7, Steps
<1> QED BY <1>1, <1>2

LEMMA GoesTrans ==
  ASSUME NEW c, NEW d, NEW e, Goes(c, d), Goes(d, e)
  PROVE  Goes(c, e) /\ (Idles(c, d) /\ Idles(d, e) => Idles(c, e))
<1>2. ASSUME Idles(c, d), Idles(d, e) PROVE Idles(c, e)
  <2> SUFFICES ASSUME ~e.error, ~c.running PROVE ~e.running /\ e.goal = c.goal
    BY DEF Idles
  <2> QED BY <1>2 DEF Idles, Goes
<1> QED BY <1>2 DEF Goes

LEMMA KeepsGoes ==
  ASSUME NEW c, NEW d, NEW S, S = Scopes(c), Sound(c), Keeps(c, d, S)
  PROVE  Goes(c, d) /\ Idles(c, d)
<1>1. Good(d, S) /\ Follows(c, d) /\ (~d.error => Types(d) = Types(c))  BY DEF Keeps
<1>2. CASE d.error  BY <1>1, <1>2 DEF Goes, Sound, Good, Idles
<1>3. CASE ~d.error  BY <1>1, <1>3, SameScopes DEF Follows, Same, GoalIsOpen, Sound, Goes, Idles
<1> QED BY <1>2, <1>3

LEMMA Steered ==
  ASSUME NEW c, NEW d, Sound(c), IsState(d), d.error = c.error,
         ~c.error => /\ SameFrame(c, d)
                     /\ d.running => d.goal.depth = 0 /\ ~TopScope(Scopes(c)).isPolymorphic
                     /\ \E B : d.block \in Seq(B)
                     /\ Len(d.block) = Len(c.block)
                     /\ \A k \in 1 .. Len(c.block) :
                           /\ DOMAIN d.block[k] = ScopeFields
                           /\ ScopeOf(d.block[k]) = ScopeOf(c.block[k])
                     /\ GoalIsOpen(d, Scopes(c))
  PROVE  Goes(c, d)
<1>1. CASE c.error  BY <1>1 DEF Goes, Sound, Good
<1>2. CASE ~c.error
  <2>2. Good(d, Scopes(c)) /\ Scopes(d) = Scopes(c)  BY <1>2, Reblocked DEF Sound, RunsLive
  <2> QED BY <1>2, <2>2 DEF Goes, Sound, SameFrame, Types
<1> QED BY <1>1, <1>2

\* Only what the program has in its scopes is changed.
LEMMA Refilled ==
  ASSUME NEW c, Good(c, Scopes(c)), ~c.error, NEW block,
         block = [k \in DOMAIN c.block |-> block[k]],
         \A k \in DOMAIN c.block :
            \/ block[k] = c.block[k]
            \/ \E vs : block[k] = [c.block[k] EXCEPT !.operands = vs]
  PROVE  /\ \E B : block \in Seq(B)
         /\ Len(block) = Len(c.block)
         /\ \A k \in 1 .. Len(c.block) : /\ DOMAIN block[k] = ScopeFields
                                         /\ ScopeOf(block[k]) = ScopeOf(c.block[k])
<1>1. /\ DOMAIN c.block = 1 .. Len(c.block) /\ Len(c.block) \in Nat
      /\ \A k \in DOMAIN c.block : DOMAIN c.block[k] = ScopeFields
  BY BlockTop, Bodies DEF BlocksHeld
<1> DEFINE n == Len(c.block)
           B == { block[k] : k \in 1 .. n }
<1>2. block \in [1 .. n -> B]
  <2>1. block = [k \in 1 .. n |-> block[k]]  BY <1>1
  <2>2. \A k \in 1 .. n : block[k] \in B  OBVIOUS
  <2> HIDE DEF B, n
  <2> QED BY <2>1, <2>2
<1>3. block \in Seq(B) /\ Len(block) = n
  <2>1. n \in Nat  BY <1>1
  <2> HIDE DEF B, n
  <2> QED BY <1>2, <2>1
<1>4. ASSUME NEW k \in 1 .. Len(c.block)
      PROVE  DOMAIN block[k] = ScopeFields /\ ScopeOf(block[k]) = ScopeOf(c.block[k])
  <2>1. DOMAIN c.block[k] = ScopeFields  BY <1>1
  <2>2. CASE block[k] = c.block[k]  BY <2>1, <2>2
  <2>3. ASSUME NEW vs, block[k] = [c.block[k] EXCEPT !.operands = vs]
        PROVE  DOMAIN block[k] = ScopeFields /\ ScopeOf(block[k]) = ScopeOf(c.block[k])
    BY <2>1, <2>3 DEF ScopeFields, ScopeOf
  <2> QED BY <1>1, <2>2, <2>3
<1> QED BY <1>3, <1>4

LEMMA Left ==
  ASSUME NEW c, Sound(c), NEW k, NEW at, NEW values,
         ~c.error /\ c.running =>
            \/ k = 0
            \/ /\ k \in 2 .. Len(Scopes(c)) /\ at \in {"end", "else"}
               /\ at = "else" => Scopes(c)[k].opcode = "if"
  PROVE  LET d == Leave(c, k, at, values)
         IN Goes(c, d) /\ Idles(c, d) /\ ~d.running
<1> DEFINE S == Scopes(c)
           d == Leave(c, k, at, values)
           block == [j \in DOMAIN c.block |->
                       IF j < k THEN c.block[j] ELSE [c.block[j] EXCEPT !.operands = <<>>]]
           goal == [depth |-> k, at |-> at, values |-> values]
<1>1. Good(c, S) /\ (~c.error => GoalIsOpen(c, S)) /\ IsState(c)  BY DEF Sound, Good
<1>2. CASE ~c.running
  <2>1. d = c  BY <1>2 DEF Leave
  <2> HIDE DEF d
  <2> QED BY SMTT(40), <1>2, <2>1, KeepsGoes, <1>1, KeepsSelf DEF d
<1>3. CASE c.running
  <2>1. d = [c EXCEPT !.running = FALSE, !.goal = goal, !.block = block]  BY <1>3 DEF Leave
  <2> HIDE DEF d, block
  <2>2. /\ IsState(d) /\ d.error = c.error /\ SameFrame(c, d) /\ ~d.running
        /\ d.goal = goal /\ d.block = block
    <3> HIDE DEF goal
    <3> QED BY <1>1, <2>1 DEF IsState, Fields, SameFrame
  <2>3. CASE c.error
    <3>1. Goes(c, d)  BY <2>2, <2>3, Steered
    <3> QED BY <2>2, <3>1, <1>3 DEF d, Idles
  <2>4. CASE ~c.error
    <3>1. /\ \E B : block \in Seq(B)
          /\ Len(block) = Len(c.block)
          /\ \A j \in 1 .. Len(c.block) : /\ DOMAIN block[j] = ScopeFields
                                         /\ ScopeOf(block[j]) = ScopeOf(c.block[j])
      <4>1. \A j \in DOMAIN c.block :
               \/ block[j] = c.block[j]
               \/ \E vs : block[j] = [c.block[j] EXCEPT !.operands = vs]
        BY DEF block
      <4>2. block = [j \in DOMAIN c.block |-> block[j]]  BY DEF block
      <4> QED BY <1>1, <2>4, <4>1, <4>2, Refilled
    <3>2. GoalIsOpen(d, S)
      <4>3. k \in 2 .. Len(S) => k - 1 \in 1 .. Len(S)
        <5> HIDE DEF S
        <5> QED BY <1>1, <2>4, BlockTop
      <4> QED BY <1>3, <2>2, <2>4, <4>3, <1>1, AllLive, Bodies DEF GoalIsOpen, RunsLive
    <3> QED BY <2>2, <2>4, <3>1, <3>2, Steered, <1>3 DEF d, Idles
  <2> QED BY <2>3, <2>4
<1> QED BY <1>2, <1>3

LEMMA CalmGoes ==
  ASSUME NEW c, NEW d, NEW S, S = Scopes(c), Sound(c), Calm(c, d, S)
  PROVE  Goes(c, d) /\ Idles(c, d)
  BY CalmKeeps, KeepsGoes

LEMMA ReturnedSound ==
  ASSUME NEW c, Sound(c)
  PROVE  LET d == Returned(c) IN Goes(c, d) /\ Idles(c, d) /\ ~d.running
<1> DEFINE S == Scopes(c)
           e == Leave(c, 0, "never", <<>>)
           d == Returned(c)
<1>1. Goes(c, e) /\ Idles(c, e) /\ ~e.running  BY Left
<1>2. CASE ~c.running  BY <1>2, <1>1 DEF Returned, Leave
<1>3. CASE c.running
  <2>1. d = [e EXCEPT !.locals = [i \in DOMAIN e.locals |-> Junk]]  BY <1>3 DEF Returned
  <2> HIDE DEF e, d
  <2>2. Sound(e) /\ IsState(e)  BY <1>1 DEF Goes, Sound, Good
  <2>3. /\ IsState(d) /\ d.error = e.error /\ SameFrame(e, d) /\ ~d.running
        /\ d.block = e.block /\ d.goal = e.goal
    BY <1>1, <2>1, <2>2 DEF IsState, Fields, SameFrame
  <2>4. ~e.error => /\ \E B : d.block \in Seq(B)
                    /\ \A k \in 1 .. Len(e.block) : DOMAIN d.block[k] = ScopeFields
    <3> SUFFICES ASSUME ~e.error
                 PROVE  /\ \E B : d.block \in Seq(B)
                        /\ \A k \in 1 .. Len(e.block) : DOMAIN d.block[k] = ScopeFields
      OBVIOUS
    <3> QED BY <2>3, <2>2, Bodies, BlockTop DEF BlocksHeld, Sound
  <2>6. Goes(e, d)  BY <2>2, <2>3, <2>4, Steered DEF Sound, GoalIsOpen
  <2> QED BY <1>3, <2>3, <1>1, <2>6, GoesTrans DEF Idles, d
<1> QED BY <1>2, <1>3

LEMMA LoopContinued ==
  ASSUME NEW c, Sound(c), NEW k
  PROVE  LET d == ContinueLoop(c, k)
         IN Goes(c, d) /\ Idles(c, d) /\ (~d.error => ~d.running)
<1> DEFINE d == ContinueLoop(c, k)
           r == Returned(c)
           values == Upper(Operands(c), Len(c.block[k].type.params))
           again == [SubSeq(c.block, 1, k) EXCEPT ![k].operands = values]
<1>1. CASE c.error \/ ~c.running
  <2>1. d = c  BY <1>1 DEF ContinueLoop
  <2> HIDE DEF d
  <2> QED BY <1>1, <2>1, KeepsGoes, KeepsSelf DEF d, Sound
<1>2. CASE ~(c.error \/ ~c.running)
  <2>1. \E m : d = [r EXCEPT !.misread = m]
    <3>1. d = [r EXCEPT !.misread = @ \/ ~AllInPlace(c, c.block[k].entry, again)]
      BY <1>2 DEF ContinueLoop
    <3> HIDE DEF r, d, again
    <3> QED BY <3>1
  <2>2. PICK m : d = [r EXCEPT !.misread = m]  BY <2>1
  <2>3. Goes(c, r) /\ Idles(c, r) /\ ~r.running  BY ReturnedSound
  <2> HIDE DEF r, d
  <2>4. Sound(r) /\ Calm(r, d, Scopes(r))  BY <2>2, <2>3, Reads DEF Goes, Sound
  <2> QED BY <2>3, GoesTrans, <2>4, CalmGoes DEF d, Idles
<1> QED BY <1>1, <1>2

LEMMA RunningSet ==
  ASSUME NEW c, Sound(c), NEW r,
         ~c.error /\ r => c.goal.depth = 0 /\ ~TopScope(Scopes(c)).isPolymorphic
  PROVE  LET d == [c EXCEPT !.running = r]
         IN /\ Goes(c, d) /\ (~r => Idles(c, d))
            /\ d.running = r /\ d.goal = c.goal /\ d.error = c.error /\ d.block = c.block
            /\ d.stack = c.stack
<1> DEFINE d == [c EXCEPT !.running = r]
<1>1. Good(c, Scopes(c)) /\ IsState(c)  BY DEF Sound, Good
<1>2. /\ IsState(d) /\ d.error = c.error /\ SameFrame(c, d) /\ d.running = r
      /\ d.goal = c.goal /\ d.block = c.block /\ d.stack = c.stack
  BY <1>1 DEF IsState, Fields, SameFrame
<1> HIDE DEF d
<1>3. ~c.error => /\ \E B : d.block \in Seq(B)
                  /\ \A k \in 1 .. Len(c.block) : DOMAIN d.block[k] = ScopeFields
  <2> SUFFICES ASSUME ~c.error
               PROVE  /\ \E B : d.block \in Seq(B)
                      /\ \A k \in 1 .. Len(c.block) : DOMAIN d.block[k] = ScopeFields
    OBVIOUS
  <2> QED BY <1>2, <1>1, Bodies, BlockTop DEF BlocksHeld
<1>4. ~c.error => GoalIsOpen(d, Scopes(c))  BY <1>2 DEF Sound, GoalIsOpen
<1>5. Goes(c, d)  BY <1>2, <1>3, <1>4, Steered
<1> QED BY <1>2, <1>5 DEF d, Idles

LEMMA Ends ==
  ASSUME IInv, NEW d, Sound(d), Becomes(d),
         ~d.error => TopIs(Scopes(d), Types(d), Block(d).types)
  PROVE  IInv'
  BY Becoming DEF Sound

LEMMA MadePolymorphic ==
  ASSUME NEW c, Sound(c), ~c.error => ~c.running
  PROVE  Unreachable([c EXCEPT !.block[Len(c.block)].isPolymorphic = TRUE])
<1> DEFINE n == Len(c.block)
           d == [c EXCEPT !.block[n].isPolymorphic = TRUE]
           b == [Block(c) EXCEPT !.isPolymorphic = TRUE]
           S == Scopes(c)
<1>1. IsState(c) /\ IsState(d) /\ d.error = c.error  BY DEF Sound, Good, IsState, Fields
<1>2. CASE c.error
  <2> HIDE DEF d
  <2> QED BY <1>1, <1>2 DEF Unreachable, Sound, Good, d
<1>3. CASE ~c.error
  <2>1. Good(c, S) /\ GoalIsOpen(c, S) /\ S \in Seq(ScopeSet)  BY <1>3, Bodies DEF Sound
  <2>2. /\ DOMAIN Block(c) = ScopeFields /\ Block(c) = c.block[n]
        /\ TopScope(S) = ScopeOf(Block(c)) /\ DOMAIN c.block = 1 .. n /\ n >= 1 /\ n \in Nat
    BY <1>3, <2>1, BlockTop
  <2>3. TopScope(S) \in ScopeSet  BY <1>3, <2>1, Bodies, TopTyped
  <2>4. /\ SameFrame(c, d) /\ d.block = [c.block EXCEPT ![n] = b] /\ d.running = c.running
        /\ d.goal = c.goal
    BY <1>1, <2>2 DEF IsState, Fields, SameFrame
  <2>5. /\ DOMAIN b = ScopeFields /\ b.opcode = Block(c).opcode /\ b.type = Block(c).type
        /\ b.blockStackIndex = Block(c).blockStackIndex
        /\ b.exitStackIndex = Block(c).exitStackIndex
        /\ b.stackIndex = Block(c).stackIndex /\ b.types = Block(c).types
        /\ b.dead = Block(c).dead /\ b.isPolymorphic
    BY <2>2 DEF ScopeFields
  <2>6. b.types \in Seq(ValueTypes) /\ b.dead \in BOOLEAN /\ b.isPolymorphic \in BOOLEAN
    <3>1. Block(c).types \in Seq(ValueTypes) /\ Block(c).dead \in BOOLEAN
      <4> HIDE DEF S
      <4> QED BY <2>2, <2>3 DEF ScopeSet, ScopeOf
    <3> HIDE DEF b
    <3> QED BY <2>5, <3>1, <2>2 DEF ScopeFields
  <2> HIDE DEF d, b, n
  <2>7. /\ Good(d, Scopes(d)) /\ Alike(S, Scopes(d)) /\ Block(d) = b
        /\ TopScope(Scopes(d)) = ScopeOf(b)
    <3>4. b.dead => b.isPolymorphic  BY <2>5
    <3>5. d.block = [c.block EXCEPT ![Len(c.block)] = b]  BY <2>4 DEF n
    <3>6. Retops(c, d, b)  BY <1>1, <2>4, <2>5, <2>6, <3>4, <3>5, <1>3 DEF Retops
    <3> QED BY <1>3, <2>1, <3>6, Retopped
  <2>10. Unreachable(d)
    BY <1>3, <2>4, <2>7, <2>1, GoalStays, <2>5 DEF Unreachable, Sound, ScopeOf
  <2> QED BY <2>10 DEF d, n
<1> QED BY <1>2, <1>3

LEMMA MadeUnreached ==
  ASSUME NEW c, Unreachable(c)
  PROVE  Unreachable(Unreached(c))
<1> DEFINE n == Len(c.block)
           d == Unreached(c)
           b == [Block(c) EXCEPT !.types = <<>>, !.dead = TRUE]
           S == Scopes(c)
<1>1. IsState(c) /\ IsState(d) /\ d.error = c.error
  BY DEF Unreachable, Sound, Good, IsState, Fields, Unreached
<1>2. CASE c.error
  <2> HIDE DEF d
  <2> QED BY <1>1, <1>2 DEF Unreachable, Sound, Good, d
<1>3. CASE ~c.error
  <2>1. Good(c, S) /\ GoalIsOpen(c, S) /\ S \in Seq(ScopeSet) /\ TopScope(S).isPolymorphic
        /\ ~c.running
    BY <1>3, Bodies DEF Sound, Unreachable
  <2>2. /\ DOMAIN Block(c) = ScopeFields /\ Block(c) = c.block[n]
        /\ TopScope(S) = ScopeOf(Block(c)) /\ DOMAIN c.block = 1 .. n /\ n >= 1 /\ n \in Nat
    BY <1>3, <2>1, BlockTop
  <2>3. TopScope(S) \in ScopeSet  BY <1>3, <2>1, Bodies, TopTyped
  <2>4. /\ SameFrame(c, d) /\ d.block = [c.block EXCEPT ![n] = b] /\ d.running = c.running
        /\ d.goal = c.goal
    BY <1>1, <2>2 DEF IsState, Fields, SameFrame, Unreached
  <2>5. /\ DOMAIN b = ScopeFields /\ b.opcode = Block(c).opcode /\ b.type = Block(c).type
        /\ b.blockStackIndex = Block(c).blockStackIndex
        /\ b.exitStackIndex = Block(c).exitStackIndex
        /\ b.stackIndex = Block(c).stackIndex /\ b.types = <<>>
        /\ b.dead = TRUE /\ b.isPolymorphic = Block(c).isPolymorphic
    BY <2>2 DEF ScopeFields
  <2>6. b.types \in Seq(ValueTypes) /\ b.dead \in BOOLEAN /\ b.isPolymorphic \in BOOLEAN
        /\ b.isPolymorphic
    <3>1. Block(c).isPolymorphic = TopScope(S).isPolymorphic
          /\ TopScope(S).isPolymorphic \in BOOLEAN
      <4> HIDE DEF S
      <4> QED BY <2>2, <2>3 DEF ScopeSet, ScopeOf
    <3>2. <<>> \in Seq(ValueTypes)  OBVIOUS
    <3> HIDE DEF b, S
    <3> QED BY <2>1, <2>5, <3>1, <3>2
  <2> HIDE DEF d, b, n
  <2>7. /\ Good(d, Scopes(d)) /\ Alike(S, Scopes(d)) /\ Block(d) = b
        /\ TopScope(Scopes(d)) = ScopeOf(b)
    <3>4. b.dead => b.isPolymorphic  BY <2>6
    <3>5. d.block = [c.block EXCEPT ![Len(c.block)] = b]  BY <2>4 DEF n
    <3>6. Retops(c, d, b)  BY SMTT(40), <1>1, <2>4, <2>5, <2>6, <3>4, <3>5, <1>3, <2>1 DEF Retops
    <3> QED BY <1>3, <2>1, <3>6, Retopped
  <2>10. Unreachable(d)
    BY <1>3, <2>1, <2>4, <2>7, GoalStays, <2>6 DEF Unreachable, Sound, ScopeOf
  <2> QED BY <2>10 DEF d, n
<1> QED BY <1>2, <1>3

LEMMA PolymorphicSet ==
  ASSUME NEW c, Sound(c), ~c.error => ~c.running
  PROVE  Unreachable(SetStackPolymorphic(c))
<1> DEFINE p == [c EXCEPT !.block[Len(c.block)].isPolymorphic = TRUE]
           d == SetStackPolymorphic(c)
<1>1. Unreachable(p) /\ Sound(p)  BY MadePolymorphic DEF Unreachable
<1>2. d = UnwindBlockStack(p)  BY DEF SetStackPolymorphic
<1> HIDE DEF p, d
<1>3. Good(d, Scopes(p)) /\ Follows(p, d)  BY <1>1, <1>2, Unwound DEF Sound
<1>4. CASE d.error  BY <1>3, <1>4 DEF Unreachable, Sound, Good, d
<1>5. CASE ~d.error
  <2>3. Unreachable(d)
    BY <1>1, <1>3, <1>5, SameScopes DEF Unreachable, Sound, GoalIsOpen, Follows, Same
  <2> QED BY <2>3 DEF d
<1> QED BY <1>4, <1>5

LEMMA UnreachableEnds ==
  ASSUME IInv, NEW c, Unreachable(c), Becomes(Unreached(c))
  PROVE  IInv'
<1> DEFINE d == Unreached(c)
<1> HIDE DEF d
<1> QED BY Ends, MadeUnreached DEF d, Unreachable, TopIs

LEMMA CanBranchOn ==
  ASSUME NEW c, NEW d, NEW k, Goes(c, d), CanBranch(c, k)
  PROVE  CanBranch(d, k)
  BY DEF Goes, CanBranch

LEMMA GoesTop ==
  ASSUME NEW c, NEW d, Goes(c, d), ~d.error, Good(c, Scopes(c)),
         TopIs(Scopes(c), Types(c), Block(c).types)
  PROVE  TopIs(Scopes(d), Types(d), Block(d).types)
<1> QED BY BlockTop DEF Goes, Sound

LEMMA FollowsSound ==
  ASSUME NEW c, NEW d, NEW S, S = Scopes(c), Sound(c), Good(d, S), Follows(c, d)
  PROVE  /\ Sound(d)
         /\ ~d.error => /\ ~c.error /\ Scopes(d) = S /\ d.goal = c.goal
                        /\ d.running = c.running
<1>1. CASE d.error  BY <1>1 DEF Sound, Good
<1>2. CASE ~d.error  BY <1>2, SameScopes DEF Follows, Same, GoalIsOpen, Sound
<1> QED BY <1>1, <1>2

LEMMA LabelIs ==
  ASSUME NEW c, Good(c, Scopes(c)), ~c.error, NEW k \in DOMAIN c.block
  PROVE  /\ k \in 1 .. Len(Scopes(c)) /\ Scopes(c)[k] \in ScopeSet
         /\ Label(Scopes(c)[k]) \in Seq(ValueTypes)
         /\ Label(Scopes(c)[k]) = IF c.block[k].opcode = "loop" THEN c.block[k].type.params
                                  ELSE c.block[k].type.rets
         /\ c.block[k].opcode = Scopes(c)[k].opcode
<1>1. k \in 1 .. Len(Scopes(c)) /\ Scopes(c)[k] = ScopeOf(c.block[k])
      /\ Scopes(c) \in Seq(ScopeSet)
  BY BlockTop, Bodies
<1> DEFINE S == Scopes(c)
<1> QED BY SMTT(40), <1>1, ScopeTyped DEF Label, ScopeOf

LEMMA LoopInside ==
  ASSUME NEW c, Good(c, Scopes(c)), ~c.error, NEW k \in 1 .. Len(Scopes(c)),
         Scopes(c)[k].opcode # "function" \/ k # 1
  PROVE  k \in 2 .. Len(Scopes(c))
<1> DEFINE S == Scopes(c)
<1> HIDE DEF S
<1> QED BY Bodies DEF S, Nested

LEMMA BranchedForward ==
  ASSUME NEW c, Sound(c), NEW k, CanBranch(c, k),
         ~c.error => Scopes(c)[k].opcode # "loop"
  PROVE  LET d == BranchForward(c, k)
         IN Goes(c, d) /\ Idles(c, d) /\ (~d.error => ~d.running)
<1> DEFINE d == BranchForward(c, k)
           S == Scopes(c)
           values == Upper(Operands(c), Len(LabelTypes(k)))
<1>1. Good(c, S)  BY DEF Sound
<1>2. CASE c.error \/ IsStackPolymorphic(c)
  <2>1. d = c  BY <1>2 DEF BranchForward
  <2>3. ~c.error => ~c.running
    <3> SUFFICES ASSUME ~c.error PROVE ~c.running
      OBVIOUS
    <3> QED BY <1>1, Bodies, <1>2, BlockTop DEF RunsLive
  <2> HIDE DEF d
  <2> QED BY <2>1, <2>3, <1>1, KeepsSelf, KeepsGoes DEF d
<1>3. CASE ~(c.error \/ IsStackPolymorphic(c)) /\ k = 1
  <2> DEFINE e == ReturnValues(c, TRUE)
  <2>1. d = Returned(e)  BY <1>3 DEF BranchForward
  <2>2. Keeps(c, e, S)  BY <1>1, PassedReturn
  <2> HIDE DEF e, d
  <2>3. Goes(c, e) /\ Idles(c, e)  BY <2>2, KeepsGoes
  <2> QED BY <2>3, GoesTrans, <2>1, ReturnedSound DEF d, Goes
<1>4. CASE ~(c.error \/ IsStackPolymorphic(c)) /\ k # 1
  <2> DEFINE e == ResolveBlockResults(c, k, TRUE)
  <2>1. d = Leave(e, k, "end", values)  BY <1>4 DEF BranchForward
  <2>2. k \in 2 .. Len(S)  BY <1>1, <1>4, LoopInside DEF CanBranch
  <2>3. PICK xs \in Seq(ValueTypes) : TopIs(S, Types(c), xs \o S[k].type.rets)
    BY <1>4 DEF CanBranch, Label
  <2>4. Keeps(c, e, S)
    <3>1. S[k].type.rets = IF S[k].opcode = "loop" /\ TRUE THEN S[k].type.params
                           ELSE S[k].type.rets
      BY <1>4
    <3> HIDE DEF S
    <3> QED BY <1>1, <2>2, <2>3, <3>1, Resolved DEF S
  <2> HIDE DEF e, d, values
  <2>5. Goes(c, e) /\ Idles(c, e)  BY <2>4, KeepsGoes
  <2>8. Goes(c, d) /\ Idles(c, d) /\ (~d.error => ~d.running)
    BY <2>5, GoesTrans, <2>1, Left, <2>2 DEF Goes
  <2> QED BY <2>8 DEF d
<1> QED BY <1>2, <1>3, <1>4

LEMMA BranchedBack ==
  ASSUME NEW c, Sound(c), NEW k, CanBranch(c, k),
         ~c.error => Scopes(c)[k].opcode = "loop"
  PROVE  LET d == ContinueLoop(ResolveBlockResults(c, k, TRUE), k)
         IN Goes(c, d) /\ Idles(c, d) /\ (~d.error => ~d.running)
<1> DEFINE e == ResolveBlockResults(c, k, TRUE)
           d == ContinueLoop(e, k)
           S == Scopes(c)
<1>1. Good(c, S)  BY DEF Sound
<1>2. Keeps(c, e, S)
  <2>1. CASE c.error
    <3>1. \A xs, values : Keeps(c, e, S)  BY <1>1, <2>1, Resolved
    <3> QED BY <3>1
  <2>2. CASE ~c.error
    <3>1. k \in 2 .. Len(S)  BY <1>1, <2>2, LoopInside DEF CanBranch
    <3>2. PICK xs \in Seq(ValueTypes) : TopIs(S, Types(c), xs \o S[k].type.params)
      BY <2>2 DEF CanBranch, Label
    <3>3. S[k].type.params = IF S[k].opcode = "loop" /\ TRUE THEN S[k].type.params
                             ELSE S[k].type.rets
      BY <2>2
    <3> HIDE DEF S
    <3> QED BY <1>1, <3>1, <3>2, <3>3, Resolved DEF S
  <2> QED BY <2>1, <2>2
<1> HIDE DEF e
<1>3. Goes(c, e) /\ Idles(c, e)  BY <1>2, KeepsGoes
<1>4. Goes(e, d) /\ Idles(e, d) /\ (~d.error => ~d.running)  BY <1>3, LoopContinued DEF Goes
<1> HIDE DEF d
<1>5. Goes(c, d) /\ Idles(c, d) /\ (~d.error => ~d.running)  BY <1>3, <1>4, GoesTrans
<1> QED BY <1>5 DEF d, e

LEMMA UpperIs ==
  ASSUME NEW s, s \in Seq(ValueTypes), NEW n, n \in 0 .. Len(s)
  PROVE  UpperPart(s, n)
<1>1. Len(s) \in Nat /\ Len(s) - n + 1 \in Nat /\ Len(s) - (Len(s) - n + 1) + 1 = n  OBVIOUS
<1>2. /\ SubSeq(s, Len(s) - n + 1, Len(s)) \in Seq(ValueTypes)
      /\ Len(SubSeq(s, Len(s) - n + 1, Len(s))) = n
      /\ \A j \in 1 .. n : SubSeq(s, Len(s) - n + 1, Len(s))[j] = s[Len(s) - n + j]
  BY SMTT(40), <1>1
<1> QED BY <1>2 DEF Upper, UpperPart

\* Who has operands has the last of them.
LEMMA HasTop ==
  ASSUME NEW c, Block(c).types \in Seq(ValueTypes), NEW xs \in Seq(ValueTypes),
         NEW t \in ValueTypes, HasOperands(c, xs \o <<t>>)
  PROVE  HasOperands(c, <<t>>)
<1> DEFINE have == Block(c).types
           ts == xs \o <<t>>
           us == <<t>>
           n == Min({Len(ts), Len(have)})
           m == Min({Len(us), Len(have)})
<1>1. /\ ts \in Seq(ValueTypes) /\ Len(ts) = Len(xs) + 1 /\ Len(xs) \in Nat /\ ts[Len(ts)] = t
      /\ us \in Seq(ValueTypes) /\ Len(us) = 1 /\ us[1] = t /\ Len(have) \in Nat
      /\ have \in Seq(ValueTypes)
  OBVIOUS
<1>2. (n = Len(ts) \/ Block(c).dead) /\ Upper(have, n) = Upper(ts, n)  BY DEF HasOperands
<1>3. /\ n \in Nat /\ n <= Len(ts) /\ n <= Len(have) /\ n \in {Len(ts), Len(have)}
      /\ m \in Nat /\ m <= 1 /\ m <= Len(have) /\ m \in {1, Len(have)}
  <2>1. Len(ts) \in Nat  BY <1>1
  <2> HIDE DEF have, ts, us
  <2> QED BY <1>1, <2>1, MinOfTwo
<1> HIDE DEF have, ts, us, n, m
<1>4. CASE Len(have) = 0
  <2>1. m = 0 /\ n = 0 /\ Len(ts) > 0  BY <1>1, <1>3, <1>4
  <2>2. Upper(have, m) = Upper(us, m)
    <3>0. 0 \in 0 .. Len(have) /\ 0 \in 0 .. Len(us)  BY <1>1
    <3>1. UpperPart(have, 0) /\ UpperPart(us, 0)  BY <1>1, <3>0, UpperIs
    <3> QED BY <2>1, <3>1 DEF UpperPart
  <2> QED BY <2>2, <1>2, <2>1 DEF HasOperands, have, us, m
<1>5. CASE Len(have) # 0
  <2>1. m = 1 /\ n >= 1 /\ n \in 1 .. n /\ 1 \in 1 .. 1  BY <1>1, <1>3, <1>5
  <2>2. Upper(have, n)[n] = have[Len(have)] /\ Upper(ts, n)[n] = ts[Len(ts)]
    <3>1. Len(have) - n + n = Len(have) /\ Len(ts) - n + n = Len(ts)
          /\ n \in 0 .. Len(have) /\ n \in 0 .. Len(ts)
      BY <1>1, <1>3
    <3>2. UpperPart(have, n) /\ UpperPart(ts, n)  BY <1>1, <3>1, UpperIs
    <3> QED BY <2>1, <3>1, <3>2 DEF UpperPart
  <2>4. /\ Upper(have, 1) \in Seq(ValueTypes) /\ Len(Upper(have, 1)) = 1
        /\ Upper(have, 1)[1] = t
    <3>1. 1 \in 0 .. Len(have) /\ Len(have) - 1 + 1 = Len(have)  BY <1>1, <1>3, <1>5
    <3>2. UpperPart(have, 1)  BY <1>1, <3>1, UpperIs
    <3> QED BY <2>1, <3>1, <3>2, <1>1, <1>2, <2>2 DEF UpperPart
  <2>5. /\ Upper(us, 1) \in Seq(ValueTypes) /\ Len(Upper(us, 1)) = 1
        /\ Upper(us, 1)[1] = t
    <3>1. 1 \in 0 .. Len(us) /\ Len(us) - 1 + 1 = 1  BY <1>1
    <3>2. UpperPart(us, 1)  BY <1>1, <3>1, UpperIs
    <3> QED BY <1>1, <2>1, <3>1, <3>2 DEF UpperPart
  <2> QED BY <2>1, <2>4, <2>5, SeqEqual, <1>1 DEF HasOperands, have, us, m
<1> QED BY <1>4, <1>5

LEMMA Starting ==
  ASSUME IInv, ~o.error, ~o.done
  PROVE  /\ Sound(o) /\ Good(o, Scopes(o)) /\ Block(o).types \in Seq(ValueTypes)
         /\ TopIs(Scopes(o), Types(o), Block(o).types) /\ o.f \in Functions
         /\ IsStackPolymorphic(o) = TopScope(Scopes(o)).isPolymorphic
         /\ o.running => ~IsStackPolymorphic(o) /\ o.goal.depth = 0
<1>1. Good(o, Scopes(o)) /\ GoalIsOpen(o, Scopes(o)) /\ o.f \in Functions
      /\ TopIs(Scopes(o), Types(o), Block(o).types)
  BY DEF IInv
<1>2. TopScope(Scopes(o)) \in ScopeSet /\ TopScope(Scopes(o)) = ScopeOf(Block(o))
      /\ IsStackPolymorphic(o) = TopScope(Scopes(o)).isPolymorphic
  BY <1>1, Bodies, TopTyped, BlockTop
<1> QED BY SMTT(40), <1>1, <1>2, Bodies DEF Sound, ScopeOf, ScopeSet, RunsLive

LEMMA ReturnStep ==
  ASSUME IInv, Compile_Return \/ Compile_Unreachable
  PROVE  IInv'
<1>0. ~o.error /\ ~o.done  BY DEF Compile_Return, Compile_Unreachable, Compiles
<1>1. /\ Sound(o) /\ Good(o, Scopes(o))
      /\ IsStackPolymorphic(o) = TopScope(Scopes(o)).isPolymorphic
      /\ o.running => ~IsStackPolymorphic(o)
  BY <1>0, Starting
<1>2. CASE Compile_Return
  <2> DEFINE r == ReturnValues(o, TRUE)
             d == SetStackPolymorphic(Returned(r))
  <2>1. Becomes(Unreached(IF IsStackPolymorphic(o) THEN o ELSE d))  BY <1>2 DEF Compile_Return
  <2>2. CASE IsStackPolymorphic(o)
    <3>1. Unreachable(o)  BY <1>1, <2>2 DEF Unreachable
    <3> QED BY <2>1, <2>2, <3>1, UnreachableEnds
  <2>3. CASE ~IsStackPolymorphic(o)
    <3>1. Goes(o, r)  BY <1>1, PassedReturn, KeepsGoes
    <3> HIDE DEF r
    <3>3. Unreachable(d)  BY PolymorphicSet, <3>1, ReturnedSound DEF Goes
    <3> HIDE DEF d
    <3> QED BY <2>1, <2>3, <3>3, UnreachableEnds
  <2> QED BY <2>2, <2>3
<1>3. CASE Compile_Unreachable
  <2> DEFINE d == SetStackPolymorphic(Returned(o))
  <2>1. Becomes(Unreached(d))  BY <1>3 DEF Compile_Unreachable
  <2>3. Unreachable(d)  BY PolymorphicSet, <1>1, ReturnedSound DEF Goes
  <2> HIDE DEF d
  <2> QED BY <2>1, <2>3, UnreachableEnds
<1> QED BY <1>2, <1>3

LEMMA FunctionEndStep ==
  ASSUME IInv, Compile_FunctionEnd
  PROVE  IInv'
<1> DEFINE r == ReturnValues(o, FALSE)
           e == Returned(r)
           d == [e EXCEPT !.done = TRUE]
<1>1. ~o.error /\ ~o.done /\ Becomes(d)  BY DEF Compile_FunctionEnd
<1>2. Sound(o) /\ Good(o, Scopes(o))  BY <1>1, Starting
<1>3. Good(r, Scopes(o)) /\ Follows(o, r)  BY ZenonT(60), <1>2, PassedReturn
<1> HIDE DEF r
<1>5. Goes(r, e)  BY ReturnedSound, <1>2, <1>3, FollowsSound
<1> HIDE DEF e
<1>6. Sound(e) /\ IsState(e)  BY <1>5 DEF Goes, Sound, Good
<1>7. /\ IsState(d) /\ d.error = e.error /\ SameFrame(e, d) /\ d.running = e.running
      /\ d.block = e.block /\ d.goal = e.goal /\ d.done
  BY <1>6 DEF IsState, Fields, SameFrame
<1> HIDE DEF d
<1>8. ~e.error => /\ \E B : d.block \in Seq(B)
                  /\ \A k \in 1 .. Len(e.block) : DOMAIN d.block[k] = ScopeFields
                  /\ GoalIsOpen(d, Scopes(e))
                  /\ d.running => d.goal.depth = 0 /\ ~TopScope(Scopes(e)).isPolymorphic
  <2> SUFFICES ASSUME ~e.error
               PROVE  /\ \E B : d.block \in Seq(B)
                      /\ \A k \in 1 .. Len(e.block) : DOMAIN d.block[k] = ScopeFields
                      /\ GoalIsOpen(d, Scopes(e))
                      /\ d.running => d.goal.depth = 0 /\ ~TopScope(Scopes(e)).isPolymorphic
    OBVIOUS
  <2> QED BY <1>7, <1>6, Bodies, BlockTop DEF BlocksHeld, RunsLive, GoalIsOpen, Sound
<1> QED BY <1>1, <1>7, Becoming, <1>6, <1>8, Steered DEF Goes, Sound

LEMMA BlockCount ==
  ASSUME NEW c, NEW d, Good(c, Scopes(c)), Good(d, Scopes(d)), ~c.error, ~d.error,
         Scopes(d) = Scopes(c)
  PROVE  Len(d.block) = Len(c.block)
  BY BlockTop

LEMMA FailedStep ==
  ASSUME IInv, NEW c, IsState(c), c.error, Becomes(Unreached(c))
  PROVE  IInv'
<1> DEFINE d == Unreached(c)
<1>1. IsState(d) /\ d.error  BY DEF Unreached, IsState, Fields
<1> HIDE DEF d
<1> QED BY <1>1, Failing DEF d

\* An operand is on the stack that a branch can take along.
LEMMA CanBranchWith ==
  ASSUME NEW c, Good(c, Scopes(c)), ~c.error, NEW k \in DOMAIN c.block,
         NEW xs \in Seq(ValueTypes), NEW ls,
         ls = (IF c.block[k].opcode = "loop" THEN c.block[k].type.params
               ELSE c.block[k].type.rets),
         TopIs(Scopes(c), Types(c), xs \o ls)
  PROVE  CanBranch(c, k)
<1> QED BY LabelIs DEF CanBranch

LEMMA BranchStep ==
  ASSUME IInv, NEW k \in DOMAIN o.block, Compile_Branch(k)
  PROVE  IInv'
<1> DEFINE S == Scopes(o)
           ls == LabelTypes(k)
<1>1. Compiles("br", ls) /\ ~o.error /\ ~o.done /\ HasOperands(o, ls)
  BY DEF Compile_Branch, Compiles
<1>2. Sound(o) /\ Good(o, S)  BY SMTT(40), <1>1, Starting
<1>3. /\ ls \in Seq(ValueTypes) /\ o.block[k].opcode = S[k].opcode
      /\ ls = IF o.block[k].opcode = "loop" THEN o.block[k].type.params
              ELSE o.block[k].type.rets
  BY SMTT(40), <1>1, <1>2, LabelIs DEF LabelTypes
<1>4. PICK xs \in Seq(ValueTypes) : TopIs(S, Types(o), xs \o ls)  BY <1>1, <1>3, OperandsLie
<1>6. CASE o.block[k].opcode = "loop"
  <2> DEFINE r == ContinueLoop(o, k)
             d == [r EXCEPT !.block[Len(o.block)].isPolymorphic = TRUE]
  <2>1. Becomes(Unreached(d))  BY <1>6 DEF Compile_Branch
  <2>2. Goes(o, r) /\ (~r.error => ~r.running)  BY <1>2, LoopContinued
  <2> HIDE DEF r
  <2>3. Sound(r) /\ IsState(r)  BY <2>2 DEF Goes, Sound, Good
  <2>4. CASE r.error
    <3>1. IsState(d) /\ d.error  BY <2>3, <2>4 DEF IsState, Fields
    <3> HIDE DEF d
    <3> QED BY <2>1, <3>1, FailedStep
  <2>5. CASE ~r.error
    <3>2. Unreachable(d)
      BY <2>2, <2>3, MadePolymorphic, <1>1, <1>2, <2>5, BlockCount DEF Goes, Sound
    <3> HIDE DEF d
    <3> QED BY <2>1, <3>2, UnreachableEnds
  <2> QED BY <2>4, <2>5
<1>7. CASE o.block[k].opcode # "loop"
  <2> DEFINE r == BranchForward(o, k)
             d == SetStackPolymorphic(r)
  <2>1. Becomes(Unreached(d))  BY <1>7 DEF Compile_Branch
  <2>2. Goes(o, r) /\ (~r.error => ~r.running)
    BY <1>2, <1>3, <1>7, BranchedForward, <1>1, <1>4, CanBranchWith
  <2> HIDE DEF r
  <2>3. Unreachable(d)  BY <2>2, PolymorphicSet DEF Goes
  <2> HIDE DEF d
  <2> QED BY <2>1, <2>3, UnreachableEnds
<1> QED BY <1>6, <1>7

LEMMA BranchedFrom ==
  ASSUME NEW c, Sound(c), NEW k, CanBranch(c, k),
         ~c.error => o.block[k].opcode = Scopes(c)[k].opcode
  PROVE  LET d == BranchFrom(c, k) IN Goes(c, d) /\ Idles(c, d)
<1> DEFINE d == BranchFrom(c, k)
           toLoop == o.block[k].opcode = "loop"
<1>1. CASE toLoop /\ LabelTypes(k) = <<>>  BY <1>1, LoopContinued DEF BranchFrom
<1>2. CASE toLoop /\ LabelTypes(k) # <<>>
  <2>1. d = ContinueLoop(ResolveBlockResults(c, k, TRUE), k)  BY <1>2 DEF BranchFrom
  <2> QED BY <1>2, <2>1, BranchedBack
<1>3. CASE ~toLoop /\ LabelTypes(k) = <<>> /\ k # 1
  <2>1. d = Leave(c, k, "end", <<>>)  BY <1>3 DEF BranchFrom, Leave
  <2> QED BY <2>1, Left, <1>3, LoopInside DEF CanBranch, Sound
<1>4. CASE ~toLoop /\ ~(LabelTypes(k) = <<>> /\ k # 1)  BY <1>4, BranchedForward DEF BranchFrom
<1> QED BY <1>1, <1>2, <1>3, <1>4

\* The operand that decides is taken; what is beneath can go along.
LEMMA Deciding ==
  ASSUME IInv, ~o.error, ~o.done, NEW ls \in Seq(ValueTypes),
         HasOperands(o, Append(ls, "i32")), NEW d, Turns(d, <<"i32">>, <<>>)
  PROVE  LET e == Eval(d, 1, <<>>, <<>>)
         IN /\ Evolved(d, e) /\ Sound(e)
            /\ \A k \in DOMAIN o.block :
                  LabelTypes(k) = ls => /\ CanBranch(e, k)
                                        /\ ~e.error => o.block[k].opcode = Scopes(e)[k].opcode
<1> DEFINE e == Eval(d, 1, <<>>, <<>>)
           S == Scopes(o)
           R == Scopes(e)
<1>1. "i32" \in ValueTypes /\ <<"i32">> \in Seq(ValueTypes) /\ Len(<<"i32">>) = 1
      /\ <<>> \in Seq(ValueTypes)
  BY Singles, NoneMore DEF ValueTypes, IntTypes
<1>2. Append(ls, "i32") = ls \o <<"i32">> /\ ls \o <<"i32">> \in Seq(ValueTypes)
  BY <1>1, Assoc, Joined
<1>3. Good(o, S) /\ Block(o).types \in Seq(ValueTypes)  BY Starting
<1>4. HasOperands(o, <<"i32">>)  BY <1>1, <1>2, <1>3, HasTop
<1>5. Evolved(d, e)  BY <1>1, <1>4, Operates DEF Turns
<1>6. PICK xs \in Seq(ValueTypes) : TopIs(S, Types(o), xs \o (ls \o <<"i32">>))
  BY <1>2, OperandsLie
<1>7. xs \o (ls \o <<"i32">>) = (xs \o ls) \o <<"i32">> /\ xs \o ls \in Seq(ValueTypes)
  BY <1>1, Assoc
<1>8. Yields(o, d, S, (xs \o ls) \o <<>>)  BY <1>6, <1>7 DEF Turns
<1> HIDE DEF e
<1>11. ASSUME NEW k \in DOMAIN o.block, LabelTypes(k) = ls
       PROVE  /\ CanBranch(e, k)
              /\ ~e.error => o.block[k].opcode = Scopes(e)[k].opcode
  <2> SUFFICES ASSUME ~e.error
               PROVE  CanBranch(e, k) /\ o.block[k].opcode = Scopes(e)[k].opcode
    BY DEF CanBranch
  <2>1. /\ k \in 1 .. Len(S) /\ Label(S[k]) = ls /\ o.block[k].opcode = S[k].opcode
    BY <1>3, <1>11, LabelIs DEF LabelTypes
  <2>2. Alike(S, R) /\ Types(e) = Types(d) /\ ~d.error
        /\ TopScope(R).isPolymorphic = TopScope(S).isPolymorphic
        /\ TopScope(R).blockStackIndex = TopScope(S).blockStackIndex
    BY <1>5 DEF Evolved
  <2>4. TopIs(R, Types(e), xs \o ls)  BY <2>2, <1>7, <1>8, NoneMore DEF TopIs, Yields
  <2>5. k \in 1 .. Len(R) /\ R[k].opcode = S[k].opcode /\ R[k].type = S[k].type
    BY <2>1, <2>2 DEF Alike
  <2> HIDE DEF S
  <2> QED BY SMTT(40), <1>7, <2>1, <2>4, <2>5 DEF CanBranch, Label
<1> QED BY <1>5, <1>11 DEF e, Evolved, Sound, Good

\* The condition is taken from the register or from where it lies.
LEMMA ConditionTaken ==
  ASSUME IInv, ~o.error, ~o.done
  PROVE  /\ Turns(TopInRegister(o), <<"i32">>, <<>>)
         /\ \A c : Keeps(o, c, Scopes(o)) =>
               /\ \A loc, type, v : Turns(Pop(Read(c, loc, type, v)), <<"i32">>, <<>>)
               /\ \A i, type : Turns(Pop(ReadOperand(c, i, type)), <<"i32">>, <<>>)
<1> DEFINE S == Scopes(o)
<1>1. Good(o, S) /\ "i32" \in ValueTypes  BY Starting DEF ValueTypes, IntTypes
<1>2. ASSUME NEW xs \in Seq(ValueTypes), TopIs(S, Types(o), xs \o <<"i32">>)
      PROVE  Yields(o, o, S, xs \o <<"i32">>) /\ xs \o <<>> = xs
  BY <1>1, <1>2, YieldsSelf, NoneMore
<1>3. Turns(TopInRegister(o), <<"i32">>, <<>>)
  <2> SUFFICES ASSUME NEW xs \in Seq(ValueTypes), TopIs(S, Types(o), xs \o <<"i32">>)
               PROVE  Yields(o, TopInRegister(o), S, xs \o <<>>)
    BY DEF Turns
  <2> QED BY <1>1, <1>2, YieldsTopInRegister
<1>4. ASSUME NEW c, Keeps(o, c, S), NEW d, Calm(c, d, S)
      PROVE  Turns(Pop(d), <<"i32">>, <<>>)
  <2> SUFFICES ASSUME NEW xs \in Seq(ValueTypes), TopIs(S, Types(o), xs \o <<"i32">>)
               PROVE  Yields(o, Pop(d), S, xs \o <<>>)
    BY DEF Turns
  <2>1. Yields(o, d, S, xs \o <<"i32">>)  BY <1>1, <1>2, <1>4, YieldsKeeps, YieldsCalm
  <2> QED BY <1>1, <1>2, <2>1, YieldsPop
<1>5. ASSUME NEW c, Keeps(o, c, S)
      PROVE  /\ \A loc, type, v : Turns(Pop(Read(c, loc, type, v)), <<"i32">>, <<>>)
             /\ \A i, type : Turns(Pop(ReadOperand(c, i, type)), <<"i32">>, <<>>)
  BY <1>5, ReadCalm, <1>4 DEF Keeps
<1> QED BY <1>3, <1>5

LEMMA BranchIfStep ==
  ASSUME IInv, NEW k \in DOMAIN o.block, NEW taken \in BOOLEAN, Compile_BranchIf(k, taken)
  PROVE  IInv'
<1> DEFINE ls == LabelTypes(k)
           c1 == IF o.block[k].opcode = "loop" /\ LabelTypes(k) = <<>> THEN TopInRegister(o)
                 ELSE Pop(ReadOperand(o, 0, "i32"))
           e == Eval(c1, 1, <<>>, <<>>)
           r == e.running /\ taken
           c2 == [e EXCEPT !.running = r]
           d == BranchFrom(c2, k)
           f == Otherwise(d, o, taken)
<1>1. ~o.error /\ ~o.done /\ HasOperands(o, Append(ls, "i32"))
  BY DEF Compile_BranchIf, Compiles
<1>2. Good(o, Scopes(o)) /\ Keeps(o, o, Scopes(o))
      /\ (o.running => o.goal.depth = 0 /\ ~TopScope(Scopes(o)).isPolymorphic)
  BY <1>1, Starting, KeepsSelf
<1>4. Becomes(f)  BY DEF Compile_BranchIf, OnlyIf
<1>5. Turns(c1, <<"i32">>, <<>>)  BY SMTT(40), <1>1, <1>2, ConditionTaken
<1> HIDE DEF c1
<1>6. /\ Evolved(c1, e) /\ Sound(e) /\ CanBranch(e, k)
      /\ ~e.error => o.block[k].opcode = Scopes(e)[k].opcode
  <2> HIDE DEF f
  <2> QED BY <1>1, <1>5, Deciding, <1>2, LabelIs DEF LabelTypes
<1> HIDE DEF e
<1>7. ~e.error => /\ TopIs(Scopes(e), Types(e), Block(e).types)
                  /\ TopScope(Scopes(e)).isPolymorphic = TopScope(Scopes(o)).isPolymorphic
                  /\ e.running = o.running /\ e.goal = o.goal
  BY <1>6 DEF Evolved
<1>8. /\ Goes(e, c2) /\ c2.running = (e.running /\ taken) /\ c2.goal = e.goal
      /\ c2.error = e.error
  <2>1. ~e.error /\ r => e.goal.depth = 0 /\ ~TopScope(Scopes(e)).isPolymorphic  BY <1>2, <1>7
  <2>2. r = (e.running /\ taken)  OBVIOUS
  <2> HIDE DEF r
  <2> QED BY <1>6, <2>1, <2>2, RunningSet
<1> HIDE DEF r, c2
<1>11. Goes(c2, d) /\ Idles(c2, d)  BY BranchedFrom, <1>6, <1>8, CanBranchOn DEF Goes
<1> HIDE DEF d
<1>12. Goes(e, d) /\ Sound(d)  BY <1>8, <1>11, GoesTrans DEF Goes
<1>13. Goes(e, f)
  <2>1. CASE o.running /\ ~taken
    <3>2. ~d.error => d.goal.depth = 0 /\ ~TopScope(Scopes(d)).isPolymorphic
      BY <1>2, <1>7, <1>8, <1>11, <1>12, <2>1 DEF Goes, Idles
    <3> QED BY <1>12, GoesTrans, <3>2, RunningSet, <2>1 DEF Otherwise
  <2>2. CASE ~(o.running /\ ~taken)  BY <1>12, <2>2 DEF Otherwise
  <2> QED BY <2>1, <2>2
<1> HIDE DEF f
<1>15. ~f.error => TopIs(Scopes(f), Types(f), Block(f).types)
  <2> SUFFICES ASSUME ~f.error PROVE TopIs(Scopes(f), Types(f), Block(f).types)
    OBVIOUS
  <2> QED BY <1>7, <1>13, GoesTop, <1>6 DEF Goes, Sound
<1> QED BY <1>4, <1>15, Ends, <1>13 DEF Goes

\* One target of a br_table: a run that does not take it is not led astray.
LEMMA BranchedTarget ==
  ASSUME NEW c, Sound(c), NEW k, CanBranch(c, k),
         ~c.error => o.block[k].opcode = Scopes(c)[k].opcode,
         NEW taken,
         ~c.error /\ taken => c.goal.depth = 0 /\ ~TopScope(Scopes(c)).isPolymorphic
  PROVE  LET d == BranchTarget(c, k, taken)
         IN /\ Goes(c, d) /\ ~d.running
            /\ ~d.error /\ ~taken => d.goal = c.goal
<1> DEFINE here == [c EXCEPT !.running = taken]
           r == IF o.block[k].opcode = "loop"
                THEN ContinueLoop(ResolveBlockResults(here, k, TRUE), k)
                ELSE BranchForward(here, k)
           d == [r EXCEPT !.running = FALSE]
<1>1. BranchTarget(c, k, taken) = d  BY DEF BranchTarget
<1>2. Goes(c, here) /\ here.running = taken /\ here.goal = c.goal  BY RunningSet
<1> HIDE DEF here
<1>3. Sound(here) /\ CanBranch(here, k)  BY <1>2, CanBranchOn DEF Goes
<1>4. ~here.error => o.block[k].opcode = Scopes(here)[k].opcode  BY <1>2 DEF Goes
<1>5. Goes(here, r) /\ Idles(here, r)
  <2>1. CASE o.block[k].opcode = "loop"  BY <1>3, <1>4, <2>1, BranchedBack
  <2>2. CASE o.block[k].opcode # "loop"  BY <1>3, <1>4, <2>2, BranchedForward
  <2> QED BY <2>1, <2>2
<1> HIDE DEF r
<1>7. Goes(r, d) /\ d.running = FALSE /\ d.goal = r.goal  BY RunningSet, <1>5 DEF Goes
<1> HIDE DEF d
<1> QED BY <1>1, <1>7, <1>2, <1>5, GoesTrans DEF Goes, Idles

LEMMA BranchTableStep ==
  ASSUME IInv, NEW k \in DOMAIN o.block, NEW j \in DOMAIN o.block, NEW chosen \in 1 .. 2,
         Compile_BranchTable(j, k, chosen)
  PROVE  IInv'
<1> DEFINE ls == LabelTypes(j)
           p == PreserveRegisterIfOccupied(o, "i64")
           c1 == Pop(Read(p, GetStackTopSlotNumber(p), "i32", Operand(o, 0)))
           e == Eval(c1, 1, <<>>, <<>>)
           t1 == e.running /\ chosen = 1
           t2 == e.running /\ chosen = 2
           c2 == BranchTarget(e, j, t1)
           c3 == BranchTarget(c2, k, t2)
           d == SetStackPolymorphic(c3)
<1>1. ~o.error /\ ~o.done /\ HasOperands(o, Append(ls, "i32")) /\ LabelTypes(k) = ls
  BY DEF Compile_BranchTable, Compiles
<1>2. /\ Good(o, Scopes(o)) /\ Keeps(o, p, Scopes(o))
      /\ o.running => o.goal.depth = 0 /\ ~TopScope(Scopes(o)).isPolymorphic
  BY <1>1, Starting, Preserved
<1>4. Becomes(Unreached(d))  BY DEF Compile_BranchTable
<1> HIDE DEF p
<1>5. Turns(c1, <<"i32">>, <<>>)  BY SMTT(40), <1>1, <1>2, ConditionTaken
<1> HIDE DEF c1
<1>6. /\ Evolved(c1, e) /\ Sound(e) /\ CanBranch(e, j) /\ CanBranch(e, k)
      /\ ~e.error => /\ o.block[j].opcode = Scopes(e)[j].opcode
                     /\ o.block[k].opcode = Scopes(e)[k].opcode
  <2> HIDE DEF d
  <2> QED BY <1>1, <1>5, Deciding, <1>2, LabelIs DEF LabelTypes
<1> HIDE DEF e
<1>8. /\ ~e.error /\ (t1 \/ t2) => e.goal.depth = 0 /\ ~TopScope(Scopes(e)).isPolymorphic
      /\ ~(t1 /\ t2)
  BY <1>2, <1>6 DEF Evolved
<1> HIDE DEF t1, t2
<1>9. Goes(e, c2) /\ ~c2.running /\ (~c2.error /\ ~t1 => c2.goal = e.goal)
  BY <1>6, <1>8, BranchedTarget
<1> HIDE DEF c2
<1>12. Goes(c2, c3) /\ ~c3.running  BY BranchedTarget, <1>6, <1>9, CanBranchOn, <1>8 DEF Goes
<1> HIDE DEF c3
<1>13. Unreachable(d)  BY <1>12, PolymorphicSet DEF Goes
<1> HIDE DEF d
<1> QED BY <1>4, <1>13, UnreachableEnds

LEMMA GrownNone ==
  ASSUME NEW c, NEW S, Good(c, S), NEW ts
  PROVE  Grown(c, c, ts, 0, S)
<1> QED BY KeepsSelf, TypesSeq, Bodies DEF Grown, Keeps

LEMMA GrownOne ==
  ASSUME NEW c, NEW d, NEW e, NEW S, NEW ts, NEW n \in Nat, Good(c, S),
         Grown(c, d, ts, n, S), Pushes(d, e, ts[n + 1], S)
  PROVE  Grown(c, e, ts, n + 1, S)
<1>1. Good(d, S) /\ Good(e, S) /\ Follows(d, e) /\ Follows(c, d) /\ Follows(c, e)
  BY FollowsTrans DEF Grown, Pushes
<1> SUFFICES ASSUME ~e.error
             PROVE  /\ Len(e.stack) = Len(c.stack) + (n + 1)
                    /\ \A i \in 1 .. Len(c.stack) : e.stack[i].type = c.stack[i].type
                    /\ \A j \in 1 .. n + 1 : e.stack[Len(c.stack) + j].type = ts[j]
  BY <1>1 DEF Grown
<1>2. ~d.error /\ ~c.error  BY <1>1 DEF Follows
<1> DEFINE C == Len(c.stack)
           D == Len(d.stack)
           E == Len(e.stack)
<1>4. C \in Nat /\ D \in Nat /\ E \in Nat
      /\ Len(Types(d)) = D /\ Len(Types(e)) = E
      /\ (\A i \in 1 .. D : Types(d)[i] = d.stack[i].type)
      /\ (\A i \in 1 .. E : Types(e)[i] = e.stack[i].type)
      /\ Types(d) \in Seq(ValueTypes \union {"none"})
  BY TypesSeq, <1>1, <1>2, Bodies
<1>5. Types(e) = Append(Types(d), ts[n + 1])  BY DEF Pushes
<1>6. Len(Types(e)) = D + 1 /\ Types(e)[D + 1] = ts[n + 1]
      /\ \A i \in 1 .. D : Types(e)[i] = Types(d)[i]
  BY SMTT(40), <1>4, <1>5
<1>7. /\ D = C + n /\ \A i \in 1 .. C : d.stack[i].type = c.stack[i].type
      /\ \A j \in 1 .. n : d.stack[C + j].type = ts[j]
  BY <1>2 DEF Grown
<1> HIDE DEF C, D, E
<1>8. E = C + (n + 1) /\ E = D + 1  BY <1>4, <1>6, <1>7
<1>9. \A i \in 1 .. D : i \in 1 .. E /\ e.stack[i].type = d.stack[i].type  BY <1>4, <1>8, <1>6
<1>10. ASSUME NEW i \in 1 .. C PROVE e.stack[i].type = c.stack[i].type  BY <1>4, <1>7, <1>9
<1>11. ASSUME NEW j \in 1 .. n + 1 PROVE e.stack[C + j].type = ts[j]
  <2>1. CASE j = n + 1  BY <1>4, <1>7, <1>8, <2>1, <1>6
  <2>2. CASE j # n + 1
    <3>1. j \in 1 .. n /\ C + j \in 1 .. D  BY <1>4, <1>7, <2>2
    <3> QED BY <1>7, <1>9, <3>1
  <2> QED BY <2>1, <2>2
<1> QED BY <1>8, <1>10, <1>11 DEF C, E

LEMMA BlockResultsRun ==
  ASSUME NEW c, NEW type, NEW M, M = Len(type.rets), M \in Nat
  PROVE  \E go : BlockResultRun(c, type, M, go)
<1> DEFINE N == M
           Step(d, k) == PushResult(d, k, type)
           Runs(g, n) == g = [k \in 0 .. n |-> IF k = 0 THEN c ELSE Step(g[k - 1], k)]
           R == {n \in Nat : \E g : Runs(g, n)}
<1>0. N \in Nat  OBVIOUS
<1>1. 0 \in R
  <2>1. Runs([k \in {0} |-> c], 0)  OBVIOUS
  <2> QED BY <2>1
<1>2. ASSUME NEW n \in Nat, n \in R PROVE n + 1 \in R
  <2>1. PICK g : Runs(g, n)  BY <1>2
  <2> HIDE DEF Step
  <2>2. Runs([k \in 0 .. n + 1 |-> IF k <= n THEN g[k] ELSE Step(g[n], n + 1)], n + 1)  BY <2>1
  <2> HIDE DEF Runs
  <2> QED BY <2>2
<1>3. N \in R
  <2> HIDE DEF R, N
  <2> QED BY <1>0, <1>1, <1>2, Induct
<1>4. PICK go : go = (CHOOSE g : Runs(g, N)) /\ Runs(go, N)  BY <1>3
<1>5. PushBlockResults(c, type) = go[N]  BY <1>4 DEF PushBlockResults
<1>6. go[0] = c /\ \A k \in 1 .. N : go[k] = Step(go[k - 1], k)
  <2> HIDE DEF Step, N
  <2>1. go = [k \in 0 .. N |-> IF k = 0 THEN c ELSE Step(go[k - 1], k)]  BY <1>4
  <2> QED BY <2>1, <1>0
<1> QED BY <1>5, <1>6 DEF BlockResultRun

LEMMA PushedResults ==
  ASSUME NEW c, NEW S, Good(c, S), NEW type, type.rets \in Seq(ValueTypes)
  PROVE  Grown(c, PushBlockResults(c, type), type.rets, Len(type.rets), S)
<1> DEFINE rets == type.rets
           N == Len(rets)
<1>1. N \in Nat /\ N = Len(type.rets)  OBVIOUS
<1>2. PICK go : BlockResultRun(c, type, N, go)
  <2> HIDE DEF N
  <2> QED BY <1>1, BlockResultsRun
<1>3. \A k \in 1 .. N : rets[k] \in ValueTypes  OBVIOUS
<1> HIDE DEF N
<1> DEFINE P(n) == n <= N => Grown(c, go[n], rets, n, S)
           I == {n \in Nat : P(n)}
<1>4. 0 \in I  BY <1>2, GrownNone DEF BlockResultRun
<1>5. ASSUME NEW n \in Nat, n \in I PROVE n + 1 \in I
  <2>1. P(n)  BY <1>5
  <2> HIDE DEF I
  <2> SUFFICES P(n + 1)  BY DEF I
  <2> SUFFICES ASSUME n + 1 <= N PROVE Grown(c, go[n + 1], rets, n + 1, S)
    OBVIOUS
  <2> DEFINE t == rets[n + 1]
  <2>2. n <= N /\ n + 1 \in 1 .. N /\ (n + 1) - 1 = n  BY <1>1
  <2>3. Grown(c, go[n], rets, n, S) /\ t \in ValueTypes  BY <1>3, <2>1, <2>2
  <2>6. go[n + 1] = PushRegister(go[n], t) \/ go[n + 1] = PushAllocatedSlot(go[n], t)
    BY <1>2, <2>2 DEF PushResult, BlockResultRun
  <2> HIDE DEF t
  <2>7. Pushes(go[n], go[n + 1], t, S)  BY <2>3, <2>6, PushedRegister, PushedSlot DEF Grown
  <2> QED BY <2>3, <2>7, GrownOne DEF t
<1>6. N \in I
  <2> HIDE DEF I
  <2> QED BY <1>1, <1>4, <1>5, Induct
<1> QED BY <1>1, <1>6, <1>2 DEF BlockResultRun

LEMMA PushedParam ==
  ASSUME NEW c, NEW S, Good(c, S), NEW i, NEW type, type.params[i] \in ValueTypes,
         NEW slot \in Nat,
         ~c.error /\ ~TopScope(S).isPolymorphic =>
            ItemHeld(c, [slot |-> slot, type |-> type.params[i]])
  PROVE  Pushes(c, PushParam(c, i, type, slot), type.params[i], S)
<1> DEFINE t == type.params[i]
           d == Push(c, t, slot)
<1>1. Pushes(c, d, t, S)  BY Pushed
<1>2. PushParam(c, i, type, slot) = d
      \/ PushParam(c, i, type, slot) = MarkSlotsAllocatedByType(d, slot, t)
  BY DEF PushParam
<1> HIDE DEF d, t
<1>4. Calm(d, MarkSlotsAllocatedByType(d, slot, t), S)  BY Marked, <1>1 DEF Pushes
<1> QED BY <1>1, <1>2, <1>4, PushesCalm DEF t

LEMMA ParamsRun ==
  ASSUME NEW c, NEW type, NEW exit, NEW results, NEW M, M = Len(type.params), M \in Nat
  PROVE  \E go : ParamRun(c, type, exit, results, M, go)
<1> DEFINE N == M
           Step(d, k) == PushParam(d, k, type, GetSlotForStackIndex(results, exit + k))
           Runs(g, n) == g = [k \in 0 .. n |-> IF k = 0 THEN c ELSE Step(g[k - 1], k)]
           R == {n \in Nat : \E g : Runs(g, n)}
<1>0. N \in Nat  OBVIOUS
<1>1. 0 \in R
  <2>1. Runs([k \in {0} |-> c], 0)  OBVIOUS
  <2> QED BY <2>1
<1>2. ASSUME NEW n \in Nat, n \in R PROVE n + 1 \in R
  <2>1. PICK g : Runs(g, n)  BY <1>2
  <2> HIDE DEF Step
  <2>2. Runs([k \in 0 .. n + 1 |-> IF k <= n THEN g[k] ELSE Step(g[n], n + 1)], n + 1)  BY <2>1
  <2> HIDE DEF Runs
  <2> QED BY <2>2
<1>3. N \in R
  <2> HIDE DEF R, N
  <2> QED BY <1>0, <1>1, <1>2, Induct
<1>4. PICK go : go = (CHOOSE g : Runs(g, N)) /\ Runs(go, N)  BY <1>3
<1>5. PushParams(c, type, exit, results) = go[N]  BY <1>4 DEF PushParams
<1>6. go[0] = c /\ \A k \in 1 .. N : go[k] = Step(go[k - 1], k)
  <2> HIDE DEF Step, N
  <2>1. go = [k \in 0 .. N |-> IF k = 0 THEN c ELSE Step(go[k - 1], k)]  BY <1>4
  <2> QED BY <2>1, <1>0
<1> QED BY <1>5, <1>6 DEF ParamRun

LEMMA PushedParams ==
  ASSUME NEW c, NEW S, Good(c, S), NEW type, type.params \in Seq(ValueTypes),
         NEW exit, NEW results, ParamsHeld(c, S, type, exit, results)
  PROVE  Grown(c, PushParams(c, type, exit, results), type.params, Len(type.params), S)
<1> DEFINE ps == type.params
           N == Len(ps)
           Slot(k) == GetSlotForStackIndex(results, exit + k)
<1>1. N \in Nat /\ N = Len(type.params)  OBVIOUS
<1>2. PICK go : ParamRun(c, type, exit, results, N, go)
  <2> HIDE DEF N
  <2> QED BY <1>1, ParamsRun
<1>3. \A k \in 1 .. N : ps[k] \in ValueTypes  OBVIOUS
<1>4. \A k \in 1 .. N :
        /\ Slot(k) \in Nat
        /\ ~c.error /\ ~TopScope(S).isPolymorphic =>
              ItemHeld(c, [slot |-> Slot(k), type |-> ps[k]])
  BY DEF ParamsHeld
<1>5. \A k \in 1 .. N : go[k] = PushParam(go[k - 1], k, type, Slot(k))  BY <1>2 DEF ParamRun
<1> HIDE DEF N, Slot
<1> DEFINE P(n) == n <= N => Grown(c, go[n], ps, n, S)
           I == {n \in Nat : P(n)}
<1>6. 0 \in I  BY <1>2, GrownNone DEF ParamRun
<1>7. ASSUME NEW n \in Nat, n \in I PROVE n + 1 \in I
  <2>1. P(n)  BY <1>7
  <2> HIDE DEF I
  <2> SUFFICES P(n + 1)  BY DEF I
  <2> SUFFICES ASSUME n + 1 <= N PROVE Grown(c, go[n + 1], ps, n + 1, S)
    OBVIOUS
  <2> DEFINE t == ps[n + 1]
             s == Slot(n + 1)
             d == go[n]
  <2>2. n <= N /\ n + 1 \in 1 .. N /\ (n + 1) - 1 = n  BY <1>1
  <2>3. Grown(c, d, ps, n, S) /\ t \in ValueTypes /\ s \in Nat
        /\ t = type.params[n + 1]
    BY <1>3, <1>4, <2>1, <2>2
  <2>4. Good(d, S) /\ Follows(c, d)  BY <2>3 DEF Grown
  <2>5. go[n + 1] = PushParam(d, n + 1, type, s)  BY <1>5, <2>2
  <2>6. ~c.error /\ ~TopScope(S).isPolymorphic => ItemHeld(c, [slot |-> s, type |-> t])
    BY <1>4, <2>2
  <2> HIDE DEF t, s, d
  <2>7. ASSUME ~d.error, ~TopScope(S).isPolymorphic
        PROVE  ItemHeld(d, [slot |-> s, type |-> t])
    <3> DEFINE it == [slot |-> s, type |-> t]
    <3>1. it \in Items  BY <2>3 DEF Items
    <3>2. ~c.error /\ Same(c, d) /\ SameLocals(c, d) /\ c.maxStackSlots <= d.maxStackSlots
      BY <2>4, <2>7 DEF Follows
    <3>4. ItemHeld(c, it)  BY <2>6, <2>7, <3>2
    <3> HIDE DEF it
    <3>5. ItemHeld(d, it)  BY <3>1, <3>2, <3>4, HeldOn, <2>4, <2>7, Bodies DEF Sizes
    <3> QED BY <3>5 DEF it
  <2> QED BY <2>3, GrownOne, <2>4, <2>5, <2>7, PushedParam DEF t, d
<1>8. N \in I
  <2> HIDE DEF I
  <2> QED BY <1>1, <1>6, <1>7, Induct
<1> QED BY <1>1, <1>8, <1>2 DEF ParamRun

LEMMA AppendScope ==
  ASSUME NEW S \in Seq(ScopeSet), S # <<>>, NEW s \in ScopeSet
  PROVE  LET R == Append(S, s)
         IN /\ R \in Seq(ScopeSet) /\ R # <<>> /\ Len(R) = Len(S) + 1
            /\ \A k \in 1 .. Len(S) : R[k] = S[k]
            /\ R[Len(S) + 1] = s /\ TopScope(R) = s
            /\ Len(S) \in Nat /\ Len(S) >= 1
BY DEF TopScope

LEMMA NestedMore ==
  ASSUME NEW S \in Seq(ScopeSet), NEW T, NEW base \in Nat, Nested(S, T, base), NEW s,
         CanNest(S, T, s), Len(T) \in Nat
  PROVE  LET R == Append(S, s)
         IN /\ Nested(R, T, base)
            /\ \A i : LiveItem(R, i) => LiveItem(S, i)
<1> DEFINE R == Append(S, s)
           n == Len(S)
           p == TopScope(S)
<1>1. S # <<>> /\ s \in ScopeSet  BY DEF Nested, CanNest
<1>2. /\ R \in Seq(ScopeSet) /\ R # <<>> /\ Len(R) = n + 1
      /\ \A k \in 1 .. n : R[k] = S[k]
      /\ R[n + 1] = s /\ TopScope(R) = s /\ n \in Nat /\ n >= 1
  BY <1>1, AppendScope
<1>3. /\ p = S[n] /\ n \in 1 .. n /\ p \in ScopeSet
      /\ p.blockStackIndex \in Nat /\ p.exitStackIndex \in Nat /\ p.stackIndex \in Nat
      /\ s.blockStackIndex \in Nat /\ s.exitStackIndex \in Nat /\ s.stackIndex \in Nat
  BY <1>1, <1>2, TopTyped DEF TopScope, ScopeSet
<1>4. /\ s.blockStackIndex <= Len(T) /\ s.exitStackIndex <= s.blockStackIndex
      /\ s.stackIndex <= s.blockStackIndex /\ (s.dead => s.isPolymorphic)
      /\ Inside(p, s) /\ (~p.isPolymorphic => Records(T, p, s))
  BY DEF CanNest
<1>5. /\ base <= p.blockStackIndex /\ S[1].opcode = "function"
      /\ \A k \in 1 .. n :
          /\ base <= S[k].blockStackIndex
          /\ S[k].exitStackIndex <= S[k].blockStackIndex
          /\ S[k].stackIndex <= S[k].blockStackIndex
          /\ S[k].dead => S[k].isPolymorphic
  BY <1>3 DEF Nested
<1>6. \A k \in 1 .. n : \A j \in 1 .. k - 1 : Inside(S[j], S[k])  BY DEF Nested
<1>7. \A k \in 2 .. n : ~S[k - 1].isPolymorphic => Records(T, S[k - 1], S[k])  BY DEF Nested
<1>8. ASSUME NEW j \in 1 .. n PROVE Inside(S[j], s)
  <2>1. CASE j = n  BY <1>3, <1>4, <2>1
  <2>2. CASE j # n
    <3>2. Inside(S[j], p)  BY SMTT(40), <1>3, <1>6, <1>2, <2>2
    <3>3. S[j].blockStackIndex \in Nat  BY ScopeTyped
    <3>4. p.exitStackIndex <= p.blockStackIndex /\ p.blockStackIndex <= s.exitStackIndex
          /\ p.blockStackIndex <= s.stackIndex
      BY <1>3, <1>4, <1>5 DEF Inside
    <3>5. /\ S[j].blockStackIndex <= p.exitStackIndex
          /\ S[j].isPolymorphic => p.isPolymorphic
          /\ p.isPolymorphic => s.isPolymorphic
      BY <1>4, <3>2 DEF Inside
    <3> HIDE DEF p, n
    <3>6. /\ S[j].blockStackIndex <= s.exitStackIndex
          /\ S[j].blockStackIndex <= s.stackIndex
      BY SMTT(40), <1>3, <3>3, <3>4, <3>5
    <3> QED BY <3>6, <3>5 DEF Inside
  <2> QED BY <2>1, <2>2
<1> HIDE DEF R, n, p
<1>9. \A k \in 1 .. n + 1 : k \in 1 .. n \/ k = n + 1  BY <1>2
<1>10. ASSUME NEW k \in 1 .. n + 1
       PROVE  /\ base <= R[k].blockStackIndex
              /\ R[k].exitStackIndex <= R[k].blockStackIndex
              /\ R[k].stackIndex <= R[k].blockStackIndex
              /\ R[k].dead => R[k].isPolymorphic
  <2>1. CASE k \in 1 .. n  BY <1>2, <1>5, <2>1
  <2>2. CASE k = n + 1  BY SMTT(40), <1>3, <1>4, <1>5, <1>2, <2>2 DEF Inside
  <2> QED BY <1>9, <2>1, <2>2
<1>11. ASSUME NEW k \in 1 .. n + 1, NEW j \in 1 .. k - 1 PROVE Inside(R[j], R[k])
  BY SMTT(40), <1>2, <1>6, <1>8, <1>9
<1>12. ASSUME NEW k \in 2 .. n + 1, ~R[k - 1].isPolymorphic PROVE Records(T, R[k - 1], R[k])
  <2>1. k - 1 \in 1 .. n /\ ((k \in 2 .. n /\ k \in 1 .. n) \/ (k = n + 1 /\ k - 1 = n))
    BY <1>2
  <2>2. R[k - 1] = S[k - 1]  BY <1>2, <2>1
  <2>3. CASE k \in 2 .. n /\ k \in 1 .. n  BY <1>2, <1>7, <1>12, <2>2, <2>3
  <2>4. CASE k = n + 1 /\ k - 1 = n  BY <1>2, <1>3, <1>4, <1>12, <2>2, <2>4
  <2> QED BY <2>1, <2>3, <2>4
<1>15. ASSUME NEW i, LiveItem(R, i) PROVE LiveItem(S, i)  BY <1>2, <1>15 DEF n, LiveItem
<1> QED BY SMTT(40), <1>15, <1>2, <1>10, <1>11, <1>12, <1>4, <1>5 DEF R, Nested

LEMMA SeqOfMore ==
  ASSUME NEW B, NEW s \in Seq(B), NEW b
  PROVE  /\ Append(s, b) \in Seq(B \union {b}) /\ Len(Append(s, b)) = Len(s) + 1
         /\ Append(s, b)[Len(s) + 1] = b /\ Len(s) \in Nat
         /\ \A k \in 1 .. Len(s) : Append(s, b)[k] = s[k]
<1> QED OBVIOUS

LEMMA SeqIsFunction ==
  ASSUME NEW T, NEW q \in Seq(T), NEW n, n = Len(q)
  PROVE  q = [k \in 1 .. n |-> q[k]] /\ DOMAIN q = 1 .. n
  OBVIOUS

LEMMA ScopesGrow ==
  ASSUME NEW e, Good(e, Scopes(e)), ~e.error, NEW d, NEW b, d.block = Append(e.block, b)
  PROVE  ScopeOnTop(e, d, b)
<1>1. PICK B : e.block \in Seq(B)  BY Bodies DEF BlocksHeld
<1> DEFINE n == Len(e.block)
<1>2. /\ d.block \in Seq(B \union {b}) /\ Len(d.block) = n + 1 /\ d.block[n + 1] = b
      /\ n \in Nat /\ \A k \in 1 .. n : d.block[k] = e.block[k]
  BY <1>1, SeqOfMore
<1>4. DOMAIN d.block = 1 .. n + 1  BY <1>2
<1>5. Scopes(d) = Append(Scopes(e), ScopeOf(b))
  <2>1. /\ Len(Scopes(e)) = n /\ Scopes(e) \in Seq(ScopeSet)
        /\ \A k \in 1 .. n : Scopes(e)[k] = ScopeOf(e.block[k])
    BY BlockTop, Bodies
  <2> DEFINE S == Scopes(e)
             s == ScopeOf(b)
  <2> HIDE DEF S, s
  <2>2. /\ Append(S, s) \in Seq(ScopeSet \union {s}) /\ Len(Append(S, s)) = n + 1
        /\ Append(S, s)[n + 1] = s /\ \A k \in 1 .. n : Append(S, s)[k] = S[k]
    BY <2>1, SeqOfMore DEF S
  <2>3. Scopes(d) = [k \in 1 .. n + 1 |-> ScopeOf(d.block[k])]  BY <1>4 DEF Scopes
  <2>4. ASSUME NEW k \in 1 .. n + 1 PROVE ScopeOf(d.block[k]) = Append(S, s)[k]
    <3> HIDE DEF n
    <3>1. CASE k = n + 1  BY <1>2, <2>2, <3>1 DEF s
    <3>2. CASE k # n + 1  BY <1>2, <3>2, <2>1, <2>2 DEF S
    <3> QED BY <3>1, <3>2
  <2>5. Append(S, s) = [k \in 1 .. n + 1 |-> Append(S, s)[k]]
    <3> HIDE DEF n
    <3> QED BY <2>2, SeqIsFunction
  <2>6. Scopes(d) = Append(S, s)
    <3> HIDE DEF n
    <3> QED BY <2>3, <2>4, <2>5
  <2> QED BY <2>6 DEF S, s
<1> QED BY <1>2, <1>4, <1>5 DEF ScopeOnTop, Block, Last

LEMMA ScopeOpened ==
  ASSUME NEW e, Good(e, Scopes(e)), ~e.error, NEW b, DOMAIN b = ScopeFields,
         CanNest(Scopes(e), Types(e), ScopeOf(b)), e.running => ~b.isPolymorphic
  PROVE  LET d == [e EXCEPT !.block = Append(e.block, b)]
         IN /\ Good(d, Scopes(d)) /\ Scopes(d) = Append(Scopes(e), ScopeOf(b))
            /\ TopScope(Scopes(d)) = ScopeOf(b)
            /\ Block(d) = b /\ SameFrame(e, d) /\ d.running = e.running /\ d.goal = e.goal
            /\ ~d.error
<1> DEFINE d == [e EXCEPT !.block = Append(e.block, b)]
           S == Scopes(e)
           R == Scopes(d)
           n == Len(e.block)
<1>1. IsState(e) /\ Body(e, S)  BY Bodies DEF Good
<1>2. /\ IsState(d) /\ ~d.error /\ SameFrame(e, d) /\ d.running = e.running
      /\ d.goal = e.goal /\ d.block = Append(e.block, b)
  BY <1>1 DEF IsState, Fields, SameFrame
<1> HIDE DEF d
<1>3. /\ R = Append(S, ScopeOf(b)) /\ Block(d) = b
      /\ \E B : d.block \in Seq(B)
      /\ Len(d.block) = n + 1 /\ n \in Nat
      /\ DOMAIN d.block = 1 .. n + 1
      /\ d.block[n + 1] = b
      /\ \A k \in 1 .. n : d.block[k] = e.block[k]
  <2>2. ScopeOnTop(e, d, b)  BY ScopesGrow, <1>2
  <2> QED BY <2>2 DEF ScopeOnTop
<1>4. /\ S \in Seq(ScopeSet) /\ Nested(S, Types(e), e.stackFirstDynamicIndex)
      /\ e.stackFirstDynamicIndex \in Nat /\ Len(Types(e)) \in Nat /\ S # <<>>
      /\ (\A k \in DOMAIN e.block : DOMAIN e.block[k] = ScopeFields)
      /\ e.block # <<>> /\ DOMAIN e.block = 1 .. n
  BY Bodies, BlockTop, TypesSeq DEF Sizes, BlocksHeld
<1>5. /\ Nested(R, Types(e), e.stackFirstDynamicIndex)
      /\ \A i : LiveItem(R, i) => LiveItem(S, i)
  BY <1>3, <1>4, NestedMore
<1>6. R \in Seq(ScopeSet) /\ TopScope(R) = ScopeOf(b) /\ R # <<>>
  BY <1>3, <1>4, AppendScope DEF CanNest
<1> HIDE DEF R, S
<1>7. BlocksHeld(d, R)
  <2>1. \A k \in 1 .. n + 1 : DOMAIN d.block[k] = ScopeFields
    <3> HIDE DEF n
    <3>1. \A k \in 1 .. n + 1 : k \in 1 .. n \/ k = n + 1  BY <1>3
    <3> QED BY <1>3, <1>4, <3>1
  <2> QED BY <1>3, <1>6, <2>1 DEF BlocksHeld
<1>8. RunsLive(d, R)  BY <1>1, <1>2, <1>6 DEF Body, RunsLive, ScopeOf
<1>10. ItemsHeld(d, R)  BY SMTT(40), <1>1, <1>2, <1>5 DEF Body, ItemsHeld, ItemHeld, SameFrame
<1>11. Sizes(d)  BY <1>1, <1>2 DEF Body, Sizes, SameFrame
<1>12. d.stack \in Seq(Items) /\ ArgsAndLocals(d) /\ NoLocalInRegister(d) /\ WritesHeld(d)
  BY SMTT(40), <1>1, <1>2 DEF Body, ArgsAndLocals, NoLocalInRegister, WritesHeld, SameFrame
<1>13. Nested(R, Types(d), d.stackFirstDynamicIndex)  BY <1>2, <1>5 DEF SameFrame, Types
<1>14. Good(d, R)  BY <1>2, <1>7, <1>8, <1>10, <1>11, <1>12, <1>13 DEF Good, Body
<1> QED BY <1>2, <1>3, <1>6, <1>14 DEF d, R, S

LEMMA SeqFront ==
  ASSUME NEW xs \in Seq(ValueTypes), NEW ps \in Seq(ValueTypes)
  PROVE  SubSeq(xs \o ps, 1, Len(xs \o ps) - Min({Len(ps), Len(xs \o ps)})) \o <<>> = xs
<1> DEFINE n == Len(ps)
           N == Len(xs \o ps)
<1>1. N = Len(xs) + n /\ n \in Nat /\ Len(xs) \in Nat /\ xs \o ps \in Seq(ValueTypes)  BY Joined
<1>2. Min({n, N}) = n
  <2> HIDE DEF n, N
  <2> QED BY MinOfTwo, <1>1
<1>3. N - n = Len(xs)  BY <1>1
<1>4. SubSeq(xs \o ps, 1, Len(xs)) = xs
  <2> DEFINE q == SubSeq(xs \o ps, 1, Len(xs))
  <2> HIDE DEF q
  <2> QED BY SeqEqual, <1>1, Joined DEF q
<1>5. xs \o <<>> = xs  BY NoneMore
<1> QED BY <1>2, <1>3, <1>4, <1>5

LEMMA UncoveredByPop ==
  ASSUME NEW c, NEW S, S = Scopes(c), Good(c, S), NEW e, Calm(c, e, S), NEW type,
         type.params \in Seq(ValueTypes), ~c.error
  PROVE  Uncovered(c, PopParams(e, type), S, Len(type.params))
<1> DEFINE d == PopParams(e, type)
           n == Len(type.params)
<1>2. Good(e, S) /\ Follows(c, e) /\ ~e.error /\ e.stack = c.stack /\ Scopes(e) = S
  BY SameScopes DEF Calm
<1>3. Drops(e, d, n, S)  BY <1>2, PoppedParams
<1> HIDE DEF d, n
<1>4. Good(d, S) /\ Follows(e, d)  BY <1>3 DEF Drops
<1>5. Follows(c, d)  BY <1>2, <1>4, FollowsTrans
<1>6. ~d.error => /\ Len(d.stack) \in TopScope(S).blockStackIndex .. Len(c.stack)
                  /\ ~TopScope(S).isPolymorphic => Len(d.stack) = Len(c.stack) - n
  BY <1>2, <1>3 DEF Drops
<1> QED BY <1>4, <1>5, <1>6 DEF Uncovered, d, n

LEMMA UncoveredByCut ==
  ASSUME NEW c, NEW S, S = Scopes(c), Good(c, S), NEW e, Calm(c, e, S), NEW n \in Nat,
         ~c.error, NEW m \in Nat,
         TopScope(S).blockStackIndex <= m, m <= Len(c.stack),
         ~TopScope(S).isPolymorphic => m = Len(c.stack) - n
  PROVE  Uncovered(c, [e EXCEPT !.stack = SubSeq(e.stack, 1, m)], S, n)
<1> DEFINE d == [e EXCEPT !.stack = SubSeq(e.stack, 1, m)]
<1>1. Good(e, S) /\ Follows(c, e) /\ ~e.error /\ e.stack = c.stack /\ IsState(e)
  BY DEF Calm, Good
<1>2. e.stack \in Seq(Items) /\ TopScope(S).blockStackIndex \in Nat /\ Len(c.stack) \in Nat
  BY <1>1, Bodies, TopBelow
<1>3. /\ IsState(d) /\ ~d.error /\ Same(e, d)
      /\ d.maxStackSlots = e.maxStackSlots
      /\ d.slotMaxAllocatedIndexPlusOne = e.slotMaxAllocatedIndexPlusOne
      /\ d.slotMaxConstIndex = e.slotMaxConstIndex
      /\ d.regStackIndexPlusOne = e.regStackIndexPlusOne /\ d.written = e.written
      /\ d.stack = SubSeq(e.stack, 1, m)
  BY <1>1 DEF IsState, Fields, Same
<1> HIDE DEF d
<1>4. d.stack \in Seq(Items) /\ Len(d.stack) = m /\ \A i \in 1 .. m : d.stack[i] = e.stack[i]
  BY <1>1, <1>2, <1>3
<1>5. Good(d, S) /\ Follows(e, d)  BY SMTT(40), <1>2, <1>4, <1>1, <1>3, Restacked
<1> QED BY <1>4, <1>5, <1>1, FollowsTrans, <1>2 DEF Uncovered, d

LEMMA ResultsPushed ==
  ASSUME NEW c, NEW S, S = Scopes(c), Good(c, S), ~c.error, NEW n, NEW popped,
         Uncovered(c, popped, S, n), NEW type, type.rets \in Seq(ValueTypes)
  PROVE  LET results == PushBlockResults([popped EXCEPT !.stack = c.stack], type)
         IN /\ Grown(c, results, type.rets, Len(type.rets), S)
            /\ ~results.error => ~popped.error
<1> DEFINE held == [popped EXCEPT !.stack = c.stack]
           results == PushBlockResults(held, type)
<1>1. Keeps(c, held, S) /\ held.error = popped.error /\ (~popped.error => Calm(c, held, S))
  BY Restored DEF Uncovered
<1> HIDE DEF held
<1>2. Good(held, S) /\ Follows(c, held) /\ (~held.error => held.stack = c.stack)
  BY <1>1 DEF Keeps, Calm
<1>3. Grown(held, results, type.rets, Len(type.rets), S)  BY <1>2, PushedResults
<1> HIDE DEF results
<1>4. Good(results, S) /\ Follows(held, results) /\ Follows(c, results)
      /\ (~results.error => ~held.error)
  BY <1>2, <1>3, FollowsTrans DEF Grown, Follows
<1>5. Grown(c, results, type.rets, Len(type.rets), S)  BY <1>2, <1>3, <1>4 DEF Grown
<1> QED BY <1>1, <1>4, <1>5 DEF results, held

LEMMA Freed ==
  ASSUME NEW r, Good(r, Scopes(r)), ~r.error, NEW m \in Nat
  PROVE  Ready(r, [Pops(r, m) EXCEPT !.stack = r.stack], Block(r).types)
<1> DEFINE S == Scopes(r)
           d == Pops(r, m)
           e == [d EXCEPT !.stack = r.stack]
<1>2. Keeps(r, e, S) /\ e.error = d.error /\ (~d.error => Calm(r, e, S))
  BY Restored, PoppedAll DEF Drops
<1> HIDE DEF d, e
<1>3. IsState(e)  BY <1>2 DEF Keeps, Good
<1> SUFFICES ASSUME ~e.error
             PROVE  /\ Good(e, Scopes(e)) /\ Alike(S, Scopes(e))
                    /\ e.stack = r.stack /\ e.f = r.f
                    /\ e.stackFirstDynamicIndex = r.stackFirstDynamicIndex
                    /\ Block(e).types = Block(r).types
                    /\ Block(e).isPolymorphic = Block(r).isPolymorphic
                    /\ e.running = r.running /\ e.goal = r.goal
                    /\ \A it \in Items : ItemHeld(r, it) => ItemHeld(e, it)
  BY <1>3 DEF Ready, e, d
<1>4. /\ Good(e, S) /\ Follows(r, e) /\ e.stack = r.stack
      /\ Same(r, e) /\ SameLocals(r, e) /\ r.maxStackSlots <= e.maxStackSlots
      /\ Scopes(e) = S
  BY <1>2, SameScopes DEF Calm, Follows
<1>9. e.f = r.f /\ e.stackFirstDynamicIndex = r.stackFirstDynamicIndex
      /\ e.running = r.running /\ e.goal = r.goal
  BY <1>4 DEF Same
<1> QED BY <1>4, <1>9, AlikeSelf, HeldOn, Bodies DEF Same, Block, Sizes

LEMMA AlikeTrans ==
  ASSUME NEW S \in Seq(ScopeSet), NEW R, NEW Q, Alike(S, R), Alike(R, Q)
  PROVE  Alike(S, Q)
<1>1. R \in Seq(ScopeSet) /\ Len(R) = Len(S) /\ Q \in Seq(ScopeSet) /\ Len(Q) = Len(S)
  BY DEF Alike
<1> QED BY <1>1 DEF Alike

LEMMA Readied ==
  ASSUME NEW r, NEW f, NEW us, Good(r, Scopes(r)), ~r.error, Ready(r, f, us), us = Block(r).types,
         NEW n \in Nat
  PROVE  Ready(r, Eval(f, n, <<>>, <<>>), SubSeq(us, 1, Len(us) - Min({n, Len(us)})) \o <<>>)
<1> DEFINE e == Eval(f, n, <<>>, <<>>)
           ts == SubSeq(us, 1, Len(us) - Min({n, Len(us)})) \o <<>>
<1>1. <<>> \in Seq(ValueTypes)  OBVIOUS
<1>2. Good(f, Scopes(f))  BY DEF Ready, Good
<1>3. Retyped(f, e, SubSeq(Block(f).types, 1, Len(Block(f).types)
                                       - Min({n, Len(Block(f).types)})) \o <<>>)
  BY <1>1, <1>2, Evaluated
<1> HIDE DEF e
<1>4. IsState(e) /\ e.error = f.error  BY <1>3 DEF Retyped
<1> SUFFICES ASSUME ~e.error PROVE Ready(r, e, ts)
  BY <1>4 DEF Ready, e
<1>5. Block(f).types = us /\ Alike(Scopes(r), Scopes(f)) /\ f.stack = r.stack /\ f.f = r.f
      /\ f.stackFirstDynamicIndex = r.stackFirstDynamicIndex
      /\ Block(f).isPolymorphic = Block(r).isPolymorphic
      /\ f.running = r.running /\ f.goal = r.goal
      /\ \A it \in Items : ItemHeld(r, it) => ItemHeld(f, it)
  BY <1>4 DEF Ready
<1>6. Retyped(f, e, ts)  BY <1>3, <1>5
<1> HIDE DEF ts
<1>7. /\ Good(e, Scopes(e)) /\ Alike(Scopes(f), Scopes(e)) /\ SameFrame(f, e)
      /\ Block(e).isPolymorphic = Block(f).isPolymorphic
      /\ Block(e).types = ts
      /\ e.running = f.running /\ e.goal = f.goal
  BY SMTT(40), <1>4, <1>6 DEF Retyped
<1> QED BY <1>4, <1>7, <1>5, AlikeTrans, Bodies DEF Ready, SameFrame, ItemHeld

LEMMA RecordsNext ==
  ASSUME NEW p, NEW s, NEW T, NEW U, NEW xs, NestsIn(p, s, T, U, xs), ~p.isPolymorphic
  PROVE  Records(U, p, s)
<1> DEFINE ps == s.type.params
           rs == s.type.rets
           B == p.blockStackIndex
           H == Len(T)
           E == s.exitStackIndex
<1>1. ps \in Seq(ValueTypes) /\ rs \in Seq(ValueTypes) /\ B \in Nat /\ xs \in Seq(ValueTypes)
      /\ E \in Nat
  BY DEF NestsIn, ScopeSet, FuncTypes, ValueTypes
<1>2. /\ H \in Nat /\ Len(U) = H + Len(rs)
      /\ \A i \in 1 .. H : U[i] = T[i]
      /\ \A j \in 1 .. Len(rs) : U[H + j] = rs[j]
      /\ s.blockStackIndex = Len(U) /\ s.stackIndex = H
      /\ p.types = xs /\ E = H - Len(ps)
      /\ H = B + Len(xs \o ps) /\ HasTypes(T, B, xs \o ps)
  BY DEF NestsIn
<1> HIDE DEF ps, rs, B, H, E
<1>3. /\ Len(xs \o ps) = Len(xs) + Len(ps) /\ Len(xs) \in Nat /\ Len(ps) \in Nat
      /\ \A j \in 1 .. Len(xs) : (xs \o ps)[j] = xs[j]
      /\ \A j \in 1 .. Len(ps) : (xs \o ps)[Len(xs) + j] = ps[j]
      /\ Len(rs) \in Nat
  BY <1>1, Joined
<1>4. E = B + Len(xs) /\ H = E + Len(ps) /\ H = B + Len(xs) + Len(ps)  BY <1>1, <1>2, <1>3
<1>5. ASSUME NEW j \in 1 .. Len(xs) PROVE U[B + j] = xs[j]
  <2>1. j \in 1 .. Len(xs \o ps) /\ B + j \in 1 .. H  BY <1>1, <1>3, <1>4
  <2>2. T[B + j] = (xs \o ps)[j]  BY <1>2, <2>1 DEF HasTypes
  <2> QED BY <1>2, <1>3, <2>1, <2>2
<1>6. ASSUME NEW j \in 1 .. Len(ps) PROVE U[E + j] = ps[j]
  <2>1. Len(xs) + j \in 1 .. Len(xs \o ps) /\ E + j \in 1 .. H /\ B + (Len(xs) + j) = E + j
    BY <1>1, <1>3, <1>4
  <2>2. T[B + (Len(xs) + j)] = (xs \o ps)[Len(xs) + j]  BY <1>2, <2>1 DEF HasTypes
  <2> QED BY ZenonT(60), <1>2, <1>3, <2>1, <2>2
<1>8. HasTypes(U, B, xs) /\ HasTypes(U, E, ps) /\ HasTypes(U, H, rs)
  BY <1>2, <1>5, <1>6 DEF HasTypes
<1> QED BY <1>2, <1>8, <1>4 DEF Records, ps, rs, B, E

LEMMA NestsNext ==
  ASSUME NEW R, NEW s, NEW T, NEW U, NEW xs, NestsIn(TopScope(R), s, T, U, xs)
  PROVE  CanNest(R, U, s)
<1> DEFINE p == TopScope(R)
<1> HIDE DEF p
<1>2. NestsIn(p, s, T, U, xs)  BY DEF p
<1>3. s.type.rets \in Seq(ValueTypes) /\ p.blockStackIndex \in Nat /\ s \in ScopeSet
      /\ Len(T) \in Nat
  BY <1>2 DEF NestsIn, ScopeSet, FuncTypes, ValueTypes
<1>5. Len(U) = Len(T) + Len(s.type.rets) /\ s.blockStackIndex = Len(U)
      /\ s.stackIndex = Len(T) /\ s.exitStackIndex \in p.blockStackIndex .. Len(T)
      /\ s.isPolymorphic = p.isPolymorphic /\ ~s.dead
  BY <1>2 DEF NestsIn
<1> QED BY SMTT(40), <1>3, <1>5, RecordsNext DEF CanNest, p, Inside

LEMMA EnteringIs ==
  ASSUME NEW c, NEW type, NEW opcode, NEW xs, NEW popped, NEW r,
         Entering(c, type, opcode, xs, popped, r)
  PROVE  Entered(c, type, popped, r)
<1>1. Good(r, Scopes(c)) /\ Follows(c, r) /\ ~r.error /\ ~c.error /\ Good(c, Scopes(c))
      /\ Len(r.stack) = Len(c.stack) + Len(type.rets)
  BY DEF Entering, Grown
<1>2. Scopes(r) = Scopes(c) /\ Same(c, r)  BY <1>1, SameScopes DEF Follows
<1>3. type.params \in Seq(ValueTypes) /\ type.rets \in Seq(ValueTypes)
  BY DEF Entering, FuncTypes, ValueTypes
<1>5. c.stack \in Seq(Items) /\ r.stack \in Seq(Items)  BY <1>1, Bodies
<1> QED BY <1>1, <1>2, <1>3, <1>5, BlockTop DEF Height, Entered, Same, Block

LEMMA EnteringNests ==
  ASSUME NEW c, NEW type, NEW opcode, NEW xs, NEW popped, NEW r,
         Entering(c, type, opcode, xs, popped, r), NEW e, NEW ts, Ready(r, e, ts), ~e.error,
         ~TopScope(Scopes(c)).isPolymorphic => ts = xs, NEW b,
         b = NewScope(c, type, opcode, Height(popped), r)
  PROVE  /\ CanNest(Scopes(e), Types(e), ScopeOf(b)) /\ DOMAIN b = ScopeFields
         /\ e.running => ~b.isPolymorphic
<1> DEFINE S == Scopes(c)
           R == Scopes(e)
           T == Types(c)
           U == Types(e)
           s == ScopeOf(b)
           p == TopScope(R)
           H == Len(c.stack)
           ps == type.params
           rs == type.rets
<1>1. /\ Good(r, S) /\ Scopes(r) = S /\ Same(c, r)
      /\ ps \in Seq(ValueTypes) /\ rs \in Seq(ValueTypes)
      /\ Len(ps) \in Nat /\ Len(rs) \in Nat
      /\ Block(r) = Block(c) /\ IsStackPolymorphic(c) = TopScope(S).isPolymorphic
      /\ Height(c) = H /\ Height(r) = Len(r.stack)
      /\ Height(popped) = Len(popped.stack)
      /\ H \in Nat /\ Len(r.stack) = H + Len(rs)
      /\ c.stack \in Seq(Items) /\ r.stack \in Seq(Items)
  <2>1. Entered(c, type, popped, r)  BY EnteringIs
  <2> QED BY <2>1 DEF Entered
<1>2. /\ Good(c, S) /\ ~c.error /\ ~r.error /\ type \in FuncTypes
      /\ opcode \in {"block", "loop", "if", "else"}
      /\ Opening(c, type, opcode, xs)
  BY DEF Entering
<1>3. /\ Len(popped.stack) \in TopScope(S).blockStackIndex .. H
      /\ ~TopScope(S).isPolymorphic => Len(popped.stack) = H - Len(ps)
  BY DEF Entering, Uncovered
<1>4. /\ \A i \in 1 .. H : r.stack[i].type = c.stack[i].type
      /\ \A j \in 1 .. Len(rs) : r.stack[H + j].type = rs[j]
  BY DEF Entering, Grown
<1>5. /\ b.opcode = opcode /\ b.type = type /\ b.blockStackIndex = H + Len(rs)
      /\ b.exitStackIndex = Len(popped.stack) /\ b.isPolymorphic = TopScope(S).isPolymorphic
      /\ b.stackIndex = H /\ b.types = ps /\ b.dead = FALSE /\ DOMAIN b = ScopeFields
  BY <1>1 DEF NewScope, ScopeFields
<1>6. /\ Good(e, R) /\ Alike(S, R) /\ e.stack = r.stack /\ Block(e).types = ts
      /\ Block(e).isPolymorphic = Block(r).isPolymorphic /\ e.running = r.running
  BY <1>1 DEF Ready
<1>7. TopScope(S).blockStackIndex \in Nat /\ TopScope(S).isPolymorphic \in BOOLEAN
  BY <1>2, TopBelow
<1>8. s \in ScopeSet
  <2>1. Len(popped.stack) \in Nat  BY <1>1, <1>3, <1>7
  <2>2. H + Len(rs) \in Nat
    <3> HIDE DEF H, rs, S
    <3> QED BY <1>1
  <2> HIDE DEF H, ps, rs
  <2> QED BY ZenonT(60), <1>1, <1>2, <1>5, <1>7, <2>1, <2>2 DEF ScopeOf, ScopeSet, ps
<1>9. p \in ScopeSet /\ p.types = ts /\ p.isPolymorphic = TopScope(S).isPolymorphic
      /\ p.blockStackIndex = TopScope(S).blockStackIndex
  <2>3. p.blockStackIndex = TopScope(S).blockStackIndex
    <3>1. Nested(S, T, c.stackFirstDynamicIndex) /\ S \in Seq(ScopeSet)  BY <1>2, Bodies
    <3> QED BY <1>6, <3>1, NestedAlike
  <2> QED BY SMTT(40), <1>1, <1>6, <2>3, BlockTop, Bodies, TopTyped DEF IsStackPolymorphic
<1>10. /\ Len(T) = H /\ Len(U) = H + Len(rs)
       /\ \A i \in 1 .. H : T[i] = c.stack[i].type
       /\ \A i \in 1 .. H + Len(rs) : U[i] = r.stack[i].type
  <2>1. U = Types(r)  BY <1>6 DEF Types
  <2>2. /\ Len(Types(c)) = Len(c.stack)
        /\ \A i \in 1 .. Len(c.stack) : Types(c)[i] = c.stack[i].type
    BY <1>1, TypesSeq
  <2>3. /\ Len(Types(r)) = Len(r.stack)
        /\ \A i \in 1 .. Len(r.stack) : Types(r)[i] = r.stack[i].type
    BY <1>1, TypesSeq
  <2> QED BY <1>1, <2>1, <2>2, <2>3
<1>11. xs \in Seq(ValueTypes) /\ TopIs(S, T, xs \o ps)  BY <1>2 DEF Opening
<1> HIDE DEF S, R, T, U, H, p, ps, rs
<1>12. /\ s.type = type /\ s.blockStackIndex = H + Len(rs) /\ s.stackIndex = H
       /\ s.exitStackIndex = Len(popped.stack) /\ s.isPolymorphic = TopScope(S).isPolymorphic
       /\ s.dead = FALSE
  BY <1>5 DEF ScopeOf
<1> HIDE DEF s
<1>13. /\ \A i \in 1 .. H : U[i] = T[i]
       /\ \A j \in 1 .. Len(rs) : U[H + j] = rs[j]
  <2>1. ASSUME NEW i \in 1 .. H PROVE U[i] = T[i]
    <3>1. i \in 1 .. H + Len(rs)  BY <1>1
    <3> QED BY <1>4, <1>10, <3>1
  <2>2. ASSUME NEW j \in 1 .. Len(rs) PROVE U[H + j] = rs[j]
    <3>1. H + j \in 1 .. H + Len(rs)  BY <1>1
    <3> QED BY <1>4, <1>10, <3>1
  <2> QED BY <2>1, <2>2
<1>14. ~p.isPolymorphic => /\ p.types = xs
                           /\ Len(T) = p.blockStackIndex + Len(xs \o ps)
                           /\ HasTypes(T, p.blockStackIndex, xs \o ps)
  BY <1>9, <1>11 DEF TopIs, S
<1>15. NestsIn(p, s, T, U, xs)
  BY <1>1, <1>3, <1>8, <1>9, <1>10, <1>11, <1>12, <1>13, <1>14 DEF NestsIn, ps, rs
<1>17. e.running => ~b.isPolymorphic  BY <1>6, Bodies, <1>5, <1>9 DEF RunsLive, R, p
<1> QED BY <1>5, <1>17, <1>15, NestsNext DEF R, U, s, p

LEMMA SlotsNat ==
  ASSUME NEW r, r.stack \in Seq(Items), NEW i
  PROVE  GetSlotForStackIndex(r, i) \in Nat
BY ItemTyped, Constants DEF GetSlotForStackIndex

LEMMA EnteringHolds ==
  ASSUME NEW c, NEW type, NEW opcode, NEW xs, NEW popped, NEW r,
         Entering(c, type, opcode, xs, popped, r), NEW e, NEW ts, Ready(r, e, ts), ~e.error,
         NEW b, b = NewScope(c, type, opcode, Height(popped), r),
         CanNest(Scopes(e), Types(e), ScopeOf(b)),
         NEW d, SameFrame(e, d), NEW R, TopScope(R) = ScopeOf(b)
  PROVE  ParamsHeld(d, R, type, Height(popped), r)
<1> DEFINE S == Scopes(c)
           ps == type.params
           exit == Height(popped)
           n == Len(ps)
<1>1. Entered(c, type, popped, r)  BY EnteringIs
<1>2. /\ Good(r, S) /\ ps \in Seq(ValueTypes) /\ n \in Nat
      /\ IsStackPolymorphic(c) = TopScope(S).isPolymorphic
      /\ Height(c) = Len(c.stack) /\ exit = Len(popped.stack) /\ Len(c.stack) \in Nat
      /\ Len(r.stack) = Len(c.stack) + Len(type.rets) /\ Len(type.rets) \in Nat
      /\ r.stack \in Seq(Items)
  BY <1>1 DEF Entered
<1>3. ~r.error /\ (~TopScope(S).isPolymorphic => exit = Len(c.stack) - n)
      /\ exit \in TopScope(S).blockStackIndex .. Len(c.stack)
  BY <1>2 DEF Entering, Uncovered
<1>5. ASSUME NEW k \in 1 .. n, ~TopScope(R).isPolymorphic
      PROVE  ItemHeld(d, [slot |-> GetSlotForStackIndex(r, exit + k), type |-> ps[k]])
  <2> DEFINE it == r.stack[exit + k]
  <2>1. ~TopScope(S).isPolymorphic /\ b.type = type /\ b.exitStackIndex = exit
        /\ b.isPolymorphic = TopScope(S).isPolymorphic
    BY <1>2, <1>5 DEF ScopeOf, NewScope
  <2>3. Records(Types(e), TopScope(Scopes(e)), ScopeOf(b))
    BY SMTT(40), <2>1, BlockTop, <1>1, <1>2 DEF CanNest, Ready, IsStackPolymorphic, Entered
  <2>4. HasTypes(Types(e), exit, ps)  BY <2>1, <2>3 DEF Records, ScopeOf
  <2>5. exit + k \in DOMAIN r.stack
    <3>1. DOMAIN r.stack = 1 .. Len(r.stack)
      <4>1. r.stack \in Seq(Items)  BY <1>2
      <4> QED BY <4>1, TypesSeq
    <3>3. exit + k \in 1 .. Len(r.stack)
      <4> DEFINE C == Len(c.stack)
                 m == Len(type.rets)
      <4>1. C \in Nat /\ m \in Nat /\ n \in Nat /\ Len(r.stack) = C + m
            /\ exit = C - n /\ exit \in TopScope(S).blockStackIndex .. C
        BY <1>2, <1>3, <2>1
      <4> HIDE DEF S, exit, n, C, m
      <4> QED BY <4>1, <1>2, <1>3, TopBelow
    <3> QED BY <3>1, <3>3
  <2>6. it.type = ps[k]  BY <2>5, <2>4 DEF Ready, Types, HasTypes
  <2>8. ItemHeld(e, it)  BY SMTT(40), <1>2, <1>3, <2>1, <2>5, AllLive, ItemTyped DEF Ready
  <2>11. it = [slot |-> it.slot, type |-> it.type]  BY <1>2, <2>5, ItemTyped
  <2> QED BY <2>6, <2>11, <2>5, <2>8 DEF GetSlotForStackIndex, ItemHeld, SameFrame
<1> QED BY <1>5, <1>2, SlotsNat DEF ParamsHeld

LEMMA GrownTop ==
  ASSUME NEW c, NEW d, NEW S, NEW ps, Grown(c, d, ps, Len(ps), S), ~d.error, Good(c, S),
         ps \in Seq(ValueTypes), ~TopScope(S).isPolymorphic =>
            Len(c.stack) = TopScope(S).blockStackIndex
  PROVE  TopIs(S, Types(d), ps)
<1>1. Good(d, S) /\ Follows(c, d) /\ Len(d.stack) = Len(c.stack) + Len(ps)
      /\ \A j \in 1 .. Len(ps) : d.stack[Len(c.stack) + j].type = ps[j]
  BY DEF Grown
<1>4. Len(Types(d)) = Len(d.stack) /\ Len(c.stack) \in Nat /\ Len(ps) \in Nat
      /\ \A i \in 1 .. Len(d.stack) : Types(d)[i] = d.stack[i].type
  BY TypesSeq, <1>1, Bodies DEF Follows
<1>5. ASSUME NEW j \in 1 .. Len(ps) PROVE Types(d)[Len(c.stack) + j] = ps[j]
  <2>1. Len(c.stack) + j \in 1 .. Len(d.stack)
    <3> DEFINE C == Len(c.stack)
               n == Len(ps)
    <3> HIDE DEF C, n
    <3> QED BY <1>1, <1>4 DEF n, C
  <2> QED BY <1>1, <1>4, <2>1
<1> QED BY <1>1, <1>4, <1>5 DEF TopIs, HasTypes

LEMMA BlockEntered ==
  ASSUME NEW c, NEW type, NEW opcode, NEW xs, NEW popped, NEW r,
         Entering(c, type, opcode, xs, popped, r), NEW e, NEW ts, Ready(r, e, ts),
         ~TopScope(Scopes(c)).isPolymorphic => ts = xs,
         NEW b, b = NewScope(c, type, opcode, Height(popped), r),
         NEW opened, opened = [e EXCEPT !.block = Append(e.block, b)]
  PROVE  Opened(c, PushParams(opened, type, Height(popped), r), type, opcode)
<1> DEFINE d == PushParams(opened, type, Height(popped), r)
           S == Scopes(c)
           ps == type.params
           exit == Height(popped)
<1>1. Entered(c, type, popped, r)  BY EnteringIs
<1>2. /\ Good(r, S) /\ Scopes(r) = S /\ Same(c, r) /\ ps \in Seq(ValueTypes)
      /\ Block(r) = Block(c) /\ r.stack \in Seq(Items)
      /\ Height(r) = Len(r.stack) /\ ~c.error /\ Good(c, S) /\ ~r.error
  BY <1>1 DEF Entered, Entering
<1>3. CASE e.error
  <2>1. IsState(opened) /\ opened.error  BY <1>3 DEF Ready, IsState, Fields
  <2>2. Good(opened, S)  BY <2>1 DEF Good
  <2>3. ParamsHeld(opened, S, type, exit, r)  BY <1>2, <2>1, SlotsNat DEF ParamsHeld
  <2>4. Grown(opened, d, ps, Len(ps), S)  BY <1>2, <2>2, <2>3, PushedParams
  <2> HIDE DEF d
  <2> QED BY <2>1, <2>4 DEF Opened, d, Grown, Good, Follows, IsState
<1>4. CASE ~e.error
  <2> DEFINE R == Scopes(opened)
  <2>1. /\ CanNest(Scopes(e), Types(e), ScopeOf(b)) /\ DOMAIN b = ScopeFields
        /\ e.running => ~b.isPolymorphic
    BY <1>4, EnteringNests
  <2>2. /\ Good(e, Scopes(e)) /\ Alike(S, Scopes(e)) /\ e.stack = r.stack /\ e.f = r.f
        /\ Block(e).isPolymorphic = Block(r).isPolymorphic
        /\ e.running = r.running /\ e.goal = r.goal
    BY <1>2, <1>4 DEF Ready
  <2>3. /\ Good(opened, R) /\ R = Append(Scopes(e), ScopeOf(b))
        /\ TopScope(R) = ScopeOf(b)
        /\ Block(opened) = b /\ SameFrame(e, opened) /\ opened.running = e.running
        /\ opened.goal = e.goal /\ ~opened.error
    BY SMTT(40), <1>4, <2>1, <2>2, ScopeOpened
  <2>5. Grown(opened, d, ps, Len(ps), R)  BY <1>2, <2>3, PushedParams, <1>4, <2>1, EnteringHolds
  <2> HIDE DEF d
  <2>6. Good(d, R) /\ Follows(opened, d)  BY <2>5 DEF Grown
  <2>7. IsState(d)  BY <2>6 DEF Good
  <2> SUFFICES ASSUME ~d.error PROVE Opened(c, d, type, opcode)
    BY <2>7 DEF Opened, d
  <2>8. Scopes(d) = R /\ Same(opened, d)  BY <2>6, SameScopes DEF Follows
  <2>9. Block(d) = b  BY <2>3, <2>8 DEF Same, Block
  <2>10. b.type = type /\ b.opcode = opcode /\ b.types = ps /\ b.blockStackIndex = Len(r.stack)
         /\ b.isPolymorphic = IsStackPolymorphic(c)
    BY <1>2 DEF NewScope
  <2>11. TopIs(R, Types(d), ps)
    <3>1. TopScope(R).blockStackIndex = Len(opened.stack)
      BY SMTT(40), <2>2, <2>3, <2>10 DEF SameFrame, ScopeOf
    <3> QED BY <1>2, <2>3, <2>5, <3>1, GrownTop
  <2>12. d.running = c.running /\ d.goal = c.goal /\ d.f = c.f
    BY <1>2, <2>2, <2>3, <2>8 DEF Same, SameFrame
  <2>13. S \in Seq(ScopeSet) /\ S # <<>> /\ Scopes(e) \in Seq(ScopeSet)
         /\ Len(Scopes(e)) = Len(S) /\ ScopeOf(b) \in ScopeSet /\ Scopes(e) # <<>>
    BY <1>2, Bodies, <1>4, <2>2, <2>1 DEF Alike, CanNest
  <2>14. Len(R) = Len(S) + 1 /\ \A k \in 1 .. Len(S) : R[k] = Scopes(e)[k]
    <3> DEFINE Q == Scopes(e)
               s == ScopeOf(b)
    <3> HIDE DEF Q, s, R, S
    <3> QED BY AppendScope, <2>3, <2>13 DEF Q
  <2>15. IsStackPolymorphic(c) = TopScope(S).isPolymorphic  BY <1>1 DEF Entered
  <2>16. TopScope(Scopes(e)).isPolymorphic = TopScope(S).isPolymorphic
    BY <1>4, <2>2, BlockTop, <1>2, <2>15 DEF IsStackPolymorphic
  <2>17. ASSUME NEW k \in 1 .. Len(S)
         PROVE  R[k].isPolymorphic = S[k].isPolymorphic /\ R[k].opcode = S[k].opcode
    <3>1. R[k] = Scopes(e)[k] /\ Scopes(e)[k].opcode = S[k].opcode  BY <2>2, <2>14 DEF Alike
    <3>2. CASE k = Len(S)  BY <2>13, <2>16, <3>1, <3>2 DEF TopScope
    <3>3. CASE k # Len(S)  BY <2>13, <3>3, <2>2, <3>1 DEF Alike
    <3> QED BY <3>2, <3>3
  <2>18. Block(d).isPolymorphic = TopScope(S).isPolymorphic  BY <2>9, <2>10, <2>15
  <2> HIDE DEF R, S
  <2>19. /\ Good(d, Scopes(d)) /\ TopIs(Scopes(d), Types(d), Block(d).types)
         /\ Block(d).types = type.params /\ Block(d).type = type /\ Block(d).opcode = opcode
    BY <2>6, <2>8, <2>9, <2>10, <2>11
  <2>20. /\ Len(Scopes(d)) = Len(S) + 1
         /\ \A k \in 1 .. Len(S) : /\ Scopes(d)[k].isPolymorphic = S[k].isPolymorphic
                                   /\ Scopes(d)[k].opcode = S[k].opcode
    BY <2>8, <2>14, <2>17
  <2> QED BY <1>2, <2>7, <2>12, <2>18, <2>19, <2>20 DEF Opened, S
<1> QED BY <1>3, <1>4

LEMMA EntryRemembered ==
  ASSUME NEW c, NEW d, NEW type, NEW opcode, Opened(c, d, type, opcode)
  PROVE  Opened(c, RememberEntry(d, opcode), type, opcode)
<1> DEFINE n == Len(d.block)
           b == [d.block[n] EXCEPT !.entry = d.stack]
           e == [d EXCEPT !.block[n].entry = d.stack]
           R == Scopes(d)
<1>1. CASE d.error \/ opcode # "loop"  BY <1>1 DEF RememberEntry
<1>2. CASE ~d.error /\ opcode = "loop"
  <2>1. RememberEntry(d, opcode) = e  BY <1>2 DEF RememberEntry
  <2>2. Good(d, R) /\ IsState(d)  BY <1>2 DEF Opened
  <2>3. /\ n \in Nat /\ n >= 1 /\ DOMAIN d.block = 1 .. n /\ Block(d) = d.block[n]
        /\ DOMAIN d.block[n] = ScopeFields
    BY <1>2, <2>2, BlockTop
  <2>4. PICK B : d.block \in Seq(B)  BY <1>2, <2>2, Bodies DEF BlocksHeld
  <2>6. /\ IsState(e) /\ ~e.error /\ SameFrame(d, e) /\ e.running = d.running
        /\ e.goal = d.goal /\ e.block = [d.block EXCEPT ![n] = b]
    BY <1>2, <2>2 DEF IsState, Fields, SameFrame
  <2> HIDE DEF e
  <2>7. DOMAIN b = ScopeFields /\ ScopeOf(b) = ScopeOf(d.block[n])
    BY <2>3 DEF ScopeFields, ScopeOf
  <2> HIDE DEF b
  <2>8. /\ e.block \in Seq(B \union {b}) /\ Len(e.block) = n
        /\ e.block[n] = b /\ \A k \in 1 .. n : k # n => e.block[k] = d.block[k]
    BY <2>4, <2>3, <2>6
  <2>10. RunsLive(e, R)  BY <1>2, <2>2, <2>6, Bodies DEF RunsLive
  <2>11. Good(e, R) /\ Scopes(e) = R
    <3>2. Len(e.block) = Len(d.block)
          /\ \A k \in 1 .. Len(d.block) : DOMAIN e.block[k] = ScopeFields
                                           /\ ScopeOf(e.block[k]) = ScopeOf(d.block[k])
      BY SMTT(40), <2>8, <2>7, <1>2, <2>2, <2>3, Bodies DEF BlocksHeld
    <3> HIDE DEF n
    <3> QED BY <1>2, <2>2, <2>6, <2>10, <3>2, Reblocked, <2>8 DEF IsState
  <2>14. Opened(c, e, type, opcode)
    <3> HIDE DEF n
    <3> QED BY <1>2, <2>6, <2>11, <2>2, BlockTop DEF Opened, ScopeOf, SameFrame, Types
  <2> QED BY <2>1, <2>14
<1> QED BY <1>1, <1>2

LEMMA CutFor ==
  ASSUME NEW c, NEW S, S = Scopes(c), Good(c, S), ~c.error, NEW type, NEW xs,
         Opening(c, type, "else", xs), type.params \in Seq(ValueTypes), NEW m,
         m = (IF IsStackPolymorphic(c)
                 /\ Block(c).blockStackIndex + Len(type.params) > Height(c)
              THEN Block(c).blockStackIndex ELSE Len(c.stack) - Len(type.params))
  PROVE  /\ m \in Nat /\ TopScope(S).blockStackIndex <= m /\ m <= Len(c.stack)
         /\ ~TopScope(S).isPolymorphic => m = Len(c.stack) - Len(type.params)
<1> DEFINE n == Len(type.params)
           B == TopScope(S).blockStackIndex
           C == Len(c.stack)
           P == TopScope(S).isPolymorphic
           X == Len(xs)
<1>1. /\ B \in Nat /\ B <= C /\ P \in BOOLEAN /\ C \in Nat /\ n \in Nat
      /\ IsStackPolymorphic(c) = P /\ Block(c).blockStackIndex = B /\ Height(c) = C
  BY Bodies, TypesSeq, TopBelow, BlockTop
<1>2. ~P => C = B + (X + n) /\ X \in Nat
  <2> SUFFICES ASSUME ~P PROVE C = B + (X + n) /\ X \in Nat
    OBVIOUS
  <2> QED BY Bodies, TypesSeq, Joined DEF Opening, TopIs
<1>3. m = IF P /\ B + n > C THEN B ELSE C - n  BY <1>1
<1> HIDE DEF n, B, C, P, X
<1>4. m \in Nat /\ B <= m /\ m <= C /\ (~P => m = C - n)
  <2>1. CASE P /\ B + n > C  BY <1>3, <2>1, <1>1
  <2>2. CASE ~(P /\ B + n > C)
    <3>2. B + n <= C  BY <1>1, <1>2, <2>2
    <3> QED BY SMTT(40), <1>1, <3>2, <1>3, <2>2
  <2> QED BY <2>1, <2>2
<1> QED BY <1>4 DEF n, B, C, P

LEMMA Began ==
  ASSUME NEW c, NEW type \in FuncTypes, NEW opcode \in {"block", "loop", "if", "else"}, NEW xs,
         IsState(c), ~c.error => Good(c, Scopes(c)) /\ Opening(c, type, opcode, xs)
  PROVE  Opened(c, BeginBlock(c, type, opcode), type, opcode)
<1> DEFINE S == Scopes(c)
           n == Len(type.params)
           asserts == \A r \in DOMAIN c.regStackIndexPlusOne : ~IsRegisterAllocated(c, r)
           entered == Assert_(c, asserts)
           short == IsStackPolymorphic(c) /\ Block(c).blockStackIndex + n > Height(c)
           popped == IF opcode # "else" THEN PopParams(entered, type)
                     ELSE [entered EXCEPT !.stack = SubSeq(@, 1,
                              IF short THEN Block(c).blockStackIndex ELSE Len(@) - n)]
           r == PushBlockResults([popped EXCEPT !.stack = c.stack], type)
           e == OpenBlock(c, type, opcode, Height(popped), r)
<1>1. BeginBlock(c, type, opcode) = RememberEntry(e, opcode)  BY DEF BeginBlock
<1>2. SUFFICES Opened(c, e, type, opcode)
  <2> HIDE DEF e
  <2> QED BY <1>1, EntryRemembered
<1>3. ASSUME e = Fail(c) PROVE Opened(c, e, type, opcode)
  BY ZenonT(60), <1>3, Fails DEF Opened
<1>4. CASE c.error  BY <1>4, <1>3 DEF OpenBlock
<1>5. CASE ~c.error
  <2> HIDE DEF e
  <2>1. Good(c, S) /\ Opening(c, type, opcode, xs)
        /\ type.params \in Seq(ValueTypes) /\ type.rets \in Seq(ValueTypes)
    BY <1>5 DEF FuncTypes, ValueTypes
  <2>2. Calm(c, entered, S)
    <3> HIDE DEF asserts
    <3> QED BY <2>1, Asserted
  <2> HIDE DEF entered
  <2>3. Uncovered(c, popped, S, n)
    <3>1. CASE opcode # "else"
      <4>1. popped = PopParams(entered, type)  BY <3>1
      <4> HIDE DEF popped
      <4> QED BY <1>5, <2>1, <2>2, <4>1, UncoveredByPop
    <3>2. CASE opcode = "else"
      <4> DEFINE m == IF short THEN Block(c).blockStackIndex ELSE Len(c.stack) - n
      <4>1. entered.stack = c.stack  BY <1>5, <2>2 DEF Calm
      <4>2. popped = [entered EXCEPT !.stack = SubSeq(entered.stack, 1, m)]  BY <3>2, <4>1
      <4>3. /\ m \in Nat /\ TopScope(S).blockStackIndex <= m /\ m <= Len(c.stack)
            /\ ~TopScope(S).isPolymorphic => m = Len(c.stack) - n
        BY <1>5, <2>1, <3>2, CutFor
      <4>4. n \in Nat  BY <2>1
      <4> HIDE DEF m, popped, n
      <4> QED BY <1>5, <2>1, <2>2, <4>2, <4>3, <4>4, UncoveredByCut
    <3> QED BY <3>1, <3>2
  <2> HIDE DEF popped
  <2>4. Grown(c, r, type.rets, Len(type.rets), S) /\ (~r.error => ~popped.error)
    BY <1>5, <2>1, <2>3, ResultsPushed
  <2> HIDE DEF r
  <2>5. CASE r.error  BY <2>5, <1>3 DEF OpenBlock, e
  <2>6. CASE ~r.error
    <3> DEFINE m == Len(type.rets)
               f == [Pops(r, m) EXCEPT !.stack = r.stack]
               us == Block(r).types
               g == IF opcode = "else" THEN f ELSE Eval(f, n, <<>>, <<>>)
               ts == IF opcode = "else" THEN us
                     ELSE SubSeq(us, 1, Len(us) - Min({n, Len(us)})) \o <<>>
               b == NewScope(c, type, opcode, Height(popped), r)
               opened == [g EXCEPT !.block = Append(g.block, b)]
    <3>1. Entering(c, type, opcode, xs, popped, r)
      BY SMTT(40), <1>5, <2>1, <2>3, <2>4, <2>6 DEF Entering
    <3>2. e = PushParams(opened, type, Height(popped), r)
      BY <1>5, <2>6 DEF OpenBlock, NewScope, e
    <3>3. /\ Good(r, Scopes(r)) /\ Block(r) = Block(c) /\ n \in Nat /\ m \in Nat
      <4>1. Entered(c, type, popped, r)  BY <3>1, EnteringIs
      <4> QED BY <4>1 DEF Entered
    <3>4. Ready(r, f, us)  BY <2>6, <3>3, Freed
    <3> HIDE DEF f
    <3>5. Ready(r, g, ts)  BY <3>4, <2>6, <3>3, Readied
    <3>6. ~TopScope(S).isPolymorphic => ts = xs
      <4>1. ~TopScope(S).isPolymorphic =>
               us = IF opcode = "else" THEN xs ELSE xs \o type.params
        BY <2>1, <3>3 DEF Opening
      <4>2. xs \in Seq(ValueTypes)  BY <2>1 DEF Opening
      <4>3. CASE opcode = "else"  BY <4>1, <4>3
      <4>4. CASE opcode # "else"
        <5>1. SubSeq(xs \o type.params, 1, Len(xs \o type.params)
                        - Min({n, Len(xs \o type.params)})) \o <<>> = xs
          BY <2>1, <4>2, SeqFront
        <5> QED BY <4>1, <4>4, <5>1
      <4> QED BY <4>3, <4>4
    <3> HIDE DEF g, ts, b
    <3> QED BY SMTT(40), <3>1, <3>2, <3>5, <3>6, BlockEntered DEF b
  <2> QED BY <2>5, <2>6
<1> QED BY <1>4, <1>5

LEMMA Instantiated ==
  ASSUME NEW c, NEW S, Good(c, S), NEW i,
         ~c.error => i \in DOMAIN c.stack /\ i > c.stackFirstDynamicIndex
  PROVE  Keeps(c, InstantiateConstant(c, i), S)
<1> DEFINE t == c.stack[i].type
           slot == FindSlots(c, t)
           a == AllocateSlots(c, t)
           b == CopyStackIndexToSlot(a, slot, i)
           d == [b EXCEPT !.stack[i].slot = slot]
<1>1. CASE InstantiateConstant(c, i) = c  BY <1>1, KeepsSelf
<1>2. CASE InstantiateConstant(c, i) # c
  <2>1. ~c.error /\ InstantiateConstant(c, i) = d  BY SMTT(40), <1>2 DEF InstantiateConstant
  <2>2. /\ i \in DOMAIN c.stack /\ i > c.stackFirstDynamicIndex
        /\ c.stack \in Seq(Items) /\ c.slotFirstDynamicIndex \in Nat
    BY <2>1, Bodies DEF Sizes
  <2>3. slot \in Nat
    <3> HIDE DEF t
    <3> QED BY <2>2, FoundFree, Constants
  <2>4. /\ Keeps(c, a, S)
        /\ ~a.error => /\ Calm(c, a, S)
                       /\ slot + GetTypeNumSlots(t) <= a.maxStackSlots
                       /\ ItemHeld(a, [slot |-> slot, type |-> t])
    <3> HIDE DEF t
    <3> QED BY Allocated
  <2> HIDE DEF a
  <2>5. Good(a, S) /\ Follows(c, a) /\ (~a.error => a.stack = c.stack)  BY <2>4 DEF Keeps, Calm
  <2> HIDE DEF slot
  <2>6. ~a.error => GetStackTypeFromBottom(a, i) = t  BY <2>2, <2>5 DEF GetStackTypeFromBottom
  <2>7. Calm(a, b, S)
    <3> HIDE DEF t
    <3> QED BY <2>3, <2>4, <2>5, <2>6, CopiedIndex DEF InFrame
  <2> HIDE DEF b
  <2>8. Good(b, S) /\ Follows(a, b) /\ b.error = a.error /\ (~b.error => b.stack = c.stack)
    BY <2>5, <2>7 DEF Calm
  <2>9. ASSUME ~b.error PROVE ItemHeld(b, [slot |-> slot, type |-> t])
    <3> DEFINE it == [slot |-> slot, type |-> t]
    <3>1. it \in Items  BY <2>2, <2>3, ItemTyped DEF Items
    <3>2. Same(a, b) /\ SameLocals(a, b) /\ a.maxStackSlots <= b.maxStackSlots /\ ~a.error
      BY <2>8, <2>9 DEF Follows
    <3>3. a.maxStackSlots \in Nat /\ b.maxStackSlots \in Nat
      BY <2>5, <2>8, <2>9, <3>2, Bodies DEF Sizes
    <3> HIDE DEF it
    <3> QED BY <3>1, <3>2, <3>3, HeldOn, <2>4 DEF it
  <2>10. Keeps(b, d, S)
    <3>1. ~b.error => b.stackFirstDynamicIndex = c.stackFirstDynamicIndex
      BY <2>5, <2>8 DEF Follows, Same
    <3> QED BY <2>2, <2>3, <2>8, <2>9, <3>1, Reslotted
  <2> HIDE DEF d
  <2>12. Keeps(c, d, S)  BY <2>10, KeepsTrans, <2>4, <2>5, <2>7, CalmKeeps
  <2> QED BY SMTT(40), <2>1, <2>12
<1> QED BY <1>1, <1>2

LEMMA ConstantsRun ==
  ASSUME NEW c, NEW type, NEW M, M = Len(type.params), ~c.error,
         ~(GetNumBlockValuesOnStack(c) < M), M \in Nat
  PROVE  \E go : ConstantRun(c, type, M, go)
<1> DEFINE N == M
           Step(d, k) == InstantiateConstant(d, Height(c) - M + k)
           Runs(g, n) == g = [k \in 0 .. n |-> IF k = 0 THEN c ELSE Step(g[k - 1], k)]
           R == {n \in Nat : \E g : Runs(g, n)}
<1>0. N \in Nat  OBVIOUS
<1>1. 0 \in R
  <2>1. Runs([k \in {0} |-> c], 0)  OBVIOUS
  <2> QED BY <2>1
<1>2. ASSUME NEW n \in Nat, n \in R PROVE n + 1 \in R
  <2>1. PICK g : Runs(g, n)  BY <1>2
  <2> HIDE DEF Step
  <2>2. Runs([k \in 0 .. n + 1 |-> IF k <= n THEN g[k] ELSE Step(g[n], n + 1)], n + 1)  BY <2>1
  <2> HIDE DEF Runs
  <2> QED BY <2>2
<1>3. N \in R
  <2> HIDE DEF R, N
  <2> QED BY <1>0, <1>1, <1>2, Induct
<1>4. PICK go : go = (CHOOSE g : Runs(g, N)) /\ Runs(go, N)  BY <1>3
<1>5. InstantiateConstants(c, type) = go[N]  BY <1>4 DEF InstantiateConstants
<1>6. go[0] = c /\ \A k \in 1 .. N : go[k] = Step(go[k - 1], k)
  <2> HIDE DEF Step, N
  <2>1. go = [k \in 0 .. N |-> IF k = 0 THEN c ELSE Step(go[k - 1], k)]  BY <1>4
  <2> QED BY <2>1, <1>0
<1> QED BY <1>5, <1>6 DEF ConstantRun

LEMMA InstantiatedAll ==
  ASSUME NEW c, NEW S, S = Scopes(c), Good(c, S), NEW type, type.params \in Seq(ValueTypes)
  PROVE  Keeps(c, InstantiateConstants(c, type), S)
<1> DEFINE N == Len(type.params)
           F == c.stackFirstDynamicIndex
           H == Height(c)
           B == TopScope(S).blockStackIndex
<1>1. CASE c.error \/ GetNumBlockValuesOnStack(c) < N
  BY <1>1, KeepsSelf DEF InstantiateConstants
<1>2. CASE ~c.error /\ ~(GetNumBlockValuesOnStack(c) < N)
  <2>1. N \in Nat /\ N = Len(type.params)  OBVIOUS
  <2> HIDE DEF N
  <2>2. PICK go : ConstantRun(c, type, N, go)  BY <1>2, <2>1, ConstantsRun
  <2>3. /\ InstantiateConstants(c, type) = go[N] /\ go[0] = c
        /\ \A k \in 1 .. N : go[k] = InstantiateConstant(go[k - 1], H - N + k)
    BY <2>2 DEF ConstantRun
  <2>4. H = Len(c.stack) /\ H \in Nat /\ B \in Nat /\ F \in Nat /\ F <= B /\ H - B >= N
    <3>1. H = Len(c.stack) /\ H \in Nat  BY <1>2, Bodies, TypesSeq
    <3>2. B \in Nat /\ F \in Nat /\ F <= B  BY <1>2, TopBelow
    <3>3. GetNumBlockValuesOnStack(c) = H - B  BY <1>2, BlockTop DEF GetNumBlockValuesOnStack
    <3> HIDE DEF H, B, F
    <3> QED BY SMTT(40), <2>1, <3>1, <3>2, <1>2, <3>3
  <2> DEFINE P(n) == n <= N => Keeps(c, go[n], S)
             I == {n \in Nat : P(n)}
  <2>5. 0 \in I  BY <2>3, KeepsSelf
  <2>6. ASSUME NEW n \in Nat, n \in I PROVE n + 1 \in I
    <3>1. P(n)  BY <2>6
    <3> HIDE DEF I
    <3> SUFFICES P(n + 1)  BY DEF I
    <3> SUFFICES ASSUME n + 1 <= N PROVE Keeps(c, go[n + 1], S)
      OBVIOUS
    <3> DEFINE d == go[n]
               i == H - N + (n + 1)
    <3>3. Keeps(c, d, S) /\ go[n + 1] = InstantiateConstant(d, i)  BY <2>3, <3>1, <2>1
    <3> HIDE DEF d
    <3>4. i \in 1 .. H /\ i > F
      <4> HIDE DEF H, F, B
      <4>1. H \in Nat /\ B \in Nat /\ F \in Nat /\ F <= B /\ H - B >= N /\ N \in Nat
            /\ n + 1 <= N
        BY <2>1, <2>4
      <4> QED BY <4>1
    <3> HIDE DEF i
    <3>6. ASSUME ~d.error PROVE i \in DOMAIN d.stack /\ i > d.stackFirstDynamicIndex
      <4>1. Types(d) = Types(c) /\ d.stackFirstDynamicIndex = F
        BY <3>3, <3>6 DEF Keeps, Follows, Same
      <4>2. DOMAIN Types(d) = DOMAIN d.stack /\ DOMAIN Types(c) = DOMAIN c.stack  BY DEF Types
      <4> QED BY SMTT(40), <3>4, <4>1, <4>2, <1>2, <2>4, Bodies, TypesSeq
    <3> QED BY <3>3, KeepsTrans, <3>6, Instantiated DEF Keeps
  <2>7. N \in I
    <3> HIDE DEF I
    <3> QED BY <2>1, <2>5, <2>6, Induct
  <2> QED BY <2>1, <2>3, <2>7
<1> QED BY <1>1, <1>2

LEMMA TopUnique ==
  ASSUME NEW S \in Seq(ScopeSet), S # <<>>, NEW T, NEW a \in Seq(ValueTypes),
         NEW b \in Seq(ValueTypes), TopIs(S, T, a), TopIs(S, T, b),
         ~TopScope(S).isPolymorphic
  PROVE  a = b
<1> DEFINE B == TopScope(S).blockStackIndex
<1> HIDE DEF B
<1> QED BY SMTT(40), SeqEqual, TopTyped DEF HasTypes, TopIs

LEMMA OpeningWith ==
  ASSUME NEW c, Good(c, Scopes(c)), ~c.error, NEW xs \in Seq(ValueTypes), NEW type,
         type.params \in Seq(ValueTypes), NEW opcode, opcode # "else",
         TopIs(Scopes(c), Types(c), Block(c).types),
         TopIs(Scopes(c), Types(c), xs \o type.params)
  PROVE  Opening(c, type, opcode, xs)
<1>1. Scopes(c) \in Seq(ScopeSet) /\ Scopes(c) # <<>>  BY Bodies
<1>2. Block(c).types \in Seq(ValueTypes)
  <2>1. TopScope(Scopes(c)) \in ScopeSet /\ Block(c).types = TopScope(Scopes(c)).types
    BY <1>1, TopTyped, BlockTop
  <2> QED BY <2>1 DEF ScopeSet
<1>3. xs \o type.params \in Seq(ValueTypes)  BY Joined
<1>4. ~TopScope(Scopes(c)).isPolymorphic => Block(c).types = xs \o type.params
  BY <1>1, <1>2, <1>3, TopUnique
<1> QED BY <1>4 DEF Opening

LEMMA SettledEnds ==
  ASSUME IInv, NEW d, Settled(d), Becomes(d)
  PROVE  IInv'
BY Ends DEF Settled

LEMMA OpenedSettled ==
  ASSUME NEW c, NEW d, NEW type, NEW opcode, Opened(c, d, type, opcode), Sound(c)
  PROVE  Settled(d)
<1> SUFFICES ASSUME ~d.error
             PROVE  /\ Good(d, Scopes(d)) /\ GoalIsOpen(d, Scopes(d))
                    /\ TopIs(Scopes(d), Types(d), Block(d).types)
  BY DEF Opened, Settled, Sound, Good
<1>1. /\ ~c.error /\ Good(d, Scopes(d)) /\ TopIs(Scopes(d), Types(d), Block(d).types)
      /\ Len(Scopes(d)) = Len(Scopes(c)) + 1 /\ d.goal = c.goal
      /\ \A k \in 1 .. Len(Scopes(c)) :
            /\ Scopes(d)[k].isPolymorphic = Scopes(c)[k].isPolymorphic
            /\ Scopes(d)[k].opcode = Scopes(c)[k].opcode
  BY DEF Opened
<1>2. GoalIsOpen(c, Scopes(c)) /\ Good(c, Scopes(c))  BY <1>1 DEF Sound
<1> DEFINE n == Len(Scopes(c))
           g == c.goal.depth
<1>4. GoalIsOpen(d, Scopes(d))
  <2> SUFFICES ASSUME g # 0
               PROVE  /\ g \in 2 .. n + 1 /\ ~Scopes(d)[g - 1].isPolymorphic
                      /\ c.goal.at \in {"end", "else"}
                      /\ c.goal.at = "else" => Scopes(d)[g].opcode = "if"
    BY <1>1 DEF GoalIsOpen
  <2>1. /\ g \in 2 .. n /\ ~Scopes(c)[g - 1].isPolymorphic
        /\ c.goal.at \in {"end", "else"}
        /\ c.goal.at = "else" => Scopes(c)[g].opcode = "if"
    BY <1>2 DEF GoalIsOpen
  <2> HIDE DEF n, g
  <2> QED BY SMTT(40), <1>1, <2>1, <1>2, BlockTop DEF n
<1> QED BY <1>1, <1>4

LEMMA LoopOrBlockStep ==
  ASSUME IInv, NEW type \in FuncTypes, NEW opcode \in {"block", "loop"},
         Compile_LoopOrBlock(opcode, type)
  PROVE  IInv'
<1> DEFINE S == Scopes(o)
           c0 == PreserveRegisters(o)
           c1 == PreserveArgsAndLocals(c0)
           c2 == IF opcode = "loop" THEN ClearRegisters(InstantiateConstants(c1, type))
                 ELSE c1
           d == BeginBlock(c2, type, opcode)
<1>1. ~o.error /\ ~o.done /\ HasOperands(o, type.params) /\ Becomes(d)
  BY DEF Compile_LoopOrBlock, Compiles
<1>2. Sound(o) /\ Good(o, S) /\ TopIs(S, Types(o), Block(o).types)  BY <1>1, Starting
<1>3. type.params \in Seq(ValueTypes)  BY DEF FuncTypes, ValueTypes
<1>4. PICK xs \in Seq(ValueTypes) : TopIs(S, Types(o), xs \o type.params)
  BY <1>1, <1>3, OperandsLie
<1>5. Keeps(o, c0, S)  BY <1>2, PreservedBoth
<1> HIDE DEF c0
<1>6. \A c : Keeps(o, c, S) => Good(c, S) /\ (~c.error => Scopes(c) = S)
  BY SameScopes DEF Keeps
<1>7. ASSUME NEW c, Keeps(o, c, S), NEW e, Keeps(c, e, S) PROVE Keeps(o, e, S)
  BY <1>2, <1>7, KeepsTrans
<1>8. Keeps(o, c1, S)
  <2>1. CASE c0.error  BY <2>1, <1>5 DEF PreserveArgsAndLocals
  <2>2. CASE ~c0.error  BY <1>5, <1>6, <2>2, PreservedArgsAndLocals, <1>7
  <2> QED BY <2>1, <2>2
<1> HIDE DEF c1
<1>9. Keeps(o, c2, S)
  <2>1. CASE opcode # "loop"  BY <1>8, <2>1
  <2>2. CASE opcode = "loop"
    <3> DEFINE e == InstantiateConstants(c1, type)
    <3>1. c2 = ClearRegisters(e)  BY <2>2
    <3>2. Keeps(o, e, S)
      <4>1. CASE c1.error  BY <4>1, <1>8 DEF InstantiateConstants
      <4>2. CASE ~c1.error  BY <1>3, <1>6, <1>8, <4>2, InstantiatedAll, <1>7
      <4> QED BY <4>1, <4>2
    <3> HIDE DEF e
    <3> QED BY <1>7, <3>2, <3>1, CalmKeeps, <1>6, Cleared
  <2> QED BY <2>1, <2>2
<1> HIDE DEF c2
<1>10. Goes(o, c2)  BY <1>2, <1>9, KeepsGoes
<1>11. Sound(c2) /\ IsState(c2)  BY <1>10 DEF Goes, Sound, Good
<1>12. ASSUME ~c2.error PROVE Good(c2, Scopes(c2)) /\ Opening(c2, type, opcode, xs)
  <2>1. Good(c2, Scopes(c2)) /\ Scopes(c2) = S /\ Types(c2) = Types(o)
    BY <1>11, <1>12, <1>10 DEF Goes, Sound
  <2> QED BY <1>3, <1>12, <2>1, OpeningWith, <1>2, <1>10, GoesTop, <1>4
<1>13. Opened(c2, d, type, opcode)  BY <1>11, <1>12, Began
<1>14. Settled(d)
  <2> HIDE DEF d
  <2> QED BY <1>11, <1>13, OpenedSettled
<1> HIDE DEF d
<1> QED BY <1>1, <1>14, SettledEnds

\* Beneath the condition lie the parameters.
LEMMA BeneathCondition ==
  ASSUME IInv, ~o.error, ~o.done, NEW ls \in Seq(ValueTypes),
         HasOperands(o, Append(ls, "i32")), NEW d, Turns(d, <<"i32">>, <<>>), NEW e,
         Evolved(d, e)
  PROVE  \E xs \in Seq(ValueTypes) : ~e.error => TopIs(Scopes(e), Types(e), xs \o ls)
<1> DEFINE S == Scopes(o)
           R == Scopes(e)
<1>1. "i32" \in ValueTypes /\ <<"i32">> \in Seq(ValueTypes)  BY Singles DEF ValueTypes, IntTypes
<1>2. Append(ls, "i32") = ls \o <<"i32">> /\ ls \o <<"i32">> \in Seq(ValueTypes)
  BY <1>1, Assoc, Joined
<1>3. PICK xs \in Seq(ValueTypes) : TopIs(S, Types(o), xs \o (ls \o <<"i32">>))
  BY <1>2, OperandsLie
<1>4. xs \o (ls \o <<"i32">>) = (xs \o ls) \o <<"i32">> /\ xs \o ls \in Seq(ValueTypes)
  BY <1>1, Assoc
<1>5. Yields(o, d, S, (xs \o ls) \o <<>>)  BY <1>3, <1>4 DEF Turns
<1>6. Yields(o, d, S, xs \o ls)  BY <1>4, <1>5, NoneMore
<1>7. ASSUME ~e.error PROVE TopIs(R, Types(e), xs \o ls)
  BY <1>7, <1>6 DEF Evolved, Yields, TopIs
<1> QED BY <1>7

\* The run goes to the else, if the condition does not hold.
LEMMA ElseAwaited ==
  ASSUME NEW c, NEW d, NEW type, Opened(c, d, type, "if"), Settled(d), NEW holds
  PROVE  Settled(ElseUnless(d, holds))
<1> DEFINE k == Len(d.block)
           f == Leave(d, k, "else", Operands(d))
<1>1. CASE d.error \/ holds  BY <1>1 DEF ElseUnless
<1>2. CASE ~(d.error \/ holds)
  <2>1. ElseUnless(d, holds) = f  BY <1>2 DEF ElseUnless
  <2>2. Sound(d) /\ Good(d, Scopes(d)) /\ TopIs(Scopes(d), Types(d), Block(d).types)
    BY <1>2 DEF Settled, Sound
  <2>5. k = Len(Scopes(d)) /\ k \in Nat /\ k >= 1 /\ Scopes(d)[k].opcode = "if"
    BY <1>2, <2>2, BlockTop DEF TopScope, Opened
  <2>7. Goes(d, f)
    <3> HIDE DEF k
    <3> QED BY <2>2, <2>5, Left, <1>2, LoopInside DEF Sound
  <2> HIDE DEF f
  <2> QED BY <2>1, <2>7, <2>2, GoesTop DEF Settled, Goes
<1> QED BY <1>1, <1>2

LEMMA IfStep ==
  ASSUME IInv, NEW type \in FuncTypes, NEW holds \in BOOLEAN, Compile_If(type, holds)
  PROVE  IInv'
<1> DEFINE S == Scopes(o)
           c0 == PreserveNonTopRegisters(o)
           c1 == PreserveArgsAndLocals(c0)
           p == Pop(ReadOperand(c1, 0, "i32"))
           e == Eval(p, 1, <<>>, <<>>)
           d == BeginBlock(e, type, "if")
<1>1. /\ ~o.error /\ ~o.done /\ HasOperands(o, Append(type.params, "i32"))
      /\ Becomes(ElseUnless(d, holds))
  BY DEF Compile_If, Compiles
<1>2. Sound(o) /\ Good(o, S)  BY <1>1, Starting
<1>3. type.params \in Seq(ValueTypes)  BY DEF FuncTypes, ValueTypes
<1>4. Keeps(o, c0, S)  BY <1>2, PreservedBoth
<1> HIDE DEF c0
<1>5. Keeps(o, c1, S)
  <2>1. CASE c0.error  BY <2>1, <1>4 DEF PreserveArgsAndLocals
  <2>2. CASE ~c0.error
    BY SMTT(40), <1>4, <2>2, SameScopes, PreservedArgsAndLocals, <1>2, KeepsTrans DEF Keeps
  <2> QED BY <2>1, <2>2
<1> HIDE DEF c1
<1>6. Turns(p, <<"i32">>, <<>>)  BY <1>1, <1>5, ConditionTaken
<1> HIDE DEF p
<1>7. Evolved(p, e) /\ Sound(e)  BY <1>1, <1>3, <1>6, Deciding
<1> HIDE DEF e
<1>8. PICK xs \in Seq(ValueTypes) :
         ~e.error => TopIs(Scopes(e), Types(e), xs \o type.params)
  BY SMTT(40), <1>1, <1>3, <1>6, <1>7, BeneathCondition
<1>10. ASSUME ~e.error PROVE Good(e, Scopes(e)) /\ Opening(e, type, "if", xs)
  BY <1>7, <1>10, <1>3, <1>8, OpeningWith DEF Evolved
<1>11. Opened(e, d, type, "if")  BY <1>10, Began, <1>7 DEF Evolved
<1>12. Settled(ElseUnless(d, holds))
  <2> HIDE DEF d
  <2> QED BY <1>11, ElseAwaited, <1>7, OpenedSettled
<1> QED BY <1>1, <1>12, SettledEnds

LEMMA Resumed ==
  ASSUME NEW e, Good(e, Scopes(e)), NEW k, k # 0, NEW at,
         ~e.error /\ e.goal.depth = k /\ e.goal.at = at =>
            ~TopScope(Scopes(e)).isPolymorphic
  PROVE  Back(e, Resume(e, k, at), k, at)
<1> DEFINE d == Resume(e, k, at)
           n == Len(e.block)
           block == [e.block EXCEPT ![n].operands = @ \o e.goal.values]
<1>1. CASE ~(~e.running /\ e.goal.depth = k /\ e.goal.at = at)
  <2>2. ~e.error => ~(e.goal.depth = k /\ e.goal.at = at)
    <3> SUFFICES ASSUME ~e.error, e.goal.depth = k, e.goal.at = at PROVE FALSE
      OBVIOUS
    <3> QED BY <1>1 DEF Good, Body, RunsLive
  <2> QED BY <2>2, <1>1 DEF Back, SameFrame, Resume
<1>2. CASE ~e.running /\ e.goal.depth = k /\ e.goal.at = at
  <2>1. d = [e EXCEPT !.running = TRUE, !.goal = NoGoal, !.block = block]  BY <1>2 DEF Resume
  <2> HIDE DEF block
  <2>3. IsState(d) /\ d.error = e.error /\ d.running = TRUE /\ d.goal = NoGoal
        /\ d.block = block /\ SameFrame(e, d)
    BY <2>1 DEF IsState, SameFrame, Fields, Good
  <2>4. CASE e.error  BY <2>3, <2>4 DEF Back, Good
  <2>5. CASE ~e.error
    <3>1. n \in Nat /\ n >= 1 /\ DOMAIN e.block = 1 .. n  BY SMTT(40), <2>5, BlockTop
    <3>2. block = [j \in DOMAIN e.block |-> block[j]]  BY DEF block
    <3>3. ASSUME NEW j \in DOMAIN e.block
          PROVE  \/ block[j] = e.block[j]
                 \/ \E vs : block[j] = [e.block[j] EXCEPT !.operands = vs]
      BY DEF block
    <3>4. /\ \E B : block \in Seq(B)
          /\ Len(block) = Len(e.block)
          /\ \A j \in 1 .. Len(e.block) : /\ DOMAIN block[j] = ScopeFields
                                          /\ ScopeOf(block[j]) = ScopeOf(e.block[j])
      BY <2>5, <3>2, <3>3, Refilled
    <3>5. NoGoal.depth = 0  BY DEF NoGoal
    <3>7. Good(d, Scopes(e)) /\ Scopes(d) = Scopes(e)
      <4> HIDE DEF d
      <4> QED BY SMTT(40), <2>3, <2>5, <3>4, Reblocked, <1>2, <3>5 DEF RunsLive
    <3> HIDE DEF d
    <3>11. Back(e, d, k, at)  BY <2>3, <3>7, <3>5 DEF Back
    <3> QED BY <3>11 DEF d
  <2> QED BY <2>4, <2>5
<1> QED BY <1>1, <1>2

LEMMA NoGoalHere ==
  ASSUME NEW c, NEW S, GoalNear(c, S), Len(S) \in Nat, c.goal.depth # Len(S) + 1
  PROVE  GoalIsOpen(c, S)
<1> DEFINE g == c.goal.depth
<1> SUFFICES ASSUME g # 0
             PROVE  /\ g \in 2 .. Len(S) /\ ~S[g - 1].isPolymorphic
                    /\ c.goal.at \in {"end", "else"}
                    /\ c.goal.at = "else" => S[g].opcode = "if"
  BY DEF GoalIsOpen
<1> HIDE DEF g
<1> QED BY DEF g, GoalNear

LEMMA GoalKept ==
  ASSUME NEW c, NEW d, NEW S, GoalNear(c, S), d.goal = c.goal \/ d.goal.depth = 0
  PROVE  GoalNear(d, S)
BY DEF GoalNear

LEMMA OuterIs ==
  ASSUME NEW S \in Seq(ScopeSet), Len(S) >= 2
  PROVE  Outer(S, Front(S))
<1> DEFINE R == Front(S)
<1>1. R = SubSeq(S, 1, Len(S) - 1) /\ Len(S) \in Nat  BY DEF Front
<1>2. R \in Seq(ScopeSet) /\ Len(R) = Len(S) - 1 /\ \A k \in 1 .. Len(S) - 1 : R[k] = S[k]
  BY <1>1
<1> HIDE DEF R
<1>3. R # <<>> /\ TopScope(R) = S[Len(S) - 1] /\ TopScope(S) = S[Len(S)]
  <2>1. Len(S) - 1 \in 1 .. Len(S) - 1 /\ Len(R) # 0  BY <1>1, <1>2
  <2> QED BY <1>2, <2>1 DEF TopScope
<1> QED BY <1>1, <1>2, <1>3 DEF Outer, R

LEMMA ClosingIs ==
  ASSUME NEW S \in Seq(ScopeSet), NEW R, Outer(S, R), NEW T, NEW base, Nested(S, T, base)
  PROVE  Closing(S, R, T)
<1> DEFINE n == Len(S)
           p == TopScope(R)
           s == TopScope(S)
<1>1. n \in Nat /\ n >= 2 /\ p = S[n - 1] /\ s = S[n] /\ n \in 1 .. n /\ n - 1 \in 1 .. n
      /\ n \in 2 .. n /\ n - 1 \in 1 .. n - 1
  BY DEF Outer
<1>2. /\ p \in ScopeSet /\ s \in ScopeSet  BY DEF Outer
<1> HIDE DEF n, p, s
<1>5. s.exitStackIndex <= s.blockStackIndex /\ s.stackIndex <= s.blockStackIndex
      /\ s.blockStackIndex <= Len(T)
  BY <1>1 DEF Nested, n, s
<1>6. ~p.isPolymorphic => Records(T, p, s)  BY <1>1 DEF Nested, n
<1>7. p.blockStackIndex <= s.exitStackIndex /\ p.blockStackIndex <= s.stackIndex
      /\ (p.isPolymorphic => s.isPolymorphic)
  BY <1>1 DEF Inside, Nested, n
<1> QED BY SMTT(40), <1>5, <1>6, <1>7, <1>2 DEF Closing, p, s, ScopeSet

LEMMA NestedOuter ==
  ASSUME NEW S \in Seq(ScopeSet), NEW R, Outer(S, R), NEW T, NEW base, Nested(S, T, base)
  PROVE  Nested(R, T, base)
<1>1. Closing(S, R, T)  BY ClosingIs
<1>2. R # <<>> /\ Len(R) = Len(S) - 1 /\ Len(S) \in Nat /\ Len(S) >= 2
      /\ \A k \in 1 .. Len(S) - 1 : R[k] = S[k]
  BY DEF Outer
<1>3. 1 .. Len(R) \subseteq 1 .. Len(S) /\ 2 .. Len(R) \subseteq 2 .. Len(S)
      /\ 1 \in 1 .. Len(R) /\ 1 .. Len(R) = 1 .. Len(S) - 1
  BY <1>2
<1>6. \A k \in 1 .. Len(R) :
          /\ base <= R[k].blockStackIndex
          /\ R[k].exitStackIndex <= R[k].blockStackIndex
          /\ R[k].stackIndex <= R[k].blockStackIndex
          /\ R[k].dead => R[k].isPolymorphic
  BY <1>2, <1>3 DEF Nested
<1>7. \A k \in 1 .. Len(R) : \A j \in 1 .. k - 1 : Inside(R[j], R[k])
  <2> SUFFICES ASSUME NEW k \in 1 .. Len(R), NEW j \in 1 .. k - 1
               PROVE  Inside(R[j], R[k])
    OBVIOUS
  <2> QED BY SMTT(40), <1>2, <1>3 DEF Nested
<1>8. \A k \in 2 .. Len(R) : ~R[k - 1].isPolymorphic => Records(T, R[k - 1], R[k])
  <2> SUFFICES ASSUME NEW k \in 2 .. Len(R), ~R[k - 1].isPolymorphic
               PROVE  Records(T, R[k - 1], R[k])
    OBVIOUS
  <2> QED BY SMTT(40), <1>2 DEF Nested
<1> QED BY <1>2, <1>6, <1>7, <1>8, <1>3, <1>1 DEF Nested, Closing

\* The scope is left: the stack is cut, at most down to what was there before.
LEMMA StackCut ==
  ASSUME NEW c, NEW S, Good(c, S), ~c.error, NEW R, Outer(S, R),
         Len(c.stack) = TopScope(S).blockStackIndex, NEW n \in Nat,
         TopScope(R).blockStackIndex <= n, n <= Len(c.stack), NEW d,
         d = [c EXCEPT !.stack = SubSeq(c.stack, 1, n)]
  PROVE  Good(d, R) /\ ~d.error
<1>1. /\ Sizes(c) /\ c.stack \in Seq(Items) /\ ArgsAndLocals(c) /\ NoLocalInRegister(c)
      /\ ItemsHeld(c, S) /\ WritesHeld(c) /\ BlocksHeld(c, S) /\ RunsLive(c, S)
      /\ Nested(S, Types(c), c.stackFirstDynamicIndex) /\ S \in Seq(ScopeSet)
  BY Bodies
<1>3. /\ IsState(d) /\ ~d.error /\ d.stack = SubSeq(c.stack, 1, n)
      /\ d.f = c.f /\ d.locals = c.locals /\ d.block = c.block
      /\ d.stackFirstDynamicIndex = c.stackFirstDynamicIndex
      /\ d.slotFirstConstIndex = c.slotFirstConstIndex
      /\ d.slotMaxConstIndex = c.slotMaxConstIndex
      /\ d.slotFirstDynamicIndex = c.slotFirstDynamicIndex
      /\ d.slotMaxAllocatedIndexPlusOne = c.slotMaxAllocatedIndexPlusOne
      /\ d.maxStackSlots = c.maxStackSlots /\ d.written = c.written
      /\ d.regStackIndexPlusOne = c.regStackIndexPlusOne
      /\ d.running = c.running /\ d.goal = c.goal
  BY DEF IsState, Fields, Good
<1>4. /\ d.stack \in Seq(Items) /\ Len(d.stack) = n /\ Len(c.stack) \in Nat
      /\ DOMAIN d.stack = 1 .. n /\ DOMAIN c.stack = 1 .. Len(c.stack)
      /\ 1 .. n \subseteq 1 .. Len(c.stack)
      /\ \A i \in 1 .. n : d.stack[i] = c.stack[i]
  BY SMTT(40), <1>1, <1>3
<1>5. Closing(S, R, Types(c)) /\ Nested(R, Types(c), c.stackFirstDynamicIndex)
  BY <1>1, ClosingIs, NestedOuter
<1>6. c.stackFirstDynamicIndex \in Nat /\ c.stackFirstDynamicIndex <= n
  <2>3. c.stackFirstDynamicIndex <= TopScope(R).blockStackIndex
    BY SMTT(40), <1>5 DEF Nested, TopScope, Outer
  <2>4. TopScope(R).blockStackIndex \in Nat  BY <1>5 DEF Closing
  <2> QED BY SMTT(40), <2>3, <2>4, <1>1 DEF Sizes
<1>7. Sizes(d) /\ NoLocalInRegister(d) /\ WritesHeld(d)
  BY <1>1, <1>3 DEF Sizes, NoLocalInRegister, WritesHeld
<1>8. ArgsAndLocals(d)  BY SMTT(40), <1>4, <1>6, <1>1, <1>3 DEF ArgsAndLocals
<1>9. ItemsHeld(d, R)
  <2> SUFFICES ASSUME NEW i \in DOMAIN d.stack, LiveItem(R, i)
               PROVE  ItemHeld(d, d.stack[i])
    BY DEF ItemsHeld
  <2>1. i \in 1 .. n /\ i \in DOMAIN c.stack /\ d.stack[i] = c.stack[i]  BY <1>4
  <2>2. LiveItem(S, i)
    <3> SUFFICES ASSUME NEW k \in DOMAIN S, S[k].isPolymorphic
                 PROVE  i <= S[k].blockStackIndex
      BY DEF LiveItem
    <3>1. k \in 1 .. Len(S) /\ Len(S) \in Nat /\ TopScope(S) = S[Len(S)]  BY SMTT(40), <1>1 DEF TopScope
    <3>2. CASE k = Len(S)  BY <2>1, <1>5, <3>1, <3>2 DEF Closing
    <3>3. CASE k # Len(S)
      <4>1. k \in 1 .. Len(S) - 1  BY <3>1, <3>3
      <4> QED BY SMTT(40), <4>1 DEF LiveItem, Outer
    <3> QED BY <3>2, <3>3
  <2>3. ItemHeld(c, c.stack[i])  BY <1>1, <2>1, <2>2 DEF ItemsHeld
  <2>4. c.stack[i] \in Items  BY <1>1, <2>1
  <2>5. Same(c, d) /\ SameLocals(c, d)  BY SMTT(40), <1>4, <1>6, <1>3 DEF Same, SameLocals
  <2>6. c.maxStackSlots \in Nat  BY <1>1 DEF Sizes
  <2>7. d.maxStackSlots \in Nat /\ c.maxStackSlots <= d.maxStackSlots  BY <1>3, <2>6
  <2>8. ItemHeld(d, c.stack[i])  BY <2>3, <2>4, <2>5, <2>6, <2>7, HeldOn
  <2> QED BY <2>1, <2>8
<1>10. BlocksHeld(d, R)  BY <1>1, <1>3 DEF Outer, BlocksHeld
<1>11. RunsLive(d, R)  BY <1>1, <1>3, <1>5 DEF RunsLive, Closing
<1>12. Nested(R, Types(d), d.stackFirstDynamicIndex)
  <2>1. R \in Seq(ScopeSet)  BY DEF Outer
  <2>2. Len(Types(d)) = n /\ \A i \in 1 .. n : Types(d)[i] = Types(c)[i]
    <3>1. /\ Len(Types(d)) = n /\ \A i \in 1 .. n : Types(d)[i] = d.stack[i].type
      BY ZenonT(60), <1>4, TypesSeq
    <3>2. \A i \in 1 .. Len(c.stack) : Types(c)[i] = c.stack[i].type  BY <1>1, TypesSeq
    <3> QED BY ZenonT(60), <1>4, <3>1, <3>2
  <2>4. \A i \in 1 .. TopScope(R).blockStackIndex : Types(d)[i] = Types(c)[i]
    <3>1. 1 .. TopScope(R).blockStackIndex \subseteq 1 .. n  BY <1>5 DEF Closing
    <3> QED BY <2>2, <3>1
  <2> QED BY <1>3, <1>5, <2>1, <2>2, <2>4, NestedOn
<1> QED BY <1>3, <1>4, <1>7, <1>8, <1>9, <1>10, <1>11, <1>12 DEF Good, Body

LEMMA SeqLess ==
  ASSUME NEW B, NEW s \in Seq(B), NEW n \in Nat, n = Len(s), n >= 1
  PROVE  /\ SubSeq(s, 1, n - 1) \in Seq(B) /\ Len(SubSeq(s, 1, n - 1)) = n - 1
         /\ DOMAIN SubSeq(s, 1, n - 1) = 1 .. n - 1
         /\ \A k \in 1 .. n - 1 : SubSeq(s, 1, n - 1)[k] = s[k]
OBVIOUS

LEMMA BlockClosed ==
  ASSUME NEW c, NEW R, Good(c, R), ~c.error, Outer(Scopes(c), R), NEW d,
         d = [c EXCEPT !.block = Front(c.block)]
  PROVE  Closed(c, d, R)
<1> DEFINE n == Len(c.block)
           S == Scopes(c)
<1>1. Body(c, R) /\ BlocksHeld(c, R)  BY Bodies
<1>2. PICK B : c.block \in Seq(B)  BY <1>1 DEF BlocksHeld
<1>3. n \in Nat /\ DOMAIN c.block = 1 .. n /\ Len(S) = n
  <2>1. n \in Nat /\ DOMAIN c.block = 1 .. n  BY <1>2
  <2> HIDE DEF n
  <2> QED BY <2>1 DEF Scopes
<1>4. n >= 2 /\ Len(R) = n - 1 /\ R # <<>> /\ R \in Seq(ScopeSet)
      /\ \A k \in 1 .. n - 1 : R[k] = S[k]
  BY <1>3 DEF Outer
<1>6. /\ IsState(d) /\ ~d.error /\ d.block = Front(c.block) /\ SameFrame(c, d)
      /\ d.running = c.running /\ d.goal = c.goal
  BY DEF IsState, Fields, Good, SameFrame
<1>7. /\ d.block \in Seq(B) /\ Len(d.block) = n - 1 /\ DOMAIN d.block = 1 .. n - 1
      /\ \A k \in 1 .. n - 1 : d.block[k] = c.block[k]
  <2>1. d.block = SubSeq(c.block, 1, n - 1)  BY <1>6 DEF Front
  <2>2. n = Len(c.block)  OBVIOUS
  <2> HIDE DEF n
  <2>4. /\ SubSeq(c.block, 1, n - 1) \in Seq(B) /\ Len(SubSeq(c.block, 1, n - 1)) = n - 1
        /\ DOMAIN SubSeq(c.block, 1, n - 1) = 1 .. n - 1
        /\ \A k \in 1 .. n - 1 : SubSeq(c.block, 1, n - 1)[k] = c.block[k]
    BY SMTT(40), <1>2, <2>2, SeqLess, <1>3, <1>4
  <2> QED BY <2>1, <2>4
<1>8. Scopes(d) = R
  <2>2. \A k \in 1 .. n - 1 : S[k] = ScopeOf(c.block[k])  BY <1>3 DEF Scopes
  <2>3. R = [k \in 1 .. n - 1 |-> R[k]]
    <3> HIDE DEF n
    <3> QED BY <1>4, SeqIsFunction
  <2> HIDE DEF S, n
  <2> QED BY <1>4, <2>2, <2>3, <1>7 DEF Scopes
<1>9. BlocksHeld(d, R)
  <2>2. \A k \in DOMAIN d.block : DOMAIN d.block[k] = ScopeFields
    BY SMTT(40), <1>1, <1>3, <1>4, <1>7 DEF BlocksHeld
  <2> QED BY <1>4, <1>7, <2>2 DEF BlocksHeld
<1>10. RunsLive(d, R)  BY <1>1, <1>6 DEF Body, RunsLive
<1>11. Good(d, R)
  <2>1. Alike(R, R) /\ SameFrame(c, d)  BY <1>6, AlikeSelf
  <2>2. d.error = c.error  BY <1>6 DEF Good, IsState
  <2> HIDE DEF n
  <2> QED BY <1>6, <1>9, <1>10, <2>1, <2>2, Regarded
<1> QED BY <1>6, <1>8, <1>11 DEF Closed

LEMMA ScopeIsLeft ==
  ASSUME NEW c, Sound(c), ~c.error, Len(Scopes(c)) >= 2, Completes(c)
  PROVE  LeftBehind(c, LeaveScope(c))
<1> DEFINE S == Scopes(c)
           k == Len(c.block)
           resolved == IF IsStackPolymorphic(c) THEN c ELSE ResolveBlockResults(c, k, FALSE)
           left == IF Block(c).opcode = "if" THEN Leave(resolved, k, "end", Operands(c))
                   ELSE resolved
           l == UnwindBlockStack(left)
<1>1. Good(c, S)  BY DEF Sound
<1>2. /\ k = Len(S) /\ k \in Nat /\ k \in 2 .. Len(S) /\ S[k] = TopScope(S)
      /\ S \in Seq(ScopeSet) /\ S # <<>>
  BY <1>1, BlockTop, Bodies DEF TopScope
<1>4. LeaveScope(c) = l  BY DEF LeaveScope
<1>5. Goes(c, resolved)
  <2>1. Keeps(c, resolved, S)
    <3>1. CASE IsStackPolymorphic(c)  BY <1>1, <3>1, KeepsSelf
    <3>2. CASE ~IsStackPolymorphic(c)
      <4> DEFINE rets == TopScope(S).type.rets
      <4>1. <<>> \o rets = rets /\ <<>> \in Seq(ValueTypes)  BY <1>2, ScopeTyped
      <4>2. TopIs(S, Types(c), <<>> \o rets)  BY <4>1 DEF Completes
      <4>3. rets = IF S[k].opcode = "loop" /\ FALSE THEN S[k].type.params ELSE S[k].type.rets
        BY <1>2
      <4> HIDE DEF S, k, rets
      <4>4. Keeps(c, ResolveBlockResults(c, k, FALSE), S)
        BY <1>1, <1>2, <4>1, <4>2, <4>3, Resolved DEF S
      <4> QED BY <3>2, <4>4
    <3> QED BY <3>1, <3>2
  <2> HIDE DEF resolved
  <2> QED BY <1>1, <2>1, KeepsGoes
<1> HIDE DEF resolved
<1>6. Goes(c, left) /\ (~left.error /\ Block(c).opcode = "if" => ~left.running)
  <2>1. CASE Block(c).opcode = "if"
    <3>1. left = Leave(resolved, k, "end", Operands(c))  BY <2>1
    <3> HIDE DEF left
    <3>4. Goes(resolved, left) /\ ~left.running  BY <3>1, Left, <1>2, <1>5 DEF Goes
    <3> QED BY <1>5, <3>4, GoesTrans
  <2>2. CASE Block(c).opcode # "if"  BY <1>5, <2>2
  <2> QED BY <2>1, <2>2
<1> HIDE DEF left
<1>7. Sound(left)  BY <1>6 DEF Goes
<1>8. /\ Good(l, Scopes(left)) /\ Follows(left, l)
      /\ ~l.error => Len(l.stack) = TopScope(Scopes(left)).blockStackIndex
  BY <1>7, Unwound DEF Sound
<1> HIDE DEF l
<1>11. ~left.error => Scopes(left) = S  BY <1>6 DEF Goes
<1>12. LeftBehind(c, l)  BY <1>6, <1>8, <1>11, <1>7, FollowsSound DEF LeftBehind, Good
<1> QED BY <1>4, <1>12

\* The operands of a complete block are its results.
LEMMA CompleteBlock ==
  ASSUME IInv, ~o.error, ~o.done, BlockIsComplete
  PROVE  Completes(o)
<1> DEFINE S == Scopes(o)
           rets == TopScope(S).type.rets
<1>1. Good(o, S) /\ TopIs(S, Types(o), Block(o).types) /\ Block(o).types \in Seq(ValueTypes)
  BY Starting
<1>2. Block(o).type = TopScope(S).type /\ S \in Seq(ScopeSet) /\ S # <<>>
  BY <1>1, BlockTop, Bodies
<1>3. rets \in Seq(ValueTypes)  BY <1>2, TopTyped, ScopeTyped DEF TopScope
<1>4. HasOperands(o, rets) /\ Len(Block(o).types) <= Len(rets)  BY <1>2 DEF BlockIsComplete
<1> HIDE DEF rets
<1>5. PICK xs \in Seq(ValueTypes) : TopIs(S, Types(o), xs \o rets)  BY <1>3, <1>4, OperandsLie
<1>6. CASE TopScope(S).isPolymorphic  BY <1>6 DEF Completes, TopIs
<1>7. CASE ~TopScope(S).isPolymorphic
  <2>1. xs \o rets \in Seq(ValueTypes) /\ Len(xs \o rets) = Len(xs) + Len(rets)
        /\ Len(xs) \in Nat /\ Len(rets) \in Nat
    BY <1>3, Joined
  <2>2. Block(o).types = xs \o rets
    <3> HIDE DEF S
    <3> QED BY <1>1, <1>2, <1>5, <1>7, <2>1, TopUnique
  <2>4. xs = <<>>  BY <1>4, <2>1, <2>2
  <2> QED BY <1>5, <1>3, <2>4 DEF Completes, rets
<1> QED BY <1>6, <1>7

LEMMA GrownAfter ==
  ASSUME NEW c, NEW d, NEW S, NEW xs \in Seq(ValueTypes), NEW ts \in Seq(ValueTypes),
         Good(c, S), Grown(c, d, ts, Len(ts), S), ~d.error, TopIs(S, Types(c), xs)
  PROVE  TopIs(S, Types(d), xs \o ts)
<1> DEFINE B == TopScope(S).blockStackIndex
           us == xs \o ts
<1> SUFFICES ASSUME ~TopScope(S).isPolymorphic
             PROVE  Len(Types(d)) = B + Len(us) /\ HasTypes(Types(d), B, us)
  BY DEF TopIs
<1>1. /\ Good(d, S) /\ ~c.error /\ Len(d.stack) = Len(c.stack) + Len(ts)
      /\ \A i \in 1 .. Len(c.stack) : d.stack[i].type = c.stack[i].type
      /\ \A j \in 1 .. Len(ts) : d.stack[Len(c.stack) + j].type = ts[j]
  BY DEF Grown, Follows
<1>3. B \in Nat  BY <1>1, TopBelow
<1>4. /\ Len(us) = Len(xs) + Len(ts) /\ Len(xs) \in Nat /\ Len(ts) \in Nat
      /\ \A j \in 1 .. Len(xs) : us[j] = xs[j]
      /\ \A j \in 1 .. Len(ts) : us[Len(xs) + j] = ts[j]
  BY Joined
<1>5. Len(Types(c)) = B + Len(xs) /\ HasTypes(Types(c), B, xs)  BY DEF TopIs
<1>6. /\ Len(Types(c)) = Len(c.stack) /\ Len(Types(d)) = Len(d.stack)
      /\ \A i \in 1 .. Len(c.stack) : Types(c)[i] = c.stack[i].type
      /\ \A i \in 1 .. Len(d.stack) : Types(d)[i] = d.stack[i].type
  BY SMTT(40), TypesSeq, <1>1, Bodies
<1> HIDE DEF B, us
<1> DEFINE m == Len(xs)
           n == Len(ts)
<1>7. m \in Nat /\ n \in Nat /\ Len(c.stack) = B + m /\ Len(d.stack) = B + m + n
      /\ Len(us) = m + n
  BY <1>1, <1>3, <1>4, <1>5, <1>6
<1>8. ASSUME NEW j \in 1 .. Len(us) PROVE Types(d)[B + j] = us[j]
  <2>1. CASE j <= m
    <3>1. j \in 1 .. m /\ B + j \in 1 .. Len(c.stack) /\ B + j \in 1 .. Len(d.stack)
      <4> HIDE DEF m, n
      <4> QED BY <1>3, <1>7, <1>8, <2>1
    <3> QED BY <1>1, <1>4, <1>5, <1>6, <3>1 DEF HasTypes
  <2>2. CASE ~(j <= m)
    <3> DEFINE i == j - m
    <3>1. i \in 1 .. n /\ B + j \in 1 .. Len(d.stack) /\ B + j = Len(c.stack) + i
          /\ j = m + i
      <4> HIDE DEF m, n
      <4> QED BY SMTT(40), <1>3, <1>7, <1>8, <2>2
    <3> HIDE DEF i
    <3>2. Types(d)[B + j] = ts[i]  BY <1>1, <1>6, <3>1
    <3> QED BY <3>2, <1>4, <3>1
  <2> QED BY <2>1, <2>2
<1> HIDE DEF m, n
<1> QED BY <1>3, <1>6, <1>7, <1>8 DEF HasTypes

LEMMA GoalOuter ==
  ASSUME NEW c, NEW S, NEW R, Outer(S, R), GoalIsOpen(c, S)
  PROVE  /\ GoalNear(c, R)
         /\ c.goal.depth = Len(S) /\ c.goal.at = "else" => TopScope(S).opcode = "if"
<1> DEFINE g == c.goal.depth
           n == Len(S)
<1>1. n \in Nat /\ n >= 2 /\ Len(R) = n - 1 /\ \A k \in 1 .. n - 1 : R[k] = S[k]  BY DEF Outer
<1>2. g # 0 => /\ g \in 2 .. n /\ ~S[g - 1].isPolymorphic
               /\ c.goal.at \in {"end", "else"}
               /\ c.goal.at = "else" => S[g].opcode = "if"
  BY DEF GoalIsOpen
<1>4. GoalNear(c, R)
  <2> SUFFICES ASSUME g # 0
               PROVE  /\ g \in 2 .. Len(R) + 1 /\ ~R[g - 1].isPolymorphic
                      /\ c.goal.at \in {"end", "else"}
                      /\ c.goal.at = "else" /\ g <= Len(R) => R[g].opcode = "if"
    BY DEF GoalNear
  <2> HIDE DEF g, n
  <2>1. g \in 2 .. n /\ g - 1 \in 1 .. n - 1 /\ g \in 2 .. Len(R) + 1  BY <1>1, <1>2
  <2>3. ASSUME g <= Len(R) PROVE R[g] = S[g]  BY <1>1, <2>1, <2>3
  <2> QED BY <1>2, <2>1, <2>3, <1>1
<1> QED BY <1>4, <1>1, <1>2 DEF TopScope

LEMMA GoalAlike ==
  ASSUME NEW c, NEW d, NEW R, NEW Q, GoalNear(c, R), Alike(R, Q), Len(R) \in Nat,
         TopScope(Q).isPolymorphic = TopScope(R).isPolymorphic, d.goal = c.goal
  PROVE  GoalNear(d, Q)
<1> DEFINE g == c.goal.depth
           n == Len(R)
<1>1. Len(Q) = n /\ TopScope(Q) = Q[n] /\ TopScope(R) = R[n]
      /\ (\A k \in 1 .. n : Q[k].opcode = R[k].opcode)
      /\ \A k \in 1 .. n - 1 : Q[k].isPolymorphic = R[k].isPolymorphic
  BY DEF Alike, TopScope
<1> SUFFICES ASSUME g # 0
             PROVE  /\ g \in 2 .. n + 1 /\ ~Q[g - 1].isPolymorphic
                    /\ c.goal.at \in {"end", "else"}
                    /\ c.goal.at = "else" /\ g <= n => Q[g].opcode = "if"
  BY <1>1 DEF GoalNear
<1>2. /\ g \in 2 .. n + 1 /\ ~R[g - 1].isPolymorphic
      /\ c.goal.at \in {"end", "else"}
      /\ c.goal.at = "else" /\ g <= n => R[g].opcode = "if"
  BY DEF GoalNear
<1> HIDE DEF g, n
<1> QED BY <1>1, <1>2 DEF n

\* A block that is no if ends with its results on the outer block's operands.
LEMMA ClosedWithResults ==
  ASSUME NEW c, NEW R, Good(c, R), ~c.error, NEW S, S = Scopes(c), Outer(S, R),
         GoalIsOpen(c, S), TopScope(S).opcode # "if", NEW rets \in Seq(ValueTypes),
         TopIs(R, Types(c), TopScope(R).types \o rets), NEW vs, Len(c.block) = Len(S)
  PROVE  Settled(Resume(Eval([c EXCEPT !.block = Front(c.block)], 0, rets, vs),
                        Len(c.block), "end"))
<1> DEFINE outer == [c EXCEPT !.block = Front(c.block)]
           have == Block(outer).types
           e == Eval(outer, 0, rets, vs)
           k == Len(c.block)
           d == Resume(e, k, "end")
<1>1. Closed(c, outer, R)  BY BlockClosed
<1> HIDE DEF outer
<1>2. Good(outer, Scopes(outer)) /\ ~outer.error /\ Scopes(outer) = R
      /\ SameFrame(c, outer) /\ outer.running = c.running /\ outer.goal = c.goal
  BY <1>1 DEF Closed
<1>3. Block(outer).types = TopScope(R).types /\ TopScope(R).types \in Seq(ValueTypes)
      /\ TopScope(R).isPolymorphic = Block(outer).isPolymorphic
      /\ Len(R) \in Nat /\ Len(R) >= 1 /\ R \in Seq(ScopeSet)
  <2>1. Block(outer).types = TopScope(R).types
        /\ IsStackPolymorphic(outer) = TopScope(R).isPolymorphic
    BY <1>2, BlockTop
  <2>2. R \in Seq(ScopeSet) /\ R # <<>>  BY DEF Outer
  <2>3. TopScope(R) \in ScopeSet /\ Len(R) \in Nat /\ Len(R) >= 1  BY <2>2, TopTyped
  <2> QED BY <2>1, <2>2, <2>3 DEF ScopeSet, IsStackPolymorphic
<1>4. SubSeq(have, 1, Len(have) - Min({0, Len(have)})) = have
  <2>1. Len(have) \in Nat /\ have \in Seq(ValueTypes)  BY <1>3
  <2> HIDE DEF have
  <2> QED BY <2>1, MinOfTwo
<1>5. Retyped(outer, e, have \o rets)
  <2>2. Retyped(outer, e, SubSeq(have, 1, Len(have) - Min({0, Len(have)})) \o rets)
    BY <1>2, Evaluated
  <2> QED BY <1>4, <2>2
<1> HIDE DEF e
<1> DEFINE Q == Scopes(e)
<1>6. /\ IsState(e) /\ e.error = outer.error
      /\ Good(e, Q) /\ Alike(R, Q) /\ SameFrame(outer, e)
      /\ Block(e).isPolymorphic = Block(outer).isPolymorphic
      /\ Block(e).types = have \o rets
      /\ e.running = outer.running /\ e.goal = outer.goal
  BY <1>2, <1>5 DEF Retyped
<1>7. ~e.error  BY SMTT(40), <1>2, <1>6
<1>8. TopScope(Q).isPolymorphic = TopScope(R).isPolymorphic
      /\ TopScope(Q).blockStackIndex = TopScope(R).blockStackIndex
      /\ Len(Q) = Len(R)
  BY SMTT(40), <1>6, <1>7, BlockTop, <1>3 DEF Alike, TopScope, IsStackPolymorphic
<1>10. TopIs(Q, Types(e), Block(e).types)
  <2>1. Block(e).types = TopScope(R).types \o rets  BY <1>3, <1>6
  <2> HIDE DEF Q, have
  <2> QED BY <1>8, <2>1, <1>2, <1>6 DEF TopIs, SameFrame, Types
<1>11. GoalNear(c, R) /\ ~(c.goal.depth = k /\ c.goal.at = "else")  BY GoalOuter
<1>12. GoalNear(e, Q)
  <2> HIDE DEF Q
  <2> QED BY SMTT(40), <1>3, <1>6, <1>8, <1>11, GoalAlike, <1>2
<1>13. k = Len(Q) + 1 /\ k # 0
  <2> HIDE DEF Q
  <2> QED BY <1>3, <1>8 DEF Outer
<1>14. e.goal.depth = k => ~TopScope(Q).isPolymorphic
  <2> SUFFICES ASSUME e.goal.depth = k PROVE ~Q[Len(Q)].isPolymorphic
    BY DEF TopScope
  <2> QED BY <1>12, <1>13, <1>3, <1>8 DEF GoalNear
<1>15. Back(e, d, k, "end")
  <2> HIDE DEF Q, k
  <2> QED BY <1>6, <1>13, <1>14, Resumed DEF Q
<1> HIDE DEF d
<1>16. /\ Good(d, Scopes(d)) /\ d.error = e.error /\ Scopes(d) = Q /\ SameFrame(e, d)
       /\ d.goal = e.goal \/ d.goal.depth = 0
       /\ ~(d.goal.depth = k /\ d.goal.at = "end")
  BY <1>7, <1>15 DEF Back
<1>17. GoalNear(d, Q)  BY <1>12, <1>16, GoalKept
<1>18. d.goal.depth # k
  <2> SUFFICES ASSUME d.goal.depth = k PROVE FALSE
    OBVIOUS
  <2> QED BY <1>11, <1>16, <1>2, <1>6, <1>13, <1>17 DEF GoalNear
<1>19. GoalIsOpen(d, Q)
  <2> HIDE DEF Q
  <2> QED BY SMTT(40), <1>3, <1>8, <1>13, <1>17, <1>18, NoGoalHere
<1>20. Block(d).types = Block(e).types /\ Types(d) = Types(e)
  BY SMTT(40), <1>16, <1>7, <1>6, BlockTop DEF SameFrame, Types
<1>21. Settled(d)  BY <1>10, <1>16, <1>20, <1>19 DEF Sound, Settled
<1> QED BY <1>21 DEF d, e, outer, k

\* What the records say of the stack up to where the operands of the outer
\* block end, and up to where the parameters of the scope do.
LEMMA RecordsBelow ==
  ASSUME NEW p \in ScopeSet, NEW s \in ScopeSet, NEW T, Records(T, p, s), NEW U
  PROVE  /\ Len(U) = s.exitStackIndex /\ (\A i \in 1 .. Len(U) : U[i] = T[i]) =>
               Len(U) = p.blockStackIndex + Len(p.types)
               /\ HasTypes(U, p.blockStackIndex, p.types)
         /\ Len(U) = s.stackIndex /\ (\A i \in 1 .. Len(U) : U[i] = T[i]) =>
               Len(U) = p.blockStackIndex + Len(p.types \o s.type.params)
               /\ HasTypes(U, p.blockStackIndex, p.types \o s.type.params)
<1> DEFINE B == p.blockStackIndex
           xs == p.types
           ps == s.type.params
           us == xs \o ps
<1>1. B \in Nat /\ xs \in Seq(ValueTypes) /\ s.type \in FuncTypes  BY DEF ScopeSet
<1>2. ps \in Seq(ValueTypes)  BY <1>1 DEF FuncTypes, ValueTypes
<1>3. /\ Len(us) = Len(xs) + Len(ps) /\ Len(xs) \in Nat /\ Len(ps) \in Nat
      /\ \A j \in 1 .. Len(xs) : us[j] = xs[j]
      /\ \A j \in 1 .. Len(ps) : us[Len(xs) + j] = ps[j]
  BY ZenonT(60), <1>1, <1>2, Joined
<1>4. /\ s.exitStackIndex = B + Len(xs) /\ HasTypes(T, B, xs)
      /\ s.stackIndex = s.exitStackIndex + Len(ps)
      /\ HasTypes(T, s.exitStackIndex, ps)
  BY DEF Records
<1> HIDE DEF B, xs, ps, us
<1> DEFINE m == Len(xs)
           n == Len(ps)
<1>5. ASSUME Len(U) = s.exitStackIndex, \A i \in 1 .. Len(U) : U[i] = T[i]
      PROVE  Len(U) = B + m /\ HasTypes(U, B, xs)
  <2>1. Len(U) = B + m  BY <1>4, <1>5
  <2>2. \A j \in 1 .. m : B + j \in 1 .. Len(U)
    <3> HIDE DEF m
    <3> QED BY <1>1, <1>3, <2>1 DEF m
  <2> QED BY <1>4, <1>5, <2>1, <2>2 DEF HasTypes
<1>6. ASSUME Len(U) = s.stackIndex, \A i \in 1 .. Len(U) : U[i] = T[i]
      PROVE  Len(U) = B + Len(us) /\ HasTypes(U, B, us)
  <2>1. Len(U) = B + m + n /\ Len(us) = m + n /\ m \in Nat /\ n \in Nat  BY <1>3, <1>4, <1>6
  <2>2. ASSUME NEW j \in 1 .. Len(us) PROVE U[B + j] = us[j]
    <3>1. B + j \in 1 .. Len(U)
      <4> HIDE DEF m, n
      <4> QED BY <1>1, <2>1
    <3>2. CASE j <= m
      <4>1. j \in 1 .. m
        <5> HIDE DEF m, n
        <5> QED BY <2>1, <3>2
      <4> QED BY <1>3, <1>4, <1>6, <3>1, <4>1 DEF HasTypes
    <3>3. CASE ~(j <= m)
      <4> DEFINE i == j - m
      <4>1. i \in 1 .. n /\ j = m + i /\ B + j = B + m + i
        <5> HIDE DEF m, n
        <5> QED BY <1>1, <2>1, <3>3
      <4> HIDE DEF i
      <4> QED BY <1>6, <3>1, <1>4, <4>1, <1>3 DEF HasTypes
    <3> QED BY <3>2, <3>3
  <2>3. Len(U) = B + Len(us)
    <3> HIDE DEF m, n
    <3> QED BY <1>1, <2>1
  <2> QED BY <2>2, <2>3 DEF HasTypes
<1> QED BY <1>5, <1>6 DEF B, xs, ps, us, m

\* The stack of a scope that has been left, cut where the outer operands end.
LEMMA ExitCut ==
  ASSUME NEW c, NEW S, Good(c, S), ~c.error, NEW R, Outer(S, R),
         Len(c.stack) = TopScope(S).blockStackIndex, NEW d
  PROVE  /\ d = [c EXCEPT !.stack = SubSeq(c.stack, 1, TopScope(S).exitStackIndex)] =>
               Good(d, R) /\ ~d.error /\ TopIs(R, Types(d), TopScope(R).types)
         /\ d = [c EXCEPT !.stack = SubSeq(c.stack, 1, TopScope(S).stackIndex)] =>
               /\ Good(d, R) /\ ~d.error
               /\ TopIs(R, Types(d), TopScope(R).types \o TopScope(S).type.params)
<1> DEFINE p == TopScope(R)
           s == TopScope(S)
<1>1. S \in Seq(ScopeSet) /\ Nested(S, Types(c), c.stackFirstDynamicIndex)
      /\ c.stack \in Seq(Items)
  BY Bodies
<1>2. Closing(S, R, Types(c))  BY <1>1, ClosingIs
<1>3. p \in ScopeSet /\ s \in ScopeSet  BY DEF Outer
<1>4. ASSUME NEW n \in Nat, p.blockStackIndex <= n, n <= s.blockStackIndex,
             d = [c EXCEPT !.stack = SubSeq(c.stack, 1, n)]
      PROVE  /\ Good(d, R) /\ ~d.error /\ Len(Types(d)) = n
             /\ \A i \in 1 .. n : Types(d)[i] = Types(c)[i]
  <2>1. n <= Len(c.stack) /\ Len(c.stack) \in Nat  BY <1>1, <1>4
  <2>2. Good(d, R) /\ ~d.error  BY <1>4, <2>1, StackCut
  <2>5. d.stack \in Seq(Items) /\ Len(d.stack) = n /\ \A i \in 1 .. n : d.stack[i] = c.stack[i]
    BY <1>1, <2>1, <1>4 DEF Fields, Good, IsState
  <2>7. \A i \in 1 .. n : Types(c)[i] = c.stack[i].type  BY <1>1, TypesSeq, <2>1
  <2> QED BY <2>2, <2>5, <2>7, TypesSeq
<1> HIDE DEF p, s
<1>5. ~p.isPolymorphic => Records(Types(c), p, s)  BY <1>2 DEF Closing, p, s
<1>6. ASSUME d = [c EXCEPT !.stack = SubSeq(c.stack, 1, s.exitStackIndex)]
      PROVE  Good(d, R) /\ ~d.error /\ TopIs(R, Types(d), p.types)
  <2>1. /\ Good(d, R) /\ ~d.error /\ Len(Types(d)) = s.exitStackIndex
        /\ \A i \in 1 .. s.exitStackIndex : Types(d)[i] = Types(c)[i]
    <3>1. s.exitStackIndex \in Nat /\ p.blockStackIndex <= s.exitStackIndex
          /\ s.exitStackIndex <= s.blockStackIndex
      BY <1>2 DEF Closing, p, s
    <3> QED BY <1>4, <1>6, <3>1
  <2>2. ASSUME ~p.isPolymorphic
        PROVE  Len(Types(d)) = p.blockStackIndex + Len(p.types)
               /\ HasTypes(Types(d), p.blockStackIndex, p.types)
    <3> DEFINE T == Types(c)
               U == Types(d)
    <3>1. Records(T, p, s)  BY <1>5, <2>2
    <3>2. Len(U) = s.exitStackIndex /\ \A i \in 1 .. Len(U) : U[i] = T[i]  BY <2>1
    <3> HIDE DEF T, U
    <3>3. Len(U) = p.blockStackIndex + Len(p.types) /\ HasTypes(U, p.blockStackIndex, p.types)
      BY ZenonT(60), <1>3, <3>1, <3>2, RecordsBelow
    <3> QED BY <3>3 DEF U
  <2> QED BY <2>1, <2>2 DEF TopIs, p
<1>7. ASSUME d = [c EXCEPT !.stack = SubSeq(c.stack, 1, s.stackIndex)]
      PROVE  Good(d, R) /\ ~d.error /\ TopIs(R, Types(d), p.types \o s.type.params)
  <2>1. /\ Good(d, R) /\ ~d.error /\ Len(Types(d)) = s.stackIndex
        /\ \A i \in 1 .. s.stackIndex : Types(d)[i] = Types(c)[i]
    <3>1. s.stackIndex \in Nat /\ p.blockStackIndex <= s.stackIndex
          /\ s.stackIndex <= s.blockStackIndex
      BY <1>2 DEF Closing, p, s
    <3> QED BY <1>4, <1>7, <3>1
  <2>2. ASSUME ~p.isPolymorphic
        PROVE  Len(Types(d)) = p.blockStackIndex + Len(p.types \o s.type.params)
               /\ HasTypes(Types(d), p.blockStackIndex, p.types \o s.type.params)
    <3> DEFINE T == Types(c)
               U == Types(d)
    <3>1. Records(T, p, s)  BY <1>5, <2>2
    <3>2. Len(U) = s.stackIndex /\ \A i \in 1 .. Len(U) : U[i] = T[i]  BY <2>1
    <3> HIDE DEF T, U
    <3>3. Len(U) = p.blockStackIndex + Len(p.types \o s.type.params)
         /\ HasTypes(U, p.blockStackIndex, p.types \o s.type.params)
      BY <1>3, <3>1, <3>2, RecordsBelow
    <3> QED BY <3>3 DEF U
  <2> QED BY <2>1, <2>2 DEF TopIs, p
<1> QED BY <1>6, <1>7 DEF p, s

LEMMA FailedSettled ==
  ASSUME NEW c, IsState(c), c.error
  PROVE  Settled(c) /\ Settled(Fail(c))
<1>1. ASSUME NEW d, IsState(d), d.error PROVE Settled(d)
  BY <1>1 DEF Settled, Sound, Good
<1> QED BY <1>1, Fails

\* The records of the innermost scope, as the block has them.
LEMMA BlockRecords ==
  ASSUME NEW c, Good(c, Scopes(c)), ~c.error
  PROVE  /\ Block(c).exitStackIndex = TopScope(Scopes(c)).exitStackIndex
         /\ Block(c).stackIndex = TopScope(Scopes(c)).stackIndex
         /\ Block(c).type = TopScope(Scopes(c)).type /\ Block(c).type \in FuncTypes
         /\ Block(c).type.rets \in Seq(ValueTypes) /\ Block(c).type.params \in Seq(ValueTypes)
<1>2. TopScope(Scopes(c)) \in ScopeSet  BY Bodies, TopTyped
<1> QED BY BlockTop, <1>2 DEF ScopeOf, FuncTypes, ValueTypes, ScopeSet

LEMMA BlockEnds ==
  ASSUME NEW c, Sound(c), ~c.error, Len(Scopes(c)) >= 2, Completes(c),
         Block(c).opcode # "if"
  PROVE  Settled(EndBlock(c))
<1> DEFINE S == Scopes(c)
           R == Front(S)
           s == Block(c)
           l == LeaveScope(c)
           cut == [l EXCEPT !.stack = SubSeq(l.stack, 1, s.exitStackIndex)]
           r == PushBlockResults(cut, s.type)
           rets == s.type.rets
           d == CloseBlock(r, s, Operands(c))
<1>1. EndBlock(c) = d  BY DEF EndBlock, PushScopeResults
<1>2. Good(c, S) /\ S \in Seq(ScopeSet)  BY Bodies DEF Sound
<1>3. Outer(S, R)  BY <1>2, OuterIs
<1>4. s.exitStackIndex = TopScope(S).exitStackIndex /\ rets \in Seq(ValueTypes)
      /\ s.opcode = TopScope(S).opcode
  BY <1>2, BlockRecords, BlockTop
<1>5. LeftBehind(c, l)  BY ScopeIsLeft
<1> HIDE DEF R, s, l
<1>7. IsState(cut) /\ cut.error = l.error /\ cut.block = l.block /\ cut.goal = l.goal
  BY <1>5 DEF IsState, Fields, LeftBehind
<1>8. ASSUME NEW Q, Good(cut, Q) PROVE Grown(cut, r, rets, Len(rets), Q)
  <2> HIDE DEF cut
  <2> QED BY <1>4, <1>8, PushedResults
<1>9. CASE r.error
  <2>2. IsState(r)
    <3>1. CASE cut.error
      <4>1. Good(cut, S)  BY <1>7, <3>1 DEF Good
      <4> QED BY <1>8, <4>1 DEF Grown, Good
    <3>2. CASE ~cut.error
      <4>3. Good(cut, R)
        <5> HIDE DEF cut
        <5> QED BY <1>3, <1>4, ExitCut, <1>5, <1>7, <3>2 DEF Sound, cut, LeftBehind
      <4> HIDE DEF cut
      <4> QED BY <1>8, <4>3 DEF Grown, Good
    <3> QED BY <3>1, <3>2
  <2> HIDE DEF r
  <2> QED BY <1>1, <1>9, <2>2, FailedSettled DEF CloseBlock
<1>10. CASE ~r.error
  <2>1. ~l.error
    <3>1. CASE cut.error
      <4> QED BY <1>8, <1>10, <3>1, <1>7 DEF Grown, Follows, Good
    <3>2. CASE ~cut.error  BY <1>7, <3>2
    <3> QED BY SMTT(40), <3>1, <3>2
  <2>2. Sound(l) /\ Good(l, S) /\ Scopes(l) = S /\ Len(l.stack) = TopScope(S).blockStackIndex
    BY <1>5, <2>1 DEF LeftBehind, Sound
  <2> HIDE DEF S
  <2>4. Good(cut, R) /\ ~cut.error /\ TopIs(R, Types(cut), TopScope(R).types)
    <3> HIDE DEF cut
    <3> QED BY SMTT(40), <1>3, <1>4, <2>1, <2>2, ExitCut DEF cut
  <2>5. Scopes(cut) = S /\ GoalIsOpen(cut, S)
    BY SMTT(40), <1>7, <2>2, <2>1 DEF Scopes, GoalIsOpen, Sound
  <2> HIDE DEF cut
  <2>6. Grown(cut, r, rets, Len(rets), R)  BY <1>8, <2>4
  <2> HIDE DEF r
  <2>7. /\ Good(r, R) /\ Follows(cut, r)  BY <2>6 DEF Grown
  <2>8. Scopes(r) = S /\ r.goal = cut.goal
    BY SMTT(40), <1>10, <2>5, <2>7, SameScopes DEF Follows, Same
  <2>9. GoalIsOpen(r, S)  BY <2>5, <2>8 DEF GoalIsOpen
  <2>10. TopScope(R).types \in Seq(ValueTypes)  BY <1>3 DEF Outer, ScopeSet
  <2>11. TopIs(R, Types(r), TopScope(R).types \o rets)
    <3> HIDE DEF rets
    <3> QED BY <1>4, <1>10, <2>4, <2>6, <2>10, GrownAfter
  <2>12. Len(r.block) = Len(S)
    <3>1. BlocksHeld(r, R)  BY <1>10, <2>7, Bodies
    <3>2. PICK B : r.block \in Seq(B)  BY <3>1 DEF BlocksHeld
    <3> DEFINE n == Len(r.block)
    <3> HIDE DEF n
    <3> QED BY <2>8, <3>2 DEF n, Scopes
  <2>13. d = Resume(Eval([r EXCEPT !.block = Front(r.block)], 0, rets, Operands(c)),
                    Len(r.block), "end")
    BY <1>10 DEF CloseBlock, s
  <2>14. TopScope(S).opcode # "if"  BY <1>4 DEF s
  <2> HIDE DEF d, rets
  <2>15. Settled(d)
    BY <1>3, <1>4, <1>10, <2>7, <2>8, <2>9, <2>11, <2>12, <2>13, <2>14, ClosedWithResults
  <2> QED BY <1>1, <2>15
<1> QED BY <1>9, <1>10

LEMMA NoResults ==
  ASSUME NEW p \in ScopeSet, NEW s \in ScopeSet, NEW T, Records(T, p, s),
         Len(T) = s.blockStackIndex, s.type.params = <<>>, s.type.rets = <<>>
  PROVE  Len(T) = p.blockStackIndex + Len(p.types)
         /\ HasTypes(T, p.blockStackIndex, p.types)
<1> QED BY DEF Records, ScopeSet

LEMMA IfLeft ==
  ASSUME NEW c, Sound(c), ~c.error, Len(Scopes(c)) >= 2, Completes(c),
         Block(c).opcode = "if"
  PROVE  LET e == EndBlock(c) IN IsState(e) /\ (~e.error => Halfway(e, Block(c)))
<1> DEFINE S == Scopes(c)
           R == Front(S)
           s == Block(c)
           l == LeaveScope(c)
           e == EndBlock(c)
<1>1. e = CloseBlock(l, s, Operands(c))  BY DEF EndBlock
<1>2. Good(c, S) /\ S \in Seq(ScopeSet)  BY Bodies DEF Sound
<1>3. Outer(S, R)  BY <1>2, OuterIs
<1>4. s.stackIndex = TopScope(S).stackIndex /\ s.type = TopScope(S).type
      /\ s.type \in FuncTypes
  BY <1>2, BlockRecords
<1>5. LeftBehind(c, l)  BY ScopeIsLeft
<1> HIDE DEF R, l
<1>6. DOMAIN l = Fields /\ IsState(l)  BY <1>5 DEF LeftBehind, IsState
<1>7. CASE l.error
  <2>1. e = Fail(l)  BY <1>1, <1>7 DEF CloseBlock
  <2> HIDE DEF e
  <2>2. IsState(e) /\ e.error  BY <1>6, <2>1, Fails
  <2> QED BY <2>2 DEF e
<1>8. CASE ~l.error
  <2>1. e = [l EXCEPT !.block = Front(l.block)]  BY <1>1, <1>8 DEF CloseBlock
  <2>2. Sound(l) /\ Good(l, S) /\ Scopes(l) = S /\ Len(l.stack) = TopScope(S).blockStackIndex
        /\ GoalIsOpen(l, S)
    BY <1>5, <1>8 DEF LeftBehind, Sound
  <2> HIDE DEF S, s, e
  <2>3. /\ Nested(S, Types(l), l.stackFirstDynamicIndex) /\ l.stack \in Seq(Items)
        /\ S \in Seq(ScopeSet)
    BY <1>8, <2>2, Bodies
  <2>4. Closing(S, R, Types(l))  BY <1>3, <2>3, ClosingIs
  <2>5. Good(l, R)
    <3> DEFINE n == Len(l.stack)
    <3>1. n \in Nat /\ TopScope(R).blockStackIndex <= n /\ n <= n
      BY <2>2, <2>3, <2>4 DEF Closing
    <3>2. SubSeq(l.stack, 1, n) = l.stack  BY <2>3
    <3> DEFINE m == [l EXCEPT !.stack = SubSeq(l.stack, 1, n)]
    <3> HIDE DEF n
    <3>3. Good(m, R) /\ ~m.error
      <4> HIDE DEF m
      <4> QED BY <1>3, <1>8, <2>2, <3>1, StackCut DEF m, n
    <3>4. /\ m.stack = l.stack /\ m.block = l.block /\ m.running = l.running
          /\ m.goal = l.goal /\ m.error = l.error /\ SameFrame(m, l)
      BY <1>6, <3>2 DEF Fields, SameFrame
    <3> HIDE DEF m
    <3> QED BY SMTT(40), <1>6, <3>3, <3>4, Regarded, Bodies, AlikeSelf DEF BlocksHeld, RunsLive
  <2>7. Good(e, Scopes(e)) /\ ~e.error /\ Scopes(e) = R /\ e.stack = l.stack
        /\ e.goal = l.goal
    BY SMTT(40), <1>3, <1>8, <2>1, <2>2, <2>5, BlockClosed DEF Closed, SameFrame
  <2>8. GoalNear(e, Scopes(e))  BY SMTT(40), <1>3, <2>2, GoalOuter, <2>7, GoalKept
  <2> DEFINE cut == [l EXCEPT !.stack = SubSeq(l.stack, 1, TopScope(S).stackIndex)]
             x == [e EXCEPT !.stack = SubSeq(e.stack, 1, s.stackIndex)]
  <2>9. /\ Good(cut, R) /\ ~cut.error
        /\ TopIs(R, Types(cut), TopScope(R).types \o TopScope(S).type.params)
    <3> HIDE DEF cut
    <3> QED BY <1>3, <1>8, <2>2, ExitCut DEF cut
  <2>10. cut.block = l.block /\ cut.goal = l.goal  BY <1>6 DEF Fields
  <2>11. x = [cut EXCEPT !.block = Front(cut.block)]
    <3>1. x = [e EXCEPT !.stack = SubSeq(l.stack, 1, TopScope(S).stackIndex)]
      BY <1>4, <2>7 DEF S, s
    <3> QED BY <1>6, <2>1, <2>10, <3>1 DEF Fields
  <2> HIDE DEF cut
  <2>13. Closed(cut, x, R)
    <3> HIDE DEF x
    <3> QED BY <1>3, <2>9, <2>11, BlockClosed, <2>2, <2>10 DEF Scopes
  <2> HIDE DEF x
  <2>14. Good(x, Scopes(x)) /\ ~x.error /\ Scopes(x) = R /\ x.goal = e.goal
         /\ Types(x) = Types(cut)
    BY <2>13, <2>7, <2>10 DEF Closed, SameFrame, Types
  <2>15. TopIs(Scopes(x), Types(x), TopScope(Scopes(x)).types \o s.type.params)
    BY <1>4, <2>9, <2>14 DEF S, s
  <2>16. ASSUME s.type.params = <<>>, s.type.rets = <<>>
         PROVE  TopIs(Scopes(e), Types(e), Block(e).types)
    <3>5. TopScope(S).type.params = <<>> /\ TopScope(S).type.rets = <<>>
      BY <1>4, <2>16 DEF S, s
    <3>6. ~TopScope(R).isPolymorphic => Records(Types(l), TopScope(R), TopScope(S))
      BY <2>4 DEF Closing
    <3>7. ~TopScope(R).isPolymorphic =>
             /\ Len(Types(l)) = TopScope(R).blockStackIndex + Len(TopScope(R).types)
             /\ HasTypes(Types(l), TopScope(R).blockStackIndex, TopScope(R).types)
      BY SMTT(40), <3>5, <3>6, NoResults, <2>2, <2>3, TypesSeq, <1>3 DEF Outer
    <3> QED BY <2>7, <3>7, BlockTop DEF TopIs, Types
  <2>17. Halfway(e, s)  BY <1>4, <2>7, <2>8, <2>14, <2>15, <2>16 DEF s, Halfway, x
  <2> QED BY <2>17, <2>7 DEF e, s, Good
<1> QED BY <1>7, <1>8

LEMMA ElseResumed ==
  ASSUME NEW x, NEW b, NEW type, Opened(x, b, type, "else"), Good(x, Scopes(x)),
         GoalNear(x, Scopes(x)), NEW k, k = Len(Scopes(x)) + 1, ~x.error
  PROVE  ElseOpen(Resume(b, k, "else"), type)
<1> DEFINE S == Scopes(x)
           Q == Scopes(b)
           n == Len(S)
           d == Resume(b, k, "else")
           g == b.goal.depth
<1>1. n \in Nat /\ n >= 1 /\ k = n + 1 /\ k # 0  BY BlockTop
<1>2. Good(b, Q) /\ IsState(b)  BY DEF Opened, Good
<1>3. ASSUME ~b.error
      PROVE  /\ TopIs(Q, Types(b), Block(b).types) /\ Block(b).types = type.params
             /\ Block(b).type = type /\ Block(b).opcode = "else" /\ Len(Q) = n + 1
             /\ \A i \in 1 .. n : /\ Q[i].isPolymorphic = S[i].isPolymorphic
                                  /\ Q[i].opcode = S[i].opcode
             /\ Block(b).isPolymorphic = TopScope(S).isPolymorphic
             /\ b.goal = x.goal
  BY <1>3 DEF Opened
<1>4. ASSUME ~b.error, g # 0
      PROVE  /\ g \in 2 .. n + 1 /\ ~S[g - 1].isPolymorphic
             /\ b.goal.at \in {"end", "else"}
             /\ b.goal.at = "else" /\ g <= n => S[g].opcode = "if"
  BY <1>3, <1>4 DEF GoalNear
<1>5. ~b.error /\ g = k => ~TopScope(Q).isPolymorphic
  <2> SUFFICES ASSUME ~b.error, g = k PROVE ~TopScope(Q).isPolymorphic
    OBVIOUS
  <2> QED BY <1>3, <1>2, BlockTop, <1>1, <1>4 DEF IsStackPolymorphic, TopScope
<1> HIDE DEF Q, S, n
<1>6. Back(b, d, k, "else")  BY <1>1, <1>2, <1>5, Resumed DEF Q
<1> HIDE DEF d
<1>7. IsState(d) /\ d.error = b.error  BY <1>6 DEF Back, Good
<1>8. CASE b.error
  <2>1. d.error  BY <1>7, <1>8
  <2> QED BY <1>7, <2>1, FailedSettled DEF d, ElseOpen
<1>9. CASE ~b.error
  <2>1. /\ Good(d, Q) /\ Scopes(d) = Q /\ SameFrame(b, d) /\ ~d.error
        /\ d.goal = b.goal \/ d.goal.depth = 0
        /\ ~(d.goal.depth = k /\ d.goal.at = "else")
    BY <1>6, <1>7, <1>9 DEF Back, Q
  <2>2. GoalIsOpen(d, Q)
    <3> SUFFICES ASSUME d.goal.depth # 0
                 PROVE  /\ g \in 2 .. Len(Q) /\ ~Q[g - 1].isPolymorphic
                        /\ d.goal = b.goal
                        /\ b.goal.at \in {"end", "else"}
                        /\ b.goal.at = "else" => Q[g].opcode = "if"
      BY DEF GoalIsOpen
    <3>1. d.goal = b.goal /\ g # 0 /\ ~(g = k /\ b.goal.at = "else")  BY <2>1
    <3>2. /\ g \in 2 .. n + 1 /\ ~S[g - 1].isPolymorphic
          /\ b.goal.at \in {"end", "else"}
          /\ b.goal.at = "else" /\ g <= n => S[g].opcode = "if"
      BY <1>4, <1>9, <3>1
    <3> HIDE DEF g
    <3> QED BY <3>1, <3>2, <1>3, <1>9, <1>1
  <2>3. Types(d) = Types(b)  BY <2>1 DEF SameFrame, Types
  <2>4. /\ Block(d).types = Block(b).types /\ Block(d).type = Block(b).type
        /\ Block(d).opcode = Block(b).opcode
    BY <2>1, BlockTop, <1>2, <1>9 DEF Q
  <2>5. Settled(d)  BY <1>3, <1>9, <2>1, <2>3, <2>4, <2>2 DEF Settled, Sound
  <2> QED BY SMTT(40), <1>3, <1>9, <2>4, <2>5, <1>1, <2>1 DEF d, ElseOpen
<1> QED BY <1>8, <1>9

LEMMA ElseBegins ==
  ASSUME NEW e, IsState(e), NEW s, ~e.error => Halfway(e, s)
  PROVE  ElseOpen(CompileElseBlock(e, s), s.type)
<1> DEFINE d == CompileElseBlock(e, s)
           x == [e EXCEPT !.stack = SubSeq(e.stack, 1, s.stackIndex)]
           b == BeginBlock(x, s.type, "else")
           k == Len(e.block) + 1
<1>1. CASE e.error  BY <1>1, FailedSettled DEF CompileElseBlock, ElseOpen
<1>2. CASE ~e.error
  <2>1. d = Resume(b, k, "else")  BY <1>2 DEF CompileElseBlock
  <2> HIDE DEF d
  <2>2. /\ Good(e, Scopes(e)) /\ GoalNear(e, Scopes(e)) /\ s.type \in FuncTypes
        /\ Good(x, Scopes(x)) /\ ~x.error /\ Scopes(x) = Scopes(e) /\ x.goal = e.goal
        /\ TopIs(Scopes(x), Types(x), TopScope(Scopes(x)).types \o s.type.params)
    BY <1>2 DEF Halfway
  <2> HIDE DEF x
  <2>3. Opening(x, s.type, "else", TopScope(Scopes(x)).types)
    <3>2. TopScope(Scopes(x)) \in ScopeSet  BY <2>2, Bodies, TopTyped
    <3> QED BY <2>2, BlockTop, <3>2 DEF Opening, ScopeSet
  <2>5. Opened(x, b, s.type, "else")  BY <2>2, <2>3, Began DEF Good
  <2>6. k = Len(Scopes(x)) + 1  BY <1>2, <2>2, BlockTop
  <2>7. GoalNear(x, Scopes(x))  BY <2>2, GoalKept
  <2> HIDE DEF b, k
  <2>8. ElseOpen(d, s.type)  BY SMTT(40), <2>1, <2>2, <2>5, <2>6, <2>7, ElseResumed
  <2> QED BY <2>8 DEF d
<1> QED BY <1>1, <1>2

LEMMA ComesBack ==
  ASSUME NEW c, NEW S, S = Scopes(c), Good(c, S), ~c.error, GoalNear(c, S), NEW k,
         k = Len(S) + 1, NEW at
  PROVE  LET d == Resume(c, k, at)
         IN /\ Back(c, d, k, at) /\ ~d.error /\ Scopes(d) = S /\ Good(d, S)
            /\ GoalNear(d, S) /\ Types(d) = Types(c) /\ Block(d).types = Block(c).types
<1> DEFINE d == Resume(c, k, at)
<1>3. Back(c, d, k, at)  BY Resumed, BlockTop DEF GoalNear, TopScope
<1> HIDE DEF d
<1>4. /\ Good(d, Scopes(d)) /\ d.error = c.error /\ Scopes(d) = S /\ SameFrame(c, d)
      /\ d.goal = c.goal \/ d.goal.depth = 0
  BY <1>3 DEF Back
<1>5. ~d.error  BY <1>4
<1> QED BY <1>3, <1>4, <1>5, GoalKept, BlockTop DEF d, SameFrame, Types

\* An if without else and without results: the run is back in either case.
LEMMA IfWithoutElse ==
  ASSUME NEW c, Good(c, Scopes(c)), ~c.error, GoalNear(c, Scopes(c)),
         TopIs(Scopes(c), Types(c), Block(c).types), NEW k, k = Len(c.block) + 1
  PROVE  Settled(Resume(Resume(c, k, "end"), k, "else"))
<1> DEFINE S == Scopes(c)
           e == Resume(c, k, "end")
           d == Resume(e, k, "else")
<1>1. k = Len(S) + 1 /\ Len(S) \in Nat /\ k # 0  BY BlockTop
<1>2. /\ Back(c, e, k, "end") /\ ~e.error /\ Scopes(e) = S /\ Good(e, S)
      /\ GoalNear(e, S) /\ Types(e) = Types(c) /\ Block(e).types = Block(c).types
  <2> HIDE DEF S
  <2> QED BY <1>1, ComesBack DEF S
<1> HIDE DEF e
<1>3. /\ Back(e, d, k, "else") /\ ~d.error /\ Scopes(d) = S /\ Good(d, S)
      /\ GoalNear(d, S) /\ Types(d) = Types(e) /\ Block(d).types = Block(e).types
  BY SMTT(40), <1>1, <1>2, ComesBack
<1> HIDE DEF d, S
<1>4. d.goal.depth # k
  <2> SUFFICES ASSUME d.goal.depth = k PROVE FALSE
    OBVIOUS
  <2> QED BY <1>2, <1>1, <1>3 DEF Back, GoalNear
<1>7. Settled(d)  BY <1>3, <1>1, <1>4, NoGoalHere, <1>2 DEF Settled, Sound, S
<1> QED BY <1>7 DEF d, e

\* A block that is not the function's can end.
LEMMA BlockInside ==
  ASSUME IInv, ~o.error, ~o.done, Len(o.block) > 1 \/ Block(o).opcode = "if"
  PROVE  Len(Scopes(o)) >= 2
<1>1. Good(o, Scopes(o))  BY Starting
<1>2. Len(o.block) = Len(Scopes(o)) /\ Len(o.block) \in Nat /\ Len(o.block) >= 1
      /\ Block(o).opcode = TopScope(Scopes(o)).opcode
  BY <1>1, BlockTop
<1>4. CASE Block(o).opcode = "if"
  <2>1. Scopes(o)[Len(Scopes(o))].opcode # "function"  BY <1>2, <1>4 DEF TopScope
  <2> QED BY <1>2, <1>1, <2>1, LoopInside
<1> QED BY <1>2, <1>4

LEMMA ElseStep ==
  ASSUME IInv, Compile_Else
  PROVE  IInv'
<1>1. /\ ~o.error /\ ~o.done /\ Block(o).opcode = "if" /\ BlockIsComplete
      /\ Becomes(CompileElseBlock(EndBlock(o), Block(o)))
  BY DEF Compile_Else, Compiles
<1> QED
  BY SMTT(40), <1>1, SettledEnds, ElseBegins, IfLeft, Starting, CompleteBlock, BlockInside DEF
     ElseOpen

LEMMA EndStep ==
  ASSUME IInv, Compile_End
  PROVE  IInv'
<1> DEFINE s == Block(o)
           e == EndBlock(o)
           d == CompileElseBlock(e, s)
           f == EndWithoutElse(e, s)
           k == Len(e.block) + 1
<1>1. /\ ~o.error /\ ~o.done /\ Len(o.block) > 1 /\ BlockIsComplete
      /\ s.opcode = "if" => s.type.params = s.type.rets
      /\ Becomes(f)
  BY DEF Compile_End
<1>2. Sound(o) /\ Completes(o) /\ Len(Scopes(o)) >= 2
  BY <1>1, Starting, CompleteBlock, BlockInside
<1>3. CASE s.opcode # "if"
  <2>1. f = e  BY <1>3 DEF EndWithoutElse
  <2>2. Settled(e)  BY <1>1, <1>2, <1>3, BlockEnds
  <2> HIDE DEF e, f
  <2> QED BY <1>1, <2>1, <2>2, SettledEnds
<1>4. CASE s.opcode = "if"
  <2>1. IsState(e) /\ (~e.error => Halfway(e, s))  BY <1>1, <1>2, <1>4, IfLeft
  <2> HIDE DEF e, s
  <2>2. CASE e.error
    <3>1. f = e  BY <2>2 DEF EndWithoutElse
    <3> HIDE DEF f
    <3> QED BY SMTT(40), <1>1, <3>1, SettledEnds, <2>1, <2>2, FailedSettled
  <2>3. CASE ~e.error /\ s.type.rets # <<>>
    <3>1. f = EndBlock(d)  BY <1>4, <2>3 DEF EndWithoutElse
    <3>2. ElseOpen(d, s.type)  BY <2>1, ElseBegins
    <3> HIDE DEF d, f
    <3>3. Settled(EndBlock(d))
      <4>1. CASE d.error  BY <4>1, <3>2 DEF EndBlock, ElseOpen
      <4>2. CASE ~d.error
        <5>1. /\ Sound(d) /\ TopIs(Scopes(d), Types(d), Block(d).types)
              /\ Len(Scopes(d)) >= 2 /\ Block(d).types = s.type.params
              /\ Block(d).type = s.type /\ Block(d).opcode = "else"
          BY <3>2, <4>2 DEF ElseOpen, Settled
        <5> QED BY <4>2, <5>1, BlockEnds, <1>1, <1>4, BlockTop DEF Completes, Sound
      <4> QED BY <4>1, <4>2
    <3> QED BY <1>1, <3>1, <3>3, SettledEnds
  <2>4. CASE ~e.error /\ s.type.rets = <<>>
    <3>1. f = Resume(Resume(e, k, "end"), k, "else")  BY <1>4, <2>4 DEF EndWithoutElse
    <3> HIDE DEF f
    <3> QED BY SMTT(40), <1>1, SettledEnds, <2>4, <3>1, IfWithoutElse, <1>4, <2>1 DEF Halfway
  <2> QED BY <2>2, <2>3, <2>4
<1> QED BY <1>3, <1>4

-----------------------------------------------------------------------------
(***************************************************************************)
(* The start of a function: its arguments and locals.                      *)
(***************************************************************************)

\* The slots that are found are free, and are the first if all are.
LEMMA FirstFree ==
  ASSUME NEW c, NEW type, c.slotFirstDynamicIndex \in Nat, NEW s, s = FindSlots(c, type),
         s # SlotUnused
  PROVE  /\ s \in Nat /\ c.slotFirstDynamicIndex <= s /\ s + GetTypeNumSlots(type) <= MaxSlots
         /\ s \notin Registers
         /\ \A t \in SlotsOf(s, type) : c.m3Slots[t] = 0
         /\ c.slotFirstDynamicIndex % 2 = 0
            /\ (\A t \in c.slotFirstDynamicIndex .. MaxSlots - 1 : c.m3Slots[t] = 0)
            => s = c.slotFirstDynamicIndex
<1> DEFINE w == GetTypeNumSlots(type)
           start == c.slotFirstDynamicIndex
           first == AlignSlotToType(start, type)
           fits == { x \in first .. MaxSlots - w :
                        /\ AlignSlotToType(x, type) = x
                        /\ \A t \in SlotsOf(x, type) : c.m3Slots[t] = 0 }
<1>1. w \in {1, 2} /\ first \in Nat /\ start <= first /\ MaxSlots \in Nat
      /\ Reg0SlotAlias > MaxSlots /\ Fp0SlotAlias > MaxSlots
      /\ Reg0SlotAlias \in Nat /\ Fp0SlotAlias \in Nat
  BY SMTT(40), Widths, Constants
<1>2. fits # {} /\ s = Min(fits)  BY DEF FindSlots, FindSlotsWithinRange
<1>3. fits \subseteq first .. MaxSlots - w  OBVIOUS
<1>4. fits \in SUBSET Nat
  <2> HIDE DEF fits, first, w
  <2> QED BY <1>1, <1>3
<1>5. s \in fits /\ \A x \in fits : s <= x
  <2> HIDE DEF fits
  <2> QED BY <1>2, <1>4, MinIn
<1>7. s \in first .. MaxSlots - w  BY <1>5
<1>8. s \in Nat /\ start <= s /\ s + w <= MaxSlots /\ s \notin Registers
  <2> HIDE DEF fits, first, w
  <2> QED BY <1>1, <1>7 DEF Registers
<1>9. ASSUME start % 2 = 0, \A t \in start .. MaxSlots - 1 : c.m3Slots[t] = 0
      PROVE  s = start
  <2>1. first = start  BY <1>9 DEF AlignSlotToType
  <2>3. start \in first .. MaxSlots - w
    <3> HIDE DEF fits, first, w, start
    <3> QED BY <1>1, <1>8, <2>1 DEF start
  <2>4. \A t \in SlotsOf(start, type) : c.m3Slots[t] = 0
    <3>1. SlotsOf(start, type) \subseteq start .. MaxSlots - 1
      <4> HIDE DEF start, fits, first
      <4> QED BY <1>1, <1>8 DEF SlotsOf, start
    <3> QED BY <1>9, <3>1
  <2>5. start \in fits  BY <2>3, <2>4, <2>1
  <2> HIDE DEF fits, first, w
  <2> QED BY <1>8, <1>5, <2>5
<1> QED BY SMTT(40), <1>8, <1>9, <1>5

LEMMA LocalIsPlaced ==
  ASSUME NEW c, IsState(c), NEW type, ~c.error => c.slotFirstDynamicIndex \in Nat
  PROVE  Placed(c, PushLocal(c, type), type)
<1> DEFINE s == FindSlots(c, type)
           a == AllocateSlots(c, type)
           p == PushAllocatedSlot(c, type)
           q == [p EXCEPT !.locals = Append(p.locals, Len(c.locals) + 1)]
           d == PushLocal(c, type)
<1>1. d = Put(q, s, type, Len(c.locals) + 1)  BY DEF PushLocal
<1>3. IsState(a) /\ a.f = c.f
      /\ (~a.error => /\ ~c.error /\ s # SlotUnused /\ a.stack = c.stack
                      /\ a.locals = c.locals
                      /\ a.m3Slots = [t \in DOMAIN c.m3Slots |->
                                IF t \in SlotsOf(s, type) THEN 1 ELSE c.m3Slots[t]]
                      /\ a.slotMaxAllocatedIndexPlusOne =
                            Max({c.slotMaxAllocatedIndexPlusOne, s + GetTypeNumSlots(type)})
                      /\ a.regStackIndexPlusOne = c.regStackIndexPlusOne
                      /\ a.slotFirstDynamicIndex = c.slotFirstDynamicIndex
                      /\ a.block = c.block /\ a.goal = c.goal)
  <2>1. CASE c.error \/ s = SlotUnused  BY <2>1, Fails DEF AllocateSlots
  <2>2. CASE ~c.error /\ s # SlotUnused
    <3>1. a = MarkSlotsAllocatedByType(c, s, type)  BY <2>2 DEF AllocateSlots
    <3> HIDE DEF s, a
    <3> QED BY <2>2, <3>1 DEF MarkSlotsAllocatedByType, Assert_, TouchSlot, Fields, IsState
  <2> QED BY <2>1, <2>2
<1>4. ~a.error => s \notin Registers  BY <1>3, FirstFree
<1>5. IsState(p) /\ p.f = c.f
      /\ (~p.error => /\ ~a.error /\ p.stack = Append(c.stack, [slot |-> s, type |-> type])
                      /\ p.locals = c.locals /\ p.m3Slots = a.m3Slots
                      /\ p.slotMaxAllocatedIndexPlusOne = a.slotMaxAllocatedIndexPlusOne
                      /\ p.regStackIndexPlusOne = a.regStackIndexPlusOne
                      /\ p.slotFirstDynamicIndex = a.slotFirstDynamicIndex
                      /\ p.block = a.block /\ p.goal = a.goal)
  <2>1. CASE c.error  BY <2>1 DEF PushAllocatedSlot
  <2>2. CASE ~c.error
    <3>1. p = Push(a, type, s)  BY <2>2 DEF PushAllocatedSlot
    <3> HIDE DEF a, p, s
    <3>2. CASE a.error \/ Height(a) >= MaxHeight
      <4>1. p = Fail(a)  BY <3>1, <3>2 DEF Push
      <4> QED BY <1>3, <4>1, Fails
    <3>3. CASE ~(a.error \/ Height(a) >= MaxHeight)
      BY <1>4, <3>3, <3>1, <1>3 DEF IsRegisterSlotAlias, Registers, Push, IsState, Fields
    <3> QED BY <3>2, <3>3
  <2> QED BY <2>1, <2>2
<1> HIDE DEF a, p, s, d
<1>7. /\ IsState(q) /\ q.f = p.f /\ q.error = p.error /\ q.stack = p.stack
      /\ q.locals = Append(p.locals, Len(c.locals) + 1) /\ q.m3Slots = p.m3Slots
      /\ q.slotMaxAllocatedIndexPlusOne = p.slotMaxAllocatedIndexPlusOne
      /\ q.regStackIndexPlusOne = p.regStackIndexPlusOne
      /\ q.slotFirstDynamicIndex = p.slotFirstDynamicIndex
      /\ q.block = p.block /\ q.goal = p.goal
  BY <1>5 DEF Fields, IsState
<1> HIDE DEF q
<1>9. /\ IsState(d) /\ d.f = q.f /\ d.error = q.error /\ d.stack = q.stack
      /\ d.locals = q.locals /\ d.m3Slots = q.m3Slots
      /\ d.slotMaxAllocatedIndexPlusOne = q.slotMaxAllocatedIndexPlusOne
      /\ d.regStackIndexPlusOne = q.regStackIndexPlusOne
      /\ d.slotFirstDynamicIndex = q.slotFirstDynamicIndex
      /\ d.block = q.block /\ d.goal = q.goal
  BY <1>1, <1>7 DEF Put, Fields, IsState
<1>10. Placed(c, d, type)
  <2>2. ASSUME ~d.error PROVE ~p.error /\ ~a.error  BY <1>7, <1>9, <2>2, <1>5
  <2> QED BY SMTT(40), <1>3, <1>5, <1>7, <1>9, <2>2 DEF Placed, s
<1> QED BY <1>10 DEF d

LEMMA BlankSetUp ==
  ASSUME NEW f \in Functions
  PROVE  SettingUp(Blank(f), f) /\ ArgsOnly(Blank(f))
<1> DEFINE c == Blank(f)
           n == Len(f.type.rets)
<1>1. n \in Nat  BY Constants DEF FuncTypes
<1>2. IsState(c) /\ c.f = f /\ ~c.error /\ c.stack = <<>> /\ c.locals = <<>>
      /\ c.goal = NoGoal
  BY DEF Blank, IsState, Fields
<1>3. /\ c.m3Slots = [s \in 0 .. MaxSlots - 1 |-> IF s < n * ioSlotCount THEN 1 ELSE 0]
      /\ c.slotFirstDynamicIndex = n * ioSlotCount
      /\ c.slotMaxAllocatedIndexPlusOne = n * ioSlotCount
  BY DEF Blank
<1> HIDE DEF n
<1>4. n * ioSlotCount \in Nat /\ (n * ioSlotCount) % 2 = 0  BY <1>1 DEF ioSlotCount
<1> DEFINE e == n * ioSlotCount
<1> HIDE DEF c
<1>5. \A t \in e .. MaxSlots - 1 : c.m3Slots[t] = 0
  <2>1. e \in Nat  BY <1>4
  <2> HIDE DEF e
  <2>2. ASSUME NEW t \in e .. MaxSlots - 1 PROVE t \in 0 .. MaxSlots - 1 /\ ~(t < e)
    BY <2>1, Constants
  <2> QED BY <2>2, <1>3 DEF e
<1> QED BY <1>2, <1>3, <1>4, <1>5 DEF SettingUp, c, SetUp, n, ArgsOnly

\* One more local is laid like those before.
LEMMA PlacedSetUp ==
  ASSUME NEW f, NEW c, NEW d, NEW type \in ValueTypes, SettingUp(c, f), Placed(c, d, type)
  PROVE  SettingUp(d, f)
<1>1. IsState(d) /\ d.f = f  BY DEF Placed, SettingUp
<1> SUFFICES ASSUME ~d.error PROVE SetUp(d, f)
  BY <1>1 DEF SettingUp
<1> DEFINE s == FindSlots(c, type)
           w == GetTypeNumSlots(type)
           new == [slot |-> s, type |-> type]
           C == Len(c.stack)
<1>2. /\ ~c.error /\ s # SlotUnused
      /\ d.stack = Append(c.stack, new)
      /\ d.locals = Append(c.locals, Len(c.locals) + 1)
      /\ d.m3Slots = [t \in DOMAIN c.m3Slots |->
                         IF t \in SlotsOf(s, type) THEN 1 ELSE c.m3Slots[t]]
      /\ d.slotMaxAllocatedIndexPlusOne = Max({c.slotMaxAllocatedIndexPlusOne, s + w})
      /\ d.regStackIndexPlusOne = c.regStackIndexPlusOne
      /\ d.slotFirstDynamicIndex = c.slotFirstDynamicIndex
      /\ d.block = c.block /\ d.goal = c.goal
  BY DEF Placed
<1>3. SetUp(c, f)  BY <1>2 DEF SettingUp
<1>4. /\ c.stack \in Seq(LocalItems) /\ c.locals \in Seq(Nat) /\ Len(c.locals) = C
      /\ DOMAIN c.m3Slots = 0 .. MaxSlots - 1
      /\ c.slotFirstDynamicIndex \in Nat /\ c.slotMaxAllocatedIndexPlusOne \in Nat
      /\ \A i \in 1 .. C : Laid(c, c.stack[i])
      /\ \A i, j \in 1 .. C : c.stack[i].slot = c.stack[j].slot => i = j
  BY <1>3 DEF SetUp
<1>5. s \in Nat /\ s + w <= MaxSlots /\ w \in {1, 2} /\ MaxSlots \in Nat
      /\ \A t \in SlotsOf(s, type) : c.m3Slots[t] = 0
  BY SMTT(40), <1>2, <1>4, FirstFree, Widths, Constants
<1>6. new \in LocalItems  BY <1>5 DEF LocalItems
<1> HIDE DEF s, w
<1>7. /\ SlotsOf(s, type) = s .. s + w - 1
      /\ s \in SlotsOf(s, type) /\ (s + w) - 1 \in SlotsOf(s, type)
      /\ SlotsOf(s, type) \subseteq 0 .. MaxSlots - 1
  BY <1>5 DEF SlotsOf, w
<1>8. /\ \A t \in SlotsOf(s, type) : d.m3Slots[t] = 1
      /\ \A t \in 0 .. MaxSlots - 1 : d.m3Slots[t] \in {c.m3Slots[t], 1}
      /\ DOMAIN d.m3Slots = 0 .. MaxSlots - 1
  BY <1>2, <1>4, <1>7
<1>9. /\ d.slotMaxAllocatedIndexPlusOne \in Nat
      /\ d.slotMaxAllocatedIndexPlusOne >= c.slotMaxAllocatedIndexPlusOne
      /\ d.slotMaxAllocatedIndexPlusOne >= s + w
  <2>1. s + w \in Nat  BY <1>5
  <2> QED BY ZenonT(60), <1>2, <1>4, <2>1, MaxOfTwo
<1>10. /\ C \in Nat /\ d.stack \in Seq(LocalItems) /\ Len(d.stack) = C + 1
       /\ d.stack[C + 1] = new /\ \A i \in 1 .. C : d.stack[i] = c.stack[i]
  <2> HIDE DEF new
  <2> QED BY <1>2, <1>4, <1>6
<1>11. /\ d.locals \in Seq(Nat) /\ Len(d.locals) = C + 1  BY <1>2, <1>4
<1> HIDE DEF C
<1>12. ASSUME NEW i \in 1 .. C
       PROVE  Laid(d, c.stack[i]) /\ c.stack[i].slot # s
  <2> DEFINE it == c.stack[i]
             e == ItemEnd(it)
  <2>1. it \in LocalItems  BY <1>4 DEF C
  <2>2. it.slot \in Nat /\ GetTypeNumSlots(it.type) \in {1, 2}  BY <2>1, Widths DEF LocalItems
  <2>3. /\ e <= MaxSlots /\ c.m3Slots[it.slot] # 0
        /\ \/ e <= c.slotFirstDynamicIndex
           \/ e <= c.slotMaxAllocatedIndexPlusOne /\ c.m3Slots[e - 1] # 0
    BY <1>4 DEF Laid
  <2>4. e \in Nat /\ e - 1 \in Nat /\ it.slot <= e - 1  BY <2>2 DEF ItemEnd
  <2> HIDE DEF it, e
  <2>6. d.m3Slots[it.slot] # 0 /\ (c.m3Slots[e - 1] # 0 => d.m3Slots[e - 1] # 0)
    BY SMTT(40), <1>8, <2>3, <1>5, <2>2, <2>4
  <2>9. Laid(d, it)  BY <1>2, <2>3, <2>6, <1>4, <1>9, <2>4 DEF Laid, e
  <2> QED BY <2>9, <1>5, <1>7, <2>3 DEF it
<1>13. Laid(d, new)
  <2>1. new.slot = s /\ ItemEnd(new) = s + w  BY DEF ItemEnd, w
  <2>2. d.m3Slots[s] # 0 /\ d.m3Slots[(s + w) - 1] # 0
    <3> HIDE DEF new
    <3>1. \A t \in SlotsOf(s, type) : d.m3Slots[t] # 0  BY <1>8
    <3>2. s \in SlotsOf(s, type) /\ (s + w) - 1 \in SlotsOf(s, type)  BY <1>7
    <3> HIDE DEF s, w
    <3> QED BY <3>1, <3>2, Zenon
  <2> HIDE DEF new
  <2> QED BY <1>5, <1>9, <2>1, <2>2 DEF Laid
<1>14. \A i \in 1 .. C + 1 : i = C + 1 \/ i \in 1 .. C  BY <1>10
<1>15. \A i \in 1 .. C + 1 : Laid(d, d.stack[i])
  <2> HIDE DEF new
  <2> QED BY <1>10, <1>12, <1>13, <1>14
<1>16. ASSUME NEW i \in 1 .. C + 1, NEW j \in 1 .. C + 1, d.stack[i].slot = d.stack[j].slot
       PROVE  i = j
  <2>1. new.slot = s  OBVIOUS
  <2> HIDE DEF new
  <2>2. \A k \in 1 .. C : d.stack[k].slot # s  BY <1>10, <1>12
  <2>3. \A k, l \in 1 .. C : d.stack[k].slot = d.stack[l].slot => k = l  BY <1>4, <1>10 DEF C
  <2> QED BY <1>10, <1>14, <1>16, <2>1, <2>2, <2>3
<1>17. /\ d.slotFirstDynamicIndex \in Nat
       /\ Len(f.type.rets) * ioSlotCount <= d.slotFirstDynamicIndex
       /\ d.regStackIndexPlusOne = Blank(f).regStackIndexPlusOne
       /\ d.block = Blank(f).block /\ d.goal = NoGoal
  BY <1>2, <1>3 DEF SetUp
<1> QED BY <1>8, <1>9, <1>10, <1>11, <1>15, <1>16, <1>17 DEF SetUp

\* One more argument.
LEMMA ArgSetUp ==
  ASSUME NEW f, NEW c, NEW type \in ValueTypes, SettingUp(c, f), ArgsOnly(c)
  PROVE  SettingUp(PushArg(c, type), f) /\ ArgsOnly(PushArg(c, type))
<1> DEFINE p == PushLocal(c, type)
           d == PushArg(c, type)
           s == FindSlots(c, type)
           w == GetTypeNumSlots(type)
           C == Len(c.stack)
           first == c.slotFirstDynamicIndex
<1>2. Placed(c, p, type)  BY LocalIsPlaced DEF SettingUp, SetUp
<1>3. SettingUp(p, f)  BY <1>2, PlacedSetUp
<1>4. d = [p EXCEPT !.slotFirstDynamicIndex = @ + ioSlotCount]  BY DEF PushArg
<1> HIDE DEF p, d
<1>6. /\ IsState(d) /\ d.f = p.f /\ d.error = p.error /\ d.stack = p.stack
      /\ d.locals = p.locals /\ d.m3Slots = p.m3Slots
      /\ d.slotMaxAllocatedIndexPlusOne = p.slotMaxAllocatedIndexPlusOne
      /\ d.regStackIndexPlusOne = p.regStackIndexPlusOne
      /\ d.slotFirstDynamicIndex = p.slotFirstDynamicIndex + ioSlotCount
      /\ d.block = p.block /\ d.goal = p.goal
  BY <1>4, <1>3 DEF Fields, IsState, SettingUp
<1>7. ASSUME d.error PROVE SettingUp(d, f) /\ ArgsOnly(d)
  BY <1>3, <1>6, <1>7 DEF SettingUp, ArgsOnly
<1>8. ASSUME ~d.error PROVE SettingUp(d, f) /\ ArgsOnly(d)
  <2>1. ~p.error  BY <1>6, <1>8
  <2>2. /\ ~c.error /\ s # SlotUnused
        /\ p.stack = Append(c.stack, [slot |-> s, type |-> type])
        /\ p.m3Slots = [t \in DOMAIN c.m3Slots |->
                           IF t \in SlotsOf(s, type) THEN 1 ELSE c.m3Slots[t]]
        /\ p.slotFirstDynamicIndex = first
    BY <1>2, <2>1 DEF Placed
  <2>3. first \in Nat /\ c.stack \in Seq(LocalItems) /\ DOMAIN c.m3Slots = 0 .. MaxSlots - 1
    BY <2>2 DEF SettingUp, SetUp
  <2>4. /\ first % 2 = 0
        /\ \A t \in first .. MaxSlots - 1 : c.m3Slots[t] = 0
        /\ \A i \in 1 .. C : ItemEnd(c.stack[i]) <= first
    BY <2>2 DEF ArgsOnly
  <2>5. s = first /\ s + w <= MaxSlots /\ w \in {1, 2} /\ MaxSlots \in Nat
    BY SMTT(40), <2>2, <2>3, <2>4, FirstFree, Widths, Constants
  <2> HIDE DEF s, w, first
  <2>6. SetUp(p, f)  BY <1>3, <2>1 DEF SettingUp
  <2>7. \A i \in 1 .. C : c.stack[i] \in LocalItems  BY <2>3
  <2>8. /\ C \in Nat /\ Len(p.stack) = C + 1 /\ p.stack[C + 1] = [slot |-> s, type |-> type]
        /\ \A i \in 1 .. C : p.stack[i] = c.stack[i]
    BY <2>2, <2>3
  <2>9. \A i \in 1 .. C : ItemEnd(c.stack[i]) \in Nat
    BY SMTT(40), <2>7, Widths DEF ItemEnd, LocalItems
  <2>11. d.slotFirstDynamicIndex = first + 2  BY <1>6, <2>2 DEF ioSlotCount
  <2> HIDE DEF C
  <2>12. ASSUME NEW i \in 1 .. C + 1 PROVE ItemEnd(p.stack[i]) <= first + 2
    <3>1. CASE i = C + 1  BY <2>3, <2>5, <2>8, <3>1 DEF ItemEnd, w
    <3>2. CASE i # C + 1  BY SMTT(40), <2>8, <3>2, <2>4, <2>9, <2>3 DEF C
    <3> QED BY <3>1, <3>2
  <2>13. ASSUME NEW t \in first + 2 .. MaxSlots - 1 PROVE p.m3Slots[t] = 0
    BY <2>3, <2>5, <2>2, <2>4 DEF SlotsOf, w
  <2>14. (first + 2) % 2 = 0  BY <2>3, <2>4
  <2>15. ArgsOnly(d)  BY SMTT(40), <1>6, <2>8, <2>11, <2>12, <2>13, <2>14 DEF ArgsOnly
  <2>16. \A i \in 1 .. C + 1 : Laid(d, p.stack[i])
    BY SMTT(40), <2>6, <2>8, <1>6, <2>11, <2>12 DEF SetUp, Laid
  <2>17. /\ d.slotFirstDynamicIndex \in Nat
         /\ Len(f.type.rets) * ioSlotCount <= d.slotFirstDynamicIndex
    BY <2>2, <2>6, <2>3, <2>11 DEF SetUp, ioSlotCount
  <2> QED BY ZenonT(60), <1>6, <2>15, <1>3, <2>6, <2>8, <2>16, <2>17 DEF SettingUp, SetUp
<1> QED BY <1>7, <1>8 DEF d

LEMMA ArgsSetUpRun ==
  ASSUME NEW c, NEW types, NEW M, M = Len(types), M \in Nat
  PROVE  \E go : ArgSetUpRun(c, types, M, go)
<1> DEFINE N == M
           Step(d, k) == PushArg(d, types[k])
           Runs(g, n) == g = [k \in 0 .. n |-> IF k = 0 THEN c ELSE Step(g[k - 1], k)]
           R == {n \in Nat : \E g : Runs(g, n)}
<1>0. N \in Nat  OBVIOUS
<1>1. 0 \in R
  <2>1. Runs([k \in {0} |-> c], 0)  OBVIOUS
  <2> QED BY <2>1
<1>2. ASSUME NEW n \in Nat, n \in R PROVE n + 1 \in R
  <2>1. PICK g : Runs(g, n)  BY <1>2
  <2> HIDE DEF Step
  <2>2. Runs([k \in 0 .. n + 1 |-> IF k <= n THEN g[k] ELSE Step(g[n], n + 1)], n + 1)  BY <2>1
  <2> HIDE DEF Runs
  <2> QED BY <2>2
<1>3. N \in R
  <2> HIDE DEF R, N
  <2> QED BY <1>0, <1>1, <1>2, Induct
<1>4. PICK go : go = (CHOOSE g : Runs(g, N)) /\ Runs(go, N)  BY <1>3
<1>5. PushArgs(c, types) = go[N]  BY <1>4 DEF PushArgs
<1>6. go[0] = c /\ \A k \in 1 .. N : go[k] = Step(go[k - 1], k)
  <2> HIDE DEF Step, N
  <2>1. go = [k \in 0 .. N |-> IF k = 0 THEN c ELSE Step(go[k - 1], k)]  BY <1>4
  <2> QED BY <2>1, <1>0
<1> QED BY <1>5, <1>6 DEF ArgSetUpRun

LEMMA LocalsSetUpRun ==
  ASSUME NEW c, NEW types, NEW M, M = Len(types), M \in Nat
  PROVE  \E go : LocalSetUpRun(c, types, M, go)
<1> DEFINE N == M
           Step(d, k) == PushLocal(d, types[k])
           Runs(g, n) == g = [k \in 0 .. n |-> IF k = 0 THEN c ELSE Step(g[k - 1], k)]
           R == {n \in Nat : \E g : Runs(g, n)}
<1>0. N \in Nat  OBVIOUS
<1>1. 0 \in R
  <2>1. Runs([k \in {0} |-> c], 0)  OBVIOUS
  <2> QED BY <2>1
<1>2. ASSUME NEW n \in Nat, n \in R PROVE n + 1 \in R
  <2>1. PICK g : Runs(g, n)  BY <1>2
  <2> HIDE DEF Step
  <2>2. Runs([k \in 0 .. n + 1 |-> IF k <= n THEN g[k] ELSE Step(g[n], n + 1)], n + 1)  BY <2>1
  <2> HIDE DEF Runs
  <2> QED BY <2>2
<1>3. N \in R
  <2> HIDE DEF R, N
  <2> QED BY <1>0, <1>1, <1>2, Induct
<1>4. PICK go : go = (CHOOSE g : Runs(g, N)) /\ Runs(go, N)  BY <1>3
<1>5. PushLocals(c, types) = go[N]  BY <1>4 DEF PushLocals
<1>6. go[0] = c /\ \A k \in 1 .. N : go[k] = Step(go[k - 1], k)
  <2> HIDE DEF Step, N
  <2>1. go = [k \in 0 .. N |-> IF k = 0 THEN c ELSE Step(go[k - 1], k)]  BY <1>4
  <2> QED BY <2>1, <1>0
<1> QED BY <1>5, <1>6 DEF LocalSetUpRun

LEMMA ArgsSetUp ==
  ASSUME NEW f, NEW c, NEW types \in Seq(ValueTypes), SettingUp(c, f), ArgsOnly(c)
  PROVE  SettingUp(PushArgs(c, types), f) /\ ArgsOnly(PushArgs(c, types))
<1> DEFINE N == Len(types)
<1>1. N \in Nat /\ N = Len(types) /\ \A k \in 1 .. N : types[k] \in ValueTypes  OBVIOUS
<1>2. PICK go : ArgSetUpRun(c, types, N, go)
  <2> HIDE DEF N
  <2> QED BY <1>1, ArgsSetUpRun
<1> HIDE DEF N
<1> DEFINE P(n) == n <= N => SettingUp(go[n], f) /\ ArgsOnly(go[n])
           I == {n \in Nat : P(n)}
<1>3. 0 \in I  BY <1>2 DEF ArgSetUpRun
<1>4. ASSUME NEW n \in Nat, n \in I PROVE n + 1 \in I
  <2>1. P(n)  BY <1>4
  <2> HIDE DEF I
  <2> SUFFICES P(n + 1)  BY DEF I
  <2> SUFFICES ASSUME n + 1 <= N PROVE SettingUp(go[n + 1], f) /\ ArgsOnly(go[n + 1])
    OBVIOUS
  <2>2. n <= N /\ n + 1 \in 1 .. N /\ (n + 1) - 1 = n  BY <1>1
  <2> QED BY ArgSetUp, <1>2, <2>2, <1>1, <2>1 DEF ArgSetUpRun
<1>5. N \in I
  <2> HIDE DEF I
  <2> QED BY <1>1, <1>3, <1>4, Induct
<1> QED BY <1>1, <1>5, <1>2 DEF ArgSetUpRun

LEMMA LocalsSetUp ==
  ASSUME NEW f, NEW c, NEW types \in Seq(ValueTypes), SettingUp(c, f)
  PROVE  SettingUp(PushLocals(c, types), f)
<1> DEFINE N == Len(types)
<1>1. N \in Nat /\ N = Len(types) /\ \A k \in 1 .. N : types[k] \in ValueTypes  OBVIOUS
<1>2. PICK go : LocalSetUpRun(c, types, N, go)
  <2> HIDE DEF N
  <2> QED BY <1>1, LocalsSetUpRun
<1> HIDE DEF N
<1> DEFINE P(n) == n <= N => SettingUp(go[n], f)
           I == {n \in Nat : P(n)}
<1>3. 0 \in I  BY <1>2 DEF LocalSetUpRun
<1>4. ASSUME NEW n \in Nat, n \in I PROVE n + 1 \in I
  <2>1. P(n)  BY <1>4
  <2> HIDE DEF I
  <2> SUFFICES P(n + 1)  BY DEF I
  <2> SUFFICES ASSUME n + 1 <= N PROVE SettingUp(go[n + 1], f)
    OBVIOUS
  <2>2. n <= N /\ n + 1 \in 1 .. N /\ (n + 1) - 1 = n  BY <1>1
  <2>3. SettingUp(go[n], f) /\ types[n + 1] \in ValueTypes  BY <1>1, <2>1, <2>2
  <2>6. Placed(go[n], go[n + 1], types[n + 1])
    BY LocalIsPlaced, <1>2, <2>2, <2>3 DEF LocalSetUpRun, SettingUp, SetUp
  <2> QED BY <2>3, <2>6, PlacedSetUp
<1>5. N \in I
  <2> HIDE DEF I
  <2> QED BY SMTT(40), <1>1, <1>3, <1>4, Induct
<1> QED BY <1>1, <1>5, <1>2 DEF LocalSetUpRun

\* The arguments lie below the slots the locals are looked for in.
LEMMA BetweenArgsAndLocals ==
  ASSUME NEW f, NEW c, SettingUp(c, f), ArgsOnly(c), NEW d,
         d = [c EXCEPT !.slotMaxAllocatedIndexPlusOne = c.slotFirstDynamicIndex]
  PROVE  SettingUp(d, f)
<1>2. /\ IsState(d) /\ d.f = c.f /\ d.error = c.error /\ d.stack = c.stack
      /\ d.locals = c.locals /\ d.m3Slots = c.m3Slots
      /\ d.slotMaxAllocatedIndexPlusOne = c.slotFirstDynamicIndex
      /\ d.regStackIndexPlusOne = c.regStackIndexPlusOne
      /\ d.slotFirstDynamicIndex = c.slotFirstDynamicIndex
      /\ d.block = c.block /\ d.goal = c.goal
  BY DEF Fields, IsState, SettingUp
<1> SUFFICES ASSUME ~d.error PROVE SetUp(d, f)
  BY <1>2 DEF SettingUp
<1>3. SetUp(c, f) /\ \A i \in 1 .. Len(c.stack) : ItemEnd(c.stack[i]) <= c.slotFirstDynamicIndex
  BY <1>2 DEF SettingUp, ArgsOnly
<1>7. \A i, j \in 1 .. Len(d.stack) : d.stack[i].slot = d.stack[j].slot => i = j
  BY SMTT(40), <1>2, <1>3 DEF SetUp
<1> QED BY <1>7, <1>2, <1>3 DEF SetUp, Laid

\* No slot in use lies above the ones GetMaxUsedSlotPlusOne counts.
LEMMA UsedBelow ==
  ASSUME NEW c, c.slotFirstDynamicIndex \in Nat, c.slotMaxAllocatedIndexPlusOne \in Nat,
         NEW m, m = GetMaxUsedSlotPlusOne(c)
  PROVE  /\ m \in Nat /\ c.slotFirstDynamicIndex <= m
         /\ \A t \in c.slotFirstDynamicIndex .. c.slotMaxAllocatedIndexPlusOne - 1 :
               c.m3Slots[t] # 0 => t + 1 <= m
<1> DEFINE first == c.slotFirstDynamicIndex
           most == c.slotMaxAllocatedIndexPlusOne
           used == { t \in first .. most - 1 : c.m3Slots[t] # 0 }
           ends == {first} \union { s + 1 : s \in used }
<1>1. first \in Nat /\ most \in Nat /\ first + most \in Nat  OBVIOUS
<1>2. m = Max(ends)  BY DEF GetMaxUsedSlotPlusOne
<1>3. used \subseteq first .. most - 1  OBVIOUS
<1>4. ends \in SUBSET (0 .. first + most)
  <2> HIDE DEF used, first, most
  <2> QED BY <1>1, <1>3
<1>5. first \in ends /\ \A s \in used : s + 1 \in ends  OBVIOUS
<1>6. m \in ends /\ \A e \in ends : m >= e
  <2>1. ends # {}  BY <1>5
  <2> HIDE DEF ends
  <2> QED BY <1>1, <1>2, <1>4, <2>1, MaxIn
<1>7. m \in Nat /\ first <= m
  <2> HIDE DEF ends
  <2> QED BY <1>1, <1>4, <1>5, <1>6
<1>8. ASSUME NEW t \in first .. most - 1, c.m3Slots[t] # 0 PROVE t + 1 <= m
  <2>1. t \in used  BY <1>8
  <2>2. m >= t + 1
    <3> HIDE DEF ends, used
    <3> QED BY <1>5, <1>6, <2>1
  <2>3. t \in Nat
    <3> HIDE DEF first, most
    <3> QED BY <1>1
  <2> HIDE DEF first, most, ends, used
  <2> QED BY <1>7, <2>2, <2>3
<1> QED BY <1>7, <1>8

LEMMA FunctionScoped ==
  ASSUME NEW f \in Functions, NEW h \in Nat, NEW d,
         d.block = BlocksAbove(Blank(f).block, h)
  PROVE  /\ Scopes(d) = <<FunctionScope(f, h)>> /\ Block(d).types = <<>>
         /\ \E B : d.block \in Seq(B)
         /\ d.block # <<>> /\ \A k \in DOMAIN d.block : DOMAIN d.block[k] = ScopeFields
         /\ FunctionScope(f, h) \in ScopeSet
<1> DEFINE t == [opcode |-> "function", type |-> f.type,
                 blockStackIndex |-> 0, exitStackIndex |-> 0,
                 isPolymorphic |-> FALSE, stackIndex |-> 0, entry |-> <<>>,
                 types |-> <<>>, dead |-> FALSE, operands |-> <<>>]
           s == [t EXCEPT !.blockStackIndex = h]
           b == Blank(f).block
<1>1. d.block = <<s>>
  <2>1. b = <<t>>  BY DEF Blank
  <2> HIDE DEF t
  <2>2. <<t>> = [k \in {1} |-> t] /\ <<t>>[1] = t  OBVIOUS
  <2>3. d.block = [<<t>> EXCEPT ![1] = s]
    <3> HIDE DEF b
    <3> QED BY <2>1, <2>2 DEF BlocksAbove, b
  <2> HIDE DEF s
  <2> QED BY <2>3, <2>2
<1>2. ScopeOf(s) = FunctionScope(f, h) /\ DOMAIN s = ScopeFields /\ s.types = <<>>
  <2>1. DOMAIN t = ScopeFields  BY DEF ScopeFields
  <2>2. /\ t.opcode = "function" /\ t.type = f.type /\ t.exitStackIndex = 0
        /\ t.isPolymorphic = FALSE /\ t.stackIndex = 0 /\ t.types = <<>> /\ t.dead = FALSE
    OBVIOUS
  <2> HIDE DEF t
  <2>3. /\ DOMAIN s = ScopeFields /\ s.blockStackIndex = h
        /\ s.opcode = "function" /\ s.type = f.type /\ s.exitStackIndex = 0
        /\ s.isPolymorphic = FALSE /\ s.stackIndex = 0 /\ s.types = <<>> /\ s.dead = FALSE
    BY <2>1, <2>2 DEF ScopeFields
  <2> HIDE DEF s
  <2> QED BY <2>3 DEF ScopeOf, FunctionScope
<1> HIDE DEF s
<1>4. <<s>> \in Seq({s}) /\ <<s>> # <<>> /\ DOMAIN <<s>> = {1} /\ <<s>>[1] = s
      /\ Len(<<s>>) = 1
  OBVIOUS
<1>5. Scopes(d) = <<FunctionScope(f, h)>>  BY <1>1, <1>2, <1>4 DEF Scopes
<1>6. Block(d) = s  BY <1>1, <1>4 DEF Block, Last
<1>7. \E B : d.block \in Seq(B)
  <2>1. d.block \in Seq({s})  BY <1>1, <1>4
  <2> QED BY <2>1
<1> QED BY SMTT(40), <1>1, <1>2, <1>4, <1>5, <1>6, <1>7, Constants DEF FunctionScope, ScopeSet

\* Below the constants and the stack lie the arguments and locals, apart.
LEMMA LaidBelow ==
  ASSUME NEW f, NEW c, SetUp(c, f), NEW m, m = GetMaxUsedSlotPlusOne(c)
  PROVE  /\ m \in Nat /\ c.slotFirstDynamicIndex <= m
         /\ \A i \in 1 .. Len(c.stack) : ItemEnd(c.stack[i]) <= m
                                         /\ ItemEnd(c.stack[i]) <= MaxSlots
<1> DEFINE first == c.slotFirstDynamicIndex
           most == c.slotMaxAllocatedIndexPlusOne
<1>1. first \in Nat /\ most \in Nat  BY DEF SetUp
<1>2. /\ m \in Nat /\ first <= m
      /\ \A t \in first .. most - 1 : c.m3Slots[t] # 0 => t + 1 <= m
  BY <1>1, UsedBelow
<1>3. ASSUME NEW i \in 1 .. Len(c.stack)
      PROVE  ItemEnd(c.stack[i]) <= m /\ ItemEnd(c.stack[i]) <= MaxSlots
  <2> DEFINE e == ItemEnd(c.stack[i])
  <2>1. c.stack[i] \in LocalItems /\ Laid(c, c.stack[i])  BY SMTT(40) DEF SetUp
  <2>2. e \in Nat  BY <2>1, Widths DEF LocalItems, ItemEnd
  <2>3. e <= MaxSlots /\ (e <= first \/ (e <= most /\ c.m3Slots[e - 1] # 0))  BY <2>1 DEF Laid
  <2> HIDE DEF e, first, most
  <2>4. ASSUME e <= first PROVE e <= m /\ e <= MaxSlots
    BY <1>1, <1>2, <2>2, <2>3, <2>4
  <2>5. ASSUME ~(e <= first) PROVE e <= m /\ e <= MaxSlots  BY <1>1, <2>2, <2>3, <2>5, <1>2
  <2> QED BY <2>3, <2>4, <2>5 DEF e
<1> QED BY SMTT(40), <1>2, <1>3

LEMMA ReservedStarts ==
  ASSUME NEW f \in Functions, NEW c, SettingUp(c, f), NEW n \in Nat, NEW m,
         m = GetMaxUsedSlotPlusOne(c)
  PROVE  AtStart(ReserveConstants(c, m, m + n), f)
<1> DEFINE d == ReserveConstants(c, m, m + n)
           h == Height(c)
           S == Scopes(d)
<1>2. /\ IsState(d) /\ d.f = f /\ d.written = {} /\ d.error = c.error
      /\ d.slotFirstConstIndex = m /\ d.slotMaxConstIndex = m
      /\ d.slotFirstDynamicIndex = m + n /\ d.maxStackSlots = m + n
      /\ d.slotMaxAllocatedIndexPlusOne = m + n /\ d.stackFirstDynamicIndex = h
      /\ d.stack = c.stack /\ d.locals = c.locals /\ d.goal = c.goal
      /\ d.regStackIndexPlusOne = c.regStackIndexPlusOne
      /\ d.block = [c.block EXCEPT ![1].blockStackIndex = h]
  <2>1. d = [c EXCEPT !.slotFirstConstIndex = m, !.slotMaxConstIndex = m,
              !.slotFirstDynamicIndex = m + n,
              !.maxStackSlots = m + n,
              !.slotMaxAllocatedIndexPlusOne = m + n,
              !.stackFirstDynamicIndex = h,
              !.block[1].blockStackIndex = h,
              !.written = {}]
    BY DEF ReserveConstants
  <2> HIDE DEF d, h
  <2> QED BY <2>1 DEF Fields, IsState, SettingUp
<1> HIDE DEF d
<1>3. ASSUME d.error PROVE AtStart(d, f)
  BY <1>2, <1>3 DEF AtStart, Good
<1>4. ASSUME ~d.error PROVE AtStart(d, f)
  <2>1. SetUp(c, f)  BY <1>2, <1>4 DEF SettingUp
  <2>2. /\ c.stack \in Seq(LocalItems) /\ c.locals \in Seq(Nat) /\ Len(c.locals) = Len(c.stack)
        /\ c.slotFirstDynamicIndex \in Nat
        /\ Len(f.type.rets) * ioSlotCount <= c.slotFirstDynamicIndex
        /\ c.regStackIndexPlusOne = Blank(f).regStackIndexPlusOne
        /\ c.block = Blank(f).block /\ c.goal = NoGoal
        /\ \A i, j \in 1 .. Len(c.stack) : c.stack[i].slot = c.stack[j].slot => i = j
    BY <2>1 DEF SetUp
  <2>3. h = Len(c.stack) /\ h \in Nat /\ DOMAIN c.stack = 1 .. h /\ DOMAIN c.locals = 1 .. h
        /\ \A i \in 1 .. h : c.stack[i] \in LocalItems
    BY <2>2 DEF Height
  <2>4. /\ m \in Nat /\ c.slotFirstDynamicIndex <= m
        /\ \A i \in 1 .. h : ItemEnd(c.stack[i]) <= m /\ ItemEnd(c.stack[i]) <= MaxSlots
    BY <2>1, <2>3, LaidBelow
  <2>5. /\ S = <<FunctionScope(f, h)>> /\ Block(d).types = <<>>
        /\ \E B : d.block \in Seq(B)
        /\ d.block # <<>> /\ \A k \in DOMAIN d.block : DOMAIN d.block[k] = ScopeFields
        /\ FunctionScope(f, h) \in ScopeSet
    <3> HIDE DEF h
    <3>1. d.block = BlocksAbove(Blank(f).block, h)  BY <1>2, <2>2 DEF BlocksAbove
    <3> QED BY <2>3, <3>1, FunctionScoped
  <2> HIDE DEF S, h
  <2>6. S \in Seq(ScopeSet) /\ S # <<>> /\ Len(S) = 1 /\ TopScope(S) = FunctionScope(f, h)
        /\ S[1] = FunctionScope(f, h) /\ DOMAIN S = {1}
    BY <2>5 DEF TopScope
  <2>7. m + n \in Nat /\ m <= m + n  BY <2>4
  <2>8. Sizes(d)
    <3> DEFINE r == Len(f.type.rets) * ioSlotCount
    <3>1. r \in Nat  BY Constants DEF FuncTypes, ioSlotCount
    <3>2. r <= m + n
      <4> HIDE DEF r
      <4> QED BY SMTT(40), <2>2, <2>4, <2>7, <3>1 DEF r
    <3> QED BY <1>2, <2>3, <2>4, <2>7, <3>2 DEF Sizes
  <2>9. d.stack \in Seq(Items)
    <3>2. c.stack \in [1 .. h -> Items]  BY SMTT(40), <2>2, <2>3 DEF LocalItems, Items
    <3> QED BY <1>2, <2>3, <3>2
  <2>10. ArgsAndLocals(d)
    <3>1. ASSUME NEW l \in 1 .. h
          PROVE  /\ c.stack[l].type \in ValueTypes
                 /\ c.stack[l].slot + GetTypeNumSlots(c.stack[l].type) <= m
                 /\ c.stack[l].slot + GetTypeNumSlots(c.stack[l].type) <= MaxSlots
      BY <2>3, <2>4 DEF LocalItems, ItemEnd
    <3> QED BY <1>2, <2>3, <3>1 DEF ArgsAndLocals
  <2>11. NoLocalInRegister(d)  BY <1>2, <2>2, <2>3 DEF Registers, Blank, NoLocalInRegister
  <2>12. ItemsHeld(d, S)
    <3> SUFFICES ASSUME NEW i \in 1 .. h PROVE ItemHeld(d, c.stack[i])
      BY <1>2, <2>3 DEF ItemsHeld
    <3>1. InFrame(c.stack[i].slot, c.stack[i].type, m + n)
      <4>1. ItemEnd(c.stack[i]) \in Nat  BY SMTT(40), <2>3, Widths DEF LocalItems, ItemEnd
      <4> QED BY <2>4, <4>1 DEF InFrame, ItemEnd
    <3>2. \A l \in 1 .. h : c.stack[i].slot = c.stack[l].slot => c.stack[i].type = c.stack[l].type
      BY <2>2, <2>3
    <3> QED BY <1>2, <3>1, <3>2 DEF ItemHeld
  <2>13. /\ TopScope(S).isPolymorphic = FALSE /\ TopScope(S).blockStackIndex = h
         /\ S[1].opcode = "function" /\ S[1].blockStackIndex = h /\ S[1].exitStackIndex = 0
         /\ S[1].stackIndex = 0 /\ S[1].dead = FALSE
    BY <2>6 DEF FunctionScope
  <2>14. WritesHeld(d) /\ BlocksHeld(d, S) /\ RunsLive(d, S)
    BY SMTT(40), <1>2, <2>2, <2>5, <2>6, <2>13 DEF NoGoal, WritesHeld, BlocksHeld, RunsLive
  <2>15. Len(Types(d)) = h  BY <1>2, <2>3, <2>9, TypesSeq
  <2>16. Nested(S, Types(d), h)  BY <2>6, <2>3, <2>13, <2>15 DEF Nested
  <2>17. Good(d, S)  BY <1>2, <2>8, <2>9, <2>10, <2>11, <2>12, <2>14, <2>16 DEF Good, Body
  <2>18. TopIs(S, Types(d), Block(d).types)  BY <2>3, <2>5, <2>13, <2>15 DEF TopIs, HasTypes
  <2> QED BY <1>2, <2>17, <2>18, <2>2 DEF AtStart, S, GoalIsOpen, NoGoal
<1> QED BY <1>3, <1>4 DEF d

\* A function of any kind, with any number of slots for its constants.
LEMMA CompileStarts ==
  ASSUME NEW f \in Functions, NEW n \in Nat
  PROVE  AtStart(CompileFunction(f, n), f)
<1> DEFINE blank == Blank(f)
           args == PushArgs(blank, f.type.params)
           between == [args EXCEPT !.slotMaxAllocatedIndexPlusOne = args.slotFirstDynamicIndex]
           c == PushLocals(between, f.locals)
           m == GetMaxUsedSlotPlusOne(c)
<1>1. f.type.params \in Seq(ValueTypes) /\ f.locals \in Seq(ValueTypes)
  BY Constants DEF FuncTypes, ValueTypes
<1>2. CompileFunction(f, n) = ReserveConstants(c, m, m + n)  BY DEF CompileFunction
<1>3. SettingUp(blank, f) /\ ArgsOnly(blank)  BY BlankSetUp
<1> HIDE DEF blank
<1>4. SettingUp(args, f) /\ ArgsOnly(args)  BY <1>1, <1>3, ArgsSetUp
<1> HIDE DEF args
<1>5. SettingUp(between, f)  BY <1>4, BetweenArgsAndLocals
<1> HIDE DEF between
<1>6. SettingUp(c, f)  BY <1>1, <1>5, LocalsSetUp
<1> HIDE DEF c
<1> QED BY <1>2, <1>6, ReservedStarts

LEMMA AllStart ==
  ASSUME NEW kinds \in SUBSET Functions, NEW d \in Starts(kinds)
  PROVE  \E f \in kinds : AtStart(d, f)
<1>1. PICK f \in kinds, n \in 0 .. MaxConsts \div 2 : d = CompileFunction(f, 2 * n)
  BY DEF Starts
<1> QED BY <1>1, CompileStarts

LEMMA FirstFunction ==
  ASSUME Init
  PROVE  IInv
<1>1. PICK f \in Functions : AtStart(o, f)  BY SMTT(40), AllStart DEF Init
<1> QED BY <1>1 DEF AtStart, IInv

LEMMA NextFunctionStep ==
  ASSUME IInv, NextFunction
  PROVE  IInv'
<1>1. o' \in Starts({o.f}) /\ {o.f} \in SUBSET Functions  BY DEF NextFunction, IInv
<1>2. \A d \in Starts({o.f}) : AtStart(d, o.f)
  <2> DEFINE kinds == {o.f}
  <2>1. \A d \in Starts(kinds) : \E f \in kinds : AtStart(d, f)
    <3>1. kinds \in SUBSET Functions  BY <1>1
    <3> HIDE DEF kinds
    <3> QED BY <3>1, AllStart
  <2> QED BY <2>1
<1>3. AtStart(o', o.f)  BY SMTT(40), <1>1, <1>2
<1>4. o.f \in Functions  BY DEF IInv
<1> QED BY <1>3, <1>4 DEF AtStart, IInv, Scopes, ScopeOf, Types, Block, TopIs, GoalIsOpen, Good
-----------------------------------------------------------------------------
(***************************************************************************)
(* The theorems.                                                           *)
(***************************************************************************)

LEMMA Stays ==
  ASSUME IInv, UNCHANGED o
  PROVE  IInv'
<1> QED BY DEF IInv

LEMMA EveryStep ==
  ASSUME IInv, [Next]_o
  PROVE  IInv'
<1>2. /\ o.f.types \in SUBSET ValueTypes
      /\ o.f.blocks \in SUBSET FuncTypes /\ o.f.calls \in SUBSET FuncTypes
  BY Constants DEF IInv
<1>3. CASE \E t \in o.f.types : \/ \E v \in ConstValues : Compile_Const(t, v)
                                \/ Compile_GetGlobal(t)
                                \/ Compile_SetGlobal(t)
                                \/ Compile_Select(t)
                                \/ Compile_Drop(t)
  <2>1. PICK t \in o.f.types : \/ \E v \in ConstValues : Compile_Const(t, v)
                               \/ Compile_GetGlobal(t) \/ Compile_SetGlobal(t)
                               \/ Compile_Select(t)
                               \/ Compile_Drop(t)
    BY <1>3
  <2> QED BY SMTT(40), <2>1, ConstStep, GlobalStep, SelectStep, DropStep, <1>2
<1>4. CASE \E i \in DOMAIN o.locals : \/ Compile_GetLocal(i)
                                      \/ Compile_SetLocal(i)
                                      \/ Compile_TeeLocal(i)
  BY <1>4, GetLocalStep, SetLocalStep
<1>5. CASE \/ \E op \in Operators(o.f.types) : Compile_Operator(op)
           \/ \E op \in Loads(o.f.types) \union Stores(o.f.types) : Compile_Load_Store(op)
  BY <1>2, <1>5, TableStep
<1>6. CASE \E op \in Conversions(o.f.types) : Compile_Convert(op)  BY <1>2, <1>6, ConvertStep
<1>7. CASE Compile_Memory_Size \/ Compile_Memory_Grow \/ Compile_Memory_CopyFill
  BY <1>7, MemoryStep
<1>8. CASE \E type \in o.f.blocks :
              \/ \E opcode \in {"block", "loop"} : Compile_LoopOrBlock(opcode, type)
              \/ \E holds \in BOOLEAN : Compile_If(type, holds)
  <2>1. PICK type \in o.f.blocks :
              \/ \E opcode \in {"block", "loop"} : Compile_LoopOrBlock(opcode, type)
              \/ \E holds \in BOOLEAN : Compile_If(type, holds)
    BY <1>8
  <2> QED BY <2>1, LoopOrBlockStep, IfStep, <1>2
<1>9. CASE Compile_Else \/ Compile_End  BY <1>9, ElseStep, EndStep
<1>10. CASE Compile_FunctionEnd  BY <1>10, FunctionEndStep
<1>11. CASE Compile_Return \/ Compile_Unreachable  BY <1>11, ReturnStep
<1>12. CASE \E k \in DOMAIN o.block :
              \/ Compile_Branch(k)
              \/ \E taken \in BOOLEAN : Compile_BranchIf(k, taken)
              \/ \E j \in DOMAIN o.block, chosen \in 1 .. 2 :
                    Compile_BranchTable(j, k, chosen)
  BY <1>12, BranchStep, BranchIfStep, BranchTableStep
<1>13. CASE \E type \in o.f.calls : Compile_Call(type) \/ Compile_CallIndirect(type)
  <2>1. PICK type \in o.f.calls : Compile_Call(type) \/ Compile_CallIndirect(type)  BY <1>13
  <2> QED BY <2>1, CallStep, <1>2
<1>14. CASE NextFunction  BY <1>14, NextFunctionStep
<1>15. CASE UNCHANGED o  BY <1>15, Stays
<1> QED BY <1>3, <1>4, <1>5, <1>6, <1>7, <1>8, <1>9, <1>10, <1>11, <1>12, <1>13, <1>14,
           <1>15 DEF Next

\* At every opcode, the scopes the compiler has open lie one within the other
\* on its stack, whose items have the types of the operands the program has
\* there and lie, as its arguments and locals do, within maxStackSlots (Push,
\* Pop and CompileBlock of m3_compile.c).
THEOREM StackHoldsTheOperands == Spec => []IInv
<1>1. Init => IInv  BY FirstFunction
<1>2. IInv /\ [Next]_o => IInv'  BY EveryStep
<1> QED BY <1>1, <1>2, PTL DEF Spec

\* Whatever function is compiled, no operation emitted for it writes to a slot
\* at or above maxStackSlots, for which alone op_Entry sees that the stack has
\* room (TouchSlot, CompileFunction), but for the arguments of calls: they lie
\* at most MaxCallSlots slots behind the end of the frame
\* (CompileCallArgsAndReturn).
THEOREM OperationsWriteInFrame == Spec => []FrameCoversWrites
<1>1. IInv => FrameCoversWrites  BY DEF IInv, FrameCoversWrites
<1> QED BY <1>1, StackHoldsTheOperands, PTL

=============================================================================
