------------------------ MODULE M3CompileInvariant ------------------------
(***************************************************************************)
(* What M3CompileProofs shows of the compiler of Wasm3: the inductive      *)
(* invariant IInv, and what each kind of step does to a state that is in   *)
(* keeping with it.                                                        *)
(*                                                                         *)
(* The invariant says that the slots of the items on the compiler's stack  *)
(* lie within maxStackSlots. A write takes its width from the type of one  *)
(* item and its place from another, so the types of the stack have to be   *)
(* those the program has there: of the operands of each scope, and of the  *)
(* records BeginBlock leaves beneath it. In code after a branch they need  *)
(* not be, and there the run does not come by.                             *)
(***************************************************************************)
EXTENDS M3Compile

ValueTypes == IntTypes \union FpTypes
Items == [slot : Nat, type : ValueTypes \union {"none"}]
Registers == {Reg0SlotAlias, Fp0SlotAlias}

Fields ==
    {"f", "length", "stack", "stackFirstDynamicIndex", "m3Slots",
     "regStackIndexPlusOne", "slotFirstDynamicIndex", "slotMaxAllocatedIndexPlusOne",
     "slotFirstConstIndex", "slotMaxConstIndex", "maxStackSlots", "constants", "block",
     "error", "overrun", "done", "asserted", "mem", "locals", "running", "goal", "written",
     "misread"}

ScopeFields ==
    {"opcode", "type", "blockStackIndex", "exitStackIndex", "isPolymorphic",
     "stackIndex", "entry", "types", "dead", "operands"}

\* Of a scope: all but the values the program has in it. Of the stack: types.
ScopeSet ==
    [opcode : {"function", "block", "loop", "if", "else"}, type : FuncTypes,
     blockStackIndex : Nat, exitStackIndex : Nat, isPolymorphic : BOOLEAN,
     stackIndex : Nat, types : Seq(ValueTypes), dead : BOOLEAN]

ScopeOf(b) ==
    [opcode |-> b.opcode, type |-> b.type, blockStackIndex |-> b.blockStackIndex,
     exitStackIndex |-> b.exitStackIndex, isPolymorphic |-> b.isPolymorphic,
     stackIndex |-> b.stackIndex, types |-> b.types, dead |-> b.dead]

Scopes(c) == [k \in DOMAIN c.block |-> ScopeOf(c.block[k])]
Types(c) == [i \in DOMAIN c.stack |-> c.stack[i].type]
HasTypes(T, from, ts) == \A j \in 1 .. Len(ts) : T[from + j] = ts[j]
TopScope(S) == S[Len(S)]

\* Scope s is somewhere inside of p.
Inside(p, s) ==
    /\ p.blockStackIndex <= s.exitStackIndex
    /\ p.blockStackIndex <= s.stackIndex
    /\ p.isPolymorphic => s.isPolymorphic

\* What lies on the stack between scope p and the next one, s: the operands of
\* p, and records of the parameters and the results of s.
Records(T, p, s) ==
    /\ s.exitStackIndex = p.blockStackIndex + Len(p.types)
    /\ HasTypes(T, p.blockStackIndex, p.types)
    /\ s.stackIndex = s.exitStackIndex + Len(s.type.params)
    /\ s.blockStackIndex = s.stackIndex + Len(s.type.rets)
    /\ HasTypes(T, s.exitStackIndex, s.type.params)
    /\ HasTypes(T, s.stackIndex, s.type.rets)

\* Scopes S one within the other, on a stack of types T above base locals.
Nested(S, T, base) ==
    /\ S # <<>> /\ S[1].opcode = "function"
    /\ TopScope(S).blockStackIndex <= Len(T)
    /\ \A k \in 1 .. Len(S) :
          /\ base <= S[k].blockStackIndex
          /\ S[k].exitStackIndex <= S[k].blockStackIndex
          /\ S[k].stackIndex <= S[k].blockStackIndex
          /\ S[k].dead => S[k].isPolymorphic
    /\ \A k \in 1 .. Len(S) : \A j \in 1 .. k - 1 : Inside(S[j], S[k])
    /\ \A k \in 2 .. Len(S) :
          ~S[k - 1].isPolymorphic => Records(T, S[k - 1], S[k])

\* In the innermost scope the program has operands of types ts.
TopIs(S, T, ts) ==
    ~TopScope(S).isPolymorphic =>
        /\ Len(T) = TopScope(S).blockStackIndex + Len(ts)
        /\ HasTypes(T, TopScope(S).blockStackIndex, ts)

\* Items the run can come by.
LiveItem(S, i) ==
    \A k \in DOMAIN S : S[k].isPolymorphic => i <= S[k].blockStackIndex

InFrame(slot, type, frame) ==
    IsRegisterSlotAlias(slot) \/ slot + GetTypeNumSlots(type) <= frame

ItemHeld(c, it) ==
    /\ InFrame(it.slot, it.type, c.maxStackSlots)
    /\ \A l \in 1 .. c.stackFirstDynamicIndex :
          it.slot = c.stack[l].slot => it.type = c.stack[l].type

ItemsHeld(c, S) ==
    \A i \in DOMAIN c.stack : LiveItem(S, i) => ItemHeld(c, c.stack[i])

Sizes(c) ==
    /\ c.f \in Functions
    /\ c.slotFirstConstIndex \in Nat /\ c.slotMaxConstIndex \in Nat
    /\ c.slotFirstDynamicIndex \in Nat /\ c.maxStackSlots \in Nat
    /\ c.slotMaxAllocatedIndexPlusOne \in 0 .. c.maxStackSlots
    /\ c.stackFirstDynamicIndex \in Nat
    /\ c.slotFirstConstIndex <= c.slotMaxConstIndex
    /\ c.slotMaxConstIndex <= c.slotFirstDynamicIndex
    /\ c.slotFirstDynamicIndex <= c.maxStackSlots
    /\ Len(c.f.type.rets) * ioSlotCount <= c.maxStackSlots

ArgsAndLocals(c) ==
    /\ c.stackFirstDynamicIndex <= Len(c.stack)
    /\ DOMAIN c.locals = 1 .. c.stackFirstDynamicIndex
    /\ \A l \in 1 .. c.stackFirstDynamicIndex :
          /\ c.stack[l].type \in ValueTypes
          /\ c.stack[l].slot + GetTypeNumSlots(c.stack[l].type) <= c.slotFirstConstIndex
          /\ c.stack[l].slot + GetTypeNumSlots(c.stack[l].type) <= MaxSlots

NoLocalInRegister(c) ==
    \A r \in Registers :
        c.regStackIndexPlusOne[r] \in Nat \ (1 .. c.stackFirstDynamicIndex)

WritesHeld(c) == \A w \in c.written : w.slot \in Int /\ InRoom(w, c.maxStackSlots)

BlocksHeld(c, S) ==
    /\ \E B : c.block \in Seq(B)
    /\ c.block # <<>>
    /\ \A k \in DOMAIN c.block : DOMAIN c.block[k] = ScopeFields
    /\ S \in Seq(ScopeSet)

\* The run is in code that can be reached, and on its way nowhere else.
RunsLive(c, S) == c.running => c.goal.depth = 0 /\ ~TopScope(S).isPolymorphic

IsState(c) == DOMAIN c = Fields /\ c.error \in BOOLEAN

\* S is what is left of the scopes of c while the innermost one is closed, and
\* all of them before and after.
Body(c, S) ==
    /\ Sizes(c) /\ c.stack \in Seq(Items) /\ ArgsAndLocals(c) /\ NoLocalInRegister(c)
    /\ ItemsHeld(c, S) /\ WritesHeld(c) /\ BlocksHeld(c, S) /\ RunsLive(c, S)
    /\ Nested(S, Types(c), c.stackFirstDynamicIndex)

Good(c, S) == IsState(c) /\ (~c.error => Body(c, S))

\* The scope the run leaves for is open, or is the one just closed.
GoalIsOpen(c, S) ==
    c.goal.depth # 0 =>
        /\ c.goal.depth \in 2 .. Len(S)
        /\ ~S[c.goal.depth - 1].isPolymorphic
        /\ c.goal.at \in {"end", "else"}
        /\ c.goal.at = "else" => S[c.goal.depth].opcode = "if"

\* The invariant, between two opcodes: the innermost scope has the operands of
\* the program on top of the stack, unless compilation has failed or is over.
IInv ==
    /\ o.f \in Functions /\ o.written = {}
    /\ Good(o, Scopes(o))
    /\ ~o.error /\ ~o.done =>
          TopIs(Scopes(o), Types(o), Block(o).types) /\ GoalIsOpen(o, Scopes(o))

-----------------------------------------------------------------------------
(***************************************************************************)
(* Steps on slots, registers and the stack.                                *)
(***************************************************************************)
Same(c, d) ==
    /\ d.f = c.f /\ d.stackFirstDynamicIndex = c.stackFirstDynamicIndex
    /\ d.slotFirstConstIndex = c.slotFirstConstIndex
    /\ d.slotFirstDynamicIndex = c.slotFirstDynamicIndex
    /\ d.block = c.block /\ d.running = c.running /\ d.goal = c.goal
    /\ DOMAIN d.locals = DOMAIN c.locals

SameLocals(c, d) ==
    \A l \in 1 .. c.stackFirstDynamicIndex : d.stack[l] = c.stack[l]

Follows(c, d) ==
    ~d.error => /\ ~c.error /\ Same(c, d) /\ SameLocals(c, d)
                /\ c.maxStackSlots <= d.maxStackSlots

\* From c to d the stack has not changed, or its types have not.
Calm(c, d, S) ==
    /\ Good(d, S) /\ Follows(c, d) /\ d.error = c.error
    /\ ~d.error => d.stack = c.stack

Keeps(c, d, S) ==
    /\ Good(d, S) /\ Follows(c, d)
    /\ ~d.error => Types(d) = Types(c)

\* What is to be shown of a step for the state to stay sound: where the writes
\* and the items are that it adds.
Near(c, d, S) ==
    /\ Same(c, d) /\ SameLocals(c, d) /\ NoLocalInRegister(d) /\ WritesHeld(d)
    /\ d.maxStackSlots \in Nat /\ c.maxStackSlots <= d.maxStackSlots
    /\ d.slotMaxAllocatedIndexPlusOne \in 0 .. d.maxStackSlots
    /\ d.slotMaxConstIndex \in Nat /\ c.slotFirstConstIndex <= d.slotMaxConstIndex
    /\ d.slotMaxConstIndex <= c.slotFirstDynamicIndex
    /\ d.stack \in Seq(Items) /\ TopScope(S).blockStackIndex <= Len(d.stack)
    /\ \A i \in 1 .. TopScope(S).blockStackIndex : d.stack[i].type = c.stack[i].type
    /\ ItemsHeld(d, S)

Pushes(c, d, type, S) ==
    /\ Good(d, S) /\ Follows(c, d)
    /\ ~d.error => Types(d) = Append(Types(c), type)

\* At most n items less, and none of those beneath the innermost scope.
Drops(c, d, n, S) ==
    /\ Good(d, S) /\ Follows(c, d)
    /\ ~d.error =>
          /\ Len(d.stack) \in TopScope(S).blockStackIndex .. Len(c.stack)
          /\ d.stack = SubSeq(c.stack, 1, Len(d.stack))
          /\ \/ ~TopScope(S).isPolymorphic
             \/ Len(c.stack) - n >= TopScope(S).blockStackIndex
             => Len(d.stack) = Len(c.stack) - n

-----------------------------------------------------------------------------
(***************************************************************************)
(* The operands of an operation: ts are their types before it.             *)
(***************************************************************************)
Yields(c, d, S, ts) ==
    /\ Good(d, S) /\ Follows(c, d)
    /\ ~d.error => TopIs(S, Types(d), ts)

-----------------------------------------------------------------------------
(***************************************************************************)
(* Steps of the program: what it has in the innermost scope, and whether   *)
(* code there is reached, is not what it was.                              *)
(***************************************************************************)
Alike(S, R) ==
    /\ R \in Seq(ScopeSet) /\ Len(R) = Len(S)
    /\ \A k \in 1 .. Len(S) :
          /\ R[k].opcode = S[k].opcode /\ R[k].type = S[k].type
          /\ R[k].blockStackIndex = S[k].blockStackIndex
          /\ R[k].exitStackIndex = S[k].exitStackIndex
          /\ R[k].stackIndex = S[k].stackIndex
          /\ S[k].isPolymorphic => R[k].isPolymorphic
          /\ R[k].dead => R[k].isPolymorphic
    /\ \A k \in 1 .. Len(S) - 1 :
          R[k].types = S[k].types /\ R[k].isPolymorphic = S[k].isPolymorphic

\* All that is not of the program.
SameFrame(c, d) ==
    /\ d.f = c.f /\ d.stack = c.stack /\ DOMAIN d.locals = DOMAIN c.locals
    /\ d.stackFirstDynamicIndex = c.stackFirstDynamicIndex
    /\ d.slotFirstConstIndex = c.slotFirstConstIndex
    /\ d.slotMaxConstIndex = c.slotMaxConstIndex
    /\ d.slotFirstDynamicIndex = c.slotFirstDynamicIndex
    /\ d.slotMaxAllocatedIndexPlusOne = c.slotMaxAllocatedIndexPlusOne
    /\ d.maxStackSlots = c.maxStackSlots /\ d.written = c.written
    /\ d.regStackIndexPlusOne = c.regStackIndexPlusOne

\* d is c with the innermost scope made b.
Retops(c, d, b) ==
    /\ IsState(d) /\ ~d.error /\ SameFrame(c, d)
    /\ d.block = [c.block EXCEPT ![Len(c.block)] = b]
    /\ DOMAIN b = ScopeFields /\ b.opcode = Block(c).opcode /\ b.type = Block(c).type
    /\ b.blockStackIndex = Block(c).blockStackIndex
    /\ b.exitStackIndex = Block(c).exitStackIndex
    /\ b.stackIndex = Block(c).stackIndex /\ b.types \in Seq(ValueTypes)
    /\ b.dead \in BOOLEAN /\ b.isPolymorphic \in BOOLEAN
    /\ Block(c).isPolymorphic => b.isPolymorphic
    /\ b.dead => b.isPolymorphic
    /\ d.running => d.goal.depth = 0 /\ ~b.isPolymorphic

\* What Eval makes of a state.
Retyped(c, d, ts) ==
    /\ IsState(d) /\ d.error = c.error
    /\ ~c.error =>
          /\ Good(d, Scopes(d)) /\ Alike(Scopes(c), Scopes(d)) /\ SameFrame(c, d)
          /\ Block(d).isPolymorphic = Block(c).isPolymorphic
          /\ Block(d).types = ts /\ Block(d).dead = Block(c).dead
          /\ d.running = c.running /\ d.goal = c.goal

\* e is d, which comes of o, with other operands in the innermost scope.
Evolved(d, e) ==
    /\ IsState(e) /\ e.error = d.error
    /\ ~d.error =>
          /\ Good(e, Scopes(e)) /\ GoalIsOpen(e, Scopes(e))
          /\ TopIs(Scopes(e), Types(e), Block(e).types)
          /\ Alike(Scopes(o), Scopes(e)) /\ Types(e) = Types(d)
          /\ TopScope(Scopes(e)).isPolymorphic = TopScope(Scopes(o)).isPolymorphic
          /\ TopScope(Scopes(e)).blockStackIndex = TopScope(Scopes(o)).blockStackIndex
          /\ e.running = o.running /\ e.goal = o.goal /\ e.f = o.f

\* In state d the operands of types us have given way to results of types rs.
Turns(d, us, rs) ==
    \A xs \in Seq(ValueTypes) :
       TopIs(Scopes(o), Types(o), xs \o us) => Yields(o, d, Scopes(o), xs \o rs)

\* Operations of the table.
OperationTyped(op) ==
    op.operands \in Seq(ValueTypes) /\ op.type \in ValueTypes \union {"none"}

-----------------------------------------------------------------------------
(***************************************************************************)
(* Branches, and code after them.                                          *)
(***************************************************************************)
\* Between two opcodes, or two parts of one.
Sound(c) == Good(c, Scopes(c)) /\ (~c.error => GoalIsOpen(c, Scopes(c)))

\* From c to d the run may go another way, and no scope is opened or closed.
Goes(c, d) ==
    /\ Sound(d)
    /\ ~d.error => ~c.error /\ Scopes(d) = Scopes(c) /\ Types(d) = Types(c)

\* A run that does not come by does not go elsewhere.
Idles(c, d) == ~d.error => c.running \/ (~d.running /\ d.goal = c.goal)

\* Code that is not reached, or no more.
Unreachable(c) ==
    /\ Sound(c)
    /\ ~c.error => TopScope(Scopes(c)).isPolymorphic /\ ~c.running

\* What a branch to a scope takes along.
Label(s) == IF s.opcode = "loop" THEN s.type.params ELSE s.type.rets

CanBranch(c, k) ==
    ~c.error => /\ k \in 1 .. Len(Scopes(c))
                /\ \E xs \in Seq(ValueTypes) :
                      TopIs(Scopes(c), Types(c), xs \o Label(Scopes(c)[k]))

UpperPart(s, n) ==
    /\ Upper(s, n) \in Seq(ValueTypes) /\ Len(Upper(s, n)) = n
    /\ \A j \in 1 .. n : Upper(s, n)[j] = s[Len(s) - n + j]

-----------------------------------------------------------------------------
(***************************************************************************)
(* Opening a block.                                                        *)
(***************************************************************************)
\* The stack of d has n more items than that of c, of the first n types of ts.
Grown(c, d, ts, n, S) ==
    /\ Good(d, S) /\ Follows(c, d)
    /\ ~d.error => /\ Len(d.stack) = Len(c.stack) + n
                   /\ \A i \in 1 .. Len(c.stack) : d.stack[i].type = c.stack[i].type
                   /\ \A j \in 1 .. n : d.stack[Len(c.stack) + j].type = ts[j]

\* What the parameters of the block are pushed with.
ParamsHeld(c, S, type, exit, results) ==
    \A k \in 1 .. Len(type.params) :
        /\ GetSlotForStackIndex(results, exit + k) \in Nat
        /\ ~c.error /\ ~TopScope(S).isPolymorphic =>
              ItemHeld(c, [slot |-> GetSlotForStackIndex(results, exit + k),
                           type |-> type.params[k]])

\* A scope that can be opened within scopes S, on a stack of types T.
CanNest(S, T, s) ==
    /\ s \in ScopeSet /\ s.blockStackIndex <= Len(T)
    /\ s.exitStackIndex <= s.blockStackIndex /\ s.stackIndex <= s.blockStackIndex
    /\ s.dead => s.isPolymorphic
    /\ Inside(TopScope(S), s)
    /\ ~TopScope(S).isPolymorphic => Records(T, TopScope(S), s)

\* b is on top of the scopes of d.
ScopeOnTop(e, d, b) ==
    /\ Scopes(d) = Append(Scopes(e), ScopeOf(b)) /\ Block(d) = b
    /\ \E B : d.block \in Seq(B)
    /\ Len(d.block) = Len(e.block) + 1 /\ Len(e.block) \in Nat
    /\ DOMAIN d.block = 1 .. Len(e.block) + 1
    /\ d.block[Len(e.block) + 1] = b
    /\ \A k \in 1 .. Len(e.block) : d.block[k] = e.block[k]

\* The parameters lie on top of the operands xs of the outer scope.
Opening(c, type, opcode, xs) ==
    /\ xs \in Seq(ValueTypes)
    /\ TopIs(Scopes(c), Types(c), xs \o type.params)
    /\ ~TopScope(Scopes(c)).isPolymorphic =>
          Block(c).types = IF opcode = "else" THEN xs ELSE xs \o type.params

\* The stack of popped ends beneath the parameters.
Uncovered(c, popped, S, n) ==
    /\ Good(popped, S) /\ Follows(c, popped)
    /\ ~popped.error =>
          /\ Len(popped.stack) \in TopScope(S).blockStackIndex .. Len(c.stack)
          /\ ~TopScope(S).isPolymorphic => Len(popped.stack) = Len(c.stack) - n

\* The slots of the results are given back, their records stay, and the
\* outer scope has operands of types ts left.
Ready(r, e, ts) ==
    /\ IsState(e)
    /\ ~e.error =>
          /\ Good(e, Scopes(e)) /\ Alike(Scopes(r), Scopes(e))
          /\ e.stack = r.stack /\ e.f = r.f
          /\ e.stackFirstDynamicIndex = r.stackFirstDynamicIndex
          /\ Block(e).types = ts
          /\ Block(e).isPolymorphic = Block(r).isPolymorphic
          /\ e.running = r.running /\ e.goal = r.goal
          /\ \A it \in Items : ItemHeld(r, it) => ItemHeld(e, it)

\* The new scope s, on a stack of types U, of which those of T were there
\* before, and p the scope it is in.
NestsIn(p, s, T, U, xs) ==
    /\ p \in ScopeSet /\ s \in ScopeSet /\ xs \in Seq(ValueTypes)
    /\ Len(T) \in Nat /\ Len(U) = Len(T) + Len(s.type.rets)
    /\ \A i \in 1 .. Len(T) : U[i] = T[i]
    /\ \A j \in 1 .. Len(s.type.rets) : U[Len(T) + j] = s.type.rets[j]
    /\ s.blockStackIndex = Len(U) /\ s.stackIndex = Len(T)
    /\ s.exitStackIndex \in p.blockStackIndex .. Len(T)
    /\ s.isPolymorphic = p.isPolymorphic /\ ~s.dead
    /\ ~p.isPolymorphic =>
          /\ p.types = xs
          /\ s.exitStackIndex = Len(T) - Len(s.type.params)
          /\ Len(T) = p.blockStackIndex + Len(xs \o s.type.params)
          /\ HasTypes(T, p.blockStackIndex, xs \o s.type.params)

\* The scope that OpenBlock adds.
NewScope(c, type, opcode, exit, results) ==
    [opcode |-> opcode, type |-> type,
     blockStackIndex |-> Height(results), exitStackIndex |-> exit,
     isPolymorphic |-> IsStackPolymorphic(c),
     stackIndex |-> Height(c), entry |-> <<>>,
     types |-> type.params, dead |-> FALSE,
     operands |-> IF c.running THEN Upper(Operands(c), Len(type.params)) ELSE <<>>]

\* What is known when a block is opened: r is c with the slots of the results.
Entering(c, type, opcode, xs, popped, r) ==
    /\ Good(c, Scopes(c)) /\ ~c.error /\ type \in FuncTypes
    /\ opcode \in {"block", "loop", "if", "else"}
    /\ Opening(c, type, opcode, xs)
    /\ Uncovered(c, popped, Scopes(c), Len(type.params)) /\ ~popped.error
    /\ Grown(c, r, type.rets, Len(type.rets), Scopes(c)) /\ ~r.error

Entered(c, type, popped, r) ==
    /\ Good(r, Scopes(r)) /\ Scopes(r) = Scopes(c) /\ Same(c, r)
    /\ type.params \in Seq(ValueTypes) /\ type.rets \in Seq(ValueTypes)
    /\ Len(type.params) \in Nat /\ Len(type.rets) \in Nat
    /\ Block(r) = Block(c) /\ IsStackPolymorphic(c) = TopScope(Scopes(c)).isPolymorphic
    /\ Height(c) = Len(c.stack) /\ Height(r) = Len(r.stack)
    /\ Height(popped) = Len(popped.stack)
    /\ Len(c.stack) \in Nat /\ Len(r.stack) = Len(c.stack) + Len(type.rets)
    /\ c.stack \in Seq(Items) /\ r.stack \in Seq(Items)

\* In d a block has begun.
Opened(c, d, type, opcode) ==
    /\ IsState(d)
    /\ ~d.error =>
          /\ ~c.error /\ Good(d, Scopes(d))
          /\ TopIs(Scopes(d), Types(d), Block(d).types) /\ Block(d).types = type.params
          /\ Block(d).type = type /\ Block(d).opcode = opcode
          /\ Len(Scopes(d)) = Len(Scopes(c)) + 1
          /\ \A k \in 1 .. Len(Scopes(c)) :
                /\ Scopes(d)[k].isPolymorphic = Scopes(c)[k].isPolymorphic
                /\ Scopes(d)[k].opcode = Scopes(c)[k].opcode
          /\ Block(d).isPolymorphic = TopScope(Scopes(c)).isPolymorphic
          /\ d.running = c.running /\ d.goal = c.goal /\ d.f = c.f

-----------------------------------------------------------------------------
(***************************************************************************)
(* Closing a block.                                                        *)
(***************************************************************************)
\* Between two opcodes.
Settled(d) == Sound(d) /\ (~d.error => TopIs(Scopes(d), Types(d), Block(d).types))

\* The scope the run has left for has just been closed, or is still open.
GoalNear(c, S) ==
    c.goal.depth # 0 =>
        /\ c.goal.depth \in 2 .. Len(S) + 1
        /\ ~S[c.goal.depth - 1].isPolymorphic
        /\ c.goal.at \in {"end", "else"}
        /\ c.goal.at = "else" /\ c.goal.depth <= Len(S) => S[c.goal.depth].opcode = "if"

\* The run is back if this is where it left for; then it waits for nothing,
\* and otherwise for something else.
Back(e, d, k, at) ==
    /\ Good(d, Scopes(d)) /\ d.error = e.error
    /\ ~e.error =>
          /\ Scopes(d) = Scopes(e) /\ SameFrame(e, d)
          /\ d.goal = e.goal \/ d.goal.depth = 0
          /\ ~(d.goal.depth = k /\ d.goal.at = at)

\* The scopes without the innermost, which is closed.
Outer(S, R) ==
    /\ R \in Seq(ScopeSet) /\ R # <<>> /\ Len(S) \in Nat /\ Len(S) >= 2
    /\ Len(R) = Len(S) - 1 /\ \A k \in 1 .. Len(S) - 1 : R[k] = S[k]
    /\ TopScope(R) = S[Len(S) - 1] /\ TopScope(S) = S[Len(S)]
    /\ TopScope(R) \in ScopeSet /\ TopScope(S) \in ScopeSet

\* What is known of the innermost scope and the one around it.
Closing(S, R, T) ==
    /\ TopScope(R).blockStackIndex \in Nat /\ TopScope(R).isPolymorphic \in BOOLEAN
    /\ TopScope(S).blockStackIndex \in Nat /\ TopScope(S).exitStackIndex \in Nat
    /\ TopScope(S).stackIndex \in Nat
    /\ TopScope(R).blockStackIndex <= TopScope(S).exitStackIndex
    /\ TopScope(R).blockStackIndex <= TopScope(S).stackIndex
    /\ TopScope(R).blockStackIndex <= TopScope(S).blockStackIndex
    /\ TopScope(S).exitStackIndex <= TopScope(S).blockStackIndex
    /\ TopScope(S).stackIndex <= TopScope(S).blockStackIndex
    /\ TopScope(S).blockStackIndex <= Len(T)
    /\ TopScope(R).isPolymorphic => TopScope(S).isPolymorphic
    /\ ~TopScope(R).isPolymorphic => Records(T, TopScope(R), TopScope(S))

\* The innermost block is closed.
Closed(c, d, R) ==
    /\ Good(d, Scopes(d)) /\ ~d.error /\ Scopes(d) = R /\ SameFrame(c, d)
    /\ d.running = c.running /\ d.goal = c.goal

\* The scope has all its results.
Completes(c) == TopIs(Scopes(c), Types(c), TopScope(Scopes(c)).type.rets)

\* What is left when the scope of c has been left.
LeftBehind(c, l) ==
    /\ IsState(l)
    /\ ~l.error =>
          /\ Sound(l) /\ Scopes(l) = Scopes(c)
          /\ Len(l.stack) = TopScope(Scopes(c)).blockStackIndex
          /\ Block(c).opcode = "if" => ~l.running

\* An if whose first part has ended: s is its scope. The stack still has the
\* records of its results; cut down to its parameters it is what the other
\* part begins with.
Halfway(c, s) ==
    /\ Good(c, Scopes(c)) /\ ~c.error /\ GoalNear(c, Scopes(c)) /\ s.type \in FuncTypes
    /\ LET x == [c EXCEPT !.stack = SubSeq(c.stack, 1, s.stackIndex)]
       IN /\ Good(x, Scopes(x)) /\ ~x.error /\ Scopes(x) = Scopes(c) /\ x.goal = c.goal
          /\ TopIs(Scopes(x), Types(x), TopScope(Scopes(x)).types \o s.type.params)
    /\ s.type.params = <<>> /\ s.type.rets = <<>> =>
          TopIs(Scopes(c), Types(c), Block(c).types)

\* The other part of an if has begun.
ElseOpen(d, type) ==
    /\ Settled(d)
    /\ ~d.error => /\ Len(Scopes(d)) >= 2 /\ Block(d).types = type.params
                   /\ Block(d).type = type /\ Block(d).opcode = "else"

-----------------------------------------------------------------------------
(***************************************************************************)
(* The arguments and locals of a function.                                 *)
(***************************************************************************)
\* One more local, or argument.
Placed(c, d, type) ==
    /\ IsState(d) /\ d.f = c.f
    /\ ~d.error =>
          LET s == FindSlots(c, type)
          IN /\ ~c.error /\ s # SlotUnused
             /\ d.stack = Append(c.stack, [slot |-> s, type |-> type])
             /\ d.locals = Append(c.locals, Len(c.locals) + 1)
             /\ d.m3Slots = [t \in DOMAIN c.m3Slots |->
                                IF t \in SlotsOf(s, type) THEN 1 ELSE c.m3Slots[t]]
             /\ d.slotMaxAllocatedIndexPlusOne =
                   Max({c.slotMaxAllocatedIndexPlusOne, s + GetTypeNumSlots(type)})
             /\ d.regStackIndexPlusOne = c.regStackIndexPlusOne
             /\ d.slotFirstDynamicIndex = c.slotFirstDynamicIndex
             /\ d.block = c.block /\ d.goal = c.goal

\* An argument or local: where it lies no other does, and below the slots that
\* are free for others.
LocalItems == [slot : Nat, type : ValueTypes]

ItemEnd(it) == it.slot + GetTypeNumSlots(it.type)

Laid(c, it) ==
    /\ ItemEnd(it) <= MaxSlots /\ c.m3Slots[it.slot] # 0
    /\ \/ ItemEnd(it) <= c.slotFirstDynamicIndex
       \/ /\ ItemEnd(it) <= c.slotMaxAllocatedIndexPlusOne
          /\ c.m3Slots[ItemEnd(it) - 1] # 0

\* The state while arguments and locals get their slots.
SetUp(c, f) ==
    /\ c.stack \in Seq(LocalItems) /\ c.locals \in Seq(Nat)
    /\ Len(c.locals) = Len(c.stack)
    /\ DOMAIN c.m3Slots = 0 .. MaxSlots - 1
    /\ c.slotFirstDynamicIndex \in Nat /\ c.slotMaxAllocatedIndexPlusOne \in Nat
    /\ Len(f.type.rets) * ioSlotCount <= c.slotFirstDynamicIndex
    /\ c.regStackIndexPlusOne = Blank(f).regStackIndexPlusOne
    /\ c.block = Blank(f).block /\ c.goal = NoGoal
    /\ \A i \in 1 .. Len(c.stack) : Laid(c, c.stack[i])
    /\ \A i, j \in 1 .. Len(c.stack) : c.stack[i].slot = c.stack[j].slot => i = j

SettingUp(c, f) == IsState(c) /\ c.f = f /\ (~c.error => SetUp(c, f))

\* While it is the arguments, the slots from the first dynamic one on are free.
ArgsOnly(c) ==
    ~c.error =>
        /\ c.slotFirstDynamicIndex % 2 = 0
        /\ \A t \in c.slotFirstDynamicIndex .. MaxSlots - 1 : c.m3Slots[t] = 0
        /\ \A i \in 1 .. Len(c.stack) : ItemEnd(c.stack[i]) <= c.slotFirstDynamicIndex

\* What holds when the first opcode of a function is compiled.
AtStart(d, f) ==
    /\ d.f = f /\ d.written = {} /\ Good(d, Scopes(d))
    /\ ~d.error => TopIs(Scopes(d), Types(d), Block(d).types) /\ GoalIsOpen(d, Scopes(d))

\* The scope of the function, above h arguments and locals.
FunctionScope(f, h) ==
    [opcode |-> "function", type |-> f.type, blockStackIndex |-> h,
     exitStackIndex |-> 0, isPolymorphic |-> FALSE, stackIndex |-> 0,
     types |-> <<>>, dead |-> FALSE]

BlocksAbove(blocks, h) == [blocks EXCEPT ![1].blockStackIndex = h]

-----------------------------------------------------------------------------
(***************************************************************************)
(* The states the loops over several items go through.                     *)
(***************************************************************************)
\* The states CopyStackSlots goes through.
CopyRun(c, target, from, n, tempSlot, go) ==
    /\ CopyStackSlots(c, target, from, n, tempSlot) = [go[n].state EXCEPT !.stack = c.stack]
    /\ go[0] = [state |-> c, temp |-> tempSlot]
    /\ \A k \in 1 .. n :
          go[k] = CopyStackSlot(go[k - 1], GetSlotForStackIndex(go[k - 1].state, target + k),
                                from + k, from + n)

\* The states ReturnValues goes through.
ReturnRun(c, n, go) ==
    /\ go[0] = c /\ \A k \in 1 .. n : go[k] = ReturnValue(go[k - 1], k)
    /\ \A isBranch \in BOOLEAN :
          \/ ReturnValues(c, isBranch) = Fail(c)
          \/ /\ ~c.error
             /\ LET copied == IF IsStackPolymorphic(c) THEN c ELSE go[n]
                IN ReturnValues(c, isBranch) = IF isBranch THEN copied ELSE Pops(copied, n)

\* go[k] is what TakeResults has made after k steps of M.
ResultRun(c, type, topSlot, M, go) ==
    /\ TakeResults(c, type, topSlot) = go[M] /\ go[0] = c
    /\ \A k \in 1 .. M : go[k] = TakeResult(go[k - 1], k, type, topSlot)

\* A call of type's arguments and results are not too many.
CallFits(type) ==
    /\ Len(type.params) \in Nat /\ Len(type.rets) \in Nat
    /\ 2 * (Len(type.params) + Len(type.rets)) <= MaxCallSlots

\* go[k] is what PassArgs has made after k steps of M.
ArgRun(c, type, topSlot, skipped, M, go) ==
    /\ PassArgs(c, type, topSlot, skipped) = go[M] /\ go[0] = c
    /\ \A k \in 1 .. M : go[k] = PassArg(go[k - 1], k, type, topSlot, skipped)

\* go[k] is what PushBlockResults has made after k steps of M.
BlockResultRun(c, type, M, go) ==
    /\ PushBlockResults(c, type) = go[M] /\ go[0] = c
    /\ \A k \in 1 .. M : go[k] = PushResult(go[k - 1], k, type)

\* go[k] is what PushParams has made after k steps of M.
ParamRun(c, type, exit, results, M, go) ==
    /\ PushParams(c, type, exit, results) = go[M] /\ go[0] = c
    /\ \A k \in 1 .. M :
          go[k] = PushParam(go[k - 1], k, type, GetSlotForStackIndex(results, exit + k))

\* go[k] is what InstantiateConstants has made after k steps of M.
ConstantRun(c, type, M, go) ==
    /\ InstantiateConstants(c, type) = go[M] /\ go[0] = c
    /\ \A k \in 1 .. M : go[k] = InstantiateConstant(go[k - 1], Height(c) - M + k)

\* go[k] is what PushArgs has made after k steps of M.
ArgSetUpRun(c, types, M, go) ==
    /\ PushArgs(c, types) = go[M] /\ go[0] = c
    /\ \A k \in 1 .. M : go[k] = PushArg(go[k - 1], types[k])

\* go[k] is what PushLocals has made after k steps of M.
LocalSetUpRun(c, types, M, go) ==
    /\ PushLocals(c, types) = go[M] /\ go[0] = c
    /\ \A k \in 1 .. M : go[k] = PushLocal(go[k - 1], types[k])
=============================================================================
