---------------------------- MODULE M3ExecProofs ----------------------------
(***************************************************************************)
(* The properties of the interpreter for every module, every depth of      *)
(* calls and every size of stack and memory.                               *)
(*                                                                         *)
(* The invariant says which frames of C can stand on which, that the code  *)
(* that runs and each that waits is nested in the frames of its own loops, *)
(* and that a call site without code keeps the runtime from being used.    *)
(***************************************************************************)
EXTENDS M3Exec, FiniteSetTheorems, SequenceTheorems, TLAPS

\* The functions that the embedding program waits in.
Hosted == {"m3_Call", "m3_RunStart"}
Codes ==
  [fn : Functions \union {"none"}, sp : Nat, fresh : BOOLEAN, open : Seq(Loops),
   pos : Loops \union {0}]
Frame ==
  [op : Hosted \union {"Call", "Loop", "Raw"}, code : Codes,
   fn : Functions \union {"none"}, stack : Nat]

Outcomes ==
  [is : {"running", "host", "none", "trap", "loop", "failed"},
   loop : Nat, open : Seq(Loops)]

Types ==
  /\ memory.numPages \in 0 .. MaxPages /\ memory.length \in Nat /\ memory.maxStack \in Nat
  /\ memory = [numPages |-> memory.numPages, length |-> memory.length,
                maxStack |-> memory.maxStack, cells |-> memory.cells]
  /\ written \subseteq Nat
  /\ runtime \in [stack : Nat, lastCalled : Functions \union {"none"},
                  startFunction : {"none", StartFunction}]
  /\ compiled \subseteq Functions \ Broken
  /\ sites \in [Functions -> {"Compile", "Call", "unpatched"}]
  /\ frames \in Seq(Frame)
  /\ run \in Codes /\ run.fresh
  /\ r \in Outcomes
  /\ wild \in BOOLEAN

-----------------------------------------------------------------------------
\* What is true of the k-th of the frames fs.

\* The embedding program calls code only from the outside or from a host
\* function, and a host function is called only by code.
Stands(fs, k) ==
  /\ fs[k].op \in Hosted <=> k = 1 \/ fs[k - 1].op = "Raw"
  /\ fs[k].op = "Raw" => fs[k - 1].op = "Call"

\* What a frame needs to go on.
Holds(f) ==
  /\ f.op \in {"Call", "Loop"} => f.code.fn \in Functions
  /\ f.op \in Hosted => f.fn \in Functions
  /\ f.op = "m3_RunStart" => StartFunction # "none"

\* The first of the host functions has found the stack of the runtime empty.
StackBelow(fs, k) == \E i \in 1 .. k - 1 : fs[i].op = "Raw"
Saves(fs, k) == fs[k].op = "Raw" => StackBelow(fs, k) \/ fs[k].stack = 0

-----------------------------------------------------------------------------
\* The frames of op_Loop directly below the k-th frame.
Block(fs, k) == { i \in 1 .. k - 1 : \A m \in i .. k - 1 : fs[m].op = "Loop" }

\* The loops a code has open are one in the other, around the last it came past.
Nested(c) ==
  \A j \in DOMAIN c.open :
    /\ c.open[j] \in Around(c.pos)
    /\ \A i \in 1 .. j : c.open[i] \in Around(c.open[j])

\* Each of them has its frame among those of the activation, which are of
\* loops the code has come past.
Within(fs, k, c) ==
  /\ \A j \in DOMAIN c.open : \E i \in Block(fs, k) : fs[i].code.open = SubSeq(c.open, 1, j)
  /\ \A i \in Block(fs, k) : fs[i].code.pos <= c.pos

\* A frame of op_Loop is of the innermost loop its code has open, a later one
\* than those of the frames below.
OfItsLoop(fs, k) ==
  /\ fs[k].op = "Loop" =>
       /\ fs[k].code.open # <<>> /\ Last(fs[k].code.open) = fs[k].code.pos
       /\ \A i \in Block(fs, k) : fs[i].code.pos < fs[k].code.pos
       /\ Nested(fs[k].code) /\ Within(fs, k + 1, fs[k].code)
  /\ fs[k].op = "Call" => Nested(fs[k].code) /\ Within(fs, k, fs[k].code)

Good(fs, k) ==
  Stands(fs, k) /\ Holds(fs[k]) /\ Saves(fs, k) /\ OfItsLoop(fs, k)

Standing == \A k \in DOMAIN frames : Good(frames, k)

Framed ==
  /\ StackBelow(frames, Len(frames) + 1) \/ runtime.stack = 0
  /\ r.is \in {"host", "failed"} <=> frames = <<>> \/ Top.op = "Raw"
  /\ Computes => run.fn \in Functions

Looping ==
  /\ Computes => Nested(run) /\ Within(frames, Len(frames) + 1, run)
  /\ r.is = "loop" =>
       /\ r.open # <<>> /\ Last(r.open) = r.loop
       /\ \E i \in Block(frames, Len(frames) + 1) : frames[i].code.open = r.open

\* A call site that was left without code stops the calls into the runtime.
Patched == (\E fn \in Functions : sites[fn] = "unpatched") => r.is \in {"trap", "failed"}

IInv == Types /\ Standing /\ Framed /\ Looping /\ Patched /\ ~wild /\ ResultsOfLastCall

\* Under hypotheses on the constants.
Size == memory.numPages * PageSize
Contents == memory.length = Size /\ written \subseteq 0 .. Size - 1 /\ ContentsKept

Fits(c) == c.sp + FrameSlots[c.fn] < NumStackSlots /\ c.sp % 2 = 0
Based(stack) == stack <= NumStackSlots /\ stack % 2 = 0
FitIn(fs) ==
  \A k \in DOMAIN fs :
    /\ fs[k].op \in {"Call", "Loop"} => Fits(fs[k].code)
    /\ Based(fs[k].stack)
Stacked ==
  /\ memory.maxStack = NumStackSlots
  /\ FitIn(frames) /\ Based(runtime.stack)
  /\ Computes => Fits(run)

-----------------------------------------------------------------------------
(***************************************************************************)
(* Sets of numbers: the largest member, and the loops around a loop.       *)
(***************************************************************************)
LEMMA LeastOf ==
  ASSUME NEW ns \in SUBSET Nat, ns # {}
  PROVE  \E n \in ns : \A m \in ns : n <= m
<1> DEFINE ts == {0 .. n : n \in ns}
           before == StrictSubsetOrdering(Nat)
<1>1. IsWellFoundedOn(before, FiniteSubsetsOf(Nat))
  BY FS_StrictSubsetOrderingWellFounded
<1>2. ts \subseteq FiniteSubsetsOf(Nat) /\ ts # {}
  <2>1. ASSUME NEW n \in ns PROVE 0 .. n \in FiniteSubsetsOf(Nat)
    BY FS_Interval DEF FiniteSubsetsOf
  <2> QED BY <2>1
<1>3. PICK x \in ts : \A y \in ts : ~(<<y, x>> \in before)
  <2> HIDE DEF before, ts
  <2> QED BY <1>1, <1>2, WFMin
<1>4. PICK n \in ns : x = 0 .. n
  OBVIOUS
<1>5. ASSUME NEW m \in ns PROVE n <= m
  <2>1. ~(<<0 .. m, 0 .. n>> \in before)
    BY <1>3, <1>4
  <2> SUFFICES ASSUME m < n PROVE FALSE
    OBVIOUS
  <2>2. 0 .. m \subseteq 0 .. n /\ 0 .. m # 0 .. n
        /\ 0 .. m \in SUBSET Nat /\ 0 .. n \in SUBSET Nat
    <3>1. m \in Nat /\ n \in Nat
      OBVIOUS
    <3> HIDE DEF ts, before
    <3>2. n \in 0 .. n /\ n \notin 0 .. m
      BY <3>1
    <3>3. 0 .. m \subseteq 0 .. n
      BY <3>1
    <3>4. 0 .. m \in SUBSET Nat /\ 0 .. n \in SUBSET Nat
      BY <3>1
    <3> QED BY <3>2, <3>3, <3>4
  <2>3. <<0 .. m, 0 .. n>> \in before
    BY <2>2 DEF StrictSubsetOrdering
  <2> QED BY <2>1, <2>3
<1> QED BY <1>5

LEMMA MaxOf ==
  ASSUME NEW n \in Nat, NEW ks \in SUBSET (1 .. n), ks # {}
  PROVE  Max(ks) \in ks /\ \A k \in ks : k <= Max(ks)
<1> DEFINE ns == {n - k : k \in ks}
<1>1. ns \in SUBSET Nat /\ ns # {}
  <2>1. \A k \in ks : n - k \in Nat
    OBVIOUS
  <2> QED BY <2>1
<1>2. PICK m \in ns : \A j \in ns : m <= j
  <2> HIDE DEF ns
  <2> QED BY <1>1, LeastOf
<1>3. PICK x \in ks : m = n - x
  OBVIOUS
<1>4. ASSUME NEW k \in ks PROVE x >= k
  <2>1. n - k \in ns
    OBVIOUS
  <2>2. n - x <= n - k
    BY <1>2, <1>3, <2>1
  <2> QED BY <2>2
<1> QED BY <1>4 DEF Max

LEMMA LoopsAreNumbered ==
  Loops = 1 .. Len(Outer) /\ Len(Outer) \in Nat /\ Outer \in Seq(Nat)
<1>1. Outer \in Seq(Nat)
  BY ExecAssumption
<1> QED BY <1>1 DEF Loops

\* A loop is around later ones.
LEMMA OuterIsEarlier == \A l \in Loops : Outer[l] \in 0 .. l - 1
BY ExecAssumption

LEMMA AroundItself == ASSUME NEW l \in Loops PROVE l \in Around(l)
BY DEF Around

LEMMA AroundOuter ==
  ASSUME NEW l \in Loops, Outer[l] # 0
  PROVE  Outer[l] \in Around(l)
<1>1. Outer[l] \in Loops
  BY SMTT(40), LoopsAreNumbered, OuterIsEarlier
<1> QED BY <1>1 DEF Around, Closed

LEMMA AroundAround ==
  ASSUME NEW k, NEW l \in Around(k), NEW m \in Around(l)
  PROVE  m \in Around(k)
BY DEF Around

LEMMA LastInsideIsLater ==
  ASSUME NEW l \in Loops
  PROVE  /\ LastInside(l) \in Loops /\ l \in Around(LastInside(l))
         /\ \A k \in Loops : l \in Around(k) => k <= LastInside(l)
<1> DEFINE ks == { k \in Loops : l \in Around(k) }
<1>1. ks # {} /\ ks \in SUBSET (1 .. Len(Outer))
  BY AroundItself, LoopsAreNumbered
<1>2. Max(ks) \in ks /\ \A k \in ks : k <= Max(ks)
  BY <1>1, LoopsAreNumbered, MaxOf
<1> QED BY <1>2 DEF LastInside

-----------------------------------------------------------------------------
(***************************************************************************)
(* Stacks of frames.                                                       *)
(***************************************************************************)
LEMMA FrontOf ==
  ASSUME NEW T, NEW s \in Seq(T), s # <<>>
  PROVE  /\ Front(s) \in Seq(T) /\ Len(Front(s)) = Len(s) - 1 /\ Len(s) >= 1
         /\ \A i \in 1 .. Len(s) - 1 : Front(s)[i] = s[i]
         /\ Last(s) = s[Len(s)] /\ Last(s) \in T
<1>1. Len(s) \in Nat /\ Len(s) >= 1 /\ \A i \in 1 .. Len(s) - 1 : s[i] \in T
  OBVIOUS
<1>2. Front(s) \in Seq(T)
  BY <1>1, SubSeqProperties DEF Front
<1>3. /\ Len(SubSeq(s, 1, Len(s) - 1)) = IF 1 <= Len(s) - 1 THEN Len(s) - 1 - 1 + 1 ELSE 0
      /\ \A i \in 1 .. Len(s) - 1 - 1 + 1 : SubSeq(s, 1, Len(s) - 1)[i] = s[1 + i - 1]
  BY <1>1, SubSeqProperties
<1>4. Front(s) = SubSeq(s, 1, Len(s) - 1) /\ Last(s) = s[Len(s)]
  BY DEF Front, Last
<1>5. Last(s) \in T
  BY <1>1, <1>4
<1>6. Len(Front(s)) = Len(s) - 1
  <2>1. PICK n \in Nat : n = Len(s)
    BY <1>1
  <2>2. Len(Front(s)) = IF 1 <= n - 1 THEN n - 1 - 1 + 1 ELSE 0
    BY <1>3, <1>4, <2>1
  <2>3. n >= 1
    BY <1>1, <2>1
  <2> QED BY <2>1, <2>2, <2>3
<1>7. ASSUME NEW i \in 1 .. Len(s) - 1 PROVE Front(s)[i] = s[i]
  <2>1. SubSeq(s, 1, Len(s) - 1)[i] = s[1 + i - 1] /\ 1 + i - 1 = i
    BY <1>1, <1>3
  <2> QED BY <1>4, <2>1
<1> QED BY <1>1, <1>2, <1>4, <1>5, <1>6, <1>7

LEMMA AppendTo ==
  ASSUME NEW T, NEW s \in Seq(T), NEW x \in T
  PROVE  /\ Append(s, x) \in Seq(T) /\ Len(Append(s, x)) = Len(s) + 1
         /\ Append(s, x)[Len(s) + 1] = x /\ Last(Append(s, x)) = x
         /\ \A i \in 1 .. Len(s) : Append(s, x)[i] = s[i]
         /\ Append(s, x) # <<>>
BY DEF Last

LEMMA CodeFields ==
  ASSUME NEW c \in Codes
  PROVE  c.pos \in Nat /\ c.open \in Seq(Loops) /\ c.sp \in Nat
BY LoopsAreNumbered DEF Codes

LEMMA FrameFields ==
  ASSUME NEW fs \in Seq(Frame), NEW i \in DOMAIN fs
  PROVE  /\ fs[i] \in Frame /\ fs[i].code \in Codes
         /\ fs[i].code.pos \in Nat /\ fs[i].code.open \in Seq(Loops) /\ fs[i].code.sp \in Nat
<1>1. fs[i] \in Frame
  OBVIOUS
<1>2. fs[i].code \in Codes
  BY <1>1 DEF Frame
<1> QED BY <1>1, <1>2, CodeFields

LEMMA BlockFrames ==
  ASSUME NEW fs \in Seq(Frame)
  PROVE  Block(fs, Len(fs) + 1) \subseteq DOMAIN fs
BY DEF Block

\* All but the freshness of its _mem.
Alike(f, g) ==
  /\ g.op = f.op /\ g.fn = f.fn /\ g.stack = f.stack
  /\ g.code.fn = f.code.fn /\ g.code.sp = f.code.sp
  /\ g.code.open = f.code.open /\ g.code.pos = f.code.pos

\* What is true of a frame depends on it and on the frames below.
LEMMA SameBelow ==
  ASSUME NEW fs \in Seq(Frame), NEW gs \in Seq(Frame), NEW n \in Nat,
         n <= Len(fs), n <= Len(gs), \A i \in 1 .. n : Alike(fs[i], gs[i])
  PROVE  /\ \A k \in 1 .. n + 1 : Block(gs, k) = Block(fs, k)
         /\ \A k \in 1 .. n + 1 : StackBelow(gs, k) <=> StackBelow(fs, k)
         /\ \A k \in 1 .. n + 1 : \A c \in Codes : Within(fs, k, c) => Within(gs, k, c)
         /\ \A k \in 1 .. n : Good(fs, k) => Good(gs, k)
<1>1. ASSUME NEW k \in 1 .. n + 1 PROVE Block(gs, k) = Block(fs, k)
  <2>1. \A m \in 1 .. n : (gs[m].op = "Loop") <=> (fs[m].op = "Loop")
    BY DEF Alike
  <2>2. ASSUME NEW i \in 1 .. k - 1
        PROVE  (\A m \in i .. k - 1 : gs[m].op = "Loop")
                 <=> (\A m \in i .. k - 1 : fs[m].op = "Loop")
    BY <2>1
  <2> QED BY <2>2 DEF Block
<1>2. ASSUME NEW k \in 1 .. n + 1 PROVE StackBelow(gs, k) <=> StackBelow(fs, k)
  BY SMTT(40) DEF StackBelow, Alike
<1>3. ASSUME NEW k \in 1 .. n + 1 PROVE Block(fs, k) \subseteq 1 .. n
  BY DEF Block
<1>4. ASSUME NEW k \in 1 .. n + 1, NEW c, Within(fs, k, c) PROVE Within(gs, k, c)
  BY ZenonT(60), <1>1, <1>3, <1>4 DEF Within, Alike
<1>5. ASSUME NEW k \in 1 .. n, Good(fs, k) PROVE Good(gs, k)
  <2>1. Alike(fs[k], gs[k]) /\ k \in 1 .. n + 1 /\ k + 1 \in 1 .. n + 1
    OBVIOUS
  <2>2. Stands(gs, k)
    <3>1. k = 1 \/ Alike(fs[k - 1], gs[k - 1])
      OBVIOUS
    <3>2. CASE k = 1
      BY <1>5, <2>1, <3>2 DEF Good, Stands, Alike, Hosted
    <3>3. CASE Alike(fs[k - 1], gs[k - 1])
      BY <1>5, <2>1, <3>3 DEF Good, Stands, Alike
    <3> QED BY <3>1, <3>2, <3>3
  <2>3. Holds(gs[k]) /\ Saves(gs, k)
    BY <1>2, <1>5, <2>1 DEF Good, Holds, Saves, Alike
  <2>4. Nested(fs[k].code) => Nested(gs[k].code)
    BY <2>1 DEF Nested, Alike
  <2>5. \A j \in {k, k + 1} : Within(gs, j, fs[k].code) => Within(gs, j, gs[k].code)
    BY <2>1 DEF Within, Alike
  <2>6. \A i \in Block(fs, k) : gs[i].code.pos = fs[i].code.pos
    BY <1>3, <2>1 DEF Alike
  <2>7. OfItsLoop(gs, k)
    BY <1>1, <1>4, <1>5, <2>1, <2>4, <2>5, <2>6 DEF Good, OfItsLoop, Alike
  <2> QED BY <2>2, <2>3, <2>7 DEF Good
<1> QED BY <1>1, <1>2, <1>4, <1>5

\* A frame less.
LEMMA Popping ==
  ASSUME NEW fs \in Seq(Frame), fs # <<>>
  PROVE  /\ Front(fs) \in Seq(Frame) /\ Len(Front(fs)) = Len(fs) - 1 /\ Len(fs) \in Nat
         /\ Len(fs) >= 1
         /\ Last(fs) = fs[Len(fs)] /\ Last(fs) \in Frame
         /\ \A i \in 1 .. Len(fs) - 1 : Front(fs)[i] = fs[i]
         /\ Block(Front(fs), Len(fs)) = Block(fs, Len(fs))
         /\ StackBelow(Front(fs), Len(fs)) <=> StackBelow(fs, Len(fs))
         /\ \A c \in Codes : Within(fs, Len(fs), c) => Within(Front(fs), Len(fs), c)
         /\ \A k \in 1 .. Len(fs) - 1 : Good(fs, k) => Good(Front(fs), k)
<1>1. /\ Front(fs) \in Seq(Frame) /\ Len(Front(fs)) = Len(fs) - 1 /\ Len(fs) >= 1
      /\ \A i \in 1 .. Len(fs) - 1 : Front(fs)[i] = fs[i]
      /\ Last(fs) = fs[Len(fs)] /\ Last(fs) \in Frame
  BY FrontOf
<1>2. Len(fs) - 1 \in Nat /\ Len(fs) \in Nat /\ Len(fs) - 1 + 1 = Len(fs)
  BY <1>1
<1>3. \A i \in 1 .. Len(fs) - 1 : Alike(fs[i], Front(fs)[i])
  BY <1>1 DEF Alike
<1> DEFINE n == Len(fs) - 1
<1>4. /\ \A k \in 1 .. n + 1 : Block(Front(fs), k) = Block(fs, k)
      /\ \A k \in 1 .. n + 1 : StackBelow(Front(fs), k) <=> StackBelow(fs, k)
      /\ \A k \in 1 .. n + 1 : \A c \in Codes : Within(fs, k, c) => Within(Front(fs), k, c)
      /\ \A k \in 1 .. n : Good(fs, k) => Good(Front(fs), k)
  <2>1. n \in Nat /\ n <= Len(fs) /\ n <= Len(Front(fs))
        /\ \A i \in 1 .. n : Alike(fs[i], Front(fs)[i])
    BY <1>1, <1>2, <1>3
  <2> HIDE DEF n
  <2> QED BY <1>1, <2>1, SameBelow
<1>5. Len(fs) \in 1 .. n + 1
  BY <1>1, <1>2
<1> QED BY <1>1, <1>2, <1>4, <1>5

\* A frame more.
LEMMA Pushing ==
  ASSUME NEW fs \in Seq(Frame), NEW f \in Frame
  PROVE  /\ Append(fs, f) \in Seq(Frame) /\ Len(Append(fs, f)) = Len(fs) + 1
         /\ Len(fs) \in Nat
         /\ Append(fs, f)[Len(fs) + 1] = f /\ Last(Append(fs, f)) = f
         /\ Append(fs, f) # <<>>
         /\ \A i \in 1 .. Len(fs) : Append(fs, f)[i] = fs[i]
         /\ Block(Append(fs, f), Len(fs) + 1) = Block(fs, Len(fs) + 1)
         /\ StackBelow(Append(fs, f), Len(fs) + 1) <=> StackBelow(fs, Len(fs) + 1)
         /\ \A c \in Codes : Within(fs, Len(fs) + 1, c)
                                => Within(Append(fs, f), Len(fs) + 1, c)
         /\ \A k \in 1 .. Len(fs) : Good(fs, k) => Good(Append(fs, f), k)
<1>1. /\ Append(fs, f) \in Seq(Frame) /\ Len(Append(fs, f)) = Len(fs) + 1
      /\ Append(fs, f)[Len(fs) + 1] = f /\ Last(Append(fs, f)) = f
      /\ \A i \in 1 .. Len(fs) : Append(fs, f)[i] = fs[i]
      /\ Append(fs, f) # <<>>
  BY AppendTo
<1>2. Len(fs) \in Nat /\ Len(fs) <= Len(fs) /\ Len(fs) <= Len(Append(fs, f))
  BY <1>1
<1>3. \A i \in 1 .. Len(fs) : Alike(fs[i], Append(fs, f)[i])
  BY <1>1 DEF Alike
<1>4. /\ \A k \in 1 .. Len(fs) + 1 : Block(Append(fs, f), k) = Block(fs, k)
      /\ \A k \in 1 .. Len(fs) + 1 : StackBelow(Append(fs, f), k) <=> StackBelow(fs, k)
      /\ \A k \in 1 .. Len(fs) + 1 :
           \A c \in Codes : Within(fs, k, c) => Within(Append(fs, f), k, c)
      /\ \A k \in 1 .. Len(fs) : Good(fs, k) => Good(Append(fs, f), k)
  BY <1>1, <1>2, <1>3, SameBelow
<1>5. Len(fs) + 1 \in 1 .. Len(fs) + 1
  BY <1>2
<1> QED BY <1>1, <1>2, <1>4, <1>5

-----------------------------------------------------------------------------
(***************************************************************************)
(* The invariant holds at first and after each step.                       *)
(***************************************************************************)
USE DEF Computes, Top

LEMMA Constants ==
  /\ Idle \in Codes /\ Idle.fresh
  /\ \A fn \in Functions, sp \in Nat : Code(fn, sp) \in Codes
  /\ \A sp \in Nat : Code("none", sp) \in Codes
  /\ Running \in Outcomes /\ InHost \in Outcomes /\ Returned \in Outcomes /\ Trapped \in Outcomes
  /\ Running.is = "running" /\ InHost.is = "host"
  /\ Returned.is = "none" /\ Trapped.is = "trap"
<1>1. <<>> \in Seq(Loops)
  OBVIOUS
<1> QED BY <1>1 DEF Idle, Code, Codes, Running, InHost, Returned, Trapped, Outcomes

LEMMA ConstantTypes ==
  /\ MaxPages \in Nat /\ PageSize \in Nat /\ HeaderSize \in Nat /\ U32 \in Nat \ {0}
  /\ NumStackSlots \in Nat /\ NumStackSlots % 2 = 0 /\ FrameSlots \in [Functions -> Nat]
  /\ "none" \notin Functions /\ StartFunction \in Functions \union {"none"}
BY ExecAssumption

LEMMA Resized ==
  ASSUME NEW m, NEW pages \in 0 .. MaxPages, NEW stack \in Nat
  PROVE  LET new == ResizeMemory(m, pages, stack)
         IN /\ new.numPages \in 0 .. MaxPages /\ new.length \in Nat /\ new.maxStack \in Nat
            /\ new = [numPages |-> new.numPages, length |-> new.length,
                      maxStack |-> new.maxStack, cells |-> new.cells]
<1>1. pages * PageSize \in Nat
  BY ConstantTypes
<1>2. (pages * PageSize) % U32 \in Nat
  BY <1>1, ConstantTypes
<1> QED BY <1>2, ConstantTypes DEF ResizeMemory

\* Steps that leave the frames and the stack alone and do not enter code.
LEMMA Quiet ==
  ASSUME IInv, UNCHANGED <<frames, runtime, holds>>,
         UNCHANGED <<run, r>> \/ (Computes /\ run' = Idle /\ r' \in {Returned, Trapped})
  PROVE  /\ Standing' /\ Framed' /\ Looping' /\ ResultsOfLastCall'
         /\ frames' \in Seq(Frame) /\ runtime' = runtime
         /\ run' \in Codes /\ run'.fresh /\ r' \in Outcomes
<1>1. /\ run' \in Codes /\ run'.fresh /\ r' \in Outcomes /\ frames' \in Seq(Frame)
      /\ runtime' = runtime
  BY Constants DEF IInv, Types
<1>2. Standing' /\ ResultsOfLastCall'
  BY DEF IInv, Standing, ResultsOfLastCall
<1>3. CASE UNCHANGED <<run, r>>
  BY <1>1, <1>2, <1>3 DEF IInv, Framed, Looping
<1>4. CASE Computes /\ run' = Idle /\ r' \in {Returned, Trapped}
  <2>1. r'.is \in {"none", "trap"} /\ r.is = "running"
    BY <1>4, Constants
  <2> QED BY <1>1, <1>2, <2>1 DEF IInv, Framed, Looping
<1> QED BY <1>3, <1>4

LEMMA FindFunctionKeeps ==
  ASSUME IInv, NEW fn \in Functions, FindFunction(fn)
  PROVE  IInv'
<1>1. UNCHANGED <<frames, runtime, holds, run, r, memory, written, sites, wild>>
      /\ fn \notin Broken /\ compiled' = compiled \union {fn}
  BY DEF FindFunction
<1> QED BY <1>1, Quiet DEF IInv, Types, Patched

LEMMA ReturnKeeps ==
  ASSUME IInv, Return \/ Unreachable
  PROVE  IInv'
<1>1. /\ UNCHANGED <<frames, runtime, holds, memory, written, sites, wild, compiled>>
      /\ Computes /\ run' = Idle /\ r' \in {Returned, Trapped}
  BY DEF Return, Unreachable, Trap
<1> QED BY <1>1, Quiet DEF IInv, Types, Patched

LEMMA AccessKeeps ==
  ASSUME IInv, NEW allowed, NEW bytes \in SUBSET Nat, NEW cell, NEW data \in SUBSET Nat,
         Access(allowed, bytes, cell, data)
  PROVE  IInv'
<1>1. /\ UNCHANGED <<frames, runtime, holds, sites, wild, compiled>>
      /\ Computes
      /\ UNCHANGED <<run, r>> \/ (run' = Idle /\ r' = Trapped)
  BY DEF Access, Trap
<1>2. memory' = memory \/ (\E cells : memory' = [memory EXCEPT !.cells = cells])
  BY DEF Access
<1>3. /\ memory'.numPages \in 0 .. MaxPages /\ memory'.length \in Nat /\ memory'.maxStack \in Nat
      /\ memory' = [numPages |-> memory'.numPages, length |-> memory'.length,
                    maxStack |-> memory'.maxStack, cells |-> memory'.cells]
  BY <1>2 DEF IInv, Types
<1>4. written' \subseteq Nat
  BY DEF IInv, Types, Access
<1> QED BY <1>1, <1>3, <1>4, Quiet DEF IInv, Types, Patched

\* The first loops that are open.
LEMMA OpenPrefix ==
  ASSUME NEW open \in Seq(Loops), NEW n \in 0 .. Len(open)
  PROVE  /\ SubSeq(open, 1, n) \in Seq(Loops) /\ Len(SubSeq(open, 1, n)) = n
         /\ \A i \in 1 .. n : SubSeq(open, 1, n)[i] = open[i]
         /\ \A j \in 1 .. n : SubSeq(SubSeq(open, 1, n), 1, j) = SubSeq(open, 1, j)
<1>1. \A i \in 1 .. n : open[i] \in Loops
  OBVIOUS
<1>2. /\ SubSeq(open, 1, n) \in Seq(Loops) /\ Len(SubSeq(open, 1, n)) = n
      /\ \A i \in 1 .. n : SubSeq(open, 1, n)[i] = open[i]
  OBVIOUS
<1>3. ASSUME NEW j \in 1 .. n PROVE SubSeq(SubSeq(open, 1, n), 1, j) = SubSeq(open, 1, j)
  OBVIOUS
<1> QED BY <1>2, <1>3

LEMMA BranchKeeps ==
  ASSUME IInv, NEW n \in Loops, Branch(n)
  PROVE  IInv'
<1> DEFINE m == Len(run.open) - n
           l == run.open[m + 1]
           open == SubSeq(run.open, 1, m)
<1>1. /\ UNCHANGED <<frames, runtime, holds, memory, written, sites, wild, compiled, r>>
      /\ r.is = "running" /\ n \in 1 .. Len(run.open)
      /\ run' = [run EXCEPT !.open = open, !.pos = LastInside(l)]
  BY DEF Branch
<1>2. /\ run \in Codes /\ run.open \in Seq(Loops) /\ run.fresh /\ frames \in Seq(Frame)
      /\ Nested(run) /\ Within(frames, Len(frames) + 1, run) /\ run.fn \in Functions
  BY <1>1 DEF IInv, Types, Codes, Framed, Looping
<1>3. m \in 0 .. Len(run.open) /\ m + 1 \in 1 .. Len(run.open) /\ l \in Loops
  BY SMTT(40), <1>1, <1>2
<1>4. /\ open \in Seq(Loops) /\ Len(open) = m /\ \A i \in 1 .. m : open[i] = run.open[i]
      /\ \A j \in 1 .. m : SubSeq(open, 1, j) = SubSeq(run.open, 1, j)
  BY <1>2, <1>3, OpenPrefix
<1>5. /\ LastInside(l) \in Loops /\ l \in Around(LastInside(l))
      /\ \A k \in Loops : l \in Around(k) => k <= LastInside(l)
  BY <1>3, LastInsideIsLater
<1> HIDE DEF m, l, open
<1>6. /\ run' \in Codes /\ run'.fresh /\ run'.fn = run.fn
      /\ run'.open = open /\ run'.pos = LastInside(l)
  BY <1>1, <1>2, <1>4, <1>5 DEF Codes
<1>7. \A j \in 1 .. m : j \in DOMAIN run.open
  BY <1>2, <1>3
<1>8. Nested(run')
  <2>1. \A i \in 1 .. m : run.open[i] \in Around(l)
    BY <1>2, <1>3 DEF Nested, l
  <2>2. \A i \in 1 .. m : open[i] \in Around(LastInside(l))
    BY <1>4, <1>5, <2>1, AroundAround
  <2>3. \A j \in 1 .. m : \A i \in 1 .. j : open[i] \in Around(open[j])
    BY <1>2, <1>3, <1>4, <1>7 DEF Nested
  <2> QED BY <1>4, <1>6, <2>2, <2>3 DEF Nested
<1>9. Within(frames, Len(frames) + 1, run')
  <2>1. run.pos <= LastInside(l)
    <3>1. l \in Around(run.pos)
      BY <1>2, <1>3 DEF Nested, l
    <3>2. run.pos \in Loops \/ run.pos = 0
      BY <1>2 DEF Codes
    <3> QED BY <1>5, <3>1, <3>2, LoopsAreNumbered
  <2>2. \A i \in Block(frames, Len(frames) + 1) :
          frames[i].code.pos \in Nat /\ frames[i].code.pos <= run.pos
    <3>1. \A i \in DOMAIN frames : frames[i].code.pos \in Nat
      BY <1>2, FrameFields
    <3> QED BY <1>2, <3>1, BlockFrames DEF Within
  <2>3. run.pos \in Nat /\ LastInside(l) \in Nat
    BY SMTT(40), <1>2, <1>5, LoopsAreNumbered DEF Codes
  <2>4. \A i \in Block(frames, Len(frames) + 1) : frames[i].code.pos <= run'.pos
    BY <1>6, <2>1, <2>2, <2>3
  <2>5. ASSUME NEW j \in DOMAIN run'.open
        PROVE  \E i \in Block(frames, Len(frames) + 1) :
                 frames[i].code.open = SubSeq(run'.open, 1, j)
    <3>1. j \in 1 .. m /\ SubSeq(run'.open, 1, j) = SubSeq(run.open, 1, j)
      BY <1>4, <1>6
    <3> QED BY <1>2, <1>7, <3>1 DEF Within
  <2> QED BY <2>4, <2>5 DEF Within
<1>10. Standing' /\ Framed' /\ Looping' /\ ResultsOfLastCall'
  BY <1>1, <1>2, <1>6, <1>8, <1>9 DEF IInv, Standing, Framed, Looping, ResultsOfLastCall
<1> QED BY <1>1, <1>6, <1>10 DEF IInv, Types, Patched

LEMMA ContinueLoopKeeps ==
  ASSUME IInv, NEW n \in Loops, ContinueLoop(n)
  PROVE  IInv'
<1> DEFINE open == SubSeq(run.open, 1, n)
<1>1. /\ UNCHANGED <<frames, runtime, holds, memory, written, sites, wild, compiled>>
      /\ r.is = "running" /\ n \in DOMAIN run.open /\ run' = Idle
      /\ r' = [is |-> "loop", loop |-> run.open[n], open |-> open]
  BY DEF ContinueLoop
<1>2. /\ run \in Codes /\ run.open \in Seq(Loops) /\ frames \in Seq(Frame)
      /\ Within(frames, Len(frames) + 1, run)
  BY <1>1 DEF IInv, Types, Codes, Looping
<1>3. n \in 0 .. Len(run.open) /\ n \in 1 .. n /\ run.open[n] \in Loops
  BY <1>1, <1>2
<1>4. open \in Seq(Loops) /\ Len(open) = n /\ open[n] = run.open[n]
  BY <1>2, <1>3, OpenPrefix
<1>5. \E i \in Block(frames, Len(frames) + 1) : frames[i].code.open = open
  BY <1>1, <1>2 DEF Within
<1> HIDE DEF open
<1>6. open # <<>> /\ Last(open) = run.open[n]
  BY <1>3, <1>4 DEF Last
<1>7. r' \in Outcomes
  BY <1>1, <1>3, <1>4, LoopsAreNumbered DEF Outcomes
<1>8. Types' /\ Patched'
  BY <1>1, <1>7, Constants DEF IInv, Types, Patched
<1>9. Standing' /\ ResultsOfLastCall'
  BY <1>1 DEF IInv, Standing, ResultsOfLastCall
<1>10. Framed' /\ Looping'
  BY <1>1, <1>5, <1>6 DEF IInv, Framed, Looping
<1> QED BY <1>1, <1>8, <1>9, <1>10 DEF IInv

LEMMA MemGrowKeeps ==
  ASSUME IInv, NEW pages \in 1 .. MaxPages, NEW moves \in BOOLEAN, NEW fails \in BOOLEAN,
         MemGrow(pages, moves, fails)
  PROVE  IInv'
<1>1. /\ UNCHANGED <<written, runtime, compiled, sites, r, holds, wild>>
      /\ r.is = "running" /\ run' = [run EXCEPT !.fresh = TRUE]
      /\ frames' = frames
         \/ frames' = [k \in DOMAIN frames |-> [frames[k] EXCEPT !.code.fresh = FALSE]]
  BY DEF MemGrow
<1>2. /\ run \in Codes /\ frames \in Seq(Frame) /\ Nested(run)
      /\ Within(frames, Len(frames) + 1, run)
      /\ frames # <<>> /\ Last(frames).op # "Raw"
  BY <1>1 DEF IInv, Types, Looping, Framed
<1>3. /\ run' \in Codes /\ run'.fresh /\ run'.fn = run.fn
      /\ run'.open = run.open /\ run'.pos = run.pos
  BY <1>1, <1>2 DEF Codes
<1>4. /\ frames' \in Seq(Frame) /\ Len(frames') = Len(frames)
      /\ \A k \in 1 .. Len(frames) : Alike(frames[k], frames'[k])
  <2>1. CASE frames' = frames
    BY <1>2, <2>1 DEF Alike
  <2>2. CASE frames' = [k \in DOMAIN frames |-> [frames[k] EXCEPT !.code.fresh = FALSE]]
    <3>1. ASSUME NEW f \in Frame
          PROVE  [f EXCEPT !.code.fresh = FALSE] \in Frame
                 /\ Alike(f, [f EXCEPT !.code.fresh = FALSE])
      BY DEF Frame, Codes, Alike
    <3>2. \A k \in 1 .. Len(frames) : frames[k] \in Frame
      BY <1>2
    <3>3. \A k \in 1 .. Len(frames) :
            frames'[k] \in Frame /\ Alike(frames[k], frames'[k])
      <4>1. \A k \in 1 .. Len(frames) : frames'[k] = [frames[k] EXCEPT !.code.fresh = FALSE]
        <5>1. DOMAIN frames = 1 .. Len(frames)
          BY <1>2
        <5> QED BY <2>2, <5>1, Zenon
      <4> QED BY ZenonT(60), <3>1, <3>2, <4>1
    <3>4. DOMAIN frames' = 1 .. Len(frames) /\ Len(frames) \in Nat
      BY <1>2, <2>2
    <3>5. frames' \in Seq(Frame) /\ Len(frames') = Len(frames)
      <4>1. frames' = [k \in 1 .. Len(frames) |-> frames'[k]]
        BY <1>2, <2>2
      <4> QED BY <3>3, <3>4, <4>1, IsASeq, LenProperties
    <3> QED BY <3>3, <3>5
  <2> QED BY <1>1, <2>1, <2>2
<1>5. /\ StackBelow(frames', Len(frames') + 1) <=> StackBelow(frames, Len(frames) + 1)
      /\ Block(frames', Len(frames') + 1) = Block(frames, Len(frames) + 1)
      /\ Within(frames', Len(frames') + 1, run)
      /\ \A k \in DOMAIN frames' : Good(frames', k)
  <2>1. Len(frames) \in Nat /\ Len(frames) + 1 \in 1 .. Len(frames) + 1
    BY <1>2
  <2>2. DOMAIN frames' = 1 .. Len(frames) /\ \A k \in 1 .. Len(frames) : Good(frames, k)
    BY <1>2, <1>4 DEF IInv, Standing
  <2> QED BY <1>2, <1>4, <2>1, <2>2, SameBelow
<1>6. frames' # <<>> /\ Last(frames').op # "Raw"
  BY <1>2, <1>4 DEF Last, Alike
<1>7. Standing' /\ ResultsOfLastCall'
  BY <1>5, <1>6 DEF Standing, ResultsOfLastCall
<1>8. Nested(run') /\ Within(frames', Len(frames') + 1, run')
  BY <1>2, <1>3, <1>5 DEF Nested, Within
<1>9. Framed' /\ Looping'
  BY <1>1, <1>3, <1>5, <1>6, <1>8 DEF IInv, Framed, Looping
<1>10. /\ memory'.numPages \in 0 .. MaxPages /\ memory'.length \in Nat /\ memory'.maxStack \in Nat
       /\ memory' = [numPages |-> memory'.numPages, length |-> memory'.length,
                     maxStack |-> memory'.maxStack, cells |-> memory'.cells]
  <2>1. CASE fails
    BY <2>1 DEF MemGrow, IInv, Types
  <2>2. CASE ~fails
    <3>1. memory' = ResizeMemory(memory, memory.numPages + pages, runtime.stack)
      BY <2>2 DEF MemGrow
    <3>2. memory.numPages + pages \in 0 .. MaxPages /\ runtime.stack \in Nat
      BY SMTT(40), <2>2, ConstantTypes DEF MemGrow, IInv, Types
    <3> QED BY <3>1, <3>2, Resized
  <2> QED BY <2>1, <2>2
<1> QED BY <1>1, <1>3, <1>4, <1>7, <1>9, <1>10 DEF IInv, Types, Patched

\* What is true of the frames once the top one is gone.
LEMMA Popped ==
  ASSUME IInv, frames # <<>>, frames' = Front(frames)
  PROVE  /\ frames' \in Seq(Frame) /\ Standing' /\ Len(frames') + 1 = Len(frames)
         /\ Top \in Frame /\ Good(frames, Len(frames)) /\ Top = frames[Len(frames)]
         /\ Block(frames', Len(frames)) = Block(frames, Len(frames))
         /\ StackBelow(frames', Len(frames)) <=> StackBelow(frames, Len(frames))
         /\ \A c \in Codes : Within(frames, Len(frames), c) => Within(frames', Len(frames), c)
         /\ frames' = <<>> \/ Last(frames').op = "Raw" <=> Top.op \in Hosted
         /\ \A i \in 1 .. Len(frames) - 1 : frames'[i] = frames[i]
<1>1. frames \in Seq(Frame) /\ \A k \in DOMAIN frames : Good(frames, k)
  BY DEF IInv, Types, Standing
<1>2. /\ Front(frames) \in Seq(Frame) /\ Len(Front(frames)) = Len(frames) - 1
      /\ Len(frames) \in Nat /\ Len(frames) >= 1
      /\ Last(frames) = frames[Len(frames)] /\ Last(frames) \in Frame
      /\ \A i \in 1 .. Len(frames) - 1 : Front(frames)[i] = frames[i]
      /\ Block(Front(frames), Len(frames)) = Block(frames, Len(frames))
      /\ StackBelow(Front(frames), Len(frames)) <=> StackBelow(frames, Len(frames))
      /\ \A c \in Codes : Within(frames, Len(frames), c) => Within(Front(frames), Len(frames), c)
      /\ \A k \in 1 .. Len(frames) - 1 : Good(frames, k) => Good(Front(frames), k)
  BY <1>1, Popping
<1>3. Len(frames) \in DOMAIN frames /\ DOMAIN frames' = 1 .. Len(frames) - 1
      /\ \A k \in 1 .. Len(frames) - 1 : k \in DOMAIN frames
  BY <1>1, <1>2
<1>4. Standing'
  BY <1>1, <1>2, <1>3 DEF Standing
<1>5. Good(frames, Len(frames))
  BY <1>1, <1>3
<1>6. frames' = <<>> \/ Last(frames').op = "Raw" <=> Top.op \in Hosted
  <2>1. CASE Len(frames) = 1
    <3>1. frames' = <<>>
      BY <1>2, <2>1
    <3>2. Top.op \in Hosted
      BY <1>2, <1>5, <2>1 DEF Good, Stands
    <3> QED BY <3>1, <3>2
  <2>2. CASE Len(frames) # 1
    <3>1. frames' # <<>> /\ Last(frames') = frames[Len(frames) - 1]
      BY <1>2, <2>2 DEF Last
    <3>2. Top.op \in Hosted <=> frames[Len(frames) - 1].op = "Raw"
      BY <1>2, <1>5, <2>2 DEF Good, Stands
    <3> QED BY <3>1, <3>2
  <2> QED BY <2>1, <2>2
<1> QED BY <1>2, <1>4, <1>5, <1>6

\* A top frame that is of no host function does not hide one.
LEMMA BelowTop ==
  ASSUME NEW fs \in Seq(Frame), fs # <<>>, Last(fs).op # "Raw"
  PROVE  StackBelow(fs, Len(fs) + 1) <=> StackBelow(fs, Len(fs))
<1>1. Len(fs) \in Nat /\ Len(fs) >= 1 /\ fs[Len(fs)].op # "Raw"
  BY DEF Last
<1> QED BY <1>1 DEF StackBelow

\* The block below a frame of another kind is empty, and a frame of op_Loop
\* is in the one above.
LEMMA BlockBelow ==
  ASSUME NEW fs \in Seq(Frame), fs # <<>>
  PROVE  /\ Last(fs).op # "Loop" => Block(fs, Len(fs) + 1) = {}
         /\ Last(fs).op = "Loop"
              => Block(fs, Len(fs) + 1) = Block(fs, Len(fs)) \union {Len(fs)}
<1>1. Len(fs) \in Nat /\ Len(fs) >= 1 /\ Last(fs) = fs[Len(fs)]
  BY DEF Last
<1>2. CASE Last(fs).op # "Loop"
  BY <1>1, <1>2 DEF Block
<1>3. CASE Last(fs).op = "Loop"
  <2>1. ASSUME NEW i \in 1 .. Len(fs) - 1
        PROVE  (\A m \in i .. Len(fs) + 1 - 1 : fs[m].op = "Loop")
                <=> (\A m \in i .. Len(fs) - 1 : fs[m].op = "Loop")
    BY <1>1, <1>3
  <2>2. \A m \in Len(fs) .. Len(fs) + 1 - 1 : fs[m].op = "Loop"
    BY <1>1, <1>3
  <2>3. 1 .. Len(fs) + 1 - 1 = (1 .. Len(fs) - 1) \union {Len(fs)}
    BY <1>1
  <2>4. Len(fs) \notin 1 .. Len(fs) - 1
    BY <1>1
  <2> QED BY <1>3, <2>1, <2>2, <2>3, <2>4 DEF Block
<1> QED BY <1>2, <1>3

LEMMA ReturnToCallKeeps ==
  ASSUME IInv, ReturnToCall
  PROVE  IInv'
<1>1. /\ UNCHANGED <<memory, written, runtime, compiled, sites, holds, wild>>
      /\ r.is \in {"none", "trap"} /\ frames # <<>> /\ Top.op = "Call"
      /\ frames' = Front(frames)
      /\ \/ r.is = "none" /\ run' = Refreshed(Top) /\ r' = Running
         \/ r.is = "trap" /\ UNCHANGED <<run, r>>
  BY DEF ReturnToCall
<1>2. /\ frames' \in Seq(Frame) /\ Standing' /\ Len(frames') + 1 = Len(frames)
      /\ Top \in Frame /\ Good(frames, Len(frames)) /\ Top = frames[Len(frames)]
      /\ StackBelow(frames', Len(frames)) <=> StackBelow(frames, Len(frames))
      /\ \A c \in Codes : Within(frames, Len(frames), c) => Within(frames', Len(frames), c)
      /\ frames' = <<>> \/ Last(frames').op = "Raw" <=> Top.op \in Hosted
      /\ frames \in Seq(Frame)
  BY <1>1, Popped DEF IInv, Types
<1>3. frames' # <<>> /\ Last(frames').op # "Raw" /\ Last(frames).op # "Raw"
  BY <1>1, <1>2 DEF Hosted
<1>4. StackBelow(frames', Len(frames') + 1) <=> StackBelow(frames, Len(frames) + 1)
  BY <1>1, <1>2, <1>3, BelowTop
<1>5. /\ run' \in Codes /\ run'.fresh /\ r' \in Outcomes
      /\ r'.is = "running" => /\ run'.fn \in Functions /\ Nested(run')
                             /\ Within(frames', Len(frames') + 1, run')
      /\ r'.is \in {"running", "trap"} /\ (r.is = "trap" => r'.is = "trap")
  <2>1. CASE r.is = "none" /\ run' = Refreshed(Top) /\ r' = Running
    <3>1. Top.code \in Codes
      BY <1>2 DEF Frame
    <3>2. /\ run' \in Codes /\ run'.fresh /\ run'.fn = Top.code.fn
          /\ run'.open = Top.code.open /\ run'.pos = Top.code.pos
      BY <2>1, <3>1 DEF Refreshed, Codes
    <3>3. Top.code.fn \in Functions /\ Nested(Top.code) /\ Within(frames', Len(frames), Top.code)
      BY <1>1, <1>2, <3>1 DEF Good, Holds, OfItsLoop
    <3> QED BY <1>2, <2>1, <3>2, <3>3, Constants DEF Nested, Within
  <2>2. CASE r.is = "trap" /\ UNCHANGED <<run, r>>
    BY <2>2 DEF IInv, Types
  <2> QED BY <1>1, <2>1, <2>2
<1>6. Types' /\ Patched' /\ ~wild'
  BY <1>1, <1>2, <1>5 DEF IInv, Types, Patched
<1>7. Framed' /\ Looping'
  BY <1>1, <1>3, <1>4, <1>5 DEF IInv, Framed, Looping
<1>8. ResultsOfLastCall'
  BY <1>3 DEF ResultsOfLastCall
<1> QED BY <1>2, <1>6, <1>7, <1>8 DEF IInv

LEMMA ReturnToLoopKeeps ==
  ASSUME IInv, ReturnToLoop
  PROVE  IInv' /\ (r.is = "loop" /\ r'.is = "running" => run'.open = r.open)
<1>1. /\ UNCHANGED <<memory, written, runtime, compiled, sites, holds, wild>>
      /\ r.is \in {"none", "trap", "loop"} /\ frames # <<>> /\ Top.op = "Loop"
  BY DEF ReturnToLoop
<1>2. /\ frames \in Seq(Frame) /\ Len(frames) \in Nat /\ Len(frames) >= 1
      /\ Top = frames[Len(frames)] /\ Len(frames) \in DOMAIN frames /\ Good(frames, Len(frames))
  BY <1>1 DEF IInv, Types, Standing, Last
<1>3. /\ Top \in Frame /\ Top.code \in Codes /\ Top.code.pos \in Nat
      /\ Top.code.open \in Seq(Loops) /\ Top.code.open # <<>>
      /\ Innermost(Top.code.open) = Top.code.pos
      /\ \A i \in Block(frames, Len(frames)) : frames[i].code.pos < Top.code.pos
      /\ Top.code.fn \in Functions
      /\ Nested(Top.code) /\ Within(frames, Len(frames) + 1, Top.code)
  BY <1>1, <1>2, FrameFields DEF Good, OfItsLoop, Holds, Innermost
<1>4. Block(frames, Len(frames) + 1) = Block(frames, Len(frames)) \union {Len(frames)}
  BY <1>1, <1>2, BlockBelow
\* The frame the loop asked for is in the block, and no two are of one loop.
<1>5. ASSUME r.is = "loop"
      PROVE  /\ r.loop = Innermost(Top.code.open) => r.open = Top.code.open
             /\ r.loop # Innermost(Top.code.open) =>
                  \E i \in Block(frames, Len(frames)) : frames[i].code.open = r.open
  <2>1. PICK i \in Block(frames, Len(frames) + 1) : frames[i].code.open = r.open
    BY <1>5 DEF IInv, Looping
  <2>2. r.open # <<>> /\ Last(r.open) = r.loop
    BY <1>5 DEF IInv, Looping
  <2>3. CASE i = Len(frames)
    BY <1>2, <1>3, <2>1, <2>2, <2>3 DEF Innermost
  <2>4. CASE i \in Block(frames, Len(frames))
    <3>1. frames[i].op = "Loop" /\ i \in DOMAIN frames
      BY <1>2, <2>4 DEF Block
    <3>2. Last(frames[i].code.open) = frames[i].code.pos
      BY <3>1 DEF IInv, Standing, Good, OfItsLoop
    <3>3. frames[i].code.pos < Top.code.pos /\ frames[i].code.pos \in Nat
      BY <1>2, <1>3, <2>4, <3>1, FrameFields
    <3>4. r.loop = frames[i].code.pos
      BY <2>1, <2>2, <3>2
    <3>5. r.loop # Innermost(Top.code.open)
      BY <1>3, <3>3, <3>4
    <3> QED BY <2>1, <2>4, <3>5
  <2> QED BY <1>4, <2>3, <2>4
<1>6. CASE r.is = "loop" /\ r.loop = Innermost(Top.code.open)
  <2>1. run' = Refreshed(Top) /\ r' = Running /\ frames' = frames
    BY <1>6 DEF ReturnToLoop
  <2>2. /\ run' \in Codes /\ run'.fresh /\ run'.fn = Top.code.fn
        /\ run'.open = Top.code.open /\ run'.pos = Top.code.pos
    BY <1>3, <2>1 DEF Refreshed, Codes
  <2>3. Nested(run') /\ Within(frames', Len(frames') + 1, run')
    BY <1>3, <2>1, <2>2 DEF Nested, Within
  <2>4. Types' /\ Patched' /\ ~wild' /\ Standing'
    BY <1>1, <1>6, <2>1, <2>2, Constants DEF IInv, Types, Patched, Standing
  <2>5. Framed' /\ Looping' /\ ResultsOfLastCall'
    BY <1>1, <1>3, <1>6, <2>1, <2>2, <2>3, Constants
       DEF IInv, Framed, Looping, ResultsOfLastCall
  <2>6. run'.open = r.open
    BY <1>5, <1>6, <2>2
  <2> QED BY <2>4, <2>5, <2>6 DEF IInv
<1>7. CASE ~(r.is = "loop" /\ r.loop = Innermost(Top.code.open))
  <2>1. UNCHANGED <<run, r>> /\ frames' = Front(frames)
    BY <1>7 DEF ReturnToLoop
  <2>2. /\ frames' \in Seq(Frame) /\ Standing' /\ Len(frames') + 1 = Len(frames)
        /\ StackBelow(frames', Len(frames)) <=> StackBelow(frames, Len(frames))
        /\ Block(frames', Len(frames)) = Block(frames, Len(frames))
        /\ frames' = <<>> \/ Last(frames').op = "Raw" <=> Top.op \in Hosted
        /\ \A i \in 1 .. Len(frames) - 1 : frames'[i] = frames[i]
    BY <1>1, <2>1, Popped
  <2>3. frames' # <<>> /\ Last(frames').op # "Raw" /\ Last(frames).op # "Raw"
    BY <1>1, <2>2 DEF Hosted
  <2>4. StackBelow(frames', Len(frames') + 1) <=> StackBelow(frames, Len(frames) + 1)
    BY <1>1, <1>2, <2>2, <2>3, BelowTop
  <2>5. r.is = "loop" =>
          \E i \in Block(frames', Len(frames') + 1) : frames'[i].code.open = r.open
    <3>1. \A i \in Block(frames, Len(frames)) : frames'[i] = frames[i]
      BY <2>2 DEF Block
    <3> QED BY <1>5, <1>7, <2>2, <3>1
  <2>6. Types' /\ Patched' /\ ~wild'
    BY <1>1, <2>1, <2>2 DEF IInv, Types, Patched
  <2>7. Framed' /\ Looping'
    BY <1>1, <2>1, <2>3, <2>4, <2>5 DEF IInv, Framed, Looping
  <2>8. ResultsOfLastCall'
    BY <2>3 DEF ResultsOfLastCall
  <2> QED BY <1>1, <2>1, <2>2, <2>6, <2>7, <2>8 DEF IInv
<1> QED BY <1>6, <1>7

LEMMA HostReturnsKeeps ==
  ASSUME IInv, NEW result \in {Returned, Trapped}, HostReturns(result)
  PROVE  IInv'
<1>1. /\ UNCHANGED <<memory, written, compiled, sites, run, holds, wild>>
      /\ r.is = "host" \/ (r.is = "failed" /\ result = Trapped)
      /\ frames # <<>> /\ frames' = Front(frames) /\ r' = result
      /\ runtime' = [runtime EXCEPT !.stack = Top.stack]
  BY DEF HostReturns
<1>2. Top.op = "Raw"
  BY <1>1 DEF IInv, Framed
<1>3. /\ frames' \in Seq(Frame) /\ Standing' /\ Len(frames') + 1 = Len(frames)
      /\ Top \in Frame /\ Good(frames, Len(frames)) /\ Top = frames[Len(frames)]
      /\ StackBelow(frames', Len(frames)) <=> StackBelow(frames, Len(frames))
      /\ frames' = <<>> \/ Last(frames').op = "Raw" <=> Top.op \in Hosted
  BY <1>1, Popped
<1>4. frames' # <<>> /\ Last(frames').op # "Raw"
  BY <1>2, <1>3 DEF Hosted
<1>5. runtime' \in [stack : Nat, lastCalled : Functions \union {"none"},
                    startFunction : {"none", StartFunction}]
      /\ runtime'.stack = Top.stack
  <2>1. Top.stack \in Nat
    BY <1>3 DEF Frame
  <2> QED BY <1>1, <2>1 DEF IInv, Types
<1>6. StackBelow(frames', Len(frames') + 1) \/ runtime'.stack = 0
  BY <1>2, <1>3, <1>5 DEF Good, Saves
<1>7. r' \in Outcomes /\ r'.is \in {"none", "trap"} /\ (r.is = "failed" => r'.is = "trap")
  BY <1>1, Constants
<1>8. Types' /\ Patched' /\ ~wild'
  BY <1>1, <1>3, <1>5, <1>7 DEF IInv, Types, Patched
<1>9. Framed' /\ Looping' /\ ResultsOfLastCall'
  BY <1>4, <1>6, <1>7 DEF Framed, Looping, ResultsOfLastCall
<1> QED BY <1>3, <1>8, <1>9 DEF IInv

LEMMA BackIs ==
  ASSUME NEW result
  PROVE  /\ Back(result) \in Outcomes /\ Back(result).is \in {"host", "failed"}
         /\ result.is = "trap" => Back(result).is = "failed"
BY Constants DEF Back, Outcomes, Running, InHost

LEMMA ReturnToHostKeeps ==
  ASSUME IInv, ReturnToHost
  PROVE  IInv'
<1>1. /\ UNCHANGED <<memory, written, compiled, sites, run, wild>>
      /\ r.is \in {"none", "trap"} /\ frames # <<>> /\ Top.op = "m3_Call"
      /\ runtime' = [runtime EXCEPT !.lastCalled = LastCalled(Top.fn, r)]
      /\ holds' = (IF runtime.stack = 0 /\ r.is = "none" THEN Top.fn ELSE holds)
      /\ frames' = Front(frames) /\ r' = Back(r)
  BY DEF ReturnToHost
<1>2. /\ frames' \in Seq(Frame) /\ Standing' /\ Len(frames') + 1 = Len(frames)
      /\ Top \in Frame /\ Good(frames, Len(frames)) /\ Top = frames[Len(frames)]
      /\ StackBelow(frames', Len(frames)) <=> StackBelow(frames, Len(frames))
      /\ frames' = <<>> \/ Last(frames').op = "Raw" <=> Top.op \in Hosted
      /\ frames \in Seq(Frame)
  BY <1>1, Popped DEF IInv, Types
<1>3. frames' = <<>> \/ Last(frames').op = "Raw"
  BY <1>1, <1>2 DEF Hosted
<1>4. StackBelow(frames', Len(frames') + 1) <=> StackBelow(frames, Len(frames) + 1)
  BY <1>1, <1>2, BelowTop
<1>5. Top.fn \in Functions
  BY <1>1, <1>2 DEF Good, Holds, Hosted
<1>6. /\ runtime' \in [stack : Nat, lastCalled : Functions \union {"none"},
                        startFunction : {"none", StartFunction}]
      /\ runtime'.stack = runtime.stack /\ runtime'.lastCalled = LastCalled(Top.fn, r)
  BY <1>1, <1>5 DEF IInv, Types, LastCalled
<1>7. Types' /\ Patched' /\ ~wild'
  BY <1>1, <1>2, <1>6, BackIs DEF IInv, Types, Patched
<1>8. Framed' /\ Looping'
  BY <1>1, <1>3, <1>4, <1>6, BackIs DEF IInv, Framed, Looping
<1>9. ResultsOfLastCall'
  <2> SUFFICES ASSUME frames' = <<>>, runtime'.lastCalled # "none"
               PROVE  holds' = runtime'.lastCalled
    BY DEF ResultsOfLastCall
  <2>1. r.is = "none" /\ runtime'.lastCalled = Top.fn
    BY <1>1, <1>6 DEF LastCalled
  <2>2. Len(frames') = 0
    OBVIOUS
  <2>3. ~StackBelow(frames', Len(frames') + 1)
    BY <2>2 DEF StackBelow
  <2>4. runtime.stack = 0
    BY <1>4, <2>3 DEF IInv, Framed
  <2> QED BY <1>1, <2>1, <2>4
<1> QED BY <1>2, <1>7, <1>8, <1>9 DEF IInv

\* What op_Entry leaves, when the frames below it are fs.
LEMMA Entered ==
  ASSUME IInv, NEW fs \in Seq(Frame), fs # <<>>, \A k \in DOMAIN fs : Good(fs, k),
         Last(fs).op \notin {"Raw", "Loop"},
         StackBelow(fs, Len(fs) + 1) \/ runtime'.stack = 0,
         NEW fn \in Functions, NEW sp \in Nat, Enters(fn, sp, fs)
  PROVE  /\ frames' \in Seq(Frame) /\ run' \in Codes /\ run'.fresh
         /\ r' \in Outcomes /\ r'.is \in {"running", "trap"}
         /\ Standing' /\ Framed' /\ Looping' /\ ResultsOfLastCall'
<1>1. /\ frames' = fs
      /\ (run' = Code(fn, sp) /\ r' = Running) \/ (run' = Idle /\ r' = Trapped)
  BY DEF Enters, Trap
<1>2. /\ run' \in Codes /\ run'.fresh /\ run'.open = <<>> /\ run'.pos = 0
      /\ r' \in Outcomes /\ r'.is \in {"running", "trap"}
      /\ r'.is = "running" => run'.fn = fn
  <2>1. /\ Code(fn, sp).open = <<>> /\ Code(fn, sp).pos = 0 /\ Code(fn, sp).fresh
        /\ Code(fn, sp).fn = fn /\ Idle.open = <<>> /\ Idle.pos = 0
    BY DEF Code, Idle
  <2> QED BY <1>1, <2>1, Constants
<1>3. Standing' /\ ResultsOfLastCall'
  BY <1>1 DEF Standing, ResultsOfLastCall
<1>4. Framed'
  BY <1>1, <1>2 DEF Framed
<1>5. Nested(run') /\ Within(frames', Len(frames') + 1, run')
  BY <1>1, <1>2, BlockBelow DEF Nested, Within
<1>6. Looping'
  BY <1>2, <1>5 DEF Looping
<1> QED BY <1>1, <1>2, <1>3, <1>4, <1>6

\* A frame more, which is good where it stands.
LEMMA Pushed ==
  ASSUME IInv, NEW f \in Frame, f.op # "Raw",
         Good(Append(frames, f), Len(frames) + 1)
  PROVE  /\ \A k \in DOMAIN Append(frames, f) : Good(Append(frames, f), k)
         /\ StackBelow(Append(frames, f), Len(Append(frames, f)) + 1)
              <=> StackBelow(frames, Len(frames) + 1)
<1> DEFINE gs == Append(frames, f)
<1>1. frames \in Seq(Frame) /\ \A k \in DOMAIN frames : Good(frames, k)
  BY DEF IInv, Types, Standing
<1>2. /\ gs \in Seq(Frame) /\ Len(gs) = Len(frames) + 1 /\ Len(frames) \in Nat
      /\ Last(gs) = f /\ gs # <<>>
      /\ StackBelow(gs, Len(frames) + 1) <=> StackBelow(frames, Len(frames) + 1)
      /\ \A k \in 1 .. Len(frames) : Good(frames, k) => Good(gs, k)
  BY <1>1, Pushing
<1>3. DOMAIN frames = 1 .. Len(frames) /\ DOMAIN gs = 1 .. Len(frames) + 1
  BY <1>1, <1>2
<1>4. 1 .. Len(frames) + 1 = (1 .. Len(frames)) \union {Len(frames) + 1}
  BY <1>2
<1> HIDE DEF gs
<1>5. \A k \in DOMAIN gs : Good(gs, k)
  BY <1>1, <1>2, <1>3, <1>4 DEF gs
<1>6. StackBelow(gs, Len(gs) + 1) <=> StackBelow(frames, Len(frames) + 1)
  BY <1>2, BelowTop
<1> QED BY <1>5, <1>6 DEF gs

\* The code that runs waits in a frame of op_Call, on those of its loops.
LEMMA CallWaits ==
  ASSUME IInv, r.is = "running"
  PROVE  LET f == [op |-> "Call", code |-> run, fn |-> "none", stack |-> 0]
         IN /\ f \in Frame /\ f.op = "Call" /\ Waiting("Call", run) = Append(frames, f)
            /\ Good(Append(frames, f), Len(frames) + 1)
            /\ run.fn \in Functions /\ CalleeStack \in Nat
<1> DEFINE f == [op |-> "Call", code |-> run, fn |-> "none", stack |-> 0]
           gs == Append(frames, f)
           n == Len(frames) + 1
<1>1. /\ frames \in Seq(Frame) /\ run \in Codes /\ run.fn \in Functions
      /\ Nested(run) /\ Within(frames, n, run)
      /\ frames # <<>> /\ Last(frames).op # "Raw"
  BY DEF IInv, Types, Framed, Looping
<1>2. f \in Frame /\ f.op = "Call" /\ f.code = run
  BY <1>1 DEF Frame
<1>3. CalleeStack \in Nat
  <2>1. run.sp \in Nat /\ FrameSlots[run.fn] \in Nat
    BY <1>1, CodeFields, ConstantTypes
  <2> QED BY <2>1 DEF CalleeStack, TopSlot
<1>4. /\ gs[n] = f /\ Within(gs, n, run) /\ Len(frames) \in Nat /\ Len(frames) >= 1
      /\ gs[n - 1] = frames[Len(frames)]
  BY <1>1, <1>2, Pushing
<1> HIDE DEF f
<1>5. Stands(gs, n) /\ Holds(gs[n]) /\ Saves(gs, n) /\ OfItsLoop(gs, n)
  BY <1>1, <1>2, <1>4 DEF Stands, Holds, Saves, OfItsLoop, Hosted, Last
<1> QED BY <1>1, <1>2, <1>3, <1>5 DEF Good, f, Waiting

\* op_Call and op_CallIndirect, once the function is found
LEMMA CallsEnters ==
  ASSUME IInv, r.is = "running", NEW fn \in Functions, Calls(fn), UNCHANGED runtime
  PROVE  /\ frames' \in Seq(Frame) /\ run' \in Codes /\ run'.fresh
         /\ r' \in Outcomes /\ r'.is \in {"running", "trap"}
         /\ Standing' /\ Framed' /\ Looping' /\ ResultsOfLastCall'
<1> DEFINE f == [op |-> "Call", code |-> run, fn |-> "none", stack |-> 0]
           gs == Append(frames, f)
<1>1. /\ f \in Frame /\ f.op = "Call" /\ Waiting("Call", run) = gs
      /\ Good(gs, Len(frames) + 1)
      /\ run.fn \in Functions /\ CalleeStack \in Nat
  BY CallWaits
<1> HIDE DEF f
<1>2. frames \in Seq(Frame)
  BY DEF IInv, Types
<1>3. gs \in Seq(Frame) /\ gs # <<>> /\ Last(gs) = f
  BY <1>1, <1>2, Pushing
<1>4. /\ \A k \in DOMAIN gs : Good(gs, k)
      /\ StackBelow(gs, Len(gs) + 1) <=> StackBelow(frames, Len(frames) + 1)
  BY <1>1, Pushed
<1>5. StackBelow(gs, Len(gs) + 1) \/ runtime'.stack = 0
  BY <1>4 DEF IInv, Framed
<1>6. Enters(fn, CalleeStack, gs)
  BY <1>1 DEF Calls
<1> HIDE DEF gs
<1> QED BY <1>1, <1>3, <1>4, <1>5, <1>6, Entered

LEMMA CallKeeps ==
  ASSUME IInv, NEW fn \in Functions, Call(fn)
  PROVE  IInv'
<1>1. /\ UNCHANGED <<memory, written, runtime, holds>> /\ r.is = "running"
      /\ wild' = (sites[fn] = "unpatched")
      /\ sites' = [sites EXCEPT ![fn] = IF fn \in Broken THEN "unpatched" ELSE "Call"]
  BY DEF Call
<1>2. \A g \in Functions : sites[g] # "unpatched"
  BY <1>1 DEF IInv, Patched
<1>3. ~wild' /\ sites' \in [Functions -> {"Compile", "Call", "unpatched"}]
  BY <1>1, <1>2 DEF IInv, Types
<1>4. CASE fn \in Broken
  <2>1. r' = Trapped /\ run' = Idle /\ UNCHANGED <<compiled, frames>>
    BY <1>4 DEF Call, Trap
  <2>2. r'.is = "trap"
    BY <2>1, Constants
  <2> QED BY <1>1, <1>3, <2>1, <2>2, Quiet DEF IInv, Types, Patched
<1>5. CASE fn \notin Broken
  <2>1. compiled' = compiled \union {fn} /\ Calls(fn)
    BY <1>5 DEF Call
  <2>2. /\ frames' \in Seq(Frame) /\ run' \in Codes /\ run'.fresh /\ r' \in Outcomes
        /\ Standing' /\ Framed' /\ Looping' /\ ResultsOfLastCall'
    BY <1>1, <2>1, CallsEnters
  <2>3. \A g \in Functions : sites'[g] # "unpatched"
    BY <1>1, <1>2, <1>5 DEF IInv, Types
  <2> QED BY <1>1, <1>3, <1>5, <2>1, <2>2, <2>3 DEF IInv, Types, Patched
<1> QED BY <1>4, <1>5

LEMMA CallIndirectKeeps ==
  ASSUME IInv, NEW i, CallIndirect(i)
  PROVE  IInv'
<1>1. /\ UNCHANGED <<memory, written, runtime, sites, holds, wild>> /\ r.is = "running"
  BY DEF CallIndirect
<1>2. CASE i \in DOMAIN Table /\ Table[i] \in Functions \ Broken
  <2>1. compiled' = compiled \union {Table[i]} /\ Calls(Table[i])
    BY <1>2 DEF CallIndirect
  <2>2. /\ frames' \in Seq(Frame) /\ run' \in Codes /\ run'.fresh /\ r' \in Outcomes
        /\ Standing' /\ Framed' /\ Looping' /\ ResultsOfLastCall'
    BY <1>1, <1>2, <2>1, CallsEnters
  <2> QED BY <1>1, <1>2, <2>1, <2>2 DEF IInv, Types, Patched
<1>3. CASE ~(i \in DOMAIN Table /\ Table[i] \in Functions \ Broken)
  <2>1. r' = Trapped /\ run' = Idle /\ UNCHANGED <<compiled, frames>>
    BY <1>3 DEF CallIndirect, Trap
  <2> QED BY <1>1, <2>1, Quiet DEF IInv, Types, Patched
<1> QED BY <1>2, <1>3

LEMMA CallRawFunctionKeeps ==
  ASSUME IInv, CallRawFunction
  PROVE  IInv'
<1> DEFINE f == [op |-> "Call", code |-> run, fn |-> "none", stack |-> 0]
           gs == Append(frames, f)
           raw == [op |-> "Raw", code |-> Code("none", CalleeStack), fn |-> "none",
                   stack |-> runtime.stack]
           hs == Append(gs, raw)
<1>1. /\ UNCHANGED <<memory, written, compiled, sites, holds, wild>>
      /\ r.is = "running" /\ frames' = Waiting("Call", run) \o <<raw>>
      /\ runtime' = [runtime EXCEPT !.stack = CalleeStack]
      /\ run' = Idle /\ r' = InHost
  BY DEF CallRawFunction
<1>2. frames \in Seq(Frame) /\ runtime.stack \in Nat
  BY DEF IInv, Types
<1>3. /\ f \in Frame /\ f.op = "Call" /\ Waiting("Call", run) = gs
      /\ Good(gs, Len(frames) + 1) /\ CalleeStack \in Nat
  BY <1>1, CallWaits
<1>4. raw \in Frame /\ raw.op = "Raw" /\ raw.stack = runtime.stack
  BY <1>2, <1>3, Constants DEF Frame
<1> HIDE DEF f, raw
<1>5. gs \in Seq(Frame) /\ gs # <<>> /\ Last(gs) = f /\ Len(gs) \in Nat /\ Len(gs) >= 1
  BY <1>2, <1>3, Pushing
<1>6. /\ \A k \in DOMAIN gs : Good(gs, k)
      /\ StackBelow(gs, Len(gs) + 1) <=> StackBelow(frames, Len(frames) + 1)
  BY <1>1, <1>3, Pushed
<1> HIDE DEF gs
<1>7. frames' = hs
  BY <1>1, <1>3, <1>4, <1>5, AppendIsConcat
<1>8. /\ hs \in Seq(Frame) /\ Len(hs) = Len(gs) + 1 /\ hs[Len(gs) + 1] = raw
      /\ Last(hs) = raw /\ hs # <<>> /\ hs[Len(gs)] = f
      /\ StackBelow(hs, Len(gs) + 1) <=> StackBelow(gs, Len(gs) + 1)
      /\ \A k \in 1 .. Len(gs) : Good(gs, k) => Good(hs, k)
  <2>1. gs[Len(gs)] = f
    BY <1>5 DEF Last
  <2> QED BY <1>4, <1>5, <2>1, Pushing
<1> HIDE DEF hs
<1>9. Good(hs, Len(gs) + 1)
  <2>1. Len(gs) + 1 - 1 = Len(gs) /\ Len(gs) + 1 # 1
    BY <1>5
  <2>2. StackBelow(frames, Len(frames) + 1) \/ runtime.stack = 0
    BY DEF IInv, Framed
  <2> QED BY <1>3, <1>4, <1>6, <1>8, <2>1, <2>2
          DEF Good, Stands, Holds, Saves, OfItsLoop, Hosted
<1>10. \A k \in DOMAIN hs : Good(hs, k)
  <2>1. DOMAIN hs = (1 .. Len(gs)) \union {Len(gs) + 1} /\ DOMAIN gs = 1 .. Len(gs)
    BY <1>5, <1>8
  <2> QED BY <1>6, <1>8, <1>9, <2>1
<1>11. StackBelow(hs, Len(hs) + 1)
  BY <1>4, <1>5, <1>8 DEF StackBelow
<1>12. r'.is = "host" /\ r' \in Outcomes /\ run' \in Codes /\ run'.fresh
  BY <1>1, Constants
<1>13. Types' /\ Patched' /\ ~wild'
  BY <1>1, <1>3, <1>7, <1>8, <1>12 DEF IInv, Types, Patched
<1>14. Standing' /\ Framed' /\ Looping' /\ ResultsOfLastCall'
  BY <1>4, <1>7, <1>8, <1>10, <1>11, <1>12
     DEF Standing, Framed, Looping, ResultsOfLastCall
<1> QED BY <1>13, <1>14 DEF IInv

LEMMA LoopKeeps ==
  ASSUME IInv, NEW l \in Loops, Loop(l)
  PROVE  IInv'
<1> DEFINE body == [run EXCEPT !.open = Append(@, l), !.pos = l]
           f == [op |-> "Loop", code |-> body, fn |-> "none", stack |-> 0]
           gs == Append(frames, f)
           n == Len(frames) + 1
<1>1. /\ UNCHANGED <<memory, written, runtime, compiled, sites, r, holds, wild>>
      /\ r.is = "running" /\ l > run.pos /\ Outer[l] = Innermost(run.open)
      /\ frames' = gs /\ run' = body
  BY DEF Loop, Waiting
<1>2. /\ frames \in Seq(Frame) /\ run \in Codes /\ run.fresh /\ run.fn \in Functions
      /\ Nested(run) /\ Within(frames, n, run)
      /\ frames # <<>> /\ Last(frames).op # "Raw"
      /\ run.open \in Seq(Loops) /\ run.pos \in Nat
  BY <1>1, CodeFields DEF IInv, Types, Framed, Looping
<1>3. /\ body \in Codes /\ body.fresh /\ body.fn = run.fn
      /\ body.open = Append(run.open, l) /\ body.pos = l
  <2>1. Append(run.open, l) \in Seq(Loops)
    BY <1>2, AppendTo
  <2> QED BY <1>2, <2>1 DEF Codes
<1> HIDE DEF body
<1>4. /\ body.open \in Seq(Loops) /\ body.open # <<>> /\ Last(body.open) = l
      /\ Len(body.open) = Len(run.open) + 1 /\ Len(run.open) \in Nat
      /\ body.open[Len(run.open) + 1] = l
      /\ \A i \in 1 .. Len(run.open) : body.open[i] = run.open[i]
  BY SMTT(40), <1>2, <1>3, AppendTo
<1>5. \A j \in 1 .. Len(run.open) : SubSeq(body.open, 1, j) = SubSeq(run.open, 1, j)
  BY <1>2, <1>4
<1>6. SubSeq(body.open, 1, Len(run.open) + 1) = body.open
  BY <1>4
<1>7. DOMAIN body.open = (1 .. Len(run.open)) \union {Len(run.open) + 1}
      /\ DOMAIN run.open = 1 .. Len(run.open)
  BY SMTT(40), <1>2, <1>4
\* The loops that were open are around the new one.
<1>8. \A i \in 1 .. Len(run.open) : run.open[i] \in Around(l)
  <2> SUFFICES ASSUME NEW i \in 1 .. Len(run.open)
               PROVE  run.open[i] \in Around(l)
    OBVIOUS
  <2>1. Outer[l] = run.open[Len(run.open)] /\ Len(run.open) \in DOMAIN run.open
    BY <1>1, <1>2 DEF Innermost, Last
  <2>2. Outer[l] \in Loops /\ Outer[l] # 0
    <3>1. run.open[Len(run.open)] \in Loops
      BY <1>2, <2>1
    <3> QED BY <2>1, <3>1, LoopsAreNumbered
  <2>3. run.open[i] \in Around(Outer[l])
    BY <1>2, <2>1 DEF Nested
  <2> QED BY <2>2, <2>3, AroundOuter, AroundAround
<1>9. Nested(body)
  <2> SUFFICES ASSUME NEW j \in DOMAIN body.open
               PROVE  body.open[j] \in Around(l)
                      /\ \A i \in 1 .. j : body.open[i] \in Around(body.open[j])
    BY <1>3 DEF Nested
  <2>1. \A i \in DOMAIN body.open : body.open[i] \in Around(l)
    BY <1>4, <1>7, <1>8, AroundItself
  <2>2. CASE j = Len(run.open) + 1
    BY <1>4, <2>1, <2>2
  <2>3. CASE j \in 1 .. Len(run.open)
    <3> SUFFICES ASSUME NEW i \in 1 .. j PROVE body.open[i] \in Around(body.open[j])
      BY <1>7, <2>1, <2>3
    <3>1. i \in 1 .. Len(run.open) /\ j \in DOMAIN run.open
      BY <1>4, <1>7, <2>3
    <3>2. run.open[i] \in Around(run.open[j])
      BY <1>2, <3>1 DEF Nested
    <3> QED BY <1>4, <2>3, <3>1, <3>2
  <2> QED BY <1>7, <2>2, <2>3
<1>10. f \in Frame /\ f.op = "Loop" /\ f.code = body
  BY <1>3 DEF Frame
<1> HIDE DEF f
<1>11. /\ gs \in Seq(Frame) /\ Len(gs) = n /\ Len(frames) \in Nat
       /\ gs[n] = f /\ Last(gs) = f /\ gs # <<>>
       /\ \A i \in 1 .. Len(frames) : gs[i] = frames[i]
       /\ Block(gs, n) = Block(frames, n)
  BY <1>2, <1>10, Pushing
<1> HIDE DEF gs
<1>12. Block(frames, n) \subseteq 1 .. Len(frames) /\ DOMAIN frames = 1 .. Len(frames)
  BY <1>2 DEF Block
<1>13. \A i \in Block(gs, n) : gs[i] = frames[i] /\ gs[i].code.pos < l
  <2>1. \A i \in Block(frames, n) :
          frames[i].code.pos \in Nat /\ frames[i].code.pos <= run.pos
    BY <1>2, <1>12, FrameFields DEF Within
  <2> QED BY SMTT(40), <1>1, <1>2, <1>11, <1>12, <2>1, LoopsAreNumbered
<1>14. Within(gs, n + 1, body)
  <2>1. Block(gs, n + 1) = Block(gs, n) \union {n}
    BY <1>10, <1>11, BlockBelow
  <2>2. l \in Nat /\ \A i \in Block(gs, n) : gs[i].code.pos \in Nat
    BY SMTT(40), <1>2, <1>11, <1>12, <1>13, LoopsAreNumbered, FrameFields
  <2>3. \A i \in Block(gs, n + 1) : gs[i].code.pos <= body.pos
    BY SMTT(40), <1>3, <1>10, <1>11, <1>13, <2>1, <2>2
  <2>4. ASSUME NEW j \in DOMAIN body.open
        PROVE  \E i \in Block(gs, n + 1) : gs[i].code.open = SubSeq(body.open, 1, j)
    <3>1. CASE j = Len(run.open) + 1
      BY <1>6, <1>10, <1>11, <2>1, <3>1
    <3>2. CASE j \in 1 .. Len(run.open)
      <4>1. PICK i \in Block(frames, n) : frames[i].code.open = SubSeq(run.open, 1, j)
        BY <1>2, <1>7, <3>2 DEF Within
      <4> QED BY <1>5, <1>11, <1>13, <2>1, <3>2, <4>1
    <3> QED BY <1>7, <3>1, <3>2
  <2> QED BY <2>3, <2>4 DEF Within
<1>15. Good(gs, n)
  <2>1. Stands(gs, n)
    <3>1. n # 1 /\ gs[n - 1] = Last(frames)
      BY <1>2, <1>11 DEF Last
    <3> QED BY <1>2, <1>10, <1>11, <3>1 DEF Stands, Hosted
  <2>2. Holds(gs[n]) /\ Saves(gs, n)
    BY <1>2, <1>3, <1>10, <1>11 DEF Holds, Saves, Hosted
  <2>3. OfItsLoop(gs, n)
    BY <1>3, <1>4, <1>9, <1>10, <1>11, <1>13, <1>14 DEF OfItsLoop
  <2> QED BY <2>1, <2>2, <2>3 DEF Good
<1>16. /\ \A k \in DOMAIN gs : Good(gs, k)
       /\ StackBelow(gs, Len(gs) + 1) <=> StackBelow(frames, Len(frames) + 1)
  BY <1>10, <1>15, Pushed DEF gs
<1>17. Types' /\ Patched' /\ ~wild'
  BY <1>1, <1>3, <1>11 DEF IInv, Types, Patched
<1>18. Standing' /\ ResultsOfLastCall'
  BY <1>1, <1>11, <1>16 DEF Standing, ResultsOfLastCall
<1>19. Framed' /\ Looping'
  BY <1>1, <1>2, <1>3, <1>9, <1>10, <1>11, <1>14, <1>16 DEF IInv, Framed, Looping
<1> QED BY <1>17, <1>18, <1>19 DEF IInv

\* A frame of the embedding program
LEMMA HostCalls ==
  ASSUME IInv, r.is = "host", NEW op \in Hosted, NEW caller \in Functions,
         op = "m3_RunStart" => StartFunction # "none",
         NEW fn \in Functions, RunCode(op, fn, caller), runtime'.stack = runtime.stack
  PROVE  /\ frames' \in Seq(Frame) /\ run' \in Codes /\ run'.fresh
         /\ r' \in Outcomes /\ r'.is \in {"running", "trap"}
         /\ Standing' /\ Framed' /\ Looping' /\ ResultsOfLastCall'
<1> DEFINE f == [op |-> op, code |-> Idle, fn |-> caller, stack |-> 0]
           gs == Append(frames, f)
           n == Len(frames) + 1
<1>1. /\ frames \in Seq(Frame) /\ runtime.stack \in Nat
      /\ frames = <<>> \/ Last(frames).op = "Raw"
  BY DEF IInv, Types, Framed
<1>2. f \in Frame /\ f.op = op /\ f.fn = caller
  BY Constants DEF Frame
<1>3. Enters(fn, runtime.stack, gs)
  BY DEF RunCode
<1> HIDE DEF f
<1>4. gs \in Seq(Frame) /\ gs # <<>> /\ Last(gs) = f /\ gs[n] = f /\ Len(frames) \in Nat
      /\ \A i \in 1 .. Len(frames) : gs[i] = frames[i]
  BY <1>1, <1>2, Pushing
<1>5. Good(gs, n)
  <2>1. n = 1 \/ gs[n - 1].op = "Raw"
    BY <1>1, <1>4 DEF Last
  <2> QED BY <1>2, <1>4, <2>1 DEF Good, Stands, Holds, Saves, OfItsLoop, Hosted
<1>6. /\ \A k \in DOMAIN gs : Good(gs, k)
      /\ StackBelow(gs, Len(gs) + 1) <=> StackBelow(frames, Len(frames) + 1)
  BY <1>2, <1>5, Pushed DEF Hosted
<1>7. StackBelow(gs, Len(gs) + 1) \/ runtime'.stack = 0
  BY <1>6 DEF IInv, Framed
<1> HIDE DEF gs
<1>8. Last(gs).op \notin {"Raw", "Loop"}
  BY <1>2, <1>4 DEF Hosted
<1> QED BY <1>1, <1>3, <1>4, <1>6, <1>7, <1>8, Entered

LEMMA m3_CallKeeps ==
  ASSUME IInv, NEW fn \in Functions, m3_Call(fn)
  PROVE  IInv'
<1>1. /\ UNCHANGED <<memory, written, sites, wild>> /\ r.is = "host"
      /\ runtime.startFunction \notin Broken
  BY DEF m3_Call
<1>2. runtime \in [stack : Nat, lastCalled : Functions \union {"none"},
                   startFunction : {"none", StartFunction}]
  BY DEF IInv, Types
<1>3. CASE runtime.startFunction # "none"
  <2>1. /\ runtime' = [runtime EXCEPT !.startFunction = "none"]
        /\ compiled' = compiled \union {runtime.startFunction}
        /\ RunCode("m3_RunStart", runtime.startFunction, fn)
    BY <1>3 DEF m3_Call
  <2>2. runtime' \in [stack : Nat, lastCalled : Functions \union {"none"},
                      startFunction : {"none", StartFunction}]
        /\ runtime'.stack = runtime.stack
    BY <1>2, <2>1
  <2>3. runtime.startFunction \in Functions /\ StartFunction # "none"
    BY <1>2, <1>3, ConstantTypes
  <2>4. /\ frames' \in Seq(Frame) /\ run' \in Codes /\ run'.fresh /\ r' \in Outcomes
        /\ Standing' /\ Framed' /\ Looping' /\ ResultsOfLastCall'
    BY <1>1, <2>1, <2>2, <2>3, HostCalls DEF Hosted
  <2> QED BY <1>1, <2>1, <2>2, <2>3, <2>4 DEF IInv, Types, Patched
<1>4. CASE runtime.startFunction = "none"
  <2>1. RunCode("m3_Call", fn, fn) /\ UNCHANGED <<runtime, compiled>>
    BY <1>4 DEF m3_Call, RunsFunction
  <2>2. /\ frames' \in Seq(Frame) /\ run' \in Codes /\ run'.fresh /\ r' \in Outcomes
        /\ Standing' /\ Framed' /\ Looping' /\ ResultsOfLastCall'
    BY <1>1, <2>1, HostCalls DEF Hosted
  <2> QED BY <1>1, <2>1, <2>2 DEF IInv, Types, Patched
<1> QED BY <1>3, <1>4

LEMMA ReturnToRunStartKeeps ==
  ASSUME IInv, ReturnToRunStart
  PROVE  IInv'
<1>1. /\ UNCHANGED <<memory, written, compiled, sites, wild>>
      /\ r.is \in {"none", "trap"} /\ frames # <<>> /\ Top.op = "m3_RunStart"
  BY DEF ReturnToRunStart
<1>2. /\ frames \in Seq(Frame) /\ Len(frames) \in DOMAIN frames /\ Len(frames) \in Nat
      /\ Top = frames[Len(frames)] /\ Top \in Frame /\ Good(frames, Len(frames))
      /\ \A k \in DOMAIN frames : Good(frames, k)
      /\ runtime \in [stack : Nat, lastCalled : Functions \union {"none"},
                      startFunction : {"none", StartFunction}]
      /\ StackBelow(frames, Len(frames) + 1) \/ runtime.stack = 0
  BY <1>1 DEF IInv, Types, Standing, Framed, Last
<1>3. Top.fn \in Functions /\ StartFunction # "none"
  BY <1>1, <1>2 DEF Good, Holds, Hosted
<1>4. CASE r.is = "none"
  <2> DEFINE fs == Front(frames)
             f == [Top EXCEPT !.op = "m3_Call"]
             gs == Append(fs, f)
             n == Len(frames)
  <2>1. Enters(Top.fn, runtime.stack, gs) /\ UNCHANGED runtime
    BY <1>4 DEF ReturnToRunStart
  <2>2. /\ fs \in Seq(Frame) /\ Len(fs) = n - 1 /\ n >= 1
        /\ \A i \in 1 .. n - 1 : fs[i] = frames[i]
        /\ StackBelow(fs, n) <=> StackBelow(frames, n)
        /\ \A k \in 1 .. n - 1 : Good(frames, k) => Good(fs, k)
    BY <1>1, <1>2, Popping
  <2>3. f \in Frame /\ f.op = "m3_Call" /\ f.fn = Top.fn
    BY <1>2 DEF Frame, Hosted
  <2> HIDE DEF f, fs
  <2>4. Len(fs) + 1 = n
    BY <1>2, <2>2
  <2>5. /\ gs \in Seq(Frame) /\ Len(gs) = n /\ gs[n] = f /\ Last(gs) = f /\ gs # <<>>
        /\ \A i \in 1 .. n - 1 : gs[i] = fs[i]
        /\ StackBelow(gs, n) <=> StackBelow(fs, n)
        /\ \A k \in 1 .. n - 1 : Good(fs, k) => Good(gs, k)
    <3>1. /\ gs \in Seq(Frame) /\ Len(gs) = Len(fs) + 1 /\ gs[Len(fs) + 1] = f
          /\ Last(gs) = f /\ gs # <<>>
          /\ \A i \in 1 .. Len(fs) : gs[i] = fs[i]
          /\ StackBelow(gs, Len(fs) + 1) <=> StackBelow(fs, Len(fs) + 1)
          /\ \A k \in 1 .. Len(fs) : Good(fs, k) => Good(gs, k)
      BY <2>2, <2>3, Pushing
    <3> QED BY <2>2, <2>4, <3>1
  <2> HIDE DEF gs
  <2>6. Good(gs, n)
    <3>1. n = 1 \/ (n - 1 \in 1 .. n - 1 /\ gs[n - 1] = frames[n - 1])
      <4>1. n = 1 \/ n - 1 \in 1 .. n - 1
        BY <1>2, <2>2
      <4> QED BY <2>2, <2>5, <4>1
    <3>2. n = 1 \/ frames[n - 1].op = "Raw"
      BY <1>1, <1>2 DEF Good, Stands, Hosted
    <3> QED BY <1>3, <2>3, <2>5, <3>1, <3>2
            DEF Good, Stands, Holds, Saves, OfItsLoop, Hosted
  <2>7. \A k \in DOMAIN gs : Good(gs, k)
    <3>1. DOMAIN gs = (1 .. n - 1) \union {n} /\ 1 .. n - 1 \subseteq DOMAIN frames
      <4>1. DOMAIN gs = 1 .. n /\ DOMAIN frames = 1 .. n
        BY <1>2, <2>5
      <4>2. n \in Nat /\ n >= 1
        BY <1>2, <2>2
      <4> HIDE DEF n
      <4> QED BY <4>1, <4>2
    <3> QED BY <1>2, <2>2, <2>5, <2>6, <3>1
  <2>8. StackBelow(gs, Len(gs) + 1) \/ runtime'.stack = 0
    <3>1. StackBelow(gs, n + 1) <=> StackBelow(frames, n + 1)
      BY <1>1, <1>2, <2>2, <2>3, <2>5, BelowTop
    <3> QED BY <1>2, <2>1, <2>5, <3>1
  <2>9. Last(gs).op \notin {"Raw", "Loop"} /\ runtime.stack \in Nat
    BY <1>2, <2>3, <2>5
  <2>10. /\ frames' \in Seq(Frame) /\ run' \in Codes /\ run'.fresh /\ r' \in Outcomes
         /\ Standing' /\ Framed' /\ Looping' /\ ResultsOfLastCall'
    BY <1>3, <2>1, <2>5, <2>7, <2>8, <2>9, Entered
  <2> QED BY <1>1, <1>4, <2>1, <2>10 DEF IInv, Types, Patched
<1>5. CASE r.is # "none"
  <2>1. /\ runtime' = [runtime EXCEPT !.startFunction = StartFunction]
        /\ frames' = Front(frames) /\ r' = Back(r) /\ UNCHANGED <<run, holds>>
    BY <1>5 DEF ReturnToRunStart
  <2>2. /\ runtime' \in [stack : Nat, lastCalled : Functions \union {"none"},
                          startFunction : {"none", StartFunction}]
        /\ runtime'.stack = runtime.stack /\ runtime'.startFunction # "none"
    BY <1>2, <1>3, <2>1
  <2>3. /\ frames' \in Seq(Frame) /\ Standing' /\ Len(frames') + 1 = Len(frames)
        /\ StackBelow(frames', Len(frames)) <=> StackBelow(frames, Len(frames))
        /\ frames' = <<>> \/ Last(frames').op = "Raw" <=> Top.op \in Hosted
    BY <1>1, <2>1, Popped
  <2>4. StackBelow(frames', Len(frames') + 1) <=> StackBelow(frames, Len(frames) + 1)
    BY <1>1, <1>2, <2>3, BelowTop
  <2>5. frames' = <<>> \/ Last(frames').op = "Raw"
    BY <1>1, <2>3 DEF Hosted
  <2>6. Types' /\ Patched' /\ ~wild'
    BY <1>1, <1>5, <2>1, <2>2, <2>3, BackIs DEF IInv, Types, Patched
  <2>7. Framed' /\ Looping' /\ ResultsOfLastCall'
    BY <1>2, <2>1, <2>2, <2>4, <2>5, BackIs DEF Framed, Looping, ResultsOfLastCall
  <2> QED BY <2>3, <2>6, <2>7 DEF IInv
<1> QED BY <1>4, <1>5

LEMMA NewRuntimeKeeps ==
  ASSUME NewRuntime
  PROVE  IInv'
<1>1. PICK pages \in 0 .. MaxPages : memory' = ResizeMemory(NoMemory, pages, 0)
  BY DEF NewRuntime
<1>2. /\ written' = {} /\ compiled' = {} /\ sites' = [fn \in Functions |-> "Compile"]
      /\ runtime' = [stack |-> 0, lastCalled |-> "none", startFunction |-> StartFunction]
      /\ frames' = <<>> /\ run' = Idle /\ r' = InHost /\ wild' = FALSE
  BY DEF NewRuntime
<1>3. Types'
  <2>1. /\ memory'.numPages \in 0 .. MaxPages /\ memory'.length \in Nat
        /\ memory'.maxStack \in Nat
        /\ memory' = [numPages |-> memory'.numPages, length |-> memory'.length,
                      maxStack |-> memory'.maxStack, cells |-> memory'.cells]
    BY <1>1, Resized
  <2>2. /\ frames' \in Seq(Frame) /\ sites' \in [Functions -> {"Compile", "Call", "unpatched"}]
        /\ run' \in Codes /\ run'.fresh /\ r' \in Outcomes
    BY <1>2, Constants
  <2> QED BY <1>2, <2>1, <2>2 DEF Types
<1>4. Standing' /\ Framed' /\ Looping' /\ Patched' /\ ~wild' /\ ResultsOfLastCall'
  BY <1>2, Constants DEF Standing, Framed, Looping, Patched, ResultsOfLastCall
<1> QED BY <1>3, <1>4 DEF IInv

LEMMA InitIsInv == Init => IInv
<1> SUFFICES ASSUME Init PROVE IInv
  OBVIOUS
<1>1. PICK pages \in 0 .. MaxPages : memory = ResizeMemory(NoMemory, pages, 0)
  BY DEF Init, InitMemory
<1>2. Types
  <2>1. /\ memory.numPages \in 0 .. MaxPages /\ memory.length \in Nat
        /\ memory.maxStack \in Nat
        /\ memory = [numPages |-> memory.numPages, length |-> memory.length,
                     maxStack |-> memory.maxStack, cells |-> memory.cells]
    BY <1>1, Resized
  <2>2. /\ frames \in Seq(Frame) /\ sites \in [Functions -> {"Compile", "Call", "unpatched"}]
        /\ run \in Codes /\ run.fresh /\ r \in Outcomes
    BY Constants DEF Init
  <2> QED BY <2>1, <2>2 DEF Init, Types
<1>3. Standing /\ Framed /\ Looping /\ Patched /\ ~wild /\ ResultsOfLastCall
  BY Constants DEF Init, Standing, Framed, Looping, Patched, ResultsOfLastCall
<1> QED BY <1>2, <1>3 DEF IInv

\* What is asked of an access is in the code of a program.
LEMMA StoreKeeps ==
  ASSUME IInv, NEW operand \in 0 .. U32 - 1, NEW offset \in {0, U32 - 1}, NEW size \in 1 .. 2,
         Store(operand, offset, size)
  PROVE  IInv'
<1> DEFINE bytes == Bytes(operand + offset, size)
<1>1. bytes \in SUBSET Nat
  BY ConstantTypes DEF Bytes
<1>2. Access(MemCheck(operand, offset, size), bytes, [i \in bytes |-> "data"], bytes)
  BY DEF Store
<1> HIDE DEF bytes
<1> QED BY <1>1, <1>2, AccessKeeps

LEMMA MemFillKeeps ==
  ASSUME IInv, NEW operand \in 0 .. U32 - 1, NEW size \in 1 .. 2, MemFill(operand, size)
  PROVE  IInv'
<1> DEFINE bytes == Bytes(operand, size)
<1>1. bytes \in SUBSET Nat
  BY ConstantTypes DEF Bytes
<1>2. Access(MemCheck(operand, 0, size), bytes, [i \in bytes |-> "zero"], {})
  BY DEF MemFill
<1> HIDE DEF bytes
<1> QED BY <1>1, <1>2, AccessKeeps

LEMMA MemCopyKeeps ==
  ASSUME IInv, NEW operand \in 0 .. U32 - 1, NEW size \in 1 .. 2,
         NEW source \in 0 .. U32 - 1, MemCopy(operand, source, size)
  PROVE  IInv'
<1> DEFINE bytes == Bytes(operand, size)
           data == { i \in bytes : i - operand + source \in written }
           allowed == MemCheck(operand, 0, size) /\ MemCheck(source, 0, size)
           cell == IF allowed THEN [i \in bytes |-> memory.cells[i - operand + source]]
                   ELSE <<>>
<1>1. bytes \in SUBSET Nat /\ data \in SUBSET Nat
  BY ConstantTypes DEF Bytes
<1>2. Access(allowed, bytes, cell, data)
  BY DEF MemCopy
<1> HIDE DEF bytes, data, allowed, cell
<1> QED BY <1>1, <1>2, AccessKeeps

LEMMA NextKeeps == IInv /\ [Next]_vars => IInv'
<1> SUFFICES ASSUME IInv, [Next]_vars PROVE IInv'
  OBVIOUS
<1>1. CASE UNCHANGED vars
  <2>1. UNCHANGED <<frames, runtime, holds, run, r>> /\ UNCHANGED vars
    BY <1>1 DEF vars
  <2> QED BY <2>1, Quiet DEF IInv, Types, Patched, vars
<1>2. ASSUME NEW fn \in Functions, FindFunction(fn) \/ m3_Call(fn) \/ Call(fn)
      PROVE  IInv'
  BY <1>2, FindFunctionKeeps, m3_CallKeeps, CallKeeps
<1>3. ASSUME NEW i, CallIndirect(i) PROVE IInv'
  BY <1>3, CallIndirectKeeps
<1>4. CASE CallRawFunction
  BY <1>4, CallRawFunctionKeeps
<1>5. CASE HostReturns(Returned) \/ HostReturns(Trapped)
  BY <1>5, HostReturnsKeeps
<1>6. CASE Return \/ Unreachable
  BY <1>6, ReturnKeeps
<1>7. CASE ReturnToCall \/ ReturnToLoop \/ ReturnToRunStart \/ ReturnToHost
  BY <1>7, ReturnToCallKeeps, ReturnToLoopKeeps, ReturnToRunStartKeeps, ReturnToHostKeeps
<1>8. ASSUME NEW l \in Loops, Loop(l) \/ Branch(l) \/ ContinueLoop(l)
      PROVE  IInv'
  BY <1>8, LoopKeeps, BranchKeeps, ContinueLoopKeeps
<1>9. ASSUME NEW pages \in 1 .. MaxPages, NEW moves \in BOOLEAN, NEW fails \in BOOLEAN,
             MemGrow(pages, moves, fails)
      PROVE  IInv'
  BY <1>9, MemGrowKeeps
<1>10. ASSUME NEW operand \in 0 .. U32 - 1, NEW size \in 1 .. 2,
              \/ \E offset \in {0, U32 - 1} : Store(operand, offset, size)
              \/ MemFill(operand, size)
              \/ \E source \in 0 .. U32 - 1 : MemCopy(operand, source, size)
       PROVE  IInv'
  BY <1>10, StoreKeeps, MemFillKeeps, MemCopyKeeps
<1>11. CASE NewRuntime
  BY <1>11, NewRuntimeKeeps
<1> QED BY <1>1, <1>2, <1>3, <1>4, <1>5, <1>6, <1>7, <1>8, <1>9, <1>10, <1>11 DEF Next

\* The frames of C stand on one another as the calls of the code want it, and
\* each activation on the frames of its own loops.
THEOREM FramesStand == Spec => []IInv
BY InitIsInv, NextKeeps, PTL DEF Spec

-----------------------------------------------------------------------------
(***************************************************************************)
(* What the invariant says of the properties the runs check.               *)
(***************************************************************************)

\* No code ever runs with a _mem that memory.grow has moved away: each frame
\* takes it from the runtime when it goes on.
THEOREM MemoryIsFresh == Spec => []MemoryFresh
<1>1. IInv => MemoryFresh
  BY DEF IInv, Types, MemoryFresh
<1> QED BY <1>1, FramesStand, PTL

\* A call site whose function did not compile is not executed again, however
\* the failure goes back through hosts and starts.
THEOREM CallsAreToCode == Spec => []CallsGoToCode
<1>1. IInv => CallsGoToCode
  BY DEF IInv, CallsGoToCode
<1> QED BY <1>1, FramesStand, PTL

\* m3_GetResults finds the results of the function it is asked for.
THEOREM ResultsAreOfLastCall == Spec => []ResultsOfLastCall
<1>1. IInv => ResultsOfLastCall
  BY DEF IInv
<1> QED BY <1>1, FramesStand, PTL

\* A continue goes on with its own loop, through the frames of the loops that
\* were left by a branch.
THEOREM ContinuesAreOfTheirLoops == Spec => ContinuesItsLoop
<1> DEFINE A == r.is = "loop" /\ r'.is = "running" => run'.open = r.open
<1>1. IInv /\ [Next]_vars => [A]_vars
  <2> SUFFICES ASSUME IInv, Next PROVE A
    OBVIOUS
  <2> SUFFICES ASSUME r.is = "loop", r'.is = "running" PROVE run'.open = r.open
    OBVIOUS
  <2>1. ReturnToLoop
    BY DEF Next, FindFunction, m3_Call, Call, CallIndirect, CallRawFunction, HostReturns,
           Return, Unreachable, ReturnToCall, ReturnToRunStart, ReturnToHost,
           Loop, Branch, ContinueLoop, MemGrow, Store, MemFill, MemCopy, Access, NewRuntime
  <2> QED BY <2>1, ReturnToLoopKeeps
<1> QED BY <1>1, FramesStand, PTL DEF Spec, ContinuesItsLoop

-----------------------------------------------------------------------------
(***************************************************************************)
(* The contents of the memory, where the bytes of all pages are a u32.     *)
(***************************************************************************)
LEMMA TimesMonotonic ==
  ASSUME NEW a \in Nat, NEW b \in Nat, NEW c \in Nat, a <= b
  PROVE  a * c \in Nat /\ b * c \in Nat /\ a * c <= b * c
<1>1. b * c = a * c + (b - a) * c
  OBVIOUS
<1>2. (b - a) * c \in Nat /\ a * c \in Nat /\ b * c \in Nat
  OBVIOUS
<1> QED BY <1>1, <1>2

LEMMA BytesOfPages ==
  ASSUME MaxPages * PageSize < U32, NEW n \in 0 .. MaxPages
  PROVE  n * PageSize \in Nat /\ (n * PageSize) % U32 = n * PageSize
<1>1. n * PageSize \in Nat /\ MaxPages * PageSize \in Nat /\ n * PageSize <= MaxPages * PageSize
  BY ConstantTypes, TimesMonotonic
<1> DEFINE bytes == n * PageSize
           all == MaxPages * PageSize
<1> HIDE DEF bytes, all
<1>2. bytes \in Nat /\ all \in Nat /\ bytes <= all /\ all < U32 /\ U32 \in Nat
  BY <1>1, ConstantTypes DEF bytes, all
<1>3. bytes % U32 = bytes
  BY <1>2
<1> QED BY <1>2, <1>3 DEF bytes

\* The bytes of a memory of size bytes that hold data where ws says so
Data(size, ws) == [i \in 0 .. size - 1 |-> IF i \in ws THEN "data" ELSE "zero"]

\* m3_Realloc sets to zero just what is above the old contents.
LEMMA ReallocatedData ==
  ASSUME NEW old \in Nat, NEW new \in Nat, NEW ws \in SUBSET (0 .. old - 1)
  PROVE  Reallocated(Data(old, ws), new + HeaderSize, IF old = 0 THEN 0 ELSE old + HeaderSize)
           = Data(new, ws)
<1> DEFINE prev == IF old = 0 THEN 0 ELSE old + HeaderSize
           got == Reallocated(Data(old, ws), new + HeaderSize, prev)
<1>1. HeaderSize \in Nat
  BY ConstantTypes
<1>2. 0 .. (new + HeaderSize) - HeaderSize - 1 = 0 .. new - 1
  BY <1>1
<1>3. got = [i \in 0 .. new - 1 |->
               IF HeaderSize + i >= prev THEN "zero"
               ELSE IF i \in DOMAIN Data(old, ws) THEN Data(old, ws)[i] ELSE "junk"]
  <2> HIDE DEF prev
  <2>1. got = [i \in 0 .. (new + HeaderSize) - HeaderSize - 1 |->
                 IF HeaderSize + i >= prev THEN "zero"
                 ELSE IF i \in DOMAIN Data(old, ws) THEN Data(old, ws)[i] ELSE "junk"]
    BY DEF Reallocated
  <2> HIDE DEF got
  <2> QED BY <1>2, <2>1
<1>4. DOMAIN Data(old, ws) = 0 .. old - 1
      /\ \A i \in 0 .. old - 1 : Data(old, ws)[i] = IF i \in ws THEN "data" ELSE "zero"
  BY DEF Data
<1>5. ASSUME NEW i \in 0 .. new - 1
      PROVE  (IF HeaderSize + i >= prev THEN "zero"
              ELSE IF i \in DOMAIN Data(old, ws) THEN Data(old, ws)[i] ELSE "junk")
               = IF i \in ws THEN "data" ELSE "zero"
  <2>1. CASE i < old
    BY <1>1, <1>4, <2>1
  <2>2. CASE ~(i < old)
    BY <1>1, <2>2
  <2> QED BY <2>1, <2>2
<1>6. got = [i \in 0 .. new - 1 |-> IF i \in ws THEN "data" ELSE "zero"]
  BY <1>3, <1>5
<1> QED BY <1>6 DEF Data

LEMMA ResizeKeepsContents ==
  ASSUME MaxPages * PageSize < U32,
         NEW m, m.numPages \in 0 .. MaxPages,
         NEW ws \in SUBSET (0 .. m.numPages * PageSize - 1),
         m.cells = Data(m.numPages * PageSize, ws),
         NEW pages \in 0 .. MaxPages, NEW stack \in Nat
  PROVE  LET new == ResizeMemory(m, pages, stack)
         IN /\ new.numPages = pages /\ new.length = pages * PageSize
            /\ new.cells = Data(pages * PageSize, ws)
<1> DEFINE old == m.numPages * PageSize
           size == pages * PageSize
<1>1. old \in Nat /\ size \in Nat /\ size % U32 = size
  BY BytesOfPages
<1>2. PreviousBytes(m) = IF old = 0 THEN 0 ELSE old + HeaderSize
  BY DEF PreviousBytes
<1>3. LET new == ResizeMemory(m, pages, stack)
      IN /\ new.numPages = pages /\ new.length = size % U32
         /\ new.cells = Reallocated(m.cells, (size % U32) + HeaderSize, PreviousBytes(m))
  BY DEF ResizeMemory
<1> HIDE DEF old, size
<1>4. Reallocated(Data(old, ws), size + HeaderSize, IF old = 0 THEN 0 ELSE old + HeaderSize)
        = Data(size, ws)
  BY <1>1, ReallocatedData DEF old
<1> QED BY <1>1, <1>2, <1>3, <1>4 DEF old, size

LEMMA AccessKeepsContents ==
  ASSUME IInv, Contents, NEW allowed, NEW bytes, NEW cell, NEW data \in SUBSET bytes,
         allowed => bytes \subseteq 0 .. Size - 1,
         allowed => \A i \in bytes : cell[i] = IF i \in data THEN "data" ELSE "zero",
         Access(allowed, bytes, cell, data)
  PROVE  Contents'
<1>1. CASE ~allowed
  <2>1. UNCHANGED <<memory, written>>
    BY <1>1 DEF Access
  <2> QED BY <2>1 DEF Contents, ContentsKept, Size
<1>2. CASE allowed
  <2>1. /\ memory' = [memory EXCEPT !.cells = [i \in DOMAIN @ |->
                          IF i \in bytes THEN cell[i] ELSE @[i]]]
        /\ written' = (written \ bytes) \union data
    BY <1>2 DEF Access
  <2>2. memory = [numPages |-> memory.numPages, length |-> memory.length,
                  maxStack |-> memory.maxStack, cells |-> memory.cells]
    BY DEF IInv, Types
  <2>3. /\ memory'.numPages = memory.numPages /\ memory'.length = memory.length
        /\ memory'.cells = [i \in DOMAIN memory.cells |->
                              IF i \in bytes THEN cell[i] ELSE memory.cells[i]]
    BY <2>1, <2>2
  <2>4. /\ memory.cells = [i \in 0 .. Size - 1 |-> IF i \in written THEN "data" ELSE "zero"]
        /\ written \subseteq 0 .. Size - 1 /\ memory.length = Size
    BY DEF Contents, ContentsKept, Size
  <2>5. Size' = Size
    BY <2>3 DEF Size
  <2>6. memory'.cells = [i \in 0 .. Size - 1 |-> IF i \in written' THEN "data" ELSE "zero"]
    <3>1. DOMAIN memory.cells = 0 .. Size - 1
      BY <2>4
    <3>2. ASSUME NEW i \in 0 .. Size - 1
          PROVE  (IF i \in bytes THEN cell[i] ELSE memory.cells[i])
                   = IF i \in written' THEN "data" ELSE "zero"
      BY <1>2, <2>1, <2>4
    <3> HIDE DEF Size
    <3> QED BY <2>3, <3>1, <3>2
  <2>7. written' \subseteq 0 .. Size - 1
    BY <1>2, <2>1, <2>4
  <2> QED BY <2>3, <2>4, <2>5, <2>6, <2>7 DEF Contents, ContentsKept, Size
<1> QED BY <1>1, <1>2

\* The product of pages and bytes of a page is the size, whoever sets it.
LEMMA SizeIsNat ==
  ASSUME IInv
  PROVE  Size \in Nat
BY SMTT(40), ConstantTypes, TimesMonotonic DEF IInv, Types, Size

LEMMA WritesKeepContents ==
  ASSUME IInv, Contents, NEW operand \in 0 .. U32 - 1, NEW size \in 1 .. 2,
         \/ \E offset \in {0, U32 - 1} : Store(operand, offset, size)
         \/ MemFill(operand, size)
         \/ \E source \in 0 .. U32 - 1 : MemCopy(operand, source, size)
  PROVE  Contents'
<1>1. Size \in Nat /\ memory.length = Size /\ U32 \in Nat
  BY SizeIsNat, ConstantTypes DEF Contents
<1>2. ASSUME NEW offset \in {0, U32 - 1}, Store(operand, offset, size) PROVE Contents'
  <2> DEFINE bytes == Bytes(operand + offset, size)
             cell == [i \in bytes |-> "data"]
  <2>1. Access(MemCheck(operand, offset, size), bytes, cell, bytes)
    BY <1>2 DEF Store
  <2>2. MemCheck(operand, offset, size) => bytes \subseteq 0 .. Size - 1
    BY <1>1 DEF MemCheck, Bytes
  <2>3. \A i \in bytes : cell[i] = IF i \in bytes THEN "data" ELSE "zero"
    OBVIOUS
  <2> HIDE DEF bytes, cell
  <2> QED BY <2>1, <2>2, <2>3, AccessKeepsContents
<1>3. ASSUME MemFill(operand, size) PROVE Contents'
  <2> DEFINE bytes == Bytes(operand, size)
             cell == [i \in bytes |-> "zero"]
  <2>1. Access(MemCheck(operand, 0, size), bytes, cell, {})
    BY <1>3 DEF MemFill
  <2>2. MemCheck(operand, 0, size) => bytes \subseteq 0 .. Size - 1
    BY <1>1 DEF MemCheck, Bytes
  <2>3. \A i \in bytes : cell[i] = IF i \in {} THEN "data" ELSE "zero"
    OBVIOUS
  <2> HIDE DEF bytes, cell
  <2> QED BY <2>1, <2>2, <2>3, AccessKeepsContents
<1>4. ASSUME NEW source \in 0 .. U32 - 1, MemCopy(operand, source, size) PROVE Contents'
  <2> DEFINE bytes == Bytes(operand, size)
             data == { i \in bytes : i - operand + source \in written }
             allowed == MemCheck(operand, 0, size) /\ MemCheck(source, 0, size)
             cell == IF allowed THEN [i \in bytes |-> memory.cells[i - operand + source]]
                     ELSE <<>>
  <2>1. Access(allowed, bytes, cell, data)
    BY <1>4 DEF MemCopy
  <2>2. allowed => bytes \subseteq 0 .. Size - 1
    BY <1>1 DEF MemCheck, Bytes
  <2>3. ASSUME allowed, NEW i \in bytes
        PROVE  cell[i] = IF i \in data THEN "data" ELSE "zero"
    <3>1. i - operand + source \in 0 .. Size - 1
      BY <1>1, <2>3 DEF MemCheck, Bytes
    <3>2. memory.cells[i - operand + source]
            = IF i - operand + source \in written THEN "data" ELSE "zero"
      BY <3>1 DEF Contents, ContentsKept, Size
    <3>3. cell[i] = memory.cells[i - operand + source]
      BY <2>3
    <3> QED BY <3>2, <3>3
  <2>4. data \in SUBSET bytes
    OBVIOUS
  <2> HIDE DEF bytes, cell, data, allowed
  <2> QED BY <2>1, <2>2, <2>3, <2>4, AccessKeepsContents
<1> QED BY <1>2, <1>3, <1>4

LEMMA NewMemory ==
  ASSUME MaxPages * PageSize < U32, NEW pages \in 0 .. MaxPages
  PROVE  LET new == ResizeMemory(NoMemory, pages, 0)
         IN /\ new.numPages = pages /\ new.length = pages * PageSize
            /\ new.cells = Data(pages * PageSize, {})
<1> DEFINE m == NoMemory
           ws == {}
<1>1. m.numPages = 0 /\ m.cells = <<>>
  BY DEF NoMemory
<1>2. m.numPages * PageSize = 0
  BY <1>1, ConstantTypes
<1>3. Data(0, {}) = <<>>
  BY DEF Data
<1>4. m.numPages \in 0 .. MaxPages /\ ws \in SUBSET (0 .. m.numPages * PageSize - 1)
      /\ m.cells = Data(m.numPages * PageSize, ws)
  BY <1>1, <1>2, <1>3, ConstantTypes
<1> HIDE DEF m, ws
<1>5. LET new == ResizeMemory(m, pages, 0)
      IN /\ new.numPages = pages /\ new.length = pages * PageSize
         /\ new.cells = Data(pages * PageSize, ws)
  <2>1. MaxPages * PageSize < U32 /\ 0 \in Nat
    OBVIOUS
  <2>2. m.numPages \in 0 .. MaxPages
    BY <1>4
  <2>3. ws \in SUBSET (0 .. m.numPages * PageSize - 1)
    BY <1>4
  <2>4. m.cells = Data(m.numPages * PageSize, ws)
    BY <1>4
  <2> QED BY ONLY <2>1, <2>2, <2>3, <2>4, ZenonT(120), pages \in 0 .. MaxPages,
              ResizeKeepsContents
<1> QED BY <1>5 DEF m, ws

LEMMA ContentsStep ==
  ASSUME MaxPages * PageSize < U32
  PROVE  /\ Init => Contents
         /\ IInv /\ Contents /\ [Next]_vars => Contents'
<1>1. ASSUME Init PROVE Contents
  <2>1. PICK pages \in 0 .. MaxPages : memory = ResizeMemory(NoMemory, pages, 0)
    BY <1>1 DEF Init, InitMemory
  <2>2. /\ memory.numPages = pages /\ memory.length = pages * PageSize
        /\ memory.cells = Data(pages * PageSize, {})
    BY <2>1, NewMemory
  <2> QED BY <1>1, <2>2 DEF Init, Contents, ContentsKept, Size, Data
<1>2. ASSUME IInv, Contents, NEW pages \in 1 .. MaxPages, NEW moves \in BOOLEAN,
             NEW fails \in BOOLEAN, MemGrow(pages, moves, fails)
      PROVE  Contents'
  <2>1. written' = written
    BY <1>2 DEF MemGrow
  <2>2. CASE fails
    <3>1. memory' = memory
      BY <1>2, <2>2 DEF MemGrow
    <3> QED BY <1>2, <2>1, <3>1 DEF Contents, ContentsKept, Size
  <2>3. CASE ~fails
    <3> DEFINE np == memory.numPages + pages
    <3>1. memory' = ResizeMemory(memory, np, runtime.stack) /\ np <= MaxPages
      BY <1>2, <2>3 DEF MemGrow
    <3>2. /\ np \in 0 .. MaxPages /\ runtime.stack \in Nat
          /\ memory.numPages \in 0 .. MaxPages
      BY SMTT(40), <1>2, <3>1, ConstantTypes DEF IInv, Types
    <3>3. /\ written \in SUBSET (0 .. memory.numPages * PageSize - 1)
          /\ memory.cells = Data(memory.numPages * PageSize, written)
      BY <1>2 DEF Contents, ContentsKept, Size, Data
    <3> HIDE DEF np
    <3>4. /\ memory'.numPages = np /\ memory'.length = np * PageSize
          /\ memory'.cells = Data(np * PageSize, written)
      <4>1. LET new == ResizeMemory(memory, np, runtime.stack)
            IN /\ new.numPages = np /\ new.length = np * PageSize
               /\ new.cells = Data(np * PageSize, written)
        BY <3>2, <3>3, ResizeKeepsContents, SMTT(40)
      <4> QED BY <3>1, <4>1
    <3>5. written \subseteq 0 .. np * PageSize - 1
      <4>1. memory.numPages * PageSize <= np * PageSize
            /\ np * PageSize \in Nat /\ memory.numPages * PageSize \in Nat
        <5>1. memory.numPages \in Nat /\ np \in Nat /\ memory.numPages <= np
          BY <3>2 DEF np
        <5> QED BY <5>1, TimesMonotonic, ConstantTypes
      <4> DEFINE a == memory.numPages * PageSize
                 b == np * PageSize
      <4>2. written \subseteq 0 .. a - 1 /\ a \in Nat /\ b \in Nat /\ a <= b
        BY <3>3, <4>1
      <4> HIDE DEF a, b
      <4>3. written \subseteq 0 .. b - 1
        BY <4>2
      <4> QED BY <4>3 DEF b
    <3> QED BY <2>1, <3>4, <3>5 DEF Contents, ContentsKept, Size, Data
  <2> QED BY <2>2, <2>3
<1>3. ASSUME NewRuntime PROVE Contents'
  <2>1. PICK pages \in 0 .. MaxPages : memory' = ResizeMemory(NoMemory, pages, 0)
    BY <1>3 DEF NewRuntime
  <2>2. /\ memory'.numPages = pages /\ memory'.length = pages * PageSize
        /\ memory'.cells = Data(pages * PageSize, {})
    BY <2>1, NewMemory
  <2>3. written' = {}
    BY <1>3 DEF NewRuntime
  <2> QED BY <2>2, <2>3 DEF Contents, ContentsKept, Size, Data
<1>4. ASSUME Contents, UNCHANGED <<memory, written>> PROVE Contents'
  BY <1>4 DEF Contents, ContentsKept, Size
<1>5. ASSUME IInv, Contents, [Next]_vars PROVE Contents'
  <2>1. CASE UNCHANGED vars
    BY <1>4, <1>5, <2>1 DEF vars
  <2>2. ASSUME NEW fn \in Functions, FindFunction(fn) \/ m3_Call(fn) \/ Call(fn)
        PROVE  Contents'
    BY <1>4, <1>5, <2>2 DEF FindFunction, m3_Call, Call
  <2>3. ASSUME NEW i, CallIndirect(i) PROVE Contents'
    BY <1>4, <1>5, <2>3 DEF CallIndirect
  <2>4. CASE CallRawFunction \/ HostReturns(Returned) \/ HostReturns(Trapped)
    BY <1>4, <1>5, <2>4 DEF CallRawFunction, HostReturns
  <2>5. CASE Return \/ Unreachable
    BY <1>4, <1>5, <2>5 DEF Return, Unreachable
  <2>6. CASE ReturnToCall \/ ReturnToLoop \/ ReturnToRunStart \/ ReturnToHost
    BY <1>4, <1>5, <2>6 DEF ReturnToCall, ReturnToLoop, ReturnToRunStart, ReturnToHost
  <2>7. ASSUME NEW l \in Loops, Loop(l) \/ Branch(l) \/ ContinueLoop(l)
        PROVE  Contents'
    BY <1>4, <1>5, <2>7 DEF Loop, Branch, ContinueLoop
  <2> QED BY <1>2, <1>3, <1>5, <2>1, <2>2, <2>3, <2>4, <2>5, <2>6, <2>7,
             WritesKeepContents DEF Next
<1> QED BY <1>1, <1>5

\* An access is let through exactly if its bytes are in the pages, for every
\* size of the memory below the 2^32 bytes at which the product is 0.
THEOREM BoundsAreExact ==
  ASSUME MaxPages * PageSize < U32
  PROVE  Spec => []BoundsExact
<1>1. Contents => BoundsExact
  BY DEF Contents, BoundsExact, MemCheck, Size
<1>2. Init => Contents
  BY ContentsStep
<1>3. IInv /\ Contents /\ [Next]_vars => Contents'
  BY ContentsStep
<1> QED BY <1>1, <1>2, <1>3, FramesStand, PTL DEF Spec

\* However the memory grows, moves or does not, and whatever is stored, filled
\* and copied, its bytes are what the program has made them.
THEOREM ContentsAreKept ==
  ASSUME MaxPages * PageSize < U32
  PROVE  Spec => []ContentsKept
<1>1. Contents => ContentsKept
  BY DEF Contents
<1>2. Init => Contents
  BY ContentsStep
<1>3. IInv /\ Contents /\ [Next]_vars => Contents'
  BY ContentsStep
<1> QED BY <1>1, <1>2, <1>3, FramesStand, PTL DEF Spec

-----------------------------------------------------------------------------
(***************************************************************************)
(* The frames of the program within its stack, where host functions do not *)
(* call code that grows the memory: ResizeMemory takes the end of the      *)
(* stack from where the stack of the runtime is at that moment.            *)
(***************************************************************************)
LEMMA NoHostNoStack ==
  ASSUME IInv, Depth("Raw") = 0
  PROVE  runtime.stack = 0
<1> DEFINE raws == { k \in DOMAIN frames : frames[k].op = "Raw" }
<1>1. DOMAIN frames = 1 .. Len(frames) /\ Len(frames) \in Nat
  BY DEF IInv, Types
<1>2. IsFiniteSet(raws)
  <2>1. IsFiniteSet(1 .. Len(frames))
    BY <1>1, FS_Interval
  <2> QED BY <1>1, <2>1, FS_Subset
<1>3. raws = {}
  BY <1>2, FS_EmptySet DEF Depth
<1>4. ~StackBelow(frames, Len(frames) + 1)
  BY <1>1, <1>3 DEF StackBelow
<1> QED BY <1>4 DEF IInv, Framed

LEMMA PopFits ==
  ASSUME NEW fs \in Seq(Frame), fs # <<>>, FitIn(fs)
  PROVE  /\ FitIn(Front(fs))
         /\ Last(fs).op \in {"Call", "Loop"} => Fits(Last(fs).code)
         /\ Based(Last(fs).stack)
<1>1. /\ Front(fs) \in Seq(Frame) /\ Len(Front(fs)) = Len(fs) - 1 /\ Len(fs) \in Nat
      /\ Len(fs) >= 1 /\ Last(fs) = fs[Len(fs)]
      /\ \A i \in 1 .. Len(fs) - 1 : Front(fs)[i] = fs[i]
  BY Popping
<1>2. DOMAIN Front(fs) = 1 .. Len(fs) - 1 /\ Len(fs) \in DOMAIN fs
      /\ 1 .. Len(fs) - 1 \subseteq DOMAIN fs
  BY <1>1
<1> QED BY <1>1, <1>2 DEF FitIn

LEMMA PushFits ==
  ASSUME NEW fs \in Seq(Frame), FitIn(fs), NEW f \in Frame,
         f.op \in {"Call", "Loop"} => Fits(f.code), Based(f.stack)
  PROVE  FitIn(Append(fs, f))
<1>1. /\ Append(fs, f) \in Seq(Frame) /\ Len(Append(fs, f)) = Len(fs) + 1
      /\ Append(fs, f)[Len(fs) + 1] = f /\ Len(fs) \in Nat
      /\ \A i \in 1 .. Len(fs) : Append(fs, f)[i] = fs[i]
  BY Pushing
<1>2. DOMAIN Append(fs, f) = (1 .. Len(fs)) \union {Len(fs) + 1} /\ DOMAIN fs = 1 .. Len(fs)
  BY <1>1
<1> QED BY <1>1, <1>2 DEF FitIn

LEMMA EntersFits ==
  ASSUME memory.maxStack = NumStackSlots, NEW fn, NEW sp, sp % 2 = 0, NEW fs, FitIn(fs),
         Enters(fn, sp, fs)
  PROVE  FitIn(frames') /\ (r'.is = "running" => Fits(run'))
<1>1. frames' = fs
      /\ \/ run' = Code(fn, sp) /\ sp + FrameSlots[fn] < NumStackSlots
         \/ r' = Trapped
  BY DEF Enters, Trap
<1>2. Code(fn, sp).fn = fn /\ Code(fn, sp).sp = sp
  BY DEF Code, Idle
<1> QED BY <1>1, <1>2, Constants DEF Fits

\* The stack a call begins at is even, as the slots are two to a value, and
\* no further than the end: its caller's frame is below the end.
LEMMA CalleeBased ==
  ASSUME IInv, Stacked, r.is = "running"
  PROVE  Based(CalleeStack) /\ CalleeStack \in Nat
<1>1. run.sp \in Nat /\ FrameSlots[run.fn] \in Nat /\ NumStackSlots \in Nat
  BY CodeFields, ConstantTypes DEF IInv, Types, Framed
<1>2. run.sp + FrameSlots[run.fn] < NumStackSlots /\ run.sp % 2 = 0 /\ NumStackSlots % 2 = 0
  BY ConstantTypes DEF Stacked, Fits
<1> DEFINE top == TopSlot(run.fn)
<1>3. /\ top \in Nat /\ top % 2 = 0
      /\ \/ top = FrameSlots[run.fn] \/ top = FrameSlots[run.fn] + 1
         \/ FrameSlots[run.fn] = 0 /\ top = 2
  BY <1>1 DEF TopSlot
<1>4. CalleeStack = run.sp + top
  BY DEF CalleeStack
<1> HIDE DEF top
<1> QED BY <1>1, <1>2, <1>3, <1>4 DEF Based

LEMMA StackedStep ==
  ASSUME ~GrowsInCallback
  PROVE  /\ Init => Stacked
         /\ IInv /\ Stacked /\ [Next]_vars => Stacked'
<1>1. ASSUME NEW m, NEW pages, NEW stack, stack = 0
      PROVE  ResizeMemory(m, pages, stack).maxStack = NumStackSlots
  BY <1>1, ConstantTypes DEF ResizeMemory
<1>2. FitIn(<<>>) /\ Based(0)
  BY ConstantTypes DEF FitIn, Based
<1>3. ASSUME Init PROVE Stacked
  BY <1>1, <1>2, <1>3, Constants DEF Init, InitMemory, Stacked
<1>4. ASSUME NewRuntime PROVE Stacked'
  BY <1>1, <1>2, <1>4, Constants DEF NewRuntime, Stacked
<1> SUFFICES ASSUME IInv, Stacked, [Next]_vars PROVE Stacked'
  BY <1>3
<1>5. /\ memory.maxStack = NumStackSlots /\ FitIn(frames) /\ frames \in Seq(Frame)
      /\ r.is = "running" => Fits(run) /\ run \in Codes
      /\ Based(runtime.stack)
  BY DEF Stacked, IInv, Types
<1>6. ASSUME memory'.maxStack = memory.maxStack, UNCHANGED <<frames, runtime>>,
             r'.is = "running" => r.is = "running" /\ run'.fn = run.fn /\ run'.sp = run.sp
      PROVE  Stacked'
  BY <1>5, <1>6 DEF Stacked, Fits
<1>7. ASSUME UNCHANGED memory, frames # <<>>, frames' = Front(frames), r'.is # "running",
             runtime'.stack = runtime.stack \/ runtime'.stack = Top.stack
      PROVE  Stacked'
  BY <1>5, <1>7, PopFits DEF Stacked, Top
<1>8. ASSUME UNCHANGED memory, runtime'.stack = runtime.stack,
             NEW fn, NEW sp, sp % 2 = 0, NEW fs, FitIn(fs), Enters(fn, sp, fs)
      PROVE  Stacked'
  BY <1>5, <1>8, EntersFits DEF Stacked
<1>9. CASE UNCHANGED vars
  BY <1>6, <1>9 DEF vars
<1>10. ASSUME NEW fn \in Functions, FindFunction(fn) PROVE Stacked'
  BY <1>6, <1>10 DEF FindFunction
<1>11. ASSUME NEW op \in Hosted, NEW fn, NEW caller \in Functions, RunCode(op, fn, caller),
              UNCHANGED memory, runtime'.stack = runtime.stack
       PROVE  Stacked'
  <2> DEFINE f == [op |-> op, code |-> Idle, fn |-> caller, stack |-> 0]
  <2>1. f \in Frame /\ f.op \notin {"Call", "Loop"} /\ f.stack = 0
    BY Constants DEF Frame, Hosted
  <2>2. Enters(fn, runtime.stack, Append(frames, f))
    BY <1>11 DEF RunCode
  <2> HIDE DEF f
  <2>3. FitIn(Append(frames, f))
    BY <1>2, <1>5, <2>1, PushFits
  <2> QED BY <1>5, <1>8, <1>11, <2>2, <2>3 DEF Based
<1>12. ASSUME NEW fn \in Functions, m3_Call(fn) PROVE Stacked'
  <2>1. runtime'.stack = runtime.stack
    BY <1>12 DEF m3_Call, IInv, Types
  <2> QED BY <1>11, <1>12, <2>1 DEF m3_Call, RunsFunction, Hosted
<1>13. ASSUME r.is = "running" PROVE FitIn(Waiting("Call", run))
  <2> DEFINE f == [op |-> "Call", code |-> run, fn |-> "none", stack |-> 0]
  <2>1. f \in Frame /\ f.code = run /\ f.stack = 0
    BY <1>5, <1>13 DEF Frame
  <2>2. Waiting("Call", run) = Append(frames, f)
    BY DEF Waiting
  <2> HIDE DEF f
  <2> QED BY <1>2, <1>5, <1>13, <2>1, <2>2, PushFits
<1>14. ASSUME NEW fn \in Functions, r.is = "running", Calls(fn), UNCHANGED <<memory, runtime>>
       PROVE  Stacked'
  BY <1>8, <1>13, <1>14, CalleeBased DEF Calls, Based
<1>15. ASSUME UNCHANGED <<memory, runtime, frames>>, Trap PROVE Stacked'
  BY <1>6, <1>15, Constants DEF Trap
<1>16. ASSUME NEW fn \in Functions, Call(fn) PROVE Stacked'
  BY <1>14, <1>15, <1>16 DEF Call
<1>17. ASSUME NEW i, CallIndirect(i) PROVE Stacked'
  BY <1>14, <1>15, <1>17 DEF CallIndirect
<1>18. ASSUME CallRawFunction PROVE Stacked'
  <2> DEFINE gs == Waiting("Call", run)
             raw == [op |-> "Raw", code |-> Code("none", CalleeStack), fn |-> "none",
                     stack |-> runtime.stack]
  <2>1. /\ r.is = "running" /\ frames' = gs \o <<raw>> /\ UNCHANGED memory /\ r' = InHost
        /\ runtime'.stack = CalleeStack
    BY <1>18 DEF CallRawFunction, IInv, Types
  <2>2. FitIn(gs) /\ gs \in Seq(Frame)
    <3>1. [op |-> "Call", code |-> run, fn |-> "none", stack |-> 0] \in Frame
      BY <1>5, <2>1 DEF Frame
    <3> QED BY <1>5, <1>13, <2>1, <3>1, AppendTo DEF Waiting
  <2>3. raw \in Frame /\ raw.op = "Raw" /\ raw.stack = runtime.stack
    <3>1. CalleeStack \in Nat /\ runtime.stack \in Nat
      BY <2>1, CallWaits DEF IInv, Types
    <3> QED BY <3>1, Constants DEF Frame
  <2> HIDE DEF gs, raw
  <2>4. gs \o <<raw>> = Append(gs, raw)
    BY <2>2, <2>3, AppendIsConcat
  <2>5. FitIn(frames')
    BY <1>5, <2>1, <2>2, <2>3, <2>4, PushFits
  <2> QED BY <1>5, <2>1, <2>5, CalleeBased, Constants DEF Stacked
<1>19. ASSUME HostReturns(Returned) \/ HostReturns(Trapped) PROVE Stacked'
  <2>1. runtime'.stack = Top.stack
    BY <1>19 DEF HostReturns, IInv, Types
  <2> QED BY <1>7, <1>19, <2>1, Constants DEF HostReturns
<1>20. ASSUME Return PROVE Stacked'
  BY <1>6, <1>20, Constants DEF Return
<1>21. ASSUME Unreachable PROVE Stacked'
  BY <1>15, <1>21 DEF Unreachable
<1>22. ASSUME frames # <<>>, Top.op \in {"Call", "Loop"}, run' = Refreshed(Top),
              UNCHANGED <<memory, runtime>>, FitIn(frames')
       PROVE  Stacked'
  <2>1. Top \in Frame /\ Fits(Top.code)
    BY <1>5, <1>22, PopFits, Popping
  <2>2. run'.fn = Top.code.fn /\ run'.sp = Top.code.sp
    BY <1>22, <2>1 DEF Refreshed, Frame, Codes
  <2> QED BY <1>5, <1>22, <2>1, <2>2 DEF Stacked, Fits
<1>23. ASSUME ReturnToCall PROVE Stacked'
  <2>1. /\ frames # <<>> /\ FitIn(frames') /\ frames' = Front(frames)
        /\ UNCHANGED <<memory, runtime>>
    BY <1>5, <1>23, PopFits DEF ReturnToCall
  <2> QED BY <1>7, <1>22, <1>23, <2>1 DEF ReturnToCall
<1>24. ASSUME ReturnToLoop PROVE Stacked'
  BY <1>5, <1>7, <1>22, <1>24 DEF ReturnToLoop
<1>25. ASSUME ReturnToRunStart PROVE Stacked'
  <2>1. frames # <<>> /\ UNCHANGED memory /\ Top.op = "m3_RunStart" /\ Top \in Frame
    BY <1>5, <1>25, Popping DEF ReturnToRunStart
  <2>2. CASE r.is = "none"
    <3> DEFINE fs == Front(frames)
               f == [Top EXCEPT !.op = "m3_Call"]
    <3>1. Enters(Top.fn, runtime.stack, Append(fs, f)) /\ UNCHANGED runtime
      BY <1>25, <2>2 DEF ReturnToRunStart
    <3>2. fs \in Seq(Frame) /\ FitIn(fs)
      BY <1>5, <2>1, PopFits, Popping
    <3>3. f \in Frame /\ f.op = "m3_Call" /\ f.stack = Top.stack
      BY <2>1 DEF Frame, Hosted
    <3>5. Based(Top.stack)
      BY <1>5, <2>1, PopFits DEF Top
    <3> HIDE DEF fs, f
    <3>4. FitIn(Append(fs, f))
      BY <3>2, <3>3, <3>5, PushFits
    <3> QED BY <1>5, <1>8, <2>1, <3>1, <3>4 DEF Based
  <2>3. CASE r.is # "none"
    <3>1. frames' = Front(frames) /\ r' = Back(r) /\ runtime'.stack = runtime.stack
      BY <1>25, <2>3 DEF ReturnToRunStart, IInv, Types
    <3> QED BY <1>7, <2>1, <3>1, BackIs
  <2> QED BY <2>2, <2>3
<1>26. ASSUME ReturnToHost PROVE Stacked'
  <2>1. runtime'.stack = runtime.stack
    BY <1>26 DEF ReturnToHost, IInv, Types
  <2> QED BY <1>7, <1>26, <2>1, BackIs DEF ReturnToHost
<1>27. ASSUME NEW l \in Loops, Loop(l) PROVE Stacked'
  <2> DEFINE body == [run EXCEPT !.open = Append(@, l), !.pos = l]
             f == [op |-> "Loop", code |-> body, fn |-> "none", stack |-> 0]
  <2>1. /\ r.is = "running" /\ frames' = Append(frames, f) /\ run' = body
        /\ UNCHANGED <<memory, runtime>>
    BY <1>27 DEF Loop, Waiting
  <2>2. body \in Codes /\ body.fn = run.fn /\ body.sp = run.sp
    <3>1. Append(run.open, l) \in Seq(Loops)
      BY <1>5, <2>1, CodeFields, AppendTo
    <3> QED BY <1>5, <2>1, <3>1 DEF Codes
  <2> HIDE DEF body
  <2>3. f \in Frame /\ f.code = body /\ f.stack = 0
    BY <2>2 DEF Frame
  <2> HIDE DEF f
  <2>4. Fits(body)
    BY <1>5, <2>1, <2>2 DEF Fits
  <2>5. FitIn(frames')
    BY <1>2, <1>5, <2>1, <2>3, <2>4, PushFits
  <2> QED BY <1>5, <2>1, <2>4, <2>5 DEF Stacked
<1>28. ASSUME NEW l \in Loops, Branch(l) PROVE Stacked'
  BY <1>5, <1>6, <1>28 DEF Branch, Codes
<1>29. ASSUME NEW l \in Loops, ContinueLoop(l) PROVE Stacked'
  BY <1>6, <1>29 DEF ContinueLoop
<1>30. ASSUME NEW pages \in 1 .. MaxPages, NEW moves \in BOOLEAN, NEW fails \in BOOLEAN,
              MemGrow(pages, moves, fails)
       PROVE  Stacked'
  <2>1. runtime.stack = 0
    BY <1>30, NoHostNoStack DEF MemGrow
  <2>2. memory'.maxStack = NumStackSlots
    BY <1>1, <1>5, <1>30, <2>1 DEF MemGrow
  <2>3. FitIn(frames')
    <3>1. CASE frames' = frames
      BY <1>5, <3>1
    <3>2. CASE frames' = [k \in DOMAIN frames |-> [frames[k] EXCEPT !.code.fresh = FALSE]]
      <4>1. ASSUME NEW f \in Frame
            PROVE  LET g == [f EXCEPT !.code.fresh = FALSE]
                   IN /\ g.op = f.op /\ g.stack = f.stack
                      /\ g.code.fn = f.code.fn /\ g.code.sp = f.code.sp
        BY DEF Frame, Codes
      <4>2. \A k \in DOMAIN frames : frames[k] \in Frame
        BY <1>5
      <4> QED BY ZenonT(60), <1>5, <3>2, <4>1, <4>2 DEF FitIn, Fits
    <3> QED BY <1>30, <3>1, <3>2 DEF MemGrow
  <2>4. r.is = "running" /\ run'.fn = run.fn /\ run'.sp = run.sp /\ UNCHANGED runtime
    BY <1>5, <1>30 DEF MemGrow, Codes
  <2> QED BY <1>5, <2>2, <2>3, <2>4 DEF Stacked, Fits
<1>31. ASSUME NEW allowed, NEW bytes, NEW cell, NEW data, Access(allowed, bytes, cell, data)
       PROVE  Stacked'
  <2>1. memory' = memory \/ (\E cells : memory' = [memory EXCEPT !.cells = cells])
    BY <1>31 DEF Access
  <2>2. memory'.maxStack = memory.maxStack
    BY <2>1 DEF IInv, Types
  <2>3. UNCHANGED <<frames, runtime>> /\ (UNCHANGED <<run, r>> \/ r' = Trapped)
    BY <1>31 DEF Access, Trap
  <2> QED BY <1>6, <2>2, <2>3, Constants
<1>32. ASSUME NEW operand \in 0 .. U32 - 1, NEW size \in 1 .. 2,
              \/ \E offset \in {0, U32 - 1} : Store(operand, offset, size)
              \/ MemFill(operand, size)
              \/ \E source \in 0 .. U32 - 1 : MemCopy(operand, source, size)
       PROVE  Stacked'
  <2>1. ASSUME NEW offset, Store(operand, offset, size) PROVE Stacked'
    BY <1>31, <2>1 DEF Store
  <2>2. ASSUME MemFill(operand, size) PROVE Stacked'
    BY <1>31, <2>2 DEF MemFill
  <2>3. ASSUME NEW source, MemCopy(operand, source, size) PROVE Stacked'
    BY <1>31, <2>3 DEF MemCopy
  <2> QED BY <1>32, <2>1, <2>2, <2>3
<1> QED BY <1>4, <1>9, <1>10, <1>12, <1>16, <1>17, <1>18, <1>19, <1>20, <1>21, <1>23, <1>24,
           <1>25, <1>26, <1>27, <1>28, <1>29, <1>30, <1>32 DEF Next

\* Frames end below the end of the stack and host functions get their stack
\* within it, however deep programs and hosts call each other; arguments and
\* results of four slots fit behind every frame, which is all the room the
\* block is sure to have for them.
THEOREM FramesFitTheStack ==
  ASSUME ~GrowsInCallback
  PROVE  Spec => []StackFits
<1>1. IInv /\ Stacked => StackFits
  <2> SUFFICES ASSUME IInv, Stacked PROVE StackFits
    OBVIOUS
  <2>1. ASSUME Computes PROVE run.sp + FrameSlots[run.fn] < NumStackSlots
    BY <2>1 DEF Stacked, Fits
  <2>2. runtime.stack <= NumStackSlots
    BY DEF Stacked, Based
  <2>3. frames = <<>> => runtime.stack = 0
    BY DEF IInv, Framed, StackBelow
  <2>4. ASSUME CallSlots <= Slack PROVE ArgumentsFit
    <3>1. ArgumentsAt <= NumStackSlots /\ ArgumentsAt \in Nat
      BY <2>2, CalleeBased DEF ArgumentsAt, Computes, Based, IInv, Types
    <3>2. CallSlots \in Nat /\ NumStackSlots \in Nat /\ Slack = 4
      BY ExecAssumption DEF Slack
    <3> QED BY <2>4, <3>1, <3>2 DEF ArgumentsFit
  <2> QED BY <2>1, <2>2, <2>3, <2>4 DEF StackFits
<1>2. Init => Stacked
  BY StackedStep
<1>3. IInv /\ Stacked /\ [Next]_vars => Stacked'
  BY StackedStep
<1> QED BY <1>1, <1>2, <1>3, FramesStand, PTL DEF Spec
=============================================================================
