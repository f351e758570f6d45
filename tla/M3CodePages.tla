---------------------------- MODULE M3CodePages ----------------------------
(***************************************************************************)
(* The code pages of Wasm3, the interpreter in which a VelumOS worker runs *)
(* its tasks: src/src/m3_code.c, the page lists of src/src/m3_env.c and    *)
(* the emission of code in src/src/m3_compile.c.                           *)
(*                                                                         *)
(* A page has a number of lines, filled from the first on.  A compilation  *)
(* holds the page it writes to and, below it, the pages it will come back  *)
(* to after an else block or a branch table target; a page that is almost  *)
(* full is left with a branch, the bridge, to the next one.  Pages nobody  *)
(* holds are on a list of their runtime (open or full) or, once that is    *)
(* released, on the list of the environment.  The code's lists are ordered *)
(* and the first page that fits is taken; here they are sets and any page  *)
(* that fits may be.  Which words a line holds is left out.                *)
(***************************************************************************)
EXTENDS Integers, Sequences, FiniteSets

CONSTANTS
  Pages,       \* the page addresses malloc can give
  NumLines,    \* the lines of a page of d_m3CodePageAlignSize
  MaxOperands, \* the words that follow an operation, at most
  Targets,     \* the target counts of the branch tables that are compiled
  DepthMax,    \* bound: nested else blocks and branch tables
  U32,         \* 2^32: the counts of targets, lines and bytes are of u32
  NoPage, NoRuntime

ASSUME PagesAssumption == IsFiniteSet(Pages) /\ NoPage \notin Pages
ASSUME LinesAssumption == NumLines \in Nat /\ MaxOperands \in 0..4
ASSUME WidthAssumption == U32 \in Nat /\ U32 > 8
ASSUME BoundsAssumption == Targets \subseteq 0 .. U32 - 1 /\ DepthMax \in Nat

\* The runtime of the module, and the temporary one of EvaluateExpression.
Runtimes == {"main", "expr"}
ASSUME RuntimeAssumption == NoRuntime \notin Runtimes

\* "4+2: max is: select _sss & CallIndirect + 2 for bridge"
d_m3CodePageFreeLinesThreshold == 4 + 2

VARIABLES
  store,   \* the pages and the lists they are on
  rt,      \* the runtime that compiles, or NoRuntime
  page,    \* o->page
  frames,  \* the pages to come back to, innermost last
  thrown,  \* an error is on its way to the outermost _catch
  abandoned  \* history: a branch table has been left by an error

comp  == <<rt, page, frames, thrown, abandoned>>
pvars == <<store, comp>>

-----------------------------------------------------------------------------
(***************************************************************************)
(* The store: operators from a store to a store.                           *)
(***************************************************************************)
EmptyStore ==
  [ numLines  |-> [p \in Pages |-> 0],    \* 0: not allocated
    lineIndex |-> [p \in Pages |-> 0],
    pagesOpen |-> [r \in Runtimes |-> {}],
    pagesFull |-> [r \in Runtimes |-> {}],
    pagesReleased |-> {},
    numCodePages       |-> [r \in Runtimes |-> 0],
    numActiveCodePages |-> [r \in Runtimes |-> 0] ]

Allocated(s) == {p \in Pages : s.numLines[p] > 0}
NumFreeLines(s, p) == s.numLines[p] - s.lineIndex[p]
OfCapacity(s, list, n) == {p \in list : NumFreeLines(s, p) >= n}

\* NewCodePage gives no page of more bytes than a u32 can count.
sizeof_code_t == 8
Countable(n) == sizeof_code_t * n < U32

\* The pages AcquireCodePageWithCapacity may return: an open page, else a
\* released one, else a new one, and none when malloc fails.
Acquirable(s, r, n) ==
  IF OfCapacity(s, s.pagesOpen[r], n) # {} THEN OfCapacity(s, s.pagesOpen[r], n)
  ELSE IF OfCapacity(s, s.pagesReleased, n) # {} THEN OfCapacity(s, s.pagesReleased, n)
  ELSE {p \in Pages \ Allocated(s) : Countable(n)}

Larger(m, n) == IF m < n THEN n ELSE m

NewCodePage(s, p, n) == [s EXCEPT !.numLines[p] = Larger(NumLines, n), !.lineIndex[p] = 0]

\* Mutant: a page taken from the open list is counted as a new one.
Counted_Always(s, r, p) == [s EXCEPT !.numCodePages[r] = @ + 1]
Counted(s, r, p) == IF p \in s.pagesOpen[r] THEN s ELSE [s EXCEPT !.numCodePages[r] = @ + 1]

\* Mutant: the page stays on the environment's list.
Removed_FromOpen(s, r, p) == [s EXCEPT !.pagesOpen[r] = @ \ {p}]
Removed(s, r, p) == [s EXCEPT !.pagesOpen[r] = @ \ {p}, !.pagesReleased = @ \ {p}]

\* Mutant: a page that is acquired is not counted as active.
Activated_Never(s, r) == s
Activated(s, r) == [s EXCEPT !.numActiveCodePages[r] = @ + 1]
Deactivated(s, r) == [s EXCEPT !.numActiveCodePages[r] = @ - 1]

AcquireCodePageWithCapacity(s, r, n, p) ==
  LET t == IF p \in Allocated(s) THEN s ELSE NewCodePage(s, p, n)
  IN  Activated(Removed(Counted(t, r, p), r, p), r)

EmitWords(s, p, k) == [s EXCEPT !.lineIndex[p] = @ + k]

PageFull(s, p) == NumFreeLines(s, p) < d_m3CodePageFreeLinesThreshold

ReleaseCodePage(s, r, p) ==
  Deactivated(IF PageFull(s, p) THEN [s EXCEPT !.pagesFull[r] = @ \cup {p}]
                                ELSE [s EXCEPT !.pagesOpen[r] = @ \cup {p}], r)

\* The pages of a runtime go back to the environment, empty.
Runtime_Release(s, r) ==
  LET mine == s.pagesOpen[r] \cup s.pagesFull[r]
  IN  [s EXCEPT !.pagesReleased = @ \cup mine,
                !.lineIndex = [p \in Pages |-> IF p \in mine THEN 0 ELSE @[p]],
                !.pagesOpen[r] = {}, !.pagesFull[r] = {},
                !.numCodePages[r] = 0, !.numActiveCodePages[r] = 0]

Environment_Release(s) ==
  [s EXCEPT !.numLines = [p \in Pages |-> IF p \in s.pagesReleased THEN 0 ELSE @[p]],
            !.lineIndex = [p \in Pages |-> IF p \in s.pagesReleased THEN 0 ELSE @[p]],
            !.pagesReleased = {}]

-----------------------------------------------------------------------------
(***************************************************************************)
(* Compiling.                                                              *)
(***************************************************************************)
\* The room that is asked for includes that of the bridge.
WithBridge(n) == (n + 2) % U32

\* The ways to make sure of n lines: the page has them, or it gets a bridge to
\* one that has and is released.
EnsureCodePageNumLines(s, p, n) ==
  IF NumFreeLines(s, p) >= WithBridge(n) THEN {[store |-> s, page |-> p]}
  ELSE {[store |-> ReleaseCodePage(
                     EmitWords(AcquireCodePageWithCapacity(s, rt, WithBridge(n), q), p, 2), rt, p),
         page |-> q] : q \in Acquirable(s, rt, WithBridge(n))}

\* An operation and its k operands.
EmitOp(s, p, k) ==
  {[store |-> EmitWords(e.store, e.page, 1 + k), page |-> e.page] :
     e \in EnsureCodePageNumLines(s, p, d_m3CodePageFreeLinesThreshold)}

Top == frames[Len(frames)]
Outer == SubSeq(frames, 1, Len(frames) - 1)
InElse == frames # <<>> /\ Top.kind = "else"
\* In a branch table, between two targets or in the code of one.
AtTarget == frames # <<>> /\ Top.kind = "table" /\ Top.page = NoPage
InTarget == frames # <<>> /\ Top.kind = "table" /\ Top.page # NoPage
Compiling == rt # NoRuntime /\ ~thrown

\* CompileFunction and EvaluateExpression acquire their page.
BeginCompile(r) ==
  /\ rt = NoRuntime
  /\ \E p \in Acquirable(store, r, d_m3CodePageFreeLinesThreshold) :
       /\ page' = p
       /\ store' = AcquireCodePageWithCapacity(store, r, d_m3CodePageFreeLinesThreshold, p)
  /\ rt' = r /\ frames' = <<>> /\ thrown' = FALSE
  /\ UNCHANGED abandoned

\* Any operation but those with pages of their own.
Compile_Operator ==
  /\ Compiling /\ ~AtTarget
  /\ \E k \in 0..MaxOperands : \E e \in EmitOp(store, page, k) : store' = e.store /\ page' = e.page
  /\ UNCHANGED <<rt, frames, thrown, abandoned>>

\* The page of the else block; the if block's page is kept for the rest.
CompileElseBlock ==
  /\ Compiling /\ rt = "main" /\ ~AtTarget /\ ~InTarget /\ Len(frames) < DepthMax
  /\ \E p \in Acquirable(store, rt, d_m3CodePageFreeLinesThreshold) :
       /\ page' = p
       /\ store' = AcquireCodePageWithCapacity(store, rt, d_m3CodePageFreeLinesThreshold, p)
  /\ frames' = Append(frames, [kind |-> "else", page |-> page, left |-> 0])
  /\ UNCHANGED <<rt, thrown, abandoned>>

EndElseBlock ==
  /\ Compiling /\ InElse
  /\ \E e \in EmitOp(store, page, 1) : store' = ReleaseCodePage(e.store, rt, e.page)
  /\ page' = Top.page /\ frames' = Outer
  /\ UNCHANGED <<rt, thrown, abandoned>>

\* The room a branch table of n targets asks for, in a u32 that nothing checks.
\* Mutant: the default target has no line.
TableLines_NoDefault(n) == (n + 3) % U32
TableLines(n) == (n + 4) % U32

\* The targets that will be read, with the default one.
TargetCount(n) == (n + 1) % U32

\* The operation, its slot and its target count; the targets follow, unless their
\* number has wrapped to 0.  An error may come between the two checks for room.
Compile_BranchTable(n) ==
  /\ Compiling /\ rt = "main" /\ ~AtTarget /\ ~InTarget /\ Len(frames) < DepthMax
  /\ \E e \in EnsureCodePageNumLines(store, page, TableLines(n)) :
       \/ \E f \in EmitOp(e.store, e.page, 2) :
            /\ store' = f.store /\ page' = f.page
            /\ frames' = IF TargetCount(n) = 0 THEN frames
                         ELSE Append(frames, [kind |-> "table", page |-> NoPage,
                                              left |-> TargetCount(n)])
            /\ UNCHANGED thrown
       \/ /\ e.page # page
          /\ store' = e.store /\ page' = e.page
          /\ thrown' = TRUE /\ UNCHANGED frames
  /\ UNCHANGED <<rt, abandoned>>

\* The code of a target goes to a page of its own.
BeginTarget ==
  /\ Compiling /\ AtTarget
  /\ \E p \in Acquirable(store, rt, d_m3CodePageFreeLinesThreshold) :
       /\ page' = p
       /\ store' = AcquireCodePageWithCapacity(store, rt, d_m3CodePageFreeLinesThreshold, p)
  /\ frames' = [frames EXCEPT ![Len(frames)].page = page]
  /\ UNCHANGED <<rt, thrown, abandoned>>

\* The target's page is released, and its address is entered in the table.
EndTarget ==
  /\ Compiling /\ InTarget
  /\ store' = EmitWords(ReleaseCodePage(store, rt, page), Top.page, 1)
  /\ page' = Top.page
  /\ frames' = IF Top.left = 1 THEN Outer
               ELSE Append(Outer, [Top EXCEPT !.page = NoPage, !.left = @ - 1])
  /\ UNCHANGED <<rt, thrown, abandoned>>

\* An error, in the code that is compiled or in malloc.
Throw ==
  /\ Compiling
  /\ thrown' = TRUE
  /\ UNCHANGED <<store, rt, page, frames, abandoned>>

\* Mutant: CompileElseBlock has no _catch either.
Caught_Not == store
Caught == ReleaseCodePage(store, rt, page)

\* The _catch of CompileElseBlock releases its page and takes up the saved one.
\* Compile_BranchTable has none: its saved page is forgotten.
Unwind ==
  /\ rt # NoRuntime /\ thrown /\ frames # <<>>
  /\ frames' = Outer
  /\ IF InElse THEN /\ store' = Caught
                    /\ page' = Top.page /\ UNCHANGED abandoned
               ELSE /\ abandoned' = (abandoned \/ Top.page # NoPage)
                    /\ UNCHANGED <<store, page>>
  /\ UNCHANGED <<rt, thrown>>

\* The outermost _catch, reached with or without an error.  The runtime of an
\* expression is released at once.
EndCompile ==
  /\ rt # NoRuntime /\ frames = <<>>
  /\ store' = LET s == ReleaseCodePage(store, rt, page)
              IN  IF rt = "expr" THEN Runtime_Release(s, rt) ELSE s
  /\ rt' = NoRuntime /\ page' = NoPage /\ thrown' = FALSE
  /\ UNCHANGED <<frames, abandoned>>

CompileStep ==
  \/ Compile_Operator \/ CompileElseBlock \/ EndElseBlock \/ BeginTarget \/ EndTarget
  \/ \E n \in Targets : Compile_BranchTable(n)
  \/ Throw \/ Unwind

-----------------------------------------------------------------------------
(***************************************************************************)
(* Correctness.                                                            *)
(***************************************************************************)
Frames == [kind : {"else", "table"}, page : Pages \cup {NoPage}, left : Nat]
Listed(s) == s.pagesReleased \cup UNION {s.pagesOpen[r] \cup s.pagesFull[r] : r \in Runtimes}
Held == ({page} \cup {frames[i].page : i \in DOMAIN frames}) \ {NoPage}
Lost == Allocated(store) \ (Listed(store) \cup Held)

\* Every variable has its type, and no page has more lines filled than it has.
PagesTypeOK ==
  /\ store \in [ numLines : [Pages -> Nat], lineIndex : [Pages -> Nat],
                 pagesOpen : [Runtimes -> SUBSET Pages], pagesFull : [Runtimes -> SUBSET Pages],
                 pagesReleased : SUBSET Pages,
                 numCodePages : [Runtimes -> Nat], numActiveCodePages : [Runtimes -> Nat] ]
  /\ rt \in Runtimes \cup {NoRuntime} /\ page \in Pages \cup {NoPage}
  /\ frames \in Seq(Frames) /\ thrown \in BOOLEAN /\ abandoned \in BOOLEAN

\* A page is on one list only or held by the compilation once: whatever blocks,
\* tables and errors there were, no two pieces of code are written to one page.
PagesApart ==
  /\ \A r \in Runtimes :
       /\ store.pagesOpen[r] \cap store.pagesFull[r] = {}
       /\ (store.pagesOpen[r] \cup store.pagesFull[r]) \cap store.pagesReleased = {}
       /\ \A q \in Runtimes \ {r} :
            (store.pagesOpen[r] \cup store.pagesFull[r]) \cap (store.pagesOpen[q] \cup store.pagesFull[q]) = {}
  /\ Held \cap Listed(store) = {}
  /\ Held \cup Listed(store) \subseteq Allocated(store)
  /\ \A i \in DOMAIN frames : frames[i].page # NoPage =>
       /\ frames[i].page # page
       /\ \A j \in DOMAIN frames \ {i} : frames[i].page # frames[j].page

\* The assertion of ReleaseCodePage: the pages of a runtime are open, full or active.
PagesCounted ==
  \A r \in Runtimes :
    Cardinality(store.pagesOpen[r]) + Cardinality(store.pagesFull[r])
      + store.numActiveCodePages[r] = store.numCodePages[r]

\* No branch table has so many targets that the room it asks for wraps around: the
\* last six values of a u32 do, little or no room is made, and the entries, if the
\* number of targets has not wrapped to 0 as well, are written past the end of the
\* page (src/m3_compile.c:1546-1602).  What happens to
\* a heap after that is not described here: with such a table RoomForBridge fails,
\* and the other properties say nothing of the code.
TablesFit == \A n \in Targets : n + 6 < U32

\* The assertions of EmitWord and EnsureCodePageNumLines, if TablesFit: no page is
\* written past its end, and each page that is held has room for what is still to
\* come, the lines of the remaining targets of a branch table and the bridge.
RoomForBridge ==
  /\ \A p \in Pages : store.lineIndex[p] <= store.numLines[p]
  /\ rt # NoRuntime => NumFreeLines(store, page) >= 2 + (IF AtTarget THEN Top.left ELSE 0)
  /\ \A i \in DOMAIN frames : frames[i].page # NoPage =>
       NumFreeLines(store, frames[i].page) >= 2 + frames[i].left

\* A page gets lost only by an error in the code of a branch table's target.
LossIsAbandon == Lost # {} => abandoned
=============================================================================
