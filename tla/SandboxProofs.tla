--------------------------- MODULE SandboxProofs ---------------------------
(***************************************************************************)
(* Proofs about the code pages of WasmSandbox, for any number of pages, of *)
(* lines and of nested blocks, and for branch tables of any number of      *)
(* targets whose room does not wrap around in a u32 (TablesFit): first     *)
(* which lists and holders a page can have, then that none gets lost but   *)
(* in a branch table, and that a run of the sandbox gives back what it     *)
(* took.                                                                   *)
(***************************************************************************)
EXTENDS WasmSandbox, FiniteSetTheorems, SequenceTheorems, TLAPS

Stores ==
  [ numLines : [Pages -> Nat], lineIndex : [Pages -> Nat],
    pagesOpen : [Runtimes -> SUBSET Pages], pagesFull : [Runtimes -> SUBSET Pages],
    pagesReleased : SUBSET Pages,
    numCodePages : [Runtimes -> Nat], numActiveCodePages : [Runtimes -> Nat] ]

Mine(s, r) == s.pagesOpen[r] \cup s.pagesFull[r]

\* A page is on at most one list.
Apart(s) ==
  /\ \A r \in Runtimes : s.pagesOpen[r] \cap s.pagesFull[r] = {} /\ Mine(s, r) \cap s.pagesReleased = {}
  /\ Mine(s, "main") \cap Mine(s, "expr") = {}

\* The pages on the lists have been allocated, and none is overfull.
Filled(s) ==
  /\ s.pagesReleased \subseteq Allocated(s)
  /\ \A r \in Runtimes : Mine(s, r) \subseteq Allocated(s)
  /\ \A p \in Pages : s.lineIndex[p] <= s.numLines[p]

Counts(s) ==
  \A r \in Runtimes : Cardinality(s.pagesOpen[r]) + Cardinality(s.pagesFull[r])
                        + s.numActiveCodePages[r] = s.numCodePages[r]

Sound(s) == s \in Stores /\ Apart(s) /\ Filled(s) /\ Counts(s)

\* A page that is allocated and on no list: only its holder can write to it.
OffList(s, p) ==
  p \in Allocated(s) /\ p \notin s.pagesReleased /\ \A r \in Runtimes : p \notin Mine(s, r)

\* From one store to another the holder of a page sees no difference.
Kept(s, t, p) == OffList(t, p) /\ NumFreeLines(t, p) = NumFreeLines(s, p)

-----------------------------------------------------------------------------
(***************************************************************************)
(* The operators on stores.                                                *)
(***************************************************************************)
\* A number of u32 that has not wrapped is itself.
LEMMA Modulus ==
  ASSUME NEW n \in Nat, n < U32
  PROVE  n % U32 = n
BY WidthAssumption

\* The room of a table that does not wrap.
LEMMA TableFits ==
  ASSUME TablesFit, NEW n \in Targets
  PROVE  /\ n \in Nat /\ TableLines(n) = n + 4 /\ n + 4 \in Nat /\ (n + 4) + 2 < U32
         /\ TargetCount(n) = n + 1 /\ n + 1 # 0
<1>1. n \in Nat /\ n + 6 < U32 /\ U32 \in Nat
  BY BoundsAssumption, WidthAssumption DEF TablesFit
<1>2. n + 4 \in Nat /\ n + 4 < U32 /\ n + 1 \in Nat /\ n + 1 < U32 /\ (n + 4) + 2 < U32 /\ n + 1 # 0
  BY <1>1
<1> QED BY <1>1, <1>2, Modulus DEF TableLines, TargetCount

\* Every set of pages is finite, and one page more or less counts for one.
LEMMA Counting ==
  ASSUME NEW S \in SUBSET Pages, NEW p \in Pages
  PROVE  /\ IsFiniteSet(S) /\ Cardinality(S) \in Nat
         /\ p \in S => Cardinality(S \ {p}) = Cardinality(S) - 1 /\ Cardinality(S) >= 1
         /\ p \notin S => Cardinality(S \cup {p}) = Cardinality(S) + 1 /\ S \ {p} = S
<1>1. IsFiniteSet(S)
  BY PagesAssumption, FS_Subset
<1>2. Cardinality(S) \in Nat
  BY <1>1, FS_CardinalityType
<1>3. ASSUME p \in S PROVE Cardinality(S \ {p}) = Cardinality(S) - 1
  BY <1>1, <1>3, FS_RemoveElement
<1>3a. ASSUME p \in S PROVE Cardinality(S) >= 1
  <2>1. Cardinality(S) # 0
    BY <1>1, <1>3a, FS_EmptySet
  <2> QED BY <2>1, <1>2
<1>4. ASSUME p \notin S PROVE Cardinality(S \cup {p}) = Cardinality(S) + 1
  BY <1>1, <1>4, FS_AddElement
<1> QED BY <1>1, <1>2, <1>3, <1>3a, <1>4

\* What each operator does to each field.
LEMMA NewFields ==
  ASSUME NEW s \in Stores, NEW p \in Pages, NEW n \in Nat
  PROVE  LET t == NewCodePage(s, p, n) IN
         /\ t \in Stores
         /\ t.numLines = [s.numLines EXCEPT ![p] = Larger(NumLines, n)]
         /\ t.lineIndex = [s.lineIndex EXCEPT ![p] = 0]
         /\ t.pagesOpen = s.pagesOpen /\ t.pagesFull = s.pagesFull
         /\ t.pagesReleased = s.pagesReleased
         /\ t.numCodePages = s.numCodePages
         /\ t.numActiveCodePages = s.numActiveCodePages
<1>1. Larger(NumLines, n) \in Nat
  BY LinesAssumption DEF Larger
<1> QED BY <1>1 DEF NewCodePage, Stores

LEMMA CountedFields ==
  ASSUME NEW s \in Stores, NEW p \in Pages, NEW r \in Runtimes
  PROVE  LET t == Counted(s, r, p) IN
         /\ t \in Stores
         /\ t.numLines = s.numLines /\ t.lineIndex = s.lineIndex
         /\ t.pagesOpen = s.pagesOpen /\ t.pagesFull = s.pagesFull
         /\ t.pagesReleased = s.pagesReleased
         /\ t.numCodePages = IF p \in s.pagesOpen[r] THEN s.numCodePages
                             ELSE [s.numCodePages EXCEPT ![r] = @ + 1]
         /\ t.numActiveCodePages = s.numActiveCodePages
<1>1. [s.numCodePages EXCEPT ![r] = @ + 1] \in [Runtimes -> Nat]
  BY DEF Stores
<1>2. Counted(s, r, p) \in Stores
  BY <1>1, SMTT(40) DEF Counted, Stores
<1>3. LET t == Counted(s, r, p) IN
      /\ t.numLines = s.numLines /\ t.lineIndex = s.lineIndex
      /\ t.pagesOpen = s.pagesOpen /\ t.pagesFull = s.pagesFull
      /\ t.pagesReleased = s.pagesReleased
      /\ t.numActiveCodePages = s.numActiveCodePages
  BY SMTT(30) DEF Counted, Stores
<1>4. Counted(s, r, p).numCodePages = IF p \in s.pagesOpen[r] THEN s.numCodePages
                                     ELSE [s.numCodePages EXCEPT ![r] = @ + 1]
  BY SMTT(30) DEF Counted, Stores
<1> QED BY <1>2, <1>3, <1>4

\* Two fields written in one step leave a store a store.
LEMMA OpenAndReleasedWritten ==
  ASSUME NEW s \in Stores, NEW X \in [Runtimes -> SUBSET Pages], NEW Y \in SUBSET Pages
  PROVE  [s EXCEPT !.pagesOpen = X, !.pagesReleased = Y] \in Stores
<1> DEFINE u == [s EXCEPT !.pagesOpen = X]
<1>1. u \in Stores /\ u.pagesReleased = s.pagesReleased
  BY SMTT(30) DEF Stores
<1>2. ASSUME NEW v \in Stores PROVE [v EXCEPT !.pagesReleased = Y] \in Stores
  BY SMTT(30) DEF Stores
<1>3. [u EXCEPT !.pagesReleased = Y] \in Stores
  <2> HIDE DEF u
  <2> QED BY <1>1, <1>2
<1> QED BY <1>3

LEMMA RemovedFields ==
  ASSUME NEW s \in Stores, NEW p \in Pages, NEW r \in Runtimes
  PROVE  LET t == Removed(s, r, p) IN
         /\ t \in Stores
         /\ t.numLines = s.numLines /\ t.lineIndex = s.lineIndex
         /\ t.pagesOpen = [s.pagesOpen EXCEPT ![r] = @ \ {p}] /\ t.pagesFull = s.pagesFull
         /\ t.pagesReleased = s.pagesReleased \ {p}
         /\ t.numCodePages = s.numCodePages
         /\ t.numActiveCodePages = s.numActiveCodePages
<1>1. [s.pagesOpen EXCEPT ![r] = @ \ {p}] \in [Runtimes -> SUBSET Pages]
  BY DEF Stores
<1>2. s.pagesReleased \ {p} \in SUBSET Pages
  BY DEF Stores
<1>3. Removed(s, r, p) \in Stores
  <2> DEFINE X == [s.pagesOpen EXCEPT ![r] = @ \ {p}]
             Y == s.pagesReleased \ {p}
  <2>1. Removed(s, r, p) = [s EXCEPT !.pagesOpen = X, !.pagesReleased = Y]
    BY Zenon DEF Removed
  <2>2. X \in [Runtimes -> SUBSET Pages] /\ Y \in SUBSET Pages
    BY <1>1, <1>2
  <2>3. [s EXCEPT !.pagesOpen = X, !.pagesReleased = Y] \in Stores
    <3> HIDE DEF X, Y
    <3> QED BY <2>2, OpenAndReleasedWritten, Zenon
  <2> QED BY <2>1, <2>3, Zenon
<1>4. LET t == Removed(s, r, p) IN
      /\ t.numLines = s.numLines /\ t.lineIndex = s.lineIndex
      /\ t.pagesFull = s.pagesFull
      /\ t.numCodePages = s.numCodePages
      /\ t.numActiveCodePages = s.numActiveCodePages
  BY SMTT(30) DEF Removed, Stores
<1>5. LET t == Removed(s, r, p) IN
      /\ t.pagesOpen = [s.pagesOpen EXCEPT ![r] = @ \ {p}]
      /\ t.pagesReleased = s.pagesReleased \ {p}
  BY SMTT(30) DEF Removed, Stores
<1> QED BY <1>3, <1>4, <1>5

LEMMA ActivatedFields ==
  ASSUME NEW s \in Stores, NEW r \in Runtimes
  PROVE  LET t == Activated(s, r) IN
         /\ t \in Stores
         /\ t.numLines = s.numLines /\ t.lineIndex = s.lineIndex
         /\ t.pagesOpen = s.pagesOpen /\ t.pagesFull = s.pagesFull
         /\ t.pagesReleased = s.pagesReleased
         /\ t.numCodePages = s.numCodePages
         /\ t.numActiveCodePages = [s.numActiveCodePages EXCEPT ![r] = @ + 1]
<1>1. [s.numActiveCodePages EXCEPT ![r] = @ + 1] \in [Runtimes -> Nat]
  BY DEF Stores
<1>2. Activated(s, r) \in Stores
  BY <1>1, SMTT(40) DEF Activated, Stores
<1>3. LET t == Activated(s, r) IN
      /\ t.numLines = s.numLines /\ t.lineIndex = s.lineIndex
      /\ t.pagesOpen = s.pagesOpen /\ t.pagesFull = s.pagesFull
      /\ t.pagesReleased = s.pagesReleased
      /\ t.numCodePages = s.numCodePages
      /\ t.numActiveCodePages = [s.numActiveCodePages EXCEPT ![r] = @ + 1]
  BY SMTT(30) DEF Activated, Stores
<1> QED BY <1>2, <1>3

LEMMA EmitFields ==
  ASSUME NEW s \in Stores, NEW p \in Pages, NEW k \in Nat
  PROVE  LET t == EmitWords(s, p, k) IN
         /\ t \in Stores
         /\ t.numLines = s.numLines /\ t.lineIndex = [s.lineIndex EXCEPT ![p] = @ + k]
         /\ t.pagesOpen = s.pagesOpen /\ t.pagesFull = s.pagesFull
         /\ t.pagesReleased = s.pagesReleased
         /\ t.numCodePages = s.numCodePages
         /\ t.numActiveCodePages = s.numActiveCodePages
<1>1. [s.lineIndex EXCEPT ![p] = @ + k] \in [Pages -> Nat]
  BY DEF Stores
<1>2. EmitWords(s, p, k) \in Stores
  BY <1>1, SMTT(40) DEF EmitWords, Stores
<1>3. LET t == EmitWords(s, p, k) IN
      /\ t.numLines = s.numLines /\ t.lineIndex = [s.lineIndex EXCEPT ![p] = @ + k]
      /\ t.pagesOpen = s.pagesOpen /\ t.pagesFull = s.pagesFull
      /\ t.pagesReleased = s.pagesReleased
      /\ t.numCodePages = s.numCodePages
      /\ t.numActiveCodePages = s.numActiveCodePages
  BY SMTT(30) DEF EmitWords, Stores
<1> QED BY <1>2, <1>3

LEMMA ReleaseFields ==
  ASSUME NEW s \in Stores, NEW p \in Pages, NEW r \in Runtimes, s.numActiveCodePages[r] >= 1
  PROVE  LET t == ReleaseCodePage(s, r, p) IN
         /\ t \in Stores
         /\ t.numLines = s.numLines /\ t.lineIndex = s.lineIndex
         /\ \/ /\ t.pagesFull = [s.pagesFull EXCEPT ![r] = @ \cup {p}]
               /\ t.pagesOpen = s.pagesOpen
            \/ /\ t.pagesOpen = [s.pagesOpen EXCEPT ![r] = @ \cup {p}]
               /\ t.pagesFull = s.pagesFull
         /\ t.pagesReleased = s.pagesReleased
         /\ t.numCodePages = s.numCodePages
         /\ t.numActiveCodePages = [s.numActiveCodePages EXCEPT ![r] = @ - 1]
<1> DEFINE u == IF PageFull(s, p) THEN [s EXCEPT !.pagesFull[r] = @ \cup {p}]
                                  ELSE [s EXCEPT !.pagesOpen[r] = @ \cup {p}]
           t == Deactivated(u, r)
<1>1. /\ u \in Stores /\ u.numLines = s.numLines /\ u.lineIndex = s.lineIndex
      /\ u.pagesReleased = s.pagesReleased
      /\ u.numCodePages = s.numCodePages
      /\ u.numActiveCodePages = s.numActiveCodePages
      /\ \/ u.pagesFull = [s.pagesFull EXCEPT ![r] = @ \cup {p}] /\ u.pagesOpen = s.pagesOpen
         \/ u.pagesOpen = [s.pagesOpen EXCEPT ![r] = @ \cup {p}] /\ u.pagesFull = s.pagesFull
  <2>1. CASE PageFull(s, p) BY <2>1 DEF Stores
  <2>2. CASE ~PageFull(s, p) BY <2>2 DEF Stores
  <2> QED BY <2>1, <2>2
<1>2. u.numActiveCodePages[r] - 1 \in Nat
  BY <1>1 DEF Stores
<1> HIDE DEF u
<1>3. /\ t \in Stores /\ t.numLines = u.numLines /\ t.lineIndex = u.lineIndex
      /\ t.pagesOpen = u.pagesOpen /\ t.pagesFull = u.pagesFull
      /\ t.pagesReleased = u.pagesReleased
      /\ t.numCodePages = u.numCodePages
      /\ t.numActiveCodePages = [u.numActiveCodePages EXCEPT ![r] = @ - 1]
  BY <1>1, <1>2 DEF Deactivated, Stores
<1>4. ReleaseCodePage(s, r, p) = t
  BY DEF ReleaseCodePage, u
<1> QED BY <1>1, <1>3, <1>4

LEMMA RuntimeFields ==
  ASSUME NEW s \in Stores, NEW r \in Runtimes
  PROVE  LET t == Runtime_Release(s, r) IN
         /\ t \in Stores
         /\ t.numLines = s.numLines
         /\ t.lineIndex = [p \in Pages |-> IF p \in Mine(s, r) THEN 0 ELSE s.lineIndex[p]]
         /\ t.pagesOpen = [s.pagesOpen EXCEPT ![r] = {}]
         /\ t.pagesFull = [s.pagesFull EXCEPT ![r] = {}]
         /\ t.pagesReleased = s.pagesReleased \cup Mine(s, r)
         /\ t.numCodePages = [s.numCodePages EXCEPT ![r] = 0]
         /\ t.numActiveCodePages = [s.numActiveCodePages EXCEPT ![r] = 0]
BY ZenonT(60) DEF Runtime_Release, Stores, Mine

LEMMA EnvironmentFields ==
  ASSUME NEW s \in Stores
  PROVE  LET t == Environment_Release(s) IN
         /\ t \in Stores
         /\ t.numLines = [p \in Pages |-> IF p \in s.pagesReleased THEN 0 ELSE s.numLines[p]]
         /\ t.lineIndex = [p \in Pages |-> IF p \in s.pagesReleased THEN 0 ELSE s.lineIndex[p]]
         /\ t.pagesOpen = s.pagesOpen /\ t.pagesFull = s.pagesFull
         /\ t.pagesReleased = {}
         /\ t.numCodePages = s.numCodePages
         /\ t.numActiveCodePages = s.numActiveCodePages
BY DEF Environment_Release, Stores

-----------------------------------------------------------------------------
\* A page that is acquired has the lines it was asked for and is on no list, and
\* nothing changes for those who hold other pages.
LEMMA Acquiring ==
  ASSUME NEW s, Sound(s), NEW r \in Runtimes, NEW n \in Nat \ {0}, NEW p \in Acquirable(s, r, n)
  PROVE  LET t == AcquireCodePageWithCapacity(s, r, n, p) IN
         /\ Sound(t)
         /\ OffList(t, p) /\ NumFreeLines(t, p) >= n
         /\ t.numActiveCodePages = [s.numActiveCodePages EXCEPT ![r] = @ + 1]
         /\ \A q \in Pages : OffList(s, q) => q # p /\ Kept(s, t, q)
<1> DEFINE u == IF p \in Allocated(s) THEN s ELSE NewCodePage(s, p, n)
           v == Counted(u, r, p)
           w == Removed(v, r, p)
           t == AcquireCodePageWithCapacity(s, r, n, p)
<1>0. s \in Stores /\ p \in Pages
  BY DEF Sound, Stores, Acquirable, OfCapacity
<1>1. u \in Stores
  BY <1>0, NewFields
<1>2. v \in Stores
  BY <1>0, <1>1, CountedFields
<1>3. w \in Stores
  BY <1>0, <1>2, RemovedFields
<1>4. t = Activated(w, r)
  BY DEF AcquireCodePageWithCapacity
<1>5. /\ t \in Stores
      /\ t.numLines = u.numLines /\ t.lineIndex = u.lineIndex
      /\ t.pagesOpen = [u.pagesOpen EXCEPT ![r] = @ \ {p}] /\ t.pagesFull = u.pagesFull
      /\ t.pagesReleased = u.pagesReleased \ {p}
      /\ t.numCodePages = IF p \in u.pagesOpen[r] THEN u.numCodePages
                          ELSE [u.numCodePages EXCEPT ![r] = @ + 1]
      /\ t.numActiveCodePages = [u.numActiveCodePages EXCEPT ![r] = @ + 1]
  <2> HIDE DEF u, v, w, t
  <2>1. v = Counted(u, r, p) /\ w = Removed(v, r, p)
    BY DEF v, w
  <2>2. /\ v.numLines = u.numLines /\ v.lineIndex = u.lineIndex
        /\ v.pagesOpen = u.pagesOpen /\ v.pagesFull = u.pagesFull
        /\ v.pagesReleased = u.pagesReleased
        /\ v.numCodePages = IF p \in u.pagesOpen[r] THEN u.numCodePages
                            ELSE [u.numCodePages EXCEPT ![r] = @ + 1]
        /\ v.numActiveCodePages = u.numActiveCodePages
    BY SMTT(40), <1>0, <1>1, <2>1, CountedFields
  <2>3. /\ w.numLines = v.numLines /\ w.lineIndex = v.lineIndex
        /\ w.pagesOpen = [v.pagesOpen EXCEPT ![r] = @ \ {p}] /\ w.pagesFull = v.pagesFull
        /\ w.pagesReleased = v.pagesReleased \ {p}
        /\ w.numCodePages = v.numCodePages
        /\ w.numActiveCodePages = v.numActiveCodePages
    BY SMTT(40), <1>0, <1>2, <2>1, RemovedFields
  <2>4. /\ t \in Stores /\ t.numLines = w.numLines /\ t.lineIndex = w.lineIndex
        /\ t.pagesOpen = w.pagesOpen /\ t.pagesFull = w.pagesFull
        /\ t.pagesReleased = w.pagesReleased
        /\ t.numCodePages = w.numCodePages
        /\ t.numActiveCodePages = [w.numActiveCodePages EXCEPT ![r] = @ + 1]
    BY <1>3, <1>4, ActivatedFields
  <2> QED BY <2>2, <2>3, <2>4
<1>6. /\ u.pagesOpen = s.pagesOpen /\ u.pagesFull = s.pagesFull
      /\ u.pagesReleased = s.pagesReleased
      /\ u.numCodePages = s.numCodePages /\ u.numActiveCodePages = s.numActiveCodePages
      /\ p \in Allocated(s) => u.numLines = s.numLines /\ u.lineIndex = s.lineIndex
      /\ p \notin Allocated(s) => /\ u.numLines = [s.numLines EXCEPT ![p] = Larger(NumLines, n)]
                                  /\ u.lineIndex = [s.lineIndex EXCEPT ![p] = 0]
  BY <1>0, NewFields
<1> HIDE DEF u, v, w, t
<1>7. Larger(NumLines, n) \in Nat /\ Larger(NumLines, n) >= n
  BY LinesAssumption DEF Larger
<1>8. Apart(s) /\ Filled(s) /\ Counts(s)
  BY DEF Sound
\* The page comes from the open list, from the environment's or from malloc.
<1>9. \/ p \in s.pagesOpen[r] /\ p \in Allocated(s)
      \/ p \in s.pagesReleased /\ p \in Allocated(s) /\ p \notin s.pagesOpen[r]
      \/ p \notin Allocated(s) /\ p \notin s.pagesOpen[r]
  BY <1>0, <1>8 DEF Acquirable, OfCapacity, Filled, Mine, Apart
<1>10. p \in Allocated(s) => NumFreeLines(s, p) >= n
  BY <1>0, <1>8, <1>9 DEF Acquirable, OfCapacity, Filled, Mine
<1>11. NumFreeLines(t, p) >= n /\ p \in Allocated(t)
  <2>1. CASE p \in Allocated(s)
    BY <1>0, <1>5, <1>6, <1>10, <2>1 DEF NumFreeLines, Allocated
  <2>2. CASE p \notin Allocated(s)
    BY <1>0, <1>5, <1>6, <1>7, <2>2 DEF NumFreeLines, Allocated, Stores
  <2> QED BY <2>1, <2>2
<1>12. \A q \in Pages \ {p} : t.numLines[q] = s.numLines[q] /\ t.lineIndex[q] = s.lineIndex[q]
  BY <1>0, <1>5, <1>6 DEF Stores
<1>13. \A q \in Runtimes : Mine(t, q) = Mine(s, q) \ {p}
  <2> TAKE q \in Runtimes
  <2>1. p \notin s.pagesFull[q] /\ (q # r => p \notin s.pagesOpen[q])
    BY <1>0, <1>8, <1>9 DEF Apart, Filled, Mine, Runtimes
  <2> QED BY <1>0, <1>5, <1>6, <2>1 DEF Mine, Stores
<1>14. Apart(t)
  BY <1>0, <1>5, <1>6, <1>8, <1>13 DEF Apart, Mine, Stores, Runtimes
<1>15. Filled(t)
  <2>1. \A q \in Pages : q \in Allocated(s) => q \in Allocated(t)
    BY <1>0, <1>5, <1>11, <1>12 DEF Allocated, Stores
  <2>2. \A q \in Pages : t.lineIndex[q] <= t.numLines[q]
    <3>1. t.lineIndex[p] <= t.numLines[p]
      BY <1>0, <1>5, <1>11 DEF NumFreeLines, Stores
    <3> QED BY <1>8, <1>12, <3>1 DEF Filled
  <2> QED BY <1>0, <1>5, <1>6, <1>8, <1>13, <2>1, <2>2 DEF Filled, Allocated
<1>16. Counts(t)
  <2> SUFFICES ASSUME NEW q \in Runtimes
               PROVE  Cardinality(t.pagesOpen[q]) + Cardinality(t.pagesFull[q])
                        + t.numActiveCodePages[q] = t.numCodePages[q]
    BY DEF Counts
  <2>1. Cardinality(s.pagesOpen[q]) + Cardinality(s.pagesFull[q])
          + s.numActiveCodePages[q] = s.numCodePages[q]
    BY <1>8 DEF Counts
  <2>2. /\ s.pagesOpen[q] \in SUBSET Pages /\ s.pagesFull[q] \in SUBSET Pages
        /\ s.numActiveCodePages[q] \in Nat /\ s.numCodePages[q] \in Nat
    BY <1>0 DEF Stores
  <2>3. Cardinality(s.pagesOpen[q]) \in Nat /\ Cardinality(s.pagesFull[q]) \in Nat
    BY <1>0, <2>2, Counting
  <2>4. CASE q # r
    <3>1. /\ t.pagesOpen[q] = s.pagesOpen[q] /\ t.pagesFull[q] = s.pagesFull[q]
          /\ t.numActiveCodePages[q] = s.numActiveCodePages[q]
          /\ t.numCodePages[q] = s.numCodePages[q]
      BY <1>0, <1>5, <1>6, <2>4 DEF Stores
    <3> QED BY <2>1, <3>1
  <2>5. CASE q = r
    <3>1. /\ t.pagesOpen[q] = s.pagesOpen[q] \ {p} /\ t.pagesFull[q] = s.pagesFull[q]
          /\ t.numActiveCodePages[q] = s.numActiveCodePages[q] + 1
          /\ t.numCodePages[q] = s.numCodePages[q] + IF p \in s.pagesOpen[q] THEN 0 ELSE 1
      BY <1>0, <1>5, <1>6, <2>2, <2>5 DEF Stores
    <3>2. CASE p \in s.pagesOpen[q]
      <4>1. Cardinality(s.pagesOpen[q] \ {p}) = Cardinality(s.pagesOpen[q]) - 1
        BY <1>0, <2>2, <3>2, Counting
      <4> QED BY <2>1, <2>2, <2>3, <3>1, <3>2, <4>1
    <3>3. CASE p \notin s.pagesOpen[q]
      <4>1. t.pagesOpen[q] = s.pagesOpen[q]
        BY <3>1, <3>3
      <4>2. t.numCodePages[q] = s.numCodePages[q] + 1
        BY <3>1, <3>3
      <4>3. Cardinality(t.pagesOpen[q]) = Cardinality(s.pagesOpen[q])
        BY <4>1
      <4>4. /\ Cardinality(t.pagesFull[q]) = Cardinality(s.pagesFull[q])
            /\ t.numActiveCodePages[q] = s.numActiveCodePages[q] + 1
        BY <3>1
      <4> QED BY <2>1, <2>2, <2>3, <4>2, <4>3, <4>4
    <3> QED BY <3>2, <3>3
  <2> QED BY <2>4, <2>5
<1>17. OffList(t, p)
  BY <1>5, <1>11, <1>13 DEF OffList
<1>18. ASSUME NEW q \in Pages, OffList(s, q) PROVE q # p /\ Kept(s, t, q)
  <2>1. q # p
    BY <1>9, <1>18 DEF OffList, Mine
  <2>2. q \in Allocated(t) /\ NumFreeLines(t, q) = NumFreeLines(s, q)
    BY <1>12, <1>18, <2>1 DEF OffList, Allocated, NumFreeLines
  <2> QED BY <1>5, <1>6, <1>13, <1>18, <2>1, <2>2 DEF Kept, OffList
<1> QED BY <1>5, <1>6, <1>11, <1>14, <1>15, <1>16, <1>17, <1>18 DEF Sound, t

\* Words are written where there is room, and nobody else notices.
LEMMA Emitting ==
  ASSUME NEW s, Sound(s), NEW p \in Pages, NEW k \in Nat, NumFreeLines(s, p) >= k, OffList(s, p)
  PROVE  LET t == EmitWords(s, p, k) IN
         /\ Sound(t) /\ OffList(t, p)
         /\ NumFreeLines(t, p) = NumFreeLines(s, p) - k
         /\ t.numActiveCodePages = s.numActiveCodePages
         /\ \A q \in Pages : OffList(s, q) /\ q # p => Kept(s, t, q)
<1> DEFINE t == EmitWords(s, p, k)
<1>0. s \in Stores /\ Apart(s) /\ Filled(s) /\ Counts(s)
  BY DEF Sound
<1>1. /\ t \in Stores
      /\ t.numLines = s.numLines /\ t.lineIndex = [s.lineIndex EXCEPT ![p] = @ + k]
      /\ t.pagesOpen = s.pagesOpen /\ t.pagesFull = s.pagesFull
      /\ t.pagesReleased = s.pagesReleased
      /\ t.numCodePages = s.numCodePages
      /\ t.numActiveCodePages = s.numActiveCodePages
  BY <1>0, EmitFields
<1> HIDE DEF t
<1>2. Allocated(t) = Allocated(s) /\ \A r \in Runtimes : Mine(t, r) = Mine(s, r)
  BY <1>1 DEF Allocated, Mine
<1>3. Apart(t) /\ Counts(t)
  BY <1>0, <1>1, <1>2 DEF Apart, Counts, Runtimes
<1>4. NumFreeLines(t, p) = NumFreeLines(s, p) - k
  BY <1>0, <1>1 DEF NumFreeLines, Stores
<1>5. \A q \in Pages \ {p} : NumFreeLines(t, q) = NumFreeLines(s, q) /\ t.lineIndex[q] = s.lineIndex[q]
  BY <1>0, <1>1 DEF NumFreeLines, Stores
<1>6. t.lineIndex[p] <= t.numLines[p]
  BY <1>0, <1>1, <1>4 DEF NumFreeLines, Stores
<1>7. Filled(t)
  BY <1>0, <1>1, <1>2, <1>5, <1>6 DEF Filled
<1>8. \A q \in Pages : OffList(s, q) => OffList(t, q)
  BY <1>1, <1>2 DEF OffList
<1> QED BY <1>1, <1>3, <1>4, <1>5, <1>7, <1>8 DEF Sound, Kept, t

\* A page that is released goes to one list.
LEMMA Releasing ==
  ASSUME NEW s, Sound(s), NEW r \in Runtimes, NEW p \in Pages, OffList(s, p),
         s.numActiveCodePages[r] >= 1
  PROVE  LET t == ReleaseCodePage(s, r, p) IN
         /\ Sound(t)
         /\ t.numActiveCodePages = [s.numActiveCodePages EXCEPT ![r] = @ - 1]
         /\ \A q \in Pages : OffList(s, q) /\ q # p => Kept(s, t, q)
<1> DEFINE t == ReleaseCodePage(s, r, p)
<1>0. s \in Stores /\ Apart(s) /\ Filled(s) /\ Counts(s)
  BY DEF Sound
<1>1. /\ t \in Stores
      /\ t.numLines = s.numLines /\ t.lineIndex = s.lineIndex
      /\ \/ /\ t.pagesFull = [s.pagesFull EXCEPT ![r] = @ \cup {p}]
            /\ t.pagesOpen = s.pagesOpen
         \/ /\ t.pagesOpen = [s.pagesOpen EXCEPT ![r] = @ \cup {p}]
            /\ t.pagesFull = s.pagesFull
      /\ t.pagesReleased = s.pagesReleased
      /\ t.numCodePages = s.numCodePages
      /\ t.numActiveCodePages = [s.numActiveCodePages EXCEPT ![r] = @ - 1]
  BY SMTT(40), <1>0, ReleaseFields
<1> HIDE DEF t
<1>2. Allocated(t) = Allocated(s) /\ \A q \in Pages : NumFreeLines(t, q) = NumFreeLines(s, q)
  BY <1>1 DEF Allocated, NumFreeLines
<1>3. /\ Mine(t, r) = Mine(s, r) \cup {p}
      /\ \A q \in Runtimes \ {r} : Mine(t, q) = Mine(s, q)
  BY <1>0, <1>1 DEF Mine, Stores
<1>4. p \in Allocated(s) /\ p \notin s.pagesReleased /\ \A q \in Runtimes : p \notin Mine(s, q)
  BY DEF OffList
<1>5. Apart(t)
  BY <1>0, <1>1, <1>3, <1>4 DEF Apart, Mine, Stores, Runtimes
<1>6. Filled(t)
  BY <1>0, <1>1, <1>2, <1>3, <1>4 DEF Filled
<1>7. Counts(t)
  <2> SUFFICES ASSUME NEW q \in Runtimes
               PROVE  Cardinality(t.pagesOpen[q]) + Cardinality(t.pagesFull[q])
                        + t.numActiveCodePages[q] = t.numCodePages[q]
    BY DEF Counts
  <2>1. Cardinality(s.pagesOpen[q]) + Cardinality(s.pagesFull[q])
          + s.numActiveCodePages[q] = s.numCodePages[q]
    BY <1>0 DEF Counts
  <2>2. /\ s.pagesOpen[q] \in SUBSET Pages /\ s.pagesFull[q] \in SUBSET Pages
        /\ s.numActiveCodePages[q] \in Nat /\ s.numCodePages[q] \in Nat
    BY <1>0 DEF Stores
  <2>3. Cardinality(s.pagesOpen[q]) \in Nat /\ Cardinality(s.pagesFull[q]) \in Nat
    BY <1>0, <2>2, Counting
  <2>4. CASE q # r
    <3>1. /\ t.pagesOpen[q] = s.pagesOpen[q] /\ t.pagesFull[q] = s.pagesFull[q]
          /\ t.numActiveCodePages[q] = s.numActiveCodePages[q]
          /\ t.numCodePages[q] = s.numCodePages[q]
      BY <1>0, <1>1, <2>4 DEF Stores
    <3> QED BY <2>1, <3>1
  <2>5. CASE q = r
    <3>1. p \notin s.pagesOpen[q] /\ p \notin s.pagesFull[q]
      BY <1>4 DEF Mine
    <3>2. /\ Cardinality(s.pagesOpen[q] \cup {p}) = Cardinality(s.pagesOpen[q]) + 1
          /\ Cardinality(s.pagesFull[q] \cup {p}) = Cardinality(s.pagesFull[q]) + 1
      BY <2>2, <3>1, Counting
    <3>3. \/ t.pagesFull[q] = s.pagesFull[q] \cup {p} /\ t.pagesOpen[q] = s.pagesOpen[q]
          \/ t.pagesOpen[q] = s.pagesOpen[q] \cup {p} /\ t.pagesFull[q] = s.pagesFull[q]
      BY <1>0, <1>1, <2>5 DEF Stores
    <3>4. Cardinality(t.pagesOpen[q]) + Cardinality(t.pagesFull[q])
            = Cardinality(s.pagesOpen[q]) + Cardinality(s.pagesFull[q]) + 1
      <4>1. \/ /\ Cardinality(t.pagesFull[q]) = Cardinality(s.pagesFull[q]) + 1
               /\ Cardinality(t.pagesOpen[q]) = Cardinality(s.pagesOpen[q])
            \/ /\ Cardinality(t.pagesOpen[q]) = Cardinality(s.pagesOpen[q]) + 1
               /\ Cardinality(t.pagesFull[q]) = Cardinality(s.pagesFull[q])
        BY <3>2, <3>3, Zenon
      <4> QED BY <2>3, <4>1
    <3>5. t.numActiveCodePages[q] = s.numActiveCodePages[q] - 1 /\ t.numCodePages[q] = s.numCodePages[q]
      BY <1>0, <1>1, <2>5 DEF Stores
    <3>6. t.pagesOpen[q] \in SUBSET Pages /\ t.pagesFull[q] \in SUBSET Pages
      BY <1>1 DEF Stores
    <3>7. Cardinality(t.pagesOpen[q]) \in Nat /\ Cardinality(t.pagesFull[q]) \in Nat
      BY <3>6, Counting
    <3> QED BY <2>1, <2>2, <2>3, <3>4, <3>5, <3>7
  <2> QED BY <2>4, <2>5
<1>8. \A q \in Pages : OffList(s, q) /\ q # p => OffList(t, q)
  BY <1>1, <1>2, <1>3 DEF OffList
<1> QED BY <1>1, <1>2, <1>5, <1>6, <1>7, <1>8 DEF Sound, Kept, t

\* The pages of a runtime go to the environment's list and are empty there.
LEMMA RuntimeReleasing ==
  ASSUME NEW s, Sound(s), NEW r \in Runtimes
  PROVE  LET t == Runtime_Release(s, r) IN
         /\ Sound(t)
         /\ \A q \in Pages : OffList(s, q) => Kept(s, t, q)
<1> DEFINE t == Runtime_Release(s, r)
<1>0. s \in Stores /\ Apart(s) /\ Filled(s) /\ Counts(s)
  BY DEF Sound
<1>1. /\ t \in Stores
      /\ t.numLines = s.numLines
      /\ t.lineIndex = [p \in Pages |-> IF p \in Mine(s, r) THEN 0 ELSE s.lineIndex[p]]
      /\ t.pagesOpen = [s.pagesOpen EXCEPT ![r] = {}]
      /\ t.pagesFull = [s.pagesFull EXCEPT ![r] = {}]
      /\ t.pagesReleased = s.pagesReleased \cup Mine(s, r)
      /\ t.numCodePages = [s.numCodePages EXCEPT ![r] = 0]
      /\ t.numActiveCodePages = [s.numActiveCodePages EXCEPT ![r] = 0]
  BY <1>0, RuntimeFields
<1> HIDE DEF t
<1>2. Mine(t, r) = {} /\ \A q \in Runtimes \ {r} : Mine(t, q) = Mine(s, q)
  BY <1>0, <1>1 DEF Mine, Stores
<1>3. Allocated(t) = Allocated(s)
  BY <1>1 DEF Allocated
<1>4. Apart(t)
  BY <1>0, <1>1, <1>2 DEF Apart, Mine, Stores, Runtimes
<1>5. Filled(t)
  <2>1. \A q \in Pages : t.lineIndex[q] <= t.numLines[q]
    BY <1>0, <1>1 DEF Filled, Stores
  <2> QED BY <1>0, <1>1, <1>2, <1>3, <2>1 DEF Filled
<1>6. Counts(t)
  <2> SUFFICES ASSUME NEW q \in Runtimes
               PROVE  Cardinality(t.pagesOpen[q]) + Cardinality(t.pagesFull[q])
                        + t.numActiveCodePages[q] = t.numCodePages[q]
    BY DEF Counts
  <2>1. CASE q # r
    <3>1. /\ t.pagesOpen[q] = s.pagesOpen[q] /\ t.pagesFull[q] = s.pagesFull[q]
          /\ t.numActiveCodePages[q] = s.numActiveCodePages[q]
          /\ t.numCodePages[q] = s.numCodePages[q]
      BY <1>0, <1>1, <2>1 DEF Stores
    <3> QED BY <1>0, <3>1 DEF Counts
  <2>2. CASE q = r
    <3>1. /\ t.pagesOpen[q] = {} /\ t.pagesFull[q] = {}
          /\ t.numActiveCodePages[q] = 0 /\ t.numCodePages[q] = 0
      BY <1>0, <1>1, <2>2 DEF Stores
    <3>2. Cardinality({}) = 0
      BY FS_EmptySet
    <3> QED BY <3>1, <3>2
  <2> QED BY <2>1, <2>2
<1>7. ASSUME NEW q \in Pages, OffList(s, q) PROVE Kept(s, t, q)
  <2>1. q \notin Mine(s, r) /\ q \notin s.pagesReleased /\ q \in Allocated(s)
        /\ \A o \in Runtimes : q \notin Mine(s, o)
    BY <1>7 DEF OffList
  <2>2. \A o \in Runtimes : q \notin Mine(t, o)
    BY <1>2, <2>1
  <2>3. NumFreeLines(t, q) = NumFreeLines(s, q)
    BY <1>1, <2>1 DEF NumFreeLines
  <2> QED BY <1>1, <1>3, <2>1, <2>2, <2>3 DEF Kept, OffList
<1> QED BY <1>4, <1>1, <1>5, <1>6, <1>7 DEF Sound, t

\* The environment frees the pages on its list, and those only.
LEMMA EnvironmentReleasing ==
  ASSUME NEW s, Sound(s)
  PROVE  Sound(Environment_Release(s))
<1> DEFINE t == Environment_Release(s)
<1>0. s \in Stores /\ Apart(s) /\ Filled(s) /\ Counts(s)
  BY DEF Sound
<1>1. /\ t \in Stores
      /\ t.numLines = [p \in Pages |-> IF p \in s.pagesReleased THEN 0 ELSE s.numLines[p]]
      /\ t.lineIndex = [p \in Pages |-> IF p \in s.pagesReleased THEN 0 ELSE s.lineIndex[p]]
      /\ t.pagesOpen = s.pagesOpen /\ t.pagesFull = s.pagesFull
      /\ t.pagesReleased = {}
      /\ t.numCodePages = s.numCodePages
      /\ t.numActiveCodePages = s.numActiveCodePages
  BY <1>0, EnvironmentFields
<1> HIDE DEF t
<1>2. \A r \in Runtimes : Mine(t, r) = Mine(s, r)
  BY <1>1 DEF Mine
<1>3. \A q \in Allocated(s) : q \notin s.pagesReleased => q \in Allocated(t)
  BY <1>1 DEF Allocated
<1>4. Apart(t) /\ Counts(t)
  BY <1>0, <1>1, <1>2 DEF Apart, Counts, Runtimes
<1>5. Filled(t)
  <2>1. \A q \in Pages : t.lineIndex[q] <= t.numLines[q]
    BY <1>0, <1>1 DEF Filled
  <2> QED BY <1>0, <1>1, <1>2, <1>3, <2>1 DEF Filled, Apart
<1> QED BY <1>1, <1>4, <1>5 DEF Sound, t

-----------------------------------------------------------------------------
(***************************************************************************)
(* Emission.                                                               *)
(***************************************************************************)
\* The state of a compilation: e.page can be written to, i lines at least, by the
\* runtime that holds it, and the other pages held in s are as they were.
Ready(s, p, e, n) ==
  /\ Sound(e.store) /\ e.page \in Pages /\ OffList(e.store, e.page)
  /\ NumFreeLines(e.store, e.page) >= n
  /\ e.store.numActiveCodePages = s.numActiveCodePages
  /\ \A q \in Pages : OffList(s, q) /\ q # p => q # e.page /\ Kept(s, e.store, q)

\* With room for a bridge there is a way to have any number of lines that does not wrap.
LEMMA Ensuring ==
  ASSUME NEW s, Sound(s), NEW p \in Pages, OffList(s, p), NumFreeLines(s, p) >= 2,
         rt \in Runtimes, s.numActiveCodePages[rt] >= 1, NEW n \in Nat, n + 2 < U32,
         NEW e \in EnsureCodePageNumLines(s, p, n)
  PROVE  Ready(s, p, e, n + 2)
<1>0. s \in Stores /\ WithBridge(n) = n + 2 /\ n + 2 \in Nat \ {0}
  BY Modulus DEF Sound, WithBridge
<1>1. CASE NumFreeLines(s, p) >= n + 2
  <2>1. e = [store |-> s, page |-> p]
    BY <1>0, <1>1 DEF EnsureCodePageNumLines
  <2>2. e.store = s /\ e.page = p
    BY <2>1
  <2> QED BY <1>1, <2>2 DEF Ready, Kept
<1>2. CASE ~(NumFreeLines(s, p) >= n + 2)
  <2>1. PICK q \in Acquirable(s, rt, n + 2) :
          e = [store |-> ReleaseCodePage(
                           EmitWords(AcquireCodePageWithCapacity(s, rt, n + 2, q), p, 2), rt, p),
               page |-> q]
    BY <1>0, <1>2 DEF EnsureCodePageNumLines
  <2> DEFINE t == AcquireCodePageWithCapacity(s, rt, n + 2, q)
             u == EmitWords(t, p, 2)
             v == ReleaseCodePage(u, rt, p)
  <2>2. e.store = v /\ e.page = q /\ q \in Pages
    BY <2>1 DEF Acquirable, OfCapacity, Sound, Stores
  <2>3. /\ Sound(t) /\ OffList(t, q) /\ NumFreeLines(t, q) >= n + 2
        /\ t.numActiveCodePages = [s.numActiveCodePages EXCEPT ![rt] = @ + 1]
        /\ \A o \in Pages : OffList(s, o) => o # q /\ Kept(s, t, o)
    <3>1. rt \in Runtimes /\ n + 2 \in Nat \ {0} /\ q \in Acquirable(s, rt, n + 2) /\ Sound(s)
      BY <1>0
    <3> QED BY <3>1, Acquiring
  <2> HIDE DEF t
  <2>4. p # q /\ OffList(t, p) /\ NumFreeLines(t, p) >= 2
    BY <2>3 DEF Kept
  <2>5. /\ Sound(u) /\ OffList(u, p)
        /\ u.numActiveCodePages = t.numActiveCodePages
        /\ \A o \in Pages : OffList(t, o) /\ o # p => Kept(t, u, o)
    BY <2>3, <2>4, Emitting
  <2> HIDE DEF u
  <2>6. u.numActiveCodePages[rt] >= 1 /\ s.numActiveCodePages \in [Runtimes -> Nat]
        /\ u.numActiveCodePages = [s.numActiveCodePages EXCEPT ![rt] = @ + 1]
    BY <1>0, <2>3, <2>5 DEF Stores
  <2>7. /\ Sound(v)
        /\ v.numActiveCodePages = [u.numActiveCodePages EXCEPT ![rt] = @ - 1]
        /\ \A o \in Pages : OffList(u, o) /\ o # p => Kept(u, v, o)
    BY <2>5, <2>6, Releasing
  <2> HIDE DEF v
  <2>8. v.numActiveCodePages = s.numActiveCodePages
    BY <2>6, <2>7
  <2>9. OffList(v, q) /\ NumFreeLines(v, q) >= n + 2
    BY <2>2, <2>3, <2>4, <2>5, <2>7 DEF Kept
  <2>10. ASSUME NEW o \in Pages, OffList(s, o), o # p PROVE o # q /\ Kept(s, v, o)
    BY <2>3, <2>5, <2>7, <2>10 DEF Kept
  <2> QED BY <2>2, <2>7, <2>8, <2>9, <2>10 DEF Ready
<1> QED BY <1>1, <1>2

\* An operation with up to four operands leaves room for the bridge, and stays on
\* a page that has room for any operation.
LEMMA EmittingOp ==
  ASSUME NEW s, Sound(s), NEW p \in Pages, OffList(s, p), NumFreeLines(s, p) >= 2,
         rt \in Runtimes, s.numActiveCodePages[rt] >= 1, NEW k \in 0..4,
         NEW f \in EmitOp(s, p, k)
  PROVE  /\ Ready(s, p, f, 7 - k)
         /\ NumFreeLines(s, p) >= 8 => NumFreeLines(f.store, f.page) = NumFreeLines(s, p) - (1 + k)
<1>1. PICK e \in EnsureCodePageNumLines(s, p, d_m3CodePageFreeLinesThreshold) :
         f = [store |-> EmitWords(e.store, e.page, 1 + k), page |-> e.page]
  BY DEF EmitOp
<1>2. d_m3CodePageFreeLinesThreshold = 6 /\ 6 \in Nat /\ 6 + 2 = 8 /\ 6 + 2 < U32
  BY WidthAssumption DEF d_m3CodePageFreeLinesThreshold
<1>2a. WithBridge(6) = 8
  BY <1>2, Modulus DEF WithBridge
<1>3. Ready(s, p, e, 8)
  BY <1>1, <1>2, Ensuring
<1>3a. NumFreeLines(s, p) >= 8 => e.store = s /\ e.page = p
  BY <1>1, <1>2, <1>2a DEF EnsureCodePageNumLines
<1> DEFINE u == e.store
           v == EmitWords(u, e.page, 1 + k)
<1>4. f.store = v /\ f.page = e.page
  BY <1>1
<1>5. 1 + k \in Nat /\ 1 + k <= 5 /\ 7 - k \in Nat
  OBVIOUS
<1>6. /\ Sound(u) /\ e.page \in Pages /\ OffList(u, e.page) /\ NumFreeLines(u, e.page) >= 8
      /\ u.numActiveCodePages = s.numActiveCodePages
      /\ \A q \in Pages : OffList(s, q) /\ q # p => q # e.page /\ Kept(s, u, q)
  BY <1>3 DEF Ready
<1>7. NumFreeLines(u, e.page) \in Int
  BY <1>6 DEF Sound, Stores, NumFreeLines
<1> HIDE DEF u
<1>8. NumFreeLines(u, e.page) >= 1 + k
  BY <1>5, <1>6, <1>7
<1>9. /\ Sound(v) /\ OffList(v, e.page)
      /\ NumFreeLines(v, e.page) = NumFreeLines(u, e.page) - (1 + k)
      /\ v.numActiveCodePages = u.numActiveCodePages
      /\ \A q \in Pages : OffList(u, q) /\ q # e.page => Kept(u, v, q)
  BY <1>5, <1>6, <1>8, Emitting
<1> HIDE DEF v
<1>10. NumFreeLines(v, e.page) >= 7 - k
  BY <1>6, <1>7, <1>9
<1>11. ASSUME NEW q \in Pages, OffList(s, q), q # p PROVE q # e.page /\ Kept(s, v, q)
  BY <1>6, <1>9, <1>11 DEF Kept
<1>12. Ready(s, p, f, 7 - k)
  BY <1>4, <1>6, <1>9, <1>10, <1>11 DEF Ready
<1>13. NumFreeLines(s, p) >= 8 => NumFreeLines(f.store, f.page) = NumFreeLines(s, p) - (1 + k)
  BY <1>3a, <1>4, <1>9 DEF u
<1> QED BY <1>12, <1>13

-----------------------------------------------------------------------------
(***************************************************************************)
(* The invariant of a compilation: the page it writes to and the pages it  *)
(* will come back to are its own, they differ, and each has room for what  *)
(* is still to be written there and a bridge.                              *)
(***************************************************************************)
\* A branch table whose entries are being written: Owed lines are to come.
AtTable(fr) == fr # <<>> /\ fr[Len(fr)].kind = "table" /\ fr[Len(fr)].page = NoPage
Owed(fr) == IF AtTable(fr) THEN fr[Len(fr)].left ELSE 0

Shape(fr) ==
  /\ fr \in Seq(Frames)
  /\ \A i \in 1..Len(fr) :
       \/ fr[i].kind = "else" /\ fr[i].page \in Pages /\ fr[i].left = 0
       \/ fr[i].kind = "table" /\ i = Len(fr) /\ fr[i].left >= 1

Saved(s, p, fr) ==
  \A i \in 1..Len(fr) : fr[i].page # NoPage =>
    /\ OffList(s, fr[i].page) /\ fr[i].page # p /\ NumFreeLines(s, fr[i].page) >= 2 + fr[i].left
    /\ \A j \in 1..Len(fr) : j # i => fr[j].page # fr[i].page

Compilation(s, r, p, fr) ==
  /\ Sound(s) /\ p \in Pages /\ OffList(s, p) /\ NumFreeLines(s, p) >= 2 + Owed(fr)
  /\ Shape(fr) /\ Saved(s, p, fr)
  /\ s.numActiveCodePages[r] >= Len(fr) + (IF AtTable(fr) THEN 0 ELSE 1)

\* Pages that look the same to their holder are still saved.
LEMMA SavedKept ==
  ASSUME NEW s, NEW t, NEW p, NEW q, NEW fr, Shape(fr), Saved(s, p, fr),
         \A o \in Pages : OffList(s, o) /\ o # p => o # q /\ Kept(s, t, o)
  PROVE  Saved(t, q, fr)
<1> SUFFICES ASSUME NEW i \in 1..Len(fr), fr[i].page # NoPage
             PROVE  /\ OffList(t, fr[i].page) /\ fr[i].page # q
                    /\ NumFreeLines(t, fr[i].page) >= 2 + fr[i].left
                    /\ \A j \in 1..Len(fr) : j # i => fr[j].page # fr[i].page
  BY DEF Saved
<1>1. fr[i].page \in Pages
  <2>1. fr \in Seq(Frames)
    BY DEF Shape
  <2>2. fr[i] \in Frames
    BY <2>1, ElementOfSeq
  <2> QED BY <2>2 DEF Frames
<1>2. /\ OffList(s, fr[i].page) /\ fr[i].page # p /\ NumFreeLines(s, fr[i].page) >= 2 + fr[i].left
      /\ \A j \in 1..Len(fr) : j # i => fr[j].page # fr[i].page
  BY DEF Saved
<1>3. Kept(s, t, fr[i].page) /\ fr[i].page # q
  BY <1>1, <1>2
<1> QED BY <1>2, <1>3 DEF Kept

\* The frames without the innermost one.
LEMMA Popped ==
  ASSUME NEW fr, Shape(fr), fr # <<>>
  PROVE  LET o == SubSeq(fr, 1, Len(fr) - 1) IN
         /\ Shape(o) /\ Len(o) = Len(fr) - 1 /\ Len(fr) \in Nat \ {0} /\ Len(o) \in Nat
         /\ \A i \in 1..Len(o) : i \in 1..Len(fr) /\ i # Len(fr) /\ o[i] = fr[i]
         /\ ~AtTable(o) /\ Owed(o) = 0
<1> DEFINE o == SubSeq(fr, 1, Len(fr) - 1)
<1>1. fr \in Seq(Frames) /\ Len(fr) \in Nat \ {0}
  BY DEF Shape
<1>2. o \in Seq(Frames) /\ Len(o) = Len(fr) - 1 /\ \A i \in 1..Len(o) : o[i] = fr[i]
  <2>1. \A i \in 1..(Len(fr) - 1) : i \in 1..Len(fr)
    BY <1>1
  <2>2. \A i \in 1..(Len(fr) - 1) : fr[i] \in Frames
    BY <1>1, <2>1, ElementOfSeq
  <2>3. 1 \in Int /\ Len(fr) - 1 \in Int
    BY <1>1
  <2>4. /\ o \in Seq(Frames)
        /\ Len(o) = IF 1 <= Len(fr) - 1 THEN (Len(fr) - 1) - 1 + 1 ELSE 0
        /\ \A i \in 1..((Len(fr) - 1) - 1 + 1) : o[i] = fr[1 + i - 1]
    BY <2>2, <2>3, SubSeqProperties
  <2> HIDE DEF o
  <2>5. Len(o) = Len(fr) - 1
    <3>0. \A n \in Nat \ {0} : n = 1 \/ 1 <= n - 1
      OBVIOUS
    <3>1. Len(fr) = 1 \/ 1 <= Len(fr) - 1
      BY <1>1, <3>0
    <3>2. CASE Len(fr) = 1
      <4>1. Len(o) = 0
        BY <2>4, <3>2
      <4> QED BY <3>2, <4>1
    <3>3. CASE 1 <= Len(fr) - 1
      <4>1. Len(o) = (Len(fr) - 1) - 1 + 1
        BY <2>4, <3>3
      <4> QED BY <1>1, <4>1
    <3> QED BY <3>1, <3>2, <3>3
  <2>6. \A i \in 1..Len(o) : i \in 1..((Len(fr) - 1) - 1 + 1) /\ 1 + i - 1 = i
    BY <1>1, <2>5
  <2> QED BY <2>4, <2>5, <2>6
<1> HIDE DEF o
<1>3. \A i \in 1..Len(o) : i \in 1..Len(fr) /\ i # Len(fr) /\ o[i] = fr[i]
  BY <1>1, <1>2
<1>4. \A i \in 1..Len(o) : o[i].kind = "else" /\ o[i].page \in Pages /\ o[i].left = 0
  BY <1>3 DEF Shape
<1>5. Shape(o)
  BY <1>2, <1>4 DEF Shape
<1>6. ~AtTable(o)
  <2>1. ASSUME o # <<>> PROVE Len(o) \in 1..Len(o)
    BY <1>2, <2>1
  <2>2. "else" # "table"
    OBVIOUS
  <2> QED BY <1>4, <2>1, <2>2 DEF AtTable
<1> QED BY <1>1, <1>2, <1>3, <1>5, <1>6 DEF Owed, o

LEMMA SavedPopped ==
  ASSUME NEW s, NEW p, NEW fr, Shape(fr), fr # <<>>, Saved(s, p, fr)
  PROVE  Saved(s, p, SubSeq(fr, 1, Len(fr) - 1))
<1> DEFINE o == SubSeq(fr, 1, Len(fr) - 1)
<1>1. \A i \in 1..Len(o) : i \in 1..Len(fr) /\ i # Len(fr) /\ o[i] = fr[i]
  BY Popped
<1> HIDE DEF o
<1>2. Saved(s, p, o)
  BY <1>1 DEF Saved
<1> QED BY <1>2 DEF o

\* A frame more: the page of the code that is being compiled, or a branch table.
NewFrame(x) ==
  /\ x \in Frames
  /\ \/ x.kind = "else" /\ x.page \in Pages /\ x.left = 0
     \/ x.kind = "table" /\ x.left >= 1

LEMMA Pushed ==
  ASSUME NEW fr, Shape(fr), \A i \in 1..Len(fr) : fr[i].kind # "table", NEW x, NewFrame(x)
  PROVE  LET g == Append(fr, x) IN
         /\ Shape(g) /\ Len(fr) \in Nat /\ Len(g) = Len(fr) + 1 /\ g # <<>>
         /\ \A i \in 1..Len(fr) : g[i] = fr[i]
         /\ g[Len(g)] = x
<1> DEFINE g == Append(fr, x)
<1>1. fr \in Seq(Frames) /\ x \in Frames /\ Len(fr) \in Nat
  BY DEF Shape, NewFrame
<1>2. /\ g \in Seq(Frames) /\ g # <<>> /\ Len(g) = Len(fr) + 1
      /\ \A i \in 1..Len(fr) : g[i] = fr[i]
      /\ g[Len(fr) + 1] = x
  BY <1>1, AppendProperties
<1> HIDE DEF g
<1>3. \A i \in 1..Len(g) : i = Len(fr) + 1 \/ i \in 1..Len(fr)
  BY <1>1, <1>2
<1>4. \A i \in 1..Len(fr) : g[i].kind = "else" /\ g[i].page \in Pages /\ g[i].left = 0
  BY <1>2 DEF Shape
<1>5. Shape(g)
  <2> SUFFICES ASSUME NEW i \in 1..Len(g)
               PROVE  \/ g[i].kind = "else" /\ g[i].page \in Pages /\ g[i].left = 0
                      \/ g[i].kind = "table" /\ i = Len(g) /\ g[i].left >= 1
    BY <1>2 DEF Shape
  <2> QED BY <1>2, <1>3, <1>4 DEF NewFrame
<1> QED BY <1>1, <1>2, <1>5 DEF g

LEMMA SavedPushed ==
  ASSUME NEW s, NEW p, NEW fr, Shape(fr), \A i \in 1..Len(fr) : fr[i].kind # "table",
         NEW x, NewFrame(x), Saved(s, p, fr),
         x.page # NoPage => /\ OffList(s, x.page) /\ x.page # p
                            /\ NumFreeLines(s, x.page) >= 2 + x.left
                            /\ \A i \in 1..Len(fr) : fr[i].page # x.page
  PROVE  Saved(s, p, Append(fr, x))
<1> DEFINE g == Append(fr, x)
<1>1. /\ Len(fr) \in Nat /\ Len(g) = Len(fr) + 1
      /\ \A i \in 1..Len(fr) : g[i] = fr[i]
      /\ g[Len(g)] = x
  BY Pushed
<1> HIDE DEF g
<1>2. \A i \in 1..Len(g) : i = Len(g) \/ i \in 1..Len(fr)
  BY <1>1
<1>3. \A i \in 1..Len(fr) : fr[i].page # NoPage
  BY PagesAssumption DEF Shape
<1>4. ASSUME NEW i \in 1..Len(g), g[i].page # NoPage
      PROVE  /\ OffList(s, g[i].page) /\ g[i].page # p /\ NumFreeLines(s, g[i].page) >= 2 + g[i].left
             /\ \A j \in 1..Len(g) : j # i => g[j].page # g[i].page
  <2>1. CASE i = Len(g)
    <3>1. g[i] = x /\ x.page # NoPage
      BY <1>1, <1>4, <2>1
    <3>2. \A j \in 1..Len(g) : j # i => j \in 1..Len(fr) /\ g[j] = fr[j]
      BY <1>1, <1>2, <2>1
    <3> QED BY <3>1, <3>2
  <2>2. CASE i \in 1..Len(fr)
    <3>1. g[i] = fr[i]
      BY <1>1, <2>2
    <3>2. /\ OffList(s, fr[i].page) /\ fr[i].page # p /\ NumFreeLines(s, fr[i].page) >= 2 + fr[i].left
          /\ \A j \in 1..Len(fr) : j # i => fr[j].page # fr[i].page
      BY <1>3, <2>2 DEF Saved
    <3>3. ASSUME NEW j \in 1..Len(g), j # i PROVE g[j].page # g[i].page
      <4>1. CASE j = Len(g)
        BY <1>1, <1>3, <2>2, <3>1, <4>1
      <4>2. CASE j \in 1..Len(fr)
        BY <1>1, <3>1, <3>2, <3>3, <4>2
      <4> QED BY <1>2, <4>1, <4>2
    <3> QED BY <3>1, <3>2, <3>3
  <2> QED BY <1>2, <2>1, <2>2
<1>5. Saved(s, p, g)
  BY <1>4 DEF Saved
<1> QED BY <1>5 DEF g

\* To change the innermost frame is to take it away and to put another.
LEMMA Replaced ==
  ASSUME NEW fr, Shape(fr), fr # <<>>, NEW x \in Frames
  PROVE  [fr EXCEPT ![Len(fr)] = x] = Append(SubSeq(fr, 1, Len(fr) - 1), x)
<1> DEFINE o == SubSeq(fr, 1, Len(fr) - 1)
           g == Append(o, x)
           h == [fr EXCEPT ![Len(fr)] = x]
<1>1. fr \in Seq(Frames) /\ Len(fr) \in Nat \ {0} /\ Len(fr) \in 1..Len(fr)
  BY DEF Shape
<1>2. /\ h \in Seq(Frames) /\ Len(h) = Len(fr)
      /\ \A i \in 1..Len(fr) : h[i] = IF i = Len(fr) THEN x ELSE fr[i]
  BY <1>1, ExceptSeq
<1>3. /\ o \in Seq(Frames) /\ Len(o) = Len(fr) - 1
      /\ \A i \in 1..Len(o) : o[i] = fr[i]
  BY Popped DEF Shape
<1> HIDE DEF o, h
<1>4. /\ g \in Seq(Frames) /\ Len(g) = Len(o) + 1
      /\ \A i \in 1..Len(o) : g[i] = o[i]
      /\ g[Len(o) + 1] = x
  BY <1>3, AppendProperties
<1> HIDE DEF g
<1>5. Len(g) = Len(h)
  BY <1>1, <1>2, <1>3, <1>4
<1>6. \A i \in 1..Len(h) : i # Len(fr) => i \in 1..Len(o)
  BY <1>1, <1>2, <1>3
<1>7. g[Len(fr)] = x
  <2>1. Len(o) + 1 = Len(fr)
    BY <1>1, <1>3
  <2> QED BY <1>4, <2>1
<1>8. \A i \in 1..Len(h) : h[i] = g[i]
  BY <1>2, <1>3, <1>4, <1>6, <1>7
<1>9. h = g
  BY <1>2, <1>4, <1>5, <1>8, SeqEqual
<1> QED BY <1>9 DEF g, h, o

-----------------------------------------------------------------------------
(***************************************************************************)
(* The steps of a compilation.                                             *)
(***************************************************************************)
\* In a state without a branch table every frame is an else block.
LEMMA AllElse ==
  ASSUME Shape(frames), ~AtTarget, ~InTarget
  PROVE  \A i \in 1..Len(frames) : frames[i].kind # "table"
<1>1. frames \in Seq(Frames) /\ Len(frames) \in Nat
  BY DEF Shape
<1> SUFFICES ASSUME NEW i \in 1..Len(frames), frames[i].kind = "table" PROVE FALSE
  OBVIOUS
<1>2. i = Len(frames)
  BY DEF Shape
<1>3. frames # <<>>
  BY <1>1
<1> QED BY <1>2, <1>3 DEF AtTarget, InTarget, Top

\* A new page on top of a compilation.
LEMMA AcquiringOnTop ==
  ASSUME NEW s, Sound(s), NEW r \in Runtimes,
         NEW q \in Acquirable(s, r, d_m3CodePageFreeLinesThreshold)
  PROVE  LET t == AcquireCodePageWithCapacity(s, r, d_m3CodePageFreeLinesThreshold, q) IN
         /\ q \in Pages /\ Sound(t) /\ OffList(t, q) /\ NumFreeLines(t, q) >= 6
         /\ t.numActiveCodePages = [s.numActiveCodePages EXCEPT ![r] = @ + 1]
         /\ s.numActiveCodePages \in [Runtimes -> Nat]
         /\ \A o \in Pages : OffList(s, o) => o # q /\ Kept(s, t, o)
<1>1. d_m3CodePageFreeLinesThreshold = 6 /\ 6 \in Nat \ {0}
  BY DEF d_m3CodePageFreeLinesThreshold
<1>2. q \in Pages /\ s.numActiveCodePages \in [Runtimes -> Nat]
  BY DEF Acquirable, OfCapacity, Sound, Stores
<1> QED BY <1>1, <1>2, Acquiring

LEMMA BeginKeeps ==
  ASSUME Sound(store), NEW r \in Runtimes, BeginCompile(r)
  PROVE  rt' = r /\ frames' = <<>> /\ Compilation(store', r, page', <<>>)
<1>1. PICK q \in Acquirable(store, r, d_m3CodePageFreeLinesThreshold) :
        /\ page' = q
        /\ store' = AcquireCodePageWithCapacity(store, r, d_m3CodePageFreeLinesThreshold, q)
  BY DEF BeginCompile
<1>2. /\ q \in Pages /\ Sound(store') /\ OffList(store', q) /\ NumFreeLines(store', q) >= 6
      /\ store'.numActiveCodePages = [store.numActiveCodePages EXCEPT ![r] = @ + 1]
      /\ store.numActiveCodePages \in [Runtimes -> Nat]
  BY <1>1, AcquiringOnTop
<1>3. Len(<<>>) = 0 /\ ~AtTable(<<>>) /\ Owed(<<>>) = 0
  BY DEF AtTable, Owed
<1>4. Shape(<<>>) /\ Saved(store', page', <<>>)
  BY <1>3 DEF Shape, Saved
<1>5. store'.numActiveCodePages[r] >= 1
  BY <1>2
<1>6. NumFreeLines(store', q) >= 2 + 0
  <2>1. NumFreeLines(store', q) \in Int
    BY <1>2 DEF Sound, Stores, NumFreeLines
  <2> QED BY <1>2, <2>1
<1> QED BY <1>1, <1>2, <1>3, <1>4, <1>5, <1>6 DEF BeginCompile, Compilation

\* What a compilation says of the number of its pages.
LEMMA Active ==
  ASSUME NEW s, NEW r \in Runtimes, NEW p, NEW fr, Compilation(s, r, p, fr)
  PROVE  /\ s.numActiveCodePages[r] \in Nat /\ Len(fr) \in Nat
         /\ s.numActiveCodePages[r] >= 1
         /\ NumFreeLines(s, p) \in Int /\ NumFreeLines(s, p) >= 2
         /\ Owed(fr) \in Nat
<1>1. s.numActiveCodePages[r] \in Nat /\ Len(fr) \in Nat /\ fr \in Seq(Frames)
  BY DEF Compilation, Sound, Stores, Shape
<1>2. AtTable(fr) => Len(fr) >= 1 /\ fr[Len(fr)] \in Frames
  <2> SUFFICES ASSUME AtTable(fr) PROVE Len(fr) >= 1 /\ fr[Len(fr)] \in Frames
    OBVIOUS
  <2>1. Len(fr) \in Nat \ {0} /\ Len(fr) \in 1..Len(fr)
    BY <1>1 DEF AtTable
  <2> QED BY <1>1, <2>1, ElementOfSeq
<1>3. s.numActiveCodePages[r] >= 1
  <2>1. CASE AtTable(fr)
    BY <1>1, <1>2, <2>1 DEF Compilation
  <2>2. CASE ~AtTable(fr)
    BY <1>1, <2>2 DEF Compilation
  <2> QED BY <2>1, <2>2
<1>4. Owed(fr) \in Nat
  BY <1>2 DEF Owed, Frames
<1>5. NumFreeLines(s, p) \in Int
  BY DEF Compilation, Sound, Stores, NumFreeLines
<1>6. NumFreeLines(s, p) >= 2 + Owed(fr)
  BY DEF Compilation
<1> QED BY <1>1, <1>3, <1>4, <1>5, <1>6

\* Emission on the page of a compilation that owes no table entries.
LEMMA EmissionKeeps ==
  ASSUME NEW r \in Runtimes, NEW s, NEW p, NEW fr, Compilation(s, r, p, fr), ~AtTable(fr),
         NEW e, NEW n \in Nat, n >= 2, Ready(s, p, e, n)
  PROVE  Compilation(e.store, r, e.page, fr)
<1>1. /\ Sound(e.store) /\ e.page \in Pages /\ OffList(e.store, e.page)
      /\ NumFreeLines(e.store, e.page) >= n
      /\ e.store.numActiveCodePages = s.numActiveCodePages
      /\ \A q \in Pages : OffList(s, q) /\ q # p => q # e.page /\ Kept(s, e.store, q)
  BY DEF Ready
<1>2. Saved(e.store, e.page, fr)
  <2> DEFINE t == e.store
             q == e.page
  <2>1. \A o \in Pages : OffList(s, o) /\ o # p => o # q /\ Kept(s, t, o)
    BY <1>1
  <2>2. Shape(fr) /\ Saved(s, p, fr)
    BY DEF Compilation
  <2> HIDE DEF t, q
  <2>3. Saved(t, q, fr)
    BY <2>1, <2>2, SavedKept
  <2> QED BY <2>3 DEF t, q
<1>3. NumFreeLines(e.store, e.page) >= 2 + Owed(fr)
  <2>1. NumFreeLines(e.store, e.page) \in Int
    BY <1>1 DEF Sound, Stores, NumFreeLines
  <2> QED BY <1>1, <2>1 DEF Owed
<1> QED BY <1>1, <1>2, <1>3 DEF Compilation

LEMMA OperatorKeeps ==
  ASSUME rt \in Runtimes, Compilation(store, rt, page, frames), Compile_Operator
  PROVE  Compilation(store', rt, page', frames)
<1>1. PICK k \in 0..MaxOperands : \E e \in EmitOp(store, page, k) : store' = e.store /\ page' = e.page
  BY DEF Compile_Operator
<1>2. PICK e \in EmitOp(store, page, k) : store' = e.store /\ page' = e.page
  BY <1>1
<1>3. k \in 0..4 /\ 7 - k \in Nat /\ 7 - k >= 2
  BY LinesAssumption
<1>4. ~AtTable(frames)
  BY DEF Compile_Operator, AtTarget, AtTable, Top
<1>5. Ready(store, page, e, 7 - k)
  BY <1>2, <1>3, Active, EmittingOp DEF Compilation
<1>6. Compilation(e.store, rt, e.page, frames)
  BY <1>3, <1>4, <1>5, EmissionKeeps
<1> QED BY <1>2, <1>6

\* A page acquired while the page before is kept, with what it owes, in a frame.
LEMMA KeepingPage ==
  ASSUME NEW r \in Runtimes, NEW s, NEW p, NEW fr, NEW gr, NEW x,
         Sound(s), p \in Pages, OffList(s, p), Shape(fr), Saved(s, p, fr),
         \A i \in 1..Len(fr) : fr[i].kind # "table",
         NewFrame(x), x.page = p, NumFreeLines(s, p) >= 2 + x.left, gr = Append(fr, x),
         s.numActiveCodePages[r] >= Len(fr) + 1,
         NEW q \in Acquirable(s, r, d_m3CodePageFreeLinesThreshold)
  PROVE  Compilation(AcquireCodePageWithCapacity(s, r, d_m3CodePageFreeLinesThreshold, q), r, q, gr)
<1> DEFINE t == AcquireCodePageWithCapacity(s, r, d_m3CodePageFreeLinesThreshold, q)
<1>1. /\ q \in Pages /\ Sound(t) /\ OffList(t, q) /\ NumFreeLines(t, q) >= 6
      /\ t.numActiveCodePages = [s.numActiveCodePages EXCEPT ![r] = @ + 1]
      /\ s.numActiveCodePages \in [Runtimes -> Nat]
      /\ \A o \in Pages : OffList(s, o) => o # q /\ Kept(s, t, o)
  BY AcquiringOnTop
<1> HIDE DEF t
<1>2. Saved(t, q, fr)
  BY <1>1, SavedKept
<1>3. /\ Shape(gr) /\ Len(fr) \in Nat /\ Len(gr) = Len(fr) + 1 /\ gr[Len(gr)] = x
  BY Pushed
<1>4. OffList(t, p) /\ p # q /\ NumFreeLines(t, p) = NumFreeLines(s, p)
  BY <1>1 DEF Kept
<1>5. \A i \in 1..Len(fr) : fr[i].page # p
  BY PagesAssumption DEF Saved, Shape
<1>6. Saved(t, q, gr)
  BY <1>2, <1>4, <1>5, SavedPushed
<1>7. ~AtTable(gr) /\ Owed(gr) = 0
  BY <1>3, PagesAssumption DEF AtTable, Owed
<1>8. t.numActiveCodePages[r] >= Len(gr) + 1
  BY <1>1, <1>3
<1>9. NumFreeLines(t, q) >= 2 + 0
  <2>1. NumFreeLines(t, q) \in Int
    BY SMTT(40), <1>1 DEF Sound, Stores, NumFreeLines
  <2> QED BY <1>1, <2>1
<1>10. Compilation(t, r, q, gr)
  BY <1>1, <1>3, <1>6, <1>7, <1>8, <1>9 DEF Compilation
<1> QED BY <1>10 DEF t

LEMMA ElseKeeps ==
  ASSUME rt \in Runtimes, Compilation(store, rt, page, frames), CompileElseBlock
  PROVE  Compilation(store', rt, page', frames')
<1> DEFINE x == [kind |-> "else", page |-> page, left |-> 0]
<1>1. PICK q \in Acquirable(store, rt, d_m3CodePageFreeLinesThreshold) :
        /\ page' = q
        /\ store' = AcquireCodePageWithCapacity(store, rt, d_m3CodePageFreeLinesThreshold, q)
  BY DEF CompileElseBlock
<1>2. frames' = Append(frames, x) /\ ~AtTarget /\ ~InTarget
  BY DEF CompileElseBlock
<1>3. /\ Sound(store) /\ page \in Pages /\ OffList(store, page) /\ Shape(frames)
      /\ Saved(store, page, frames)
  BY DEF Compilation
<1>4. \A i \in 1..Len(frames) : frames[i].kind # "table"
  BY <1>2, <1>3, AllElse
<1>5. ~AtTable(frames)
  BY <1>2 DEF AtTarget, AtTable, Top
<1>6. NewFrame(x) /\ x.page = page /\ x.left = 0
  BY <1>3 DEF NewFrame, Frames
<1>7. NumFreeLines(store, page) >= 2 + x.left
  <2>1. NumFreeLines(store, page) >= 2
    BY Active
  <2> QED BY <1>6, <2>1
<1>8. store.numActiveCodePages[rt] >= Len(frames) + 1
  BY <1>5 DEF Compilation
<1> HIDE DEF x
<1> QED BY <1>1, <1>2, <1>3, <1>4, <1>6, <1>7, <1>8, KeepingPage

\* The page is released and the innermost kept one taken up again.
LEMMA TakingUp ==
  ASSUME NEW r \in Runtimes, NEW s, NEW p, NEW fr, Compilation(s, r, p, fr),
         fr # <<>>, ~AtTable(fr)
  PROVE  LET t == ReleaseCodePage(s, r, p)
             x == fr[Len(fr)]
             o == SubSeq(fr, 1, Len(fr) - 1)
         IN  /\ x \in Frames /\ x.page \in Pages
             /\ Compilation(t, r, x.page, o)
             /\ NumFreeLines(t, x.page) \in Int /\ NumFreeLines(t, x.page) >= 2 + x.left
<1> DEFINE t == ReleaseCodePage(s, r, p)
           x == fr[Len(fr)]
           q == x.page
           o == SubSeq(fr, 1, Len(fr) - 1)
<1>1. /\ Sound(s) /\ p \in Pages /\ OffList(s, p) /\ Shape(fr) /\ Saved(s, p, fr)
      /\ s.numActiveCodePages[r] >= Len(fr) + 1
  BY DEF Compilation
<1>2. /\ Shape(o) /\ Len(o) = Len(fr) - 1 /\ Len(fr) \in Nat \ {0} /\ Len(o) \in Nat
      /\ \A i \in 1..Len(o) : i \in 1..Len(fr) /\ i # Len(fr) /\ o[i] = fr[i]
      /\ ~AtTable(o) /\ Owed(o) = 0
  BY <1>1, Popped
<1>3. s.numActiveCodePages[r] >= 1 /\ s.numActiveCodePages \in [Runtimes -> Nat]
  BY <1>1, Active DEF Sound, Stores
<1>4. /\ Sound(t)
      /\ t.numActiveCodePages = [s.numActiveCodePages EXCEPT ![r] = @ - 1]
      /\ \A a \in Pages : OffList(s, a) /\ a # p => Kept(s, t, a)
  BY <1>1, <1>3, Releasing
<1> HIDE DEF t, o
<1>5. Len(fr) \in 1..Len(fr)
  BY <1>2
<1>6. x \in Frames
  BY <1>1, <1>5, ElementOfSeq DEF Shape
<1>7. q \in Pages
  BY <1>1, <1>5, <1>6 DEF Shape, AtTable, Frames
<1>8. /\ OffList(s, q) /\ q # p /\ NumFreeLines(s, q) >= 2 + x.left
      /\ \A i \in 1..Len(fr) : i # Len(fr) => fr[i].page # q
  BY <1>1, <1>5, <1>7, PagesAssumption DEF Saved
<1>9. OffList(t, q) /\ NumFreeLines(t, q) >= 2 + x.left
  BY <1>4, <1>7, <1>8 DEF Kept
<1>10. Saved(s, p, o)
  BY <1>1, SavedPopped DEF o
<1>11. \A i \in 1..Len(o) : o[i].page # q
  BY <1>2, <1>8
<1>12. Saved(t, q, o)
  <2> SUFFICES ASSUME NEW i \in 1..Len(o), o[i].page # NoPage
               PROVE  /\ OffList(t, o[i].page) /\ o[i].page # q
                      /\ NumFreeLines(t, o[i].page) >= 2 + o[i].left
                      /\ \A j \in 1..Len(o) : j # i => o[j].page # o[i].page
    BY DEF Saved
  <2>1. /\ OffList(s, o[i].page) /\ o[i].page # p /\ NumFreeLines(s, o[i].page) >= 2 + o[i].left
        /\ \A j \in 1..Len(o) : j # i => o[j].page # o[i].page
    BY <1>10 DEF Saved
  <2>2. o[i] \in Frames
    BY <1>2, ElementOfSeq DEF Shape
  <2>3. o[i].page \in Pages
    BY <2>2 DEF Frames
  <2> QED BY <1>4, <1>11, <2>1, <2>3 DEF Kept
<1>13. t.numActiveCodePages[r] >= Len(o) + 1
  BY <1>1, <1>2, <1>3, <1>4
<1>14. NumFreeLines(t, q) \in Int
  BY <1>4, <1>7 DEF Sound, Stores, NumFreeLines
<1>15. NumFreeLines(t, q) >= 2 + 0
  <2>1. x.left \in Nat
    BY <1>6 DEF Frames
  <2> QED BY <1>9, <1>14, <2>1
<1>16. Compilation(t, r, q, o)
  BY <1>2, <1>4, <1>7, <1>9, <1>12, <1>13, <1>15 DEF Compilation
<1> QED BY <1>6, <1>7, <1>9, <1>14, <1>16 DEF t, o

LEMMA EndElseKeeps ==
  ASSUME rt \in Runtimes, Compilation(store, rt, page, frames), EndElseBlock
  PROVE  Compilation(store', rt, page', frames')
<1>1. PICK e \in EmitOp(store, page, 1) : store' = ReleaseCodePage(e.store, rt, e.page)
  BY DEF EndElseBlock
<1>2. /\ frames # <<>> /\ ~AtTable(frames)
      /\ page' = frames[Len(frames)].page /\ frames' = SubSeq(frames, 1, Len(frames) - 1)
  BY DEF EndElseBlock, InElse, AtTable, Top, Outer
<1>3. 1 \in 0..4 /\ 7 - 1 \in Nat /\ 7 - 1 >= 2
  OBVIOUS
<1>4. Ready(store, page, e, 7 - 1)
  BY <1>1, <1>3, Active, EmittingOp DEF Compilation
<1>5. Compilation(e.store, rt, e.page, frames)
  BY <1>2, <1>3, <1>4, EmissionKeeps
<1> QED BY <1>1, <1>2, <1>5, TakingUp

\* A branch table whose entries fit on the page.
LEMMA TablePushed ==
  ASSUME NEW r \in Runtimes, NEW s, NEW p, NEW fr, Compilation(s, r, p, fr),
         \A i \in 1..Len(fr) : fr[i].kind # "table", ~AtTable(fr),
         NEW x \in Frames, x.kind = "table", x.page = NoPage, x.left >= 1,
         NumFreeLines(s, p) >= 2 + x.left
  PROVE  Compilation(s, r, p, Append(fr, x))
<1> DEFINE g == Append(fr, x)
<1>1. /\ Sound(s) /\ p \in Pages /\ OffList(s, p) /\ Shape(fr) /\ Saved(s, p, fr)
      /\ s.numActiveCodePages[r] >= Len(fr) + 1
  BY DEF Compilation
<1>2. NewFrame(x)
  BY DEF NewFrame
<1>3. Shape(g) /\ Len(fr) \in Nat /\ Len(g) = Len(fr) + 1 /\ g # <<>> /\ g[Len(g)] = x
  BY <1>1, <1>2, Pushed
<1>4. Saved(s, p, g)
  BY <1>1, <1>2, SavedPushed
<1> HIDE DEF g
<1>5. AtTable(g) /\ Owed(g) = x.left
  BY <1>3 DEF AtTable, Owed
<1>6. Compilation(s, r, p, g)
  BY <1>1, <1>3, <1>4, <1>5 DEF Compilation
<1> QED BY <1>6 DEF g

LEMMA BranchTableKeeps ==
  ASSUME TablesFit, rt \in Runtimes, Compilation(store, rt, page, frames),
         NEW n \in Targets, Compile_BranchTable(n)
  PROVE  Compilation(store', rt, page', frames')
<1>1. PICK e \in EnsureCodePageNumLines(store, page, TableLines(n)) :
       \/ \E f \in EmitOp(e.store, e.page, 2) :
            /\ store' = f.store /\ page' = f.page
            /\ frames' = Append(frames, [kind |-> "table", page |-> NoPage, left |-> n + 1])
       \/ store' = e.store /\ page' = e.page /\ frames' = frames
  BY TableFits DEF Compile_BranchTable
<1>2. ~AtTarget /\ ~InTarget
  BY DEF Compile_BranchTable
<1>3. ~AtTable(frames) /\ \A i \in 1..Len(frames) : frames[i].kind # "table"
  <2>1. Shape(frames)
    BY DEF Compilation
  <2> QED BY <1>2, <2>1, AllElse DEF AtTarget, AtTable, Top
<1>4. n \in Nat /\ TableLines(n) = n + 4 /\ n + 4 \in Nat /\ (n + 4) + 2 \in Nat /\ (n + 4) + 2 >= 2
       /\ (n + 4) + 2 < U32
  BY TableFits
<1>5. Ready(store, page, e, (n + 4) + 2)
  BY <1>1, <1>4, Active, Ensuring DEF Compilation
<1>6. Compilation(e.store, rt, e.page, frames)
  BY <1>3, <1>4, <1>5, EmissionKeeps
<1>7. CASE store' = e.store /\ page' = e.page /\ frames' = frames
  BY <1>6, <1>7
<1>8. CASE \E f \in EmitOp(e.store, e.page, 2) :
            /\ store' = f.store /\ page' = f.page
            /\ frames' = Append(frames, [kind |-> "table", page |-> NoPage, left |-> n + 1])
  <2> DEFINE x == [kind |-> "table", page |-> NoPage, left |-> n + 1]
             t == e.store
             q == e.page
  <2>1. PICK f \in EmitOp(t, q, 2) : store' = f.store /\ page' = f.page /\ frames' = Append(frames, x)
    BY <1>8
  <2>2. 2 \in 0..4 /\ 7 - 2 = 5 /\ 5 \in Nat /\ 5 >= 2 /\ 1 + 2 = 3
    OBVIOUS
  <2>3. /\ Sound(t) /\ q \in Pages /\ OffList(t, q) /\ NumFreeLines(t, q) >= 2
        /\ t.numActiveCodePages[rt] >= 1 /\ NumFreeLines(t, q) \in Int
        /\ NumFreeLines(t, q) >= (n + 4) + 2
    BY <1>5, <1>6, Active DEF Compilation, Ready
  <2>4. /\ Ready(t, q, f, 5)
        /\ NumFreeLines(t, q) >= 8 => NumFreeLines(f.store, f.page) = NumFreeLines(t, q) - 3
    BY <2>1, <2>2, <2>3, EmittingOp
  <2>5. Compilation(f.store, rt, f.page, frames)
    BY <1>3, <1>6, <2>2, <2>4, EmissionKeeps
  <2> HIDE DEF t, q
  <2>6. NumFreeLines(f.store, f.page) >= 5 /\ NumFreeLines(f.store, f.page) \in Int
    BY <2>4, <2>5, Active DEF Ready
  <2>7. x \in Frames /\ x.kind = "table" /\ x.page = NoPage /\ x.left = n + 1 /\ x.left >= 1
    BY <1>4 DEF Frames
  <2> HIDE DEF x
  <2>8. NumFreeLines(f.store, f.page) >= 2 + x.left
    <3>1. CASE NumFreeLines(t, q) >= 8
      BY <1>4, <2>3, <2>4, <2>7, <3>1
    <3>2. CASE ~(NumFreeLines(t, q) >= 8)
      BY <1>4, <2>3, <2>6, <2>7, <3>2
    <3> QED BY <3>1, <3>2
  <2>9. Compilation(f.store, rt, f.page, Append(frames, x))
    BY <1>3, <2>5, <2>7, <2>8, TablePushed
  <2> QED BY <2>1, <2>9
<1> QED BY <1>1, <1>7, <1>8

LEMMA BeginTargetKeeps ==
  ASSUME rt \in Runtimes, Compilation(store, rt, page, frames), BeginTarget
  PROVE  Compilation(store', rt, page', frames')
<1> DEFINE top == frames[Len(frames)]
           x == [top EXCEPT !.page = page]
           o == SubSeq(frames, 1, Len(frames) - 1)
<1>1. PICK q \in Acquirable(store, rt, d_m3CodePageFreeLinesThreshold) :
        /\ page' = q
        /\ store' = AcquireCodePageWithCapacity(store, rt, d_m3CodePageFreeLinesThreshold, q)
  BY DEF BeginTarget
<1>2. AtTable(frames) /\ frames # <<>> /\ frames' = [frames EXCEPT ![Len(frames)] = x]
  BY DEF BeginTarget, AtTarget, AtTable, Top
<1>3. /\ Sound(store) /\ page \in Pages /\ OffList(store, page) /\ Shape(frames)
      /\ Saved(store, page, frames) /\ NumFreeLines(store, page) >= 2 + top.left
      /\ store.numActiveCodePages[rt] >= Len(frames)
  BY <1>2, Active DEF Compilation, Owed
<1>4. /\ Shape(o) /\ Len(o) = Len(frames) - 1 /\ Len(frames) \in Nat \ {0} /\ Len(o) \in Nat
      /\ \A i \in 1..Len(o) : i \in 1..Len(frames) /\ i # Len(frames) /\ o[i] = frames[i]
  BY <1>2, <1>3, Popped
<1>5. Saved(store, page, o)
  BY <1>2, <1>3, SavedPopped
<1> HIDE DEF o
<1>6. \A i \in 1..Len(o) : o[i].kind # "table"
  BY <1>3, <1>4 DEF Shape
<1>7. top \in Frames /\ top.kind = "table" /\ top.left >= 1
  <2>1. Len(frames) \in 1..Len(frames)
    BY <1>4
  <2>2. top \in Frames
    BY <1>3, <2>1, ElementOfSeq DEF Shape
  <2>3. top.kind = "table"
    BY <1>2 DEF AtTable
  <2> QED BY <1>3, <2>1, <2>2, <2>3 DEF Shape
<1> HIDE DEF top
<1>8. x \in Frames /\ x.kind = "table" /\ x.page = page /\ x.left = top.left
  BY <1>3, <1>7 DEF Frames
<1> HIDE DEF x
<1>9. frames' = Append(o, x)
  BY <1>2, <1>3, <1>8, Replaced DEF o
<1>10. NewFrame(x)
  BY <1>7, <1>8 DEF NewFrame
<1>11. store.numActiveCodePages[rt] >= Len(o) + 1 /\ NumFreeLines(store, page) >= 2 + x.left
  BY <1>3, <1>4, <1>8
<1> QED BY <1>1, <1>3, <1>4, <1>5, <1>6, <1>8, <1>9, <1>10, <1>11, KeepingPage

LEMMA EndTargetKeeps ==
  ASSUME rt \in Runtimes, Compilation(store, rt, page, frames), EndTarget
  PROVE  Compilation(store', rt, page', frames')
<1> DEFINE top == frames[Len(frames)]
           q == top.page
           o == SubSeq(frames, 1, Len(frames) - 1)
           t == ReleaseCodePage(store, rt, page)
           u == EmitWords(t, q, 1)
           e == [store |-> u, page |-> q]
           y == [top EXCEPT !.page = NoPage, !.left = @ - 1]
<1>1. frames # <<>> /\ ~AtTable(frames) /\ top.kind = "table"
  BY DEF EndTarget, InTarget, AtTable, Top
<1>2. /\ store' = u /\ page' = q
      /\ frames' = IF top.left = 1 THEN o ELSE Append(o, y)
  BY DEF EndTarget, Top, Outer
<1>3. /\ top \in Frames /\ q \in Pages /\ Compilation(t, rt, q, o)
      /\ NumFreeLines(t, q) \in Int /\ NumFreeLines(t, q) >= 2 + top.left
  BY <1>1, TakingUp
<1>4. Shape(frames)
  BY DEF Compilation
<1>5. /\ Len(frames) \in Nat \ {0} /\ ~AtTable(o)
      /\ \A i \in 1..Len(o) : i \in 1..Len(frames) /\ i # Len(frames) /\ o[i] = frames[i]
  BY <1>1, <1>4, Popped
<1> HIDE DEF o, t
<1>6. \A i \in 1..Len(o) : o[i].kind # "table"
  BY <1>4, <1>5 DEF Shape
<1>7. top.left \in Nat /\ top.left >= 1
  <2>1. Len(frames) \in 1..Len(frames)
    BY <1>5
  <2> QED BY <1>1, <1>3, <1>4, <2>1 DEF Shape, Frames
<1>8. /\ Sound(u) /\ OffList(u, q)
      /\ NumFreeLines(u, q) = NumFreeLines(t, q) - 1
      /\ u.numActiveCodePages = t.numActiveCodePages
      /\ \A a \in Pages : OffList(t, a) /\ a # q => Kept(t, u, a)
  <2>1. 1 \in Nat /\ NumFreeLines(t, q) >= 1 /\ Sound(t) /\ OffList(t, q)
    BY <1>3, <1>7 DEF Compilation
  <2> QED BY <1>3, <2>1, Emitting
<1> HIDE DEF u, q
<1>9. NumFreeLines(u, q) \in Int /\ NumFreeLines(u, q) >= 1 + top.left /\ NumFreeLines(u, q) >= 2
  BY SMTT(40), <1>3, <1>7, <1>8
<1>10. Compilation(u, rt, q, o)
  <2>1. e.store = u /\ e.page = q
    OBVIOUS
  <2>2. Ready(t, q, e, 2)
    BY <1>3, <1>8, <1>9, <2>1 DEF Ready
  <2>3. 2 \in Nat /\ 2 >= 2
    OBVIOUS
  <2>4. Compilation(e.store, rt, e.page, o)
    BY <1>3, <1>5, <2>2, <2>3, EmissionKeeps
  <2> QED BY <2>1, <2>4
<1>11. CASE top.left = 1
  BY <1>2, <1>10, <1>11
<1>12. CASE top.left # 1
  <2> HIDE DEF top
  <2>1. top.left - 1 \in Nat /\ top.left - 1 >= 1
    BY <1>7, <1>12
  <2>2. y \in Frames /\ y.kind = "table" /\ y.page = NoPage /\ y.left = top.left - 1
    BY <1>1, <1>3, <2>1 DEF Frames
  <2> HIDE DEF y
  <2>3. frames' = Append(o, y)
    BY <1>2, <1>12
  <2>4. NumFreeLines(u, q) >= 2 + y.left /\ y.left >= 1
    BY <1>7, <1>9, <2>1, <2>2
  <2>5. Compilation(u, rt, q, Append(o, y))
    BY <1>5, <1>6, <1>10, <2>2, <2>4, TablePushed
  <2> QED BY <1>2, <2>3, <2>5
<1> QED BY <1>11, <1>12

LEMMA UnwindKeeps ==
  ASSUME rt \in Runtimes, Compilation(store, rt, page, frames), Unwind
  PROVE  Compilation(store', rt, page', frames')
<1> DEFINE o == SubSeq(frames, 1, Len(frames) - 1)
<1>1. frames # <<>> /\ frames' = o
  BY DEF Unwind, Outer
<1>2. CASE InElse
  <2>1. ~AtTable(frames)
    BY <1>2 DEF InElse, AtTable, Top
  <2>2. store' = ReleaseCodePage(store, rt, page) /\ page' = frames[Len(frames)].page
    BY <1>2 DEF Unwind, Caught, Top
  <2> QED BY <1>1, <2>1, <2>2, TakingUp
<1>3. CASE ~InElse
  <2>1. store' = store /\ page' = page
    BY <1>3 DEF Unwind
  <2>2. /\ Sound(store) /\ page \in Pages /\ OffList(store, page) /\ Shape(frames)
        /\ Saved(store, page, frames)
    BY DEF Compilation
  <2>3. /\ Shape(o) /\ Len(o) = Len(frames) - 1 /\ Len(frames) \in Nat \ {0}
        /\ ~AtTable(o) /\ Owed(o) = 0
    BY <1>1, <2>2, Popped
  <2>4. Saved(store, page, o)
    BY <1>1, <2>2, SavedPopped
  <2> HIDE DEF o
  <2>5. NumFreeLines(store, page) >= 2 + 0
    <3>1. NumFreeLines(store, page) >= 2
      BY Active
    <3> QED BY <3>1
  <2>6. store.numActiveCodePages[rt] >= Len(o) + 1
    <3>1. store.numActiveCodePages[rt] \in Nat
      BY Active
    <3>2. CASE AtTable(frames)
      BY <2>3, <3>1, <3>2 DEF Compilation
    <3>3. CASE ~AtTable(frames)
      BY <2>3, <3>1, <3>3 DEF Compilation
    <3> QED BY <3>2, <3>3
  <2>7. Compilation(store, rt, page, o)
    BY <2>2, <2>3, <2>4, <2>5, <2>6 DEF Compilation
  <2> QED BY <1>1, <2>1, <2>7
<1> QED BY <1>2, <1>3

LEMMA EndKeeps ==
  ASSUME rt \in Runtimes, Compilation(store, rt, page, frames), EndCompile
  PROVE  Sound(store') /\ rt' = NoRuntime /\ page' = NoPage /\ frames' = <<>>
<1> DEFINE t == ReleaseCodePage(store, rt, page)
<1>1. Sound(t)
  BY Active, Releasing DEF Compilation
<1>2. Sound(Runtime_Release(t, rt))
  BY <1>1, RuntimeReleasing
<1>3. store' = IF rt = "expr" THEN Runtime_Release(t, rt) ELSE t
  BY DEF EndCompile
<1>4. Sound(store')
  BY <1>1, <1>2, <1>3
<1> QED BY <1>4 DEF EndCompile

LEMMA EmptySound == Sound(EmptyStore)
<1>1. EmptyStore \in Stores
  BY DEF EmptyStore, Stores
<1>2. /\ \A r \in Runtimes : /\ EmptyStore.pagesOpen[r] = {} /\ EmptyStore.pagesFull[r] = {}
                             /\ EmptyStore.numCodePages[r] = 0 /\ EmptyStore.numActiveCodePages[r] = 0
      /\ EmptyStore.pagesReleased = {}
      /\ \A p \in Pages : EmptyStore.lineIndex[p] = 0 /\ EmptyStore.numLines[p] = 0
  BY DEF EmptyStore
<1>3. \A r \in Runtimes : Mine(EmptyStore, r) = {}
  BY <1>2 DEF Mine
<1>4. Apart(EmptyStore)
  BY <1>2, <1>3 DEF Apart, Runtimes
<1>5. Filled(EmptyStore)
  BY <1>2, <1>3 DEF Filled
<1>6. Counts(EmptyStore)
  <2>1. Cardinality({}) = 0
    BY FS_EmptySet
  <2>2. ASSUME NEW r \in Runtimes
        PROVE  Cardinality(EmptyStore.pagesOpen[r]) + Cardinality(EmptyStore.pagesFull[r])
                 + EmptyStore.numActiveCodePages[r] = EmptyStore.numCodePages[r]
    <3>1. Cardinality(EmptyStore.pagesOpen[r]) = 0 /\ Cardinality(EmptyStore.pagesFull[r]) = 0
      BY <1>2, <2>1
    <3> QED BY <1>2, <3>1
  <2> QED BY <2>2 DEF Counts
<1> QED BY <1>1, <1>4, <1>5, <1>6 DEF Sound

-----------------------------------------------------------------------------
(***************************************************************************)
(* The sandbox.                                                            *)
(***************************************************************************)
\* Which runtime compiles is known from the step of execute_wasm_in_sandbox.
Control ==
  /\ rt \in Runtimes \cup {NoRuntime}
  /\ rt = "expr" => pc = "load" /\ frames = <<>>
  /\ rt = "main" => pc \in {"find", "call"}

Fields ==
  /\ pc \in Steps /\ heap \subseteq {"environment", "runtime", "stack", "memory", "module"}
  /\ modules \subseteq {"module"} /\ start \in BOOLEAN
  /\ code \in {"value", "-1", "-2", "-3", "-4", "-5"}
  /\ thrown \in BOOLEAN /\ abandoned \in BOOLEAN

Writing ==
  /\ Sound(store)
  /\ rt = NoRuntime => page = NoPage /\ frames = <<>>
  /\ rt \in Runtimes => Compilation(store, rt, page, frames)

\* The inductive invariant.
IInv == Control /\ Fields /\ Writing

LEMMA InitIInv == Init => IInv
<1> SUFFICES ASSUME Init PROVE IInv
  OBVIOUS
<1>1. Control /\ Fields
  BY RuntimeAssumption DEF Init, Control, Fields, Steps, Runtimes
<1>2. Writing
  BY EmptySound, RuntimeAssumption DEF Init, Writing
<1> QED BY <1>1, <1>2 DEF IInv

LEMMA CompileKeepsWriting ==
  ASSUME TablesFit, IInv, CompileStep
  PROVE  rt \in Runtimes /\ rt' = rt /\ Compilation(store', rt, page', frames')
<1>1. rt \in Runtimes /\ rt' = rt
  BY DEF CompileStep, Compile_Operator, CompileElseBlock, EndElseBlock, BeginTarget, EndTarget,
         Compile_BranchTable, Throw, Unwind, Compiling, IInv, Control
<1>2. Compilation(store, rt, page, frames)
  BY <1>1 DEF IInv, Writing
<1>3. CASE Compile_Operator
  <2>1. frames' = frames
    BY <1>3 DEF Compile_Operator
  <2> QED BY <1>1, <1>2, <1>3, <2>1, OperatorKeeps
<1>4. CASE CompileElseBlock BY <1>1, <1>2, <1>4, ElseKeeps
<1>5. CASE EndElseBlock BY <1>1, <1>2, <1>5, EndElseKeeps
<1>6. CASE BeginTarget BY <1>1, <1>2, <1>6, BeginTargetKeeps
<1>7. CASE EndTarget BY <1>1, <1>2, <1>7, EndTargetKeeps
<1>8. ASSUME NEW n \in Targets, Compile_BranchTable(n) PROVE Compilation(store', rt, page', frames')
  BY <1>1, <1>2, <1>8, BranchTableKeeps
<1>9. CASE Throw BY <1>1, <1>2, <1>9 DEF Throw
<1>10. CASE Unwind BY <1>1, <1>2, <1>10, UnwindKeeps
<1> QED BY <1>1, <1>3, <1>4, <1>5, <1>6, <1>7, <1>8, <1>9, <1>10 DEF CompileStep

LEMMA NextIInv ==
  ASSUME TablesFit
  PROVE  IInv /\ [Next]_vars => IInv'
<1> SUFFICES ASSUME IInv, [Next]_vars PROVE IInv'
  OBVIOUS
<1> USE RuntimeAssumption
<1>0. Control /\ Fields /\ Writing /\ Sound(store)
  BY DEF IInv, Writing
\* A step between compilations that leaves the pages alone.
<1>1. ASSUME rt = NoRuntime, UNCHANGED comp, Sound(store') PROVE (Control /\ Writing)'
  BY <1>0, <1>1 DEF Control, Writing, Runtimes, comp
<1>2. CASE UNCHANGED vars
  BY <1>0, <1>2 DEF IInv, Control, Fields, Writing, Compilation, vars, pvars, comp, svars
<1>3. CASE m3_NewEnvironment
  <2>1. rt = NoRuntime /\ UNCHANGED <<rt, page, frames, thrown>> /\ store' = EmptyStore
    BY <1>0, <1>3 DEF m3_NewEnvironment, Control, Runtimes
  <2>2. (Control /\ Writing)'
    BY <1>0, <2>1, EmptySound DEF Control, Writing, Runtimes
  <2>3. Fields'
    BY <1>0, <1>3 DEF m3_NewEnvironment, Fields, Steps
  <2> QED BY <2>2, <2>3 DEF IInv
<1>4. CASE m3_NewRuntime
  <2>1. rt = NoRuntime /\ UNCHANGED comp /\ store' = store
    BY <1>0, <1>4 DEF m3_NewRuntime, Control, Runtimes, pvars
  <2>2. Fields'
    BY <1>0, <1>4 DEF m3_NewRuntime, Fields, Steps, pvars, comp
  <2> QED BY <1>0, <1>1, <2>1, <2>2 DEF IInv
<1>5. CASE m3_ParseModule
  <2>1. rt = NoRuntime /\ UNCHANGED comp /\ store' = store
    BY <1>0, <1>5 DEF m3_ParseModule, Control, Runtimes, pvars
  <2>2. Fields'
    BY <1>0, <1>5 DEF m3_ParseModule, Fields, Steps, pvars, comp
  <2> QED BY <1>0, <1>1, <2>1, <2>2 DEF IInv
<1>6. CASE InitMemory
  <2>1. rt = NoRuntime /\ UNCHANGED comp /\ store' = store
    BY <1>0, <1>6 DEF InitMemory, Control, Runtimes, pvars
  <2>2. Fields'
    BY <1>0, <1>6 DEF InitMemory, Failure, Fields, Steps, pvars, comp
  <2> QED BY <1>0, <1>1, <2>1, <2>2 DEF IInv
<1>7. CASE m3_LoadModule
  <2>1. rt = NoRuntime /\ UNCHANGED comp /\ store' = store
    BY <1>7 DEF m3_LoadModule, pvars
  <2>2. Fields'
    BY <1>0, <1>7 DEF m3_LoadModule, Failure, Fields, Steps, pvars, comp
  <2> QED BY <1>0, <1>1, <2>1, <2>2 DEF IInv
<1>8. CASE m3_FindFunction
  <2>1. rt = NoRuntime /\ UNCHANGED comp /\ store' = store
    BY <1>8 DEF m3_FindFunction, pvars
  <2>2. Fields'
    BY <1>0, <1>8 DEF m3_FindFunction, Failure, Fields, Steps, pvars, comp
  <2> QED BY <1>0, <1>1, <2>1, <2>2 DEF IInv
<1>9. CASE m3_RunStart
  <2>1. rt = NoRuntime /\ UNCHANGED comp /\ store' = store
    BY <1>9 DEF m3_RunStart, pvars
  <2>2. Fields'
    BY <1>0, <1>9 DEF m3_RunStart, Failure, Fields, Steps, pvars, comp
  <2> QED BY <1>0, <1>1, <2>1, <2>2 DEF IInv
<1>10. CASE m3_Call
  <2>1. rt = NoRuntime /\ UNCHANGED comp /\ store' = store
    BY <1>10 DEF m3_Call, pvars
  <2>2. Fields'
    BY <1>0, <1>10 DEF m3_Call, Failure, Fields, Steps, pvars, comp
  <2> QED BY <1>0, <1>1, <2>1, <2>2 DEF IInv
<1>11. CASE m3_FreeRuntime
  <2>1. rt = NoRuntime /\ UNCHANGED comp /\ store' = Runtime_Release(store, "main")
    BY <1>0, <1>11 DEF m3_FreeRuntime, Control, Runtimes
  <2>2. Sound(store')
    BY <1>0, <2>1, RuntimeReleasing DEF Runtimes
  <2>3. Fields'
    BY <1>0, <1>11 DEF m3_FreeRuntime, Fields, Steps, comp
  <2> QED BY <1>1, <2>1, <2>2, <2>3 DEF IInv
<1>12. CASE m3_FreeEnvironment
  <2>1. rt = NoRuntime /\ UNCHANGED comp /\ store' = Environment_Release(store)
    BY <1>0, <1>12 DEF m3_FreeEnvironment, Control, Runtimes
  <2>2. Sound(store')
    BY <1>0, <2>1, EnvironmentReleasing
  <2>3. Fields'
    BY <1>0, <1>12 DEF m3_FreeEnvironment, Fields, Steps, comp
  <2> QED BY <1>1, <2>1, <2>2, <2>3 DEF IInv
<1>13. ASSUME NEW r \in Runtimes, BeginCompile(r), UNCHANGED svars,
              r = "expr" => pc = "load", r = "main" => pc \in {"find", "call"}
       PROVE  IInv'
  <2>1. rt' = r /\ frames' = <<>> /\ Compilation(store', r, page', <<>>) /\ Sound(store')
    BY <1>0, <1>13, BeginKeeps DEF Compilation
  <2>2. Fields'
    BY <1>0, <1>13 DEF BeginCompile, Fields, svars
  <2>3. Control'
    BY <1>13, <2>1 DEF Control, svars
  <2>4. Writing'
    BY <2>1 DEF Writing
  <2> QED BY <2>2, <2>3, <2>4 DEF IInv
<1>14. CASE EvaluateExpression
  <2>1. "expr" \in Runtimes /\ pc = "load"
    BY <1>14 DEF EvaluateExpression, Runtimes
  <2> QED BY <1>13, <1>14, <2>1 DEF EvaluateExpression
<1>15. CASE CompileFunction
  <2>1. "main" \in Runtimes /\ pc \in {"find", "call"}
    BY <1>15 DEF CompileFunction, Runtimes
  <2> QED BY <1>13, <1>15, <2>1 DEF CompileFunction
<1>16. CASE Compile
  <2>0. CompileStep /\ UNCHANGED svars
    BY <1>16 DEF Compile
  <2>1. rt \in Runtimes /\ rt' = rt /\ Compilation(store', rt, page', frames')
    BY <2>0, CompileKeepsWriting
  <2>2. Writing'
    BY <2>1 DEF Writing, Compilation
  <2>3. rt = "expr" => frames' = frames
    BY <1>0, <2>0 DEF CompileStep, Compile_Operator, CompileElseBlock, EndElseBlock, BeginTarget,
       EndTarget, Compile_BranchTable, Throw, Unwind, Control, InElse, AtTarget, InTarget
  <2>4. Control'
    BY <1>0, <2>0, <2>1, <2>3 DEF Control, svars
  <2>5. thrown' \in BOOLEAN /\ abandoned' \in BOOLEAN
    BY <1>0, <2>0 DEF CompileStep, Compile_Operator, CompileElseBlock, EndElseBlock, BeginTarget,
       EndTarget, Compile_BranchTable, Throw, Unwind, Fields
  <2>6. Fields'
    BY <1>0, <2>0, <2>5 DEF Fields, svars
  <2> QED BY <2>2, <2>4, <2>6 DEF IInv
<1>17. CASE Compiled
  <2>1. rt \in Runtimes /\ Compilation(store, rt, page, frames)
    BY <1>0, <1>17 DEF Compiled, EndCompile, Control, Writing
  <2>2. Sound(store') /\ rt' = NoRuntime /\ page' = NoPage /\ frames' = <<>>
    BY <1>17, <2>1, EndKeeps DEF Compiled
  <2>3. Writing' /\ Control'
    BY <2>2 DEF Writing, Control, Runtimes
  <2>4. pc \in {"load", "find", "call"}
    BY <1>0, <2>1 DEF Control, Runtimes
  <2>5. Failure[pc] \in {"-3", "-4", "-5"}
    BY <2>4 DEF Failure
  <2>6. Fields'
    BY <1>0, <1>17, <2>5 DEF Compiled, EndCompile, Fields, Steps
  <2> QED BY <2>3, <2>6 DEF IInv
<1> QED BY <1>2, <1>3, <1>4, <1>5, <1>6, <1>7, <1>8, <1>9, <1>10, <1>11, <1>12, <1>14, <1>15,
           <1>16, <1>17 DEF Next

\* The inductive invariant holds in every state of the sandbox.
THEOREM Invariance ==
  ASSUME TablesFit
  PROVE  Spec => []IInv
BY InitIInv, NextIInv, PTL DEF Spec

-----------------------------------------------------------------------------
(***************************************************************************)
(* What the invariant says.                                                *)
(***************************************************************************)
\* A state of the invariant in one form, compiling or not.
LEMMA Reading ==
  ASSUME IInv
  PROVE  /\ Sound(store) /\ Shape(frames) /\ Saved(store, page, frames)
         /\ page # NoPage => page \in Pages /\ OffList(store, page)
         /\ page \in Pages \cup {NoPage}
<1>1. rt = NoRuntime \/ rt \in Runtimes
  BY DEF IInv, Control
<1>2. CASE rt = NoRuntime
  <2>1. page = NoPage /\ frames = <<>> /\ Sound(store)
    BY <1>2 DEF IInv, Writing
  <2>2. Shape(<<>>) /\ Saved(store, page, <<>>)
    BY DEF Shape, Saved
  <2> QED BY <2>1, <2>2
<1>3. CASE rt \in Runtimes
  BY <1>3 DEF IInv, Writing, Compilation
<1> QED BY <1>1, <1>2, <1>3

\* Every variable of the sandbox and of its code pages keeps its type: no count
\* of pages falls below zero, whatever fails.
THEOREM Typing ==
  ASSUME TablesFit
  PROVE  Spec => []TypeOK
<1>1. IInv => TypeOK
  <2> SUFFICES ASSUME IInv PROVE TypeOK
    OBVIOUS
  <2>1. store \in Stores /\ frames \in Seq(Frames) /\ page \in Pages \cup {NoPage}
    BY Reading DEF Sound, Shape
  <2>2. PagesTypeOK
    BY <2>1 DEF PagesTypeOK, Stores, IInv, Control, Fields
  <2> QED BY <2>2 DEF TypeOK, IInv, Fields
<1> QED BY <1>1, Invariance, PTL

\* ReleaseCodePage's assertion holds: the pages of a runtime are open, full or
\* active, and none is counted twice or dropped from the count.
THEOREM PagesAreCounted ==
  ASSUME TablesFit
  PROVE  Spec => []PagesCounted
<1>1. IInv => PagesCounted
  BY Reading DEF Sound, Counts, PagesCounted
<1> QED BY <1>1, Invariance, PTL

\* No page is on two lists, held twice, or held and on a list: the acquisitions
\* and releases of m3_env.c never let two pieces of code share a page.
THEOREM PagesAreApart ==
  ASSUME TablesFit
  PROVE  Spec => []PagesApart
<1>1. IInv => PagesApart
  <2> SUFFICES ASSUME IInv PROVE PagesApart
    OBVIOUS
  <2>1. /\ Sound(store) /\ Shape(frames) /\ Saved(store, page, frames)
        /\ page # NoPage => page \in Pages /\ OffList(store, page)
    BY Reading
  <2>2. Apart(store) /\ Filled(store)
    BY <2>1 DEF Sound
  <2>3. DOMAIN frames = 1..Len(frames)
    BY <2>1 DEF Shape
  <2>4. \A p \in Held : OffList(store, p)
    BY <2>1, <2>3 DEF Held, Saved
  <2>5. Held \cap Listed(store) = {} /\ Held \subseteq Allocated(store)
    BY <2>4 DEF OffList, Listed, Mine
  <2>6. Listed(store) \subseteq Allocated(store)
    BY <2>2 DEF Listed, Filled, Mine
  <2>7. \A r \in Runtimes :
          /\ store.pagesOpen[r] \cap store.pagesFull[r] = {}
          /\ (store.pagesOpen[r] \cup store.pagesFull[r]) \cap store.pagesReleased = {}
          /\ \A q \in Runtimes \ {r} :
               (store.pagesOpen[r] \cup store.pagesFull[r]) \cap (store.pagesOpen[q] \cup store.pagesFull[q]) = {}
    BY <2>2 DEF Apart, Mine, Runtimes
  <2>8. \A i \in DOMAIN frames : frames[i].page # NoPage =>
          /\ frames[i].page # page
          /\ \A j \in DOMAIN frames \ {i} : frames[i].page # frames[j].page
    BY <2>1, <2>3 DEF Saved
  <2> QED BY <2>5, <2>6, <2>7, <2>8 DEF PagesApart
<1> QED BY <1>1, Invariance, PTL

\* If no branch table has so many targets that its room wraps around in a u32, the
\* emitter never writes past the end of a page and always keeps room for the bridge
\* and for the table entries it still owes.  (Nothing in Compile_BranchTable checks
\* the number of targets, and with 2^32 - 6 .. 2^32 - 2 of them this is false.)
THEOREM RoomIsThere ==
  ASSUME TablesFit
  PROVE  Spec => []RoomForBridge
<1>1. IInv => RoomForBridge
  <2> SUFFICES ASSUME IInv PROVE RoomForBridge
    OBVIOUS
  <2>1. Sound(store) /\ Shape(frames) /\ Saved(store, page, frames)
    BY Reading
  <2>2. \A p \in Pages : store.lineIndex[p] <= store.numLines[p]
    BY <2>1 DEF Sound, Filled
  <2>3. DOMAIN frames = 1..Len(frames)
    BY <2>1 DEF Shape
  <2>4. \A i \in DOMAIN frames : frames[i].page # NoPage =>
          NumFreeLines(store, frames[i].page) >= 2 + frames[i].left
    BY <2>1, <2>3 DEF Saved
  <2>5. rt # NoRuntime => NumFreeLines(store, page) >= 2 + (IF AtTarget THEN Top.left ELSE 0)
    BY DEF IInv, Control, Writing, Compilation, Owed, AtTable, AtTarget, Top
  <2> QED BY <2>2, <2>4, <2>5 DEF RoomForBridge
<1> QED BY <1>1, Invariance, PTL

-----------------------------------------------------------------------------
(***************************************************************************)
(* What is lost and what is left behind.  The active pages of the runtimes *)
(* are those that are on no list, so each of them is held or lost.         *)
(***************************************************************************)
Off(s) == {p \in Pages : OffList(s, p)}

Tallied(s) ==
  s.numActiveCodePages["main"] + s.numActiveCodePages["expr"] = Cardinality(Off(s))

\* From one store to another, by a step of runtime r: which pages leave the
\* lists and which come to one, and that nobody else's lists and counts change.
Moved(s, t, r, come, leave) ==
  /\ Off(t) = (Off(s) \ come) \cup leave
  /\ \A q \in Runtimes \ {r} :
       Mine(t, q) = Mine(s, q) /\ t.numActiveCodePages[q] = s.numActiveCodePages[q]
  /\ Tallied(s) => Tallied(t)

\* One page more or less, off the lists and active.
LEMMA TallyKept ==
  ASSUME NEW s \in Stores, NEW t \in Stores, NEW r \in Runtimes, NEW p \in Pages, Tallied(s),
         \A q \in Runtimes \ {r} : t.numActiveCodePages[q] = s.numActiveCodePages[q],
         \/ /\ t.numActiveCodePages[r] = s.numActiveCodePages[r]
            /\ Off(t) = Off(s)
         \/ /\ t.numActiveCodePages[r] = s.numActiveCodePages[r] + 1
            /\ p \notin Off(s) /\ Off(t) = Off(s) \cup {p}
         \/ /\ t.numActiveCodePages[r] = s.numActiveCodePages[r] - 1
            /\ p \in Off(s) /\ Off(t) = Off(s) \ {p}
  PROVE  Tallied(t)
<1>1. /\ s.numActiveCodePages["main"] \in Nat /\ s.numActiveCodePages["expr"] \in Nat
      /\ t.numActiveCodePages["main"] \in Nat /\ t.numActiveCodePages["expr"] \in Nat
  BY DEF Stores, Runtimes
<1>2. /\ Cardinality(Off(s)) \in Nat
      /\ p \in Off(s) => Cardinality(Off(s) \ {p}) = Cardinality(Off(s)) - 1
      /\ p \notin Off(s) => Cardinality(Off(s) \cup {p}) = Cardinality(Off(s)) + 1
  <2>1. Off(s) \in SUBSET Pages
    BY DEF Off
  <2> QED BY <2>1, Counting
<1>3. \/ r = "main" /\ t.numActiveCodePages["expr"] = s.numActiveCodePages["expr"]
      \/ r = "expr" /\ t.numActiveCodePages["main"] = s.numActiveCodePages["main"]
  BY DEF Runtimes
<1>4. PICK n \in Nat : n = Cardinality(Off(s))
  BY <1>2
<1>5. s.numActiveCodePages["main"] + s.numActiveCodePages["expr"] = n
  BY <1>4 DEF Tallied
<1>6. \/ t.numActiveCodePages[r] = s.numActiveCodePages[r] /\ Cardinality(Off(t)) = n
      \/ t.numActiveCodePages[r] = s.numActiveCodePages[r] + 1 /\ Cardinality(Off(t)) = n + 1
      \/ t.numActiveCodePages[r] = s.numActiveCodePages[r] - 1 /\ Cardinality(Off(t)) = n - 1
  BY <1>2, <1>4
<1>7. t.numActiveCodePages["main"] + t.numActiveCodePages["expr"] = Cardinality(Off(t))
  <2>1. CASE r = "main"
    BY <1>1, <1>3, <1>5, <1>6, <2>1
  <2>2. CASE r = "expr"
    BY <1>1, <1>3, <1>5, <1>6, <2>2
  <2> QED BY <2>1, <2>2 DEF Runtimes
<1> QED BY <1>7 DEF Tallied

LEMMA AcquiringMoves ==
  ASSUME NEW s, Sound(s), NEW r \in Runtimes, NEW n \in Nat \ {0}, NEW p \in Acquirable(s, r, n)
  PROVE  Moved(s, AcquireCodePageWithCapacity(s, r, n, p), r, {}, {p})
<1> DEFINE u == IF p \in Allocated(s) THEN s ELSE NewCodePage(s, p, n)
           v == Counted(u, r, p)
           w == Removed(v, r, p)
           t == AcquireCodePageWithCapacity(s, r, n, p)
<1>0. s \in Stores /\ p \in Pages
  BY DEF Sound, Stores, Acquirable, OfCapacity
<1>1. s \in Stores /\ Sound(t) /\ p \in Pages /\ OffList(t, p)
      /\ t.numActiveCodePages = [s.numActiveCodePages EXCEPT ![r] = @ + 1]
      /\ \A q \in Pages : OffList(s, q) => q # p /\ Kept(s, t, q)
  BY SMTT(40), <1>0, Acquiring
<1>2. u \in Stores /\ u.pagesOpen = s.pagesOpen /\ u.pagesFull = s.pagesFull
      /\ u.pagesReleased = s.pagesReleased
      /\ \A q \in Pages \ {p} : u.numLines[q] = s.numLines[q]
  <2>1. CASE p \in Allocated(s)
    BY <1>1, <2>1
  <2>2. CASE p \notin Allocated(s)
    <3> DEFINE x == NewCodePage(s, p, n)
    <3>1. /\ x \in Stores /\ x.numLines = [s.numLines EXCEPT ![p] = Larger(NumLines, n)]
          /\ x.pagesOpen = s.pagesOpen /\ x.pagesFull = s.pagesFull
          /\ x.pagesReleased = s.pagesReleased
      BY ZenonT(60), <1>0, NewFields
    <3>2. u = x
      BY <2>2
    <3> HIDE DEF x, u
    <3> QED BY <1>1, <3>1, <3>2 DEF Stores
  <2> QED BY <2>1, <2>2
<1> HIDE DEF u, v, w, t
<1>3. /\ v \in Stores /\ v.numLines = u.numLines
      /\ v.pagesOpen = u.pagesOpen /\ v.pagesFull = u.pagesFull
      /\ v.pagesReleased = u.pagesReleased
  <2>1. v = Counted(u, r, p)
    BY DEF v
  <2>2. v \in Stores
    BY <1>0, <1>2, <2>1, CountedFields
  <2>3. /\ v.numLines = u.numLines /\ v.lineIndex = u.lineIndex
        /\ v.pagesOpen = u.pagesOpen /\ v.pagesFull = u.pagesFull
        /\ v.pagesReleased = u.pagesReleased
        /\ v.numCodePages = IF p \in u.pagesOpen[r] THEN u.numCodePages
                            ELSE [u.numCodePages EXCEPT ![r] = @ + 1]
        /\ v.numActiveCodePages = u.numActiveCodePages
    BY SMTT(40), <1>0, <1>2, <2>1, CountedFields
  <2> QED BY <2>2, <2>3
<1>4. /\ w \in Stores /\ w.numLines = v.numLines
      /\ w.pagesOpen = [v.pagesOpen EXCEPT ![r] = @ \ {p}] /\ w.pagesFull = v.pagesFull
      /\ w.pagesReleased = v.pagesReleased \ {p}
  BY SMTT(40), <1>0, <1>3, RemovedFields DEF w
<1>5. t = Activated(w, r)
  BY DEF AcquireCodePageWithCapacity, u, v, w, t
<1>6. /\ t.numLines = w.numLines /\ t.pagesOpen = w.pagesOpen /\ t.pagesFull = w.pagesFull
      /\ t.pagesReleased = w.pagesReleased
  BY ZenonT(60), <1>4, <1>5, ActivatedFields
<1>7. /\ t.pagesOpen = [s.pagesOpen EXCEPT ![r] = @ \ {p}] /\ t.pagesFull = s.pagesFull
      /\ t.pagesReleased = s.pagesReleased \ {p}
      /\ \A q \in Pages \ {p} : t.numLines[q] = s.numLines[q]
  BY <1>2, <1>3, <1>4, <1>6
<1>8. ASSUME NEW q \in Pages, q # p, OffList(t, q) PROVE OffList(s, q)
  <2>1. q \in Allocated(s) /\ q \notin s.pagesReleased
    BY <1>7, <1>8 DEF OffList, Allocated
  <2>2. \A o \in Runtimes : q \notin Mine(s, o)
    BY <1>1, <1>7, <1>8 DEF OffList, Mine, Stores
  <2> QED BY <2>1, <2>2 DEF OffList
<1>9. Off(t) = Off(s) \cup {p} /\ p \notin Off(s)
  BY <1>1, <1>8 DEF Off, Kept
<1>10. \A q \in Runtimes \ {r} :
         Mine(t, q) = Mine(s, q) /\ t.numActiveCodePages[q] = s.numActiveCodePages[q]
  BY <1>1, <1>7 DEF Mine, Stores
<1>11. t.numActiveCodePages[r] = s.numActiveCodePages[r] + 1
  BY <1>1 DEF Stores
<1>12. Tallied(s) => Tallied(t)
  BY <1>1, <1>9, <1>10, <1>11, TallyKept DEF Sound
<1> QED BY <1>9, <1>10, <1>12 DEF Moved, t

LEMMA EmittingMoves ==
  ASSUME NEW s, Sound(s), NEW p \in Pages, NEW k \in Nat, NEW r \in Runtimes
  PROVE  Moved(s, EmitWords(s, p, k), r, {}, {})
<1> DEFINE t == EmitWords(s, p, k)
<1>1. s \in Stores /\ t \in Stores /\ t.numLines = s.numLines
      /\ t.pagesOpen = s.pagesOpen /\ t.pagesFull = s.pagesFull
      /\ t.pagesReleased = s.pagesReleased
      /\ t.numActiveCodePages = s.numActiveCodePages
  BY ZenonT(60), EmitFields DEF Sound
<1> HIDE DEF t
<1>2. Allocated(t) = Allocated(s) /\ \A q \in Runtimes : Mine(t, q) = Mine(s, q)
  BY <1>1 DEF Allocated, Mine
<1>3. Off(t) = Off(s)
  BY <1>1, <1>2 DEF Off, OffList
<1>4. Tallied(s) => Tallied(t)
  BY <1>1, <1>3 DEF Tallied
<1> QED BY <1>1, <1>2, <1>3, <1>4 DEF Moved, t

LEMMA ReleasingMoves ==
  ASSUME NEW s, Sound(s), NEW r \in Runtimes, NEW p \in Pages, OffList(s, p),
         s.numActiveCodePages[r] >= 1
  PROVE  Moved(s, ReleaseCodePage(s, r, p), r, {p}, {})
<1> DEFINE t == ReleaseCodePage(s, r, p)
<1>1. s \in Stores /\ t \in Stores /\ t.numLines = s.numLines
      /\ \/ /\ t.pagesFull = [s.pagesFull EXCEPT ![r] = @ \cup {p}]
            /\ t.pagesOpen = s.pagesOpen
         \/ /\ t.pagesOpen = [s.pagesOpen EXCEPT ![r] = @ \cup {p}]
            /\ t.pagesFull = s.pagesFull
      /\ t.pagesReleased = s.pagesReleased
      /\ t.numActiveCodePages = [s.numActiveCodePages EXCEPT ![r] = @ - 1]
  BY ReleaseFields DEF Sound
<1> HIDE DEF t
<1>2. Allocated(t) = Allocated(s)
  BY <1>1 DEF Allocated
<1>3. Mine(t, r) = Mine(s, r) \cup {p} /\ \A q \in Runtimes \ {r} : Mine(t, q) = Mine(s, q)
  BY <1>1 DEF Mine, Stores
<1>4. \A q \in Pages : OffList(t, q) <=> OffList(s, q) /\ q # p
  BY <1>1, <1>2, <1>3 DEF OffList
<1>5. Off(t) = Off(s) \ {p} /\ p \in Off(s)
  BY <1>4 DEF Off
<1>6. \A q \in Runtimes \ {r} : t.numActiveCodePages[q] = s.numActiveCodePages[q]
  BY <1>1 DEF Stores
<1>7. t.numActiveCodePages[r] = s.numActiveCodePages[r] - 1
  BY <1>1 DEF Stores
<1>8. Tallied(s) => Tallied(t)
  BY <1>1, <1>5, <1>6, <1>7, TallyKept
<1> QED BY <1>3, <1>5, <1>6, <1>8 DEF Moved, t

LEMMA RuntimeMoves ==
  ASSUME NEW s, Sound(s), NEW r \in Runtimes
  PROVE  LET t == Runtime_Release(s, r) IN
         /\ Off(t) = Off(s) /\ Mine(t, r) = {} /\ t.numActiveCodePages[r] = 0
         /\ \A q \in Runtimes \ {r} :
              Mine(t, q) = Mine(s, q) /\ t.numActiveCodePages[q] = s.numActiveCodePages[q]
<1> DEFINE t == Runtime_Release(s, r)
<1>1. s \in Stores /\ t \in Stores /\ t.numLines = s.numLines
      /\ t.pagesOpen = [s.pagesOpen EXCEPT ![r] = {}]
      /\ t.pagesFull = [s.pagesFull EXCEPT ![r] = {}]
      /\ t.pagesReleased = s.pagesReleased \cup Mine(s, r)
      /\ t.numActiveCodePages = [s.numActiveCodePages EXCEPT ![r] = 0]
  BY RuntimeFields DEF Sound
<1> HIDE DEF t
<1>2. Allocated(t) = Allocated(s)
  BY <1>1 DEF Allocated
<1>3. Mine(t, r) = {} /\ \A q \in Runtimes \ {r} : Mine(t, q) = Mine(s, q)
  BY <1>1 DEF Mine, Stores
<1>4. \A q \in Pages : OffList(t, q) <=> OffList(s, q)
  BY <1>1, <1>2, <1>3 DEF OffList
<1>5. t.numActiveCodePages[r] = 0
      /\ \A q \in Runtimes \ {r} : t.numActiveCodePages[q] = s.numActiveCodePages[q]
  BY <1>1 DEF Stores
<1> QED BY <1>3, <1>4, <1>5 DEF Off, t

LEMMA EnvironmentMoves ==
  ASSUME NEW s, Sound(s)
  PROVE  LET t == Environment_Release(s) IN
         /\ \A r \in Runtimes :
              Mine(t, r) = Mine(s, r) /\ t.numActiveCodePages[r] = s.numActiveCodePages[r]
         /\ Off(t) = Off(s)
         /\ (\A r \in Runtimes : Mine(s, r) = {}) => Allocated(t) = Off(s)
<1> DEFINE t == Environment_Release(s)
<1>1. s \in Stores /\ t.pagesOpen = s.pagesOpen /\ t.pagesFull = s.pagesFull
      /\ t.numLines = [p \in Pages |-> IF p \in s.pagesReleased THEN 0 ELSE s.numLines[p]]
      /\ t.pagesReleased = {} /\ t.numActiveCodePages = s.numActiveCodePages
  BY EnvironmentFields DEF Sound
<1> HIDE DEF t
<1>2. \A r \in Runtimes : Mine(t, r) = Mine(s, r)
  BY <1>1 DEF Mine
<1>3. \A q \in Pages : q \in Allocated(t) <=> q \in Allocated(s) /\ q \notin s.pagesReleased
  BY <1>1 DEF Allocated
<1>4. \A q \in Pages : OffList(t, q) <=> OffList(s, q)
  BY <1>1, <1>2, <1>3 DEF OffList
<1>5. Off(t) = Off(s)
  BY <1>4 DEF Off
<1>6. ASSUME \A r \in Runtimes : Mine(s, r) = {} PROVE Allocated(t) = Off(s)
  BY <1>3, <1>6 DEF Off, OffList, Allocated
<1> QED BY <1>1, <1>2, <1>5, <1>6 DEF t

\* Each way of making room takes the new page, if any, from the lists, and puts
\* the old one on one.
LEMMA EnsuringMoves ==
  ASSUME NEW s, Sound(s), NEW p \in Pages, OffList(s, p), NumFreeLines(s, p) >= 2,
         rt \in Runtimes, s.numActiveCodePages[rt] >= 1, NEW n \in Nat, n + 2 < U32,
         NEW e \in EnsureCodePageNumLines(s, p, n)
  PROVE  Moved(s, e.store, rt, {p}, {e.page})
<1>0. s \in Stores /\ WithBridge(n) = n + 2 /\ n + 2 \in Nat \ {0} /\ p \in Off(s)
  BY Modulus DEF Sound, WithBridge, Off
<1>1. CASE NumFreeLines(s, p) >= n + 2
  <2>1. e = [store |-> s, page |-> p]
    BY <1>0, <1>1 DEF EnsureCodePageNumLines
  <2>2. e.store = s /\ e.page = p
    BY <2>1
  <2> QED BY <1>0, <2>2 DEF Moved
<1>2. CASE ~(NumFreeLines(s, p) >= n + 2)
  <2>1. PICK q \in Acquirable(s, rt, n + 2) :
          e = [store |-> ReleaseCodePage(
                           EmitWords(AcquireCodePageWithCapacity(s, rt, n + 2, q), p, 2), rt, p),
               page |-> q]
    BY <1>0, <1>2 DEF EnsureCodePageNumLines
  <2> DEFINE t == AcquireCodePageWithCapacity(s, rt, n + 2, q)
             u == EmitWords(t, p, 2)
             v == ReleaseCodePage(u, rt, p)
  <2>2. e.store = v /\ e.page = q /\ q \in Pages
    BY <1>0, <2>1 DEF Acquirable, OfCapacity, Stores
  <2>3. /\ Sound(t) /\ OffList(t, q) /\ NumFreeLines(t, q) >= n + 2
        /\ t.numActiveCodePages = [s.numActiveCodePages EXCEPT ![rt] = @ + 1]
        /\ \A o \in Pages : OffList(s, o) => o # q /\ Kept(s, t, o)
    BY <1>0, Acquiring
  <2>4. Moved(s, t, rt, {}, {q})
    BY <1>0, AcquiringMoves
  <2> HIDE DEF t
  <2>5. p # q /\ OffList(t, p) /\ NumFreeLines(t, p) >= 2
    BY <2>3 DEF Kept
  <2>6. Sound(u) /\ OffList(u, p) /\ u.numActiveCodePages = t.numActiveCodePages
    BY <2>3, <2>5, Emitting
  <2>7. Moved(t, u, rt, {}, {})
    BY <2>3, EmittingMoves
  <2> HIDE DEF u
  <2>8. u.numActiveCodePages[rt] >= 1
    BY <1>0, <2>3, <2>6 DEF Stores
  <2>9. Moved(u, v, rt, {p}, {})
    BY <2>6, <2>8, ReleasingMoves
  <2> HIDE DEF v
  <2>10. Moved(s, v, rt, {p}, {q})
    BY <2>4, <2>5, <2>7, <2>9 DEF Moved
  <2> QED BY <2>2, <2>10
<1> QED BY <1>1, <1>2

LEMMA EmittingOpMoves ==
  ASSUME NEW s, Sound(s), NEW p \in Pages, OffList(s, p), NumFreeLines(s, p) >= 2,
         rt \in Runtimes, s.numActiveCodePages[rt] >= 1, NEW k \in 0..4,
         NEW f \in EmitOp(s, p, k)
  PROVE  Moved(s, f.store, rt, {p}, {f.page})
<1>1. PICK e \in EnsureCodePageNumLines(s, p, d_m3CodePageFreeLinesThreshold) :
         f = [store |-> EmitWords(e.store, e.page, 1 + k), page |-> e.page]
  BY DEF EmitOp
<1>2. d_m3CodePageFreeLinesThreshold \in Nat /\ d_m3CodePageFreeLinesThreshold + 2 < U32
  BY WidthAssumption DEF d_m3CodePageFreeLinesThreshold
<1>3. Moved(s, e.store, rt, {p}, {e.page})
  BY <1>1, <1>2, EnsuringMoves
<1>4. Sound(e.store) /\ e.page \in Pages
  BY <1>1, <1>2, Ensuring DEF Ready
<1> DEFINE u == e.store
           v == EmitWords(u, e.page, 1 + k)
<1>5. f.store = v /\ f.page = e.page
  BY <1>1
<1>6. 1 + k \in Nat
  OBVIOUS
<1> HIDE DEF u
<1>7. Moved(u, v, rt, {}, {})
  BY <1>4, <1>6, EmittingMoves DEF u
<1> HIDE DEF v
<1>8. Moved(s, u, rt, {p}, {e.page})
  BY <1>3 DEF u
<1>9. Moved(s, v, rt, {p}, {e.page})
  BY <1>7, <1>8 DEF Moved
<1> QED BY <1>5, <1>9

-----------------------------------------------------------------------------
\* The pages that frames keep.
PagesOf(fr) == {fr[i].page : i \in DOMAIN fr}

LEMMA PagesOfAppended ==
  ASSUME NEW fr \in Seq(Frames), NEW x \in Frames
  PROVE  PagesOf(Append(fr, x)) = PagesOf(fr) \cup {x.page}
<1>1. PICK n \in Nat : n = Len(fr) /\ DOMAIN fr = 1 .. n
  OBVIOUS
<1>2. DOMAIN Append(fr, x) = 1 .. n + 1 /\ Append(fr, x)[n + 1] = x
      /\ \A i \in 1 .. n : Append(fr, x)[i] = fr[i]
  BY <1>1
<1>3. \A i \in 1 .. n + 1 : i \in 1 .. n \/ i = n + 1
  BY <1>1
<1>4. n + 1 \in 1 .. n + 1 /\ 1 .. n \subseteq 1 .. n + 1
  BY <1>1
<1> QED BY <1>1, <1>2, <1>3, <1>4 DEF PagesOf

LEMMA PagesOfOuter ==
  ASSUME NEW fr \in Seq(Frames), fr # <<>>
  PROVE  LET o == SubSeq(fr, 1, Len(fr) - 1) IN
         /\ o \in Seq(Frames) /\ fr[Len(fr)] \in Frames
         /\ PagesOf(fr) = PagesOf(o) \cup {fr[Len(fr)].page}
<1>1. PICK n \in Nat : n = Len(fr) /\ DOMAIN fr = 1 .. n /\ n >= 1
  OBVIOUS
<1> DEFINE o == SubSeq(fr, 1, n - 1)
<1>2. o \in Seq(Frames) /\ Len(o) = n - 1 /\ \A i \in 1 .. n - 1 : o[i] = fr[i]
  BY <1>1
<1>3. fr[n] \in Frames
  BY <1>1
<1>4. DOMAIN o = 1 .. n - 1
  BY <1>2
<1> HIDE DEF o
<1>5. PagesOf(fr) = PagesOf(o) \cup {fr[n].page}
  <2>1. \A i \in 1 .. n : i \in 1 .. n - 1 \/ i = n
    BY <1>1
  <2>2. n \in 1 .. n /\ 1 .. n - 1 \subseteq 1 .. n
    BY <1>1
  <2> QED BY ZenonT(60), <1>1, <1>2, <1>4, <2>1, <2>2 DEF PagesOf
<1> QED BY <1>1, <1>2, <1>3, <1>5 DEF o

HeldBy(p, fr) == ({p} \cup PagesOf(fr)) \ {NoPage}

\* A step of a compilation to store t, page p and frames fr that loses no page.
Keeps(t, p, fr) ==
  /\ \A q \in Runtimes \ {rt} :
       Mine(t, q) = Mine(store, q) /\ t.numActiveCodePages[q] = store.numActiveCodePages[q]
  /\ Tallied(store) => Tallied(t)
  /\ Off(store) \subseteq HeldBy(page, frames) => Off(t) \subseteq HeldBy(p, fr)

\* What the steps need to know of a compilation.
LEMMA Compilable ==
  ASSUME rt \in Runtimes, Compilation(store, rt, page, frames)
  PROVE  /\ Sound(store) /\ page \in Pages /\ OffList(store, page)
         /\ NumFreeLines(store, page) >= 2 /\ store.numActiveCodePages[rt] >= 1
         /\ frames \in Seq(Frames) /\ page # NoPage
BY Active, PagesAssumption DEF Compilation, Shape

LEMMA OperatorLosesNone ==
  ASSUME rt \in Runtimes, Compilation(store, rt, page, frames), Compile_Operator
  PROVE  Keeps(store', page', frames')
<1>1. /\ Sound(store) /\ page \in Pages /\ OffList(store, page)
      /\ NumFreeLines(store, page) >= 2 /\ store.numActiveCodePages[rt] >= 1
  BY Compilable
<1>2. PICK k \in 0..MaxOperands : \E e \in EmitOp(store, page, k) : store' = e.store /\ page' = e.page
  BY DEF Compile_Operator
<1>3. PICK e \in EmitOp(store, page, k) : store' = e.store /\ page' = e.page
  BY <1>2
<1>4. k \in 0..4
  BY LinesAssumption
<1>5. Moved(store, e.store, rt, {page}, {e.page})
  BY <1>1, <1>3, <1>4, EmittingOpMoves
<1>6. e.page \in Pages /\ e.page # NoPage
  BY <1>1, <1>3, <1>4, EmittingOp, PagesAssumption DEF Ready
<1>7. frames' = frames
  BY DEF Compile_Operator
<1> QED BY <1>3, <1>5, <1>6, <1>7 DEF Moved, Keeps, HeldBy

LEMMA AcquiredIsHeld ==
  ASSUME Sound(store), NEW r \in Runtimes,
         NEW q \in Acquirable(store, r, d_m3CodePageFreeLinesThreshold)
  PROVE  /\ Moved(store, AcquireCodePageWithCapacity(store, r, d_m3CodePageFreeLinesThreshold, q),
                  r, {}, {q})
         /\ q \in Pages /\ q # NoPage
<1>1. d_m3CodePageFreeLinesThreshold \in Nat \ {0}
  BY DEF d_m3CodePageFreeLinesThreshold
<1>2. q \in Pages /\ q # NoPage
  BY PagesAssumption DEF Acquirable, OfCapacity, Sound, Stores
<1> QED BY <1>1, <1>2, AcquiringMoves

LEMMA ElseLosesNone ==
  ASSUME rt \in Runtimes, Compilation(store, rt, page, frames), CompileElseBlock
  PROVE  Keeps(store', page', frames')
<1> DEFINE x == [kind |-> "else", page |-> page, left |-> 0]
<1>1. Sound(store) /\ page \in Pages /\ frames \in Seq(Frames)
  BY Compilable
<1>2. PICK q \in Acquirable(store, rt, d_m3CodePageFreeLinesThreshold) :
        /\ page' = q
        /\ store' = AcquireCodePageWithCapacity(store, rt, d_m3CodePageFreeLinesThreshold, q)
  BY DEF CompileElseBlock
<1>3. Moved(store, store', rt, {}, {q}) /\ q # NoPage
  BY <1>1, <1>2, AcquiredIsHeld
<1>4. x \in Frames /\ x.page = page
  BY <1>1 DEF Frames
<1>5. frames' = Append(frames, x)
  BY DEF CompileElseBlock
<1> HIDE DEF x
<1>6. PagesOf(frames') = PagesOf(frames) \cup {page}
  BY <1>1, <1>4, <1>5, PagesOfAppended
<1> QED BY <1>2, <1>3, <1>6 DEF Moved, Keeps, HeldBy

LEMMA EndElseLosesNone ==
  ASSUME rt \in Runtimes, Compilation(store, rt, page, frames), EndElseBlock
  PROVE  Keeps(store', page', frames')
<1>1. /\ Sound(store) /\ page \in Pages /\ OffList(store, page)
      /\ NumFreeLines(store, page) >= 2 /\ store.numActiveCodePages[rt] >= 1
      /\ frames \in Seq(Frames)
  BY Compilable
<1>2. PICK e \in EmitOp(store, page, 1) : store' = ReleaseCodePage(e.store, rt, e.page)
  BY DEF EndElseBlock
<1>3. 1 \in 0..4
  OBVIOUS
<1>4. Moved(store, e.store, rt, {page}, {e.page})
  BY <1>1, <1>2, <1>3, EmittingOpMoves
<1>5. /\ Sound(e.store) /\ e.page \in Pages /\ OffList(e.store, e.page)
      /\ e.store.numActiveCodePages[rt] >= 1
  BY <1>1, <1>2, <1>3, EmittingOp DEF Ready
<1>6. Moved(e.store, store', rt, {e.page}, {})
  BY <1>2, <1>5, ReleasingMoves
<1>7. frames # <<>> /\ page' = frames[Len(frames)].page
      /\ frames' = SubSeq(frames, 1, Len(frames) - 1)
  BY DEF EndElseBlock, InElse, Top, Outer
<1>8. PagesOf(frames) = PagesOf(frames') \cup {page'}
  BY <1>1, <1>7, PagesOfOuter
<1> QED BY <1>4, <1>6, <1>8 DEF Moved, Keeps, HeldBy

LEMMA BranchTableLosesNone ==
  ASSUME TablesFit, rt \in Runtimes, Compilation(store, rt, page, frames),
         NEW n \in Targets, Compile_BranchTable(n)
  PROVE  Keeps(store', page', frames')
<1>1. /\ Sound(store) /\ page \in Pages /\ OffList(store, page)
      /\ NumFreeLines(store, page) >= 2 /\ store.numActiveCodePages[rt] >= 1
      /\ frames \in Seq(Frames)
  BY Compilable
<1>2. n \in Nat /\ TableLines(n) \in Nat /\ TableLines(n) + 2 < U32
  BY TableFits
<1> DEFINE x == [kind |-> "table", page |-> NoPage, left |-> n + 1]
<1>3. PICK e \in EnsureCodePageNumLines(store, page, TableLines(n)) :
        \/ \E f \in EmitOp(e.store, e.page, 2) :
             /\ store' = f.store /\ page' = f.page /\ frames' = Append(frames, x)
        \/ store' = e.store /\ page' = e.page /\ frames' = frames
  BY TableFits DEF Compile_BranchTable
<1>4. Moved(store, e.store, rt, {page}, {e.page})
  BY <1>1, <1>2, <1>3, EnsuringMoves
<1>5. Ready(store, page, e, TableLines(n) + 2)
  BY <1>1, <1>2, <1>3, Ensuring
<1>6. /\ Sound(e.store) /\ e.page \in Pages /\ OffList(e.store, e.page)
      /\ NumFreeLines(e.store, e.page) >= TableLines(n) + 2
      /\ e.store.numActiveCodePages[rt] >= 1
  BY <1>1, <1>5 DEF Ready
<1>7. x \in Frames /\ x.page = NoPage
  BY <1>2 DEF Frames
<1> HIDE DEF x
<1>8. PagesOf(Append(frames, x)) = PagesOf(frames) \cup {NoPage}
  BY <1>1, <1>7, PagesOfAppended
<1>9. CASE store' = e.store /\ page' = e.page /\ frames' = frames
  <2>1. e.page # NoPage
    BY <1>6, PagesAssumption
  <2> QED BY <1>4, <1>9, <2>1 DEF Moved, Keeps, HeldBy
<1>10. ASSUME NEW f \in EmitOp(e.store, e.page, 2), store' = f.store, page' = f.page,
              frames' = Append(frames, x)
       PROVE  Keeps(store', page', frames')
  <2>1. NumFreeLines(e.store, e.page) >= 2 /\ 2 \in 0..4
    <3>1. NumFreeLines(e.store, e.page) \in Int
      BY <1>6 DEF Sound, Stores, NumFreeLines
    <3> QED BY <1>2, <1>6, <3>1
  <2>2. Moved(e.store, f.store, rt, {e.page}, {f.page})
    BY <1>6, <2>1, EmittingOpMoves
  <2>3. f.page # NoPage
    BY <1>6, <2>1, EmittingOp, PagesAssumption DEF Ready
  <2>4. Moved(store, store', rt, {page}, {page'})
    <3>1. e.page \notin Off(store) \ {page}
      BY <1>5 DEF Ready, Off
    <3> QED BY <1>4, <1>10, <2>2, <3>1 DEF Moved
  <2> QED BY <1>8, <1>10, <2>3, <2>4 DEF Moved, Keeps, HeldBy
<1> QED BY <1>3, <1>9, <1>10

LEMMA BeginTargetLosesNone ==
  ASSUME rt \in Runtimes, Compilation(store, rt, page, frames), BeginTarget
  PROVE  Keeps(store', page', frames')
<1>1. Sound(store) /\ page \in Pages /\ frames \in Seq(Frames) /\ page # NoPage
  BY Compilable
<1>2. PICK q \in Acquirable(store, rt, d_m3CodePageFreeLinesThreshold) :
        /\ page' = q
        /\ store' = AcquireCodePageWithCapacity(store, rt, d_m3CodePageFreeLinesThreshold, q)
  BY DEF BeginTarget
<1>3. Moved(store, store', rt, {}, {q}) /\ q # NoPage
  BY <1>1, <1>2, AcquiredIsHeld
<1>4. frames # <<>> /\ frames[Len(frames)].page = NoPage
      /\ frames' = [frames EXCEPT ![Len(frames)].page = page]
  BY DEF BeginTarget, AtTarget, Top
<1>5. PICK n \in Nat : n = Len(frames) /\ DOMAIN frames = 1 .. n /\ n \in 1 .. n
  BY <1>1, <1>4
<1>6. frames'[n].page = page /\ DOMAIN frames' = 1 .. n
      /\ \A i \in 1 .. n : i # n => frames'[i] = frames[i]
  <2>1. frames[n] \in Frames
    BY <1>1, <1>5
  <2>2. [frames[n] EXCEPT !.page = page].page = page
    BY <2>1 DEF Frames
  <2> QED BY <1>4, <1>5, <2>2
<1>7. (PagesOf(frames) \cup {page}) \ {NoPage} \subseteq PagesOf(frames')
  BY <1>4, <1>5, <1>6 DEF PagesOf
<1> QED BY <1>1, <1>2, <1>3, <1>7 DEF Moved, Keeps, HeldBy

LEMMA EndTargetLosesNone ==
  ASSUME rt \in Runtimes, Compilation(store, rt, page, frames), EndTarget
  PROVE  Keeps(store', page', frames')
<1> DEFINE o == SubSeq(frames, 1, Len(frames) - 1)
           top == frames[Len(frames)]
           x == [top EXCEPT !.page = NoPage, !.left = top.left - 1]
           t == ReleaseCodePage(store, rt, page)
<1>1. /\ Sound(store) /\ page \in Pages /\ OffList(store, page)
      /\ store.numActiveCodePages[rt] >= 1
      /\ frames \in Seq(Frames)
  BY Compilable
<1>2. /\ frames # <<>> /\ top.page # NoPage /\ page' = top.page
      /\ store' = EmitWords(t, top.page, 1)
      /\ frames' = IF top.left = 1 THEN o ELSE Append(o, x)
  BY DEF EndTarget, InTarget, Top, Outer
<1>3. /\ o \in Seq(Frames) /\ top \in Frames
      /\ PagesOf(frames) = PagesOf(o) \cup {top.page}
  BY <1>1, <1>2, PagesOfOuter
<1>4. Moved(store, t, rt, {page}, {})
  BY <1>1, ReleasingMoves
<1>5. Sound(t)
  BY <1>1, Releasing
<1> HIDE DEF t
<1>6. Moved(t, store', rt, {}, {})
  <2>1. top.page \in Pages /\ 1 \in Nat
    BY <1>2, <1>3 DEF Frames
  <2> HIDE DEF top
  <2>2. Moved(t, EmitWords(t, top.page, 1), rt, {}, {})
    BY <1>5, <2>1, EmittingMoves
  <2> QED BY <1>2, <2>2
<1>7. PagesOf(o) \subseteq PagesOf(frames')
  <2>1. CASE top.left = 1
    BY <1>2, <2>1
  <2>2. CASE top.left # 1
    <3>1. frames' = Append(o, x)
      BY <1>2, <2>2
    <3>2. PICK m \in Nat : m = Len(o) /\ DOMAIN o = 1 .. m
      <4> HIDE DEF o
      <4> QED BY <1>3
    <3> HIDE DEF o, x
    <3>3. 1 .. m \subseteq DOMAIN frames' /\ \A i \in 1 .. m : frames'[i] = o[i]
      <4>1. DOMAIN Append(o, x) = 1 .. m + 1 /\ \A i \in 1 .. m : Append(o, x)[i] = o[i]
        BY <1>3, <3>2
      <4> QED BY <3>1, <4>1
    <3> QED BY <3>2, <3>3 DEF PagesOf
  <2> QED BY <2>1, <2>2
<1> HIDE DEF o, top
<1>8. HeldBy(page, frames) \ {page} \subseteq HeldBy(page', frames')
  BY <1>2, <1>3, <1>7 DEF HeldBy
<1> QED BY <1>4, <1>6, <1>8 DEF Moved, Keeps

\* Only an error in the code of a table's target loses a page.
LEMMA UnwindLosesOne ==
  ASSUME rt \in Runtimes, Compilation(store, rt, page, frames), Unwind
  PROVE  \/ Keeps(store', page', frames')
         \/ /\ abandoned' /\ store' = store /\ page' = page
<1>1. /\ Sound(store) /\ page \in Pages /\ OffList(store, page)
      /\ store.numActiveCodePages[rt] >= 1
      /\ frames \in Seq(Frames)
  BY Compilable
<1>2. frames # <<>> /\ frames' = SubSeq(frames, 1, Len(frames) - 1)
  BY DEF Unwind, Outer
<1>3. PagesOf(frames) = PagesOf(frames') \cup {frames[Len(frames)].page}
  BY <1>1, <1>2, PagesOfOuter
<1>4. CASE InElse
  <2>1. store' = ReleaseCodePage(store, rt, page) /\ page' = frames[Len(frames)].page
    BY <1>4 DEF Unwind, Caught, Top
  <2>2. Moved(store, store', rt, {page}, {})
    BY <1>1, <2>1, ReleasingMoves
  <2> QED BY <1>3, <2>1, <2>2 DEF Moved, Keeps, HeldBy
<1>5. CASE ~InElse
  <2>1. store' = store /\ page' = page
        /\ abandoned' = (abandoned \/ frames[Len(frames)].page # NoPage)
    BY <1>5 DEF Unwind, Top
  <2>2. CASE frames[Len(frames)].page # NoPage
    BY <2>1, <2>2
  <2>3. CASE frames[Len(frames)].page = NoPage
    BY <1>3, <2>1, <2>3 DEF Keeps, HeldBy
  <2> QED BY <2>2, <2>3
<1> QED BY <1>4, <1>5

LEMMA CompileLoses ==
  ASSUME TablesFit, IInv, CompileStep
  PROVE  /\ \A q \in Runtimes \ {rt} :
              /\ Mine(store', q) = Mine(store, q)
              /\ store'.numActiveCodePages[q] = store.numActiveCodePages[q]
         /\ Tallied(store) => Tallied(store')
         /\ \/ abandoned'
            \/ Off(store) \subseteq HeldBy(page, frames) => Off(store') \subseteq HeldBy(page', frames')
         /\ abandoned => abandoned'
<1>1. rt \in Runtimes
  BY DEF CompileStep, Compile_Operator, CompileElseBlock, EndElseBlock, BeginTarget, EndTarget,
         Compile_BranchTable, Throw, Unwind, Compiling, IInv, Control
<1>2. Compilation(store, rt, page, frames)
  BY <1>1 DEF IInv, Writing
<1>3. abandoned => abandoned'
  BY DEF CompileStep, Compile_Operator, CompileElseBlock, EndElseBlock, BeginTarget, EndTarget,
         Compile_BranchTable, Throw, Unwind
<1>4. \/ Keeps(store', page', frames')
      \/ abandoned' /\ store' = store /\ page' = page
  <2>1. CASE Compile_Operator BY <1>1, <1>2, <2>1, OperatorLosesNone
  <2>2. CASE CompileElseBlock BY <1>1, <1>2, <2>2, ElseLosesNone
  <2>3. CASE EndElseBlock BY <1>1, <1>2, <2>3, EndElseLosesNone
  <2>4. CASE BeginTarget BY <1>1, <1>2, <2>4, BeginTargetLosesNone
  <2>5. CASE EndTarget BY <1>1, <1>2, <2>5, EndTargetLosesNone
  <2>6. ASSUME NEW n \in Targets, Compile_BranchTable(n) PROVE Keeps(store', page', frames')
    BY <1>1, <1>2, <2>6, BranchTableLosesNone
  <2>7. CASE Throw BY <2>7 DEF Throw, Keeps
  <2>8. CASE Unwind BY <1>1, <1>2, <2>8, UnwindLosesOne
  <2> QED BY <2>1, <2>2, <2>3, <2>4, <2>5, <2>6, <2>7, <2>8 DEF CompileStep
<1> QED BY <1>3, <1>4 DEF Keeps

\* A compilation of an expression neither takes nor gives back a page for good.
LEMMA ExpressionStays ==
  ASSUME IInv, CompileStep, rt = "expr"
  PROVE  store'.numActiveCodePages["expr"] = store.numActiveCodePages["expr"]
<1>1. rt \in Runtimes /\ frames = <<>>
  BY DEF IInv, Control, Runtimes
<1>2. Compilation(store, rt, page, frames)
  BY <1>1 DEF IInv, Writing
<1>3. Compile_Operator \/ Throw
  BY <1>1 DEF CompileStep, CompileElseBlock, EndElseBlock, BeginTarget, EndTarget, Unwind,
     Compile_BranchTable, InElse, AtTarget, InTarget
<1>4. CASE Throw
  BY <1>4 DEF Throw
<1>5. CASE Compile_Operator
  <2>1. PICK k \in 0..MaxOperands : \E e \in EmitOp(store, page, k) : store' = e.store
    BY <1>5 DEF Compile_Operator
  <2>2. PICK e \in EmitOp(store, page, k) : store' = e.store
    BY <2>1
  <2>3. k \in 0..4
    BY LinesAssumption
  <2>4. Ready(store, page, e, 7 - k)
    BY <1>1, <1>2, <2>2, <2>3, Compilable, EmittingOp
  <2> QED BY <2>2, <2>4 DEF Ready
<1> QED BY <1>3, <1>4, <1>5

LEMMA EndLosesNone ==
  ASSUME IInv, EndCompile
  PROVE  /\ rt \in Runtimes
         /\ Off(store) \subseteq HeldBy(page, frames) => Off(store') = {}
         /\ rt = "main" =>
              /\ Mine(store', "expr") = Mine(store, "expr")
              /\ store'.numActiveCodePages["expr"] = store.numActiveCodePages["expr"]
              /\ Tallied(store) => Tallied(store')
         /\ rt = "expr" =>
              /\ Mine(store', "expr") = {} /\ store'.numActiveCodePages["expr"] = 0
              /\ Tallied(store) /\ store.numActiveCodePages["expr"] = 1 => Tallied(store')
<1> DEFINE t == ReleaseCodePage(store, rt, page)
<1>1. rt \in Runtimes /\ frames = <<>>
  BY DEF EndCompile, IInv, Control
<1>2. Compilation(store, rt, page, frames)
  BY <1>1 DEF IInv, Writing
<1>3. /\ Sound(store) /\ page \in Pages /\ OffList(store, page)
      /\ store.numActiveCodePages[rt] >= 1
  BY <1>1, <1>2, Compilable
<1>4. Moved(store, t, rt, {page}, {})
  BY <1>1, <1>3, ReleasingMoves
<1>5. Sound(t) /\ t.numActiveCodePages = [store.numActiveCodePages EXCEPT ![rt] = @ - 1]
  <2>1. LET u == ReleaseCodePage(store, rt, page) IN
        /\ Sound(u)
        /\ u.numActiveCodePages = [store.numActiveCodePages EXCEPT ![rt] = @ - 1]
    BY <1>1, <1>3, Releasing
  <2> QED BY <2>1
<1>6. store' = IF rt = "expr" THEN Runtime_Release(t, rt) ELSE t
  BY DEF EndCompile
<1> HIDE DEF t
<1>7. /\ Off(store') = Off(t)
      /\ rt = "expr" =>
           /\ Mine(store', "expr") = {} /\ store'.numActiveCodePages["expr"] = 0
           /\ store'.numActiveCodePages["main"] = t.numActiveCodePages["main"]
      /\ rt = "main" => store' = t
  <2>1. "expr" \in Runtimes /\ "main" \in Runtimes \ {"expr"}
    BY DEF Runtimes
  <2>2. PICK u : u = Runtime_Release(t, "expr")
    OBVIOUS
  <2>3. /\ Off(u) = Off(t) /\ Mine(u, "expr") = {} /\ u.numActiveCodePages["expr"] = 0
        /\ \A q \in Runtimes \ {"expr"} :
             Mine(u, q) = Mine(t, q) /\ u.numActiveCodePages[q] = t.numActiveCodePages[q]
    <3>1. LET v == Runtime_Release(t, "expr") IN
          /\ Off(v) = Off(t) /\ Mine(v, "expr") = {} /\ v.numActiveCodePages["expr"] = 0
          /\ \A q \in Runtimes \ {"expr"} :
               Mine(v, q) = Mine(t, q) /\ v.numActiveCodePages[q] = t.numActiveCodePages[q]
      BY <1>5, <2>1, RuntimeMoves
    <3> QED BY <2>2, <3>1
  <2> QED BY <1>1, <1>6, <2>1, <2>2, <2>3 DEF Runtimes
<1>8. HeldBy(page, frames) = {page} \/ HeldBy(page, frames) = {}
  BY <1>1 DEF HeldBy, PagesOf
<1>9. store.numActiveCodePages \in [Runtimes -> Nat]
  BY <1>3 DEF Sound, Stores
<1>10. rt = "expr" /\ store.numActiveCodePages["expr"] = 1 => t.numActiveCodePages["expr"] = 0
  BY <1>1, <1>5, <1>9
<1>11. /\ rt = "main" => /\ Mine(store', "expr") = Mine(store, "expr")
                         /\ store'.numActiveCodePages["expr"] = store.numActiveCodePages["expr"]
                         /\ Tallied(store) => Tallied(store')
       /\ rt = "expr" /\ Tallied(store) /\ store.numActiveCodePages["expr"] = 1 => Tallied(store')
  <2>1. "expr" \in Runtimes /\ "main" \in Runtimes /\ "expr" # "main"
    BY DEF Runtimes
  <2>2. CASE rt = "main"
    BY <1>4, <1>7, <2>1, <2>2 DEF Moved
  <2>3. CASE rt = "expr"
    <3>1. ASSUME Tallied(store), store.numActiveCodePages["expr"] = 1 PROVE Tallied(store')
      <4>1. Tallied(t)
        BY <1>4, <3>1 DEF Moved
      <4>2. t.numActiveCodePages["expr"] = store'.numActiveCodePages["expr"]
        BY <1>7, <1>10, <2>3, <3>1
      <4>3. t.numActiveCodePages["main"] = store'.numActiveCodePages["main"]
        BY <1>7, <2>3
      <4> QED BY <1>7, <4>1, <4>2, <4>3 DEF Tallied
    <3> QED BY <2>1, <2>3, <3>1
  <2> QED BY <1>1, <2>2, <2>3 DEF Runtimes
<1>12. Off(store) \subseteq HeldBy(page, frames) => Off(store') = {}
  BY <1>4, <1>7, <1>8 DEF Moved
<1> QED BY <1>1, <1>7, <1>11, <1>12

-----------------------------------------------------------------------------
\* What a run has allocated at each step, apart from the pages.
Heaps ==
  LET base == {"environment", "runtime", "stack"} IN
  /\ pc = "idle" => heap = IF code = "-3" THEN {"module"} ELSE {}
  /\ pc = "new runtime" => heap = {"environment"}
  /\ pc = "parse" => heap = base
  /\ pc \in {"init memory", "load", "find", "call"} => heap \ {"memory"} = base \cup {"module"}
  /\ pc = "free runtime" =>
       heap \ {"memory"} = base \cup (IF code = "-2" THEN {} ELSE {"module"})
  /\ pc = "free environment" =>
       heap = {"environment"} \cup (IF code = "-3" THEN {"module"} ELSE {})
  /\ modules = IF pc \in {"find", "call"} \/ (pc = "free runtime" /\ code \notin {"-2", "-3"})
               THEN {"module"} ELSE {}

\* Where the pages are that no runtime has.
Settled ==
  /\ rt # "expr" => Mine(store, "expr") = {} /\ store.numActiveCodePages["expr"] = 0
  /\ rt = "expr" => store.numActiveCodePages["expr"] = 1
  /\ pc \in {"new runtime", "free environment"} => Mine(store, "main") = {}
  /\ pc \notin {"idle", "free environment"} => Tallied(store)
  /\ ~abandoned => Off(store) \subseteq HeldBy(page, frames)
  /\ pc = "idle" => (Allocated(store) # {} => abandoned)

LEMMA HeapsStep == IInv /\ Heaps /\ [Next]_vars => Heaps'
<1> SUFFICES ASSUME IInv, Heaps, [Next]_vars PROVE Heaps'
  OBVIOUS
<1> USE DEF Heaps
<1>1. CASE UNCHANGED vars
  BY <1>1 DEF vars, svars
<1>2. CASE m3_NewEnvironment
  BY <1>2 DEF m3_NewEnvironment
<1>3. CASE m3_NewRuntime
  BY <1>3 DEF m3_NewRuntime
<1>4. CASE m3_ParseModule
  BY <1>4 DEF m3_ParseModule
<1>5. CASE InitMemory
  BY <1>5 DEF InitMemory, Failure
<1>6. CASE EvaluateExpression
  BY <1>6 DEF EvaluateExpression, svars
<1>7. CASE m3_LoadModule
  BY <1>7 DEF m3_LoadModule, Failure
<1>8. CASE CompileFunction
  BY <1>8 DEF CompileFunction, svars
<1>9. CASE Compile
  BY <1>9 DEF Compile, svars
<1>10. CASE Compiled
  <2>1. pc \in {"load", "find", "call"}
    BY <1>10 DEF IInv, Control, Runtimes, Compiled, EndCompile
  <2> QED BY <1>10, <2>1 DEF Compiled, Failure
<1>11. CASE m3_FindFunction
  BY <1>11 DEF m3_FindFunction, Failure
<1>12. CASE m3_RunStart
  BY <1>12 DEF m3_RunStart, Failure
<1>13. CASE m3_Call
  BY <1>13 DEF m3_Call, Failure
<1>14. CASE m3_FreeRuntime
  <2>1. code \in {"value", "-1", "-2", "-3", "-4", "-5"}
    BY DEF IInv, Fields
  <2>2. Freed = modules \cup {"runtime", "stack", "memory"}
    BY DEF Freed
  <2> QED BY ZenonT(60), <1>14, <2>1, <2>2 DEF m3_FreeRuntime
<1>15. CASE m3_FreeEnvironment
  BY <1>15 DEF m3_FreeEnvironment
<1> QED BY <1>1, <1>2, <1>3, <1>4, <1>5, <1>6, <1>7, <1>8, <1>9, <1>10, <1>11, <1>12, <1>13,
           <1>14, <1>15 DEF Next

LEMMA NoneHeld == HeldBy(NoPage, <<>>) = {}
<1>1. DOMAIN <<>> = {}
  OBVIOUS
<1> QED BY <1>1 DEF HeldBy, PagesOf

LEMMA EmptySettled ==
  /\ \A r \in Runtimes : Mine(EmptyStore, r) = {} /\ EmptyStore.numActiveCodePages[r] = 0
  /\ Allocated(EmptyStore) = {} /\ Off(EmptyStore) = {} /\ Tallied(EmptyStore)
<1>1. /\ \A r \in Runtimes : /\ EmptyStore.pagesOpen[r] = {} /\ EmptyStore.pagesFull[r] = {}
                             /\ EmptyStore.numActiveCodePages[r] = 0
      /\ \A p \in Pages : EmptyStore.numLines[p] = 0
  BY DEF EmptyStore
<1>2. \A r \in Runtimes : Mine(EmptyStore, r) = {}
  BY <1>1 DEF Mine
<1>3. Allocated(EmptyStore) = {}
  BY <1>1 DEF Allocated
<1>4. Off(EmptyStore) = {}
  BY <1>3 DEF Off, OffList
<1>5. Cardinality(Off(EmptyStore)) = 0
  BY <1>4, FS_EmptySet
<1>6. Tallied(EmptyStore)
  BY <1>1, <1>5 DEF Tallied, Runtimes
<1> QED BY <1>1, <1>2, <1>3, <1>4, <1>6

LEMMA SettledStep ==
  ASSUME TablesFit
  PROVE  IInv /\ Settled /\ [Next]_vars => Settled'
<1> SUFFICES ASSUME IInv, Settled, [Next]_vars PROVE Settled'
  OBVIOUS
<1>0. /\ rt \in Runtimes \cup {NoRuntime} /\ Sound(store) /\ NoRuntime \notin Runtimes
      /\ rt = "expr" => pc = "load" /\ frames = <<>>
      /\ rt = "main" => pc \in {"find", "call"}
      /\ rt = NoRuntime => page = NoPage /\ frames = <<>>
  BY RuntimeAssumption DEF IInv, Control, Writing
<1>1. "expr" \in Runtimes /\ "main" \in Runtimes /\ "expr" # "main"
      /\ \A r \in Runtimes : r = "expr" \/ r = "main"
  BY DEF Runtimes
\* A step between compilations that leaves the pages alone.
<1>2. ASSUME UNCHANGED <<store, rt, page, frames, abandoned>>,
             pc' # "idle", pc' \in {"new runtime", "free environment"} => pc = "new runtime",
             pc' \notin {"idle", "free environment"} => pc \notin {"idle", "free environment"}
      PROVE  Settled'
  BY <1>2 DEF Settled
<1>3. CASE UNCHANGED vars
  BY <1>3 DEF Settled, vars, pvars, comp, svars
<1>4. CASE m3_NewEnvironment
  <2>1. /\ rt = NoRuntime /\ UNCHANGED <<rt, page, frames>> /\ store' = EmptyStore
    BY <1>0, <1>1, <1>4 DEF m3_NewEnvironment
  <2> QED BY <1>0, <1>1, <2>1, EmptySettled DEF Settled
<1>5. CASE m3_NewRuntime
  BY <1>2, <1>5 DEF m3_NewRuntime, pvars, comp
<1>6. CASE m3_ParseModule
  BY <1>2, <1>6 DEF m3_ParseModule, pvars, comp
<1>7. CASE InitMemory
  BY <1>2, <1>7 DEF InitMemory, pvars, comp
<1>8. CASE m3_LoadModule
  BY <1>2, <1>8 DEF m3_LoadModule, pvars, comp
<1>9. CASE m3_FindFunction
  BY <1>2, <1>9 DEF m3_FindFunction, pvars, comp
<1>10. CASE m3_RunStart
  BY <1>2, <1>10 DEF m3_RunStart, pvars, comp
<1>11. CASE m3_Call
  BY <1>2, <1>11 DEF m3_Call, pvars, comp
<1>12. CASE m3_FreeRuntime
  <2>1. /\ rt = NoRuntime /\ UNCHANGED comp /\ pc' = "free environment"
        /\ store' = Runtime_Release(store, "main")
    BY <1>0, <1>1, <1>12 DEF m3_FreeRuntime
  <2>2. LET t == Runtime_Release(store, "main") IN
        /\ Off(t) = Off(store) /\ Mine(t, "main") = {} /\ t.numActiveCodePages["main"] = 0
        /\ \A q \in Runtimes \ {"main"} :
             Mine(t, q) = Mine(store, q) /\ t.numActiveCodePages[q] = store.numActiveCodePages[q]
    BY <1>0, <1>1, RuntimeMoves
  <2>3. /\ Off(store') = Off(store) /\ Mine(store', "main") = {}
        /\ Mine(store', "expr") = Mine(store, "expr")
        /\ store'.numActiveCodePages["expr"] = store.numActiveCodePages["expr"]
    BY <1>1, <2>1, <2>2
  <2> QED BY <1>0, <1>1, <2>1, <2>3 DEF Settled, comp
<1>13. CASE m3_FreeEnvironment
  <2>1. /\ rt = NoRuntime /\ UNCHANGED comp /\ pc = "free environment" /\ pc' = "idle"
        /\ store' = Environment_Release(store)
    BY <1>0, <1>1, <1>13 DEF m3_FreeEnvironment
  <2>2. LET t == Environment_Release(store) IN
        /\ \A r \in Runtimes :
             Mine(t, r) = Mine(store, r) /\ t.numActiveCodePages[r] = store.numActiveCodePages[r]
        /\ Off(t) = Off(store)
        /\ (\A r \in Runtimes : Mine(store, r) = {}) => Allocated(t) = Off(store)
    BY <1>0, EnvironmentMoves
  <2>3. rt # "expr" /\ Mine(store, "main") = {} /\ Mine(store, "expr") = {}
    BY <1>0, <1>1, <2>1 DEF Settled
  <2>4. /\ Off(store') = Off(store) /\ Mine(store', "expr") = {}
        /\ store'.numActiveCodePages["expr"] = store.numActiveCodePages["expr"]
        /\ Allocated(store') = Off(store)
    BY <1>1, <2>1, <2>2, <2>3
  <2>5. HeldBy(page, frames) = {}
    BY <1>0, <2>1, NoneHeld
  <2> QED BY <1>0, <1>1, <2>1, <2>3, <2>4, <2>5 DEF Settled, comp
<1>14. ASSUME NEW r \in Runtimes, BeginCompile(r), UNCHANGED svars,
              r = "expr" => pc = "load", r = "main" => pc \in {"find", "call"}
       PROVE  Settled'
  <2>1. PICK q \in Acquirable(store, r, d_m3CodePageFreeLinesThreshold) :
          /\ page' = q
          /\ store' = AcquireCodePageWithCapacity(store, r, d_m3CodePageFreeLinesThreshold, q)
    BY <1>14 DEF BeginCompile
  <2>2. rt = NoRuntime /\ rt' = r /\ frames' = <<>> /\ abandoned' = abandoned /\ pc' = pc
    BY <1>14 DEF BeginCompile, svars
  <2>3. Moved(store, store', r, {}, {q}) /\ q # NoPage
    BY <1>0, <2>1, AcquiredIsHeld
  <2>4. /\ store'.numActiveCodePages = [store.numActiveCodePages EXCEPT ![r] = @ + 1]
        /\ store.numActiveCodePages \in [Runtimes -> Nat]
    <3>1. LET t == AcquireCodePageWithCapacity(store, r, d_m3CodePageFreeLinesThreshold, q) IN
          /\ q \in Pages /\ Sound(t) /\ OffList(t, q) /\ NumFreeLines(t, q) >= 6
          /\ t.numActiveCodePages = [store.numActiveCodePages EXCEPT ![r] = @ + 1]
          /\ store.numActiveCodePages \in [Runtimes -> Nat]
          /\ \A o \in Pages : OffList(store, o) => o # q /\ Kept(store, t, o)
      BY <1>0, AcquiringOnTop
    <3> QED BY <2>1, <3>1
  <2>5. r = "expr" => store'.numActiveCodePages["expr"] = 1
    <3>1. store.numActiveCodePages["expr"] = 0
      BY <1>0, <1>1, <2>2 DEF Settled
    <3>2. r = "expr" => store'.numActiveCodePages["expr"] = store.numActiveCodePages["expr"] + 1
      BY <1>1, <2>4
    <3> QED BY <3>1, <3>2
  <2>6. r = "main" => /\ Mine(store', "expr") = Mine(store, "expr")
                      /\ store'.numActiveCodePages["expr"] = store.numActiveCodePages["expr"]
    BY <1>1, <2>3 DEF Moved
  <2>7. ~abandoned => Off(store') \subseteq HeldBy(page', frames')
    <3>1. HeldBy(page, frames) = {}
      BY <1>0, <2>2, NoneHeld
    <3> QED BY <2>1, <2>3, <3>1 DEF Moved, Settled, HeldBy
  <2>8. pc \notin {"idle", "free environment", "new runtime"}
    BY <1>1, <1>14
  <2>9. Tallied(store')
    BY <2>3, <2>8 DEF Moved, Settled
  <2> QED BY <1>0, <1>1, <2>2, <2>5, <2>6, <2>7, <2>8, <2>9 DEF Settled
<1>15. CASE EvaluateExpression
  BY <1>1, <1>14, <1>15 DEF EvaluateExpression
<1>16. CASE CompileFunction
  BY <1>1, <1>14, <1>16 DEF CompileFunction
<1>17. CASE Compile
  <2>1. CompileStep /\ pc' = pc
    BY <1>17 DEF Compile, svars
  <2>2. rt \in Runtimes /\ rt' = rt
    BY <2>1, CompileKeepsWriting
  <2>3. pc \in {"load", "find", "call"}
    BY <1>0, <1>1, <2>2
  <2>4. /\ \A q \in Runtimes \ {rt} :
             /\ Mine(store', q) = Mine(store, q)
             /\ store'.numActiveCodePages[q] = store.numActiveCodePages[q]
        /\ Tallied(store) => Tallied(store')
        /\ \/ abandoned'
           \/ Off(store) \subseteq HeldBy(page, frames) => Off(store') \subseteq HeldBy(page', frames')
        /\ abandoned => abandoned'
    BY <2>1, CompileLoses
  <2>5. rt = "expr" => store'.numActiveCodePages["expr"] = store.numActiveCodePages["expr"]
    BY <2>1, ExpressionStays
  <2> QED BY <1>1, <2>1, <2>2, <2>3, <2>4, <2>5 DEF Settled
<1>18. CASE Compiled
  <2>1. EndCompile /\ rt' = NoRuntime /\ abandoned' = abandoned
    BY <1>18 DEF Compiled, EndCompile
  <2>2. /\ rt \in Runtimes
        /\ Off(store) \subseteq HeldBy(page, frames) => Off(store') = {}
        /\ rt = "main" =>
             /\ Mine(store', "expr") = Mine(store, "expr")
             /\ store'.numActiveCodePages["expr"] = store.numActiveCodePages["expr"]
             /\ Tallied(store) => Tallied(store')
        /\ rt = "expr" =>
             /\ Mine(store', "expr") = {} /\ store'.numActiveCodePages["expr"] = 0
             /\ Tallied(store) /\ store.numActiveCodePages["expr"] = 1 => Tallied(store')
    BY <2>1, EndLosesNone
  <2>3. pc \in {"load", "find", "call"} /\ pc' \in {"load", "find", "call", "free runtime"}
    BY <1>0, <1>1, <1>18, <2>2 DEF Compiled
  <2> QED BY <1>0, <1>1, <2>1, <2>2, <2>3 DEF Settled
<1> QED BY <1>3, <1>4, <1>5, <1>6, <1>7, <1>8, <1>9, <1>10, <1>11, <1>12, <1>13, <1>15, <1>16,
           <1>17, <1>18 DEF Next

LEMMA CleanAlways ==
  ASSUME TablesFit
  PROVE  Spec => [](IInv /\ Heaps /\ Settled)
<1>1. Init => Heaps /\ Settled
  <2> SUFFICES ASSUME Init PROVE Heaps /\ Settled
    OBVIOUS
  <2>1. Heaps
    BY DEF Init, Heaps
  <2>2. "expr" \in Runtimes /\ rt = NoRuntime /\ NoRuntime \notin Runtimes
    BY RuntimeAssumption DEF Init, Runtimes
  <2> QED BY <2>1, <2>2, EmptySettled DEF Init, Settled
<1> QED BY <1>1, InitIInv, NextIInv, HeapsStep, SettledStep, PTL DEF Spec

\* What is off the lists and not held is lost.
LEMMA LostIs ==
  ASSUME IInv
  PROVE  Held = HeldBy(page, frames) /\ Lost = Off(store) \ Held
<1>1. Held = HeldBy(page, frames)
  BY DEF Held, HeldBy, PagesOf
<1>2. Off(store) = Allocated(store) \ Listed(store)
  BY DEF Off, OffList, Listed, Mine, Allocated
<1> QED BY <1>1, <1>2 DEF Lost

\* Pages of a runtime are lost only by an error in the code of a branch table's
\* target, for which Compile_BranchTable has no _catch.
THEOREM LossIsByAbandoning ==
  ASSUME TablesFit
  PROVE  Spec => []LossIsAbandon
<1>1. IInv /\ Settled => LossIsAbandon
  BY LostIs DEF Settled, LossIsAbandon
<1> QED BY <1>1, CleanAlways, PTL

\* Whatever fails at whatever point of execute_wasm_in_sandbox, nothing stays
\* behind but the module of a failed load and the pages of a failed branch
\* table, and the assertion of Runtime_Release finds no other page active.
THEOREM NothingStaysBehind ==
  ASSUME TablesFit
  PROVE  Spec => []ReturnsClean
<1>1. IInv /\ Heaps /\ Settled => ReturnsClean
  <2> SUFFICES ASSUME IInv, Heaps, Settled PROVE ReturnsClean
    OBVIOUS
  <2>1. pc = "idle" => /\ heap = IF code = "-3" THEN {"module"} ELSE {}
                       /\ Allocated(store) # {} => abandoned
    BY DEF Heaps, Settled
  <2>2. ASSUME pc = "free runtime"
        PROVE  store.numActiveCodePages["main"] = Cardinality(Lost)
    <3>1. rt = NoRuntime /\ page = NoPage /\ frames = <<>> /\ rt # "expr"
      BY <2>2, RuntimeAssumption DEF IInv, Control, Writing, Runtimes
    <3>2. Lost = Off(store)
      BY <3>1, LostIs, NoneHeld
    <3>3. store.numActiveCodePages["expr"] = 0 /\ Tallied(store)
      BY <2>2, <3>1 DEF Settled
    <3>4. store.numActiveCodePages["main"] \in Nat
      BY DEF IInv, Writing, Sound, Stores, Runtimes
    <3> QED BY <3>2, <3>3, <3>4 DEF Tallied
  <2> QED BY <2>1, <2>2 DEF ReturnsClean, NoneActive, Settled
<1> QED BY <1>1, CleanAlways, PTL

=============================================================================
