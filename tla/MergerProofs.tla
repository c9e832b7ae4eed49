---------------------------- MODULE MergerProofs ----------------------------
(***************************************************************************)
(* Merger.tla keeps its invariants and implements MergedTree.tla, for      *)
(* every set of paths and every set of manifests.                          *)
(***************************************************************************)
EXTENDS Merger, SequenceTheorems, TLAPS

-----------------------------------------------------------------------------
(* Paths *)

\* A path is a finite sequence of names.
LEMMA PathSeq == \A p \in Path : p \in Seq(STRING) /\ Len(p) \in Nat
  BY PathAssumption

\* A path is within itself.
LEMMA WithinRefl == \A p \in Path : Within(p, p)
<1> TAKE p \in Path
<1>1. SubSeq(p, 1, Len(p)) = p
  BY PathSeq, SubSeqFull
<1> QED
  BY <1>1, PathSeq DEF Within

\* The root is above every path.
LEMMA RootWithin == \A p \in Path : Within(Root, p)
<1> TAKE p \in Path
<1>1. SubSeq(p, 1, 0) = << >>
  BY PathSeq, SubSeqEmpty
<1> QED
  BY <1>1, PathSeq DEF Within, Root

\* What is above q is above everything that q is above.
LEMMA WithinTrans ==
  ASSUME NEW p \in Path, NEW q \in Path, NEW r \in Path,
         Within(p, q), Within(q, r)
  PROVE  Within(p, r)
<1>1. Len(p) <= Len(q) /\ Len(q) <= Len(r)
  BY DEF Within
<1>2. CASE Len(p) = 0
  BY <1>2, RootWithin, PathSeq, EmptySeq DEF Root
<1>3. CASE Len(p) # 0
  <2>1. Len(p) \in 1..Len(q) /\ Len(q) \in 1..Len(r)
    BY <1>1, <1>3, PathSeq
  <2>2. SubSeq(SubSeq(r, 1, Len(q)), 1, Len(p)) = SubSeq(r, 1, Len(p))
    <3>1. \A m \in 1..(Len(q) - 1 + 1) : \A n \in 1..(Len(q) - 1 + 1) :
            SubSeq(SubSeq(r, 1, Len(q)), m, n) = SubSeq(r, 1 + m - 1, 1 + n - 1)
      BY <2>1, PathSeq, SubSeqOfSubSeq
    <3> QED
      BY <3>1, <2>1, PathSeq
  <2> QED
    BY <2>2, <1>1, PathSeq DEF Within
<1> QED
  BY <1>2, <1>3

\* Two paths above a third are above one another.
LEMMA WithinLinear ==
  ASSUME NEW p \in Path, NEW q \in Path, NEW r \in Path,
         Within(p, r), Within(q, r), Len(p) <= Len(q)
  PROVE  Within(p, q)
<1>1. CASE Len(p) = 0
  BY <1>1, RootWithin, PathSeq, EmptySeq DEF Root
<1>2. CASE Len(p) # 0
  <2>1. Len(p) \in 1..Len(q) /\ Len(q) \in 1..Len(r)
    BY <1>2, PathSeq DEF Within
  <2>2. \A m \in 1..(Len(q) - 1 + 1) : \A n \in 1..(Len(q) - 1 + 1) :
          SubSeq(SubSeq(r, 1, Len(q)), m, n) = SubSeq(r, 1 + m - 1, 1 + n - 1)
    BY <2>1, PathSeq, SubSeqOfSubSeq
  <2>3. SubSeq(SubSeq(r, 1, Len(q)), 1, Len(p)) = SubSeq(r, 1, Len(p))
    BY <2>1, <2>2, PathSeq
  <2> QED
    BY <2>3 DEF Within
<1> QED
  BY <1>1, <1>2

\* Two paths of one length of which one is within the other are the same.
LEMMA WithinSameLen ==
  ASSUME NEW p \in Path, NEW q \in Path, Within(p, q), Len(p) = Len(q)
  PROVE  p = q
  BY PathSeq, SubSeqFull DEF Within

\* Below d on the way to q there is a path one name longer than d.
LEMMA StepDown ==
  ASSUME NEW d \in Path, NEW q \in Path, Above(d, q)
  PROVE  \E c \in Path : Len(c) = Len(d) + 1 /\ Within(d, c) /\ Within(c, q)
<1> DEFINE c == SubSeq(q, 1, Len(d) + 1)
<1>1. Len(d) < Len(q)
  BY WithinSameLen, PathSeq DEF Above, Within
<1>2. c \in Path
  BY <1>1, PathSeq, PathAssumption
<1>3. Len(c) = Len(d) + 1
  <2>1. \A i \in 1..Len(d) + 1 : q[i] \in STRING
    BY <1>1, PathSeq, ElementOfSeq
  <2> QED
    BY <2>1, PathSeq, SubSeqProperties
<1>4. Within(c, q)
  BY <1>1, <1>3, PathSeq DEF Within
<1>5. Within(d, c)
  <2>1. Within(d, q) /\ Len(d) <= Len(c)
    BY <1>3, PathSeq DEF Above
  <2> QED
    BY <2>1, <1>2, <1>4, WithinLinear
<1> QED
  BY <1>2, <1>3, <1>4, <1>5

-----------------------------------------------------------------------------
(* Manifests and trees *)

\* What a line has below a directory, it has in a directory.
LEMMA LineIsTree ==
  ASSUME NEW m, WellFormed(m), NEW i \in 1..Len(m), NEW q \in Path,
         Provides(m[i], q) # "absent", NEW p \in Path, Above(p, q)
  PROVE  Provides(m[i], p) = "dir"
<1>1. IsTree(m[i].tree) /\ m[i] \in Line
  BY DEF WellFormed
<1>2. CASE m[i].kind = "D"
  BY <1>1, <1>2 DEF Provides, IsTree
<1>3. CASE m[i].kind = "F"
  <2>1. q = m[i].path \/ Above(q, m[i].path)
    BY <1>3 DEF Provides
  <2>2. m[i].path \in Path
    BY <1>1 DEF Line
  <2>3. Within(p, m[i].path)
    BY <2>1, <2>2, WithinTrans DEF Above
  <2>4. p # m[i].path
    <3>1. SUFFICES ASSUME p = m[i].path PROVE FALSE
      OBVIOUS
    <3>2. Within(q, p) /\ Within(p, q) /\ p # q
      BY <2>1, <3>1 DEF Above
    <3>3. Len(p) \in Nat /\ Len(q) \in Nat
      BY PathSeq
    <3>4. Len(p) <= Len(q) /\ Len(q) <= Len(p)
      BY <3>2 DEF Within
    <3> QED
      BY <3>2, <3>3, <3>4, WithinSameLen
  <2> QED
    BY <1>3, <2>3, <2>4 DEF Provides, Above
<1>4. CASE m[i].kind \notin {"D", "F"}
  BY <1>4 DEF Provides
<1> QED
  BY <1>2, <1>3, <1>4

\* A path has one first line.
LEMMA FirstIsUnique ==
  ASSUME NEW m \in Seq(Line), NEW i, NEW j, NEW p, IsFirst(m, i, p), IsFirst(m, j, p)
  PROVE  i = j
  BY DEF IsFirst

\* What may be at a path of the target: nothing, a directory or a file.
LEMMA EntryFacts ==
  /\ Absent # Dir
  /\ \A i : File(i) # Absent /\ File(i) # Dir /\ File(i).kind = "file"
  /\ \A i \in Nat : File(i) \in Entry
  /\ Absent \in Entry /\ Dir \in Entry
  /\ Dir.kind = "dir" /\ Absent.kind = "absent"
  /\ \A t \in Entry : t = Absent \/ t = Dir \/ t.kind = "file"
  BY DEF Absent, Dir, File, Entry

\* A successful create_dir_all changes nothing but absent paths, leaves the
\* directory and all that are above it, and a tree a tree.
LEMMA CreatedDirs ==
  ASSUME NEW t \in [Path -> Entry], NEW d \in Path,
         \A p \in Path : Within(p, d) => t[p].kind # "file",
         \A q \in Path : t[q] # Absent => \A p \in Path : Above(p, q) => t[p] = Dir
  PROVE  /\ WithDirs(t, d) \in [Path -> Entry]
         /\ \A p \in Path : t[p] # Absent => WithDirs(t, d)[p] = t[p]
         /\ \A p \in Path : Within(p, d) => WithDirs(t, d)[p] = Dir
         /\ \A p \in Path : ~ Within(p, d) => WithDirs(t, d)[p] = t[p]
         /\ \A q \in Path : WithDirs(t, d)[q] # Absent =>
              \A p \in Path : Above(p, q) => WithDirs(t, d)[p] = Dir
<1>1. WithDirs(t, d) \in [Path -> Entry]
  BY EntryFacts DEF WithDirs
<1>2. \A p \in Path : t[p] # Absent => WithDirs(t, d)[p] = t[p]
  BY DEF WithDirs
<1>3. \A p \in Path : Within(p, d) => WithDirs(t, d)[p] = Dir
  <2> TAKE p \in Path
  <2> HAVE Within(p, d)
  <2>1. t[p] \in Entry /\ t[p].kind # "file"
    OBVIOUS
  <2>2. t[p] = Absent \/ t[p] = Dir
    BY <2>1, EntryFacts
  <2> QED
    BY <2>2 DEF WithDirs
<1>4. \A p \in Path : ~ Within(p, d) => WithDirs(t, d)[p] = t[p]
  BY DEF WithDirs
<1>5. ASSUME NEW q \in Path, WithDirs(t, d)[q] # Absent, NEW p \in Path, Above(p, q)
      PROVE  WithDirs(t, d)[p] = Dir
  <2>1. CASE Within(q, d)
    BY <2>1, <1>3, <1>5, WithinTrans DEF Above
  <2>2. CASE ~ Within(q, d)
    <3>1. t[q] # Absent
      BY <2>2, <1>4, <1>5
    <3>2. t[p] = Dir
      BY <3>1, <1>5
    <3> QED
      BY <3>2, <1>2, EntryFacts
  <2> QED
    BY <2>1, <2>2
<1> QED
  BY <1>1, <1>2, <1>3, <1>4, <1>5

\* The stack below its top and the stack with e taken off the top listing.
LEMMA StackFacts ==
  ASSUME stack \in Seq(Frame), stack # << >>
  PROVE  /\ Len(stack) \in Nat \ {0}
         /\ Top \in Frame
         /\ Below \in Seq(Frame)
         /\ Len(Below) = Len(stack) - 1
         /\ \A k \in 1..Len(stack) - 1 : Below[k] = stack[k]
         /\ \A e : /\ Taken(e) \in Seq(Frame)
                   /\ Len(Taken(e)) = Len(stack)
                   /\ \A k \in 1..Len(stack) - 1 : Taken(e)[k] = stack[k]
                   /\ Taken(e)[Len(stack)].dir = Top.dir
                   /\ Taken(e)[Len(stack)].todo = Top.todo \ {e}
<1>1. Len(stack) \in Nat \ {0}
  BY EmptySeq
<1>2. \A k \in 1..Len(stack) : stack[k] \in Frame
  BY ElementOfSeq
<1>3. Top \in Frame
  BY <1>1, <1>2 DEF Top
<1>4. /\ Below \in Seq(Frame)
      /\ Len(Below) = Len(stack) - 1
      /\ \A k \in 1..Len(stack) - 1 : Below[k] = stack[k]
  <2> DEFINE n == Len(stack) - 1
  <2>1. n \in Int /\ \A k \in 1..n : stack[k] \in Frame
    BY <1>1, <1>2
  <2> HIDE DEF n
  <2> DEFINE b == SubSeq(stack, 1, n)
  <2>2. /\ b \in Seq(Frame)
        /\ Len(b) = IF 1 <= n THEN n - 1 + 1 ELSE 0
        /\ \A i \in 1..n - 1 + 1 : b[i] = stack[1 + i - 1]
    BY <2>1, SubSeqProperties
  <2> HIDE DEF b
  <2>3. n \in Nat /\ n = Len(stack) - 1
    BY <1>1 DEF n
  <2>4. Len(b) = n /\ \A k \in 1..n : b[k] = stack[k]
    BY <2>2, <2>3
  <2>5. b = Below
    BY DEF b, n, Below
  <2> QED
    BY <2>2, <2>3, <2>4, <2>5
<1>5. ASSUME NEW e
      PROVE  /\ Taken(e) \in Seq(Frame)
             /\ Len(Taken(e)) = Len(stack)
             /\ \A k \in 1..Len(stack) - 1 : Taken(e)[k] = stack[k]
             /\ Taken(e)[Len(stack)].dir = Top.dir
             /\ Taken(e)[Len(stack)].todo = Top.todo \ {e}
  <2> DEFINE f == [Top EXCEPT !.todo = @ \ {e}]
  <2>1. f \in Frame /\ f.dir = Top.dir /\ f.todo = Top.todo \ {e}
    BY <1>3 DEF Frame
  <2> HIDE DEF f
  <2>2. /\ Append(Below, f) \in Seq(Frame)
        /\ Len(Append(Below, f)) = Len(stack)
        /\ \A k \in 1..Len(stack) - 1 : Append(Below, f)[k] = Below[k]
        /\ Append(Below, f)[Len(stack)] = f
    BY <2>1, <1>1, <1>4
  <2> QED
    BY <2>1, <2>2, <1>4 DEF Taken, f
<1> QED
  BY <1>1, <1>3, <1>4, <1>5

-----------------------------------------------------------------------------
(* What the inductive invariant says of one step *)

\* What the current line has where nothing is yet, it is the first to have.
LEMMA NewIsFirst ==
  ASSUME IInv, line <= Len(manifest), NEW p \in Path,
         target[p] = Absent, Provides(Cur, p) # "absent"
  PROVE  IsFirst(manifest, line, p)
<1>1. line \in 1..Len(manifest)
  BY DEF IInv, TypeOK, WellFormed
<1>2. ASSUME NEW j \in 1..Len(manifest), j < line
      PROVE  Provides(manifest[j], p) = "absent"
  BY <1>2 DEF IInv, LinesMerged, Settled
<1> QED
  BY <1>1, <1>2 DEF IsFirst, Cur

\* A file in the way of a directory, or anything in the way of a file that has
\* a line of its own, comes from an earlier line.
LEMMA BlockedIsConflict ==
  ASSUME IInv, line <= Len(manifest), NEW p \in Path, p # Root,
         \/ Provides(Cur, p) = "dir" /\ target[p].kind = "file"
         \/ Cur.kind = "F" /\ p = Cur.path /\ target[p] # Absent /\ stack = << >>
  PROVE  HasConflict(manifest)
<1>1. line \in 1..Len(manifest) /\ manifest \in Seq(Line)
  BY DEF IInv, TypeOK, WellFormed
<1>2. target[p] # Absent
  BY EntryFacts
<1>3. PICK i \in 1..Len(manifest) :
        /\ i < line \/ (i = line /\ stack # << >>)
        /\ IsFirst(manifest, i, p)
        /\ target[p] = EntryOf(manifest, i, p)
  BY <1>2 DEF IInv, FromReachedLine
<1>4. CASE Provides(Cur, p) = "dir" /\ target[p].kind = "file"
  <2>1. Provides(manifest[i], p) # "dir" /\ Provides(manifest[i], p) # "absent"
    BY <1>3, <1>4, EntryFacts DEF EntryOf, IsFirst
  <2>2. Provides(manifest[i], p) = "file"
    <3>1. manifest[i] \in Line
      BY <1>1
    <3> QED
      BY <2>1, <3>1 DEF Provides, Line, EntryKind
  <2>3. i < line
    BY <1>3, <1>4, <2>2 DEF Cur
  <2>4. Conflict(manifest, line)
    BY <1>1, <1>3, <1>4, <2>2, <2>3 DEF Conflict, Cur
  <2> QED
    BY <1>1, <2>4 DEF HasConflict
<1>5. CASE Cur.kind = "F" /\ p = Cur.path /\ target[p] # Absent /\ stack = << >>
  <2>1. i < line /\ Provides(manifest[i], p) # "absent"
    BY <1>3, <1>5 DEF IsFirst
  <2>2. Conflict(manifest, line)
    BY <1>1, <1>5, <2>1 DEF Conflict, Cur
  <2> QED
    BY <1>1, <2>2 DEF HasConflict
<1> QED
  BY <1>4, <1>5

\* The listing of a directory leads to everything below it.
LEMMA ListingCovers ==
  ASSUME WellFormed(manifest), line \in 1..Len(manifest), Cur.kind = "D",
         NEW d \in Path, NEW p \in Path, Above(d, p), Cur.tree[p] # "absent"
  PROVE  \E c \in ReadDir(d) : Within(c, p)
<1>1. PICK c \in Path : Len(c) = Len(d) + 1 /\ Within(d, c) /\ Within(c, p)
  BY StepDown
<1>2. Cur.tree[c] # "absent"
  <2>1. CASE c = p
    BY <2>1
  <2>2. CASE c # p
    BY <2>2, <1>1, LineIsTree DEF Above, Cur, Provides
  <2> QED
    BY <2>1, <2>2
<1> QED
  BY <1>1, <1>2 DEF ReadDir

\* While the target only grows, what is merged stays merged.
LEMMA SettledStays ==
  ASSUME NEW i, NEW p \in Path, Settled(i, p), manifest' = manifest,
         target[p] # Absent => target'[p] = target[p]
  PROVE  Settled(i, p)'
  BY EntryFacts DEF Settled

\* A step that changes the status only.
LEMMA StatusStep ==
  ASSUME IInv, UNCHANGED <<manifest, line, stack, target>>,
         status' \in {"running", "done", "conflict", "ioerror"},
         StatusInv'
  PROVE  IInv'
<1>1. TypeOK'
  BY DEF IInv, TypeOK, WellFormed, IsTree
<1>2. target'[Root] = Dir /\ TargetIsTree'
  BY DEF IInv, TargetIsTree
<1>3. LinesMerged'
  BY DEF IInv, LinesMerged, Settled
<1>4. LineInProgress' /\ Listings'
  BY DEF IInv, LineInProgress, Listings, Settled, Pending, Cur
<1>5. FromReachedLine'
  BY DEF IInv, FromReachedLine, IsFirst, EntryOf
<1> QED
  BY <1>1, <1>2, <1>3, <1>4, <1>5 DEF IInv

-----------------------------------------------------------------------------
(* Every action keeps the inductive invariant *)

\* The line counter stays in the manifest, and the line it is at is a line.
LEMMA LineCounter ==
  ASSUME IInv
  PROVE  /\ manifest \in Seq(Line) /\ Len(manifest) \in Nat
         /\ line \in Nat \ {0} /\ line <= Len(manifest) + 1
         /\ line <= Len(manifest) => line \in 1..Len(manifest) /\ Cur \in Line
  BY DEF IInv, TypeOK, WellFormed, Cur

\* Ignoring a short line (main.rs:27-29) keeps the invariant.
LEMMA SkipLineStep ==
  ASSUME IInv, SkipLine
  PROVE  IInv'
<1> USE DEF SkipLine, AtLine
<1>1. \A p \in Path : Settled(line, p)
  BY DEF Settled, Provides, Cur
<1>2. TypeOK'
  BY LineCounter DEF IInv, TypeOK, WellFormed, IsTree
<1>3. LinesMerged'
  <2>1. ASSUME NEW i \in 1..Len(manifest), i < line + 1
        PROVE  manifest[i].kind # "other" /\ \A p \in Path : Settled(i, p)
    <3>1. CASE i = line
      BY <1>1, <3>1 DEF Cur
    <3>2. CASE i # line
      <4>1. i < line
        BY <2>1, <3>2, LineCounter
      <4> QED
        BY <4>1 DEF IInv, LinesMerged
    <3> QED
      BY <3>1, <3>2
  <2> QED
    BY <2>1 DEF LinesMerged, Settled
<1>4. FromReachedLine'
  <2>1. \A i \in 1..Len(manifest) : i < line => i < line + 1
    BY LineCounter
  <2> QED
    BY <2>1 DEF IInv, FromReachedLine, IsFirst, EntryOf
<1>5. target'[Root] = Dir /\ TargetIsTree' /\ StatusInv'
  BY DEF IInv, TargetIsTree, StatusInv
<1>6. LineInProgress' /\ Listings'
  BY DEF IInv, LineInProgress, Listings
<1> QED
  BY <1>2, <1>3, <1>4, <1>5, <1>6 DEF IInv

\* The panic for an unknown line type (main.rs:57) keeps the invariant.
LEMMA RejectLineStep ==
  ASSUME IInv, RejectLine
  PROVE  IInv'
<1>1. Conflict(manifest, line) /\ line \in 1..Len(manifest)
  BY LineCounter DEF RejectLine, AtLine, Conflict, Cur
<1>2. HasConflict(manifest)
  BY <1>1 DEF HasConflict
<1> QED
  BY <1>2, StatusStep DEF RejectLine, Panic, StatusInv, AtLine

\* The outermost call of copy_dir (main.rs:37) keeps the invariant.
LEMMA StartDirStep ==
  ASSUME IInv, StartDir
  PROVE  IInv'
<1> USE DEF StartDir, AtLine
<1>1. \A p \in Path : target'[p] = target[p]
  <2> TAKE p \in Path
  <2>1. CASE p = Root
    BY <2>1, EntryFacts DEF WithDirs, IInv
  <2>2. CASE p # Root
    <3>1. ~ Within(p, Root)
      <4>1. SUFFICES ASSUME Within(p, Root) PROVE FALSE
        OBVIOUS
      <4>2. Root \in Path /\ Len(Root) = 0
        BY PathAssumption DEF Root
      <4>3. Len(p) = Len(Root)
        BY <4>1, <4>2, PathSeq DEF Within
      <4> QED
        BY <2>2, <4>1, <4>2, <4>3, WithinSameLen
    <3> QED
      BY <3>1 DEF WithDirs
  <2> QED
    BY <2>1, <2>2
<1>2. Root \in Path /\ line \in 1..Len(manifest) /\ ReadDir(Root) \subseteq Path
  BY PathAssumption, LineCounter DEF ReadDir
<1>3. target' \in [Path -> Entry]
  BY <1>1 DEF IInv, TypeOK, WithDirs
<1>4. /\ stack' \in Seq(Frame) /\ Len(stack') = 1 /\ stack' # << >>
      /\ stack'[1].dir = Root /\ stack'[1].todo = ReadDir(Root)
  <2>1. [dir |-> Root, todo |-> ReadDir(Root)] \in Frame
    BY <1>2 DEF Frame
  <2> QED
    BY <2>1
<1>5. TypeOK'
  BY <1>3, <1>4, LineCounter DEF IInv, TypeOK, WellFormed, IsTree
<1>6. target'[Root] = Dir /\ TargetIsTree'
  BY <1>1, <1>2 DEF IInv, TargetIsTree
<1>7. \A i, p : p \in Path /\ Settled(i, p) => Settled(i, p)'
  BY <1>1, SettledStays
<1>8. LinesMerged'
  BY <1>7 DEF IInv, LinesMerged
<1>9. LineInProgress'
  <2>1. ASSUME NEW p \in Path
        PROVE  Settled(line, p)' \/ Pending(p)'
    <3>1. CASE Cur.tree[p] = "absent"
      BY <3>1 DEF Settled, Provides, Cur
    <3>2. CASE p = Root
      BY <3>2, <1>6, EntryFacts DEF Settled, Provides, Cur
    <3>3. CASE p # Root /\ Cur.tree[p] # "absent"
      <4>1. Above(Root, p)
        BY <3>3, RootWithin DEF Above
      <4>2. PICK c \in ReadDir(Root) : Within(c, p)
        BY <1>2, <3>3, <4>1, ListingCovers DEF IInv, TypeOK
      <4> QED
        BY <4>2, <1>4 DEF Pending
    <3> QED
      BY <3>1, <3>2, <3>3
  <2> QED
    BY <2>1 DEF LineInProgress, Cur
<1>10. Listings'
  <2>1. \A p \in Path : Within(p, Root) => target'[p] = Dir
    <3> TAKE p \in Path
    <3> HAVE Within(p, Root)
    <3>1. Len(p) = Len(Root)
      BY <1>2, PathSeq DEF Within, Root
    <3>2. p = Root
      BY <1>2, <3>1, WithinSameLen
    <3> QED
      BY <1>6, <3>2
  <2> QED
    BY <2>1, <1>4 DEF Listings, ReadDir
<1>11. FromReachedLine'
  BY <1>1, <1>4 DEF IInv, FromReachedLine, IsFirst, EntryOf
<1>12. StatusInv'
  BY DEF IInv, StatusInv
<1> QED
  BY <1>5, <1>6, <1>8, <1>9, <1>10, <1>11, <1>12 DEF IInv

\* What was pending still is, unless it was below the entry taken.
LEMMA TakenPending ==
  ASSUME stack \in Seq(Frame), stack # << >>, NEW e, NEW p, Pending(p), ~ Within(e, p),
         stack' \in Seq(Frame), Len(stack') >= Len(stack),
         \A k \in 1..Len(stack) : stack'[k] = Taken(e)[k]
  PROVE  Pending(p)'
<1>1. PICK k \in 1..Len(stack) : \E x \in stack[k].todo : Within(x, p)
  BY DEF Pending
<1>2. PICK x \in stack[k].todo : Within(x, p)
  BY <1>1
<1>3. x \in Taken(e)[k].todo
  <2>1. CASE k = Len(stack)
    <3>1. stack[k] = Top
      BY <2>1 DEF Top
    <3> QED
      BY <1>2, <2>1, <3>1, StackFacts
  <2>2. CASE k # Len(stack)
    <3>1. k \in 1..Len(stack) - 1
      BY <2>2, StackFacts
    <3> QED
      BY <1>2, <3>1, StackFacts
  <2> QED
    BY <2>1, <2>2
<1>4. k \in 1..Len(stack') /\ x \in stack'[k].todo
  BY <1>3, StackFacts, LenProperties
<1> QED
  BY <1>2, <1>4 DEF Pending, Within

\* Taking an entry leaves the listings as they were but for the entry.
LEMMA TakenListings ==
  ASSUME IInv, stack # << >>, NEW e, NEW k \in 1..Len(stack)
  PROVE  /\ Taken(e)[k].dir = stack[k].dir
         /\ Taken(e)[k].todo \subseteq stack[k].todo
<1>1. stack \in Seq(Frame)
  BY DEF IInv, TypeOK
<1>2. CASE k = Len(stack)
  <2>1. stack[k] = Top
    BY <1>2 DEF Top
  <2> QED
    BY <1>1, <1>2, <2>1, StackFacts
<1>3. CASE k # Len(stack)
  <2>1. k \in 1..Len(stack) - 1
    BY <1>1, <1>3, StackFacts
  <2> QED
    BY <1>1, <2>1, StackFacts
<1> QED
  BY <1>2, <1>3

\* The recursive call of copy_dir (main.rs:70) keeps the invariant.
LEMMA EnterDirStep ==
  ASSUME IInv, NEW e \in Path, EnterDir(e)
  PROVE  IInv'
<1> USE DEF EnterDir, Listing
<1>1. /\ stack \in Seq(Frame) /\ Len(stack) \in Nat \ {0}
      /\ Cur.kind = "D" /\ line \in 1..Len(manifest) /\ WellFormed(manifest)
  BY StackFacts, LineCounter DEF IInv, TypeOK, LineInProgress
<1>2. \A p \in Path : Within(p, e) => Provides(Cur, p) = "dir"
  BY <1>1, LineIsTree DEF Provides, Above, Cur
<1>3. CASE ~ CanCreateDirs(e)
  <2>1. PICK p \in Path : Within(p, e) /\ target[p].kind = "file"
    BY <1>3 DEF CanCreateDirs
  <2>2. p # Root
    BY <2>1, EntryFacts DEF IInv
  <2>3. HasConflict(manifest)
    BY <1>1, <1>2, <2>1, <2>2, BlockedIsConflict
  <2> QED
    BY <1>3, <2>3, StatusStep DEF Panic, StatusInv
<1>4. CASE CanCreateDirs(e)
  <2>1. /\ target' = WithDirs(target, e)
        /\ stack' = Append(Taken(e), [dir |-> e, todo |-> ReadDir(e)])
        /\ UNCHANGED <<manifest, line, status>>
    BY <1>4
  <2>2. /\ target' \in [Path -> Entry]
        /\ \A p \in Path : target[p] # Absent => target'[p] = target[p]
        /\ \A p \in Path : Within(p, e) => target'[p] = Dir
        /\ \A p \in Path : ~ Within(p, e) => target'[p] = target[p]
        /\ TargetIsTree'
    BY <1>4, <2>1, CreatedDirs DEF IInv, TypeOK, CanCreateDirs, TargetIsTree
  <2>3. /\ stack' \in Seq(Frame)
        /\ Len(stack') = Len(stack) + 1
        /\ \A k \in 1..Len(stack) : stack'[k] = Taken(e)[k]
        /\ stack'[Len(stack) + 1].dir = e
        /\ stack'[Len(stack) + 1].todo = ReadDir(e)
    <3> DEFINE f == [dir |-> e, todo |-> ReadDir(e)]
    <3>1. f \in Frame /\ f.dir = e /\ f.todo = ReadDir(e)
      BY DEF Frame, ReadDir
    <3>2. Taken(e) \in Seq(Frame) /\ Len(Taken(e)) = Len(stack)
      BY <1>1, StackFacts
    <3> HIDE DEF f
    <3>3. /\ Append(Taken(e), f) \in Seq(Frame)
          /\ Len(Append(Taken(e), f)) = Len(stack) + 1
          /\ \A k \in 1..Len(stack) : Append(Taken(e), f)[k] = Taken(e)[k]
          /\ Append(Taken(e), f)[Len(stack) + 1] = f
      BY <3>1, <3>2, AppendProperties
    <3> QED
      BY <2>1, <3>1, <3>3 DEF f
  <2>4. TypeOK'
    BY <2>1, <2>2, <2>3, LineCounter DEF IInv, TypeOK, WellFormed, IsTree
  <2>5. target'[Root] = Dir
    BY <2>2, PathAssumption, EntryFacts DEF IInv
  <2>6. \A i, p : p \in Path /\ Settled(i, p) => Settled(i, p)'
    BY <2>1, <2>2, SettledStays
  <2>7. LinesMerged'
    BY <2>1, <2>6 DEF IInv, LinesMerged
  <2>8. LineInProgress'
    <3>1. ASSUME NEW p \in Path
          PROVE  Settled(line, p)' \/ Pending(p)'
      <4>1. CASE Settled(line, p)
        BY <2>1, <2>6, <4>1
      <4>2. CASE Pending(p) /\ ~ Within(e, p)
        BY <1>1, <2>3, <4>2, TakenPending
      <4>3. CASE Cur.tree[p] = "absent"
        BY <1>1, <2>1, <4>3 DEF Settled, Provides, Cur
      <4>4. CASE p = e
        BY <1>1, <2>1, <2>2, <4>4, WithinRefl, EntryFacts DEF Settled, Provides, Cur
      <4>5. CASE Within(e, p) /\ p # e /\ Cur.tree[p] # "absent"
        <5>1. PICK c \in ReadDir(e) : Within(c, p)
          BY <1>1, <4>5, ListingCovers DEF Above
        <5>2. Len(stack) + 1 \in 1..Len(stack')
          BY <1>1, <2>3
        <5> QED
          BY <2>3, <5>1, <5>2 DEF Pending
      <4> QED
        BY <4>1, <4>2, <4>3, <4>4, <4>5 DEF IInv, LineInProgress
    <3> QED
      BY <1>1, <2>1, <3>1, LineCounter DEF LineInProgress, Cur
  <2>9. Listings'
    <3>1. ASSUME NEW k \in 1..Len(stack')
          PROVE  /\ \A p \in Path : Within(p, stack'[k].dir) => target'[p] = Dir
                 /\ \A x \in stack'[k].todo :
                      Len(x) = Len(stack'[k].dir) + 1 /\ Within(stack'[k].dir, x)
      <4>1. CASE k = Len(stack) + 1
        BY <2>2, <2>3, <4>1 DEF ReadDir
      <4>2. CASE k \in 1..Len(stack)
        <5>1. stack'[k].dir = stack[k].dir /\ stack'[k].todo \subseteq stack[k].todo
          BY <2>3, <4>2, TakenListings
        <5> QED
          BY <2>2, <4>2, <5>1, EntryFacts DEF IInv, Listings
      <4> QED
        BY <1>1, <2>3, <4>1, <4>2
    <3> QED
      BY <3>1 DEF Listings, Within
  <2>10. FromReachedLine'
    <3>1. ASSUME NEW p \in Path, p # Root, target'[p] # Absent
          PROVE  \E i \in 1..Len(manifest) :
                   /\ i <= line
                   /\ IsFirst(manifest, i, p)
                   /\ target'[p] = EntryOf(manifest, i, p)
      <4>1. CASE target[p] # Absent
        BY <2>2, <3>1, <4>1, LineCounter DEF IInv, FromReachedLine
      <4>2. CASE target[p] = Absent
        <5>1. Provides(Cur, p) = "dir" /\ target'[p] = Dir
          BY <1>2, <2>2, <3>1, <4>2
        <5> QED
          BY <1>1, <4>2, <5>1, NewIsFirst, LineCounter DEF EntryOf, Cur
      <4> QED
        BY <4>1, <4>2
    <3>2. stack' # << >>
      BY <1>1, <2>3, EmptySeq
    <3> QED
      BY <2>1, <3>1, <3>2, LineCounter DEF FromReachedLine, IsFirst, EntryOf
  <2> QED
    BY <2>1, <2>2, <2>4, <2>5, <2>7, <2>8, <2>9, <2>10 DEF IInv, StatusInv
<1> QED
  BY <1>3, <1>4

\* Copying an entry, or leaving it out (main.rs:75-77), keeps the invariant.
LEMMA CopyEntryStep ==
  ASSUME IInv, NEW e \in Path, CopyEntry(e)
  PROVE  IInv'
<1> USE DEF CopyEntry, Listing
<1>1. /\ stack \in Seq(Frame) /\ Len(stack) \in Nat \ {0}
      /\ Cur.kind = "D" /\ line \in 1..Len(manifest) /\ WellFormed(manifest)
      /\ e \in Top.todo /\ Top = stack[Len(stack)]
  BY StackFacts, LineCounter DEF IInv, TypeOK, LineInProgress, Top
<1>2. Provides(Cur, e) = "file"
  BY <1>1 DEF Provides
<1>3. /\ target' \in [Path -> Entry]
      /\ \A p \in Path : target[p] # Absent => target'[p] = target[p]
      /\ \A p \in Path : p # e => target'[p] = target[p]
      /\ target[e] = Absent => target'[e] = File(line)
      /\ target'[e] # Absent
  BY <1>1, EntryFacts DEF IInv, TypeOK
<1>4. /\ stack' \in Seq(Frame) /\ Len(stack') = Len(stack) /\ stack' # << >>
      /\ \A k \in 1..Len(stack) : stack'[k] = Taken(e)[k]
  BY <1>1, StackFacts, EmptySeq
<1>5. TypeOK'
  BY <1>3, <1>4, LineCounter DEF IInv, TypeOK, WellFormed, IsTree
<1>6. target'[Root] = Dir
  BY <1>3, PathAssumption, EntryFacts DEF IInv
<1>7. TargetIsTree'
  <2>1. ASSUME NEW p \in Path, Above(p, e)
        PROVE  target[p] = Dir
    <3> DEFINE d == stack[Len(stack)].dir
    <3>1. d \in Path /\ Len(e) = Len(d) + 1 /\ Within(d, e)
      <4>1. Len(stack) \in 1..Len(stack) /\ stack[Len(stack)] \in Frame
        BY <1>1, ElementOfSeq
      <4> QED
        BY <1>1, <4>1 DEF IInv, Listings, Frame
    <3>2. Len(p) # Len(e) /\ Len(p) <= Len(e)
      BY <2>1, WithinSameLen DEF Above, Within
    <3>3. Len(p) <= Len(d)
      BY <3>1, <3>2, PathSeq
    <3>4. Within(p, d)
      BY <2>1, <3>1, <3>3, WithinLinear DEF Above
    <3> QED
      BY <1>1, <3>4 DEF IInv, Listings
  <2>2. ASSUME NEW q \in Path, target'[q] # Absent, NEW p \in Path, Above(p, q)
        PROVE  target'[p] = Dir
    <3>1. CASE q = e
      BY <1>3, <2>1, <2>2, <3>1, EntryFacts
    <3>2. CASE q # e
      BY <1>3, <2>2, <3>2, EntryFacts DEF IInv, TargetIsTree
    <3> QED
      BY <3>1, <3>2
  <2> QED
    BY <2>2 DEF TargetIsTree
<1>8. \A i, p : p \in Path /\ Settled(i, p) => Settled(i, p)'
  BY <1>3, SettledStays
<1>9. LinesMerged'
  BY <1>8 DEF IInv, LinesMerged
<1>10. LineInProgress'
  <2>1. ASSUME NEW p \in Path
        PROVE  Settled(line, p)' \/ Pending(p)'
    <3>1. CASE Settled(line, p)
      BY <1>8, <3>1
    <3>2. CASE Pending(p) /\ ~ Within(e, p)
      BY <1>1, <1>4, <3>2, TakenPending
    <3>3. CASE p = e
      BY <1>1, <1>2, <1>3, <3>3 DEF Settled, Cur
    <3>4. CASE Within(e, p) /\ p # e
      <4>1. Provides(Cur, p) = "absent"
        BY <1>1, <1>2, <3>4, LineIsTree DEF Above, Cur
      <4> QED
        BY <1>1, <4>1 DEF Settled, Cur
    <3> QED
      BY <3>1, <3>2, <3>3, <3>4 DEF IInv, LineInProgress
  <2> QED
    BY <1>1, <2>1, LineCounter DEF LineInProgress, Cur
<1>11. Listings'
  <2>1. ASSUME NEW k \in 1..Len(stack')
        PROVE  /\ \A p \in Path : Within(p, stack'[k].dir) => target'[p] = Dir
               /\ \A x \in stack'[k].todo :
                    Len(x) = Len(stack'[k].dir) + 1 /\ Within(stack'[k].dir, x)
    <3>1. stack'[k].dir = stack[k].dir /\ stack'[k].todo \subseteq stack[k].todo
      BY <1>4, TakenListings
    <3> QED
      BY <1>3, <1>4, <3>1, EntryFacts DEF IInv, Listings
  <2> QED
    BY <2>1 DEF Listings, Within
<1>12. FromReachedLine'
  <2>1. ASSUME NEW p \in Path, p # Root, target'[p] # Absent
        PROVE  \E i \in 1..Len(manifest) :
                 /\ i <= line
                 /\ IsFirst(manifest, i, p)
                 /\ target'[p] = EntryOf(manifest, i, p)
    <3>1. CASE target[p] # Absent
      BY <1>3, <2>1, <3>1, LineCounter DEF IInv, FromReachedLine
    <3>2. CASE target[p] = Absent
      <4>1. p = e /\ target'[p] = File(line)
        BY <1>3, <2>1, <3>2
      <4> QED
        BY <1>1, <1>2, <3>2, <4>1, NewIsFirst, LineCounter DEF EntryOf, Cur
    <3> QED
      BY <3>1, <3>2
  <2> QED
    BY <1>4, <2>1, LineCounter DEF FromReachedLine, IsFirst, EntryOf
<1> QED
  BY <1>5, <1>6, <1>7, <1>9, <1>10, <1>11, <1>12 DEF IInv, StatusInv

\* The return from copy_dir (main.rs:80) keeps the invariant.
LEMMA LeaveDirStep ==
  ASSUME IInv, LeaveDir
  PROVE  IInv'
<1> USE DEF LeaveDir
<1>1. /\ stack \in Seq(Frame) /\ Len(stack) \in Nat \ {0}
      /\ Cur.kind = "D" /\ line \in 1..Len(manifest)
      /\ Top.todo = {} /\ Top = stack[Len(stack)]
  BY StackFacts, LineCounter DEF IInv, TypeOK, LineInProgress, Top
<1>2. /\ stack' \in Seq(Frame) /\ Len(stack') = Len(stack) - 1
      /\ \A k \in 1..Len(stack) - 1 : stack'[k] = stack[k]
  BY <1>1, StackFacts
<1>3. \A p \in Path : Settled(line, p) \/ \E k \in 1..Len(stack) - 1 :
                                              \E e \in stack[k].todo : Within(e, p)
  <2> TAKE p \in Path
  <2>1. CASE Pending(p)
    <3>1. PICK k \in 1..Len(stack) : \E e \in stack[k].todo : Within(e, p)
      BY <2>1 DEF Pending
    <3>2. k # Len(stack)
      BY <1>1, <3>1
    <3>3. k \in 1..Len(stack) - 1
      BY <1>1, <3>2
    <3> QED
      BY <3>1, <3>3
  <2> QED
    BY <2>1 DEF IInv, LineInProgress
<1>4. target'[Root] = Dir /\ TargetIsTree'
  BY DEF IInv, TargetIsTree
<1>5. Listings'
  BY <1>1, <1>2 DEF IInv, Listings
<1>6. CASE Len(stack) # 1
  <2>1. line' = line /\ stack' # << >>
    BY <1>1, <1>2, <1>6, EmptySeq
  <2>2. TypeOK'
    BY <1>2, <2>1 DEF IInv, TypeOK, WellFormed, IsTree
  <2>3. LinesMerged'
    BY <2>1 DEF IInv, LinesMerged, Settled
  <2>4. LineInProgress'
    <3>1. ASSUME NEW p \in Path
          PROVE  Settled(line, p)' \/ Pending(p)'
      <4>1. CASE Settled(line, p)
        BY <2>1, <4>1 DEF Settled
      <4>2. CASE ~ Settled(line, p)
        <5>1. PICK k \in 1..Len(stack) - 1 : \E e \in stack[k].todo : Within(e, p)
          BY <1>3, <4>2
        <5>2. k \in 1..Len(stack') /\ stack'[k] = stack[k]
          BY <1>2, <5>1
        <5> QED
          BY <5>1, <5>2 DEF Pending, Within
      <4> QED
        BY <4>1, <4>2
    <3> QED
      BY <1>1, <2>1, <3>1, LineCounter DEF LineInProgress, Cur
  <2>5. FromReachedLine'
    BY <2>1 DEF IInv, FromReachedLine, IsFirst, EntryOf
  <2> QED
    BY <1>4, <1>5, <2>1, <2>2, <2>3, <2>4, <2>5 DEF IInv, StatusInv
<1>7. CASE Len(stack) = 1
  <2>1. line' = line + 1 /\ stack' = << >>
    BY <1>1, <1>2, <1>7, EmptySeq
  <2>2. TypeOK'
    BY <1>1, <1>2, <2>1, LineCounter DEF IInv, TypeOK, WellFormed, IsTree
  <2>3. \A p \in Path : Settled(line, p)
    BY <1>3, <1>7
  <2>4. LinesMerged'
    <3>1. ASSUME NEW i \in 1..Len(manifest), i < line + 1
          PROVE  manifest[i].kind # "other" /\ \A p \in Path : Settled(i, p)
      <4>1. CASE i = line
        BY <1>1, <2>3, <4>1 DEF Cur
      <4>2. CASE i # line
        <5>1. i < line
          BY <3>1, <4>2, LineCounter
        <5> QED
          BY <5>1 DEF IInv, LinesMerged
      <4> QED
        BY <4>1, <4>2
    <3> QED
      BY <2>1, <3>1 DEF LinesMerged, Settled
  <2>5. LineInProgress'
    BY <2>1 DEF LineInProgress
  <2>6. FromReachedLine'
    <3>1. \A i \in 1..Len(manifest) : i < line \/ i = line => i < line + 1
      BY LineCounter
    <3> QED
      BY <2>1, <3>1 DEF IInv, FromReachedLine, IsFirst, EntryOf
  <2> QED
    BY <1>4, <1>5, <2>1, <2>2, <2>4, <2>5, <2>6 DEF IInv, StatusInv
<1> QED
  BY <1>6, <1>7

\* An F line (main.rs:44-55) keeps the invariant.
LEMMA CopyLineStep ==
  ASSUME IInv, CopyLine
  PROVE  IInv'
<1> USE DEF CopyLine, AtLine
<1> DEFINE f == Cur.path
<1>1. /\ Cur.kind = "F" /\ line \in 1..Len(manifest) /\ WellFormed(manifest)
      /\ stack = << >> /\ f \in Path /\ f # Root /\ Cur = manifest[line]
  BY LineCounter DEF IInv, TypeOK, WellFormed, Line, Cur
<1>2. Provides(Cur, f) = "file" /\ \A p \in Path : Above(p, f) => Provides(Cur, p) = "dir"
  BY <1>1 DEF Provides, Above
<1>3. CASE ~ (CanCreateDirs(f) /\ target[f] = Absent)
  <2>1. HasConflict(manifest)
    <3>1. CASE target[f] # Absent
      BY <1>1, <3>1, BlockedIsConflict
    <3>2. CASE target[f] = Absent
      <4>1. PICK p \in Path : Within(p, f) /\ target[p].kind = "file"
        BY <1>3, <3>2 DEF CanCreateDirs
      <4>2. p # f /\ p # Root
        BY <3>2, <4>1, EntryFacts DEF IInv
      <4> QED
        BY <1>1, <1>2, <4>1, <4>2, BlockedIsConflict DEF Above
    <3> QED
      BY <3>1, <3>2
  <2> QED
    BY <1>3, <2>1, StatusStep DEF Panic, StatusInv
<1>4. CASE CanCreateDirs(f) /\ target[f] = Absent
  <2> DEFINE t == WithDirs(target, f)
  <2>1. /\ target' = [t EXCEPT ![f] = File(line)]
        /\ line' = line + 1
        /\ UNCHANGED <<manifest, stack, status>>
    BY <1>4
  <2>2. /\ t \in [Path -> Entry]
        /\ \A p \in Path : target[p] # Absent => t[p] = target[p]
        /\ \A p \in Path : Within(p, f) => t[p] = Dir
        /\ \A p \in Path : ~ Within(p, f) => t[p] = target[p]
        /\ \A q \in Path : t[q] # Absent => \A p \in Path : Above(p, q) => t[p] = Dir
    BY <1>1, <1>4, CreatedDirs DEF IInv, TypeOK, CanCreateDirs, TargetIsTree
  <2> HIDE DEF t
  <2>3. /\ target' \in [Path -> Entry]
        /\ target'[f] = File(line)
        /\ \A p \in Path : target[p] # Absent => target'[p] = target[p]
        /\ \A p \in Path : Above(p, f) => target'[p] = Dir
        /\ \A p \in Path : ~ Within(p, f) => target'[p] = target[p]
    BY <1>1, <1>4, <2>1, <2>2, WithinRefl, EntryFacts DEF Above
  <2>4. TypeOK'
    BY <1>1, <2>1, <2>3, LineCounter DEF IInv, TypeOK, WellFormed, IsTree
  <2>5. target'[Root] = Dir
    BY <2>3, PathAssumption, EntryFacts DEF IInv
  <2>6. TargetIsTree'
    <3>1. ASSUME NEW q \in Path, target'[q] # Absent, NEW p \in Path, Above(p, q)
          PROVE  target'[p] = Dir
      <4>1. CASE Within(q, f)
        <5>1. Within(p, f)
          BY <3>1, <4>1, <1>1, WithinTrans DEF Above
        <5>2. p # f
          <6>1. SUFFICES ASSUME p = f PROVE FALSE
            OBVIOUS
          <6>2. Within(p, q) /\ Within(q, p) /\ p # q
            BY <3>1, <4>1, <6>1 DEF Above
          <6>3. Len(p) \in Nat /\ Len(q) \in Nat /\ Len(p) <= Len(q) /\ Len(q) <= Len(p)
            BY <6>2, PathSeq DEF Within
          <6> QED
            BY <6>2, <6>3, WithinSameLen
        <5> QED
          BY <2>3, <5>1, <5>2 DEF Above
      <4>2. CASE ~ Within(q, f)
        BY <2>3, <3>1, <4>2, EntryFacts DEF IInv, TargetIsTree
      <4> QED
        BY <4>1, <4>2
    <3> QED
      BY <3>1 DEF TargetIsTree
  <2>7. \A i, p : p \in Path /\ Settled(i, p) => Settled(i, p)'
    BY <2>1, <2>3, SettledStays
  <2>9. LinesMerged'
    <3>1. ASSUME NEW i \in 1..Len(manifest), i < line + 1
          PROVE  manifest[i].kind # "other" /\ \A p \in Path : Settled(i, p)'
      <4>1. CASE i = line
        <5>1. manifest[i].kind # "other"
          BY <1>1, <4>1
        <5>2. ASSUME NEW p \in Path
              PROVE  Settled(i, p)'
          <6>1. CASE p = f
            BY <1>1, <1>2, <2>1, <2>3, <4>1, <6>1, EntryFacts DEF Settled
          <6>2. CASE Above(p, f)
            BY <1>1, <1>2, <2>1, <2>3, <4>1, <6>2, EntryFacts DEF Settled, Above
          <6>3. CASE p # f /\ ~ Above(p, f)
            BY <1>1, <2>1, <4>1, <6>3 DEF Settled, Provides
          <6> QED
            BY <6>1, <6>2, <6>3
        <5> QED
          BY <5>1, <5>2
      <4>2. CASE i # line
        <5>1. i < line
          BY <3>1, <4>2, LineCounter
        <5> QED
          BY <2>7, <5>1 DEF IInv, LinesMerged
      <4> QED
        BY <4>1, <4>2
    <3> QED
      BY <2>1, <3>1 DEF LinesMerged
  <2>10. LineInProgress' /\ Listings'
    BY <1>1, <2>1 DEF LineInProgress, Listings
  <2>11. FromReachedLine'
    <3>1. ASSUME NEW p \in Path, p # Root, target'[p] # Absent
          PROVE  \E i \in 1..Len(manifest) :
                   /\ i < line + 1
                   /\ IsFirst(manifest, i, p)
                   /\ target'[p] = EntryOf(manifest, i, p)
      <4>1. CASE target[p] # Absent
        <5>1. \A i \in 1..Len(manifest) : i < line => i < line + 1
          BY LineCounter
        <5> QED
          BY <1>1, <2>3, <3>1, <4>1, <5>1 DEF IInv, FromReachedLine
      <4>2. CASE target[p] = Absent
        <5>1. /\ Provides(Cur, p) # "absent"
              /\ target'[p] = EntryOf(manifest, line, p)
          <6>1. CASE p = f
            BY <1>1, <1>2, <2>3, <6>1 DEF EntryOf
          <6>2. CASE p # f
            BY <1>1, <1>2, <2>3, <3>1, <4>2, <6>2 DEF EntryOf, Above
          <6> QED
            BY <6>1, <6>2
        <5>2. IsFirst(manifest, line, p)
          BY <1>1, <4>2, <5>1, NewIsFirst
        <5> QED
          BY <1>1, <5>1, <5>2, LineCounter
      <4> QED
        BY <4>1, <4>2
    <3> QED
      BY <2>1, <3>1 DEF FromReachedLine, IsFirst, EntryOf
  <2> QED
    BY <2>1, <2>3, <2>4, <2>5, <2>6, <2>9, <2>10, <2>11 DEF IInv, StatusInv
<1> QED
  BY <1>3, <1>4

-----------------------------------------------------------------------------
(* The theorems *)

\* The invariant holds when the merger starts.
LEMMA InitInv == Init => IInv
<1> SUFFICES ASSUME Init PROVE IInv
  OBVIOUS
<1> USE DEF Init
<1>1. WellFormed(manifest) /\ Root \in Path
  BY ManifestAssumption, PathAssumption
<1>2. \A p \in Path : target[p] = IF p = Root THEN Dir ELSE Absent
  BY DEF EmptyTree
<1>3. target \in [Path -> Entry]
  BY EntryFacts DEF EmptyTree
<1>4. TypeOK
  BY <1>1, <1>3, EmptySeq DEF TypeOK, WellFormed
<1>5. TargetIsTree
  <2>1. ASSUME NEW p \in Path PROVE ~ Above(p, Root)
    <3>1. SUFFICES ASSUME Above(p, Root) PROVE FALSE
      OBVIOUS
    <3>2. Len(p) = Len(Root)
      BY <1>1, <3>1, PathSeq DEF Above, Within, Root
    <3> QED
      BY <1>1, <3>1, <3>2, WithinSameLen DEF Above
  <2> QED
    BY <1>2, <2>1 DEF TargetIsTree
<1>6. LinesMerged
  BY <1>1 DEF LinesMerged, WellFormed
<1>7. LineInProgress /\ Listings /\ FromReachedLine /\ StatusInv
  BY <1>2 DEF LineInProgress, Listings, FromReachedLine, StatusInv
<1> QED
  BY <1>1, <1>2, <1>4, <1>5, <1>6, <1>7 DEF IInv

\* Every step of the merger keeps the invariant.
LEMMA NextInv == IInv /\ [Next]_vars => IInv'
<1> SUFFICES ASSUME IInv, [Next]_vars PROVE IInv'
  OBVIOUS
<1>1. CASE SkipLine
  BY <1>1, SkipLineStep
<1>2. CASE RejectLine
  BY <1>2, RejectLineStep
<1>3. CASE StartDir
  BY <1>3, StartDirStep
<1>4. CASE LeaveDir
  BY <1>4, LeaveDirStep
<1>5. CASE CopyLine
  BY <1>5, CopyLineStep
<1>6. CASE \E e \in Path : EnterDir(e) \/ CopyEntry(e)
  BY <1>6, EnterDirStep, CopyEntryStep
<1>7. CASE IoError
  BY <1>7, StatusStep DEF IoError, Panic, StatusInv
<1>8. CASE Exit
  BY <1>8, LineCounter, StatusStep DEF Exit, StatusInv
<1>9. CASE UNCHANGED vars
  BY <1>9, StatusStep DEF vars, IInv, TypeOK, StatusInv
<1> QED
  BY <1>1, <1>2, <1>3, <1>4, <1>5, <1>6, <1>7, <1>8, <1>9 DEF Next

\* The inductive invariant holds of every state of the merger (main.rs:24-81):
\* earlier lines are merged and what is left of the current one is on the stack.
THEOREM Invariance == Spec => []IInv
  BY InitInv, NextInv, PTL DEF Spec

\* The variables of the merger keep their types.
THEOREM TypeCorrect == Spec => []TypeOK
<1>1. IInv => TypeOK
  BY DEF IInv
<1> QED
  BY <1>1, Invariance, PTL

\* What is in the target comes from the first line of the manifest that has
\* anything at that path, whatever the order fs::read_dir lists entries in.
THEOREM FirstPluginWins == Spec => []FirstWins
<1>1. IInv => FirstWins
  BY DEF IInv, FromReachedLine, FirstWins
<1> QED
  BY <1>1, Invariance, PTL

\* The loop over the lines is over only with all lines merged.
LEMMA AllMerged ==
  ASSUME IInv, line = Len(manifest) + 1, NEW i \in 1..Len(manifest)
  PROVE  manifest[i].kind # "other" /\ \A p \in Path : Settled(i, p)
<1>1. i < line
  BY LineCounter
<1> QED
  BY <1>1 DEF IInv, LinesMerged

\* Exit status 0 means that everything the plugins generated is in the target.
THEOREM Complete == Spec => []NothingLost
<1>1. IInv => NothingLost
  BY AllMerged DEF IInv, StatusInv, NothingLost, Settled
<1> QED
  BY <1>1, Invariance, PTL

\* With all its lines merged a manifest has no conflict.
LEMMA MergedHasNoConflict ==
  ASSUME IInv, line = Len(manifest) + 1
  PROVE  ~ HasConflict(manifest)
<1>1. SUFFICES ASSUME NEW j \in 1..Len(manifest), Conflict(manifest, j) PROVE FALSE
  BY DEF HasConflict
<1>2. manifest \in Seq(Line) /\ WellFormed(manifest)
  BY DEF IInv, TypeOK, WellFormed
<1>3. manifest[j].kind # "other" /\ \A p \in Path : Settled(j, p)
  BY AllMerged
<1>4. PICK i \in 1..Len(manifest), p \in Path :
        /\ i < j
        /\ \/ /\ IsFirst(manifest, i, p)
              /\ Provides(manifest[i], p) = "file"
              /\ Provides(manifest[j], p) = "dir"
           \/ /\ manifest[j].kind = "F"
              /\ p = manifest[j].path
              /\ Provides(manifest[i], p) # "absent"
  BY <1>1, <1>3 DEF Conflict
<1>5. Provides(manifest[i], p) # "absent" /\ Settled(i, p) /\ Settled(j, p)
  BY <1>3, <1>4, AllMerged
<1>6. CASE p = Root
  <2>1. Provides(manifest[j], Root) # "file" /\ Provides(manifest[i], Root) # "file"
    BY <1>2 DEF Provides, WellFormed, IsTree
  <2>2. manifest[j].path # Root
    BY <1>2 DEF WellFormed
  <2> QED
    BY <1>4, <1>6, <2>1, <2>2
<1>7. CASE p # Root
  <2>1. target[p] # Absent
    BY <1>5 DEF Settled
  <2>2. PICK k \in 1..Len(manifest) :
          IsFirst(manifest, k, p) /\ target[p] = EntryOf(manifest, k, p)
    BY <1>7, <2>1 DEF IInv, FromReachedLine
  <2>3. k <= i /\ k # j
    <3>1. ~ (i < k)
      BY <1>5, <2>2 DEF IsFirst
    <3> QED
      BY <1>2, <1>4, <3>1
  <2>4. CASE IsFirst(manifest, i, p) /\ Provides(manifest[i], p) = "file"
               /\ Provides(manifest[j], p) = "dir"
    <3>1. target[p] = Dir
      BY <1>5, <2>4 DEF Settled
    <3>2. target[p] = File(i)
      BY <1>2, <2>2, <2>4, FirstIsUnique DEF EntryOf
    <3> QED
      BY <3>1, <3>2, EntryFacts
  <2>5. CASE manifest[j].kind = "F" /\ p = manifest[j].path
    <3>1. target[p] = File(j)
      BY <1>5, <2>5 DEF Settled
    <3>2. target[p] = Dir \/ target[p] = File(k)
      BY <2>2 DEF EntryOf
    <3> QED
      BY <2>3, <3>1, <3>2, EntryFacts DEF File
  <2> QED
    BY <1>4, <2>4, <2>5
<1> QED
  BY <1>6, <1>7

\* The merger rejects a manifest exactly when two of its lines conflict.
THEOREM PanicsOnlyOnConflict == Spec => []PanicsExactlyOnConflict
<1>1. IInv => PanicsExactlyOnConflict
  BY MergedHasNoConflict DEF IInv, StatusInv, PanicsExactlyOnConflict
<1> QED
  BY <1>1, Invariance, PTL

\* No path of the output directory is written twice (main.rs:72-77).
LEMMA StepWritesOnce == IInv /\ [Next]_vars => WriteOnceStep \/ UNCHANGED vars
<1> SUFFICES ASSUME IInv, Next PROVE WriteOnceStep
  BY DEF WriteOnceStep
<1>1. ASSUME NEW e \in Path, EnterDir(e) PROVE WriteOnceStep
  BY <1>1, EntryFacts DEF EnterDir, Listing, WriteOnceStep, WithDirs, Panic
<1>2. ASSUME NEW e \in Path, CopyEntry(e) PROVE WriteOnceStep
  BY <1>2 DEF CopyEntry, Listing, WriteOnceStep, IInv, TypeOK
<1>3. CASE StartDir
  BY <1>3 DEF StartDir, AtLine, WriteOnceStep, WithDirs
<1>4. CASE CopyLine
  <2>1. CASE CanCreateDirs(Cur.path) /\ target[Cur.path] = Absent
    BY <1>4, <2>1 DEF CopyLine, AtLine, WriteOnceStep, WithDirs
  <2>2. CASE ~ (CanCreateDirs(Cur.path) /\ target[Cur.path] = Absent)
    BY <1>4, <2>2 DEF CopyLine, AtLine, WriteOnceStep, Panic
  <2> QED
    BY <2>1, <2>2
<1>5. CASE SkipLine \/ RejectLine \/ LeaveDir \/ IoError \/ Exit
  BY <1>5 DEF SkipLine, RejectLine, LeaveDir, IoError, Exit, AtLine, Panic, WriteOnceStep
<1> QED
  BY <1>1, <1>2, <1>3, <1>4, <1>5 DEF Next

\* The merger (main.rs:24-81) never writes a path of the target twice, and
\* nothing after its end.
THEOREM WrittenOnce == Spec => WriteOnce
  BY Invariance, StepWritesOnce, PTL DEF Spec, WriteOnce

-----------------------------------------------------------------------------
(* The merger comes to its end *)

\* The frames of the stack.
LEMMA FrameFacts ==
  ASSUME IInv, NEW k \in 1..Len(stack)
  PROVE  /\ stack \in Seq(Frame) /\ Len(stack) \in Nat \ {0} /\ stack # << >>
         /\ stack[k].dir \in Path /\ stack[k].todo \subseteq Path
         /\ k = Len(stack) => stack[k] = Top
         /\ \A x \in stack[k].todo : Len(x) = Len(stack[k].dir) + 1 /\ Within(stack[k].dir, x)
<1>1. stack \in Seq(Frame) /\ Len(stack) \in Nat \ {0} /\ stack # << >>
  <2>1. stack \in Seq(Frame) /\ Len(stack) \in Nat
    BY LenProperties DEF IInv, TypeOK
  <2> QED
    BY <2>1, EmptySeq
<1>2. stack[k] \in Frame
  BY <1>1, ElementOfSeq
<1> QED
  BY <1>1, <1>2 DEF Frame, Top, IInv, Listings

\* Nothing that is still to be taken when e is has e in it or below it.
LEMMA OthersApart ==
  ASSUME IInv, ListedOnce, stack # << >>, NEW e \in Top.todo,
         NEW k \in 1..Len(stack), NEW x \in Taken(e)[k].todo
  PROVE  x \in Path /\ ~ Within(x, e)
<1>1. /\ stack \in Seq(Frame) /\ Len(stack) \in Nat \ {0} /\ Len(stack) \in 1..Len(stack)
      /\ stack[Len(stack)] = Top
  BY StackFacts DEF IInv, TypeOK, Top
<1>2. /\ Top.dir \in Path /\ e \in Path /\ Len(e) = Len(Top.dir) + 1 /\ Within(Top.dir, e)
  BY <1>1, FrameFacts
<1>3. x \in stack[k].todo
  BY TakenListings
<1>4. x \in Path /\ Len(x) = Len(stack[k].dir) + 1
  BY <1>3, FrameFacts
<1>5. /\ Len(stack[k].dir) = k - 1 /\ Len(Top.dir) = Len(stack) - 1
      /\ ~ Within(x, Top.dir)
  BY <1>1, <1>3 DEF ListedOnce
<1>6. CASE k = Len(stack)
  <2>1. x # e
    BY <1>1, <1>6, StackFacts
  <2> QED
    BY <1>2, <1>4, <1>5, <1>6, <2>1, WithinSameLen
<1>7. CASE k # Len(stack)
  <2>1. Len(x) <= Len(Top.dir)
    BY <1>1, <1>4, <1>5, <1>7, PathSeq
  <2> QED
    BY <1>2, <1>4, <1>5, <2>1, WithinLinear
<1> QED
  BY <1>4, <1>6, <1>7

\* A step that takes e off the top listing and may begin to list e itself.
LEMMA EntryTaken ==
  ASSUME IInv, ListedOnce, stack # << >>, NEW e \in Top.todo, Cur' = Cur,
         stack' \in Seq(Frame), Len(stack') >= Len(stack), Len(stack') \in Nat,
         \A k \in 1..Len(stack) : stack'[k] = Taken(e)[k],
         \A k \in 1..Len(stack') : k > Len(stack) =>
           \A x \in stack'[k].todo : x \in Path /\ Within(e, x) /\ ~ Within(x, e)
  PROVE  Left' \subseteq Left /\ Left' # Left
<1>1. /\ stack \in Seq(Frame) /\ Len(stack) \in Nat \ {0} /\ Len(stack) \in 1..Len(stack)
      /\ stack[Len(stack)] = Top
  BY StackFacts DEF IInv, TypeOK, Top
<1>2. e \in Path /\ e \in stack[Len(stack)].todo
  BY <1>1, FrameFacts
<1>3. ASSUME NEW p \in Path, Pending(p)'
      PROVE  Pending(p)
  <2>1. PICK k \in 1..Len(stack') : \E x \in stack'[k].todo : Within(x, p)
    BY <1>3 DEF Pending, Within
  <2>2. PICK x \in stack'[k].todo : Within(x, p)
    BY <2>1
  <2>3. CASE k <= Len(stack)
    <3>1. k \in 1..Len(stack)
      BY <1>1, <2>3
    <3>2. x \in stack[k].todo
      BY <2>2, <3>1, TakenListings
    <3> QED
      BY <2>2, <3>1, <3>2 DEF Pending
  <2>4. CASE k > Len(stack)
    <3>1. x \in Path /\ Within(e, x)
      BY <2>2, <2>4
    <3>2. Within(e, p)
      BY <1>2, <2>2, <3>1, WithinTrans
    <3> QED
      BY <1>1, <1>2, <3>2 DEF Pending
  <2> QED
    BY <1>1, <2>3, <2>4
<1>4. e \in Left
  <2>1. Pending(e)
    BY <1>1, <1>2, WithinRefl DEF Pending
  <2> QED
    BY <1>1, <1>2, <2>1 DEF Left, ListedOnce
<1>5. e \notin Left'
  <2> SUFFICES ASSUME Pending(e)' PROVE FALSE
    BY DEF Left
  <2>1. PICK k \in 1..Len(stack') : \E x \in stack'[k].todo : Within(x, e)
    BY DEF Pending, Within
  <2>2. PICK x \in stack'[k].todo : Within(x, e)
    BY <2>1
  <2>3. CASE k <= Len(stack)
    <3>1. k \in 1..Len(stack) /\ x \in Taken(e)[k].todo
      BY <1>1, <2>2, <2>3
    <3> QED
      BY <2>2, <3>1, OthersApart
  <2>4. CASE k > Len(stack)
    BY <2>2, <2>4
  <2> QED
    BY <1>1, <2>3, <2>4
<1>6. Left' \subseteq Left
  BY <1>3 DEF Left
<1> QED
  BY <1>4, <1>5, <1>6

\* The recursive call lists a directory that is not listed again.
LEMMA EnterDirOnce ==
  ASSUME IInv, ListedOnce, NEW e \in Path, EnterDir(e), CanCreateDirs(e)
  PROVE  /\ ListedOnce'
         /\ line' = line /\ stack # << >> /\ stack' # << >>
         /\ Left' \subseteq Left /\ Left' # Left
<1>1. /\ stack \in Seq(Frame) /\ stack # << >> /\ Len(stack) \in Nat \ {0}
      /\ Len(stack) \in 1..Len(stack) /\ stack[Len(stack)] = Top
      /\ e \in Top.todo /\ UNCHANGED <<manifest, line, status>> /\ Cur' = Cur
  BY StackFacts DEF IInv, TypeOK, Top, EnterDir, Listing, Cur
<1> DEFINE f == [dir |-> e, todo |-> ReadDir(e)]
<1>2. /\ stack' = Append(Taken(e), f) /\ f \in Frame /\ f.dir = e /\ f.todo = ReadDir(e)
  BY DEF EnterDir, Frame, ReadDir
<1>3. Taken(e) \in Seq(Frame) /\ Len(Taken(e)) = Len(stack)
  BY <1>1, StackFacts
<1> HIDE DEF f
<1>4. /\ stack' \in Seq(Frame) /\ Len(stack') = Len(stack) + 1
      /\ \A k \in 1..Len(stack) : stack'[k] = Taken(e)[k]
      /\ stack'[Len(stack) + 1].dir = e /\ stack'[Len(stack) + 1].todo = ReadDir(e)
  <2>1. /\ Append(Taken(e), f) \in Seq(Frame)
        /\ Len(Append(Taken(e), f)) = Len(stack) + 1
        /\ \A k \in 1..Len(stack) : Append(Taken(e), f)[k] = Taken(e)[k]
        /\ Append(Taken(e), f)[Len(stack) + 1] = f
    BY <1>2, <1>3, AppendProperties
  <2> QED
    BY <1>2, <2>1
<1>5. /\ Top.dir \in Path /\ Len(e) = Len(Top.dir) + 1 /\ Within(Top.dir, e)
      /\ Len(Top.dir) = Len(stack) - 1
  BY <1>1, FrameFacts DEF ListedOnce
<1>6. \A x \in ReadDir(e) : /\ x \in Path /\ Within(e, x) /\ ~ Within(x, e)
                            /\ Cur.tree[x] # "absent"
  BY PathSeq DEF ReadDir, Within
<1>7. Top' = stack'[Len(stack) + 1] /\ Top.dir' = e
  BY <1>4 DEF Top
<1>8. ListedOnce'
  <2>1. ASSUME NEW k \in 1..Len(stack')
        PROVE  /\ Len(stack'[k].dir) = k - 1
               /\ Within(stack'[k].dir, e)
               /\ \A x \in stack'[k].todo : Cur.tree[x] # "absent" /\ ~ Within(x, e)
    <3>1. CASE k = Len(stack) + 1
      BY <1>1, <1>4, <1>5, <1>6, <3>1, WithinRefl, PathSeq
    <3>2. CASE k # Len(stack) + 1
      <4>1. k \in 1..Len(stack)
        BY <1>1, <1>4, <3>2
      <4>2. stack'[k].dir = stack[k].dir /\ stack'[k].todo \subseteq stack[k].todo
        BY <1>1, <1>4, <4>1, TakenListings
      <4>3. /\ stack[k].dir \in Path /\ Len(stack[k].dir) = k - 1 /\ Within(stack[k].dir, Top.dir)
            /\ \A x \in stack[k].todo : Cur.tree[x] # "absent"
        BY <4>1, FrameFacts DEF ListedOnce
      <4>4. Within(stack[k].dir, e)
        BY <1>5, <4>3, WithinTrans
      <4>5. \A x \in stack'[k].todo : ~ Within(x, e)
        BY <1>1, <1>4, <4>1, OthersApart
      <4> QED
        BY <4>2, <4>3, <4>4, <4>5
    <3> QED
      BY <3>1, <3>2
  <2> QED
    BY <1>1, <1>7, <2>1 DEF ListedOnce, Within
<1>9. Left' \subseteq Left /\ Left' # Left
  <2>1. \A k \in 1..Len(stack') : k > Len(stack) => k = Len(stack) + 1
    BY <1>1, <1>4
  <2> QED
    BY <1>1, <1>4, <1>6, <2>1, EntryTaken
<1>10. stack' # << >>
  BY <1>1, <1>4, EmptySeq
<1> QED
  BY <1>1, <1>8, <1>9, <1>10

\* A file is taken once.
LEMMA CopyEntryOnce ==
  ASSUME IInv, ListedOnce, NEW e \in Path, CopyEntry(e)
  PROVE  /\ ListedOnce'
         /\ line' = line /\ stack # << >> /\ stack' # << >>
         /\ Left' \subseteq Left /\ Left' # Left
<1>1. /\ stack \in Seq(Frame) /\ stack # << >> /\ Len(stack) \in Nat \ {0}
      /\ Len(stack) \in 1..Len(stack) /\ stack[Len(stack)] = Top
      /\ e \in Top.todo /\ UNCHANGED <<manifest, line, status>> /\ Cur' = Cur
  BY StackFacts DEF IInv, TypeOK, Top, CopyEntry, Listing, Cur
<1>2. /\ stack' \in Seq(Frame) /\ Len(stack') = Len(stack)
      /\ \A k \in 1..Len(stack) : stack'[k] = Taken(e)[k]
  BY <1>1, StackFacts DEF CopyEntry
<1>3. Top' = stack'[Len(stack)] /\ Top.dir' = Top.dir
  BY <1>1, <1>2, StackFacts DEF Top
<1>4. ListedOnce'
  <2>1. ASSUME NEW k \in 1..Len(stack')
        PROVE  stack'[k].dir = stack[k].dir /\ stack'[k].todo \subseteq stack[k].todo
    BY <1>1, <1>2, TakenListings
  <2> QED
    BY <1>1, <1>2, <1>3, <2>1 DEF ListedOnce, Within
<1>5. Left' \subseteq Left /\ Left' # Left
  <2>1. \A k \in 1..Len(stack') : ~ (k > Len(stack))
    BY <1>1, <1>2
  <2> QED
    BY <1>1, <1>2, <2>1, EntryTaken
<1>6. stack' # << >>
  BY <1>1, <1>2, EmptySeq
<1> QED
  BY <1>1, <1>4, <1>5, <1>6

\* The return to the directory above, with what was left still to be taken.
LEMMA LeaveDirOnce ==
  ASSUME IInv, ListedOnce, LeaveDir
  PROVE  ListedOnce' /\ NearerStep
<1>1. /\ stack \in Seq(Frame) /\ stack # << >> /\ Len(stack) \in Nat \ {0}
      /\ Len(stack) \in 1..Len(stack) /\ stack[Len(stack)] = Top /\ Top.todo = {}
  BY StackFacts DEF IInv, TypeOK, Top, LeaveDir
<1>2. /\ stack' \in Seq(Frame) /\ Len(stack') = Len(stack) - 1
      /\ \A k \in 1..Len(stack) - 1 : stack'[k] = stack[k]
  BY <1>1, StackFacts DEF LeaveDir
<1>3. CASE Len(stack) = 1
  <2>1. line' = line + 1 /\ Len(stack') = 0
    BY <1>2, <1>3 DEF LeaveDir
  <2> QED
    BY <2>1 DEF NearerStep, ListedOnce
<1>4. CASE Len(stack) # 1
  <2> DEFINE n == Len(stack) - 1
  <2>1. /\ n \in 1..Len(stack) /\ n \in 1..n /\ line' = line /\ Cur' = Cur
        /\ Top' = stack[n] /\ Top.dir' = stack[n].dir
    BY <1>1, <1>2, <1>4 DEF LeaveDir, Cur, Top
  <2>2. stack' # << >> /\ Len(stack') < Len(stack)
    BY <1>1, <1>2, <1>4, EmptySeq
  <2>3. /\ stack[n].dir \in Path /\ Top.dir \in Path
        /\ Len(stack[n].dir) = n - 1 /\ Within(stack[n].dir, Top.dir)
    BY <1>1, <2>1, FrameFacts DEF ListedOnce
  <2>4. ASSUME NEW k \in 1..n
        PROVE  /\ Len(stack'[k].dir) = k - 1
               /\ Within(stack'[k].dir, stack[n].dir)
               /\ \A x \in stack'[k].todo : Cur.tree[x] # "absent" /\ ~ Within(x, stack[n].dir)
    <3>1. k \in 1..Len(stack) /\ stack'[k] = stack[k]
      BY <1>1, <1>2
    <3>2. /\ stack[k].dir \in Path /\ stack[k].todo \subseteq Path
          /\ Len(stack[k].dir) = k - 1 /\ Within(stack[k].dir, Top.dir)
          /\ \A x \in stack[k].todo : Cur.tree[x] # "absent" /\ ~ Within(x, Top.dir)
      BY <3>1, FrameFacts DEF ListedOnce
    <3>3. Len(stack[k].dir) <= Len(stack[n].dir)
      BY <1>1, <2>3, <3>2
    <3>4. Within(stack[k].dir, stack[n].dir)
      BY <2>3, <3>2, <3>3, WithinLinear
    <3>5. \A x \in stack[k].todo : ~ Within(x, stack[n].dir)
      BY <2>3, <3>2, WithinTrans
    <3> QED
      BY <3>1, <3>2, <3>4, <3>5
  <2>5. ListedOnce'
    BY <1>2, <2>1, <2>4 DEF ListedOnce, Within
  <2>6. \A p : Pending(p)' <=> Pending(p)
    <3> SUFFICES ASSUME NEW p PROVE Pending(p)' <=> Pending(p)
      OBVIOUS
    <3>1. \A k \in 1..n : k \in 1..Len(stack) /\ stack'[k] = stack[k]
      BY <1>1, <1>2
    <3>2. \A k \in 1..Len(stack) : k # Len(stack) => k \in 1..n
      BY <1>1
    <3>3. Pending(p)' <=> \E k \in 1..n : \E x \in stack[k].todo : Within(x, p)
      BY <1>2, <3>1 DEF Pending, Within
    <3>4. Pending(p) <=> \E k \in 1..n : \E x \in stack[k].todo : Within(x, p)
      BY <1>1, <3>1, <3>2 DEF Pending
    <3> QED
      BY <3>3, <3>4
  <2>7. Left' = Left
    BY <2>1, <2>6 DEF Left
  <2> QED
    BY <1>1, <2>1, <2>2, <2>5, <2>7 DEF NearerStep
<1> QED
  BY <1>3, <1>4

\* A line's listings begin with that of its root.
LEMMA StartDirOnce ==
  ASSUME IInv, StartDir
  PROVE  ListedOnce' /\ line' = line /\ stack = << >> /\ stack' # << >>
<1> DEFINE f == [dir |-> Root, todo |-> ReadDir(Root)]
<1>1. /\ stack' = <<f>> /\ f.dir = Root /\ f.todo = ReadDir(Root)
      /\ line' = line /\ stack = << >> /\ Cur' = Cur
  BY DEF StartDir, AtLine, Cur
<1> HIDE DEF f
<1>2. Len(stack') = 1 /\ stack'[1] = f /\ stack' # << >> /\ Top' = f
  BY <1>1 DEF Top
<1>3. /\ Root \in Path /\ Len(Root) = 0
      /\ \A x \in ReadDir(Root) : Cur.tree[x] # "absent" /\ ~ Within(x, Root)
  <2>1. Root \in Path /\ Len(Root) = 0
    BY PathAssumption DEF Root
  <2> QED
    BY <2>1, PathSeq DEF ReadDir, Within
<1>4. \A k \in 1..Len(stack') : stack'[k] = f /\ k = 1
  BY <1>2
<1>5. ListedOnce'
  BY <1>1, <1>2, <1>3, <1>4, WithinRefl DEF ListedOnce, Within
<1> QED
  BY <1>1, <1>2, <1>5

LEMMA StepNearer ==
  ASSUME IInv, ListedOnce, [Next]_vars
  PROVE  ListedOnce' /\ (NearerStep \/ UNCHANGED vars)
<1>1. CASE SkipLine \/ (CopyLine /\ status' = status)
  <2>1. stack' = << >> /\ line' = line + 1
    BY <1>1 DEF SkipLine, CopyLine, AtLine, Panic
  <2> QED
    BY <2>1 DEF ListedOnce, NearerStep
<1>2. ASSUME UNCHANGED <<manifest, line, stack>>, status' # "running"
      PROVE  ListedOnce' /\ NearerStep
  BY <1>2 DEF ListedOnce, NearerStep, Top, Cur, Within
<1>3. CASE StartDir
  BY <1>3, StartDirOnce DEF NearerStep
<1>4. CASE LeaveDir
  BY <1>4, LeaveDirOnce
<1>5. ASSUME NEW e \in Path, EnterDir(e)
      PROVE  ListedOnce' /\ NearerStep
  <2>1. CASE CanCreateDirs(e)
    <3>1. /\ ListedOnce' /\ line' = line /\ stack # << >> /\ stack' # << >>
          /\ Left' \subseteq Left /\ Left' # Left
      BY <1>5, <2>1, EnterDirOnce
    <3> QED
      BY <3>1 DEF NearerStep
  <2>2. CASE ~ CanCreateDirs(e)
    BY <1>2, <1>5, <2>2 DEF EnterDir, Panic
  <2> QED
    BY <2>1, <2>2
<1>6. ASSUME NEW e \in Path, CopyEntry(e)
      PROVE  ListedOnce' /\ NearerStep
  <2>1. /\ ListedOnce' /\ line' = line /\ stack # << >> /\ stack' # << >>
        /\ Left' \subseteq Left /\ Left' # Left
    BY <1>6, CopyEntryOnce
  <2> QED
    BY <2>1 DEF NearerStep
<1>7. CASE RejectLine \/ IoError \/ Exit \/ (CopyLine /\ status' # status)
  <2>1. UNCHANGED <<manifest, line, stack>> /\ status' # "running"
    BY <1>7 DEF RejectLine, IoError, Exit, CopyLine, AtLine, Panic
  <2> QED
    BY <1>2, <2>1
<1>8. CASE UNCHANGED vars
  BY <1>8 DEF vars, ListedOnce, Top, Cur, Within
<1> QED
  BY <1>1, <1>3, <1>4, <1>5, <1>6, <1>7, <1>8 DEF Next

LEMMA InitListedOnce == Init => ListedOnce
BY DEF Init, ListedOnce

\* The merger's listings (main.rs:62-80) are finite and give each entry once, in
\* any order: every step brings the end of the merge nearer.
THEOREM NearerEnd == Spec => EverNearer
BY Invariance, StepNearer, InitListedOnce, PTL DEF Spec, EverNearer

\* The merger is never without a step before its end.
THEOREM NoDeadEnd == Spec => []NeverStuck
<1>1. IInv /\ ListedOnce => NeverStuck
  <2> SUFFICES ASSUME IInv, ListedOnce, status = "running", line <= Len(manifest),
                      \A k \in LineKind : ~ AtLine(k), ~ (stack # << >> /\ Top.todo = {})
               PROVE  \E e \in Path : Listing(e) /\ Cur.tree[e] \in {"dir", "file"}
    BY LineCounter DEF NeverStuck
  <2>1. line \in 1..Len(manifest) /\ Cur \in Line
    BY LineCounter, ElementOfSeq DEF IInv, TypeOK, WellFormed, Cur
  <2>2. stack # << >>
    BY <2>1 DEF AtLine, Line
  <2>3. /\ Len(stack) \in 1..Len(stack) /\ stack[Len(stack)] = Top
    BY <2>2, StackFacts DEF IInv, TypeOK, Top
  <2>4. PICK e \in Top.todo : TRUE
    BY <2>2
  <2>5. e \in Path /\ Cur.tree[e] # "absent"
    BY <2>3, <2>4, FrameFacts DEF ListedOnce
  <2>6. Cur.tree[e] \in {"dir", "file"}
    BY <2>1, <2>5 DEF Line, EntryKind
  <2> QED
    BY <2>2, <2>5, <2>6 DEF Listing
<1> QED
  BY <1>1, Invariance, StepNearer, InitListedOnce, PTL DEF Spec

-----------------------------------------------------------------------------
(* The merger implements MergedTree *)

\* The operators on manifests are the same seen through the instance.
LEMMA SamePlan ==
  /\ Promise!Absent = Absent /\ Promise!Dir = Dir /\ Promise!Root = Root
  /\ Promise!Entry = Entry /\ Promise!EmptyTree = EmptyTree
  /\ \A m : Promise!WellFormed(m) = WellFormed(m)
  /\ \A m : Promise!HasConflict(m) = HasConflict(m)
  /\ \A m, i, p : Promise!IsFirst(m, i, p) = IsFirst(m, i, p)
  /\ \A m, i, p : Promise!EntryOf(m, i, p) = EntryOf(m, i, p)
  BY DEF Promise!Absent, Promise!Dir, Promise!Root, Promise!Entry, Promise!EmptyTree,
         Promise!WellFormed, Promise!HasConflict, Promise!IsFirst, Promise!EntryOf,
         Promise!Line, Promise!LineKind, Promise!EntryKind, Promise!IsTree, Promise!Above,
         Promise!Within, Promise!Conflict, Promise!Provides, Promise!File,
         Absent, Dir, Root, Entry, EmptyTree, WellFormed, HasConflict, IsFirst, EntryOf,
         Line, LineKind, EntryKind, IsTree, Above, Within, Conflict, Provides, File

\* The merger starts where MergedTree does.
LEMMA InitImplements == Init => Promise!Init
  BY SamePlan, ManifestAssumption DEF Init, Promise!Init

\* A step that lets the target grow as FromReachedLine allows.
LEMMA GrowStep ==
  ASSUME IInv, IInv', status = "running", status' = "running", manifest' = manifest,
         WriteOnceStep
  PROVE  Promise!Grow
<1>1. target' \in [Path -> Entry]
  BY DEF IInv, TypeOK
<1>2. ASSUME NEW p \in Path, target'[p] # target[p]
      PROVE  /\ target[p] = Absent
             /\ \E i \in 1..Len(manifest) :
                  IsFirst(manifest, i, p) /\ target'[p] = EntryOf(manifest, i, p)
  <2>1. target[p] = Absent
    BY <1>2 DEF WriteOnceStep
  <2>2. target'[p] # Absent /\ p # Root
    BY <1>2, <2>1 DEF IInv
  <2> QED
    BY <2>1, <2>2 DEF IInv, FromReachedLine, IsFirst, EntryOf
<1> QED
  BY <1>1, <1>2, SamePlan DEF Promise!Grow

\* The end of the loop is the success that MergedTree allows.
LEMMA ExitStep ==
  ASSUME IInv, Exit
  PROVE  Promise!Succeed
<1>1. line = Len(manifest) + 1
  BY LineCounter DEF Exit
<1>2. ASSUME NEW p \in Path, NEW i \in 1..Len(manifest), IsFirst(manifest, i, p), p # Root
      PROVE  target[p] = EntryOf(manifest, i, p)
  <2>1. target[p] # Absent
    BY <1>1, <1>2, AllMerged DEF Settled, IsFirst
  <2>2. PICK k \in 1..Len(manifest) :
          IsFirst(manifest, k, p) /\ target[p] = EntryOf(manifest, k, p)
    BY <1>2, <2>1 DEF IInv, FromReachedLine
  <2> QED
    BY <1>2, <2>2, FirstIsUnique DEF IInv, TypeOK, WellFormed
<1> QED
  BY <1>1, <1>2, MergedHasNoConflict, SamePlan DEF Exit, Promise!Succeed

\* A panic of the merger is a failure that MergedTree allows.
LEMMA PanicStep ==
  ASSUME IInv, IInv', status = "running", Panic("conflict") \/ Panic("ioerror")
  PROVE  Promise!Fail
<1>1. CASE Panic("conflict")
  BY <1>1, SamePlan DEF Panic, Promise!Fail, IInv, StatusInv
<1>2. CASE Panic("ioerror")
  BY <1>2 DEF Panic, Promise!Fail
<1> QED
  BY <1>1, <1>2

\* Every step of the merger is one of MergedTree or changes nothing it sees.
LEMMA NextImplements == IInv /\ IInv' /\ [Next]_vars => [Promise!Next]_Promise!vars
<1> SUFFICES ASSUME IInv, IInv', Next PROVE Promise!Next
  BY DEF vars, Promise!vars
<1>1. WriteOnceStep \/ UNCHANGED vars
  BY StepWritesOnce
<1>2. WriteOnceStep
  BY <1>1 DEF vars, WriteOnceStep
<1>3. CASE RejectLine \/ IoError
  BY <1>3, PanicStep DEF RejectLine, IoError, AtLine, Promise!Next
<1>4. CASE Exit
  BY <1>4, ExitStep DEF Promise!Next
<1>5. CASE SkipLine \/ StartDir \/ LeaveDir
  BY <1>2, <1>5, GrowStep DEF SkipLine, StartDir, LeaveDir, AtLine, Promise!Next
<1>6. CASE CopyLine
  <2>1. CASE CanCreateDirs(Cur.path) /\ target[Cur.path] = Absent
    BY <1>2, <1>6, <2>1, GrowStep DEF CopyLine, AtLine, Promise!Next
  <2>2. CASE ~ (CanCreateDirs(Cur.path) /\ target[Cur.path] = Absent)
    BY <1>6, <2>2, PanicStep DEF CopyLine, AtLine, Promise!Next
  <2> QED
    BY <2>1, <2>2
<1>7. ASSUME NEW e \in Path, EnterDir(e) PROVE Promise!Next
  <2>1. CASE CanCreateDirs(e)
    BY <1>2, <1>7, <2>1, GrowStep DEF EnterDir, Listing, Promise!Next
  <2>2. CASE ~ CanCreateDirs(e)
    BY <1>7, <2>2, PanicStep DEF EnterDir, Listing, Promise!Next
  <2> QED
    BY <2>1, <2>2
<1>8. ASSUME NEW e \in Path, CopyEntry(e) PROVE Promise!Next
  BY <1>2, <1>8, GrowStep DEF CopyEntry, Listing, Promise!Next
<1> QED
  BY <1>3, <1>4, <1>5, <1>6, <1>7, <1>8 DEF Next

\* The merger (main.rs:24-81) implements MergedTree: entry by entry and in any
\* order of listing it builds the tree in which the first line wins.
THEOREM Implements == Spec => ImplementsMergedTree
  BY Invariance, InitImplements, NextImplements, PTL
     DEF Spec, ImplementsMergedTree, Promise!Spec
=============================================================================
