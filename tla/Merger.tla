------------------------------- MODULE Merger -------------------------------
(***************************************************************************)
(* The merger tool, modules/core/tools/merger/main.rs.  proto_compile runs *)
(* it when a plugin declares an output directory: it copies the trees that *)
(* the plugins wrote into the one directory the target declares.           *)
(*                                                                         *)
(* One action is one entry of a directory or one line of the manifest.     *)
(* fs::read_dir lists a directory in no particular order, so the entry     *)
(* that copy_dir takes next is any that is left.  The recursion of         *)
(* copy_dir is the stack of the directories being listed.                  *)
(***************************************************************************)
EXTENDS MergePlan

VARIABLES
  manifest,  \* manifest_lines
  line,      \* the line being merged
  stack,     \* the calls of copy_dir: each its directory and the entries left
  target,    \* target_dir
  status     \* "running", "done", "conflict" (a panic), "ioerror" (a panic)

vars == <<manifest, line, stack, target, status>>

Frame == [dir : Path, todo : SUBSET Path]

TypeOK ==
  /\ WellFormed(manifest)
  /\ line \in 1..(Len(manifest) + 1)
  /\ stack \in Seq(Frame)
  /\ target \in [Path -> Entry]
  /\ status \in {"running", "done", "conflict", "ioerror"}

\* Variant: lines counted from 0.
InitFromZero ==
  /\ manifest \in Manifests
  /\ line = 0
  /\ stack = << >>
  /\ target = EmptyTree
  /\ status = "running"

Init ==
  /\ manifest \in Manifests
  /\ line = 1
  /\ stack = << >>
  /\ target = EmptyTree
  /\ status = "running"

-----------------------------------------------------------------------------

Cur == manifest[line]

AtLine(k) ==
  /\ status = "running"
  /\ stack = << >>
  /\ line <= Len(manifest)
  /\ Cur.kind = k

\* Variant: only the files of a directory are listed.
ReadDirFiles(d) ==
  {p \in Path : Len(p) = Len(d) + 1 /\ Within(d, p) /\ Cur.tree[p] = "file"}

\* fs::read_dir(d): the entries of a directory of the current D line.
ReadDir(d) ==
  {p \in Path : /\ Len(p) = Len(d) + 1
                /\ Within(d, p)
                /\ Cur.tree[p] # "absent"}

\* fs::create_dir_all(d), which fails when a file is in the way.
CanCreateDirs(d) == \A p \in Path : Within(p, d) => target[p].kind # "file"

WithDirs(t, d) == [p \in Path |-> IF Within(p, d) /\ t[p] = Absent THEN Dir ELSE t[p]]

Panic(why) == status' = why /\ UNCHANGED <<manifest, line, stack, target>>

-----------------------------------------------------------------------------

\* Variant: the next line is not taken.
SkipLineForever == AtLine("short") /\ UNCHANGED vars

\* A line shorter than three characters is ignored.
SkipLine ==
  /\ AtLine("short")
  /\ line' = line + 1
  /\ UNCHANGED <<manifest, stack, target, status>>

\* A line that starts with anything but D or F is a panic.
RejectLine == AtLine("other") /\ Panic("conflict")

\* The outermost copy_dir(source_path, target_dir) of a D line.
StartDir ==
  /\ AtLine("D")
  /\ target' = WithDirs(target, Root)
  /\ stack' = <<[dir |-> Root, todo |-> ReadDir(Root)]>>
  /\ UNCHANGED <<manifest, line, status>>

Top == stack[Len(stack)]

\* The calls below the top one, and the top one with e off its listing.
Below == SubSeq(stack, 1, Len(stack) - 1)
Taken(e) == Append(Below, [Top EXCEPT !.todo = @ \ {e}])

Listing(e) ==
  /\ status = "running"
  /\ stack # << >>
  /\ e \in Top.todo

\* An entry that is a directory: copy_dir calls itself and creates it first.
EnterDir(e) ==
  /\ Listing(e)
  /\ Cur.tree[e] = "dir"
  /\ IF CanCreateDirs(e)
     THEN /\ target' = WithDirs(target, e)
          /\ stack' = Append(Taken(e), [dir |-> e, todo |-> ReadDir(e)])
          /\ UNCHANGED <<manifest, line, status>>
     ELSE Panic("conflict")

\* Variant: without the check that nothing is there.
CopyEntryAlways(e) ==
  /\ Listing(e)
  /\ Cur.tree[e] = "file"
  /\ target' = [target EXCEPT ![e] = File(line)]
  /\ stack' = Taken(e)
  /\ UNCHANGED <<manifest, line, status>>

\* An entry that is a file is copied unless something is already there.
CopyEntry(e) ==
  /\ Listing(e)
  /\ Cur.tree[e] = "file"
  /\ target' = IF target[e] = Absent THEN [target EXCEPT ![e] = File(line)] ELSE target
  /\ stack' = Taken(e)
  /\ UNCHANGED <<manifest, line, status>>

\* copy_dir returns; when the outermost call does, the line is merged.
LeaveDir ==
  /\ status = "running"
  /\ stack # << >>
  /\ Top.todo = {}
  /\ stack' = Below
  /\ line' = IF Len(stack) = 1 THEN line + 1 ELSE line
  /\ UNCHANGED <<manifest, target, status>>

\* Variant: a file is skipped, like an entry, if something is there.
CopyLineIfAbsent ==
  /\ AtLine("F")
  /\ target' = IF target[Cur.path] = Absent
               THEN [WithDirs(target, Cur.path) EXCEPT ![Cur.path] = File(line)]
               ELSE target
  /\ line' = line + 1
  /\ UNCHANGED <<manifest, stack, status>>

(***************************************************************************)
(* An F line.  fs::copy opens its destination for writing without looking  *)
(* at it first.  Whatever is there was put there by this merge: a          *)
(* directory cannot be opened, nor can a copied output, which is as        *)
(* read-only as the output it is a copy of.                                *)
(***************************************************************************)
CopyLine ==
  /\ AtLine("F")
  /\ IF CanCreateDirs(Cur.path) /\ target[Cur.path] = Absent
     THEN /\ target' = [WithDirs(target, Cur.path) EXCEPT ![Cur.path] = File(line)]
          /\ line' = line + 1
          /\ UNCHANGED <<manifest, stack, status>>
     ELSE Panic("conflict")

\* Any call into the file system may fail; every error is turned into a panic.
IoError ==
  /\ status = "running"
  /\ line <= Len(manifest)
  /\ Cur.kind \in {"D", "F"}
  /\ Panic("ioerror")

\* The loop over the lines ends and the process exits with status 0.
Exit ==
  /\ status = "running"
  /\ line > Len(manifest)
  /\ status' = "done"
  /\ UNCHANGED <<manifest, line, stack, target>>

Next ==
  \/ SkipLine \/ RejectLine
  \/ StartDir \/ LeaveDir \/ CopyLine
  \/ \E e \in Path : EnterDir(e) \/ CopyEntry(e)
  \/ IoError \/ Exit

Spec == Init /\ [][Next]_vars

\* The tool is one process that runs until it returns or panics.
FairSpec == Spec /\ WF_vars(Next)

-----------------------------------------------------------------------------
(***************************************************************************)
(* Properties                                                              *)
(***************************************************************************)

\* Whatever is in the target is what the first line of the manifest with that
\* path has there, whatever order the directories were listed in: the check
\* "if !dst.exists()" of copy_dir makes the first plugin win, for a directory
\* against a file too.
FirstWins ==
  \A p \in Path :
    p # Root /\ target[p] # Absent =>
      \E i \in 1..Len(manifest) :
        IsFirst(manifest, i, p) /\ target[p] = EntryOf(manifest, i, p)

\* When the merger exits with status 0 nothing that a plugin generated is
\* missing: every path of every line, at every depth, is in the target.
NothingLost ==
  status = "done" =>
    \A i \in 1..Len(manifest), p \in Path :
      Provides(manifest[i], p) # "absent" => target[p] # Absent

\* The merger panics for its input only if two of its lines cannot both be
\* merged, and never exits with status 0 if they cannot: no order of listing
\* hides a conflict or makes one up.
PanicsExactlyOnConflict ==
  /\ status = "conflict" => HasConflict(manifest)
  /\ status = "done" => ~ HasConflict(manifest)

\* The target is a tree at every step: below a file there is never anything.
TargetIsTree == \A q \in Path : target[q] # Absent =>
                  \A p \in Path : Above(p, q) => target[p] = Dir

\* What main.rs relies on since Bazel denies it anything else: a path of the
\* target is written at most once, and nothing is written after the end.
WriteOnceStep ==
  /\ \A p \in Path : target[p] # Absent => target'[p] = target[p]
  /\ status # "running" => target' = target
WriteOnce == [][WriteOnceStep]_vars

\* The merger ends, by returning or by a panic: no listing is endless.
Terminates == <>(status # "running")

\* The merger does what MergedTree promises.
Promise == INSTANCE MergedTree WITH
  out     <- target,
  verdict <- IF status = "running" THEN "merging"
             ELSE IF status = "done" THEN "merged" ELSE status

ImplementsMergedTree == Promise!Spec

-----------------------------------------------------------------------------
(***************************************************************************)
(* The inductive invariant                                                 *)
(***************************************************************************)

\* p, or a directory above it, is still to be taken from a listing.
Pending(p) == \E k \in 1..Len(stack) : \E e \in stack[k].todo : Within(e, p)

\* What line i has at p has been merged.
Settled(i, p) ==
  /\ Provides(manifest[i], p) # "absent" => target[p] # Absent
  /\ Provides(manifest[i], p) = "dir" => target[p] = Dir
  /\ manifest[i].kind = "F" /\ p = manifest[i].path => target[p] = File(i)

LinesMerged ==
  \A i \in 1..Len(manifest) : i < line =>
    manifest[i].kind # "other" /\ \A p \in Path : Settled(i, p)

LineInProgress ==
  stack # << >> =>
    /\ line <= Len(manifest)
    /\ Cur.kind = "D"
    /\ \A p \in Path : Settled(line, p) \/ Pending(p)

\* The directories being listed exist, and a listing holds their entries.
Listings ==
  \A k \in 1..Len(stack) :
    /\ \A p \in Path : Within(p, stack[k].dir) => target[p] = Dir
    /\ \A e \in stack[k].todo : Len(e) = Len(stack[k].dir) + 1 /\ Within(stack[k].dir, e)

\* FirstWins, and the line is one that has been reached.
FromReachedLine ==
  \A p \in Path :
    p # Root /\ target[p] # Absent =>
      \E i \in 1..Len(manifest) :
        /\ i < line \/ (i = line /\ stack # << >>)
        /\ IsFirst(manifest, i, p)
        /\ target[p] = EntryOf(manifest, i, p)

StatusInv ==
  /\ status = "conflict" => HasConflict(manifest)
  /\ status = "done" => line = Len(manifest) + 1

\* What the merger maintains from one step to the next: the lines before the
\* current one are merged, and what is left of the current one is on the stack.
IInv ==
  /\ TypeOK
  /\ target[Root] = Dir
  /\ TargetIsTree
  /\ LinesMerged
  /\ LineInProgress
  /\ Listings
  /\ FromReachedLine
  /\ StatusInv

-----------------------------------------------------------------------------
(***************************************************************************)
(* How the merger comes to its end, in any order of listing                *)
(***************************************************************************)

\* The directories being listed are one in the other, and no listing holds one
\* of them, or a directory above it, any more.
ListedOnce ==
  \A k \in 1..Len(stack) :
    /\ Len(stack[k].dir) = k - 1
    /\ Within(stack[k].dir, Top.dir)
    /\ \A e \in stack[k].todo : Cur.tree[e] # "absent" /\ ~ Within(e, Top.dir)

\* What is left of the current line.
Left == {p \in Path : Pending(p) /\ Cur.tree[p] # "absent"}

\* Some step can be taken until the merger ends: the loop is over, there is a
\* line to begin, a listing to return from, or an entry that is a directory or
\* a file.
NeverStuck ==
  status = "running" =>
    \/ line > Len(manifest)
    \/ \E k \in LineKind : AtLine(k)
    \/ stack # << >> /\ Top.todo = {}
    \/ \E e \in Path : Listing(e) /\ Cur.tree[e] \in {"dir", "file"}

\* And every step brings the end nearer: it ends the merger, or goes on to the
\* next line, or begins the listings of a line, after which it takes off an entry
\* that no listing will give again, or returns from a call.
NearerStep ==
  \/ status' # "running"
  \/ line' = line + 1
  \/ line' = line /\ stack = << >> /\ stack' # << >>
  \/ /\ line' = line /\ stack # << >> /\ stack' # << >>
     /\ \/ Left' \subseteq Left /\ Left' # Left
        \/ Left' = Left /\ Len(stack') < Len(stack)
EverNearer == [][NearerStep]_vars
=============================================================================
