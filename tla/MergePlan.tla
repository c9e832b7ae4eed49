------------------------------ MODULE MergePlan ------------------------------
(***************************************************************************)
(* The input of the merger tool (modules/core/tools/merger/main.rs): a     *)
(* manifest whose lines name the directories ("D") and the files ("F")     *)
(* that the plugins of one proto_compile target wrote, and the trees those *)
(* lines stand for.  The operators here are shared by the merger           *)
(* (Merger.tla) and by what it promises (MergedTree.tla).                  *)
(*                                                                         *)
(* A path is the sequence of its names below the root of a tree.  The      *)
(* merger copies the content of every D directory into the root of the     *)
(* target, so a path means the same thing in a source and in the target,   *)
(* and the content of a file is told apart by the line it comes from.      *)
(***************************************************************************)
EXTENDS Integers, Sequences

CONSTANTS
  Path,       \* the relative paths of the trees, << >> being their root
  Manifests   \* the manifests the merger may be given

Root == << >>

\* p is q or one of the directories above q.
Within(p, q) == Len(p) <= Len(q) /\ SubSeq(q, 1, Len(p)) = p

Above(p, q) == p # q /\ Within(p, q)

LineKind == {"D", "F", "short", "other"}

EntryKind == {"absent", "dir", "file"}

(***************************************************************************)
(* A line: "tree" is the content of the directory that a D line names,     *)
(* "path" the file that an F line names, relative to the source and to the *)
(* target.  "short" is a line of fewer than three characters, "other" one  *)
(* whose first character is neither D nor F.                               *)
(***************************************************************************)
Line == [kind : LineKind, path : Path, tree : [Path -> EntryKind]]

\* Only directories have entries, and the root of a tree is a directory.
IsTree(t) ==
  /\ t[Root] = "dir"
  /\ \A q \in Path : t[q] # "absent" => \A p \in Path : Above(p, q) => t[p] = "dir"

ASSUME PathAssumption ==
  /\ Path \subseteq Seq(STRING)
  /\ Root \in Path
  /\ \A q \in Path : \A n \in 0..Len(q) : SubSeq(q, 1, n) \in Path

WellFormed(m) ==
  /\ m \in Seq(Line)
  /\ \A i \in 1..Len(m) : IsTree(m[i].tree) /\ m[i].path # Root

ASSUME ManifestAssumption == \A m \in Manifests : WellFormed(m)

-----------------------------------------------------------------------------

\* What a line has at a path: the merger creates the directories above a file.
Provides(l, p) ==
  IF l.kind = "D" THEN l.tree[p]
  ELSE IF l.kind = "F" /\ p = l.path THEN "file"
  ELSE IF l.kind = "F" /\ Above(p, l.path) THEN "dir"
  ELSE "absent"

\* Line i of m is the first to have anything at p.
IsFirst(m, i, p) ==
  /\ i \in 1..Len(m)
  /\ Provides(m[i], p) # "absent"
  /\ \A j \in 1..Len(m) : j < i => Provides(m[j], p) = "absent"

(***************************************************************************)
(* Line j cannot be merged after the lines before it.  A directory cannot  *)
(* take the place of a file.  A file that has a line of its own cannot     *)
(* take the place of anything: outputs are written read-only, so the       *)
(* second fs::copy to a path is denied.                                    *)
(***************************************************************************)
Conflict(m, j) ==
  \/ m[j].kind = "other"
  \/ \E i \in 1..Len(m), p \in Path :
       /\ i < j
       /\ \/ /\ IsFirst(m, i, p)
             /\ Provides(m[i], p) = "file"
             /\ Provides(m[j], p) = "dir"
          \/ /\ m[j].kind = "F"
             /\ p = m[j].path
             /\ Provides(m[i], p) # "absent"

HasConflict(m) == \E j \in 1..Len(m) : Conflict(m, j)

-----------------------------------------------------------------------------

\* What is at a path of the target: "from" is the line a file was copied from.
Absent  == [kind |-> "absent", from |-> 0]
Dir     == [kind |-> "dir",    from |-> 0]
File(i) == [kind |-> "file",   from |-> i]

Entry == {Absent, Dir} \cup [kind : {"file"}, from : Nat]

EntryOf(m, i, p) == IF Provides(m[i], p) = "dir" THEN Dir ELSE File(i)

\* The target before the merge: Bazel creates the declared output directory.
EmptyTree == [p \in Path |-> IF p = Root THEN Dir ELSE Absent]

=============================================================================
