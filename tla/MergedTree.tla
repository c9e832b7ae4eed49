----------------------------- MODULE MergedTree -----------------------------
(***************************************************************************)
(* What the merger promises, without saying how it walks the directories.  *)
(* The output tree only grows.  Whatever appears in it is what the first   *)
(* line of the manifest with that path has there.  The merge succeeds only *)
(* with every path of every line in the tree and fails only when the lines *)
(* conflict or the file system fails.                                      *)
(***************************************************************************)
EXTENDS MergePlan

VARIABLES
  manifest,  \* the manifest
  out,       \* the output tree
  verdict    \* "merging", "merged", "conflict" or "ioerror"

vars == <<manifest, out, verdict>>

Init ==
  /\ WellFormed(manifest)
  /\ out = EmptyTree
  /\ verdict = "merging"

\* Some absent paths appear, each with what the first line having it says.
Grow ==
  /\ verdict = "merging"
  /\ out' \in [Path -> Entry]
  /\ \A p \in Path :
       \/ out'[p] = out[p]
       \/ /\ out[p] = Absent
          /\ \E i \in 1..Len(manifest) :
               IsFirst(manifest, i, p) /\ out'[p] = EntryOf(manifest, i, p)
  /\ UNCHANGED <<manifest, verdict>>

Succeed ==
  /\ verdict = "merging"
  /\ ~ HasConflict(manifest)
  /\ \A p \in Path, i \in 1..Len(manifest) :
       IsFirst(manifest, i, p) /\ p # Root => out[p] = EntryOf(manifest, i, p)
  /\ verdict' = "merged"
  /\ UNCHANGED <<manifest, out>>

Fail ==
  /\ verdict = "merging"
  /\ \/ verdict' = "ioerror"
     \/ HasConflict(manifest) /\ verdict' = "conflict"
  /\ UNCHANGED <<manifest, out>>

Next == Grow \/ Succeed \/ Fail

Spec == Init /\ [][Next]_vars
=============================================================================
