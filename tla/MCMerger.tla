------------------------------ MODULE MCMerger ------------------------------
(***************************************************************************)
(* Merger on every manifest of two directories and at most one file, as    *)
(* proto_compile writes them (directories first), over the trees of depth  *)
(* two with two names, and on a few manifests with lines that the merger   *)
(* skips or rejects.                                                       *)
(***************************************************************************)
EXTENDS Merger

MCName == {"a", "b"}

MCPath == {<< >>} \cup {<<n>> : n \in MCName} \cup {<<n, m>> : n \in MCName, m \in MCName}

\* The trees: below the root a name is absent, a file or a directory of files.
MCTree ==
  {t \in [MCPath -> {"absent", "dir", "file"}] :
     /\ t[<< >>] = "dir"
     /\ \A p \in MCPath : Len(p) = 2 => t[p] # "dir" /\ (t[p] = "file" => t[<<p[1]>>] = "dir")}

NoTree == [p \in MCPath |-> IF p = << >> THEN "dir" ELSE "absent"]

DirLine(t)  == [kind |-> "D", path |-> <<"a">>, tree |-> t]
FileLine(p) == [kind |-> "F", path |-> p, tree |-> NoTree]
OddLine(k)  == [kind |-> k, path |-> <<"a">>, tree |-> NoTree]

MCFile == MCPath \ {<< >>}

\* Two files that can both be outputs of one target.
MCFilePair == {f \in MCFile \X MCFile : ~ Within(f[1], f[2]) /\ ~ Within(f[2], f[1])}

MCManifests ==
  {<<DirLine(t), DirLine(u)>> : t \in MCTree, u \in MCTree}
    \cup {<<DirLine(t), FileLine(p)>> : t \in MCTree, p \in MCFile}
    \cup {<<DirLine(t), DirLine(t), FileLine(p)>> : t \in MCTree, p \in MCFile}
    \cup {<<DirLine(t), OddLine("short"), FileLine(<<"a", "b">>)>> : t \in MCTree}
    \cup {<<OddLine("other"), DirLine(t)>> : t \in MCTree}
    \cup {<<DirLine(t), FileLine(f[1]), FileLine(f[2])>> : t \in {NoTree}, f \in MCFilePair}
=============================================================================
