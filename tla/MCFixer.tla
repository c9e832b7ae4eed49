------------------------------- MODULE MCFixer -------------------------------
(***************************************************************************)
(* Fixer on every manifest of up to three lines over four paths: three Go  *)
(* files, two of them in one directory, and a file of another language,    *)
(* with every choice of the files the plugin wrote and of their packages.  *)
(***************************************************************************)
EXTENDS Fixer

CONSTANTS a1, a2, b1, h, blank, none, dirA, dirB, pkgA, pkgB, MaxLines

MCPath == {a1, a2, b1, h}
MCGoPath == {a1, a2, b1}
MCDirectory == {dirA, dirB}
MCDirOf == [p \in MCPath |-> IF p = b1 THEN dirB ELSE dirA]
MCPackage == {pkgA, pkgB, dirA, dirB}
MCDirName == [d \in MCDirectory |-> d]

Manifest == UNION {[1..n -> MCPath \cup {blank}] : n \in 0..MaxLines}

\* A Go file names one package, and b1 may name none (a file cut short).
MCSource ==
  {s \in [MCPath -> [exists : BOOLEAN, packages : {<< >>, <<pkgA>>, <<pkgB>>}]] :
     /\ \A p \in MCPath : ~ s[p].exists \/ p = h => s[p].packages = << >>
     /\ \A p \in {a1, a2} : s[p].exists => s[p].packages # << >>}

MCJobs == {[manifest |-> m, source |-> s] : m \in Manifest, s \in MCSource}
=============================================================================
