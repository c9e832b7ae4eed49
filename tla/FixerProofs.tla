----------------------------- MODULE FixerProofs -----------------------------
(***************************************************************************)
(* Fixer.tla keeps its invariants for every set of paths and packages and  *)
(* every manifest.                                                         *)
(***************************************************************************)
EXTENDS Fixer, TLAPS

\* What may be at a path of the target: nothing, a copy or a filled template.
LEMMA FileFacts ==
  /\ Absent # Copied
  /\ \A k : Filled(k) # Absent /\ Filled(k) # Copied
  /\ \A k : Filled(k).kind = "filled" /\ Filled(k).package = k
  /\ Absent.kind # "filled" /\ Copied.kind # "filled"
  /\ Absent \in File /\ Copied \in File
  /\ \A k \in Package : Filled(k) \in File
  BY DEF Absent, Copied, Filled, File

\* What the type invariant says of the line that a loop is at.
LEMMA LineFacts ==
  ASSUME TypeOK
  PROVE  /\ Len(job.manifest) \in Nat /\ next \in Nat \ {0} /\ next <= Len(job.manifest) + 1
         /\ next <= Len(job.manifest) =>
              /\ next \in 1..Len(job.manifest)
              /\ next + 1 \in 1..(Len(job.manifest) + 1)
              /\ Line \in Path \cup {Blank}
              /\ Line # Blank => Line \in Outputs /\ Line \in Path
  BY DEF TypeOK, Job, Line, Outputs

\* The name on the last package line of a file is a package.
LEMMA LastPackageType ==
  ASSUME TypeOK, NEW p \in Path, job.source[p].packages # << >>
  PROVE  LastPackage(p) \in Package
<1>1. job.source[p].packages \in Seq(Package)
  BY DEF TypeOK, Job, Source
<1> QED
  BY <1>1 DEF LastPackage

\* A path is reached after a step of a loop if it was before or is the line.
LEMMA ReachedNext ==
  ASSUME TypeOK, next <= Len(job.manifest), next' = next + 1, job' = job, NEW p
  PROVE  Reached(p)' <=> Reached(p) \/ p = Line
<1>1. next \in 1..Len(job.manifest)
  BY LineFacts
<1>2. \A i \in 1..Len(job.manifest) : i < next + 1 <=> i < next \/ i = next
  BY LineFacts
<1> QED
  BY <1>1, <1>2 DEF Reached, Line

\* At the end of a loop every output has been reached.
LEMMA AllReached ==
  ASSUME TypeOK, next > Len(job.manifest), NEW p \in Path
  PROVE  Reached(p) <=> p \in Outputs
<1>1. \A i \in 1..Len(job.manifest) : i < next
  BY LineFacts
<1> QED
  BY <1>1 DEF Reached, Outputs

\* The package given to the template is a package.
LEMMA PackageForType ==
  ASSUME TypeOK, NEW p \in Path
  PROVE  PackageFor(p) \in Package
  BY FixerAssumption DEF TypeOK, PackageFor

-----------------------------------------------------------------------------
(* Every action keeps the inductive invariant *)

\* The invariant holds when the fixer starts.
LEMMA InitInv == Init => IInv
<1> SUFFICES ASSUME Init PROVE IInv
  OBVIOUS
<1> USE DEF Init
<1>1. job \in Job /\ Len(job.manifest) \in Nat
  BY FixerAssumption DEF Job
<1>2. \A p \in Outputs : DirOf[p] \in Directory
  BY FixerAssumption DEF Outputs
<1>3. \A p \in Path : target[p] = Absent
  BY DEF NoFiles
<1>4. TypeOK
  BY <1>1, <1>2, FileFacts DEF TypeOK, NoFiles
<1>5. \A p : ~ Reached(p)
  BY <1>1 DEF Reached
<1>6. PackageInv /\ TargetInv
  BY <1>3, <1>5 DEF PackageInv, TargetInv
<1> QED
  BY <1>4, <1>6 DEF IInv, DeniedOnlyTwice

\* A step of a loop that writes nothing: only the position moves on.
LEMMA SkipBlankStep ==
  ASSUME IInv, SkipBlank
  PROVE  IInv'
<1> USE DEF SkipBlank, AtLine
<1>1. TypeOK /\ next <= Len(job.manifest)
  BY DEF IInv
<1>2. \A p \in Path : Reached(p)' <=> Reached(p)
  BY <1>1, ReachedNext, FixerAssumption
<1>3. TypeOK'
  BY <1>1, LineFacts DEF TypeOK
<1>4. Generated' = Generated /\ \A p \in Generated : p \in Path
  BY DEF Generated, Outputs, NamesPackage, Exists
<1>5. PackageInv'
  BY <1>2, <1>4 DEF IInv, PackageInv, LastPackage, NoFiles
<1>6. TargetInv'
  BY <1>2 DEF IInv, TargetInv, Exists, PackageFor, NoFiles
<1> QED
  BY <1>3, <1>5, <1>6 DEF IInv, Outputs, DeniedOnlyTwice

\* Scanning a path for its package (main.rs:40-71) keeps the invariant.
LEMMA ScanPathStep ==
  ASSUME IInv, ScanPath
  PROVE  IInv'
<1> USE DEF ScanPath, AtLine
<1>1. TypeOK /\ next <= Len(job.manifest) /\ Line \in Outputs /\ Line \in Path
  BY LineFacts DEF IInv
<1>2. \A p \in Path : Reached(p)' <=> Reached(p) \/ p = Line
  BY <1>1, ReachedNext
<1>3. Generated' = Generated /\ \A p \in Generated : p \in Path
  BY DEF Generated, Outputs, NamesPackage, Exists
<1>4. CASE Line \in Generated
  <2>1. goPackage' = LastPackage(Line)
    BY <1>4 DEF Generated, NamesPackage, LastPackage
  <2>2. goPackage' \in Package /\ goPackage' # NoPackage
    BY <1>1, <1>4, <2>1, LastPackageType, FixerAssumption DEF Generated, NamesPackage
  <2>3. TypeOK'
    BY <1>1, <2>2, LineFacts DEF TypeOK
  <2>4. PackageInv'
    BY <1>3, <1>4, <2>1, <2>2 DEF PackageInv, LastPackage
  <2> QED
    BY <2>3, <2>4 DEF IInv, TargetInv, NoFiles, Outputs, DeniedOnlyTwice, Exists
<1>5. CASE Line \notin Generated
  <2>1. goPackage' = goPackage
    BY <1>1, <1>5 DEF Generated, NamesPackage
  <2>2. TypeOK'
    BY <1>1, <2>1, LineFacts DEF TypeOK
  <2>3. PackageInv'
    BY <1>2, <1>3, <1>5, <2>1 DEF IInv, PackageInv, LastPackage, NoFiles
  <2> QED
    BY <2>2, <2>3 DEF IInv, TargetInv, NoFiles, Outputs, DeniedOnlyTwice, Exists
<1> QED
  BY <1>4, <1>5

\* The end of the scan (main.rs:71-78) keeps the invariant.
LEMMA StartCopyStep ==
  ASSUME IInv, StartCopy
  PROVE  IInv'
<1> USE DEF StartCopy
<1>1. TypeOK /\ TypeOK'
  BY LineFacts DEF IInv, TypeOK
<1>2. \A p : ~ Reached(p)'
  BY LineFacts, <1>1 DEF Reached
<1>3. \A p \in Path : target[p] = Absent
  BY DEF IInv, TargetInv, NoFiles
<1>4. TargetInv'
  BY <1>2, <1>3 DEF TargetInv
<1>5. Generated' = Generated /\ \A p \in Generated : p \in Path /\ p \in Outputs
  BY DEF Generated, Outputs, NamesPackage, Exists
<1>6. \A p \in Generated : Reached(p)
  BY <1>1, <1>5, AllReached
<1>7. PackageInv'
  BY <1>5, <1>6 DEF IInv, PackageInv, LastPackage
<1> QED
  BY <1>1, <1>4, <1>7 DEF IInv, Outputs, DeniedOnlyTwice

\* A panic leaves everything but pc as it is.
LEMMA PanicStep ==
  ASSUME IInv, UNCHANGED <<job, next, goPackage, dirs, target>>,
         \/ pc' = "ioerror"
         \/ pc' = "denied" /\ DeniedOnlyTwice'
  PROVE  IInv'
<1>1. TypeOK'
  BY DEF IInv, TypeOK
<1>2. PackageInv' /\ TargetInv'
  BY DEF IInv, PackageInv, TargetInv, Generated, Outputs, NamesPackage, Exists, LastPackage,
         NoFiles, PackageFor
<1> QED
  BY <1>1, <1>2 DEF IInv, Outputs, DeniedOnlyTwice

\* The copy loop writes the file for the line it is at.
LEMMA WriteStep ==
  ASSUME IInv, AtLine("copy"), Line # Blank,
         target' = [target EXCEPT ![Line] = IF Exists(Line) THEN Copied
                                            ELSE Filled(PackageFor(Line))],
         dirs' \in SUBSET Directory, dirs \subseteq dirs', next' = next + 1,
         UNCHANGED <<job, pc, goPackage>>
  PROVE  IInv'
<1> USE DEF AtLine
<1>1. TypeOK /\ next <= Len(job.manifest) /\ Line \in Outputs /\ Line \in Path
  BY LineFacts DEF IInv
<1>2. \A p \in Path : Reached(p)' <=> Reached(p) \/ p = Line
  BY <1>1, ReachedNext
<1>3. /\ target' \in [Path -> File]
      /\ target'[Line] = IF Exists(Line) THEN Copied ELSE Filled(PackageFor(Line))
      /\ \A p \in Path : p # Line => target'[p] = target[p]
  BY <1>1, FileFacts, PackageForType DEF TypeOK
<1>4. TypeOK'
  BY <1>1, <1>3, LineFacts DEF TypeOK
<1>5. TargetInv'
  BY <1>1, <1>2, <1>3, FileFacts DEF IInv, TargetInv, Exists, PackageFor
<1>6. Generated' = Generated
  BY DEF Generated, Outputs, NamesPackage, Exists
<1>7. PackageInv'
  BY <1>6 DEF IInv, PackageInv, LastPackage
<1> QED
  BY <1>4, <1>5, <1>7 DEF IInv, Outputs, DeniedOnlyTwice

\* Copying a generated file (main.rs:88-101) keeps the invariant.
LEMMA CopyExistingStep ==
  ASSUME IInv, CopyExisting
  PROVE  IInv'
<1> USE DEF CopyExisting
<1>1. TypeOK /\ next \in 1..Len(job.manifest) /\ Line \in Path /\ next \in Nat
  BY LineFacts DEF IInv, AtLine
<1>2. CASE target[Line] = Absent
  <2>1. DirOf[Line] \in Directory /\ dirs \subseteq Directory
    BY <1>1, FixerAssumption DEF TypeOK
  <2> QED
    BY <1>2, <2>1, WriteStep
<1>3. CASE target[Line] # Absent
  <2>1. PICK i \in 1..Len(job.manifest) : i < next /\ job.manifest[i] = Line
    BY <1>1, <1>3 DEF IInv, TargetInv, Reached, AtLine
  <2>2. i # next /\ job.manifest[next] = Line
    BY <1>1, <2>1 DEF Line
  <2>3. \E j, k \in 1..Len(job.manifest) :
          j # k /\ job.manifest[j] = job.manifest[k] /\ job.manifest[j] \in {p \in Path : Exists(p)}
    BY <1>1, <2>1, <2>2
  <2> QED
    BY <1>3, <2>3, PanicStep DEF DeniedOnlyTwice, Exists
<1> QED
  BY <1>2, <1>3

\* Filling a missing file (main.rs:103-129) keeps the invariant.
LEMMA FillMissingStep ==
  ASSUME IInv, FillMissing
  PROVE  IInv'
<1> USE DEF FillMissing
<1>1. TypeOK /\ Line \in Outputs
  BY LineFacts DEF IInv, AtLine
<1>2. DirOf[Line] \in dirs /\ dirs \in SUBSET Directory
  BY <1>1 DEF IInv, TypeOK
<1> QED
  BY <1>2, WriteStep

\* The end of the fixer (main.rs:130) keeps the invariant.
LEMMA ExitStep ==
  ASSUME IInv, Exit
  PROVE  IInv'
<1> USE DEF Exit
<1>1. TypeOK' /\ next = Len(job.manifest) + 1
  BY LineFacts DEF IInv, TypeOK
<1>2. PackageInv' /\ TargetInv'
  BY DEF IInv, PackageInv, TargetInv, Generated, Outputs, NamesPackage, Exists, LastPackage,
         NoFiles, PackageFor, Reached
<1> QED
  BY <1>1, <1>2 DEF IInv, Outputs, DeniedOnlyTwice

\* Every step of the fixer keeps the invariant.
LEMMA NextInv == IInv /\ [Next]_vars => IInv'
<1> SUFFICES ASSUME IInv, [Next]_vars PROVE IInv'
  OBVIOUS
<1>1. CASE IoError
  BY <1>1, PanicStep DEF IoError
<1>2. CASE UNCHANGED vars
  <2> USE <1>2 DEF vars
  <2>1. TypeOK'
    BY DEF IInv, TypeOK
  <2>2. PackageInv'
    BY DEF IInv, PackageInv, Generated, Outputs, NamesPackage, Exists, LastPackage, Reached
  <2>3. TargetInv'
    BY DEF IInv, TargetInv, Generated, Outputs, NamesPackage, Exists, NoFiles, PackageFor, Reached
  <2>4. DeniedOnlyTwice' /\ (\A p \in Outputs : DirOf[p] \in dirs)'
    BY DEF IInv, DeniedOnlyTwice, Outputs, Exists
  <2> QED
    BY <2>1, <2>2, <2>3, <2>4 DEF IInv
<1> QED
  BY <1>1, <1>2, SkipBlankStep, ScanPathStep, StartCopyStep, CopyExistingStep,
     FillMissingStep, ExitStep DEF Next

-----------------------------------------------------------------------------
(* The theorems *)

\* The inductive invariant of the two loops of the fixer (main.rs:39-130).
THEOREM Invariance == Spec => []IInv
  BY InitInv, NextInv, PTL DEF Spec

\* The variables of the fixer keep their types.
THEOREM TypeCorrect == Spec => []TypeOK
<1>1. IInv => TypeOK
  BY DEF IInv
<1> QED
  BY <1>1, Invariance, PTL

\* Exit status 0 leaves exactly the declared outputs, for every manifest and
\* whatever the plugin wrote (main.rs:78-130).
THEOREM DeclaredOutputs == Spec => []ProducesDeclared
<1>1. ASSUME IInv PROVE ProducesDeclared
  <2>1. SUFFICES ASSUME pc = "done", NEW p \in Path
                 PROVE  target[p] # Absent <=> p \in Outputs
    BY DEF ProducesDeclared
  <2>2. next > Len(job.manifest) /\ TypeOK
    BY <1>1, <2>1, LineFacts DEF IInv
  <2>3. Reached(p) <=> p \in Outputs
    BY <2>2, AllReached
  <2> QED
    BY <1>1, <2>1, <2>3 DEF IInv, TargetInv
<1> QED
  BY <1>1, Invariance, PTL

\* A generated file is never replaced by a template (main.rs:88-101).
THEOREM GeneratedKept == Spec => []KeepsGenerated
<1>1. IInv => KeepsGenerated
  BY FileFacts DEF IInv, TargetInv, KeepsGenerated
<1> QED
  BY <1>1, Invariance, PTL

\* With generated Go files of one package only, every filled file is of that
\* package, for every order of the manifest (main.rs:36-71, 113-118).
THEOREM FilledMatchesGenerated == Spec => []MatchesGenerated
<1>1. ASSUME IInv PROVE MatchesGenerated
  <2>1. SUFFICES ASSUME NEW k \in Package, Generated # {},
                        \A g \in Generated : PackagesOf(g) = {k},
                        NEW p \in Path, target[p].kind = "filled"
                 PROVE  target[p].package = k
    BY DEF MatchesGenerated
  <2>2. target[p] # Absent /\ target[p] = Filled(PackageFor(p))
    BY <1>1, <2>1, FileFacts DEF IInv, TargetInv
  <2>3. target # NoFiles
    BY <2>2 DEF NoFiles
  <2>4. goPackage # NoPackage
    BY <1>1, <2>1, <2>3 DEF IInv, PackageInv
  <2>5. PICK g \in Generated : goPackage = LastPackage(g)
    BY <1>1, <2>4 DEF IInv, PackageInv
  <2>6. LastPackage(g) \in PackagesOf(g)
    <3>1. job.source[g].packages \in Seq(Package) /\ job.source[g].packages # << >>
      BY <1>1 DEF IInv, TypeOK, Job, Source, Generated, NamesPackage, Outputs
    <3>2. Len(job.source[g].packages) \in 1..Len(job.source[g].packages)
      BY <3>1
    <3> QED
      BY <3>2 DEF LastPackage, PackagesOf
  <2> QED
    BY <2>1, <2>2, <2>4, <2>5, <2>6, FileFacts DEF PackageFor
<1> QED
  BY <1>1, Invariance, PTL

\* Two files filled into one directory are of one package (main.rs:104-118).
THEOREM FilledAgree == Spec => []FillsAgree
<1>1. IInv => FillsAgree
  BY FileFacts DEF IInv, TargetInv, FillsAgree, PackageFor
<1> QED
  BY <1>1, Invariance, PTL

\* The fixer rejects its input only if it lists a generated file twice.
THEOREM OnlyTwiceIsDenied == Spec => []DeniedOnlyTwice
<1>1. IInv => DeniedOnlyTwice
  BY DEF IInv
<1> QED
  BY <1>1, Invariance, PTL

\* Filling an output a second time writes what was there.
LEMMA StepKeeps ==
  IInv /\ [Next]_vars => \A p \in Path : target[p] # Absent => target'[p] = target[p]
<1> SUFFICES ASSUME IInv, [Next]_vars, NEW p \in Path, target[p] # Absent
             PROVE  target'[p] = target[p]
  OBVIOUS
<1>1. CASE CopyExisting
  BY <1>1 DEF CopyExisting, IInv, TypeOK
<1>2. CASE FillMissing
  <2>1. p = Line => target[p] = Filled(PackageFor(p))
    BY <1>2 DEF FillMissing, IInv, TargetInv
  <2> QED
    BY <1>2, <2>1 DEF FillMissing, IInv, TypeOK
<1>3. CASE UNCHANGED target
  BY <1>3
<1> QED
  BY <1>1, <1>2, <1>3
     DEF Next, vars, SkipBlank, ScanPath, StartCopy, IoError, Exit

\* No output of the fixer changes once it is written (main.rs:78-130).
THEOREM OutputsKept == Spec => KeepsOutputs
<1>1. Spec => [][\A p \in Path : target[p] # Absent => target'[p] = target[p]]_vars
  BY Invariance, StepKeeps, PTL DEF Spec
<1> QED
  BY <1>1 DEF KeepsOutputs
=============================================================================
