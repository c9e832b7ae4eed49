-------------------------------- MODULE Fixer --------------------------------
(***************************************************************************)
(* The fixer tool, modules/core/tools/fixer/main.rs.  A plugin that has an *)
(* empty_template writes what it likes into a directory of its own; the    *)
(* fixer then produces exactly the outputs that proto_compile declared: it *)
(* copies those that the plugin wrote and fills the template for those     *)
(* that it did not.                                                        *)
(*                                                                         *)
(* Of the content of a file only the lines that start with "package "      *)
(* matter, so a source is whether it exists and the packages it names.     *)
(***************************************************************************)
EXTENDS Integers, Sequences

CONSTANTS
  Path,       \* the paths of outputs, relative to the output root
  GoPath,     \* those that end in .go
  Blank,      \* an empty line of the manifest
  Directory,  \* the directories of the paths
  DirOf,      \* the directory of a path
  Package,    \* Go package names and names of directories
  NoPackage,  \* the empty string
  DirName,    \* the last name of a directory under the target directory
  Jobs        \* the inputs of the tool: a manifest and a source directory

Source == [exists : BOOLEAN, packages : Seq(Package)]

Job == [manifest : Seq(Path \cup {Blank}), source : [Path -> Source]]

ASSUME FixerAssumption ==
  /\ GoPath \subseteq Path
  /\ Blank \notin Path
  /\ NoPackage \notin Package
  /\ DirOf \in [Path -> Directory]
  /\ DirName \in [Directory -> Package]
  /\ Jobs \subseteq Job

VARIABLES
  job,        \* path_list and source_dir
  pc,         \* "scan", "copy", "done", "denied" (a panic) or "ioerror" (a panic)
  next,       \* the position in path_list of the loop that pc names
  goPackage,  \* common_template_vars["go_package"]
  dirs,       \* the directories that exist below target_dir
  target      \* the files in target_dir

vars == <<job, pc, next, goPackage, dirs, target>>

-----------------------------------------------------------------------------

\* A file of the target: absent, a copy, or the template with its variables.
Absent       == [kind |-> "absent", package |-> NoPackage]
Copied       == [kind |-> "copied", package |-> NoPackage]
Filled(pkg)  == [kind |-> "filled", package |-> pkg]

File == {Absent, Copied} \cup [kind : {"filled"}, package : Package]

NoFiles == [p \in Path |-> Absent]

TypeOK ==
  /\ job \in Job
  /\ pc \in {"scan", "copy", "done", "denied", "ioerror"}
  /\ next \in 1..(Len(job.manifest) + 1)
  /\ goPackage \in Package \cup {NoPackage}
  /\ dirs \subseteq Directory
  /\ target \in [Path -> File]

Exists(p) == job.source[p].exists

\* The paths that the manifest lists, each a declared output of the action.
Outputs == {p \in Path : \E i \in 1..Len(job.manifest) : job.manifest[i] = p}

\* Variant: the paths are counted from 0.
InitFromZero ==
  /\ job \in Jobs
  /\ pc = "scan"
  /\ next = 0
  /\ goPackage = NoPackage
  /\ dirs = {DirOf[p] : p \in Outputs}
  /\ target = NoFiles

\* Variant: an output directory that nobody has prepared.
InitBare ==
  /\ job \in Jobs
  /\ pc = "scan"
  /\ next = 1
  /\ goPackage = NoPackage
  /\ dirs = {}
  /\ target = NoFiles

\* Bazel creates the directories of the declared outputs before the action.
Init ==
  /\ job \in Jobs
  /\ pc = "scan"
  /\ next = 1
  /\ goPackage = NoPackage
  /\ dirs = {DirOf[p] : p \in Outputs}
  /\ target = NoFiles

-----------------------------------------------------------------------------

Line == job.manifest[next]

AtLine(loop) == pc = loop /\ next <= Len(job.manifest)

\* A blank path is skipped by both loops.
SkipBlank ==
  /\ AtLine("scan") \/ AtLine("copy")
  /\ Line = Blank
  /\ next' = next + 1
  /\ UNCHANGED <<job, pc, goPackage, dirs, target>>

\* Variant: the package is only kept until a file without one comes by.
ScanPathForgets ==
  /\ AtLine("scan")
  /\ Line # Blank
  /\ LET names == job.source[Line].packages IN
       goPackage' = IF Line \in GoPath /\ Exists(Line) /\ names # << >>
                    THEN names[Len(names)] ELSE NoPackage
  /\ next' = next + 1
  /\ UNCHANGED <<job, pc, dirs, target>>

(***************************************************************************)
(* The first loop looks at every path.  A Go file that the plugin wrote    *)
(* gives go_package the name on its last package line; the loop goes on,   *)
(* so the last such file of the manifest decides.                          *)
(***************************************************************************)
ScanPath ==
  /\ AtLine("scan")
  /\ Line # Blank
  /\ LET names == job.source[Line].packages IN
       goPackage' = IF Line \in GoPath /\ Exists(Line) /\ names # << >>
                    THEN names[Len(names)] ELSE goPackage
  /\ next' = next + 1
  /\ UNCHANGED <<job, pc, dirs, target>>

StartCopy ==
  /\ pc = "scan"
  /\ next > Len(job.manifest)
  /\ pc' = "copy"
  /\ next' = 1
  /\ UNCHANGED <<job, goPackage, dirs, target>>

\* A source that exists is copied, into a directory made for it if need be.
\* The copy is as read-only as the source, so it cannot be made twice.
CopyExisting ==
  /\ AtLine("copy")
  /\ Line # Blank
  /\ Exists(Line)
  /\ IF target[Line] = Absent
     THEN /\ dirs' = dirs \cup {DirOf[Line]}
          /\ target' = [target EXCEPT ![Line] = Copied]
          /\ next' = next + 1
          /\ UNCHANGED <<job, pc, goPackage>>
     ELSE pc' = "denied" /\ UNCHANGED <<job, next, goPackage, dirs, target>>

\* The package that the template gets: that of a generated file if one had
\* any, otherwise the name of the directory the file is in.
PackageFor(p) == IF goPackage = NoPackage THEN DirName[DirOf[p]] ELSE goPackage

\* A missing source is replaced by the filled template.  fs::write creates no
\* directory, and a file it wrote before can be written again.
FillMissing ==
  /\ AtLine("copy")
  /\ Line # Blank
  /\ ~ Exists(Line)
  /\ IF DirOf[Line] \in dirs
     THEN /\ target' = [target EXCEPT ![Line] = Filled(PackageFor(Line))]
          /\ next' = next + 1
          /\ UNCHANGED <<job, pc, goPackage, dirs>>
     ELSE pc' = "denied" /\ UNCHANGED <<job, next, goPackage, dirs, target>>

\* Reading a Go file, copying and writing may fail, which is a panic.
IoError ==
  /\ \/ AtLine("scan") /\ Line # Blank /\ Line \in GoPath /\ Exists(Line)
     \/ AtLine("copy") /\ Line # Blank
  /\ pc' = "ioerror"
  /\ UNCHANGED <<job, next, goPackage, dirs, target>>

\* Variant: the last path is left out.
ExitEarly ==
  /\ pc = "copy"
  /\ next >= Len(job.manifest)
  /\ pc' = "done"
  /\ UNCHANGED <<job, next, goPackage, dirs, target>>

Exit ==
  /\ pc = "copy"
  /\ next > Len(job.manifest)
  /\ pc' = "done"
  /\ UNCHANGED <<job, next, goPackage, dirs, target>>

Next ==
  \/ SkipBlank \/ ScanPath \/ StartCopy
  \/ CopyExisting \/ FillMissing
  \/ IoError \/ Exit

Spec == Init /\ [][Next]_vars

-----------------------------------------------------------------------------
(***************************************************************************)
(* Properties                                                              *)
(***************************************************************************)

\* The Go files that the plugin wrote and that name a package.
NamesPackage(p) == p \in GoPath /\ Exists(p) /\ job.source[p].packages # << >>

Generated == {p \in Outputs : NamesPackage(p)}

PackagesOf(p) == {job.source[p].packages[n] : n \in 1..Len(job.source[p].packages)}

\* When the fixer exits with status 0, the files in the output directory are
\* those that proto_compile declared as outputs of the action, no fewer and no
\* more, whatever the plugin wrote.
ProducesDeclared ==
  pc = "done" => \A p \in Path : target[p] # Absent <=> p \in Outputs

\* What the plugin wrote is never replaced by the template, and nothing is a
\* copy of what the plugin did not write.
KeepsGenerated ==
  \A p \in Path : target[p] # Absent => (target[p] = Copied <=> Exists(p))

\* If the generated Go files are all of one package, so is every file that is
\* filled in, wherever in the manifest the generated ones are.
MatchesGenerated ==
  \A k \in Package :
    Generated # {} /\ (\A g \in Generated : PackagesOf(g) = {k}) =>
      \A p \in Path : target[p].kind = "filled" => target[p].package = k

\* The files filled into one directory are all of one package: Go has no other
\* kind of directory.
FillsAgree ==
  \A p, q \in Path :
    target[p].kind = "filled" /\ target[q].kind = "filled" /\ DirOf[p] = DirOf[q] =>
      target[p].package = target[q].package

\* Of two protos with the same output, the one the plugin wrote a file for
\* cannot be copied twice; nothing else makes the fixer fail.
DeniedOnlyTwice ==
  pc = "denied" =>
    \E i, j \in 1..Len(job.manifest) :
      i # j /\ job.manifest[i] = job.manifest[j] /\ job.manifest[i] \in {p \in Path : Exists(p)}

\* An output that was written does not change again.
KeepsOutputs == [][\A p \in Path : target[p] # Absent => target'[p] = target[p]]_vars

-----------------------------------------------------------------------------
(***************************************************************************)
(* The inductive invariant                                                 *)
(***************************************************************************)

Reached(p) == \E i \in 1..Len(job.manifest) : i < next /\ job.manifest[i] = p

LastPackage(p) == job.source[p].packages[Len(job.source[p].packages)]

\* go_package comes from a generated Go file, the last one scanned, and is
\* empty after the scan only if there was none.
PackageInv ==
  /\ goPackage # NoPackage => \E g \in Generated : goPackage = LastPackage(g)
  /\ goPackage = NoPackage =>
       /\ pc = "scan" => \A g \in Generated : ~ Reached(g)
       /\ pc = "copy" \/ target # NoFiles => Generated = {}

\* The copy loop has written the paths it has been at and nothing else.
TargetInv ==
  /\ pc = "scan" => target = NoFiles
  /\ pc \in {"copy", "done"} => \A p \in Path : target[p] # Absent <=> Reached(p)
  /\ \A p \in Path :
       target[p] # Absent => target[p] = IF Exists(p) THEN Copied ELSE Filled(PackageFor(p))

\* The directories of the outputs exist, and only a second copy is denied.
IInv ==
  /\ TypeOK
  /\ {DirOf[p] : p \in Outputs} \subseteq dirs
  /\ PackageInv
  /\ TargetInv
  /\ DeniedOnlyTwice
  /\ pc = "done" => next = Len(job.manifest) + 1
=============================================================================
