---------------------------- MODULE ReleaseProofs ----------------------------
(***************************************************************************)
(* Release.tla: the registry serves what is attached to the releases and   *)
(* only grows, for every set of versions and of modules, every history of  *)
(* the source tree and every number of runs.                               *)
(***************************************************************************)
EXTENDS Release, SequenceTheorems, TLAPS

-----------------------------------------------------------------------------
(* Lemmas *)

\* A bundled archive is none of the placeholders.
LEMMA ArchiveFacts ==
  /\ \A a \in Archive : a # NoArchive
  /\ \A c \in Contents, r \in 1..MaxRuns : [content |-> c, run |-> r] \in Archive
  BY DEF Archive, NoArchive, Contents

\* There is a branch that changes nothing.
LEMMA NoBranchTyped == NoRegistry \in Registry /\ NoBranch \in Branch
<1>1. NoRegistry \in Registry
  BY DEF NoRegistry, NoEntry, Registry
<1> QED
  BY <1>1 DEF NoBranch, Branch

\* The state of no run.
LEMMA IdleTyped ==
  /\ Idle \in [pc : {"idle", "check", "bundle", "copy", "update", "print"}, version : Versions \cup {NoVersion},
               archives : [Modules -> Archive \cup {NoArchive}], todo : SUBSET Modules, clone : Branch]
  /\ Idle.pc = "idle" /\ Idle.todo = {}
  BY NoBranchTyped DEF Idle, NoFiles

\* The types of a run, apart from the modules left, which depend on the run.
LEMMA RunTyped ==
  ASSUME ReleaseTypeOK
  PROVE  /\ run.archives \in [Modules -> Archive \cup {NoArchive}]
         /\ run.todo \subseteq Bundled /\ Bundled \subseteq Modules
         /\ run.clone \in Branch
         /\ run.pc # "idle" => run.version \in Versions /\ runs \in 1..MaxRuns
  BY IdleTyped DEF ReleaseTypeOK, Bundled, Idle, Archive

\* Adding to the files of other versions leaves what a branch adds alone.
LEMMA SameAdds ==
  ASSUME NEW b, NEW v, NEW f, NEW g, AddsOnly(b, v, f),
         \A m \in Modules : f[m] # NoArchive => g[m] = f[m]
  PROVE  AddsOnly(b, v, g)
  BY DEF AddsOnly

\* A branch that has only begun adds nothing.
LEMMA BegunAdds ==
  ASSUME NEW r, NEW v, NEW f
  PROVE  AddsOnly([base |-> r, head |-> r], v, f)
  BY DEF AddsOnly

-----------------------------------------------------------------------------
(* The script *)

\* A step that leaves everything but the run, the tree and the branch.
LEMMA RestKept ==
  ASSUME IInv, UNCHANGED <<tags, dist, staging, guide, release, pr, registry>>
  PROVE  StepsInv' /\ RegistryInv' /\ RegistryServesRelease'
<1>1. StepsInv'
  BY DEF IInv, StepsInv, HasVersion, AddsOnly
<1>2. RegistryInv'
  BY DEF IInv, RegistryInv, HasVersion, AddsOnly
<1>3. RegistryServesRelease'
  BY DEF IInv, RegistryServesRelease, HasVersion
<1> QED
  BY <1>1, <1>2, <1>3

\* A step that leaves no run, or one that has only begun.
LEMMA NoRunKept ==
  ASSUME run'.pc \in {"idle", "check"}
  PROVE  RunInv' /\ CloneInv'
  BY DEF RunInv, CloneInv

\* A run begins with nothing but its version.
LEMMA StartStep ==
  ASSUME IInv, NEW v \in Versions, Start(v)
  PROVE  IInv'
<1> USE DEF Start
<1>1. run'.pc = "check" /\ run'.version = v /\ runs' \in 0..MaxRuns /\ runs' > 0
  BY ReleaseAssumption, IdleTyped DEF IInv, ReleaseTypeOK
<1>2. ReleaseTypeOK'
  BY <1>1, IdleTyped DEF IInv, ReleaseTypeOK, Bundled
<1> QED
  BY <1>1, <1>2, NoRunKept, RestKept DEF IInv

\* A run that the checks refuse leaves all as it was.
LEMMA RefuseStep ==
  ASSUME IInv, Refuse
  PROVE  IInv'
<1> USE DEF Refuse
<1>1. ReleaseTypeOK'
  BY IdleTyped DEF IInv, ReleaseTypeOK, Bundled
<1> QED
  BY <1>1, IdleTyped, NoRunKept, RestKept DEF IInv

\* That the version has no tag, and that nobody is at its steps any more, is
\* what the run relies on from the checks on.
LEMMA CheckStep ==
  ASSUME IInv, Check
  PROVE  IInv'
<1> USE DEF Check, At, GivenUp
<1> DEFINE v == run.version
<1>1. v \in Versions /\ runs \in 1..MaxRuns /\ v \notin tags
  BY RunTyped DEF IInv
<1>2. run' \in [pc : {"bundle"}, version : {v}, archives : {run.archives},
                todo : {run.todo}, clone : {run.clone}]
  BY DEF IInv, ReleaseTypeOK
<1>3. Bundled' = Bundled
  BY <1>2 DEF Bundled
<1>4. guide' \in [Versions -> {"none", "tag", "attach", "pr"}] /\ guide'[v] = "none"
  BY <1>1 DEF IInv, ReleaseTypeOK
<1>5. ReleaseTypeOK'
  BY <1>1, <1>2, <1>3, <1>4, RunTyped DEF IInv, ReleaseTypeOK
<1>6. RunInv'
  BY <1>1, <1>2, <1>3, <1>4 DEF RunInv
<1>7. CloneInv'
  BY <1>2 DEF CloneInv
<1>8. StepsInv'
  <2> SUFFICES ASSUME NEW w \in Versions
               PROVE  /\ guide'[w] # "none" => pr'[w] = "none"
                      /\ guide'[w] \in {"attach", "pr"} \/ pr'[w] # "none" => w \in tags'
                      /\ guide'[w] \in {"tag", "attach"} => AddsOnly(staging[w], w, dist[w])
                      /\ guide'[w] = "pr" \/ pr'[w] = "open" => AddsOnly(staging[w], w, release[w])
    BY DEF StepsInv, AddsOnly
  <2>1. guide'[w] = guide[w] \/ guide'[w] = "none"
    BY DEF IInv, ReleaseTypeOK
  <2> QED
    BY <2>1 DEF IInv, StepsInv
<1>9. RegistryInv' /\ RegistryServesRelease'
  BY DEF IInv, RegistryInv, RegistryServesRelease, HasVersion
<1> QED
  BY <1>5, <1>6, <1>7, <1>8, <1>9 DEF IInv

\* What is bundled is still to be copied.
LEMMA BundleStep ==
  ASSUME IInv, Bundle
  PROVE  IInv'
<1> USE DEF Bundle, At
<1> DEFINE v == run.version
<1>1. /\ v \in Versions /\ runs \in 1..MaxRuns /\ tree \in Contents
      /\ v \notin tags /\ guide[v] = "none"
  BY RunTyped DEF IInv, ReleaseTypeOK, RunInv
<1>2. ModulesOf[tree] \subseteq Modules
  BY <1>1, ReleaseAssumption DEF Contents
<1>3. [content |-> tree, run |-> runs] \in Archive
  BY <1>1, ArchiveFacts
<1>4. /\ run' \in [pc : {"copy"}, version : {v}, archives : [Modules -> Archive \cup {NoArchive}],
                   todo : SUBSET Modules, clone : Branch]
      /\ \A m \in Modules : run'.archives[m] # NoArchive <=> m \in run'.todo
  BY <1>1, <1>2, <1>3, ArchiveFacts, RunTyped DEF IInv, ReleaseTypeOK
<1>5. Bundled' = run'.todo
  BY <1>4 DEF Bundled
<1>6. UNCHANGED <<branch, tree, tags, runs, dist, staging, guide, release, pr, registry>>
  OBVIOUS
<1> HIDE DEF Bundle
<1>7. ReleaseTypeOK'
  BY <1>1, <1>4, <1>5, <1>6 DEF IInv, ReleaseTypeOK
<1>8. RunInv'
  BY <1>1, <1>4, <1>5, <1>6 DEF RunInv
<1>9. CloneInv'
  BY <1>4 DEF CloneInv
<1> QED
  BY <1>6, <1>7, <1>8, <1>9, RestKept DEF IInv

\* dist changes for the version of the run only, at whose steps nobody is.
LEMMA DistKept ==
  ASSUME IInv, NEW v \in Versions, NEW m \in Modules, NEW f, guide[v] = "none",
         dist' = [dist EXCEPT ![v][m] = f],
         UNCHANGED <<tags, staging, guide, release, pr, registry>>
  PROVE  StepsInv' /\ RegistryInv' /\ RegistryServesRelease'
<1>1. \A w \in Versions : w # v => dist'[w] = dist[w]
  BY DEF IInv, ReleaseTypeOK
<1>2. StepsInv'
  <2> SUFFICES ASSUME NEW w \in Versions
               PROVE  /\ guide[w] # "none" => pr[w] = "none"
                      /\ guide[w] \in {"attach", "pr"} \/ pr[w] # "none" => w \in tags
                      /\ guide[w] \in {"tag", "attach"} => AddsOnly(staging[w], w, dist'[w])
                      /\ guide[w] = "pr" \/ pr[w] = "open" => AddsOnly(staging[w], w, release[w])
    BY DEF StepsInv, AddsOnly
  <2> QED
    BY <1>1 DEF IInv, StepsInv
<1> QED
  BY <1>2 DEF IInv, RegistryInv, RegistryServesRelease, HasVersion

\* A file is copied below a version at whose steps nobody is.
LEMMA CopyAssetStep ==
  ASSUME IInv, NEW m \in Modules, CopyAsset(m)
  PROVE  IInv'
<1> USE DEF CopyAsset, At
<1> DEFINE v == run.version
<1>1. /\ v \in Versions /\ v \notin tags /\ guide[v] = "none"
      /\ run.archives[m] \in Archive \cup {NoArchive}
  BY RunTyped DEF IInv, RunInv
<1>2. /\ run' \in [pc : {"copy"}, version : {v}, archives : {run.archives},
                   todo : SUBSET Bundled, clone : {run.clone}]
      /\ run'.todo = run.todo \ {m}
      /\ run'.pc = "copy" /\ run'.version = v /\ run'.archives = run.archives
  BY RunTyped DEF IInv, ReleaseTypeOK
<1>3. Bundled' = Bundled
  BY <1>2 DEF Bundled
<1>4. dist' \in [Versions -> Files] /\ dist'[v][m] = run.archives[m]
      /\ \A k \in Modules : k # m => dist'[v][k] = dist[v][k]
  BY <1>1 DEF IInv, ReleaseTypeOK, Files
<1>5. ReleaseTypeOK'
  BY <1>1, <1>2, <1>3, <1>4, RunTyped DEF IInv, ReleaseTypeOK
<1>6. RunInv'
  BY <1>1, <1>2, <1>3, <1>4, RunTyped DEF IInv, RunInv
<1>7. CloneInv'
  BY <1>2 DEF CloneInv
<1> QED
  BY <1>1, <1>5, <1>6, <1>7, DistKept DEF IInv

\* The branch begins without a change, when all archives are copied.
LEMMA CloneStep ==
  ASSUME IInv, Clone
  PROVE  IInv'
<1> DEFINE begun == [base |-> registry, head |-> registry]
<1>1. run' = [run EXCEPT !.pc = "update", !.todo = Bundled, !.clone = begun]
  BY DEF Clone
<1>2. UNCHANGED <<branch, tree, tags, runs, dist, staging, guide, release, pr, registry>>
  BY DEF Clone
<1>3. begun \in Branch /\ \A v, f : AddsOnly(begun, v, f)
  BY BegunAdds DEF IInv, ReleaseTypeOK, Branch
<1>4. \A m \in Modules : begun.head[m] = begun.base[m]
  OBVIOUS
<1>5. run.pc = "copy" /\ run.todo = {} /\ run.version \in Versions /\ runs > 0
  BY RunTyped DEF IInv, Clone, At
<1> HIDE DEF begun
<1>6. run' \in [pc : {"update"}, version : {run.version}, archives : {run.archives},
                todo : {Bundled}, clone : {begun}]
  BY <1>1 DEF IInv, ReleaseTypeOK
<1>7. Bundled' = Bundled
  BY <1>6 DEF Bundled
<1>8. ReleaseTypeOK'
  <2>1. run' \in [pc : {"idle", "check", "bundle", "copy", "update", "print"}, version : Versions \cup {NoVersion},
                  archives : [Modules -> Archive \cup {NoArchive}], todo : SUBSET Bundled', clone : Branch]
    BY <1>3, <1>5, <1>6, <1>7, RunTyped DEF IInv
  <2> QED
    BY <1>2, <1>5, <1>6, <2>1 DEF IInv, ReleaseTypeOK
<1>9. RunInv'
  BY <1>2, <1>5, <1>6, <1>7 DEF IInv, RunInv
<1>10. CloneInv'
  BY <1>3, <1>4, <1>6, RunTyped DEF IInv, CloneInv
<1> QED
  BY <1>2, <1>8, <1>9, <1>10, RestKept DEF IInv

\* A module that is updated gains the version with the archive of the run.
LEMMA UpdateModuleStep ==
  ASSUME IInv, NEW m \in Modules, UpdateModule(m)
  PROVE  IInv'
<1> DEFINE v    == run.version
           head == run.clone.head
           base == run.clone.base
           add  == AddVersion(head[m], v, run.archives[m])
           new  == [head EXCEPT ![m] = add]
           begun == [base |-> base, head |-> new]
<1>1. run' = [run EXCEPT !.todo = run.todo \ {m}, !.clone = begun]
  <2>1. run' = [run EXCEPT !.todo = run.todo \ {m}, !.clone = [run.clone EXCEPT !.head = new]]
    BY DEF UpdateModule
  <2>2. [run.clone EXCEPT !.head = new] = begun
    BY RunTyped DEF IInv, Branch
  <2> QED
    BY <2>1, <2>2
<1>2. UNCHANGED <<branch, tree, tags, runs, dist, staging, guide, release, pr, registry>>
  BY DEF UpdateModule
<1>3. /\ run.pc = "update" /\ m \in run.todo /\ v \in Versions /\ runs > 0
      /\ run.clone.head[m].entries[v] = NoArchive
  BY RunTyped DEF IInv, UpdateModule, At, HasVersion
<1>4. /\ head \in Registry /\ base \in Registry
      /\ run.archives[m] \in Archive \cup {NoArchive} /\ run.archives[m] # NoArchive
      /\ head[m] = base[m]
  BY <1>3, RunTyped DEF IInv, Branch, CloneInv, Bundled
<1>5. /\ new \in Registry
      /\ \A k \in Modules : k # m => new[k] = head[k]
      /\ new[m].entries = [base[m].entries EXCEPT ![v] = run.archives[m]]
      /\ new[m].versions = Append(base[m].versions, v)
  <2>1. add \in [versions : Seq(Versions), yanked : SUBSET Versions,
               entries : [Versions -> Archive \cup {NoArchive}]]
    BY <1>3, <1>4 DEF Registry, AddVersion
  <2>2. new \in Registry /\ new[m] = add
    BY <2>1, <1>4 DEF Registry
  <2> QED
    BY <2>2, <1>4 DEF Registry, AddVersion
<1>6. AddsOnly(run.clone, v, run.archives)
  BY <1>3 DEF IInv, CloneInv
<1>7. AddsOnly(begun, v, run.archives)
  BY <1>3, <1>4, <1>5, <1>6 DEF AddsOnly
<1>8. begun \in Branch /\ \A k \in run.todo \ {m} : begun.head[k] = begun.base[k]
  BY <1>3, <1>4, <1>5, RunTyped DEF Branch, IInv, CloneInv
<1> HIDE DEF begun, new, add, head, base
<1>10. /\ run' \in [pc : {"update"}, version : {v}, archives : {run.archives},
                    todo : {run.todo \ {m}}, clone : {begun}]
  BY <1>1, <1>3 DEF IInv, ReleaseTypeOK
<1>11. Bundled' = Bundled
  BY <1>10 DEF Bundled
<1>12. ReleaseTypeOK'
  <2>1. run' \in [pc : {"idle", "check", "bundle", "copy", "update", "print"}, version : Versions \cup {NoVersion},
                  archives : [Modules -> Archive \cup {NoArchive}], todo : SUBSET Bundled', clone : Branch]
    BY <1>3, <1>8, <1>10, <1>11, RunTyped DEF IInv
  <2> QED
    BY <1>2, <1>3, <1>10, <2>1 DEF IInv, ReleaseTypeOK
<1>13. RunInv'
  BY <1>2, <1>3, <1>10, <1>11 DEF IInv, RunInv
<1>14. CloneInv'
  BY <1>7, <1>8, <1>10 DEF CloneInv
<1> QED
  BY <1>2, <1>12, <1>13, <1>14, RestKept DEF IInv

\* A version without a tag has no pull request, so that the branch that is
\* overwritten is not one that is to be merged.
LEMMA PushStep ==
  ASSUME IInv, Push
  PROVE  IInv'
<1> USE DEF Push, At
<1> DEFINE v == run.version
<1>1. /\ v \in Versions /\ v \notin tags /\ guide[v] = "none" /\ pr[v] = "none" /\ runs > 0
      /\ run.clone \in Branch
  BY RunTyped DEF IInv, RunInv, StepsInv
<1>2. /\ run' \in [pc : {"print"}, version : {v}, archives : {run.archives},
                   todo : {run.todo}, clone : {run.clone}]
  BY DEF IInv, ReleaseTypeOK
<1>3. Bundled' = Bundled
  BY <1>2 DEF Bundled
<1>4. staging' \in [Versions -> Branch] /\ staging'[v] = run.clone
      /\ \A w \in Versions : w # v => staging'[w] = staging[w]
  BY <1>1 DEF IInv, ReleaseTypeOK
<1>5. ReleaseTypeOK'
  BY <1>1, <1>2, <1>3, <1>4, RunTyped DEF IInv, ReleaseTypeOK
<1>6. RunInv'
  BY <1>2, <1>3 DEF IInv, RunInv
<1>7. CloneInv'
  BY <1>2, <1>4 DEF IInv, CloneInv
<1>8. StepsInv'
  <2>0. UNCHANGED <<tags, dist, guide, release, pr>>
    OBVIOUS
  <2> HIDE DEF Push
  <2> SUFFICES ASSUME NEW w \in Versions
               PROVE  /\ guide[w] # "none" => pr[w] = "none"
                      /\ guide[w] \in {"attach", "pr"} \/ pr[w] # "none" => w \in tags
                      /\ guide[w] \in {"tag", "attach"} => AddsOnly(staging'[w], w, dist[w])
                      /\ guide[w] = "pr" \/ pr[w] = "open" => AddsOnly(staging'[w], w, release[w])
    BY <2>0 DEF StepsInv, AddsOnly
  <2>1. CASE w = v
    BY <1>1, <2>1 DEF IInv, StepsInv
  <2>2. CASE w # v
    BY <1>4, <2>2 DEF IInv, StepsInv
  <2> QED
    BY <2>1, <2>2
<1>9. RegistryInv' /\ RegistryServesRelease'
  BY DEF IInv, RegistryInv, RegistryServesRelease, HasVersion
<1> QED
  BY <1>5, <1>6, <1>7, <1>8, <1>9 DEF IInv

\* When the steps are printed dist has the archives whose hashes were pushed.
LEMMA PrintStepsStep ==
  ASSUME IInv, PrintSteps
  PROVE  IInv'
<1> USE DEF PrintSteps, At
<1> DEFINE v == run.version
<1>1. v \in Versions /\ v \notin tags /\ pr[v] = "none"
  BY RunTyped DEF IInv, RunInv, StepsInv
<1>2. AddsOnly(staging[v], v, dist[v])
  <2>1. \A m \in Modules : run.archives[m] # NoArchive => dist[v][m] = run.archives[m]
    BY DEF IInv, RunInv, Bundled
  <2>2. AddsOnly(staging[v], v, run.archives)
    BY DEF IInv, CloneInv
  <2> QED
    BY <2>1, <2>2, SameAdds
<1>3. guide' \in [Versions -> {"none", "tag", "attach", "pr"}] /\ guide'[v] = "tag"
      /\ \A w \in Versions : w # v => guide'[w] = guide[w]
  BY <1>1 DEF IInv, ReleaseTypeOK
<1>4. ReleaseTypeOK'
  BY <1>3, IdleTyped DEF IInv, ReleaseTypeOK, Bundled
<1>5. RunInv' /\ CloneInv'
  BY IdleTyped, NoRunKept
<1>6. StepsInv'
  <2> SUFFICES ASSUME NEW w \in Versions
               PROVE  /\ guide'[w] # "none" => pr[w] = "none"
                      /\ guide'[w] \in {"attach", "pr"} \/ pr[w] # "none" => w \in tags
                      /\ guide'[w] \in {"tag", "attach"} => AddsOnly(staging[w], w, dist[w])
                      /\ guide'[w] = "pr" \/ pr[w] = "open" => AddsOnly(staging[w], w, release[w])
    BY DEF StepsInv, AddsOnly
  <2> QED
    BY <1>1, <1>2, <1>3 DEF IInv, StepsInv
<1>7. RegistryInv' /\ RegistryServesRelease'
  BY DEF IInv, RegistryInv, RegistryServesRelease, HasVersion
<1> QED
  BY <1>4, <1>5, <1>6, <1>7 DEF IInv

\* A run that fails leaves dist half copied, at whose steps nobody is.
LEMMA FailStep ==
  ASSUME IInv, Fail
  PROVE  IInv'
<1> USE DEF Fail, At
<1>1. RunInv' /\ CloneInv'
  BY IdleTyped, NoRunKept
<1>2. CASE UNCHANGED dist
  <2>1. ReleaseTypeOK'
    BY <1>2, IdleTyped DEF IInv, ReleaseTypeOK, Bundled
  <2> QED
    BY <1>1, <1>2, <2>1, RestKept DEF IInv
<1>3. CASE \E m \in Modules : /\ run.pc = "copy" /\ m \in run.todo
                              /\ dist' = [dist EXCEPT ![run.version][m] = CutShort]
  <2>1. PICK m \in Modules : run.pc = "copy" /\ dist' = [dist EXCEPT ![run.version][m] = CutShort]
    BY <1>3
  <2>2. run.version \in Versions /\ guide[run.version] = "none"
    BY <2>1, RunTyped DEF IInv, RunInv
  <2>3. dist' \in [Versions -> Files]
    BY <2>1, <2>2 DEF IInv, ReleaseTypeOK, Files
  <2>4. ReleaseTypeOK'
    BY <2>3, IdleTyped DEF IInv, ReleaseTypeOK, Bundled
  <2> QED
    BY <1>1, <2>1, <2>2, <2>4, DistKept DEF IInv
<1> QED
  BY <1>2, <1>3

-----------------------------------------------------------------------------
(* The maintainer *)

\* A step that leaves the run keeps what does not depend on the rest.
LEMMA RunKept ==
  ASSUME IInv, UNCHANGED <<run, dist, staging>>,
         \A v \in Versions : v \notin tags /\ guide[v] = "none" =>
           v \notin tags' /\ guide'[v] = "none"
  PROVE  RunInv' /\ CloneInv'
<1>1. Bundled' = Bundled
  BY DEF Bundled
<1>2. run.pc \in {"bundle", "copy", "update", "print"} => run.version \in Versions
  BY RunTyped DEF IInv
<1> QED
  BY <1>1, <1>2 DEF IInv, RunInv, CloneInv, AddsOnly

\* The source tree and the branch do not matter after the bundling.
LEMMA ChangeStep ==
  ASSUME IInv, Change \/ Switch
  PROVE  IInv'
<1>1. UNCHANGED <<tags, runs, run, dist, staging, guide, release, pr, registry>>
  BY DEF Change, Switch
<1>2. branch' \in {"master", "topic"} /\ tree' \in Contents
  BY DEF Change, Switch, IInv, ReleaseTypeOK
<1>3. ReleaseTypeOK'
  BY <1>1, <1>2 DEF IInv, ReleaseTypeOK, Bundled
<1> QED
  BY <1>1, <1>3, RunKept, RestKept DEF IInv

\* A tag is made for a version of which no run is past the checks.
LEMMA TagStep ==
  ASSUME IInv, NEW v \in Versions, Tag(v)
  PROVE  IInv'
<1>1. UNCHANGED <<branch, tree, runs, run, dist, staging, release, pr, registry>>
  BY DEF Tag
<1>2. /\ guide[v] = "tag" /\ tags' = tags \cup {v}
      /\ guide' \in [Versions -> {"none", "tag", "attach", "pr"}] /\ guide'[v] = "attach"
      /\ \A w \in Versions : w # v => guide'[w] = guide[w]
  BY DEF Tag, IInv, ReleaseTypeOK
<1>3. ReleaseTypeOK'
  BY <1>1, <1>2 DEF IInv, ReleaseTypeOK, Bundled
<1>4. RunInv' /\ CloneInv'
  BY <1>1, <1>2, RunKept
<1>5. StepsInv'
  BY <1>1, <1>2 DEF IInv, StepsInv, AddsOnly
<1>6. RegistryInv' /\ RegistryServesRelease'
  BY <1>1 DEF IInv, RegistryInv, RegistryServesRelease, HasVersion
<1> QED
  BY <1>3, <1>4, <1>5, <1>6 DEF IInv

\* What is attached is what dist has, before the registry has the version.
LEMMA AttachStep ==
  ASSUME IInv, NEW v \in Versions, Attach(v)
  PROVE  IInv'
<1>1. UNCHANGED <<branch, tree, tags, runs, run, dist, staging, pr, registry>>
  BY DEF Attach
<1>2. /\ guide[v] = "attach" /\ v \in tags /\ pr[v] = "none"
      /\ guide' \in [Versions -> {"none", "tag", "attach", "pr"}] /\ guide'[v] = "pr"
      /\ \A w \in Versions : w # v => guide'[w] = guide[w]
  BY DEF Attach, IInv, ReleaseTypeOK, StepsInv
<1>3. /\ release' \in [Versions -> Files] /\ release'[v] = dist[v]
      /\ \A w \in Versions : w # v => release'[w] = release[w]
  BY DEF Attach, IInv, ReleaseTypeOK
<1>4. ReleaseTypeOK'
  BY <1>1, <1>2, <1>3 DEF IInv, ReleaseTypeOK, Bundled
<1>5. RunInv' /\ CloneInv'
  BY <1>1, <1>2, RunKept
<1>6. StepsInv'
  <2> SUFFICES ASSUME NEW w \in Versions
               PROVE  /\ guide'[w] # "none" => pr[w] = "none"
                      /\ guide'[w] \in {"attach", "pr"} \/ pr[w] # "none" => w \in tags
                      /\ guide'[w] \in {"tag", "attach"} => AddsOnly(staging[w], w, dist[w])
                      /\ guide'[w] = "pr" \/ pr[w] = "open" => AddsOnly(staging[w], w, release'[w])
    BY <1>1 DEF StepsInv, AddsOnly
  <2> QED
    BY <1>2, <1>3 DEF IInv, StepsInv
<1>7. RegistryInv'
  BY <1>1 DEF IInv, RegistryInv, HasVersion
<1>8. RegistryServesRelease'
  <2>1. \A m \in Modules : ~ HasVersion(registry, m, v)
    BY <1>2 DEF IInv, RegistryInv
  <2> QED
    BY <1>1, <1>3, <2>1 DEF IInv, RegistryServesRelease, HasVersion
<1> QED
  BY <1>4, <1>5, <1>6, <1>7, <1>8 DEF IInv

\* A pull request is opened when the release has its files.
LEMMA OpenPRStep ==
  ASSUME IInv, NEW v \in Versions, OpenPR(v)
  PROVE  IInv'
<1>1. UNCHANGED <<branch, tree, tags, runs, run, dist, staging, release, registry>>
  BY DEF OpenPR
<1>2. /\ guide[v] = "pr" /\ v \in tags /\ pr[v] = "none"
      /\ guide' \in [Versions -> {"none", "tag", "attach", "pr"}] /\ guide'[v] = "none"
      /\ \A w \in Versions : w # v => guide'[w] = guide[w]
  BY DEF OpenPR, IInv, ReleaseTypeOK, StepsInv
<1>3. /\ pr' \in [Versions -> {"none", "open", "merged"}] /\ pr'[v] = "open"
      /\ \A w \in Versions : w # v => pr'[w] = pr[w]
  BY DEF OpenPR, IInv, ReleaseTypeOK
<1>4. ReleaseTypeOK'
  BY <1>1, <1>2, <1>3 DEF IInv, ReleaseTypeOK, Bundled
<1>5. RunInv' /\ CloneInv'
  BY <1>1, <1>2, RunKept
<1>6. StepsInv'
  <2> SUFFICES ASSUME NEW w \in Versions
               PROVE  /\ guide'[w] # "none" => pr'[w] = "none"
                      /\ guide'[w] \in {"attach", "pr"} \/ pr'[w] # "none" => w \in tags
                      /\ guide'[w] \in {"tag", "attach"} => AddsOnly(staging[w], w, dist[w])
                      /\ guide'[w] = "pr" \/ pr'[w] = "open" => AddsOnly(staging[w], w, release[w])
    BY <1>1 DEF StepsInv, AddsOnly
  <2> QED
    BY <1>2, <1>3 DEF IInv, StepsInv
<1>7. RegistryInv' /\ RegistryServesRelease'
  BY <1>1, <1>2, <1>3 DEF IInv, RegistryInv, RegistryServesRelease, HasVersion
<1> QED
  BY <1>4, <1>5, <1>6, <1>7 DEF IInv

\* What Merge leaves of a module that the branch changes: the version is new,
\* and the archive that is attached is its entry.
LEMMA MergedModule ==
  ASSUME IInv, NEW v \in Versions, Merge(v), NEW m \in Changed(staging[v])
  PROVE  /\ m \in Modules
         /\ registry[m].entries[v] = NoArchive
         /\ release[v][m] # NoArchive
         /\ registry'[m].entries = [registry[m].entries EXCEPT ![v] = release[v][m]]
         /\ registry'[m].versions = Append(registry[m].versions, v)
<1>1. m \in Modules /\ staging[v].head[m] # staging[v].base[m]
  BY DEF Changed
<1>2. AddsOnly(staging[v], v, release[v])
  BY DEF IInv, StepsInv, Merge
<1>3. registry[m] = staging[v].base[m] /\ registry'[m] = staging[v].head[m]
  BY <1>1 DEF Merge
<1> QED
  BY <1>1, <1>2, <1>3 DEF AddsOnly

\* The modules that the branch does not change stay.
LEMMA UnmergedModule ==
  ASSUME NEW v \in Versions, Merge(v), NEW m \in Modules, m \notin Changed(staging[v])
  PROVE  registry'[m] = registry[m]
  BY DEF Merge

\* A version is appended to a list that does not have it.
LEMMA AppendVersion ==
  ASSUME NEW s \in Seq(Versions), NEW v \in Versions, v \notin ToSet(s), IsInjective(s)
  PROVE  /\ IsInjective(Append(s, v))
         /\ ToSet(Append(s, v)) = ToSet(s) \cup {v}
         /\ IsPrefix(s, Append(s, v))
<1> DEFINE n == Len(s)
           t == Append(s, v)
<1>1. /\ n \in Nat /\ DOMAIN s = 1..n
      /\ Len(t) = n + 1 /\ DOMAIN t = 1..(n + 1)
      /\ t[n + 1] = v /\ \A i \in 1..n : t[i] = s[i]
      /\ \A i \in 1..n : s[i] # v
  BY AppendProperties DEF ToSet
<1>2. 1..(n + 1) = 1..n \cup {n + 1}
  BY <1>1
<1>3. SubSeq(s, 1, n) = SubSeq(t, 1, n)
  <2>1. \A i \in 1..n : s[i] \in Versions
    OBVIOUS
  <2>2. SubSeq(t, 1, n) = [i \in 1..n |-> t[i]] /\ SubSeq(s, 1, n) = [i \in 1..n |-> s[i]]
    BY <1>1
  <2> QED
    BY <1>1, <2>2
<1> HIDE DEF t, n
<1>4. IsInjective(t)
  BY <1>1, <1>2 DEF IsInjective
<1>5. ToSet(t) = ToSet(s) \cup {v}
  BY <1>1, <1>2 DEF ToSet
<1>6. IsPrefix(s, t)
  BY <1>1, <1>3 DEF IsPrefix, n
<1> QED
  BY <1>4, <1>5, <1>6 DEF t

\* What a merge does to the list of one module.
LEMMA MergedList ==
  ASSUME IInv, NEW v \in Versions, Merge(v), NEW m \in Modules
  PROVE  /\ Extends(registry', registry, m)
         /\ \A w \in Versions : HasVersion(registry', m, w) => HasVersion(registry, m, w) \/ w = v
<1>1. /\ registry \in Registry /\ registry[m].versions \in Seq(Versions)
      /\ registry[m].entries \in [Versions -> Archive \cup {NoArchive}]
  BY DEF IInv, ReleaseTypeOK, Registry
<1>2. /\ IsInjective(registry[m].versions)
      /\ ToSet(registry[m].versions) = {w \in Versions : HasVersion(registry, m, w)}
  BY DEF IInv, RegistryInv
<1>3. CASE m \in Changed(staging[v])
  <2> DEFINE f == release[v][m]
  <2>1. /\ registry[m].entries[v] = NoArchive /\ f # NoArchive
        /\ registry'[m].entries = [registry[m].entries EXCEPT ![v] = f]
        /\ registry'[m].versions = Append(registry[m].versions, v)
    BY <1>3, MergedModule
  <2> HIDE DEF f
  <2>2. v \notin ToSet(registry[m].versions)
    BY <1>2, <2>1 DEF HasVersion
  <2>3. /\ registry'[m].entries[v] = f
        /\ \A w \in Versions : w # v => registry'[m].entries[w] = registry[m].entries[w]
    BY <1>1, <2>1
  <2>4. {w \in Versions : HasVersion(registry', m, w)} = {w \in Versions : HasVersion(registry, m, w)} \cup {v}
    BY <2>1, <2>3 DEF HasVersion
  <2>5. /\ IsInjective(registry'[m].versions)
        /\ ToSet(registry'[m].versions) = ToSet(registry[m].versions) \cup {v}
        /\ IsPrefix(registry[m].versions, registry'[m].versions)
    BY <1>1, <1>2, <2>1, <2>2, AppendVersion
  <2> QED
    BY <1>2, <2>1, <2>3, <2>4, <2>5 DEF Extends, HasVersion
<1>4. CASE m \notin Changed(staging[v])
  <2>1. registry'[m] = registry[m]
    BY <1>4, UnmergedModule
  <2> QED
    BY <1>1, <1>2, <2>1 DEF Extends, HasVersion, IsPrefix
<1> QED
  BY <1>3, <1>4

\* The steps that leave the versions and their hashes leave the lists as they
\* should be.
LEMMA KeptList ==
  ASSUME IInv, NEW m \in Modules,
         registry'[m].versions = registry[m].versions, registry'[m].entries = registry[m].entries
  PROVE  Extends(registry', registry, m)
<1>1. registry[m].versions \in Seq(Versions)
  BY DEF IInv, ReleaseTypeOK, Registry
<1> QED
  BY <1>1 DEF IInv, RegistryInv, Extends, HasVersion, IsPrefix

\* A merge adds to the registry what the release serves.
LEMMA MergeStep ==
  ASSUME IInv, NEW v \in Versions, Merge(v)
  PROVE  IInv'
<1>1. UNCHANGED <<branch, tree, tags, runs, run, dist, staging, guide, release>>
  BY DEF Merge
<1>2. /\ pr[v] = "open" /\ pr' \in [Versions -> {"none", "open", "merged"}] /\ pr'[v] = "merged"
      /\ \A w \in Versions : w # v => pr'[w] = pr[w]
  BY DEF Merge, IInv, ReleaseTypeOK
<1>3. registry' \in Registry
  <2>1. staging[v].head \in Registry /\ registry \in Registry
    BY DEF IInv, ReleaseTypeOK, Branch
  <2> QED
    BY <2>1 DEF Merge, Registry
<1>4. ReleaseTypeOK'
  BY <1>1, <1>2, <1>3 DEF IInv, ReleaseTypeOK, Bundled
<1>5. RunInv' /\ CloneInv'
  BY <1>1, RunKept
<1>6. StepsInv'
  <2> SUFFICES ASSUME NEW w \in Versions
               PROVE  /\ guide[w] # "none" => pr'[w] = "none"
                      /\ guide[w] \in {"attach", "pr"} \/ pr'[w] # "none" => w \in tags
                      /\ guide[w] \in {"tag", "attach"} => AddsOnly(staging[w], w, dist[w])
                      /\ guide[w] = "pr" \/ pr'[w] = "open" => AddsOnly(staging[w], w, release[w])
    BY <1>1 DEF StepsInv, AddsOnly
  <2> QED
    BY <1>2 DEF IInv, StepsInv
<1>7. RegistryInv'
  <2> SUFFICES ASSUME NEW m \in Modules
               PROVE  /\ IsInjective(registry'[m].versions)
                      /\ ToSet(registry'[m].versions) = {w \in Versions : HasVersion(registry', m, w)}
                      /\ \A w \in Versions : HasVersion(registry', m, w) => pr'[w] = "merged"
    BY DEF RegistryInv, HasVersion
  <2>1. \A w \in Versions : HasVersion(registry', m, w) => HasVersion(registry, m, w) \/ w = v
    BY MergedList
  <2>2. \A w \in Versions : HasVersion(registry, m, w) => pr[w] = "merged"
    BY DEF IInv, RegistryInv
  <2> QED
    BY <1>2, <2>1, <2>2, MergedList DEF Extends
<1>8. RegistryServesRelease'
  <2> SUFFICES ASSUME NEW m \in Modules, NEW w \in Versions, registry'[m].entries[w] # NoArchive
               PROVE  registry'[m].entries[w] = release[w][m]
    BY <1>1 DEF RegistryServesRelease, HasVersion
  <2>1. CASE m \in Changed(staging[v]) /\ w = v
    <3>1. registry[m].entries \in [Versions -> Archive \cup {NoArchive}]
      BY DEF IInv, ReleaseTypeOK, Registry
    <3> QED
      BY <2>1, <3>1, MergedModule
  <2>2. CASE m \in Changed(staging[v]) /\ w # v
    <3>1. registry[m].entries \in [Versions -> Archive \cup {NoArchive}]
      BY DEF IInv, ReleaseTypeOK, Registry
    <3>2. registry'[m].entries = [registry[m].entries EXCEPT ![v] = release[v][m]]
      BY <2>2, MergedModule
    <3>3. registry'[m].entries[w] = registry[m].entries[w]
      BY <2>2, <3>1, <3>2
    <3> QED
      BY <3>3 DEF IInv, RegistryServesRelease, HasVersion
  <2>3. CASE m \notin Changed(staging[v])
    BY <2>3, UnmergedModule DEF IInv, RegistryServesRelease, HasVersion
  <2> QED
    BY <2>1, <2>2, <2>3
<1> QED
  BY <1>4, <1>5, <1>6, <1>7, <1>8 DEF IInv

\* A version that is yanked stays in the registry, with its hash.
LEMMA YankKeeps ==
  ASSUME IInv, NEW m \in Modules, NEW v \in Versions, Yank(m, v)
  PROVE  /\ registry' \in Registry
         /\ \A k \in Modules : /\ registry'[k].versions = registry[k].versions
                              /\ registry'[k].entries = registry[k].entries
<1>1. registry \in Registry
  BY DEF IInv, ReleaseTypeOK
<1>2. registry' = [registry EXCEPT ![m] = [registry[m] EXCEPT !.yanked = registry[m].yanked \cup {v}]]
  BY DEF Yank
<1>3. registry[m] \in [versions : Seq(Versions), yanked : SUBSET Versions,
                       entries : [Versions -> Archive \cup {NoArchive}]]
  BY <1>1 DEF Registry
<1> DEFINE entry == [registry[m] EXCEPT !.yanked = registry[m].yanked \cup {v}]
<1>4. /\ entry \in [versions : Seq(Versions), yanked : SUBSET Versions,
                    entries : [Versions -> Archive \cup {NoArchive}]]
      /\ entry.versions = registry[m].versions /\ entry.entries = registry[m].entries
  BY <1>3
<1> HIDE DEF entry
<1> QED
  BY <1>1, <1>2, <1>4 DEF Registry, entry

\* Nothing of the invariant is about what is yanked.
LEMMA YankStep ==
  ASSUME IInv, NEW m \in Modules, NEW v \in Versions, Yank(m, v)
  PROVE  IInv'
<1>1. UNCHANGED <<branch, tree, tags, runs, run, dist, staging, guide, release, pr>>
  BY DEF Yank
<1>2. ReleaseTypeOK'
  BY <1>1, YankKeeps DEF IInv, ReleaseTypeOK, Bundled
<1>3. RunInv' /\ CloneInv'
  BY <1>1, RunKept
<1>4. StepsInv'
  BY <1>1 DEF IInv, StepsInv, AddsOnly
<1>5. RegistryInv' /\ RegistryServesRelease'
  BY <1>1, YankKeeps DEF IInv, RegistryInv, RegistryServesRelease, HasVersion
<1> QED
  BY <1>2, <1>3, <1>4, <1>5 DEF IInv

-----------------------------------------------------------------------------
(* The theorems *)

\* Before the first run nothing is released.
LEMMA InitInv == Init => IInv
<1> SUFFICES ASSUME Init PROVE IInv
  OBVIOUS
<1> USE DEF Init
<1>1. ReleaseTypeOK
  BY ReleaseAssumption, NoBranchTyped, IdleTyped
     DEF ReleaseTypeOK, Contents, NoFiles, Files, Bundled
<1>2. RunInv /\ CloneInv /\ StepsInv
  BY IdleTyped DEF RunInv, CloneInv, StepsInv
<1>3. RegistryInv /\ RegistryServesRelease
  BY DEF RegistryInv, RegistryServesRelease, HasVersion, NoRegistry, NoEntry, IsInjective, ToSet
<1> QED
  BY <1>1, <1>2, <1>3 DEF IInv

\* Every step of the script, the maintainer or the registry preserves the invariant.
LEMMA NextInv == IInv /\ [Next]_vars => IInv'
<1> SUFFICES ASSUME IInv, [Next]_vars PROVE IInv'
  OBVIOUS
<1>1. CASE Script
  BY <1>1, StartStep, RefuseStep, CheckStep, BundleStep, CopyAssetStep, CloneStep, UpdateModuleStep,
     PushStep, PrintStepsStep, FailStep DEF Script
<1>2. CASE Maintainer
  BY <1>2, ChangeStep, TagStep, AttachStep, OpenPRStep DEF Maintainer
<1>3. CASE Registrar
  BY <1>3, MergeStep, YankStep DEF Registrar
<1>4. CASE UNCHANGED vars
  <2>1. ReleaseTypeOK'
    BY <1>4 DEF vars, IInv, ReleaseTypeOK, Bundled
  <2> QED
    BY <1>4, <2>1, RunKept, RestKept DEF vars, IInv
<1> QED
  BY <1>1, <1>2, <1>3, <1>4 DEF Next

\* The invariant from which the properties of a release follow.
THEOREM Invariance == Spec => []IInv
  BY InitInv, NextInv, PTL DEF Spec

\* The state of the script, of the repositories and of the release pages stays
\* well formed (make_release.py:57-219).
THEOREM TypeCorrect == Spec => []ReleaseTypeOK
<1>1. IInv => ReleaseTypeOK
  BY DEF IInv
<1> QED
  BY <1>1, Invariance, PTL

\* Every archive that the registry has a hash of is the one attached to the
\* release, however runs fail, are repeated and overlap (make_release.py:48-54,
\* 114-119, 151-167, 203-207).
THEOREM Serves == Spec => []RegistryServesRelease
<1>1. IInv => RegistryServesRelease
  BY DEF IInv
<1> QED
  BY <1>1, Invariance, PTL

\* A step of the script, the maintainer or the registry leaves what the registry has and
\* adds a version together with its entry, or nothing.
LEMMA NextExtends == IInv /\ [Next]_vars => [\A m \in Modules : Extends(registry', registry, m)]_vars
<1> SUFFICES ASSUME IInv, Next, NEW m \in Modules PROVE Extends(registry', registry, m)
  OBVIOUS
<1>1. CASE \E v \in Versions : Merge(v)
  BY <1>1, MergedList
<1>2. CASE \E v \in Versions : \E k \in Modules : Yank(k, v)
  BY <1>2, YankKeeps, KeptList
<1>3. CASE ~ Registrar
  <2>1. UNCHANGED registry
    BY <1>3 DEF Next, Script, Maintainer, Start, Refuse, Check, Bundle, Clone, Push, PrintSteps, Fail,
       CopyAsset, UpdateModule, Change, Switch, Tag, Attach, OpenPR
  <2> QED
    BY <2>1, KeptList
<1> QED
  BY <1>1, <1>2, <1>3 DEF Registrar

\* What was released is never changed or taken back, and the lists of versions
\* agree with the entries (make_release.py:128-163).
THEOREM OnlyGrows == Spec => RegistryOnlyGrows
  BY Invariance, NextExtends, PTL DEF Spec, RegistryOnlyGrows
=============================================================================
