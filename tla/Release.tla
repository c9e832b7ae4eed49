------------------------------- MODULE Release -------------------------------
(***************************************************************************)
(* A release, tools/make_release.py: the script bundles every module of    *)
(* the source tree into an archive, copies the archives to dist/<version>, *)
(* adds the version to a clone of the Bazel Central Registry and pushes    *)
(* that to a branch of the staging repository.  It then prints what the    *)
(* maintainer is to do: tag, push the tag, create the release with the     *)
(* files of dist, and open a pull request from the branch.                 *)
(*                                                                         *)
(* The script may fail at any point and be run again; the tree may change  *)
(* in between, and the steps for two versions may interleave.  There is    *)
(* one maintainer with one clone of the repository, who takes the printed  *)
(* steps in their order, and not those of a version that the script was    *)
(* run for anew: no line of the script sees to that (see GivenUp).  The    *)
(* registry merges pull requests, and may yank a version that it has.      *)
(***************************************************************************)
EXTENDS Naturals, FiniteSets, SequencesExt

CONSTANTS
  Modules,     \* the modules that are or will be below modules/
  ModulesOf,   \* those of them in each state of the source tree
  Versions,    \* the versions to release, all of them valid
  MaxRuns      \* the number of runs of the script

Contents == 1..Len(ModulesOf)

ASSUME ReleaseAssumption ==
  /\ ModulesOf \in Seq(SUBSET Modules)
  /\ Len(ModulesOf) > 0
  /\ MaxRuns \in Nat

VARIABLES
  branch,    \* the branch that is checked out
  tree,      \* the state of the source tree in the index
  tags,      \* the versions that have a tag in the clone
  runs,      \* the number of runs so far
  run,       \* the run of the script
  dist,      \* dist/<version>: the archive of each module
  staging,   \* the branch release/<version> of the staging repository
  guide,     \* the next of the printed steps for a version, or "none"
  release,   \* the files attached to the release of a version
  pr,        \* the pull request for a version: "none", "open" or "merged"
  registry   \* the main branch of the registry

vars == <<branch, tree, tags, runs, run, dist, staging, guide, release, pr, registry>>

NoVersion == "none"

(***************************************************************************)
(* An archive is what was bundled and when: gzip writes the time into its  *)
(* header, so that no two runs make the same archive.  Its hash is itself. *)
(***************************************************************************)
Archive   == [content : Contents, run : 1..MaxRuns]
NoArchive == [content |-> 0, run |-> 0]
CutShort  == [content |-> 0, run |-> 1]

NoFiles == [m \in Modules |-> NoArchive]
Files   == [Modules -> Archive \cup {NoArchive, CutShort}]

\* A module in the registry: the versions that metadata.json lists and those
\* that it calls yanked, and the hash in the source.json of each version that
\* has a directory.
NoEntry    == [versions |-> << >>, yanked |-> {}, entries |-> [v \in Versions |-> NoArchive]]
HasVersion(r, m, v) == r[m].entries[v] # NoArchive
NoRegistry == [m \in Modules |-> NoEntry]

Registry ==
  [Modules -> [versions : Seq(Versions), yanked : SUBSET Versions,
               entries : [Versions -> Archive \cup {NoArchive}]]]

\* A branch of the registry: the main branch it began from, and its content.
NoBranch == [base |-> NoRegistry, head |-> NoRegistry]
Branch   == [base : Registry, head : Registry]

Idle == [pc |-> "idle", version |-> NoVersion, archives |-> NoFiles, todo |-> {}, clone |-> NoBranch]

Init ==
  /\ branch = "master"
  /\ tree = 1
  /\ tags = {}
  /\ runs = 0
  /\ run = Idle
  /\ dist = [v \in Versions |-> NoFiles]
  /\ staging = [v \in Versions |-> NoBranch]
  /\ guide = [v \in Versions |-> "none"]
  /\ release = [v \in Versions |-> NoFiles]
  /\ pr = [v \in Versions |-> "none"]
  /\ registry = NoRegistry

-----------------------------------------------------------------------------
(* The script *)

At(place) == run.pc = place

\* The modules that the run bundled.
Bundled == {m \in Modules : run.archives[m] # NoArchive}

\* The version is entered and the user's number is fetched.
Start(v) ==
  /\ At("idle") /\ runs < MaxRuns
  /\ runs' = runs + 1
  /\ run' = [Idle EXCEPT !.pc = "check", !.version = v]
  /\ UNCHANGED <<branch, tree, tags, dist, staging, guide, release, pr, registry>>

\* The wrong branch, or a version that has a tag.
Refuse ==
  /\ At("check")
  /\ branch # "master" \/ run.version \in tags
  /\ run' = Idle
  /\ UNCHANGED <<branch, tree, tags, runs, dist, staging, guide, release, pr, registry>>

\* Not the script's doing: once it has begun anew for a version, the maintainer
\* takes no more of the steps that an earlier run printed for it.
GivenUp(v) == guide' = [guide EXCEPT ![v] = "none"]

\* Variant: the tags are not looked at.
CheckBranch ==
  /\ At("check")
  /\ branch = "master"
  /\ run' = [run EXCEPT !.pc = "bundle"]
  /\ GivenUp(run.version)
  /\ UNCHANGED <<branch, tree, tags, runs, dist, staging, release, pr, registry>>

\* The branch and the tags are as they should be.
Check ==
  /\ At("check")
  /\ branch = "master" /\ run.version \notin tags
  /\ run' = [run EXCEPT !.pc = "bundle"]
  /\ GivenUp(run.version)
  /\ UNCHANGED <<branch, tree, tags, runs, dist, staging, release, pr, registry>>

\* The index is checked out below a temporary directory and its modules are
\* bundled there.
Bundle ==
  /\ At("bundle")
  /\ run' = [run EXCEPT
       !.pc = "copy",
       !.archives = [m \in Modules |-> IF m \in ModulesOf[tree] THEN [content |-> tree, run |-> runs]
                                                              ELSE NoArchive],
       !.todo = ModulesOf[tree]]
  /\ UNCHANGED <<branch, tree, tags, runs, dist, staging, guide, release, pr, registry>>

\* An archive is copied to dist/<version>, over that of an earlier run.
CopyAsset(m) ==
  /\ At("copy") /\ m \in run.todo
  /\ dist' = [dist EXCEPT ![run.version][m] = run.archives[m]]
  /\ run' = [run EXCEPT !.todo = @ \ {m}]
  /\ UNCHANGED <<branch, tree, tags, runs, staging, guide, release, pr, registry>>

\* Variant: every module that there ever was is updated.
CloneForAll ==
  /\ At("copy") /\ run.todo = {}
  /\ run' = [run EXCEPT !.pc = "update", !.todo = Modules, !.clone = [base |-> registry, head |-> registry]]
  /\ UNCHANGED <<branch, tree, tags, runs, dist, staging, guide, release, pr, registry>>

\* The main branch of the registry is cloned and a branch begun from it.
Clone ==
  /\ At("copy") /\ run.todo = {}
  /\ run' = [run EXCEPT !.pc = "update", !.todo = Bundled, !.clone = [base |-> registry, head |-> registry]]
  /\ UNCHANGED <<branch, tree, tags, runs, dist, staging, guide, release, pr, registry>>

\* Variant: metadata.json is written without what it had.
AddVersionAfresh(entry, v, archive) ==
  [versions |-> <<v>>, yanked |-> {}, entries |-> [entry.entries EXCEPT ![v] = archive]]

\* The version is added to metadata.json, where no version is yanked any more,
\* and its directory is made.
AddVersion(entry, v, archive) ==
  [versions |-> Append(entry.versions, v), yanked |-> {}, entries |-> [entry.entries EXCEPT ![v] = archive]]

\* One module of the registry.  If the directory of the version exists the
\* script fails.
UpdateModule(m) ==
  /\ At("update") /\ m \in run.todo
  /\ ~ HasVersion(run.clone.head, m, run.version)
  /\ run' = [run EXCEPT !.todo = @ \ {m},
                        !.clone.head[m] = AddVersion(@, run.version, run.archives[m])]
  /\ UNCHANGED <<branch, tree, tags, runs, dist, staging, guide, release, pr, registry>>

\* The clone is committed and pushed to the staging repository, by force.
Push ==
  /\ At("update") /\ run.todo = {}
  /\ staging' = [staging EXCEPT ![run.version] = run.clone]
  /\ run' = [run EXCEPT !.pc = "print"]
  /\ UNCHANGED <<branch, tree, tags, runs, dist, guide, release, pr, registry>>

PrintSteps ==
  /\ At("print")
  /\ guide' = [guide EXCEPT ![run.version] = "tag"]
  /\ run' = Idle
  /\ UNCHANGED <<branch, tree, tags, runs, dist, staging, release, pr, registry>>

\* The script fails or is killed: the network, the disk, a directory of the
\* version in the registry.  An archive may be cut short while it is copied.
Fail ==
  /\ ~ At("idle")
  /\ \/ UNCHANGED dist
     \/ \E m \in Modules : /\ At("copy") /\ m \in run.todo
                           /\ dist' = [dist EXCEPT ![run.version][m] = CutShort]
  /\ run' = Idle
  /\ UNCHANGED <<branch, tree, tags, runs, staging, guide, release, pr, registry>>

-----------------------------------------------------------------------------
(* The maintainer *)

\* The source tree changes, or another branch is checked out.
Change ==
  /\ tree' \in {c \in Contents : c > tree}
  /\ UNCHANGED <<branch, tags, runs, run, dist, staging, guide, release, pr, registry>>

Switch ==
  /\ branch' = IF branch = "master" THEN "topic" ELSE "master"
  /\ UNCHANGED <<tree, tags, runs, run, dist, staging, guide, release, pr, registry>>

\* The steps that were printed.
Tag(v) ==
  /\ guide[v] = "tag"
  /\ tags' = tags \cup {v}
  /\ guide' = [guide EXCEPT ![v] = "attach"]
  /\ UNCHANGED <<branch, tree, runs, run, dist, staging, release, pr, registry>>

Attach(v) ==
  /\ guide[v] = "attach"
  /\ release' = [release EXCEPT ![v] = dist[v]]
  /\ guide' = [guide EXCEPT ![v] = "pr"]
  /\ UNCHANGED <<branch, tree, tags, runs, run, dist, staging, pr, registry>>

OpenPR(v) ==
  /\ guide[v] = "pr"
  /\ pr' = [pr EXCEPT ![v] = "open"]
  /\ guide' = [guide EXCEPT ![v] = "none"]
  /\ UNCHANGED <<branch, tree, tags, runs, run, dist, staging, release, registry>>

\* The modules that a branch of the registry changes.
Changed(b) == {m \in Modules : b.head[m] # b.base[m]}

\* The registry merges what the branch then has, if nothing that it changes
\* was changed meanwhile: every release adds to the same place of a list.
Merge(v) ==
  /\ pr[v] = "open"
  /\ \A m \in Changed(staging[v]) : registry[m] = staging[v].base[m]
  /\ registry' = [m \in Modules |-> IF m \in Changed(staging[v]) THEN staging[v].head[m] ELSE registry[m]]
  /\ pr' = [pr EXCEPT ![v] = "merged"]
  /\ UNCHANGED <<branch, tree, tags, runs, run, dist, staging, guide, release>>

\* The registry calls a version yanked.
Yank(m, v) ==
  /\ HasVersion(registry, m, v) /\ v \notin registry[m].yanked
  /\ registry' = [registry EXCEPT ![m].yanked = @ \cup {v}]
  /\ UNCHANGED <<branch, tree, tags, runs, run, dist, staging, guide, release, pr>>

-----------------------------------------------------------------------------
Script ==
  \/ \E v \in Versions : Start(v)
  \/ Refuse \/ Check \/ Bundle \/ Clone \/ Push \/ PrintSteps \/ Fail
  \/ \E m \in Modules : CopyAsset(m) \/ UpdateModule(m)

Maintainer ==
  \/ Change \/ Switch
  \/ \E v \in Versions : Tag(v) \/ Attach(v) \/ OpenPR(v)

Registrar ==
  \E v \in Versions : Merge(v) \/ \E m \in Modules : Yank(m, v)

Next == Script \/ Maintainer \/ Registrar

Spec == Init /\ [][Next]_vars

-----------------------------------------------------------------------------
(* Properties *)

\* The state is well formed.
ReleaseTypeOK ==
  /\ branch \in {"master", "topic"} /\ tree \in Contents /\ tags \subseteq Versions
  /\ runs \in 0..MaxRuns
  /\ run \in [pc : {"idle", "check", "bundle", "copy", "update", "print"}, version : Versions \cup {NoVersion},
              archives : [Modules -> Archive \cup {NoArchive}], todo : SUBSET Bundled, clone : Branch]
  /\ run = Idle \/ (run.pc # "idle" /\ run.version \in Versions /\ runs > 0)
  /\ dist \in [Versions -> Files] /\ release \in [Versions -> Files]
  /\ staging \in [Versions -> Branch] /\ registry \in Registry
  /\ guide \in [Versions -> {"none", "tag", "attach", "pr"}]
  /\ pr \in [Versions -> {"none", "open", "merged"}]

\* The files that a user of the registry downloads are those that the registry
\* has the hashes of: whatever runs of the script failed or were repeated, each
\* module of a version in the registry has its archive attached to the release.
\* It is the check of the tags that keeps a branch with a pull request, and a
\* release, from being overtaken by another run.
RegistryServesRelease ==
  \A m \in Modules, v \in Versions :
    HasVersion(registry, m, v) => registry[m].entries[v] = release[v][m]

\* A registry is for ever: a release leaves the versions of every module, their
\* hashes and the list of them as they were, and adds a version only with its
\* entry.  What it does take back is that a version was yanked (AddVersion).
Extends(new, old, m) ==
  /\ IsPrefix(old[m].versions, new[m].versions)
  /\ \A v \in Versions : HasVersion(old, m, v) => new[m].entries[v] = old[m].entries[v]
  /\ IsInjective(new[m].versions)
  /\ ToSet(new[m].versions) = {v \in Versions : HasVersion(new, m, v)}

RegistryOnlyGrows == [][\A m \in Modules : Extends(registry', registry, m)]_vars
-----------------------------------------------------------------------------
(***************************************************************************)
(* The inductive invariant                                                 *)
(***************************************************************************)

\* What a run may rely on once the tags are checked: nobody is at the steps of
\* its version, and what it has copied stays copied.
RunInv ==
  run.pc \in {"bundle", "copy", "update", "print"} =>
    /\ run.version \notin tags
    /\ guide[run.version] = "none"
    /\ \A m \in Bundled : run.pc = "bundle" \/ (run.pc = "copy" /\ m \in run.todo) \/ dist[run.version][m] = run.archives[m]

\* Branch b of the registry adds version v to modules, with the hashes of the
\* given files, and changes nothing else.
AddsOnly(b, v, files) ==
  \A m \in Modules :
    \/ b.head[m] = b.base[m]
    \/ /\ files[m] # NoArchive
       /\ b.base[m].entries[v] = NoArchive
       /\ b.head[m].entries = [b.base[m].entries EXCEPT ![v] = files[m]]
       /\ b.head[m].versions = Append(b.base[m].versions, v)

CloneInv ==
  /\ run.pc \in {"update", "print"} => AddsOnly(run.clone, run.version, run.archives)
  /\ run.pc = "update" => \A m \in run.todo : run.clone.head[m] = run.clone.base[m]
  /\ run.pc = "print" => staging[run.version] = run.clone

\* Where the maintainer is, and what was pushed is what will be attached or is.
StepsInv ==
  \A v \in Versions :
    /\ guide[v] # "none" => pr[v] = "none"
    /\ guide[v] \in {"attach", "pr"} \/ pr[v] # "none" => v \in tags
    /\ guide[v] \in {"tag", "attach"} => AddsOnly(staging[v], v, dist[v])
    /\ guide[v] = "pr" \/ pr[v] = "open" => AddsOnly(staging[v], v, release[v])

\* The lists of the registry are those of its entries, and these were merged.
RegistryInv ==
  \A m \in Modules :
    /\ IsInjective(registry[m].versions)
    /\ ToSet(registry[m].versions) = {v \in Versions : HasVersion(registry, m, v)}
    /\ \A v \in Versions : HasVersion(registry, m, v) => pr[v] = "merged"

IInv ==
  /\ ReleaseTypeOK
  /\ RunInv
  /\ CloneInv
  /\ StepsInv
  /\ RegistryInv
  /\ RegistryServesRelease
=============================================================================
