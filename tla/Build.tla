-------------------------------- MODULE Build --------------------------------
(***************************************************************************)
(* The build of one lang_*_compile target: the analysis of ProtoCompile,   *)
(* and then Bazel running the actions that it registered.  An action may   *)
(* run when its inputs exist, so the actions of the plugins interleave in  *)
(* any order; it is run once and leaves its declared outputs and nothing   *)
(* else (the sandbox).  An action that fails leaves nothing, and Bazel may *)
(* run the actions that do not depend on it (--keep_going) or stop.        *)
(*                                                                         *)
(* What the fixer and the merger do is taken from what their own modules   *)
(* show of them: the fixer copies what the plugin wrote and fills in the   *)
(* rest, and is denied to copy a file twice (Fixer); the merger makes what *)
(* MergedTree promises, which Merger is proved to implement.               *)
(***************************************************************************)
EXTENDS ProtoCompile

CONSTANTS
  TreeNames,  \* what a plugin with an output directory may write there
  TreePath    \* the paths of all these names and of the directories above them

VARIABLES
  disk,    \* the declared outputs that exist, each with its content
  ran,     \* the actions that were run
  broken,  \* the actions among them that failed, each with what it failed of
  target   \* history variable: the target, once accepted, as TargetBuild sees it

execVars == <<disk, ran, broken>>

vars == <<analysisVars, execVars, target>>

Empty == [f \in {} |-> f]

\* The function f, with the values of g where g has any.
With(f, g) == [x \in DOMAIN f \cup DOMAIN g |-> IF x \in DOMAIN g THEN g[x] ELSE f[x]]

-----------------------------------------------------------------------------
(* Contents.  That of a directory, "tree", gives its files theirs. *)

Content(kind, by, of, lists, tree) ==
  [kind |-> kind, by |-> by, of |-> of, lists |-> lists, tree |-> tree]

\* Written by a plugin for the output of that name, or the template instead.
Written(plugin, f)  == Content("written", plugin, f, << >>, Empty)
Template(plugin, f) == Content("template", plugin, f, << >>, Empty)

Manifest(lists) == Content("manifest", NoPlugin, NoPlugin, lists, Empty)
Tree(t)         == Content("directory", NoPlugin, NoPlugin, << >>, t)

\* The path of a name, relative to the root that it is declared in.
PathOf(f) == Append(f.dir, f.base \o "." \o f.ext)

Plan == INSTANCE MergePlan WITH Path <- TreePath, Manifests <- {}

FilePath == TreePath \ {<< >>}

\* What plugins write in their directories, a merge never finds in the way of
\* one another: what it does then is the subject of Merger.
ASSUME TreeAssumption ==
  /\ TreePath \subseteq Seq(STRING)
  /\ << >> \in TreePath
  /\ \A p \in TreePath : \A n \in 0..Len(p) : SubSeq(p, 1, n) \in TreePath
  /\ TreeNames \in Seq(ToSet(TreeNames))
  /\ \A i \in 1..Len(TreeNames) : PathOf(TreeNames[i]) \in FilePath
  /\ \A i, j \in 1..Len(TreeNames) :
       i # j => ~ Plan!Within(PathOf(TreeNames[i]), PathOf(TreeNames[j]))

ASSUME NamesAssumption ==
  \A r \in Rules : \A i \in DOMAIN r.plugins :
    LET plugin == r.plugins[i] IN
    /\ \A proto \in UNION {ToSet(protos) : protos \in ToSet(r.protos)}, pattern \in ToSet(plugin.outputs) :
         PathOf(Premerge(OutputName[proto, pattern])) \in FilePath
    /\ \A o \in plugin.out : {PathOf(Premerge(o)), PathOf(SrcJar(Premerge(o)))} \subseteq FilePath

-----------------------------------------------------------------------------
(* Analysis.  When it accepts the target, the history variable notes for each *)
(* plugin that will run what it may write and what that is called.            *)

\* What a plugin may write, in one run, at most one file for each: the outputs
\* that are declared for it, or what is to be in its directory.
Candidates(plugin) == IF plugin.directory THEN TreeNames ELSE PluginOutputs(plugin)

\* What these are called below the premerge root when the plugin has run, one
\* name for each, and in the target.
Called(plugin) == IF plugin.directory THEN TreeNames ELSE Generated(plugin)

InTarget(f) == IF dirs = << >> THEN Destination(f) ELSE f

SourceOf(plugin) ==
  [label  |-> plugin.label,
   outs   |-> Candidates(plugin),
   names  |-> [k \in DOMAIN Candidates(plugin) |-> InTarget(Called(plugin)[k])],
   writes |-> IF plugin.directory THEN "directory" ELSE IF plugin.template THEN "template" ELSE "all"]

\* The places in the target's list of plugins that proto_compile runs.
RunAt == {i \in 1..Len(rule.plugins) : Protos(rule.plugins[i]) # << >>}

NoTarget == [sources |-> << >>, merged |-> FALSE]

Init ==
  /\ AnalysisInit
  /\ disk = Empty
  /\ ran = {}
  /\ broken = Empty
  /\ target = NoTarget

Analyse ==
  /\ AnalysisNext
  /\ target' = IF pc' # "done" THEN NoTarget
               ELSE [sources |-> [i \in RunAt |-> SourceOf(rule.plugins[i])],
                     merged  |-> dirs # << >>]
  /\ UNCHANGED execVars

-----------------------------------------------------------------------------
(* The execution of actions *)

Ready(a) ==
  /\ pc = "done"
  /\ a \in actions \ ran
  /\ a.inputs \subseteq DOMAIN disk

\* The action leaves the given contents of its outputs.
Succeed(a, contents) ==
  /\ ran' = ran \cup {a}
  /\ disk' = With(disk, contents)
  /\ UNCHANGED <<analysisVars, broken, target>>

\* Variant: the action is not marked as run.
BreakUnmarked(a, why) ==
  /\ broken' = With(broken, [b \in {a} |-> why])
  /\ UNCHANGED <<analysisVars, disk, ran, target>>

Break(a, why) ==
  /\ ran' = ran \cup {a}
  /\ broken' = With(broken, [b \in {a} |-> why])
  /\ UNCHANGED <<analysisVars, disk, target>>

\* Any action may fail of its tool: no memory, no space, a plugin that crashes.
BreakTool(a) == Ready(a) /\ Break(a, "tool")

\* ctx.actions.write
RunWrite(a) ==
  /\ Ready(a)
  /\ a.kind = "write"
  /\ Succeed(a, [f \in a.outputs |-> Manifest(a.lists)])

\* copy_file: the new file has the content of the old one.
RunCopy(a) ==
  /\ Ready(a)
  /\ a.kind = "copy"
  /\ Succeed(a, [f \in a.outputs |-> disk[CHOOSE g \in a.inputs : TRUE]])

PluginOf(a) == CHOOSE plugin \in {rule.plugins[i] : i \in 1..Len(rule.plugins)} :
                 plugin.label = a.plugin

\* protoc refuses to write a file twice.
Twice(names) == ~ IsInjective(names)

(***************************************************************************)
(* A run of protoc, in which the plugin writes some of its candidates.     *)
(* Without an empty_template Bazel finds the outputs it declared, or fails *)
(* the action.  A directory that is declared has whatever was written.     *)
(***************************************************************************)
RunProtoc(a) ==
  /\ Ready(a)
  /\ a.kind = "protoc"
  /\ LET plugin == PluginOf(a)
         named  == Candidates(plugin)
     IN \E emitted \in SUBSET DOMAIN named :
          LET written == [i \in emitted |-> named[i]]
              names   == {named[i] : i \in emitted}
              tree    == Tree([f \in names |-> Written(a.plugin, f)])
          IN \/ Twice(written) /\ Break(a, "twice")
             \/ /\ ~ Twice(written)
                /\ plugin.directory \/ plugin.template
                /\ Succeed(a, [d \in a.outputs |-> tree])
             \/ /\ ~ Twice(written)
                /\ ~ plugin.directory /\ ~ plugin.template
                /\ IF a.outputs \subseteq names
                   THEN Succeed(a, [f \in a.outputs |-> Written(a.plugin, f)])
                   ELSE Break(a, "missing")

\* The manifest and the directory among the inputs of an action.
ManifestOf(a) == disk[CHOOSE f \in a.inputs : disk[f].kind = "manifest"].lists

UnfixedOf(a) == disk[CHOOSE d \in a.inputs : disk[d].kind = "directory"].tree

Fix(plugin, source, f) == IF f \in DOMAIN source THEN source[f] ELSE Template(plugin, f)

\* The fixer, main.rs: every line of the manifest is an output.
RunFixer(a) ==
  /\ Ready(a)
  /\ a.kind = "fixer"
  /\ LET lists  == ManifestOf(a)
         source == UnfixedOf(a)
     IN IF \E i, j \in 1..Len(lists) : i # j /\ lists[i] = lists[j] /\ lists[i] \in DOMAIN source
        THEN Break(a, "denied")
        ELSE Succeed(a, [f \in ToSet(lists) |-> Fix(a.plugin, source, f)])

-----------------------------------------------------------------------------
(* The merger *)

\* The files that a line of the merger's manifest brings to the target.
Brings(f) == IF disk[f].kind = "directory" THEN DOMAIN disk[f].tree ELSE {f}

\* The content that it brings for one of them.
Brought(f, g) == IF disk[f].kind = "directory" THEN disk[f].tree[g] ELSE disk[f]

TreeOf(names) ==
  [p \in TreePath |->
     IF \E g \in names : p = PathOf(g) THEN "file"
     ELSE IF p = << >> \/ \E g \in names : Plan!Above(p, PathOf(g)) THEN "dir"
     ELSE "absent"]

\* The manifest as the merger reads it: a D line for a directory, else an F line.
MergeLine(f) ==
  IF disk[f].kind = "directory"
  THEN [kind |-> "D", path |-> << >>, tree |-> TreeOf(Brings(f))]
  ELSE [kind |-> "F", path |-> PathOf(f), tree |-> TreeOf({})]

MergeLines(lists) == [i \in 1..Len(lists) |-> MergeLine(lists[i])]

\* Variant: the last line that has a path wins.
MergedLastWins(lists) ==
  [g \in UNION {Brings(lists[i]) : i \in 1..Len(lists)} |->
     Brought(lists[CHOOSE i \in 1..Len(lists) :
                     /\ g \in Brings(lists[i])
                     /\ \A j \in i + 1..Len(lists) : g \notin Brings(lists[j])], g)]

\* MergedTree!Succeed: every path is what the first line that has it says.
Merged(lists) ==
  LET m == MergeLines(lists) IN
  [g \in UNION {Brings(lists[i]) : i \in 1..Len(lists)} |->
     Brought(lists[CHOOSE i \in 1..Len(lists) : Plan!IsFirst(m, i, PathOf(g))], g)]

RunMerger(a) ==
  /\ Ready(a)
  /\ a.kind = "merger"
  /\ IF Plan!HasConflict(MergeLines(ManifestOf(a)))
     THEN Break(a, "conflict")
     ELSE Succeed(a, [d \in a.outputs |-> Tree(Merged(ManifestOf(a)))])

-----------------------------------------------------------------------------

Execute(a) ==
  \/ RunWrite(a) \/ RunCopy(a)
  \/ RunProtoc(a) \/ RunFixer(a) \/ RunMerger(a)
  \/ BreakTool(a)

Next == Analyse \/ \E a \in actions : Execute(a)

Spec == Init /\ [][Next]_vars

\* Analysis runs to its end, and Bazel runs what is ready until nothing is.
FairSpec == Spec /\ WF_vars(Next)

-----------------------------------------------------------------------------
(***************************************************************************)
(* Properties                                                              *)
(***************************************************************************)

ExecTypeOK ==
  /\ ran \subseteq actions
  /\ DOMAIN broken \subseteq ran
  /\ \A a \in DOMAIN broken : broken[a] \in {"tool", "twice", "missing", "denied", "conflict"}
  /\ DOMAIN disk \subseteq UNION {a.outputs : a \in ran}
  /\ pc # "done" => ran = {}

-----------------------------------------------------------------------------
(* What TargetBuild promises *)

RunsOf(source) == {a \in ran \ DOMAIN broken : a.kind = "protoc" /\ a.plugin = source.label}

\* What the run of protoc for a source left.
Wrote(source) ==
  IF source.writes = "all" THEN ToSet(source.outs)
  ELSE LET d == CHOOSE d \in UNION {a.outputs : a \in RunsOf(source)} : TRUE IN DOMAIN disk[d].tree

Plain(c) == [by |-> c.by, of |-> c.of, filled |-> c.kind = "template"]

PlainAll(contents) == [f \in DOMAIN contents |-> Plain(contents[f])]

InWay(f, g) == Plan!Within(PathOf(f), PathOf(g)) \/ Plan!Within(PathOf(g), PathOf(f))

Stage ==
  IF pc = "done" THEN "building" ELSE IF pc \in {"failed", "conflict"} THEN "refused" ELSE "analysis"

HasWritten ==
  [i \in {j \in DOMAIN target.sources : RunsOf(target.sources[j]) # {}} |-> Wrote(target.sources[i])]

Delivered ==
  IF dirs = << >> THEN PlainAll([f \in outputs \cap DOMAIN disk |-> disk[f]])
  ELSE IF MergedDir \in DOMAIN disk THEN PlainAll(disk[MergedDir].tree) ELSE Empty

Faults == {<<a.plugin, broken[a]>> : a \in DOMAIN broken}

Promise == INSTANCE TargetBuild WITH
  stage <- Stage, wrote <- HasWritten, delivered <- Delivered, faults <- Faults

\* In whatever order the actions of the plugins run, the build is one of
\* TargetBuild.  A file of the target is what the plugin that declares it wrote
\* for it, or that plugin's template if it left the file out; no other plugin,
\* no copy and no second run changes it; in a merged directory a name that
\* several plugins wrote is that of the first; and the fixer, protoc and the
\* merger refuse nothing but files that repeat or stand in each other's way.
ImplementsTargetBuild == Promise!Spec

\* The target is refused, an action fails, or all outputs come to exist: no
\* output waits for an action that was not registered, or for itself.
Delivers ==
  <>(\/ pc \in {"failed", "conflict"}
     \/ broken # Empty
     \/ pc = "done" /\ outputs \subseteq DOMAIN disk)

\* Nothing can be run any more.
Rests == pc = "done" /\ \A a \in actions : ~ Ready(a)

\* What a plugin needs to be run for its files.
ActionsFor(plugin) == PluginActions(plugin) \cup JarActions(plugin)

\* Whatever fails, what Bazel does not run was kept from running by a failure:
\* when it rests the files of a plugin are there unless an action for that
\* plugin failed, and without a failure all outputs are.  The actions wait
\* for no cycle and for no file that nobody makes.
OnlyFailuresHinder ==
  Rests =>
    /\ \A plugin \in Ran : ActionsFor(plugin) \cap DOMAIN broken = {} =>
         ToSet(Generated(plugin)) \cup ToSet(OutputDirs(plugin)) \subseteq DOMAIN disk
    /\ broken = Empty => outputs \subseteq DOMAIN disk
=============================================================================
