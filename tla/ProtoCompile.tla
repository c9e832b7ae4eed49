---------------------------- MODULE ProtoCompile ----------------------------
(***************************************************************************)
(* proto_compile, modules/core/internal/compile.bzl: the analysis of one   *)
(* lang_*_compile target.  It resolves the options, goes through the       *)
(* plugins, and registers with Bazel the actions that will generate, fix,  *)
(* merge and copy the files of the target.  Build.tla runs those actions.  *)
(*                                                                         *)
(* One action of this module is one iteration of a loop of proto_compile,  *)
(* or its conclusion.  File names are records, so that what the code does  *)
(* to a name (replace the extension, drop the directory, add a prefix) is  *)
(* done to a field.  A path of the source tree is a sequence of pieces, a  *)
(* piece being a name or a part of one where an exclusion may begin.       *)
(***************************************************************************)
EXTENDS Integers, Sequences, FiniteSets, SequencesExt

CONSTANTS
  Rules,        \* the targets: the attributes of the rule instance
  OutputName,   \* get_output_filename: a proto and a pattern to a name
  Parse,        \* Label(): a key of options to the label it denotes
  Apparent,     \* the label's string without the canonical part of its repository
  PluginId,     \* the label with "/" replaced, for use in paths
  Star          \* the key "*" of options

Places == {"premerge", "target", "package"}

\* A declared output: where it is declared, its directory there, its name.
File(place, dir, base, ext) == [place |-> place, dir |-> dir, base |-> base, ext |-> ext]

(***************************************************************************)
(* An action registered with Bazel.  "lists" is the content that a write   *)
(* action gives its manifest, "protos" and "opts" what protoc is run with. *)
(***************************************************************************)
Action(kind, plugin, inputs, outputs, lists, protos, opts) ==
  [kind |-> kind, plugin |-> plugin, inputs |-> inputs, outputs |-> outputs,
   lists |-> lists, protos |-> protos, opts |-> opts]

NoPlugin == "none"

Copy(from, to) == Action("copy", NoPlugin, {from}, {to}, << >>, << >>, << >>)

\* The extensions of the files that proto_compile makes besides the outputs.
OwnExts == {"srcjar", "_plugin", "_plugin_unfixed", "_plugin_fixer_manifest", "_plugin_merger_manifest"}

\* Attributes are lists; a label names one plugin; no plugin has outputs with
\* the extension of a file of the target's own.
ASSUME RulesAssumption ==
  \A r \in Rules :
    /\ \A s \in {r.plugins, r.options, r.protos} : s \in Seq(ToSet(s))
    /\ \A protos \in ToSet(r.protos) : protos \in Seq(ToSet(protos))
    /\ \A i, j \in DOMAIN r.plugins : r.plugins[i].label = r.plugins[j].label => r.plugins[i] = r.plugins[j]
    /\ \A i \in DOMAIN r.plugins :
         LET plugin == r.plugins[i] IN
         /\ plugin.outputs \in Seq(ToSet(plugin.outputs))
         /\ {plugin.directory, plugin.template, plugin.envClash} \subseteq BOOLEAN
         /\ \A proto \in UNION {ToSet(protos) : protos \in ToSet(r.protos)}, pattern \in ToSet(plugin.outputs) :
              OutputName[proto, pattern].ext \notin OwnExts
         /\ \A o \in plugin.out : o.ext \notin OwnExts

VARIABLES
  rule,           \* ctx.attr
  pc,             \* the loop being run, or "done", "failed", "conflict"
  at,             \* the position in the sequence that the loop goes through
  pluginOptions,  \* per_plugin_options
  allOptions,     \* all_plugin_options
  files,          \* premerge_files
  dirs,           \* premerge_dirs
  actions,        \* the actions registered
  outputs         \* output_files and output_dirs of ProtoCompileInfo

analysisVars == <<rule, pc, at, pluginOptions, allOptions, files, dirs, actions, outputs>>

Labels == {rule.plugins[i].label : i \in 1..Len(rule.plugins)}

Keys == {rule.options[i].key : i \in 1..Len(rule.options)}

AnalysisInit ==
  /\ rule \in Rules
  /\ pc = "options"
  /\ at = 1
  /\ pluginOptions = [l \in Labels |-> << >>]
  /\ allOptions = << >>
  /\ files = << >>
  /\ dirs = << >>
  /\ actions = {}
  /\ outputs = {}

Fail ==
  /\ pc' = "failed"
  /\ UNCHANGED <<rule, at, pluginOptions, allOptions, files, dirs, actions, outputs>>

-----------------------------------------------------------------------------
(* The options attribute *)

\* The plugins whose label, less the canonical part, is written like the key.
Matches(key) == {i \in 1..Len(rule.plugins) : Apparent[rule.plugins[i].label] = key}

\* The label itself, or the last match: the loop over the labels has no break.
Resolve(key) ==
  IF Parse[key] \in Labels \/ Matches(key) = {} THEN Parse[key]
  ELSE rule.plugins[Max(Matches(key))].label

\* Variant: an unknown label is passed over.
ResolveKeyLeniently ==
  /\ pc = "options"
  /\ at <= Len(rule.options)
  /\ LET label == Resolve(rule.options[at].key)
     IN pluginOptions' = [l \in Labels |-> IF l = label THEN rule.options[at].opts
                                                        ELSE pluginOptions[l]]
  /\ at' = at + 1
  /\ UNCHANGED <<rule, pc, allOptions, files, dirs, actions, outputs>>

\* One key of options.  "*" is left for later, an unknown label is an error,
\* and a second key for the same plugin replaces the options of the first.
ResolveKey ==
  /\ pc = "options"
  /\ at <= Len(rule.options)
  /\ LET key   == rule.options[at].key
         label == Resolve(key)
     IN \/ /\ key = Star
           /\ at' = at + 1
           /\ UNCHANGED <<rule, pc, pluginOptions, allOptions, files, dirs, actions, outputs>>
        \/ /\ key # Star
           /\ label \in Labels
           /\ pluginOptions' = [pluginOptions EXCEPT ![label] = rule.options[at].opts]
           /\ at' = at + 1
           /\ UNCHANGED <<rule, pc, allOptions, files, dirs, actions, outputs>>
        \/ key # Star /\ label \notin Labels /\ Fail

\* "*" must be the only key; its options go to every plugin.
ResolveStar ==
  /\ pc = "options"
  /\ at > Len(rule.options)
  /\ \/ /\ Star \in Keys => Len(rule.options) = 1
        /\ allOptions' = IF Star \in Keys THEN rule.options[1].opts ELSE << >>
        /\ pc' = "plugins"
        /\ at' = 1
        /\ UNCHANGED <<rule, pluginOptions, files, dirs, actions, outputs>>
     \/ Star \in Keys /\ Len(rule.options) > 1 /\ Fail

-----------------------------------------------------------------------------
(* The loop over the plugins *)

Plugin == rule.plugins[at]

\* str.endswith on the directory and on the path of the proto.
EndsWith(path, end) ==
  Len(end) <= Len(path) /\ SubSeq(path, Len(path) - Len(end) + 1, Len(path)) = end

Excluded(plugin, proto) ==
  \E end \in plugin.exclusions :
    EndsWith(proto.dir, end) \/ EndsWith(Append(proto.dir, proto.base), end)

\* Variant: duplicates among the sources of the proto_library targets are kept.
IncludedKeepingDuplicates(plugin, sources) ==
  SelectSeq(sources, LAMBDA proto : ~ Excluded(plugin, proto))

\* Of the given sources those that the plugin is run on, in order, once each.
Included(plugin, sources) ==
  LET upTo[i \in 0 .. Len(sources)] ==
        IF i = 0 THEN << >>
        ELSE IF Excluded(plugin, sources[i]) \/ Contains(upTo[i - 1], sources[i]) THEN upTo[i - 1]
        ELSE Append(upTo[i - 1], sources[i])
  IN upTo[Len(sources)]

\* The sources of all the proto_library targets go through one loop.
Protos(plugin) == Included(plugin, FlattenSeq(rule.protos))

Premerge(name) == File("premerge", name.dir, name.base, name.ext)

\* The outputs that are declared per proto: every pattern for every proto.
Declared(plugin, protos) ==
  FlattenSeq([i \in 1..Len(protos) |->
    [j \in 1..Len(plugin.outputs) |-> Premerge(OutputName[protos[i], plugin.outputs[j]])]])

PerProto(plugin) == Declared(plugin, Protos(plugin))

\* The single output of a plugin that declares one.
Out(plugin) == IF plugin.out = {} THEN << >> ELSE <<Premerge(CHOOSE o \in plugin.out : TRUE)>>

IsJar(f) == f.ext = "jar"

SrcJar(f) == [f EXCEPT !.ext = "srcjar"]

\* The files and the directory of a plugin that are not its outputs proper.
OutputDir(plugin)     == File("premerge", << >>, PluginId[plugin.label], "_plugin")
UnfixedDir(plugin)    == File("premerge", << >>, PluginId[plugin.label], "_plugin_unfixed")

\* Variant: one manifest of that name for the whole target.
FixerManifestShared(plugin) == File("premerge", << >>, "", "_plugin_fixer_manifest")

FixerManifest(plugin) == File("premerge", << >>, PluginId[plugin.label], "_plugin_fixer_manifest")

OutputDirs(plugin) == IF plugin.directory THEN <<OutputDir(plugin)>> ELSE << >>

\* plugin_outputs: what the plugin, or the fixer for it, has to produce.
PluginOutputs(plugin) == PerProto(plugin) \o Out(plugin) \o OutputDirs(plugin)

Options(plugin) == plugin.options \o allOptions \o pluginOptions[plugin.label]

\* The run of protoc for a plugin, producing the given outputs.
Protoc(plugin, outs) ==
  Action("protoc", plugin.label, {}, outs, << >>, Protos(plugin), Options(plugin))

\* With an empty_template protoc writes to a directory of its own, and the
\* fixer makes the outputs from it and from the manifest.
PluginActions(plugin) ==
  LET outs == ToSet(PluginOutputs(plugin)) IN
  IF plugin.template
  THEN {Action("write", NoPlugin, {}, {FixerManifest(plugin)}, PluginOutputs(plugin), << >>, << >>),
        Protoc(plugin, {UnfixedDir(plugin)}),
        Action("fixer", plugin.label, {FixerManifest(plugin), UnfixedDir(plugin)}, outs,
               << >>, << >>, << >>)}
  ELSE {Protoc(plugin, outs)}

JarActions(plugin) == {Copy(f, SrcJar(f)) : f \in {g \in ToSet(Out(plugin)) : IsJar(g)}}

\* What a plugin adds to premerge_files: a jar is replaced by its srcjar.
Generated(plugin) ==
  PerProto(plugin) \o [i \in 1..Len(Out(plugin)) |->
                         IF IsJar(Out(plugin)[i]) THEN SrcJar(Out(plugin)[i]) ELSE Out(plugin)[i]]

AtPlugin == pc = "plugins" /\ at <= Len(rule.plugins)

\* output_directory next to outputs, out or empty_template.
Mixed(plugin) == plugin.directory /\ (plugin.out # {} \/ plugin.outputs # << >> \/ plugin.template)

\* No output at all, which Bazel does not take, or env together with
\* use_built_in_shell_environment.
Unusable(plugin) == PluginOutputs(plugin) = << >> \/ plugin.envClash

RejectPlugin ==
  /\ AtPlugin
  /\ \/ Mixed(Plugin)
     \/ Protos(Plugin) # << >> /\ Unusable(Plugin)
  /\ Fail

\* Variant: the attributes of a plugin that is skipped are not looked at.
SkipPluginUnchecked ==
  /\ AtPlugin
  /\ Protos(Plugin) = << >>
  /\ at' = at + 1
  /\ UNCHANGED <<rule, pc, pluginOptions, allOptions, files, dirs, actions, outputs>>

\* All protos are excluded: the plugin is not run.
SkipPlugin ==
  /\ AtPlugin
  /\ ~ Mixed(Plugin)
  /\ Protos(Plugin) = << >>
  /\ at' = at + 1
  /\ UNCHANGED <<rule, pc, pluginOptions, allOptions, files, dirs, actions, outputs>>

\* Variant: the copies to srcjar are forgotten.
AddPluginUncopied ==
  /\ AtPlugin
  /\ ~ Mixed(Plugin)
  /\ Protos(Plugin) # << >>
  /\ ~ Unusable(Plugin)
  /\ files' = files \o Generated(Plugin)
  /\ dirs' = dirs \o OutputDirs(Plugin)
  /\ actions' = actions \cup PluginActions(Plugin)
  /\ at' = at + 1
  /\ UNCHANGED <<rule, pc, pluginOptions, allOptions, outputs>>

AddPlugin ==
  /\ AtPlugin
  /\ ~ Mixed(Plugin)
  /\ Protos(Plugin) # << >>
  /\ ~ Unusable(Plugin)
  /\ files' = files \o Generated(Plugin)
  /\ dirs' = dirs \o OutputDirs(Plugin)
  /\ actions' = actions \cup PluginActions(Plugin) \cup JarActions(Plugin)
  /\ at' = at + 1
  /\ UNCHANGED <<rule, pc, pluginOptions, allOptions, outputs>>

-----------------------------------------------------------------------------
(* The outputs of the target *)

PluginsDone == pc = "plugins" /\ at > Len(rule.plugins)

MergedDir      == File("target", rule.prefix, "", "dir")
MergerManifest == File("premerge", << >>, "", "_plugin_merger_manifest")

\* Variant: only the directories are merged.
MergeOutputsOfDirs ==
  /\ PluginsDone
  /\ dirs # << >>
  /\ rule.mode = "PREFIXED"
  /\ actions' = actions \cup
       {Action("write", NoPlugin, {}, {MergerManifest}, dirs, << >>, << >>),
        Action("merger", NoPlugin, {MergerManifest} \cup ToSet(dirs), {MergedDir},
               << >>, << >>, << >>)}
  /\ outputs' = {MergedDir}
  /\ pc' = "check"
  /\ UNCHANGED <<rule, at, pluginOptions, allOptions, files, dirs>>

\* With directories there is one output, the directory they are merged into.
MergeOutputs ==
  /\ PluginsDone
  /\ dirs # << >>
  /\ rule.mode = "PREFIXED"
  /\ actions' = actions \cup
       {Action("write", NoPlugin, {}, {MergerManifest}, dirs \o files, << >>, << >>),
        Action("merger", NoPlugin, {MergerManifest} \cup ToSet(dirs) \cup ToSet(files),
               {MergedDir}, << >>, << >>, << >>)}
  /\ outputs' = {MergedDir}
  /\ pc' = "check"
  /\ UNCHANGED <<rule, at, pluginOptions, allOptions, files, dirs>>

RejectMode ==
  /\ PluginsDone
  /\ dirs # << >>
  /\ rule.mode # "PREFIXED"
  /\ Fail

\* Where a file goes: under the target's name or in the package, in its own
\* directory or, for NO_PREFIX_FLAT, in none, with the prefix in front.
Destination(f) ==
  File(IF rule.mode = "PREFIXED" THEN "target" ELSE "package",
       IF rule.mode = "NO_PREFIX_FLAT" THEN rule.prefix ELSE rule.prefix \o f.dir,
       f.base, f.ext)

\* Variant: the files are provided where the plugins wrote them.
CopyOutputsInPlace ==
  /\ PluginsDone
  /\ dirs = << >>
  /\ outputs' = ToSet(files)
  /\ pc' = "check"
  /\ UNCHANGED <<rule, at, pluginOptions, allOptions, files, dirs, actions>>

CopyOutputs ==
  /\ PluginsDone
  /\ dirs = << >>
  /\ actions' = actions \cup {Copy(f, Destination(f)) : f \in ToSet(files)}
  /\ outputs' = {Destination(f) : f \in ToSet(files)}
  /\ pc' = "check"
  /\ UNCHANGED <<rule, at, pluginOptions, allOptions, files, dirs>>

\* Bazel rejects a target two actions of which have an output in common; the
\* same action registered twice is one action.
Conflicting == \E a, b \in actions : a # b /\ a.outputs \cap b.outputs # {}

CheckActions ==
  /\ pc = "check"
  /\ pc' = IF Conflicting THEN "conflict" ELSE "done"
  /\ UNCHANGED <<rule, at, pluginOptions, allOptions, files, dirs, actions, outputs>>

AnalysisNext ==
  \/ ResolveKey \/ ResolveStar
  \/ RejectPlugin \/ SkipPlugin \/ AddPlugin
  \/ MergeOutputs \/ RejectMode \/ CopyOutputs
  \/ CheckActions

AnalysisSpec == AnalysisInit /\ [][AnalysisNext]_analysisVars

-----------------------------------------------------------------------------
(***************************************************************************)
(* Properties                                                              *)
(***************************************************************************)

TypeOK ==
  /\ pc \in {"options", "plugins", "check", "done", "failed", "conflict"}
  /\ at \in 1..(IF pc = "options" THEN Len(rule.options) ELSE Len(rule.plugins)) + 1
     \/ pc = "failed"
  /\ DOMAIN pluginOptions = Labels
  /\ \A f \in ToSet(files) \cup ToSet(dirs) : f.place = "premerge"
  /\ \A a \in actions : a.outputs # {} /\ \A f \in a.inputs \cup a.outputs : f.place \in Places
  /\ \A f \in outputs : f.place # "premerge"

\* The plugins that proto_compile runs.
Ran == {rule.plugins[i] : i \in {j \in 1..Len(rule.plugins) : Protos(rule.plugins[j]) # << >>}}

\* Every file that an action of an accepted target reads is made by exactly one
\* other action: no manifest, directory or archive is forgotten or made twice.
InputsHaveOneProducer ==
  pc = "done" =>
    \A a \in actions : \A f \in a.inputs \cup outputs :
      Cardinality({b \in actions : f \in b.outputs}) = 1

\* In an accepted target everything that the plugins declare is in what the
\* target provides: in a file of its own, or in the input of the merger.
NothingIsLost ==
  pc = "done" =>
    LET declared == UNION {ToSet(Generated(plugin)) \cup ToSet(OutputDirs(plugin)) : plugin \in Ran}
    IN IF dirs = << >>
       THEN /\ \A f \in declared : \E to \in outputs : Copy(f, to) \in actions
            /\ \A f, g \in declared, to \in outputs :
                 Copy(f, to) \in actions /\ Copy(g, to) \in actions => f = g
       ELSE \E a \in actions :
              a.kind = "merger" /\ declared \subseteq a.inputs /\ outputs = a.outputs

\* A plugin is run on every source that its exclusions leave, and on each once
\* however many of the proto_library targets list it.
RunsOnIncludedOnce ==
  \A a \in actions : a.kind = "protoc" =>
    \A plugin \in Ran : plugin.label = a.plugin =>
      LET sources == ToSet(FlattenSeq(rule.protos)) IN
      /\ ToSet(a.protos) = {p \in sources : ~ Excluded(plugin, p)}
      /\ Len(a.protos) = Cardinality(ToSet(a.protos))

Names(key, label) == key # Star /\ (Parse[key] = label \/ Apparent[label] = key)

\* Options given under a label reach only the plugins the label names; they
\* are without effect only if another key or another plugin of that name took
\* their place.
OptionsReachNamed ==
  pc = "done" =>
    /\ \A l \in Labels : pluginOptions[l] # << >> =>
         \E i \in 1..Len(rule.options) :
           Names(rule.options[i].key, l) /\ pluginOptions[l] = rule.options[i].opts
    /\ \A i \in 1..Len(rule.options) : rule.options[i].key # Star =>
         \E l \in Labels : /\ Names(rule.options[i].key, l)
                          /\ \/ pluginOptions[l] = rule.options[i].opts
                             \/ \E j \in i + 1..Len(rule.options) :
                                  pluginOptions[l] = rule.options[j].opts

\* What makes the attributes of a target invalid, found at whatever point.
Invalid ==
  \/ \E i \in 1..Len(rule.options) :
       rule.options[i].key # Star /\ \A l \in Labels : ~ Names(rule.options[i].key, l)
  \/ Star \in Keys /\ Len(rule.options) > 1
  \/ \E i \in 1..Len(rule.plugins) : Mixed(rule.plugins[i])
  \/ \E plugin \in Ran : Unusable(plugin)
  \/ rule.mode # "PREFIXED" /\ \E plugin \in Ran : plugin.directory

\* A target is refused for its attributes exactly when they are invalid,
\* whatever the order of its plugins and options.
FailsExactlyOnInvalid ==
  /\ pc = "failed" => Invalid
  /\ pc \in {"check", "conflict", "done"} => ~ Invalid

\* Bazel finds a conflict only between two plugins, with an output or an ID in
\* common, or between two files that the output mode sends to one place.
ConflictsAreClashes ==
  pc = "conflict" =>
    \/ \E p, q \in Ran :
         /\ p # q
         /\ \/ PluginId[p.label] = PluginId[q.label]
            \/ ToSet(PluginOutputs(p)) \cap ToSet(PluginOutputs(q)) # {}
            \/ ToSet(Generated(p)) \cap ToSet(Generated(q)) # {}
    \/ \E f, g \in ToSet(files) : f # g /\ Destination(f) = Destination(g)

\* plugin.bzl:61 says that a plugin "can exclude either by proto name prefix or
\* by proto folder prefix".
StartsWith(path, start) == Len(start) <= Len(path) /\ SubSeq(path, 1, Len(start)) = start

ExclusionIsPrefix ==
  \A a \in actions : a.kind = "protoc" =>
    \A plugin \in Ran : plugin.label = a.plugin =>
      \A proto \in ToSet(a.protos), start \in plugin.exclusions : ~ StartsWith(proto.dir, start)
=============================================================================
