# A TLA+ model of rules_proto_grpc

rules_proto_grpc is a set of Bazel rules that generate code from `.proto`
files with protoc plugins and build it, for a dozen languages and tools. The modules
here model the parts of the repository that decide something: the analysis of
a compile target, the tools that its actions run, the build as a whole, the
generator of the per-language files, the release script, the routeguide examples
and the tests that run them against each other. Line numbers refer to the repository's files.

- [1 The system](#1-the-system): components, state, operations, what is hard
- [2 Modules](#2-modules): which module models what, and how
- [3 Runs](#3-runs): what TLC checks, the bounds, the fairness
- [4 Proofs](#4-proofs): what TLAPS proves, and by which argument
- [5 Disagreements](#5-disagreements-between-the-code-and-what-is-said-of-it)
- [6 Assumptions](#6-assumptions)
- [7 What is not modelled](#7-what-is-not-modelled)
- [8 What could follow](#8-what-could-follow)

To check a module: `tlc -config merger.cfg MCMerger.tla`. To prove one:
`tlapm MergerProofs.tla`.

## 1 The system

| component | code | state | operations | hard because |
|---|---|---|---|---|
| merger | `modules/core/tools/merger/main.rs` | the target directory, the line of the manifest, the calls of `copy_dir` | copy a file, enter a directory, skip what exists | directories are listed in no order; what is written is read-only; failures are panics |
| fixer | `modules/core/tools/fixer/main.rs` | the current Go package, the output directory | scan for packages, copy, fill in the template | one package for the whole manifest; outputs listed twice |
| proto_compile | `modules/core/internal/compile.bzl`, `protoc.bzl` | options per plugin, the lists of files and directories, the registered actions | resolve options, one iteration per plugin, merge or copy outputs | checks in the middle of a loop that registers actions; three lists that must agree; name clashes |
| build of a target | Bazel, running those actions | declared outputs that exist | run protoc, fixer, merger, copies | the actions interleave; any may fail; an output that nobody makes is never built |
| output file names | `modules/core/internal/common.bzl` | none | patterns to names | they predict what protoc's plugins do to a name |
| plugin and provider declarations | `plugin.bzl`, `providers.bzl` | none | attributes to records | |
| compile rules per language | `modules/*/*_compile.bzl`, `modules/*/BUILD.bazel` | none | `proto_compile` with fixed plugins | |
| library macros | `modules/*/*_library.bzl`, `filter_files.bzl` | none | a compile target, filters, a native library | extensions, directories and output modes must agree across three files |
| buf tests | `modules/buf/buf.bzl` | a script | one run of protoc with one plugin and its options | |
| rulegen | `tools/rulegen/*.go`, `Makefile` | the generated files, `available_tests.txt` | write 234 files from a table with templates | stops anywhere; files refer to each other; it is built from its own output; documented attributes must be passed on by templates |
| release script | `tools/make_release.py` | clone, `dist`, staging branch, tags, release page, registry | bundle, copy, update, push; manual steps | runs are repeated and overlap with the manual steps |
| routeguide examples | `examples/*/routeguide` | lists of notes, streams | the four calls of the service, in seven clients and servers | concurrent calls; cancellation; slow clients; seven readings of one proto file |
| routeguide test matrix | `examples/routeguide` | a server and a client, a port, the time | start the server, sleep, run the client, kill | tests run at once; nobody waits for the server; two time limits that cross |
| module extensions | `modules/*/module_extensions.bzl` | none | declare downloads | |
| rule examples, test workspaces, documentation | `examples`, `test_workspaces`, `docs` | none | | |

How they interact. A language rule is `proto_compile` with a list of plugins.
`proto_compile` registers, for each plugin, a run of protoc, and depending on
the plugin a write of a manifest and a run of the fixer, or a copy of a jar to a
srcjar; for the target, a write of a manifest and a run of the merger if any
plugin declares a directory, or a copy per output otherwise. Bazel runs these
when their inputs exist. Library macros filter the outputs by extension. The
rule files, their documentation, examples, CI configuration and Makefiles are
written by rulegen, which `make rulegen` builds out of the same source tree.
The release script bundles `modules/*` and enters the archives in the Bazel
Central Registry. The routeguide examples are programs built with the rules
and are run against each other as tests.

What makes each correct, in short (the exact statements are the properties
of section 3):

- merger: it merges all or fails exactly on a conflict, whatever the order of
  listing, the first plugin winning;
- fixer: exactly the declared outputs, nothing generated replaced, packages
  that belong together;
- proto_compile: a consistent set of actions, nothing lost, options where they
  belong, refusal of exactly the invalid targets;
- languages: every output that a compile target declares reaches the native
  library as what it is, where code that uses it looks for it;
- build: outputs faithful to the plugins in every order of execution, and
  delivered;
- rulegen: after a run that ends well the generated files hang together;
- release: the registry serves what is attached and never takes it back;
- routeguide: answers are what the proto file says, those to notes are complete as
  far as the lists of the server's language reach, notes are not lost, clients do
  not hold up one another;
- test matrix: a test that passes was answered, by its own server, and one that
  has no reason to fail passes.

## 2 Modules

| module | models | extends |
|---|---|---|
| `MergePlan` | a manifest of the merger: what each line provides, when lines conflict | |
| `MergedTree` | the abstract specification of the merger | `MergePlan` |
| `Merger` | the merger, entry by entry | `MergePlan`, implements `MergedTree` |
| `Fixer` | the fixer, path by path | |
| `ProtoCompile` | the analysis of a target, iteration by iteration | |
| `OutputNames` | the names of outputs | |
| `LanguageRules` | the plugins, and the compile rules and library macros of the table on them | `ProtoCompile`, `OutputNames`, `Languages` |
| `TargetBuild` | the abstract specification of the build of a target | |
| `Build` | the analysis and then the actions, run by Bazel | `ProtoCompile`, implements `TargetBuild` |
| `Languages` | the table of languages and rules of rulegen, with its templates | |
| `Rulegen` | `make rulegen` and the writing of files | `Languages` |
| `Release` | the release script and the maintainer | |
| `Lists` | what a server finds in a list that it goes through | |
| `RouteChat` | the calls of RouteChat, in seven servers | `Lists` |
| `RouteGuide` | the answers of the servers to the other three calls | `Lists` |
| `RouteguideTest` | a test of the matrix: script, server, client, time | `RouteGuide` |
| `MC*` | the instance of each that TLC checks | |
| `SequenceFacts` | lemmas on sequences and `Lists`, for four of the following | `Lists` |
| `MergerProofs`, `FixerProofs`, `RulegenProofs`, `ReleaseProofs`, `RouteChatProofs`, `RouteguideTestProofs` | theorems and proofs about the module named | that module |
| `ProtoCompileProofs` | theorems and proofs about `ProtoCompile`, about `Build`, and about libraries | `Build`, `LanguageRules` |

Operators whose comment begins with "Variant:" are mutations of the operator
below them that a plausible mistake in the code would amount to. No
specification uses them; each is there to show that a property of section 3
fails if the code is wrong in that way.

**MergePlan, MergedTree, Merger.** A directory is a function from paths to
absent, file or directory. A line of the manifest is `D` with the tree of a
directory, `F` with a path, or one that is skipped (fewer than three parts) or
rejected (another type). `Merger` keeps the recursion of `copy_dir` as a stack
of listings from which the next entry is *any* (`fs::read_dir` has no order):
`EnterDir` is an entry that is a directory (main.rs:68-70), `CopyEntry` a file,
copied only if nothing is there (71-78), `LeaveDir` a return, `StartDir`,
`CopyLine`, `SkipLine` and `RejectLine` the branches of the loop over lines
(24-60). The panics of `unwrap` are `Panic`; they are told apart by whether the
input or the environment (`IoError`) is their cause. `MergedTree` says the same
without the walk: paths appear in any order, each with what the first line that
has it says; success needs all of them, failure a conflict or an I/O error.
`MergePlan!Conflict` is the statement of what the merger cannot merge: an `F`
line for a path that an earlier line has, a directory where an earlier line put
a file, or a line of an unknown type.

**Fixer.** The state is the loop (`pc`, `next`), `goPackage`, and the output
directory. `ScanPath` is an iteration of the first loop (main.rs:40-71): the
last `package` line of the last generated Go file wins. `CopyExisting` and
`FillMissing` are the branches of the second one (77-129); `PackageFor` is the
choice of the package (103-118). A file is whether it exists and the packages
that it names; everything else in it does not matter to the tool. Directories
are modelled because `FillMissing` does not make them and `CopyExisting` does.

**ProtoCompile.** A rule instance is a record of its attributes. `ResolveKey`
and `ResolveStar` are the loop over the options (compile.bzl:141-174) with the
workaround for labels; `SkipPlugin`, `RejectPlugin` and `AddPlugin` are an
iteration of the loop over plugins (183-425), with everything that it appends to
the lists and registers with Bazel; `MergeOutputs`, `RejectMode` and
`CopyOutputs` are the end (433-518). An action is a record of its inputs and
outputs, the content of a manifest, and the protos and options of protoc.
`Included` is the inner loop over the protos of a
plugin (207-220), with its exclusions and the check for one that was seen, and
`Declared` what the plugin declares for them. `CheckActions` is Bazel's own check
that no output has two different actions. File names are records of
directory, base and extension, so that `replace_extension`, the flattening of
names and the prefix are operations on fields and not the identity.

**OutputNames.** `get_output_filename` (common.bzl:174-250) and the filters that
the plugins of the repository use: none, `pascal` (C#), `pascal|objc`, `python`.
A pattern names the base name of a proto or its path, of which
`descriptor_proto_path` strips the root of the proto library, that of the file and
that of its repository, one after the other (common.bzl:281-323); a path is its
list of directories.
The code goes through a name by character; here a name is spelled (`Spelling`) as
a sequence of words, digits and signs, which is what the filters tell apart, and
`Capital` and `Upper` give a word with its first letter, or all of it, in upper
case. The filters of PHP, `dasherize` and patterns without a token are left
out: no plugin uses them. The constant `OutputName` of `ProtoCompile` is
`OutputFilename` of a proto and a pattern in `MCProtoCompile`; `MCBuild` gives
it a table of the few names it needs.

**LanguageRules.** The 31 plugins of `modules/*/BUILD.bazel` with their
exclusions, patterns, fixed outputs and templates. The rules are those of the
table in `Languages`, which rulegen generates them from: a compile rule is
`proto_compile` with the plugins that the table lists for it (`Plugins`), and a
library macro is a compile target (`CompileTarget`, with `importpath` and
`generate_pyi`) of the compile rule that it loads (`CompileRule`) and what its
template does with the files. `TemplateOptions` is what `doc_template_compile`
does to the options, `Filter` is `filter_files`, `Roots` the choice of `includes` or
`imports`. `{name}` in a fixed output, the name of the target, is `pb` everywhere.
The options and tools that a plugin brings, and its quirks (names of binaries,
`protoc` flags), are left out.

**TargetBuild, Build.** After an analysis that ends well, any action whose inputs
exist may run, once. `RunProtoc` writes any subset of what a plugin with a
template may write (with the jar, directory and plain variants), `RunFixer` and
`RunMerger` do what `Fixer` and `MergedTree` promise, `RunCopy` copies; each may
fail instead (`BreakTool`), and the others go on. The content of an output says
which plugin wrote it for which name, so that a wrong copy shows. `TargetBuild`
says what this is for, without actions, manifests and premerge files: a target
has sources, one for each place in its list of plugins at which a plugin is run, with
the names that their outputs get in the target; a source
runs once and writes some of them; a file is delivered with the content of the
source that it is of, its template if the source left it out, and in a merged
directory that of the first source that has the name; and the build fails only
of repeated names, of outputs that are missing or of names that stand in each
other's way. What that means for two names is for the merger to say, so `InWay` is a
parameter, which `Build` gives by the paths of the names. A plugin that is listed
twice is two sources that run as one, since Bazel shares the actions.
`ImplementsTargetBuild` is the refinement. Its mapping needs a history variable,
`target`: the sources as they are when the analysis accepts the target. `Stage`,
`HasWritten`, `Delivered` and `Faults`, which are substituted for the other
variables, are functions of the point that the analysis is at, the actions that ran
and the disk.

**Languages.** The table in `tools/rulegen/*.go`: the rules of every language,
their plugins, what the file of each loads, which modules it needs, where it is
not tested. Of the templates it has what the files say that properties depend
on: the attributes that are documented (`attrs`, from the lists in `common.go` and
the languages), those that the rule heeds (`heeds`: the attributes of the rule, or
the arguments that a macro passes on), what a macro does with its files (`Macro`:
which extensions it passes on as `srcs` and `hdrs`, how it chooses directories,
which extensions the native rule takes), and the targets of the examples with
their protos and dependencies.

**Rulegen.** The recipe in `Makefile:1-6` (`Query`, `Build`, `Generate`,
`RemoveTests`), the writing of files in the order of `main.go:114-129`, and the
developer, who changes the table and removes or adds modules between runs
(`Edit`). A generated file is represented by the version of the table it was
written from; what it then refers to is given by the operators of the section
"What the files refer to". Faults of the environment are a bounded number of
failing queries, builds and writes and of interrupts; a write may leave a file cut
short.

**Release.** `Script` is one run of make_release.py: the input of the version,
the checks (36-54: `Check`, `Refuse`), the bundling (57-112), a copy of an archive (114-119), the
clone (121-125), a module of the registry (127-188), the push (190-207) and the
printed steps (209-219); `Fail` ends it anywhere. `Maintainer` takes the printed
steps (`Tag`, `Attach`, `OpenPR`) and changes the source tree or the branch. The
`Registrar` merges a pull request that has no conflict (`Merge`) and may call a version
yanked (`Yank`), which the next release takes back (`AddVersion`, line 149). Steps of
two versions, and runs for another one, interleave. `GivenUp`, in `Check`, is not
the script's doing but what is assumed of the maintainer (section 6).

**RouteChat.** Clients send notes and close their side; the server's handler of
each call takes a note, answers it with the notes at its location and keeps it.
The seven servers differ in where the lists are (one per server in Go, Java, Scala
and JavaScript, one per call in C++, C# and Python, so that no user has the notes of
another there), in whether answering and keeping are one step (Go's lock, C++, Python and
C# with lists of their own) or two (Java, Scala), in whether a write of a reply
blocks, and in how many handlers run (Python's ten threads, `Workers`). Streams
hold `Window` messages. Clients in `unreliable` may stall or cancel the call.
`CppAnswer`, `PythonAnswer`, `CSharpAnswer`, `GoAnswer`, `JavaAnswer`,
`ScalaAnswer` and `JsAnswer` are the handlers. `Together` is that two notes are at one
location; `Returned` is what a server makes of that, by where its lists are, and the
properties name both: what each server answers with (`PreviousAreReturned`,
`OneOfTwoHears`), and that one user receives the notes of another only from Go, Java
and Scala. `Cancel` is the moment at which the server knows of a cancellation; what its
handler still reads of the messages that came before is read before that step.

**RouteGuide.** The servers keep nothing between the other three calls, so an
answer is a function of the database, the request and the language of the server:
`CheckFeature`, `ListFeatures`, `RecordRoute`. The languages differ in whether
features without a name are listed or counted, and in what JavaScript gets wrong.
Distances are a table of kilometres, and their sum a 32-bit number of metres. The
second half of the module is what `routeguide.proto` says of the answers
(`GetFits`, `ListFits`, `SummaryFits`).

**RouteguideTest.** One test of the matrix of `examples/routeguide`. `Ports` is the
numbering of `routeguide_test_matrix`, in which tests that are left out take no
port. The script starts the server and sleeps (`Delay`), runs the client
(`StartClient`), and ends with its status, its trap killing the server
(`ScriptEnds`). The server takes its port or exits (`Listen`), which the script
does not notice. The client makes its calls one after the other: `Answered` with
`Reply`, `Failed` if nobody listens, `DeadlineExceeded` in Go, and `LatchExpires` in
Java and Scala, which wait a minute for a call and go on with a warning. A server
may be slow to start, crash at any time, or hang in any call; or another server
is on the machine, that of a test with a port nearby or one that was started by hand
on its default port. Servers in C++ and Python may share their port with another
(`SharesPort`), which then answers some of the calls and cuts one off when it exits
(`CutOff`). `Timeout` is the limit that Bazel sets to a small test. Time
is a count of ticks of two seconds, the greatest unit in which all of the delays
and limits that matter are whole; `Tick` waits for what is `Due`.

## 3 Runs

`expect` is "fails" for the runs of section 5.

| run | expect | states | what it checks |
|---|---|---|---|
| `merger` | passes | 64,936 | `FirstWins`, `NothingLost`, `PanicsExactlyOnConflict`, `Terminates`, `ImplementsMergedTree` |
| `fixer` | passes | 128,570 | `ProducesDeclared`, `MatchesGenerated`, `DeniedOnlyTwice` |
| `protocompile` | passes | 62,342 | `InputsHaveOneProducer`, `NothingIsLost`, `RunsOnIncludedOnce`, `OptionsReachNamed`, `FailsExactlyOnInvalid`, `ConflictsAreClashes`, `LibraryFindsCode` |
| `protocompile_names` | fails | | `ObjcUppercasesWords` |
| `protocompile_exclusion` | fails | | `ExclusionIsPrefix` |
| `build` | passes | 64,540 | `ImplementsTargetBuild`, `Delivers` |
| `routechat` | passes | 173,293 | `PreviousAreReturned`, `NoNoteIsLost`, `OneOfTwoHears`, `ChatsEnd` |
| `routechat_js` | fails | | `OthersAreReceived` |
| `routeguide_test` | passes | 319,749 | `PassMeansAnswered`, `OwnServerAnswers`, `AnswersFit`, `HealthyPasses` |
| `routeguide_js` | fails | | `AreaIsListed` |
| `rulegen` | passes | 83,260 | `SuccessIsWhole`, `ReferencesResolve`, `DocumentedAttrsWork`, `RouteguideWhereLibraries`, `Finishes` |
| `release` | passes | 95,240 | `RegistryServesRelease`, `RegistryOnlyGrows` |

Each passing run also checks a type invariant. The comment above a property
states it. What the runs show, and why their bounds are enough:

**merger.** All pairs of trees of depth two over two names as two `D` lines, a
directory and a file anywhere, two files, a directory twice, and manifests with
lines that are skipped or rejected. A conflict or a shadowing needs two lines, a
path and at most one directory above it; depth two is the least at which a
directory can be above a file inside a plugin's directory, and at which listings
nest. Every order of listing is explored. The result does not depend on the
order, although copies do; `ImplementsMergedTree` is the refinement.

**fixer.** Every manifest of up to three lines over four paths and blank lines:
two Go files in one directory, one in another, and a file that is not Go, with
every choice of what the plugin wrote and of the packages. Three lines are one
more than a hazard needs (a generated file, a missing one, and one that resets
the package between them). The package line is read per file, so more lines of
one file change only which one is last.

**protocompile.** Two plugins, each of nine kinds (with outputs per proto, a
fixed output, a jar, a directory, a template, none, and the invalid
combinations), equal or distinct or with the same ID, on one to three protos
two of which have the same base name, listed once or twice, with exclusions,
in all three output modes with and without a prefix; and separately every list of
up to two options keys, on up to three plugins two of which have one apparent
name. Every property relates at most two plugins, or a plugin and a key, or two
keys. In the same run, all 21 library macros are made with six lists of protos
(at the root; in a directory with a dash and a dot; two whose names would be an
output of the other's; a well-known type beside one that is not, listed twice;
one base name in two directories; names with words that Objective C writes in
upper case), in the three output modes, with and without `prefix_path`,
`importpath` and `generate_pyi`; all rules for documents with the same protos; and
the template rule with options of its own. `LibraryFindsCode` says what is left
out of it, and section 5 why.

**build.** Two plugins, each of eight kinds, or one that is listed twice, alone or with
one that writes a directory; in two output modes, with all orders of
actions, all choices of what the plugins write, and all failures, on one proto or on
two of one base name. Directories are written with any of three names: one that a
plugin with files declares too, one that a document has, and one below what is a
file of another plugin. A clash is between two plugins, so a third would
add orders but no new clash; that the order of the plugins decides needs two.

**routechat.** Two clients, one with two notes at a location and one with one
note there or a note elsewhere before it; each server; a window and a worker of
one, so that full streams and a lack of threads happen; one client that may stall
or be cancelled at any moment. The properties are about a pair of notes, of one user or
of two, and the races about two calls: this is what it takes for the notes of
another user to be missing where they should be, or there where they cannot. Larger windows and pools have the same states with
more in them before they are full.

**routeguide_test.** Every client with every server of the matrix that the
repository has (42 tests), each with each fault, and with another server that comes
and goes at any moment: of a test one port above or below, or started by hand.
More distant tests differ only in their port, which is another one anyway. Two
tests are also run by `bazel run`, which sets no limit, for as long as the latches of
their clients take (`MaxClock`). The database has five features: one that clients
ask for, one without a name, one outside the area on either side, one on its
edge. Routes are the shortest and the longest that a client may draw, to and fro
between two points, for Go half the circumference of the earth apart: no route
is longer, so that a sum which does not overflow there never does.

**rulegen.** Two runs of make with one fault anywhere and one change of the table
between them, from a table of two languages to one of four or to the full table
of the repository (12 languages, all rules, 234 files). Two runs are the
least that a tree half written by one can be completed by another; the table is
not a small instance but the real one.

**release.** Two versions, three runs, two states of the source tree, of which
one lacks a module that the other has and the other way round. Three runs are two
for one version with one for another between them, which is what it takes for a
branch to be overtaken.

**Fairness.** Only what the code's environment gives. `Merger!FairSpec`: weak
fairness of `Next`, a process that nobody stops. `Build!FairSpec`: weak fairness
of `Next`; Bazel runs an action that is ready, or the build has failed.
`RouteChat!FairSpec`: weak fairness of the handler of each call, since servers
run handlers on threads or goroutines or an event loop, and of each client that is
not in `unreliable`; none of the others. `Rulegen!FairSpec`: weak fairness of
`Make`, the shell that goes through a recipe; none of the developer.
`RouteguideTest!FairSpec`: weak fairness of `Next`; time passes, and what is due
happens before the next tick. `HealthyPasses` asks it only of tests without a fault
of the server, in which each answer takes at most `AnswerTime`. `Fixer`,
`ProtoCompile` and `Release` state no liveness and have no fairness.
Deadlock is not checked (`CHECK_DEADLOCK FALSE`) where processes end by
themselves or bounds stop them; for `Build`, `RouteChat` and
`RouteguideTest`, "everyone waits" is what `Delivers`, `ChatsEnd` and
`HealthyPasses` exclude.

## 4 Proofs

TLAPS proves the following for every value of the constants that satisfies
the named assumptions: every set of paths and every set of manifests, of targets
with any number of plugins, options and protos, of tables, of clients and notes,
every matrix and every database. The assumptions are
`PathAssumption` and `ManifestAssumption` (paths are closed under prefixes, lines
hold trees), `FixerAssumption`, `ReleaseAssumption`, `RulegenAssumption` and
`ChatAssumption` (types of the constants), `MatrixAssumption` and
`FeaturesAssumption` (types, and that no language or place is listed twice),
`RulesAssumption` (types, one plugin per label, and that the files which the
rule makes for itself have extensions that no plugin uses: see below),
`TreeAssumption` and `NamesAssumption` (every name has a path, and those that are
written in directories are not in each other's way), `LibrariesAssumption` (the
plugins of a library make files that its native rule compiles) and
`TablesAssumption` (what the entries of a table refer to are entries of the table, and
a language in the tests has a library that is tested). TLC evaluates
all of them in the runs, the last two on the plugins and the table of the repository. One
theorem, `DocumentedHeeded`, has a hypothesis besides, `FromTable`, that the rules in the
tables are rules of the repository's table, which TLC evaluates too (`MCRulegen`).

| module | theorem | says |
|---|---|---|
| `MergerProofs` | `Invariance`, `TypeCorrect` | `IInv` and `TypeOK` are invariants |
| | `FirstPluginWins`, `Complete`, `PanicsOnlyOnConflict` | the three safety properties of the run `merger` |
| | `WrittenOnce` | no step changes a file that is in the target |
| | `Implements` | `Merger!Spec` implements `MergedTree!Spec` |
| | `NearerEnd`, `NoDeadEnd` | every step brings the end nearer, and until the end there is one: what `Terminates` rests on |
| `FixerProofs` | `TypeCorrect` | `TypeOK` |
| | `DeclaredOutputs`, `FilledMatchesGenerated`, `OnlyTwiceIsDenied` | the properties of the run `fixer` |
| | `GeneratedKept`, `FilledAgree`, `OutputsKept` | generated files are not replaced, those that are filled in agree, what is written does not change |
| `ProtoCompileProofs` | `Invariance`, `TypeCorrect` | `IInv` and `TypeOK` |
| | `RefusedExactly`, `OptionsReach`, `RunsOnIncluded`, `OneProducer`, `NothingLost`, `ClashesOnly` | the properties of the run `protocompile` that are about any target |
| | `BuildInvariance`, `BuildTypeCorrect` | of `Build`, `BInv` and `ExecTypeOK` |
| | `BuildImplementsTarget` | `Build!Spec` implements `TargetBuild!Spec`: `ImplementsTargetBuild` |
| | `NothingWaits` | `OnlyFailuresHinder`: where nothing can be run any more, what is missing is missing for a failure; what `Delivers` rests on |
| | `LibrariesFindCode` | of `LanguageRules`, `LibraryFindsCode` |
| `RulegenProofs` | `Invariance`, `TypeCorrect`, `WholeIfSuccess` | `IInv`, `RulegenTypeOK`, `SuccessIsWhole` |
| | `TreeResolves`, `TestsWhereLibraries` | `ReferencesResolve`, `RouteguideWhereLibraries` |
| | `DocumentedHeeded` | `DocumentedAttrsWork`, of tables made of the rules of the repository's |
| | `FailuresExplained`, `EndsWell` | `FailureExplained`, `WellUnlessHindered`: a failure has one of three reasons, and without them make ends well; what `Finishes` rests on |
| `ReleaseProofs` | `Invariance`, `TypeCorrect` | `IInv` and `ReleaseTypeOK` |
| | `Serves`, `OnlyGrows` | the two properties of the run `release` |
| `RouteChatProofs` | `Invariance`, `TypeCorrect` | `IInv` and `ChatTypeOK` |
| | `AnswersComplete`, `NotesKept`, `TwoMeet` | the safety properties of the run `routechat`, server by server: whose notes an answer has, and who can miss whom |
| | `ChatsGoOn` | `NoChatWaits`: a reliable chat can go on whatever the others do, but for a thread in Python; what `ChatsEnd` rests on |
| `RouteguideTestProofs` | `PortsDiffer` | two tests of a matrix have two ports, whatever is left out |
| | `Invariance`, `TypeCorrect`, `AnsweredByOwn`, `PassedWasAnswered` | `IInv` and three properties of the run `routeguide_test` |
| | `AnswersAreFit` | `AnswersFit`, its fourth |
| | `HealthyIsInTime` | `HealthyInTime`: a test without a fault is never killed nor fails; what `HealthyPasses` rests on |

**Merger.** `FirstWins` and `NothingLost` are not inductive: in the middle of a
line some of its paths are there and some are not. `IInv` says which: the lines
before the current one are merged completely (`LinesMerged`); of the current
one, every path is merged or it is below an entry that is still to be taken from
some listing on the stack (`LineInProgress`, `Pending`); the directories being
listed exist and are listed in depth (`Listings`); and what is in the target is
from the first line that has it, a line already reached (`FromReachedLine`).
Above a file there are only directories (`TargetIsTree`). When the stack is empty
nothing is pending, so the line is merged. A panic is then traced to
`MergePlan!Conflict` and back: a line that cannot be copied is at a path that an
earlier line provides, and if all lines are merged no two of them conflict. The
refinement maps `target` and `status` and uses `IInv` for the guard of `Succeed`.

That the merger ends is proved as far as it can be without fairness. What is left
of a line (`Left`) is a set of paths that no step makes larger: entering a directory
or copying a file takes one out of it and nothing puts one back, as the
listings on the stack are one in the other and none holds, or will again, what
is above another (`ListedOnce`). A step that takes nothing out of it returns from a
listing, so that the stack gets shorter (`NearerStep`). With trees that are finite,
which is all that is assumed of a file system, no behaviour goes on for ever;
and `NeverStuck` says that none stops before the end.

**Fixer.** `PackageInv` says that the package is that of a generated file, or
that none was found so far, or none at all once the scan is over; `TargetInv`
that the copy loop has written the paths it has been at. `DeniedOnlyTwice` is a
part of its own induction, because the directories of the outputs exist
from the start.

**ProtoCompile.** The loops build lists, and a property such as "every input has
one producer" is about the lists together. `IInv` says that at every point all of
them are determined by what the loops have been through: of the options by the
keys so far (`OptionsInv`: `Reached`, `Given`), of the plugins by those passed
(`FilesInv`, `ActionsInv`), that a plugin which was passed was valid
(`PluginsInv`) and that a refusal has its cause (`RefusedInv`). `KeptInv` is what
lasts when a target is refused half way. The properties follow from this description without the
loops. That two actions do not make one file is a matter of kinds: manifests,
directories, jars and outputs have extensions of their own, so that a file tells
what made it. This is what `OwnExts` in `RulesAssumption` asks for; the plugins of
the repository satisfy it, and a custom plugin that declared an output
`x.srcjar` beside a jar `x.jar` would be refused by Bazel as a conflict of
another kind than the two that `ConflictsAreClashes` names. `Included`, the loop
over the protos, is a recursive function; `IncludedFacts` shows by induction
on its argument that it gives each proto that is not excluded, once.

**Build.** `BInv` adds three things to the invariant of the analysis. `PlacedInv`
says where in `premerge_files` and `premerge_dirs` the outputs of each plugin are:
sets do not tell, and the merger goes by the order. `DiskInv` says that what is on
disk was declared by actions that ended well (`Finished`), each with its inputs
there, and that what failed, failed of what it can fail of. `MadeInv` says, for
each kind of action, that what it left is still as it left it; it is inductive only
because no file has two producers, which is where the proof needs `OneProducer` of the
analysis. That every registered action is one of seven forms (`Registered`), and
what a run of each form does (`WriteEffect` to `MergerEffect`), reduces a step of
`Execute` to six cases. Each is then a step of `TargetBuild` or none: the run of
protoc for a source that has not run, or a shared action for two places in the list; a
copy to a destination, a delivery; the merger, a delivery of everything. The last is
the longest part. Each line of the manifest is one output of one source (`LinesExist`,
`Located`, `Giver`), with directories before files; among lines of files, those of
two sources never have a path in common, unless the merger refuses them, so the first line
that has a name is that of the first source that has it (`MergedSame`), and a
conflict of two lines is one of two outputs of the target (`ConflictSame`). Here
`TreeAssumption` is needed: `TargetBuild` has a build fail of an output that is in the way
of another, and what the merger does with two directories in which a file of one is a
directory of the other is left to `Merger`, where every such pair is explored.

`OnlyFailuresHinder` is the part of `Delivers` that is about the actions and not about
Bazel. Where nothing is ready and nothing failed for a plugin, the argument
goes along the chain that makes one of its files: the manifest has no input, so it ran;
protoc reads sources and manifests, the merger what protoc wrote, a copy what the
merger wrote. That the chain has no gap and does not turn back on itself is what the
invariant of the analysis says of every target.

**Libraries.** `LibraryFindsCode` holds by a count of places: an output is below the
prefix and its own directory, or below the prefix alone in `NO_PREFIX_FLAT`, of the
target in `PREFIXED` and of the package otherwise (`Destination`); the macro hands the
native rule the directory of the place, and of the prefix if it looks at
`prefix_path`. `FoundBelow` says when one leads to the other, and the theorem goes through
the macros' four ways to choose (`none`, `target`, `mode`, `prefix`) for any path,
prefix and mode. Which extensions plugins and macros have is data of the table, which
`LibrariesAssumption` states and TLC evaluates.

**Rulegen.** `SuccessIsWhole` is about the end of a run, in a tree in which earlier
runs left what they left. `WrittenInv` carries it there: the files before the next
one are of the version that rulegen was built from, whatever stands in the
others, and a file that is listed twice is written again with the same.
`MakeInv` says that this version is the table, since the developer waits for make.
The list itself is a concatenation over languages; `SequenceFacts` has that
`FlattenSeq` gives a sequence with what its parts have. `ReferencesResolve` follows
from it and from `HousedInv`, that the directories of the modules written to are
still there: every file is of one version, of which `TablesAssumption` says that the
entries go together, so what remains is to find for each name in a file the entry and
the file that it stands for. `RouteguideWhereLibraries` does not wait for success,
as both lists of CI are in one file, and holds of a table that is older than the
current one; that the platforms of the tests, which are computed from languages, are
those of the examples, computed from rules, is the proof.

`DocumentedAttrsWork` has two halves. That documentation and rule are those of one
table is `SuccessIsWhole` again. That in a table the one agrees with the other
is a fact about data, proved about the table of the repository language by language:
`CompileHeeds` and `LibraryHeeds` are about the templates, for any language and macro
that passes on what is documented, and the entries' own changes leave both sets alone.
So it holds of any selection of the rules, and a rule that is added has one lemma to
extend. The exceptions are the two pairs of a rule and an attribute in `WithoutEffect`,
which the code does not heed (section 5).

`EndsWell` is a step from `FailureExplained`: a failure of `rulegen` that is not one of
the environment is a root module that does not load, or a file for which there is
no directory. The second is the point: the files below `modules/` of a table are those of
its languages (the last part of `FilesFacts`), so that only a language without a
directory can stop a run, and the reason lasts to the end of make.

**Release.** `RegistryServesRelease` depends on what was pushed long before.
The invariant follows an archive along: what a run past the checks has copied
stays in `dist` as nobody is at the steps of its version (`RunInv`); the clone
adds the version with the archives of the run and nothing else (`CloneInv`);
while the steps are taken the pushed branch agrees with `dist`, and from the
attaching on with the release (`StepsInv`); a version in the registry was merged
and the lists agree with the entries (`RegistryInv`). The tag is what separates
them: `Tag` comes before `Attach`, and a run for a version with a tag is
refused, so that a branch with a pull request is never pushed to. A `Yank` leaves
the versions and their hashes (`YankKeeps`), of which alone the properties speak.

**RouteChat.** `TransitInv` numbers the notes: those of a client are taken in
order, and what is in transit follows them. `PlaceInv` says which server can
wait where. The step from there to the properties is `KeptInv`: a note that was
taken is in its list, or it is the one that its handler is at and will add, or
was cancelled at. With this, an answer that holds the list as it is holds all the
notes of that list that the server is done with (`HeardInv`); of two notes in one
list, the later one to be answered finds the earlier one there, unless a handler
answers in one step and adds in another (`PairsInv`), as in Java and Scala. Both are
about `Listed`, notes at one location that go to one list. `ReturnedIsListed` takes them
to users: two notes of one user always have one list, and those of two have it where
the server has one, so `AnswersComplete` promises the notes of all users for Go, Java
and Scala, those of the same user for C++, C# and Python with none of another's, and
nothing for JavaScript. `TwoMeet` says in the same way that two users cannot both miss each
other in Go, can in Java and Scala, and always do in the other four. That an answer holds a note once comes from an
order: notes of one client are in a list, and in an answer, in the order of their
numbers (`InOrder`). Scala's compare-and-set is where `NotesKept` could fail: the
map that is stored is that which was read, with the note, only if nobody stored
in between.

`NoChatWaits` says of each chat, at every moment, that one of its own steps can be
taken, so that no chat is held up by a full stream or by the lock of another; that it is
about own steps is more than freedom from deadlock. A handler that cannot write has a
client with something to read, and one that cannot read has a client with something to
send or to close (`BegunIsReady`). A chat that has not begun may wait for a thread in
Python. If more threads are busy than there are unreliable clients, one of them
is with a reliable client (by cardinality), whose chat can go on; if not, unreliable
clients may have them all, which is the exception in `ChatsEnd`.

**RouteguideTest.** `PassMeansAnswered` holds by a margin of time: a client that
has waited a minute for one call began after its script slept, so the limit of
the test, a minute from its start, comes first. `RunningInv` keeps
`clock >= waited + Delay`, and `AnsweredInv` the number of answers, which within the
limit is the number of the call. `OwnServerAnswers` needs `PortsDiffer`: a port
is the number of tests before, and of two tests in the matrix one is before the
other, so that the sets counted differ in at least one. `AnswersFit` says that the
latest answer is what the proto file says. The feature at a place is that of the least
index; the features of an area are in the order of the database and each is there once
(`AmongOnce`); and a leg of a route is at most half the circumference of the earth
(`MaxLeg`), so that the sum of the hundred legs between 101 points, which is what a
client may draw at most, in metres, is below 2^31 (`TravelledBound`, `NoWrap`): no
summary is of a sum that began anew.

`HealthyInTime` adds up what a test may take. `HealthyInv` bounds the clock at every
place of the client by the delay of its script, `AnswerTime` for every call so far, eight ticks for
the requests of RecordRoute (`Spent`), and what it has waited; and it says that the
server, which starts within its own time, listens before the client calls. The sum is
at most 18 ticks of the 30 that a test has. It needs that nothing overdue is
pending when the clock moves, which is the guard of `Tick`.

Induction over data. The lemmas on `FlattenSeq`, `Included`, `Among` (the selection
of notes and of features) and `Travelled` (the length of a route) are proved by the least number for which they fail, from the well-foundedness
of the natural numbers (`Least`), as the induction rules of the library take an
operator for a parameter.

Only model-checked: the liveness properties (`Terminates`, `Delivers`,
`ChatsEnd`, `Finishes`, `HealthyPasses`), as TLAPS does not prove liveness under
fairness. For each of them what it rests on besides fairness is proved: where a
behaviour may stop, or in which state (`NoDeadEnd` and `NearerEnd`, `NothingWaits`, `ChatsGoOn`, `EndsWell`,
`HealthyIsInTime`). What remains to the runs is that steps which can be taken are.
`ChatsGoOn` has no measure with it: a compare-and-set in Scala may be tried again as
long as other calls store, which in a finite script is a finite number of times. All
invariants and action properties of the passing runs are proved.

## 5 Disagreements between the code and what is said of it

- `protocompile_names`: names for Objective C have the words "url", "http" and
  "https" in upper case (common.bzl:26-27), but a digit after a word stays in
  its segment (common.bzl:47-56), which then is not one of those words: `http_2.proto`
  is expected as `Http2.pbobjc.h`.
- `protocompile_exclusion`: exclusions are said to be prefixes (plugin.bzl:61,
  docs/custom_plugins.rst:138) and are matched as suffixes (compile.bzl:211).
- `routechat_js`: the JavaScript server looks for notes among the entries of a
  Map and keeps them as its properties (server.js:119-128), so it never sends
  any. The same run with `ServerLangs = {"csharp"}` fails too, with two clients (below).
- `routeguide_js`: the JavaScript server computes the edges of an area with
  `Math.min` and `Math.max` of an array (server.js:42-45), which is NaN; it lists no
  feature of any area, and its tests pass, since the client takes an empty list for
  an answer.

Noted without a run, because no property of the system depends on them, because the
statement leaves room for them, or because they concern texts only:

- `ProtoCompileInfo.output_root` is the directory named by the target even in the
  modes without a prefix, whose files are elsewhere (compile.bzl:428,
  providers.bzl:30).
- A user of RouteChat is to receive "other RouteNotes (e.g. from other users)"
  (routeguide.proto:51-52), and the C# server says that it responds "with a stream of all
  previous messages at each of those locations" (Server.cs:111-113). In C++
  (server.cc:150), C# (Server.cs:43, an instance per call) and Python the list of notes
  is that of one call, so that no user ever receives a note of another. `OthersAreReceived`
  fails for them as it does for JavaScript; `PreviousAreReturned` and `OneOfTwoHears`
  state what they do instead, and the theorems `AnswersComplete` and `TwoMeet` prove it.
- `doc_template_compile` sets the key `*` of `options` (doc_template_compile.bzl:23),
  and `proto_compile` takes `*` only alone: any other key fails, and `*` given by
  the user is replaced, although `options` is documented for this rule as for any
  other (docs/lang/doc.rst:433-437). `DocumentedAttrsWork` names it as one of two exceptions.
- `objc_proto_library`, `objc_grpc_library` and `python_grpclib_library` look for
  code in the directory of the target in every output mode
  (python_grpclib_library.bzl:28); `objc_grpc_library` makes two filters and
  uses neither; of the library macros only `python_grpc_library` looks below
  `prefix_path`.
- test_workspaces/python_dots/BUILD.bazel:7-9 says that the gRPC plugin keeps the dots
  of a path; the pattern of that plugin (modules/python/BUILD.bazel:33) converts them.
- The fixer keeps one Go package for a whole manifest and fills in every missing file
  with that of the last generated file (main.rs:63-70), although it "needs to
  generate files that have a package that match the existing files" (37-38). With
  protos of two packages in one target a file gets the package of another directory.
- The commands of `make rulegen` are joined by `;` (Makefile:4-6), so that after a
  query that failed the CI configuration is written without routeguide tests and make
  succeeds.
- `ignore_unstable_packages` of `buf_proto_breaking_test` is documented (buf.go:160)
  and declared (buf_proto_breaking_test.bzl:40), and nothing reads it.
  `DocumentedAttrsWork` names it as the other one.
- Plugins of another module are documented under a label that is no label:
  `@rules_proto_grpc_grpc_gateway@rules_proto_grpc_go//:grpc_plugin`
  (main.go:389, docs/lang/grpc_gateway.rst:109).
- examples/routeguide/BUILD.bazel:5-6 says that most clients "don't actually fail
  hard if the routeguide procedure does not go as planned"; all of them exit with an
  error if a call fails. What is true of Java and Scala is that a call that hangs
  ends in a warning, which under `bazel test` never happens (`PassMeansAnswered`) and
  under `bazel run` lets the test pass.
- The JavaScript server counts every point of a route as a feature, and the Scala
  client sends one point more than `numPoints` (RouteGuideClient.scala:109).
- The default ports 50051, 50074 (Java) and 50076 (Python) are ports of the matrix:
  a server that was started by hand can answer in the place of a test's own.
- The JavaScript client gives 4000 to `waitForReady` (client.js:142), which takes a date:
  it does not wait four seconds for its channel but not at all, and ignores the error.
- A release writes `yanked_versions` anew and empty (make_release.py:149), so that a
  version which the registry had yanked is not any more. `RegistryOnlyGrows`
  leaves this out, as nothing in the repository says otherwise.
- docs/contributing.rst:26 names `docs/{lang}.rst` for what is in `docs/lang/`,
  and line 43 a `README.header.rst` that is a `.md`.

## 6 Assumptions

- Bazel: outputs of an action are read-only, so that writing a path a second time
  is denied; the parent directories of declared outputs exist; a sandbox keeps
  declared outputs only, so that what a plugin writes besides them is dropped;
  actions that are equal are shared; those registered for requested outputs
  are run. Whether a `MODULE.bazel` that is cut short loads is left open.
- protoc: a plugin writes what the model lets it choose; writing one name twice
  in a run is refused.
- gRPC: messages of one direction of a call are delivered in order and once. The
  C# service is made anew for every call. The servers in Java, Scala and
  JavaScript buffer replies without bound.
- The tests of the matrix: bash's trap runs `kill %1` when the script ends, and its
  failure for a server that has exited does not change the status of the script; a
  port that was in use is free at once; gRPC's core may bind a port that another server
  of its kind has (SO_REUSEPORT), the other servers may not; the delays of the model are those of the
  scripts, servers and clients, rounded to ticks of two seconds.
- The names that a plugin writes in its directory are such that none is a directory
  above another (`TreeAssumption`).
- Targets: `RulesAssumption` and `NamesAssumption`, section 4; libraries:
  `LibrariesAssumption`, which holds of the plugins and macros of the repository.
- The table of rulegen: `TablesAssumption`, section 4, which holds of that of the
  repository; for `DocumentedHeeded`, that the tables are made of its rules.
- git and the registry: a push by force replaces a branch; a pull request is
  merged only if nothing that it changes was changed meanwhile. gzip writes the
  time into an archive (the tar records have theirs stripped, the gzip header not), so
  two runs never make the same one.
- The maintainer is one person with one clone, takes the printed steps in order,
  and drops those of a version once a new run for it is past the checks (`GivenUp`). No
  line of the script sees to this, and `RegistryServesRelease` needs it: `dist` is written
  over from then on.
- A file that rulegen writes is seen by nobody before rulegen ends, so a write is
  one step, with the outcomes written, failed and cut short.

## 7 What is not modelled

- What protoc's plugins themselves make of a name: `OutputNames` says what the
  rules expect, which `Build` takes as what is written. PHP filters and
  `dasherize`, which no plugin uses.
- Texts: command lines of protoc beyond its protos and options, verbose output,
  documentation beyond the lists of attributes, flags of CI, presubmit files.
- The buf tests: each rule writes a script with one run of protoc, with one plugin and
  one JSON option. It is a straight line with neither state nor a choice. What of it
  can go wrong, an attribute that is not passed on, is in `DocumentedAttrsWork`.
- What routeguide clients print, and the loading of the database, which is a file of
  the repository that all of them can read. A Java client that could not would exit with status 0
  before its first call (RouteGuideClient.java:258-263), and its test would pass;
  `PassMeansAnswered` is about clients that have their database.
- Native library rules beyond the extensions they take and the directories they
  look in; of the attributes that macros forward to them, their values.
- Module extensions, toolchains and module files: declarations without a choice.
- Rule examples, test workspaces and docs: read as tests and statements about the
  code, and used in the findings.
- Bazel, protoc, git, gRPC: external, modelled by how this code uses them.

## 8 What could follow

- That `OutputFilename` with the path of a proto and no filter gives distinct protos
  distinct names, which needs a model of names beyond words and digits.
- The plugins of protoc themselves, as what the patterns predict: whether the files
  that a plugin writes have the names that the rules declare is known from the
  plugins' own sources only.
