------------------------------- MODULE Rulegen -------------------------------
(***************************************************************************)
(* make rulegen: a query for the routeguide tests, the build of rulegen    *)
(* from the source tree, and its writing, one after the other, of the      *)
(* files that it generates from the table of languages.  Any step may      *)
(* fail, and the developer may change the table and run it again.          *)
(*                                                                         *)
(* A generated file is represented by the version of the table that it was *)
(* written from; what it then refers to is defined below.                  *)
(***************************************************************************)
EXTENDS Naturals, FiniteSets, SequencesExt, Languages

CONSTANTS
  Tables,        \* the versions of the table: a function to sequences of languages
  FirstTables,   \* the versions that the source tree may be at in the beginning
  Tests,         \* the routeguide tests, pairs of a client's and a server's language
  MaxMakes,      \* the number of runs of make
  MaxEdits,      \* the number of changes of the table
  MaxFaults      \* the number of failures of the environment

Versions == DOMAIN Tables

ASSUME RulegenAssumption ==
  /\ FirstTables \subseteq Versions
  /\ \A v \in Versions : /\ Tables[v] \in Seq(ToSet(Tables[v]))
                         /\ \A lang \in ToSet(Tables[v]) : lang.rules \in Seq(ToSet(lang.rules))
  /\ {"absent", "partial"} \cap Versions = {}
  /\ MaxMakes \in Nat /\ MaxEdits \in Nat /\ MaxFaults \in Nat

VARIABLES
  table,      \* the version of the table in tools/rulegen
  modules,    \* the languages that have a directory below modules/
  disk,       \* the generated files: their version, or "absent" or "partial"
  ciTests,    \* the routeguide tests that presubmit.yml was written with
  available,  \* available_tests.txt: a sequence of its content, or of nothing if it is not there
  make,       \* where the recipe of make is
  built,      \* the version that rulegen was built from
  at,         \* the position in Files(built) of the next file to write
  outcome,    \* of the last rulegen: "none", "success" or "failed"
  makes, edits, faults

vars == <<table, modules, disk, ciTests, available, make, built, at, outcome, makes, edits, faults>>

-----------------------------------------------------------------------------
(* What rulegen writes, in its order. *)

ModuleBazel      == <<"MODULE.bazel">>
Bazelignore      == <<".bazelignore">>
Readme           == <<"README.md">>
Presubmit        == <<".bazelci", "presubmit.yml">>
ExamplesMakefile == <<"examples", "Makefile.mk">>
WorkspacesMakefile == <<"test_workspaces", "Makefile.mk">>

Docs(l)           == <<"docs", "lang", l>>
Defs(l)           == <<"modules", l, <<"defs">>>>
RuleFile(l, r)    == <<"modules", l, r>>
Example(l, r, f)  == <<"examples", l, r, f>>
ExampleFiles(l, r) == {Example(l, r, f) : f \in {"WORKSPACE", "MODULE.bazel", "BUILD.bazel"}}

LanguageFiles(lang) ==
  LET Names == [i \in DOMAIN lang.rules |-> lang.rules[i].name]
  IN <<Docs(lang.name), Defs(lang.name)>>
     \o [i \in DOMAIN Names |-> RuleFile(lang.name, Names[i])]
     \o FlattenSeq([i \in DOMAIN Names |->
          <<Example(lang.name, Names[i], "WORKSPACE"), Example(lang.name, Names[i], "MODULE.bazel"),
            Example(lang.name, Names[i], "BUILD.bazel")>>])

Files == [v \in Versions |->
  FlattenSeq([i \in DOMAIN Tables[v] |-> LanguageFiles(Tables[v][i])])
  \o <<ModuleBazel, Bazelignore, Readme, Presubmit, ExamplesMakefile, WorkspacesMakefile>>]

Paths == UNION {ToSet(Files[v]) : v \in Versions}

-----------------------------------------------------------------------------
(* What the files refer to. *)

Langs(v)       == ToSet(Tables[v])
LangNames(v)   == {l.name : l \in Langs(v)}
LangOf(v, n)   == CHOOSE l \in Langs(v) : l.name = n
RulesOf(lang)  == ToSet(lang.rules)
RuleNames(lang) == {r.name : r \in RulesOf(lang)}

ciPlatforms == {"ubuntu2204", "macos", "macos_arm64"}
ciPlatformsMap ==
  [linux   |-> {"ubuntu2204", "ubuntu2004_arm64"},
   windows |-> {"windows", "windows_arm64"},
   macos   |-> {"macos", "macos_arm64"}]

\* Whether tests run on a platform: the platforms of the rule, if it has
\* any, replace those of the language.
doTestOnPlatform(lang, ruleSkip, platform) ==
  LET skip     == IF ruleSkip # {} THEN ruleSkip ELSE lang.skip
      families == skip \cap DOMAIN ciPlatformsMap
  IN \/ "none" \in skip
     \/ /\ "all" \notin skip
        /\ platform \notin skip \cup UNION {ciPlatformsMap[f] : f \in families}

\* The examples that the tasks of presubmit.yml make on a platform.
ExampleTasks == [v \in Versions |-> [platform \in ciPlatforms |->
  UNION {{<<l.name, r.name>> : r \in {s \in RulesOf(l) : doTestOnPlatform(l, s.skip, platform)}} : l \in Langs(v)}]]

\* Variant: the platforms of the server's language are not looked at.
MainTasksOfClient(v, platform) ==
  {t \in ciTests : /\ t[1] \in LangNames(v) /\ doTestOnPlatform(LangOf(v, t[1]), {}, platform)
                   /\ t[2] \in LangNames(v)}

\* The routeguide tests that presubmit.yml runs on a platform.
MainTasks(v, platform) ==
  {t \in ciTests : \A i \in {1, 2} :
     t[i] \in LangNames(v) /\ doTestOnPlatform(LangOf(v, t[i]), {}, platform)}

\* The targets of examples/Makefile.mk.
MakeTargets(v) == UNION {{<<l.name, n>> : n \in RuleNames(l)} : l \in Langs(v)}

\* Variant: the dependencies of the language are left out.
ExampleModulesAlone(v, l) == {l}

\* The modules that the MODULE.bazel of an example overrides with local ones.
ExampleModules(v, l) == {l} \cup LangOf(v, l).dependsOn

\* The packages that .bazelignore hides from the workspace of the root.
Ignored(v) == MakeTargets(v)

-----------------------------------------------------------------------------
(* The state of the tree. *)

Whole(p) == disk[p] \in Versions

\* Bazel can load the root module when all the overridden modules are there.
RootLoads == Whole(ModuleBazel) /\ LangNames(disk[ModuleBazel]) \subseteq modules
RootMayLoad == RootLoads \/ disk[ModuleBazel] = "partial"

Init ==
  /\ table \in FirstTables
  /\ modules = LangNames(table)
  /\ disk = [p \in Paths |-> IF Contains(Files[table], p) THEN table ELSE "absent"]
  /\ ciTests = Tests
  /\ available = << >>
  /\ make = "idle" /\ built = table /\ at = 1 /\ outcome = "none"
  /\ makes = 0 /\ edits = 0 /\ faults = 0

-----------------------------------------------------------------------------
\* The developer changes the table, and may add the directories of new
\* languages and remove those of old ones.
Edit(v, dirs) ==
  /\ make = "idle" /\ edits < MaxEdits /\ v # table
  /\ table' = v /\ modules' = dirs
  /\ disk' = [p \in Paths |-> IF p[1] = "modules" /\ p[2] \notin dirs THEN "absent" ELSE disk[p]]
  /\ outcome' = "none"
  /\ edits' = edits + 1
  /\ UNCHANGED <<ciTests, available, make, built, at, makes, faults>>

Start ==
  /\ make = "idle" /\ makes < MaxMakes
  /\ make' = "query" /\ outcome' = "none"
  /\ makes' = makes + 1
  /\ UNCHANGED <<table, modules, disk, ciTests, available, built, at, edits, faults>>

\* A step of the environment that works, or does not.
Works  == faults' = faults
Faults == faults < MaxFaults /\ faults' = faults + 1

\* Variant: the file is removed before rulegen reads it.
QueryAndRemove ==
  /\ make = "query" /\ make' = "build"
  /\ available' = << >> /\ Works
  /\ UNCHANGED <<table, modules, disk, ciTests, built, at, outcome, makes, edits>>

\* bazel query: its output goes to available_tests.txt.  The next command
\* runs in any case, and finds the file empty if the query failed.
Query ==
  /\ make = "query" /\ make' = "build"
  /\ \/ RootMayLoad /\ available' = <<Tests>> /\ Works
     \/ ~ RootLoads /\ available' = <<{}>> /\ Works
     \/ RootLoads /\ available' = <<{}>> /\ Faults
  /\ UNCHANGED <<table, modules, disk, ciTests, built, at, outcome, makes, edits>>

\* bazel run builds rulegen from the table in the tree.
Build ==
  /\ make = "build" /\ RootMayLoad /\ Works
  /\ built' = table /\ at' = 1 /\ make' = "write"
  /\ UNCHANGED <<table, modules, disk, ciTests, available, outcome, makes, edits>>

BuildFails ==
  /\ make = "build"
  /\ (~ RootLoads /\ Works) \/ (RootLoads /\ Faults)
  /\ make' = "rm" /\ outcome' = "failed"
  /\ UNCHANGED <<table, modules, disk, ciTests, available, built, at, makes, edits>>

-----------------------------------------------------------------------------
(* rulegen. *)

Writing(p) == make = "write" /\ at <= Len(Files[built]) /\ p = Files[built][at]

\* The directories of examples are made and those of modules/ are not;
\* presubmit.yml needs the list of tests.
CanWrite(p) ==
  /\ p[1] = "modules" => p[2] \in modules
  /\ p = Presubmit => available # << >>

Write(p) ==
  /\ Writing(p) /\ CanWrite(p)
  /\ disk' = [disk EXCEPT ![p] = built]
  /\ ciTests' = IF p = Presubmit THEN available[1] ELSE ciTests
  /\ at' = at + 1
  /\ UNCHANGED <<table, modules, available, make, built, outcome, makes, edits, faults>>

\* Variant: an error is logged and the next file is written.
WriteFailsOn(p) ==
  /\ Writing(p)
  /\ (~ CanWrite(p) /\ Works) \/ (CanWrite(p) /\ Faults)
  /\ at' = at + 1
  /\ UNCHANGED <<table, modules, disk, ciTests, available, make, built, outcome, makes, edits>>

\* log.Fatalf: the file cannot be opened, or not be written to the end.
WriteFails(p) ==
  /\ Writing(p)
  /\ \/ ~ CanWrite(p) /\ Works /\ UNCHANGED disk
     \/ CanWrite(p) /\ Faults /\ disk' \in {disk, [disk EXCEPT ![p] = "partial"]}
  /\ make' = "rm" /\ outcome' = "failed"
  /\ UNCHANGED <<table, modules, ciTests, available, built, at, makes, edits>>

\* rulegen and make are killed, and available_tests.txt stays.
Killed(p) ==
  /\ Writing(p) /\ Faults
  /\ disk' \in {disk, [disk EXCEPT ![p] = IF CanWrite(p) THEN "partial" ELSE @]}
  /\ make' = "idle" /\ outcome' = "failed"
  /\ UNCHANGED <<table, modules, ciTests, available, built, at, makes, edits>>

Done ==
  /\ make = "write" /\ at > Len(Files[built])
  /\ make' = "rm" /\ outcome' = "success"
  /\ UNCHANGED <<table, modules, disk, ciTests, available, built, at, makes, edits, faults>>

\* The last command of the recipe: make succeeds whatever rulegen did.
RemoveTests ==
  /\ make = "rm" /\ make' = "idle"
  /\ available' = << >>
  /\ UNCHANGED <<table, modules, disk, ciTests, built, at, outcome, makes, edits, faults>>

Generate ==
  LET p == Files[built][at]
  IN at <= Len(Files[built]) /\ (Write(p) \/ WriteFails(p) \/ Killed(p))

Make == Query \/ Build \/ BuildFails \/ Generate \/ Done \/ RemoveTests

Next ==
  \/ \E v \in Versions : \E dirs \in {modules, modules \cup LangNames(v), LangNames(v)} : Edit(v, dirs)
  \/ Start
  \/ Make

Spec == Init /\ [][Next]_vars

\* The shell runs the recipe of a make that was started.
FairSpec == Spec /\ WF_vars(Make)

-----------------------------------------------------------------------------
(* Properties. *)

\* The state is well formed.
RulegenTypeOK ==
  /\ {table, built} \subseteq Versions
  /\ disk \in [Paths -> Versions \cup {"absent", "partial"}]
  /\ ciTests \subseteq Tests
  /\ available \in {<< >>, <<{}>>, <<Tests>>}
  /\ make \in {"idle", "query", "build", "write", "rm"} /\ outcome \in {"none", "success", "failed"}
  /\ at \in 1 .. Len(Files[built]) + 1
  /\ make \in {"build", "write"} => available # << >>

\* A rulegen that ends well has written every file of its table, whatever
\* earlier runs left half written and whatever was in the tree.
SuccessIsWhole ==
  outcome = "success" => built = table /\ \A p \in ToSet(Files[table]) : disk[p] = table

\* Whether the file of a rule loads in a workspace with the given modules.
RuleLoads(l, r, mods) ==
  LET f == RuleFile(l, r)
      rule == CHOOSE s \in RulesOf(LangOf(disk[f], l)) : s.name = r
  IN /\ Whole(f)
     /\ \A q \in rule.loads : RuleFile(l, q) \in Paths /\ Whole(RuleFile(l, q))
     /\ rule.labels \subseteq mods
     /\ \A d \in rule.defs :
          /\ d[1] \in mods /\ Whole(Defs(d[1]))
          /\ \E e \in LangOf(disk[Defs(d[1])], d[1]).extraDefs : e[1] = d[2]

\* Whether defs.bzl of a language loads there.
DefsLoad(l, mods) ==
  LET lang == LangOf(disk[Defs(l)], l)
  IN /\ Whole(Defs(l))
     /\ \A r \in RuleNames(lang) : RuleLoads(l, r, mods)
     /\ \A a \in lang.aliases : a[2] \in RuleNames(lang)
     /\ \A d \in lang.extraDefs : d[2] \in RuleNames(lang)

\* Whether the targets of an example are whole: their protos and their
\* dependencies are there, and the code that a library generates finds that
\* of the protos which its own protos import.
TargetsResolve(rule) ==
  \A t \in rule.example :
    LET deps == {u \in rule.example : u.name \in t.deps}
    IN /\ {u.name : u \in deps} = t.deps /\ t.protos \subseteq DOMAIN ExampleProtos
       /\ rule.name[3] = "library" =>
            \A p \in t.protos : ExampleProtos[p] \subseteq t.protos \cup UNION {u.protos : u \in deps}

\* What the table of a version has to be for the files that are written from it
\* to go together: names are unique, a rule is loaded from the file of another
\* that its language has, the modules that a language depends on are in the
\* table, and with them an example has all that its rules refer to.
TableCloses(v) ==
  \A lang \in Langs(v) :
    LET mods == {lang.name} \cup lang.dependsOn
    IN /\ \A other \in Langs(v) : other.name = lang.name => other = lang
       /\ \A r, s \in RulesOf(lang) : r.name = s.name => r = s
       /\ RequiredModules(lang.name) \subseteq mods /\ lang.dependsOn \subseteq LangNames(v)
       /\ \A r \in RulesOf(lang) : TargetsResolve(r) /\ r.loads \subseteq RuleNames(lang)
       /\ \A pair \in lang.aliases \cup lang.extraDefs : pair[2] \in RuleNames(lang)
       /\ \A m \in mods : \A r \in RulesOf(LangOf(v, m)) :
            /\ r.labels \subseteq mods
            /\ \A d \in r.defs : d[1] \in mods /\ \E e \in LangOf(v, d[1]).extraDefs : e[1] = d[2]

\* A language that has routeguide tests has a library for gRPC, which is tested
\* wherever the language is.
TestsHaveLibraries(v) ==
  \A t \in Tests : \A i \in {1, 2} : t[i] \in LangNames(v) =>
    \E r \in RulesOf(LangOf(v, t[i])) : r.name = <<t[i], "grpc", "library">> /\ r.skip = {}

ASSUME TablesAssumption == \A v \in Versions : TableCloses(v) /\ TestsHaveLibraries(v)

\* Whether the workspace of an example loads: it has the modules that it
\* needs and the rule that it uses, with targets that resolve.
ExampleLoads(l, r) ==
  LET mods  == ExampleModules(disk[Example(l, r, "MODULE.bazel")], l)
      rules == RulesOf(LangOf(disk[Example(l, r, "BUILD.bazel")], l))
  IN /\ \A f \in ExampleFiles(l, r) : Whole(f)
     /\ \E rule \in rules : rule.name = r /\ TargetsResolve(rule)
     /\ RequiredModules(l) \subseteq mods /\ mods \subseteq modules
     /\ \A m \in mods : DefsLoad(m, mods)
     /\ r \in RuleNames(LangOf(disk[Defs(l)], l))

\* After a rulegen that ends well, the tree hangs together: the root module
\* loads, CI makes only targets that there are, the workspace of every such
\* target loads, down to the files that the rules load from each other, and
\* is hidden from the root.  Files of rules that are gone do no harm.
ReferencesResolve ==
  outcome = "success" =>
    /\ RootLoads /\ Whole(Bazelignore) /\ Whole(Presubmit) /\ Whole(ExamplesMakefile)
    /\ \A p \in ciPlatforms : ExampleTasks[disk[Presubmit]][p] \subseteq MakeTargets(disk[ExamplesMakefile])
    /\ \A t \in MakeTargets(disk[ExamplesMakefile]) : ExampleLoads(t[1], t[2]) /\ t \in Ignored(disk[Bazelignore])

\* The attributes that are documented and have no effect: no script of buf
\* reads ignore_unstable_packages, and what a target of doc_template_compile
\* has for options is replaced by the path of the template or fails the target.
WithoutEffect ==
  {<<<<"buf", "proto_breaking", "test">>, "ignore_unstable_packages">>,
   <<<<"doc", "template", "compile">>, "options">>}

\* After a rulegen that ends well, each attribute that the documentation of a
\* rule lists is one that the rule heeds, but for the two that are named above:
\* the macros of libraries pass on only those that their templates name, and
\* drop the others without a word.
DocumentedAttrsWork ==
  outcome = "success" =>
    \A l \in LangNames(table) : \A documented \in RulesOf(LangOf(disk[Docs(l)], l)) :
      LET f == RuleFile(l, documented.name)
      IN \E rule \in RulesOf(LangOf(disk[f], l)) :
           /\ rule.name = documented.name
           /\ \A attr \in documented.attrs \ rule.heeds : <<documented.name, attr>> \in WithoutEffect

\* CI runs a routeguide test, of those that it knows, exactly on the
\* platforms on which it builds the gRPC libraries of both its languages:
\* the tests go by the platforms of languages, the examples by those of rules.
RouteguideWhereLibraries ==
  Whole(Presubmit) =>
    \A p \in ciPlatforms :
      LET run == MainTasks(disk[Presubmit], p)
      IN \A t \in ciTests : t \in run
        <=> \A i \in {1, 2} : <<t[i], <<t[i], "grpc", "library">>>> \in ExampleTasks[disk[Presubmit]][p]

\* The rules of the program's table, and tables that are made of them.
RulesOfTable == UNION {RulesOf(lang) : lang \in ToSet(languages)}
FromTable == \A v \in Versions : \A lang \in Langs(v) : RulesOf(lang) \subseteq RulesOfTable

\* What keeps a rulegen from ending well: the environment failed, the root
\* module does not load, or a language of the table has no directory.
Hindered == faults > 0 \/ ~ RootLoads \/ ~ (LangNames(table) \subseteq modules)

\* The last rulegen, if it failed, failed for such a reason, which is still there
\* until the table is changed or make is run again.
FailureExplained == outcome = "failed" => Hindered

\* And a make does not come to its end without a rulegen that ended well, unless
\* it was hindered.
WellUnlessHindered ==
  [][make # "idle" /\ make' = "idle" => outcome' = "success" \/ Hindered']_vars

\* A make that is started ends, with a rulegen that ended well unless the
\* environment failed, the root module could not be loaded, or a language
\* had no directory.
Finishes ==
  make = "query" ~>
    /\ make = "idle"
    /\ outcome = "success" \/ Hindered
=============================================================================
