---------------------------- MODULE RulegenProofs ----------------------------
(***************************************************************************)
(* Rulegen.tla: for every set of tables, a rulegen that ends well has      *)
(* written all of its own, whatever earlier runs left in the tree and      *)
(* whatever fails; and what the files of the tree refer to is in the tree. *)
(***************************************************************************)
EXTENDS Rulegen, SequenceFacts

-----------------------------------------------------------------------------
(* The list of the files *)

\* Lists that are written out.
LEMMA PairFacts ==
  ASSUME NEW a, NEW b
  PROVE  IsSeq(<<a, b>>) /\ ToSet(<<a, b>>) = {a, b}
<1>1. <<a, b>> \in Seq({a, b}) /\ Len(<<a, b>>) = 2
  OBVIOUS
<1>2. IsSeq(<<a, b>>) /\ ToSet(<<a, b>>) = {<<a, b>>[i] : i \in 1 .. 2}
  BY <1>1, SeqFacts
<1> QED
  BY <1>2

LEMMA TripleFacts ==
  ASSUME NEW a, NEW b, NEW c
  PROVE  IsSeq(<<a, b, c>>) /\ ToSet(<<a, b, c>>) = {a, b, c}
<1>1. <<a, b, c>> \in Seq({a, b, c}) /\ Len(<<a, b, c>>) = 3
  OBVIOUS
<1>2. IsSeq(<<a, b, c>>) /\ ToSet(<<a, b, c>>) = {<<a, b, c>>[i] : i \in 1 .. 3}
  BY <1>1, SeqFacts
<1> QED
  BY <1>2

LEMMA SixFacts ==
  ASSUME NEW a, NEW b, NEW c, NEW d, NEW e, NEW f
  PROVE  IsSeq(<<a, b, c, d, e, f>>) /\ ToSet(<<a, b, c, d, e, f>>) = {a, b, c, d, e, f}
<1>1. <<a, b, c, d, e, f>> \in Seq({a, b, c, d, e, f}) /\ Len(<<a, b, c, d, e, f>>) = 6
  OBVIOUS
<1>2. /\ IsSeq(<<a, b, c, d, e, f>>)
      /\ ToSet(<<a, b, c, d, e, f>>) = {<<a, b, c, d, e, f>>[i] : i \in 1 .. 6}
  BY <1>1, SeqFacts
<1> QED
  BY <1>2

\* A language has its documentation, its defs.bzl, and for each rule the file
\* of the rule and three of an example.
LEMMA LanguageFilesFacts ==
  ASSUME NEW lang, lang.rules \in Seq(ToSet(lang.rules))
  PROVE  /\ IsSeq(LanguageFiles(lang))
         /\ {Docs(lang.name), Defs(lang.name)} \subseteq ToSet(LanguageFiles(lang))
         /\ \A r \in RuleNames(lang) : /\ RuleFile(lang.name, r) \in ToSet(LanguageFiles(lang))
                                       /\ ExampleFiles(lang.name, r) \subseteq ToSet(LanguageFiles(lang))
         /\ \A p \in ToSet(LanguageFiles(lang)) : p[1] = "modules" => p[2] = lang.name
<1> DEFINE n == Len(lang.rules)
           Names == [i \in DOMAIN lang.rules |-> lang.rules[i].name]
           RuleFiles == [i \in DOMAIN Names |-> RuleFile(lang.name, Names[i])]
           ExamplesOf(i) == <<Example(lang.name, Names[i], "WORKSPACE"),
                              Example(lang.name, Names[i], "MODULE.bazel"),
                              Example(lang.name, Names[i], "BUILD.bazel")>>
           Examples == [i \in DOMAIN Names |-> ExamplesOf(i)]
<1>1. n \in Nat /\ DOMAIN lang.rules = 1 .. n
  BY SeqFacts
<1>2. DOMAIN Names = 1 .. n
  BY <1>1
<1>3. IsSeq(RuleFiles) /\ ToSet(RuleFiles) = {RuleFiles[i] : i \in 1 .. n}
  <2> HIDE DEF n, Names
  <2> QED
    BY <1>1, <1>2, FunctionFacts
<1>4. IsSeq(Examples) /\ ToSet(Examples) = {Examples[i] : i \in 1 .. n}
  <2> HIDE DEF n, Names, ExamplesOf
  <2> QED
    BY <1>1, <1>2, FunctionFacts
<1>5. ASSUME NEW i \in 1 .. n
      PROVE  IsSeq(Examples[i]) /\ ToSet(Examples[i]) = ExampleFiles(lang.name, Names[i])
  <2>1. Examples[i] = ExamplesOf(i)
    BY <1>2
  <2> HIDE DEF Examples, Names
  <2>2. /\ IsSeq(ExamplesOf(i))
        /\ ToSet(ExamplesOf(i)) = {Example(lang.name, Names[i], "WORKSPACE"),
                                   Example(lang.name, Names[i], "MODULE.bazel"),
                                   Example(lang.name, Names[i], "BUILD.bazel")}
    BY TripleFacts
  <2>3. ToSet(ExamplesOf(i)) = ExampleFiles(lang.name, Names[i])
    BY <2>2 DEF ExampleFiles
  <2> QED
    BY <2>1, <2>2, <2>3
<1>6. /\ IsSeq(FlattenSeq(Examples))
      /\ ToSet(FlattenSeq(Examples)) = UNION {ToSet(s) : s \in ToSet(Examples)}
  <2> HIDE DEF Examples
  <2>1. \A s \in ToSet(Examples) : IsSeq(s)
    BY <1>4, <1>5
  <2> QED
    BY <1>4, <2>1, FlattenFacts
<1> DEFINE Both == <<Docs(lang.name), Defs(lang.name)>>
<1>7. IsSeq(Both) /\ ToSet(Both) = {Docs(lang.name), Defs(lang.name)}
  BY PairFacts
<1>8. LanguageFiles(lang) = (Both \o RuleFiles) \o FlattenSeq(Examples)
  BY DEF LanguageFiles
<1>9. \A i \in 1 .. n : RuleFiles[i] = RuleFile(lang.name, Names[i])
  BY <1>2
<1>10. \A r \in RuleNames(lang) : \E i \in 1 .. n : r = Names[i]
  <2>1. \A r \in RuleNames(lang) : \E i \in 1 .. n : r = lang.rules[i].name
    BY <1>1, SeqFacts DEF RuleNames, RulesOf
  <2> QED
    BY <1>1, <2>1
<1> HIDE DEF RuleFiles, Examples, Names, Both
<1>11. IsSeq(Both \o RuleFiles) /\ ToSet(Both \o RuleFiles) = ToSet(Both) \cup ToSet(RuleFiles)
  BY <1>3, <1>7, ConcatFacts
<1>12. /\ IsSeq(LanguageFiles(lang))
       /\ ToSet(LanguageFiles(lang)) = ToSet(Both) \cup ToSet(RuleFiles) \cup ToSet(FlattenSeq(Examples))
  BY <1>6, <1>8, <1>11, ConcatFacts
<1>13. ASSUME NEW r \in RuleNames(lang)
       PROVE  RuleFile(lang.name, r) \in ToSet(RuleFiles)
              /\ ExampleFiles(lang.name, r) \subseteq ToSet(FlattenSeq(Examples))
  <2>1. PICK i \in 1 .. n : r = Names[i]
    BY <1>10
  <2>2. Examples[i] \in ToSet(Examples) /\ ToSet(Examples[i]) = ExampleFiles(lang.name, r)
    BY <1>4, <1>5, <2>1
  <2> QED
    BY <1>3, <1>6, <1>9, <2>1, <2>2
<1>14. ASSUME NEW p \in ToSet(LanguageFiles(lang)), p[1] = "modules"
       PROVE  p[2] = lang.name
  <2>1. CASE p \in ToSet(Both)
    BY <1>7, <1>14, <2>1 DEF Docs, Defs
  <2>2. CASE p \in ToSet(RuleFiles)
    <3>1. PICK i \in 1 .. n : p = RuleFile(lang.name, Names[i])
      BY <1>3, <1>9, <2>2
    <3> QED
      BY <3>1 DEF RuleFile
  <2>3. CASE p \in ToSet(FlattenSeq(Examples))
    <3>1. PICK i \in 1 .. n : p \in ExampleFiles(lang.name, Names[i])
      BY <1>4, <1>5, <1>6, <2>3
    <3>2. p[1] = "examples"
      BY <3>1 DEF ExampleFiles, Example
    <3> QED
      BY <1>14, <3>2
  <2> QED
    BY <1>12, <2>1, <2>2, <2>3
<1> QED
  BY <1>7, <1>12, <1>13, <1>14

LEMMA FilesFacts ==
  ASSUME NEW v \in Versions
  PROVE  /\ Len(Files[v]) \in Nat
         /\ ToSet(Files[v]) = {Files[v][i] : i \in 1 .. Len(Files[v])}
         /\ \A i \in 1 .. Len(Files[v]) : Files[v][i] \in Paths
         /\ \A lang \in Langs(v) : ToSet(LanguageFiles(lang)) \subseteq ToSet(Files[v])
         /\ {ModuleBazel, Bazelignore, Presubmit, ExamplesMakefile} \subseteq ToSet(Files[v])
         /\ \A p \in ToSet(Files[v]) : p[1] = "modules" => p[2] \in LangNames(v)
<1> DEFINE n == Len(Tables[v])
           Listed == [i \in DOMAIN Tables[v] |-> LanguageFiles(Tables[v][i])]
           Others == <<ModuleBazel, Bazelignore, Readme, Presubmit, ExamplesMakefile, WorkspacesMakefile>>
<1>1. /\ n \in Nat /\ DOMAIN Tables[v] = 1 .. n
      /\ ToSet(Tables[v]) = {Tables[v][i] : i \in 1 .. n}
  BY RulegenAssumption, SeqFacts
<1>2. IsSeq(Listed) /\ ToSet(Listed) = {Listed[i] : i \in 1 .. n}
  <2> HIDE DEF n
  <2> QED
    BY <1>1, FunctionFacts
<1>3. \A s \in ToSet(Listed) : IsSeq(s)
  <2> SUFFICES ASSUME NEW i \in 1 .. n PROVE IsSeq(Listed[i])
    BY <1>2
  <2>1. Tables[v][i] \in ToSet(Tables[v])
    BY <1>1
  <2>2. IsSeq(LanguageFiles(Tables[v][i]))
    BY <2>1, RulegenAssumption, LanguageFilesFacts
  <2> QED
    BY <1>1, <2>2
<1>4. /\ IsSeq(FlattenSeq(Listed))
      /\ ToSet(FlattenSeq(Listed)) = UNION {ToSet(s) : s \in ToSet(Listed)}
  BY <1>2, <1>3, FlattenFacts
<1>5. /\ IsSeq(Others)
      /\ ToSet(Others) = {ModuleBazel, Bazelignore, Readme, Presubmit, ExamplesMakefile, WorkspacesMakefile}
  BY SixFacts
<1>6. Files[v] = FlattenSeq(Listed) \o Others
  BY DEF Files
<1>7. \A lang \in Langs(v) : LanguageFiles(lang) \in ToSet(Listed)
  <2>1. \A i \in 1 .. n : Listed[i] = LanguageFiles(Tables[v][i])
    BY <1>1
  <2> QED
    BY <1>1, <1>2, <2>1 DEF Langs
<1> HIDE DEF Listed, Others
<1>8. IsSeq(Files[v]) /\ ToSet(Files[v]) = ToSet(FlattenSeq(Listed)) \cup ToSet(Others)
  BY <1>4, <1>5, <1>6, ConcatFacts
<1>9. Len(Files[v]) \in Nat /\ ToSet(Files[v]) = {Files[v][i] : i \in 1 .. Len(Files[v])}
  BY <1>8, SeqFacts DEF IsSeq
<1>10. \A lang \in Langs(v) : ToSet(LanguageFiles(lang)) \subseteq ToSet(Files[v])
  BY <1>4, <1>7, <1>8
<1>11. {ModuleBazel, Bazelignore, Presubmit, ExamplesMakefile} \subseteq ToSet(Files[v])
  BY <1>5, <1>8
<1>12. ASSUME NEW p \in ToSet(Files[v]), p[1] = "modules"
       PROVE  p[2] \in LangNames(v)
  <2>1. p \notin ToSet(Others)
    BY <1>5, <1>12 DEF ModuleBazel, Bazelignore, Readme, Presubmit, ExamplesMakefile, WorkspacesMakefile
  <2>2. PICK i \in 1 .. n : p \in ToSet(Listed[i])
    BY <1>2, <1>4, <1>8, <2>1
  <2>3. Listed[i] = LanguageFiles(Tables[v][i]) /\ Tables[v][i] \in Langs(v)
    BY <1>1 DEF Langs, Listed
  <2>4. Tables[v][i].rules \in Seq(ToSet(Tables[v][i].rules))
    BY <2>3, RulegenAssumption DEF Langs
  <2> QED
    BY <1>12, <2>2, <2>3, <2>4, LanguageFilesFacts DEF LangNames
<1> QED
  BY <1>9, <1>10, <1>11, <1>12 DEF Paths

-----------------------------------------------------------------------------
(* The invariant *)

\* What make has come to know of its rulegen.
MakeInv ==
  /\ make \in {"query", "build", "write"} => outcome = "none"
  /\ make = "write" => built = table
  /\ outcome = "success" => make \in {"rm", "idle"}

\* The files before the next one are those of the table, in spite of the
\* files that are listed again.
WrittenInv == make = "write" => \A i \in 1 .. Len(Files[built]) : i < at => disk[Files[built][i]] = built

\* The directories of the modules that it has written to are there, and stay
\* while it runs.
HousedInv ==
  /\ make = "write" => \A i \in 1 .. Len(Files[built]) :
       i < at /\ Files[built][i][1] = "modules" => Files[built][i][2] \in modules
  /\ outcome = "success" => LangNames(table) \subseteq modules

IInv == RulegenTypeOK /\ MakeInv /\ WrittenInv /\ HousedInv /\ SuccessIsWhole

LEMMA InitInv == Init => IInv
<1> SUFFICES ASSUME Init PROVE IInv
  OBVIOUS
<1> USE DEF Init
<1>1. table \in Versions
  BY RulegenAssumption
<1>2. disk \in [Paths -> Versions \cup {"absent", "partial"}]
  BY <1>1
<1>3. at \in 1 .. Len(Files[built]) + 1
  BY <1>1, FilesFacts
<1> QED
  BY <1>1, <1>2, <1>3 DEF IInv, RulegenTypeOK, MakeInv, WrittenInv, HousedInv, SuccessIsWhole

LEMMA EditInv ==
  ASSUME IInv, NEW v \in Versions, NEW dirs, Edit(v, dirs)
  PROVE  IInv'
<1> USE DEF Edit
<1>1. disk' \in [Paths -> Versions \cup {"absent", "partial"}]
  BY DEF IInv, RulegenTypeOK
<1>2. RulegenTypeOK'
  BY <1>1 DEF IInv, RulegenTypeOK
<1>3. WrittenInv' /\ HousedInv' /\ MakeInv'
  BY DEF MakeInv, WrittenInv, HousedInv
<1>4. SuccessIsWhole'
  BY DEF SuccessIsWhole
<1> HIDE DEF Edit
<1> QED
  BY <1>2, <1>3, <1>4 DEF IInv

\* The steps that write nothing: starting, the query, the build and the end.
LEMMA RecipeInv ==
  ASSUME IInv, Start \/ Query \/ Build \/ BuildFails \/ RemoveTests
  PROVE  IInv'
<1>1. CASE Start
  BY <1>1 DEF Start, IInv, RulegenTypeOK, MakeInv, WrittenInv, HousedInv, SuccessIsWhole
<1>2. CASE Query
  <2>1. available' \in {<<{}>>, <<Tests>>} /\ make' = "build" /\ outcome = "none"
    BY <1>2 DEF Query, IInv, MakeInv
  <2>2. available' # << >>
    BY <2>1
  <2>3. RulegenTypeOK'
    BY <1>2, <2>1, <2>2 DEF Query, IInv, RulegenTypeOK
  <2>4. MakeInv' /\ WrittenInv' /\ HousedInv' /\ SuccessIsWhole'
    BY <1>2, <2>1 DEF Query, MakeInv, WrittenInv, HousedInv, SuccessIsWhole
  <2> QED
    BY <2>3, <2>4 DEF IInv
<1>3. CASE Build
  <2>1. Len(Files[table]) \in Nat
    BY FilesFacts DEF IInv, RulegenTypeOK
  <2>2. RulegenTypeOK'
    BY <1>3, <2>1 DEF Build, IInv, RulegenTypeOK
  <2>3. WrittenInv' /\ HousedInv'
    BY <1>3, <2>1 DEF Build, IInv, MakeInv, WrittenInv, HousedInv
  <2> QED
    BY <1>3, <2>2, <2>3 DEF Build, IInv, MakeInv, SuccessIsWhole
<1>4. CASE BuildFails
  BY <1>4 DEF BuildFails, IInv, RulegenTypeOK, MakeInv, WrittenInv, HousedInv, SuccessIsWhole
<1>5. CASE RemoveTests
  BY <1>5 DEF RemoveTests, IInv, RulegenTypeOK, MakeInv, WrittenInv, HousedInv, SuccessIsWhole
<1> QED
  BY <1>1, <1>2, <1>3, <1>4, <1>5

\* A file that is written is the next one, and those before it stay.
LEMMA WriteInv ==
  ASSUME IInv, NEW p, Write(p)
  PROVE  IInv'
<1> USE DEF Write, Writing
<1> DEFINE n == Len(Files[built])
<1>1. built \in Versions /\ n \in Nat /\ at \in 1 .. n /\ p = Files[built][at]
  BY FilesFacts DEF IInv, RulegenTypeOK
<1>2. \A i \in 1 .. n : Files[built][i] \in Paths
  BY <1>1, FilesFacts
<1>3. disk \in [Paths -> Versions \cup {"absent", "partial"}]
  BY DEF IInv, RulegenTypeOK
<1>4. \A q \in Paths : disk'[q] = IF q = p THEN built ELSE disk[q]
  BY <1>3
<1>5. disk' \in [Paths -> Versions \cup {"absent", "partial"}]
  BY <1>1, <1>3
<1>6. at' \in 1 .. n + 1
  BY <1>1
<1>7. ciTests' \subseteq Tests
  BY DEF CanWrite, IInv, RulegenTypeOK
<1>8. RulegenTypeOK'
  BY <1>5, <1>6, <1>7 DEF IInv, RulegenTypeOK
<1>9. WrittenInv'
  <2> SUFFICES ASSUME NEW i \in 1 .. n, i < at + 1
               PROVE  disk'[Files[built][i]] = built
    BY DEF WrittenInv
  <2>1. i < at \/ i = at
    BY <1>1
  <2>2. CASE i = at
    BY <1>1, <1>2, <1>4, <2>2
  <2>3. CASE i < at
    <3>1. disk[Files[built][i]] = built
      BY <2>3 DEF IInv, WrittenInv
    <3> QED
      BY <1>2, <1>4, <3>1
  <2> QED
    BY <2>1, <2>2, <2>3
<1>10. HousedInv'
  <2>1. ASSUME NEW i \in 1 .. n, i < at + 1, Files[built][i][1] = "modules"
        PROVE  Files[built][i][2] \in modules
    <3>1. i < at \/ i = at
      BY <1>1, <2>1
    <3>2. CASE i = at
      BY <1>1, <2>1, <3>2 DEF CanWrite
    <3>3. CASE i < at
      BY <2>1, <3>3 DEF IInv, HousedInv
    <3> QED
      BY <3>1, <3>2, <3>3
  <2> QED
    BY <2>1 DEF IInv, HousedInv
<1> QED
  BY <1>8, <1>9, <1>10 DEF IInv, MakeInv, SuccessIsWhole

\* A failure ends the run, with a file that may be cut short.
LEMMA StopInv ==
  ASSUME IInv, NEW p, WriteFails(p) \/ Killed(p)
  PROVE  IInv'
<1>1. disk' \in [Paths -> Versions \cup {"absent", "partial"}]
  BY DEF WriteFails, Killed, IInv, RulegenTypeOK
<1>2. RulegenTypeOK'
  BY <1>1 DEF WriteFails, Killed, IInv, RulegenTypeOK
<1> QED
  BY <1>2 DEF WriteFails, Killed, IInv, MakeInv, WrittenInv, HousedInv, SuccessIsWhole

\* The last file of the list is written, so that all are.
LEMMA DoneInv ==
  ASSUME IInv, Done
  PROVE  IInv'
<1> USE DEF Done
<1>1. /\ built = table /\ built \in Versions
      /\ \A i \in 1 .. Len(Files[built]) : i < at => disk[Files[built][i]] = built
  BY DEF IInv, MakeInv, WrittenInv, RulegenTypeOK
<1>2. /\ Len(Files[table]) \in Nat /\ at > Len(Files[table])
      /\ ToSet(Files[table]) = {Files[table][i] : i \in 1 .. Len(Files[table])}
      /\ \A lang \in Langs(table) : ToSet(LanguageFiles(lang)) \subseteq ToSet(Files[table])
  BY <1>1, FilesFacts
<1>3. \A i \in 1 .. Len(Files[table]) : i < at
  BY <1>2 DEF IInv, RulegenTypeOK
<1>4. \A p \in ToSet(Files[table]) : disk[p] = table
  BY <1>1, <1>2, <1>3
<1>5. LangNames(table) \subseteq modules
  <2> SUFFICES ASSUME NEW lang \in Langs(table) PROVE lang.name \in modules
    BY DEF LangNames
  <2>1. Defs(lang.name) \in ToSet(LanguageFiles(lang))
    <3>1. lang.rules \in Seq(ToSet(lang.rules))
      BY <1>1, RulegenAssumption DEF Langs
    <3> QED
      BY <3>1, LanguageFilesFacts
  <2>2. PICK i \in 1 .. Len(Files[table]) : Files[table][i] = Defs(lang.name)
    BY <1>2, <2>1
  <2>3. Defs(lang.name)[1] = "modules" /\ Defs(lang.name)[2] = lang.name
    BY DEF Defs
  <2> QED
    BY <1>1, <1>3, <2>2, <2>3 DEF IInv, HousedInv
<1>6. SuccessIsWhole' /\ HousedInv'
  <2>1. LangNames(table)' = LangNames(table)
    BY DEF LangNames, Langs
  <2> QED
    BY <1>1, <1>4, <1>5, <2>1 DEF SuccessIsWhole, HousedInv
<1> QED
  BY <1>6 DEF IInv, RulegenTypeOK, MakeInv, WrittenInv

LEMMA NextInv == IInv /\ [Next]_vars => IInv'
<1> SUFFICES ASSUME IInv, [Next]_vars PROVE IInv'
  OBVIOUS
<1>1. CASE \E v \in Versions : \E dirs \in {modules, modules \cup LangNames(v), LangNames(v)} : Edit(v, dirs)
  BY <1>1, EditInv
<1>2. CASE Start \/ Query \/ Build \/ BuildFails \/ RemoveTests
  BY <1>2, RecipeInv
<1>3. CASE Generate
  BY <1>3, WriteInv, StopInv DEF Generate
<1>4. CASE Done
  BY <1>4, DoneInv
<1>5. CASE UNCHANGED vars
  BY <1>5 DEF vars, IInv, RulegenTypeOK, MakeInv, WrittenInv, HousedInv, SuccessIsWhole
<1> QED
  BY <1>1, <1>2, <1>3, <1>4, <1>5 DEF Next, Make

\* How far make is and what of its table is written, at every moment.
THEOREM Invariance == Spec => []IInv
  BY InitInv, NextInv, PTL DEF Spec

-----------------------------------------------------------------------------
(* The properties *)

\* The state is well formed.
THEOREM TypeCorrect == Spec => []RulegenTypeOK
<1>1. IInv => RulegenTypeOK
  BY DEF IInv
<1> QED
  BY <1>1, Invariance, PTL

\* A rulegen that ends well has written every file of its table, whatever the
\* tables are, however often it was stopped before and whatever was cut short.
THEOREM WholeIfSuccess == Spec => []SuccessIsWhole
<1>1. IInv => SuccessIsWhole
  BY DEF IInv
<1> QED
  BY <1>1, Invariance, PTL

-----------------------------------------------------------------------------
(* The properties of the tree *)

\* A name stands for one language of a table, and for one rule of a language.
LEMMA NamesFit ==
  ASSUME NEW v \in Versions
  PROVE  /\ \A lang \in Langs(v) : LangOf(v, lang.name) = lang
         /\ \A l \in LangNames(v) : LangOf(v, l) \in Langs(v) /\ LangOf(v, l).name = l
         /\ \A lang \in Langs(v) : \A r \in RulesOf(lang) :
              (CHOOSE s \in RulesOf(lang) : s.name = r.name) = r
<1> USE TablesAssumption DEF TableCloses
<1>1. ASSUME NEW lang \in Langs(v)
      PROVE  LangOf(v, lang.name) = lang
  <2>1. \A other \in Langs(v) : other.name = lang.name => other = lang
    OBVIOUS
  <2> QED
    BY <2>1 DEF LangOf
<1>2. ASSUME NEW l \in LangNames(v)
      PROVE  LangOf(v, l) \in Langs(v) /\ LangOf(v, l).name = l
  <2>1. PICK lang \in Langs(v) : lang.name = l
    BY DEF LangNames
  <2> QED
    BY <1>1, <2>1
<1>3. ASSUME NEW lang \in Langs(v), NEW r \in RulesOf(lang)
      PROVE  (CHOOSE s \in RulesOf(lang) : s.name = r.name) = r
  <2>1. \A s \in RulesOf(lang) : s.name = r.name => s = r
    OBVIOUS
  <2> QED
    BY <2>1
<1> QED
  BY <1>1, <1>2, <1>3

\* The files of a language and of its rules are among those of its table.
LEMMA LanguageListed ==
  ASSUME NEW v \in Versions, NEW lang \in Langs(v)
  PROVE  /\ {Docs(lang.name), Defs(lang.name)} \subseteq ToSet(Files[v])
         /\ \A r \in RuleNames(lang) : /\ RuleFile(lang.name, r) \in ToSet(Files[v])
                                       /\ ExampleFiles(lang.name, r) \subseteq ToSet(Files[v])
<1>1. lang.rules \in Seq(ToSet(lang.rules))
  BY RulegenAssumption DEF Langs
<1> QED
  BY <1>1, LanguageFilesFacts, FilesFacts

\* All the files of a table, as written from it.
Written(v) == \A p \in ToSet(Files[v]) : disk[p] = v

\* The modules of the example of a language.
ModulesFor(lang) == {lang.name} \cup lang.dependsOn

\* They are in the table.
LEMMA ModulesListed ==
  ASSUME NEW v \in Versions, NEW base \in Langs(v)
  PROVE  /\ ModulesFor(base) \subseteq LangNames(v)
         /\ \A m \in ModulesFor(base) : LangOf(v, m) \in Langs(v) /\ LangOf(v, m).name = m
<1>1. base.dependsOn \subseteq LangNames(v) /\ base.name \in LangNames(v)
  BY TablesAssumption DEF TableCloses, LangNames
<1> QED
  BY <1>1, NamesFit DEF ModulesFor

\* The file of a rule loads in the workspace of each example that overrides its
\* module.
LEMMA RuleFileLoads ==
  ASSUME NEW v \in Versions, Written(v), NEW base \in Langs(v),
         NEW m \in ModulesFor(base), NEW r \in RuleNames(LangOf(v, m))
  PROVE  RuleLoads(m, r, ModulesFor(base))
<1> DEFINE lang == LangOf(v, m)
<1>1. lang \in Langs(v) /\ lang.name = m
  BY ModulesListed
<1>2. PICK rule \in RulesOf(lang) : rule.name = r
  BY DEF RuleNames
<1>3. disk[RuleFile(m, r)] = v
  BY <1>1, LanguageListed DEF Written
<1>4. (CHOOSE s \in RulesOf(LangOf(disk[RuleFile(m, r)], m)) : s.name = r) = rule
  BY <1>1, <1>2, <1>3, NamesFit
<1>5. /\ rule.labels \subseteq ModulesFor(base)
      /\ \A d \in rule.defs :
           d[1] \in ModulesFor(base) /\ \E e \in LangOf(v, d[1]).extraDefs : e[1] = d[2]
  BY <1>2, TablesAssumption DEF TableCloses, ModulesFor
<1>6. rule.loads \subseteq RuleNames(lang)
  BY <1>1, <1>2, TablesAssumption DEF TableCloses
<1>7. ASSUME NEW q \in rule.loads
      PROVE  RuleFile(m, q) \in Paths /\ Whole(RuleFile(m, q))
  <2>1. RuleFile(m, q) \in ToSet(Files[v])
    BY <1>1, <1>6, LanguageListed
  <2> QED
    BY <2>1 DEF Paths, Written, Whole
<1>8. ASSUME NEW d \in rule.defs
      PROVE  /\ d[1] \in ModulesFor(base) /\ Whole(Defs(d[1]))
             /\ \E e \in LangOf(disk[Defs(d[1])], d[1]).extraDefs : e[1] = d[2]
  <2>1. d[1] \in ModulesFor(base)
    BY <1>5
  <2>2. LangOf(v, d[1]) \in Langs(v) /\ LangOf(v, d[1]).name = d[1]
    BY <2>1, ModulesListed
  <2>3. disk[Defs(d[1])] = v
    BY <2>2, LanguageListed DEF Written
  <2> QED
    BY <1>5, <2>1, <2>3 DEF Whole
<1> HIDE DEF lang
<1> QED
  BY <1>3, <1>4, <1>5, <1>7, <1>8 DEF RuleLoads, Whole

\* So do the definitions of each module.
LEMMA DefsFileLoads ==
  ASSUME NEW v \in Versions, Written(v), NEW base \in Langs(v), NEW m \in ModulesFor(base)
  PROVE  DefsLoad(m, ModulesFor(base))
<1> DEFINE lang == LangOf(v, m)
<1>1. lang \in Langs(v) /\ lang.name = m
  BY ModulesListed
<1>2. disk[Defs(m)] = v
  BY <1>1, LanguageListed DEF Written
<1>3. \A pair \in lang.aliases \cup lang.extraDefs : pair[2] \in RuleNames(lang)
  BY <1>1, TablesAssumption DEF TableCloses
<1>4. \A r \in RuleNames(lang) : RuleLoads(m, r, ModulesFor(base))
  BY RuleFileLoads
<1> QED
  BY <1>2, <1>3, <1>4 DEF DefsLoad, Whole

\* And the workspace of an example.
LEMMA WorkspaceLoads ==
  ASSUME NEW v \in Versions, Written(v), LangNames(v) \subseteq modules,
         NEW lang \in Langs(v), NEW r \in RuleNames(lang)
  PROVE  ExampleLoads(lang.name, r)
<1>1. LangOf(v, lang.name) = lang
  BY NamesFit
<1>2. \A f \in ExampleFiles(lang.name, r) : disk[f] = v
  BY LanguageListed DEF Written
<1>3. /\ disk[Example(lang.name, r, "MODULE.bazel")] = v
      /\ disk[Example(lang.name, r, "BUILD.bazel")] = v
  BY <1>2 DEF ExampleFiles
<1>4. disk[Defs(lang.name)] = v
  BY LanguageListed DEF Written
<1>5. ExampleModules(v, lang.name) = ModulesFor(lang)
  BY <1>1 DEF ExampleModules, ModulesFor
<1>6. PICK rule \in RulesOf(lang) : rule.name = r
  BY DEF RuleNames
<1>7. TargetsResolve(rule) /\ RequiredModules(lang.name) \subseteq ModulesFor(lang)
  BY <1>6, TablesAssumption DEF TableCloses, ModulesFor
<1>8. ModulesFor(lang) \subseteq modules
  BY ModulesListed
<1>9. \A m \in ModulesFor(lang) : DefsLoad(m, ModulesFor(lang))
  BY DefsFileLoads
<1>10. \A f \in ExampleFiles(lang.name, r) : Whole(f)
  BY <1>2 DEF Whole
<1> QED
  BY <1>1, <1>3, <1>4, <1>5, <1>6, <1>7, <1>8, <1>9, <1>10 DEF ExampleLoads

\* What CI makes on a platform.
LEMMA TasksOf ==
  ASSUME NEW v \in Versions, NEW p \in ciPlatforms, NEW task
  PROVE  task \in ExampleTasks[v][p]
           <=> \E lang \in Langs(v) : \E s \in RulesOf(lang) :
                 doTestOnPlatform(lang, s.skip, p) /\ task = <<lang.name, s.name>>
<1> DEFINE TasksWith(lang, q) == {<<lang.name, s.name>> : s \in {t \in RulesOf(lang) : doTestOnPlatform(lang, t.skip, q)}}
           TasksIn(w, q) == UNION {TasksWith(lang, q) : lang \in Langs(w)}
<1>1. ExampleTasks = [w \in Versions |-> [q \in ciPlatforms |-> TasksIn(w, q)]]
  BY DEF ExampleTasks
<1>2. \A lang : task \in TasksWith(lang, p)
             <=> \E s \in RulesOf(lang) : doTestOnPlatform(lang, s.skip, p) /\ task = <<lang.name, s.name>>
  OBVIOUS
<1>3. task \in TasksIn(v, p) <=> \E lang \in Langs(v) : task \in TasksWith(lang, p)
  <2> HIDE DEF TasksWith
  <2> QED
    OBVIOUS
<1>4. ExampleTasks[v][p] = TasksIn(v, p)
  <2> HIDE DEF TasksIn
  <2> QED
    BY <1>1
<1> HIDE DEF TasksIn, TasksWith
<1> QED
  BY <1>2, <1>3, <1>4

\* After a rulegen that ends well, and until the table is changed or another
\* one begins, the tree hangs together, for every set of tables whose entries
\* refer only to each other.
THEOREM TreeResolves == Spec => []ReferencesResolve
<1>1. IInv => ReferencesResolve
  <2> SUFFICES ASSUME IInv, outcome = "success"
               PROVE  /\ RootLoads /\ Whole(Bazelignore) /\ Whole(Presubmit) /\ Whole(ExamplesMakefile)
                      /\ \A p \in ciPlatforms :
                           ExampleTasks[disk[Presubmit]][p] \subseteq MakeTargets(disk[ExamplesMakefile])
                      /\ \A t \in MakeTargets(disk[ExamplesMakefile]) :
                           ExampleLoads(t[1], t[2]) /\ t \in Ignored(disk[Bazelignore])
    BY DEF ReferencesResolve
  <2>1. table \in Versions /\ Written(table) /\ LangNames(table) \subseteq modules
    BY DEF IInv, RulegenTypeOK, SuccessIsWhole, HousedInv, Written
  <2>2. /\ disk[ModuleBazel] = table /\ disk[Bazelignore] = table
        /\ disk[Presubmit] = table /\ disk[ExamplesMakefile] = table
    BY <2>1, FilesFacts DEF Written
  <2>3. RootLoads /\ Whole(Bazelignore) /\ Whole(Presubmit) /\ Whole(ExamplesMakefile)
    BY <2>1, <2>2 DEF RootLoads, Whole
  <2>4. \A p \in ciPlatforms : ExampleTasks[table][p] \subseteq MakeTargets(table)
    <3> SUFFICES ASSUME NEW p \in ciPlatforms, NEW task \in ExampleTasks[table][p]
                 PROVE  task \in MakeTargets(table)
      OBVIOUS
    <3>0. PICK lang \in Langs(table) : \E s \in RulesOf(lang) : task = <<lang.name, s.name>>
      BY <2>1, TasksOf
    <3>1. PICK s \in RulesOf(lang) : task = <<lang.name, s.name>>
      BY <3>0
    <3>2. s.name \in RuleNames(lang)
      BY DEF RuleNames
    <3> QED
      BY <3>1, <3>2 DEF MakeTargets
  <2>5. ASSUME NEW t \in MakeTargets(table)
        PROVE  ExampleLoads(t[1], t[2]) /\ t \in Ignored(table)
    <3>1. PICK lang \in Langs(table) : \E r \in RuleNames(lang) : t = <<lang.name, r>>
      BY DEF MakeTargets
    <3>2. PICK r \in RuleNames(lang) : t = <<lang.name, r>>
      BY <3>1
    <3>3. t[1] = lang.name /\ t[2] = r
      BY <3>2
    <3> QED
      BY <2>1, <3>3, WorkspaceLoads DEF Ignored
  <2> QED
    BY <2>2, <2>3, <2>4, <2>5
<1> QED
  BY <1>1, Invariance, PTL

\* CI runs the routeguide tests that it knows exactly where it builds both gRPC
\* libraries, whichever version presubmit.yml was written from and whichever
\* tests the query gave it.
THEOREM TestsWhereLibraries == Spec => []RouteguideWhereLibraries
<1>1. IInv => RouteguideWhereLibraries
  <2> SUFFICES ASSUME IInv, Whole(Presubmit), NEW p \in ciPlatforms, NEW t \in ciTests
               PROVE  t \in MainTasks(disk[Presubmit], p) <=>
                        \A i \in {1, 2} :
                          <<t[i], <<t[i], "grpc", "library">>>> \in ExampleTasks[disk[Presubmit]][p]
    BY DEF RouteguideWhereLibraries
  <2> DEFINE v == disk[Presubmit]
             Runs(i) == t[i] \in LangNames(v) /\ doTestOnPlatform(LangOf(v, t[i]), {}, p)
             BuildsFor(i) == <<t[i], <<t[i], "grpc", "library">>>>
  <2>1. v \in Versions /\ t \in Tests
    BY DEF Whole, IInv, RulegenTypeOK
  <2>2. ASSUME NEW i \in {1, 2}, Runs(i)
        PROVE  BuildsFor(i) \in ExampleTasks[v][p]
    <3>1. LangOf(v, t[i]) \in Langs(v) /\ LangOf(v, t[i]).name = t[i]
      BY <2>1, <2>2, NamesFit
    <3>2. PICK r \in RulesOf(LangOf(v, t[i])) : r.name = <<t[i], "grpc", "library">> /\ r.skip = {}
      BY <2>1, <2>2, TablesAssumption DEF TestsHaveLibraries
    <3>3. doTestOnPlatform(LangOf(v, t[i]), r.skip, p)
      BY <2>2, <3>2
    <3>4. BuildsFor(i) = <<LangOf(v, t[i]).name, r.name>>
      BY <3>1, <3>2
    <3> HIDE DEF v, BuildsFor
    <3> QED
      BY <2>1, <3>1, <3>3, <3>4, TasksOf
  <2>3. ASSUME NEW i \in {1, 2}, BuildsFor(i) \in ExampleTasks[v][p]
        PROVE  Runs(i)
    <3>1. PICK lang \in Langs(v) :
            \E s \in RulesOf(lang) : /\ doTestOnPlatform(lang, s.skip, p)
                                     /\ BuildsFor(i) = <<lang.name, s.name>>
      <4> HIDE DEF v, BuildsFor
      <4> QED
        BY <2>1, <2>3, TasksOf
    <3>2. PICK s \in RulesOf(lang) : doTestOnPlatform(lang, s.skip, p) /\ BuildsFor(i) = <<lang.name, s.name>>
      BY <3>1
    <3>3. lang.name = t[i] /\ s.name = <<t[i], "grpc", "library">>
      BY <3>2
    <3>4. t[i] \in LangNames(v) /\ LangOf(v, t[i]) = lang
      BY <2>1, <3>3, NamesFit DEF LangNames
    <3>5. PICK r \in RulesOf(lang) : r.name = <<t[i], "grpc", "library">> /\ r.skip = {}
      BY <2>1, <3>4, TablesAssumption DEF TestsHaveLibraries
    <3>6. r = s
      BY <2>1, <3>3, <3>5, TablesAssumption DEF TableCloses
    <3> QED
      BY <3>2, <3>4, <3>5, <3>6
  <2>4. t \in MainTasks(v, p) <=> \A i \in {1, 2} : Runs(i)
    BY DEF MainTasks
  <2> HIDE DEF v, Runs, BuildsFor
  <2>5. t \in MainTasks(v, p) <=> \A i \in {1, 2} : BuildsFor(i) \in ExampleTasks[v][p]
    BY <2>2, <2>3, <2>4
  <2> QED
    BY <2>5 DEF v, BuildsFor
<1> QED
  BY <1>1, Invariance, PTL

-----------------------------------------------------------------------------
(* How a make ends *)

\* What the end of make finds: rulegen has ended, and a failure is explained.
EndInv ==
  /\ faults \in Nat
  /\ make = "rm" => outcome # "none"
  /\ FailureExplained

LEMMA InitEnd == Init => EndInv
  BY DEF Init, EndInv, FailureExplained

LEMMA NextEnd ==
  ASSUME IInv, EndInv, [Next]_vars
  PROVE  EndInv'
<1> USE DEF EndInv, FailureExplained
<1>0. faults' \in Nat
  BY DEF Next, Make, Generate, Edit, Start, Query, Build, BuildFails, Write, WriteFails, Killed, Done,
         RemoveTests, Works, Faults, vars
<1>1. CASE \E v \in Versions : \E dirs \in {modules, modules \cup LangNames(v), LangNames(v)} : Edit(v, dirs)
  BY <1>0, <1>1 DEF Edit
<1>2. CASE Start \/ Query \/ Build
  BY <1>0, <1>2 DEF Start, Query, Build, IInv, MakeInv
<1>3. CASE BuildFails
  <2>1. (~ RootLoads /\ Works) \/ Faults
    BY <1>3 DEF BuildFails
  <2>2. Hindered'
    BY <1>3, <2>1 DEF BuildFails, Works, Faults, Hindered, RootLoads, Whole, LangNames, Langs
  <2> QED
    BY <1>0, <1>3, <2>2 DEF BuildFails
<1>4. ASSUME NEW p, Write(p)
      PROVE  EndInv'
  BY <1>0, <1>4 DEF Write, Writing, IInv, MakeInv
<1>5. ASSUME NEW p, WriteFails(p) \/ Killed(p)
      PROVE  EndInv'
  <2>1. CASE faults' = faults + 1
    BY <1>0, <1>5, <2>1 DEF WriteFails, Killed, Hindered
  <2>2. CASE ~ CanWrite(p) /\ WriteFails(p)
    <3>1. built = table /\ built \in Versions /\ available # << >> /\ at \in 1 .. Len(Files[built])
      BY <2>2, FilesFacts DEF WriteFails, Writing, IInv, MakeInv, RulegenTypeOK
    <3>2. p \in ToSet(Files[table])
      BY <2>2, <3>1, FilesFacts DEF WriteFails, Writing
    <3>3. p[1] = "modules" /\ p[2] \notin modules
      BY <2>2, <3>1 DEF CanWrite
    <3>4. p[2] \in LangNames(table)
      BY <3>1, <3>2, <3>3, FilesFacts
    <3>5. LangNames(table)' = LangNames(table) /\ modules' = modules
      BY <2>2 DEF WriteFails, LangNames, Langs
    <3> QED
      BY <1>0, <2>2, <3>3, <3>4, <3>5 DEF WriteFails, Hindered
  <2> QED
    BY <1>5, <2>1, <2>2 DEF WriteFails, Killed, Faults
<1>6. CASE Done
  BY <1>0, <1>6 DEF Done
<1>7. CASE RemoveTests \/ UNCHANGED vars
  <2>1. UNCHANGED <<table, modules, disk, faults, outcome>>
    BY <1>7 DEF RemoveTests, vars
  <2>2. Hindered' <=> Hindered
    BY <2>1 DEF Hindered, RootLoads, Whole, LangNames, Langs
  <2>3. make' = "idle" \/ make' = make
    BY <1>7 DEF RemoveTests, vars
  <2> QED
    BY <1>0, <2>1, <2>2, <2>3
<1> QED
  BY <1>1, <1>2, <1>3, <1>4, <1>5, <1>6, <1>7 DEF Next, Make, Generate

\* A rulegen fails only for a reason that is there to be seen when make is over:
\* the environment failed, the root module does not load, or a language of the
\* table has no directory.
THEOREM FailuresExplained == Spec => []FailureExplained
<1>1. IInv /\ EndInv /\ [Next]_vars => EndInv'
  BY NextEnd
<1>2. EndInv => FailureExplained
  BY DEF EndInv
<1> QED
  BY <1>1, <1>2, InitEnd, Invariance, PTL DEF Spec

\* So a make that comes to its end has run a rulegen that ended well, unless
\* there is such a reason.
THEOREM EndsWell == Spec => WellUnlessHindered
<1>1. IInv /\ EndInv /\ [Next]_vars => EndInv'
  BY NextEnd
<1>2. IInv /\ EndInv /\ EndInv' /\ [Next]_vars
        => [make # "idle" /\ make' = "idle" => outcome' = "success" \/ Hindered']_vars
  <2> SUFFICES ASSUME IInv, EndInv, EndInv', Next, make # "idle", make' = "idle"
               PROVE  outcome' \in {"success", "failed"}
    BY DEF EndInv, FailureExplained
  <2>1. RemoveTests \/ \E p : Killed(p)
    BY DEF Next, Make, Generate, Edit, Start, Query, Build, BuildFails, Write, WriteFails, Done
  <2> QED
    BY <2>1 DEF RemoveTests, Killed, EndInv, IInv, RulegenTypeOK
<1> QED
  BY <1>1, <1>2, InitEnd, Invariance, PTL DEF Spec, WellUnlessHindered

-----------------------------------------------------------------------------
(***************************************************************************)
(* The attributes that the documentation of a rule lists.  The rules are   *)
(* those of the program's table, of which the tables may hold any part.    *)
(***************************************************************************)

\* A rule heeds the attributes that are documented for it, but for the two that
\* have no effect.
Heeds(rule) == \A attr \in rule.attrs \ rule.heeds : <<rule.name, attr>> \in WithoutEffect

\* So do all the rules of a language.
AllHeed(lang) == \A i \in DOMAIN lang.rules : Heeds(lang.rules[i])

\* The rules of compileRuleTemplate have the attributes of proto_compile.
LEMMA CompileHeeds ==
  ASSUME NEW base, NEW kind, NEW plugins, NEW example
  PROVE  Heeds(Compile(base, kind, plugins, example))
<1>1. /\ Compile(base, kind, plugins, example).attrs = compileRuleAttrs
      /\ Compile(base, kind, plugins, example).heeds = proto_compile_attrs
  BY DEF Compile, Rule
<1> QED
  BY <1>1 DEF Heeds, compileRuleAttrs, proto_compile_attrs

\* The libraries have them too, and those that their macro passes on.
LEMMA LibraryHeeds ==
  ASSUME NEW base, NEW kind, NEW macro, NEW attrs, NEW example,
         attrs \subseteq proto_compile_attrs \cup macro.args
  PROVE  Heeds(Library(base, kind, macro, attrs, example))
<1>1. /\ Library(base, kind, macro, attrs, example).attrs = attrs
      /\ Library(base, kind, macro, attrs, example).heeds = proto_compile_attrs \cup macro.args
  BY DEF Library, Rule
<1> QED
  BY <1>1 DEF Heeds

\* The four rules that most languages have.
LEMMA StandardHeeds ==
  ASSUME NEW base, NEW macro, NEW attrs, attrs \subseteq proto_compile_attrs \cup macro.args
  PROVE  LET S == Standard(base, macro, attrs)
         IN DOMAIN S = 1 .. 4 /\ \A i \in 1 .. 4 : S[i] \in {S[j] : j \in 1 .. 4} /\ Heeds(S[i])
<1> DEFINE S == Standard(base, macro, attrs)
<1>1. DOMAIN S = 1 .. 4
  BY DEF Standard
<1>2. Heeds(S[1]) /\ Heeds(S[2])
  BY CompileHeeds DEF Standard
<1>3. Heeds(S[3]) /\ Heeds(S[4])
  BY LibraryHeeds DEF Standard
<1>4. \A i \in 1 .. 4 : i = 1 \/ i = 2 \/ i = 3 \/ i = 4
  OBVIOUS
<1> QED
  BY <1>1, <1>2, <1>3, <1>4

\* A rule whose documentation and attributes stay heeds the same.
LEMMA SameHeeds ==
  ASSUME NEW r, NEW s, s.name = r.name, s.attrs = r.attrs, s.heeds = r.heeds, Heeds(r)
  PROVE  Heeds(s)
  BY DEF Heeds

\* The languages, one by one: what is set in an entry after the templates are
\* chosen changes neither set of attributes.
LEMMA BufHeeds == AllHeed(makeBuf)
<1>1. DOMAIN makeBuf.rules = 1 .. 2
  BY DEF makeBuf, Language
<1>2. /\ makeBuf.rules[1].name = <<"buf", "proto_breaking", "test">>
      /\ makeBuf.rules[1].attrs
           = {"protos", "against_input", "use_rules", "except_rules", "ignore_unstable_packages"}
      /\ makeBuf.rules[1].heeds = {"protos", "against_input", "use_rules", "except_rules"}
  BY DEF makeBuf, Language, Rule
<1>3. makeBuf.rules[2].attrs = makeBuf.rules[2].heeds
  BY DEF makeBuf, Language, Rule
<1>4. Heeds(makeBuf.rules[1]) /\ Heeds(makeBuf.rules[2])
  BY <1>2, <1>3 DEF Heeds, WithoutEffect
<1>5. \A i \in 1 .. 2 : i = 1 \/ i = 2
  OBVIOUS
<1> QED
  BY <1>1, <1>4, <1>5 DEF AllHeed

LEMMA CppHeeds == AllHeed(makeCpp)
<1>1. makeCpp.rules = Standard("cpp", cppLibrary, cppLibraryRuleAttrs)
  BY DEF makeCpp, Language
<1>2. cppLibrary.args = {"deps"} \cup ccArgs
  BY DEF cppLibrary, Macro
<1>3. cppLibraryRuleAttrs \subseteq proto_compile_attrs \cup cppLibrary.args
  BY <1>2 DEF cppLibraryRuleAttrs, libraryRuleAttrs, compileRuleAttrs, proto_compile_attrs, ccArgs
<1> QED
  BY <1>1, <1>3, StandardHeeds DEF AllHeed

LEMMA CsharpHeeds == AllHeed(makeCsharp)
<1>1. makeCsharp.rules = Standard("csharp", csharpLibrary, libraryRuleAttrs)
  BY DEF makeCsharp, Language
<1>2. csharpLibrary.args = {"deps", "target_frameworks"} \cup dotnetArgs
  BY DEF csharpLibrary, Macro
<1>3. libraryRuleAttrs \subseteq proto_compile_attrs \cup csharpLibrary.args
  BY <1>2 DEF libraryRuleAttrs, compileRuleAttrs, proto_compile_attrs
<1> QED
  BY <1>1, <1>3, StandardHeeds DEF AllHeed

LEMMA DocHeeds == AllHeed(makeDoc)
<1> DEFINE R == makeDoc.rules
<1>1. DOMAIN R = 1 .. 5
  BY DEF makeDoc, Language
<1>2. Heeds(R[1]) /\ Heeds(R[2]) /\ Heeds(R[3]) /\ Heeds(R[4])
  BY CompileHeeds DEF makeDoc, Language
<1>3. /\ R[5].name = <<"doc", "template", "compile">> /\ R[5].attrs = docTemplateRuleAttrs
      /\ R[5].heeds = (proto_compile_attrs \cup {"template"}) \ {"options"}
  BY DEF makeDoc, Language, Compile, Rule
<1>4. Heeds(R[5])
  BY <1>3 DEF Heeds, WithoutEffect, docTemplateRuleAttrs, compileRuleAttrs, proto_compile_attrs
<1>5. \A i \in 1 .. 5 : i = 1 \/ i = 2 \/ i = 3 \/ i = 4 \/ i = 5
  OBVIOUS
<1> QED
  BY <1>1, <1>2, <1>4, <1>5 DEF AllHeed

LEMMA GoHeeds == AllHeed(makeGo)
<1> DEFINE S    == Standard("go", goProtoLibrary, goLibraryRuleAttrs)
           lang == Language("go", S)
           defs == {<<"GRPC_DEPS", <<"go", "grpc", "library">>>>,
                    <<"PROTO_DEPS", <<"go", "proto", "library">>>>}
           loads == {<<"go", "proto", "library">>}
<1>1. goProtoLibrary.args = {"deps", "go_deps", "importpath"}
  BY DEF goProtoLibrary, Macro
<1>2. goLibraryRuleAttrs \subseteq proto_compile_attrs \cup goProtoLibrary.args
  BY <1>1 DEF goLibraryRuleAttrs, libraryRuleAttrs, compileRuleAttrs, proto_compile_attrs
<1>3. DOMAIN S = 1 .. 4 /\ \A i \in 1 .. 4 : Heeds(S[i])
  BY <1>2, StandardHeeds
<1>4. S = <<S[1], S[2], S[3], S[4]>>
  BY DEF Standard
<1>5. makeGo = [lang EXCEPT !.rules[3].example = goProtoLibraryExample,
                            !.rules[4].macro = goGrpcLibrary,
                            !.rules[4].example = goGrpcLibraryExample,
                            !.rules[4].loads = @ \cup loads,
                            !.extraDefs = defs]
  BY DEF makeGo
<1>6. lang.rules = S
  BY DEF Language
<1> HIDE DEF S, defs, loads
<1>7. makeGo.rules = [S EXCEPT ![3].example = goProtoLibraryExample, ![4].macro = goGrpcLibrary,
                               ![4].example = goGrpcLibraryExample, ![4].loads = @ \cup loads]
  BY <1>5, <1>6 DEF Language
<1> HIDE DEF lang
<1> DEFINE R == makeGo.rules
<1>8. DOMAIN R = 1 .. 4 /\ R[1] = S[1] /\ R[2] = S[2]
  BY <1>3, <1>7
<1>9. R[3] = [S[3] EXCEPT !.example = goProtoLibraryExample]
  BY <1>3, <1>7
<1>10. R[4] = [S[4] EXCEPT !.macro = goGrpcLibrary, !.example = goGrpcLibraryExample, !.loads = @ \cup loads]
  BY <1>3, <1>7
<1> HIDE DEF R
<1>11. \A i \in 1 .. 4 : R[i].name = S[i].name /\ R[i].attrs = S[i].attrs /\ R[i].heeds = S[i].heeds
  <2>1. R[3].name = S[3].name /\ R[3].attrs = S[3].attrs /\ R[3].heeds = S[3].heeds
    BY <1>9
  <2>2. R[4].name = S[4].name /\ R[4].attrs = S[4].attrs /\ R[4].heeds = S[4].heeds
    BY <1>10
  <2> QED
    BY <1>8, <2>1, <2>2
<1> QED
  BY <1>3, <1>8, <1>11, SameHeeds DEF AllHeed, R

LEMMA GatewayHeeds == AllHeed(makeGrpcGateway)
<1> DEFINE R == makeGrpcGateway.rules
<1>1. DOMAIN R = 1 .. 4
  BY DEF makeGrpcGateway, Language
<1>2. Heeds(R[2]) /\ Heeds(R[3])
  BY CompileHeeds DEF makeGrpcGateway, Language
<1>3. R[1].attrs = compileRuleAttrs /\ R[1].heeds = proto_compile_attrs
  BY DEF makeGrpcGateway, Language, Compile, Rule
<1>4. /\ R[4].attrs = goLibraryRuleAttrs
      /\ R[4].heeds = proto_compile_attrs \cup gatewayLibrary.args
  BY DEF makeGrpcGateway, Language, Library, Rule
<1>5. gatewayLibrary.args = {"deps", "go_deps", "importpath"}
  BY DEF gatewayLibrary, Macro
<1> HIDE DEF R
<1>6. Heeds(R[1]) /\ Heeds(R[4])
  BY <1>3, <1>4, <1>5
     DEF Heeds, goLibraryRuleAttrs, libraryRuleAttrs, compileRuleAttrs, proto_compile_attrs
<1>7. \A i \in 1 .. 4 : i = 1 \/ i = 2 \/ i = 3 \/ i = 4
  OBVIOUS
<1> QED
  BY <1>1, <1>2, <1>6, <1>7 DEF AllHeed, R

LEMMA JavaHeeds == AllHeed(makeJava)
<1> DEFINE S    == Standard("java", javaLibrary, javaLibraryRuleAttrs)
           lang == Language("java", S)
<1>1. javaLibrary.args = {"deps", "exports"}
  BY DEF javaLibrary, Macro
<1>2. javaLibraryRuleAttrs \subseteq proto_compile_attrs \cup javaLibrary.args
  BY <1>1 DEF javaLibraryRuleAttrs, libraryRuleAttrs, compileRuleAttrs, proto_compile_attrs
<1>3. DOMAIN S = 1 .. 4 /\ \A i \in 1 .. 4 : Heeds(S[i])
  BY <1>2, StandardHeeds
<1>4. S = <<S[1], S[2], S[3], S[4]>>
  BY DEF Standard
<1> DEFINE none == {"none"}
<1>5. makeJava = [lang EXCEPT !.skip = {"macos_arm64"}, !.rules[1].skip = none, !.rules[3].skip = none]
  BY DEF makeJava
<1>6. lang.rules = S
  BY DEF Language
<1> HIDE DEF S, none
<1>7. makeJava.rules = [S EXCEPT ![1].skip = none, ![3].skip = none]
  BY <1>5, <1>6 DEF Language
<1> HIDE DEF lang
<1> DEFINE R == makeJava.rules
<1>8. DOMAIN R = 1 .. 4 /\ R[2] = S[2] /\ R[4] = S[4]
  BY <1>3, <1>7
<1>9. R[1] = [S[1] EXCEPT !.skip = none] /\ R[3] = [S[3] EXCEPT !.skip = none]
  BY <1>3, <1>7
<1> HIDE DEF R
<1>10. \A i \in 1 .. 4 : R[i].name = S[i].name /\ R[i].attrs = S[i].attrs /\ R[i].heeds = S[i].heeds
  <2>1. R[1].name = S[1].name /\ R[1].attrs = S[1].attrs /\ R[1].heeds = S[1].heeds
    BY <1>9
  <2>2. R[3].name = S[3].name /\ R[3].attrs = S[3].attrs /\ R[3].heeds = S[3].heeds
    BY <1>9
  <2> QED
    BY <1>8, <2>1, <2>2
<1> QED
  BY <1>3, <1>8, <1>10, SameHeeds DEF AllHeed, R

LEMMA JsHeeds == AllHeed(makeJs)
<1> DEFINE R == makeJs.rules
<1>1. DOMAIN R = 1 .. 6
  BY DEF makeJs, Language
<1>2. Heeds(R[1]) /\ Heeds(R[2]) /\ Heeds(R[3])
  BY CompileHeeds DEF makeJs, Language
<1>3. compileRuleAttrs \subseteq proto_compile_attrs \cup jsLibrary.args
  BY DEF compileRuleAttrs, proto_compile_attrs
<1>4. Heeds(R[4]) /\ Heeds(R[5]) /\ Heeds(R[6])
  BY <1>3, LibraryHeeds DEF makeJs, Language
<1>5. \A i \in 1 .. 6 : i = 1 \/ i = 2 \/ i = 3 \/ i = 4 \/ i = 5 \/ i = 6
  OBVIOUS
<1> QED
  BY <1>1, <1>2, <1>4, <1>5 DEF AllHeed

LEMMA ObjcHeeds == AllHeed(makeObjc)
<1> DEFINE S    == Standard("objc", objcProtoLibrary, cppLibraryRuleAttrs)
           lang == Language("objc", S)
<1>1. objcProtoLibrary.args = {"deps"} \cup ccArgs
  BY DEF objcProtoLibrary, Macro
<1>2. cppLibraryRuleAttrs \subseteq proto_compile_attrs \cup objcProtoLibrary.args
  BY <1>1 DEF cppLibraryRuleAttrs, libraryRuleAttrs, compileRuleAttrs, proto_compile_attrs, ccArgs
<1>3. DOMAIN S = 1 .. 4 /\ \A i \in 1 .. 4 : Heeds(S[i])
  BY <1>2, StandardHeeds
<1>4. S = <<S[1], S[2], S[3], S[4]>>
  BY DEF Standard
<1>5. makeObjc = [lang EXCEPT !.rules[4].macro = objcGrpcLibrary, !.skip = {"linux", "windows", "macos"}]
  BY DEF makeObjc
<1>6. lang.rules = S
  BY DEF Language
<1> HIDE DEF S
<1>7. makeObjc.rules = [S EXCEPT ![4].macro = objcGrpcLibrary]
  BY <1>5, <1>6 DEF Language
<1> HIDE DEF lang
<1> DEFINE R == makeObjc.rules
<1>8. DOMAIN R = 1 .. 4 /\ \A i \in 1 .. 3 : R[i] = S[i]
  BY <1>3, <1>7
<1>9. R[4] = [S[4] EXCEPT !.macro = objcGrpcLibrary]
  BY <1>3, <1>7
<1> HIDE DEF R
<1>10. \A i \in 1 .. 4 : R[i].name = S[i].name /\ R[i].attrs = S[i].attrs /\ R[i].heeds = S[i].heeds
  <2>1. R[4].name = S[4].name /\ R[4].attrs = S[4].attrs /\ R[4].heeds = S[4].heeds
    BY <1>9
  <2> QED
    BY <1>8, <2>1
<1> QED
  BY <1>3, <1>8, <1>10, SameHeeds DEF AllHeed, R

LEMMA PythonHeeds == AllHeed(makePython)
<1> DEFINE R == makePython.rules
<1>1. DOMAIN R = 1 .. 6
  BY DEF makePython, Language
<1>2. Heeds(R[1]) /\ Heeds(R[2]) /\ Heeds(R[3])
  BY CompileHeeds DEF makePython, Language
<1>3. /\ pythonProtoLibrary.args = {"deps", "data", "generate_pyi"}
      /\ pythonGrpcLibrary.args = {"deps", "data", "generate_pyi"}
      /\ pythonGrpclibLibrary.args = {"deps", "data", "generate_pyi"}
  BY DEF pythonProtoLibrary, pythonGrpcLibrary, pythonGrpclibLibrary, Macro
<1>4. \A macro \in {pythonProtoLibrary, pythonGrpcLibrary, pythonGrpclibLibrary} :
        libraryRuleAttrs \subseteq proto_compile_attrs \cup macro.args
  BY <1>3 DEF libraryRuleAttrs, compileRuleAttrs, proto_compile_attrs
<1>5. Heeds(R[4]) /\ Heeds(R[5]) /\ Heeds(R[6])
  BY <1>4, LibraryHeeds DEF makePython, Language
<1>6. \A i \in 1 .. 6 : i = 1 \/ i = 2 \/ i = 3 \/ i = 4 \/ i = 5 \/ i = 6
  OBVIOUS
<1> QED
  BY <1>1, <1>2, <1>5, <1>6 DEF AllHeed

LEMMA ScalaHeeds == AllHeed(makeScala)
<1> DEFINE S    == Standard("scala", scalaLibrary, javaLibraryRuleAttrs)
           lang == Language("scala", S)
           plugins == <<"scala:grpc_plugin">>
<1>1. scalaLibrary.args = {"deps", "exports"}
  BY DEF scalaLibrary, Macro
<1>2. javaLibraryRuleAttrs \subseteq proto_compile_attrs \cup scalaLibrary.args
  BY <1>1 DEF javaLibraryRuleAttrs, libraryRuleAttrs, compileRuleAttrs, proto_compile_attrs
<1>3. DOMAIN S = 1 .. 4 /\ \A i \in 1 .. 4 : Heeds(S[i])
  BY <1>2, StandardHeeds
<1>4. S = <<S[1], S[2], S[3], S[4]>>
  BY DEF Standard
<1>5. makeScala = [lang EXCEPT !.rules[2].plugins = plugins, !.dependsOn = {"java"}]
  BY DEF makeScala
<1>6. lang.rules = S
  BY DEF Language
<1> HIDE DEF S, plugins
<1>7. makeScala.rules = [S EXCEPT ![2].plugins = plugins]
  BY <1>5, <1>6 DEF Language
<1> HIDE DEF lang
<1> DEFINE R == makeScala.rules
<1>8. DOMAIN R = 1 .. 4 /\ \A i \in {1, 3, 4} : R[i] = S[i]
  BY <1>3, <1>7
<1>9. R[2] = [S[2] EXCEPT !.plugins = plugins]
  BY <1>3, <1>7
<1> HIDE DEF R
<1>10. \A i \in 1 .. 4 : R[i].name = S[i].name /\ R[i].attrs = S[i].attrs /\ R[i].heeds = S[i].heeds
  <2>1. R[2].name = S[2].name /\ R[2].attrs = S[2].attrs /\ R[2].heeds = S[2].heeds
    BY <1>9
  <2> QED
    BY <1>8, <2>1
<1> QED
  BY <1>3, <1>8, <1>10, SameHeeds DEF AllHeed, R

LEMMA SwiftHeeds == AllHeed(makeSwift)
<1> DEFINE S    == Standard("swift", swiftLibrary, swiftLibraryRuleAttrs)
           lang == Language("swift", S)
<1>1. swiftLibrary.args = {"deps", "module_name"}
  BY DEF swiftLibrary, Macro
<1>2. swiftLibraryRuleAttrs \subseteq proto_compile_attrs \cup swiftLibrary.args
  BY <1>1 DEF swiftLibraryRuleAttrs, libraryRuleAttrs, compileRuleAttrs, proto_compile_attrs
<1>3. DOMAIN S = 1 .. 4 /\ \A i \in 1 .. 4 : Heeds(S[i])
  BY <1>2, StandardHeeds
<1>4. S = <<S[1], S[2], S[3], S[4]>>
  BY DEF Standard
<1>5. makeSwift = [lang EXCEPT !.rules[3].example = swiftProtoLibraryExample,
                               !.rules[4].example = swiftGrpcLibraryExample,
                               !.skip = {"windows", "linux"}]
  BY DEF makeSwift
<1>6. lang.rules = S
  BY DEF Language
<1> HIDE DEF S
<1>7. makeSwift.rules = [S EXCEPT ![3].example = swiftProtoLibraryExample, ![4].example = swiftGrpcLibraryExample]
  BY <1>5, <1>6 DEF Language
<1> HIDE DEF lang
<1> DEFINE R == makeSwift.rules
<1>8. DOMAIN R = 1 .. 4 /\ R[1] = S[1] /\ R[2] = S[2]
  BY <1>3, <1>7
<1>9. /\ R[3] = [S[3] EXCEPT !.example = swiftProtoLibraryExample]
      /\ R[4] = [S[4] EXCEPT !.example = swiftGrpcLibraryExample]
  BY <1>3, <1>7
<1> HIDE DEF R
<1>10. \A i \in 1 .. 4 : R[i].name = S[i].name /\ R[i].attrs = S[i].attrs /\ R[i].heeds = S[i].heeds
  <2>1. R[3].name = S[3].name /\ R[3].attrs = S[3].attrs /\ R[3].heeds = S[3].heeds
    BY <1>9
  <2>2. R[4].name = S[4].name /\ R[4].attrs = S[4].attrs /\ R[4].heeds = S[4].heeds
    BY <1>9
  <2> QED
    BY <1>8, <2>1, <2>2
<1> QED
  BY <1>3, <1>8, <1>10, SameHeeds DEF AllHeed, R

\* All the rules of the table.
LEMMA TableHeeds ==
  ASSUME NEW rule \in RulesOfTable
  PROVE  Heeds(rule)
<1> DEFINE AllLanguages == {makeBuf, makeCpp, makeCsharp, makeDoc, makeGo, makeGrpcGateway, makeJava,
                            makeJs, makeObjc, makePython, makeScala, makeSwift}
<1>1. languages \in Seq(AllLanguages)
  BY DEF languages
<1>2. PICK lang \in ToSet(languages) : rule \in RulesOf(lang)
  BY DEF RulesOfTable
<1>3. lang \in AllLanguages
  <2> HIDE DEF AllLanguages
  <2> QED
    BY <1>1, SeqFacts
<1>4. AllHeed(lang)
  BY <1>3, BufHeeds, CppHeeds, CsharpHeeds, DocHeeds, GoHeeds, GatewayHeeds, JavaHeeds, JsHeeds,
     ObjcHeeds, PythonHeeds, ScalaHeeds, SwiftHeeds
<1>5. PICK i \in DOMAIN lang.rules : rule = lang.rules[i]
  BY <1>2 DEF RulesOf, ToSet
<1> QED
  BY <1>4, <1>5 DEF AllHeed

\* After a rulegen that ends well, the attributes that the documentation of a
\* rule lists are heeded by the rule of its file, for every set of tables that
\* are made of the rules of the program's table.
THEOREM DocumentedHeeded ==
  ASSUME FromTable
  PROVE  Spec => []DocumentedAttrsWork
<1>1. IInv => DocumentedAttrsWork
  <2> SUFFICES ASSUME IInv, outcome = "success", NEW l \in LangNames(table),
                      NEW documented \in RulesOf(LangOf(disk[Docs(l)], l))
               PROVE  \E rule \in RulesOf(LangOf(disk[RuleFile(l, documented.name)], l)) :
                        /\ rule.name = documented.name
                        /\ \A attr \in documented.attrs \ rule.heeds : <<documented.name, attr>> \in WithoutEffect
    BY DEF DocumentedAttrsWork
  <2>1. table \in Versions /\ Written(table)
    BY DEF IInv, RulegenTypeOK, SuccessIsWhole, Written
  <2> DEFINE lang == LangOf(table, l)
  <2>2. lang \in Langs(table) /\ lang.name = l
    BY <2>1, NamesFit
  <2>3. disk[Docs(l)] = table
    BY <2>1, <2>2, LanguageListed DEF Written
  <2>4. documented \in RulesOf(lang)
    BY <2>3
  <2>5. disk[RuleFile(l, documented.name)] = table
    BY <2>1, <2>2, <2>4, LanguageListed DEF Written, RuleNames
  <2>6. Heeds(documented)
    BY <2>1, <2>2, <2>4, FromTable, TableHeeds DEF FromTable
  <2> QED
    BY <2>4, <2>5, <2>6 DEF Heeds
<1> QED
  BY <1>1, Invariance, PTL
=============================================================================
