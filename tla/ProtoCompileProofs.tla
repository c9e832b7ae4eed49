-------------------------- MODULE ProtoCompileProofs --------------------------
(***************************************************************************)
(* ProtoCompile.tla: for every set of targets, whatever their plugins,     *)
(* options and protos, what the analysis refuses and what it registers.    *)
(* Build.tla: for every order in which Bazel runs what was registered, and *)
(* whatever fails, that the build is one of TargetBuild.                   *)
(***************************************************************************)
EXTENDS Build, LanguageRules, SequenceFacts

-----------------------------------------------------------------------------
(* What the loops over the protos and the plugins compute *)

\* The protos that a plugin is run on: those not excluded, each once.
LEMMA IncludedFacts ==
  ASSUME NEW plugin, NEW sources, IsSeq(sources)
  PROVE  /\ IsSeq(Included(plugin, sources))
         /\ ToSet(Included(plugin, sources)) = {p \in ToSet(sources) : ~ Excluded(plugin, p)}
         /\ Len(Included(plugin, sources)) = Cardinality(ToSet(Included(plugin, sources)))
<1> DEFINE n == Len(sources)
           Take(s, i) == IF Excluded(plugin, sources[i]) \/ Contains(s, sources[i]) THEN s
                         ELSE Append(s, sources[i])
           Def(f, m) == f = [i \in 0 .. m |-> IF i = 0 THEN << >> ELSE Take(f[i - 1], i)]
           Bad == {m \in Nat : ~ \E f : Def(f, m)}
           upTo[i \in 0 .. n] == IF i = 0 THEN << >> ELSE Take(upTo[i - 1], i)
<1>1. n \in Nat /\ ToSet(sources) = {sources[i] : i \in 1 .. n}
  BY SeqFacts DEF IsSeq
<1>2. Bad = {}
  <2> SUFFICES ASSUME Bad # {} PROVE FALSE
    OBVIOUS
  <2>1. \E m \in Bad : \A k \in Bad : m <= k
    <3>1. Bad \in SUBSET Nat
      OBVIOUS
    <3> HIDE DEF Bad
    <3> QED
      BY <3>1, Least
  <2>2. PICK m \in Bad : \A k \in Bad : m <= k
    BY <2>1
  <2>3. m \in Nat
    OBVIOUS
  <2>4. m # 0
    <3>1. Def([i \in 0 .. 0 |-> << >>], 0)
      <4>1. \A i \in 0 .. 0 : i = 0
        OBVIOUS
      <4> HIDE DEF Take
      <4> QED
        BY <4>1
    <3> HIDE DEF Def
    <3> QED
      BY <3>1
  <2>5. m - 1 \in Nat /\ m - 1 \notin Bad
    <3> HIDE DEF Bad
    <3> QED
      BY <2>2, <2>3, <2>4
  <2>6. PICK f : Def(f, m - 1)
    BY <2>5
  <2> DEFINE last == Take(f[m - 1], m)
             g == [i \in 0 .. m |-> IF i = m THEN last ELSE f[i]]
  <2> HIDE DEF Take
  <2>7. Def(g, m)
    <3>1. SUFFICES ASSUME NEW i \in 0 .. m
                   PROVE  g[i] = IF i = 0 THEN << >> ELSE Take(g[i - 1], i)
      OBVIOUS
    <3>2. CASE i = m
      <4>1. i # 0 /\ i - 1 \in 0 .. m /\ i - 1 # m
        BY <2>3, <2>4, <3>2
      <4>2. g[i - 1] = f[m - 1] /\ g[i] = last
        BY <3>2, <4>1
      <4> QED
        BY <3>2, <4>1, <4>2
    <3>3. CASE i # m
      <4>1. i \in 0 .. m - 1 /\ (i # 0 => i - 1 \in 0 .. m - 1 /\ i - 1 \in 0 .. m /\ i - 1 # m)
        BY <2>3, <2>5, <3>3
      <4>2. f[i] = IF i = 0 THEN << >> ELSE Take(f[i - 1], i)
        BY <2>6, <4>1
      <4> QED
        BY <3>3, <4>1, <4>2
    <3> QED
      BY <3>2, <3>3
  <2> QED
    BY <2>3, <2>7
<1>3. \E f : Def(f, n)
  BY <1>1, <1>2
<1>4. Def(upTo, n)
  <2> HIDE DEF Take
  <2> QED
    BY <1>3
<1>5. Included(plugin, sources) = upTo[n]
  BY DEF Included
<1> HIDE DEF upTo
<1>6. upTo[0] = << >> /\ \A m \in 1 .. n : upTo[m] = Take(upTo[m - 1], m)
  <2> HIDE DEF Take
  <2>1. \A i \in 0 .. n : upTo[i] = IF i = 0 THEN << >> ELSE Take(upTo[i - 1], i)
    BY <1>4
  <2>2. 0 \in 0 .. n /\ \A m \in 1 .. n : m \in 0 .. n /\ m # 0
    BY <1>1
  <2> QED
    BY <2>1, <2>2
<1> HIDE DEF n, Def, Bad, Take
<1> DEFINE Good(m) == /\ IsSeq(upTo[m]) /\ Once(upTo[m])
                      /\ ToSet(upTo[m]) = {p \in {sources[i] : i \in 1 .. m} : ~ Excluded(plugin, p)}
           Wrong == {m \in 0 .. n : ~ Good(m)}
<1>7. Wrong = {}
  <2> SUFFICES ASSUME Wrong # {} PROVE FALSE
    OBVIOUS
  <2>1. Wrong \in SUBSET Nat
    BY <1>1
  <2>2. \E m \in Wrong : \A k \in Wrong : m <= k
    <3> HIDE DEF Wrong
    <3> QED
      BY <2>1, Least
  <2>3. PICK m \in Wrong : \A k \in Wrong : m <= k
    BY <2>2
  <2>4. m \in 0 .. n /\ ~ Good(m)
    OBVIOUS
  <2> HIDE DEF Wrong
  <2>5. m # 0
    <3>1. IsSeq(<< >>) /\ ToSet(<< >>) = {}
      BY OneFacts
    <3>2. Once(<< >>) /\ 1 .. 0 = {}
      BY EmptySeq DEF Once
    <3>3. Good(0)
      BY <1>6, <3>1, <3>2
    <3> HIDE DEF Good
    <3> QED
      BY <2>4, <3>3
  <2>6. m \in 1 .. n /\ m - 1 \in 0 .. n /\ m - 1 < m /\ 1 .. m = (1 .. m - 1) \cup {m}
    BY <1>1, <2>4, <2>5
  <2>7. Good(m - 1)
    <3>1. m - 1 \notin Wrong
      BY <1>1, <2>3, <2>4, <2>6
    <3> QED
      BY <2>6, <3>1 DEF Wrong
  <2> DEFINE s == upTo[m - 1]
             x == sources[m]
  <2>8. upTo[m] = IF Excluded(plugin, x) \/ Contains(s, x) THEN s ELSE Append(s, x)
    BY <1>6, <2>6 DEF Take
  <2>9. {sources[i] : i \in 1 .. m} = {sources[i] : i \in 1 .. m - 1} \cup {x}
    BY <2>6
  <2> DEFINE Before == {sources[i] : i \in 1 .. m - 1}
             Now == {sources[i] : i \in 1 .. m}
  <2>10. /\ IsSeq(s) /\ Once(s) /\ ToSet(s) = {p \in Before : ~ Excluded(plugin, p)}
         /\ Now = Before \cup {x}
         /\ ~ (/\ IsSeq(upTo[m]) /\ Once(upTo[m])
               /\ ToSet(upTo[m]) = {p \in Now : ~ Excluded(plugin, p)})
    BY <2>4, <2>7, <2>9
  <2> HIDE DEF s, x, Before, Now, Good
  <2>11. CASE Excluded(plugin, x)
    BY <2>8, <2>10, <2>11
  <2>12. CASE ~ Excluded(plugin, x) /\ Contains(s, x)
    <3>1. x \in ToSet(s)
      BY <2>10, <2>12, ContainsFacts
    <3> QED
      BY <2>8, <2>10, <2>12, <3>1
  <2>13. CASE ~ Excluded(plugin, x) /\ ~ Contains(s, x)
    <3>1. x \notin ToSet(s)
      BY <2>10, <2>13, ContainsFacts
    <3>2. /\ IsSeq(Append(s, x)) /\ ToSet(Append(s, x)) = ToSet(s) \cup {x}
          /\ Once(Append(s, x))
      BY <2>10, <3>1, AppendFacts
    <3> QED
      BY <2>8, <2>10, <2>13, <3>2
  <2> QED
    BY <2>11, <2>12, <2>13
<1>8. Good(n)
  <2>1. n \in 0 .. n
    BY <1>1
  <2> HIDE DEF Good
  <2> QED
    BY <1>7, <2>1
<1>9. Len(upTo[n]) = Cardinality(ToSet(upTo[n]))
  BY <1>8, OnceFacts
<1> QED
  BY <1>1, <1>5, <1>8, <1>9

LEMMA MaxFacts ==
  ASSUME NEW n \in Nat, NEW S \in SUBSET (1 .. n), S # {}
  PROVE  Max(S) \in S
<1> DEFINE Below == {n - k : k \in S}
<1>1. Below \in SUBSET Nat /\ Below # {}
  <2>1. \A k \in S : n - k \in Nat
    OBVIOUS
  <2> QED
    BY <2>1
<1> HIDE DEF Below
<1>2. PICK m \in Below : \A k \in Below : m <= k
  BY <1>1, Least
<1>3. PICK x \in S : m = n - x
  BY DEF Below
<1>4. ASSUME NEW y \in S PROVE x >= y
  <2>1. n - y \in Below
    BY DEF Below
  <2>2. m <= n - y
    BY <1>2, <2>1
  <2> QED
    BY <1>3, <2>2
<1> QED
  BY <1>4 DEF Max

MadeFrom(f, plugin, protos) ==
  \E proto \in ToSet(protos), pattern \in ToSet(plugin.outputs) : f = Premerge(OutputName[proto, pattern])

LEMMA DeclaredFacts ==
  ASSUME NEW plugin, IsSeq(plugin.outputs), NEW protos, IsSeq(protos)
  PROVE  /\ IsSeq(Declared(plugin, protos))
         /\ \A f \in ToSet(Declared(plugin, protos)) : MadeFrom(f, plugin, protos)
<1> DEFINE Of(i) == [j \in 1 .. Len(plugin.outputs) |-> Premerge(OutputName[protos[i], plugin.outputs[j]])]
           ss == [i \in 1 .. Len(protos) |-> Of(i)]
<1>1. /\ Len(protos) \in Nat /\ ToSet(protos) = {protos[i] : i \in 1 .. Len(protos)}
      /\ Len(plugin.outputs) \in Nat
      /\ ToSet(plugin.outputs) = {plugin.outputs[j] : j \in 1 .. Len(plugin.outputs)}
  BY SeqFacts DEF IsSeq
<1>2. ASSUME NEW i \in 1 .. Len(protos)
      PROVE  /\ IsSeq(Of(i))
             /\ ToSet(Of(i)) = {Premerge(OutputName[protos[i], plugin.outputs[j]]) :
                                  j \in 1 .. Len(plugin.outputs)}
  <2> DEFINE g == Of(i)
             e(j) == Premerge(OutputName[protos[i], plugin.outputs[j]])
  <2>1. /\ DOMAIN g = 1 .. Len(plugin.outputs) /\ g = [j \in 1 .. Len(plugin.outputs) |-> g[j]]
        /\ \A j \in 1 .. Len(plugin.outputs) : g[j] = e(j)
    OBVIOUS
  <2> HIDE DEF Of, g, e
  <2>2. IsSeq(g) /\ ToSet(g) = {g[j] : j \in 1 .. Len(plugin.outputs)}
    BY <1>1, <2>1, FunctionFacts
  <2>3. ToSet(g) = {e(j) : j \in 1 .. Len(plugin.outputs)}
    BY <2>1, <2>2
  <2> QED
    BY <2>2, <2>3 DEF g, e
<1>3. /\ DOMAIN ss = 1 .. Len(protos) /\ ss = [i \in 1 .. Len(protos) |-> ss[i]]
      /\ \A i \in 1 .. Len(protos) : ss[i] = Of(i)
  <2> HIDE DEF Of
  <2> QED
    OBVIOUS
<1>4. Declared(plugin, protos) = FlattenSeq(ss)
  BY DEF Declared
<1> HIDE DEF ss, Of
<1>5. IsSeq(ss) /\ ToSet(ss) = {ss[i] : i \in 1 .. Len(protos)}
  BY <1>1, <1>3, FunctionFacts
<1>6. \A s \in ToSet(ss) : IsSeq(s)
  BY <1>2, <1>3, <1>5
<1>7. /\ IsSeq(FlattenSeq(ss))
      /\ ToSet(FlattenSeq(ss)) = UNION {ToSet(s) : s \in ToSet(ss)}
  BY <1>5, <1>6, FlattenFacts
<1>8. ASSUME NEW f \in ToSet(FlattenSeq(ss))
      PROVE  MadeFrom(f, plugin, protos)
  <2>1. PICK s \in ToSet(ss) : f \in ToSet(s)
    BY <1>7
  <2>2. PICK i \in 1 .. Len(protos) : s = Of(i)
    BY <1>3, <1>5
  <2>3. PICK j \in 1 .. Len(plugin.outputs) : f = Premerge(OutputName[protos[i], plugin.outputs[j]])
    BY <1>2, <2>1, <2>2
  <2> QED
    BY <1>1, <2>3 DEF MadeFrom
<1> QED
  BY <1>4, <1>7, <1>8

\* The sources of a target.
LEMMA SourcesFacts ==
  ASSUME rule \in Rules
  PROVE  /\ IsSeq(FlattenSeq(rule.protos))
         /\ ToSet(FlattenSeq(rule.protos)) = UNION {ToSet(protos) : protos \in ToSet(rule.protos)}
         /\ Len(rule.plugins) \in Nat /\ DOMAIN rule.plugins = 1 .. Len(rule.plugins)
         /\ Len(rule.options) \in Nat
<1>1. /\ IsSeq(rule.protos) /\ IsSeq(rule.plugins) /\ IsSeq(rule.options)
      /\ \A protos \in ToSet(rule.protos) : IsSeq(protos)
  BY RulesAssumption DEF IsSeq
<1>2. /\ Len(rule.plugins) \in Nat /\ DOMAIN rule.plugins = 1 .. Len(rule.plugins)
      /\ Len(rule.options) \in Nat
  BY <1>1, SeqFacts DEF IsSeq
<1> QED
  BY <1>1, <1>2, FlattenFacts

LEMMA ProtosFacts ==
  ASSUME rule \in Rules, NEW plugin
  PROVE  /\ IsSeq(Protos(plugin))
         /\ ToSet(Protos(plugin)) = {p \in ToSet(FlattenSeq(rule.protos)) : ~ Excluded(plugin, p)}
         /\ Len(Protos(plugin)) = Cardinality(ToSet(Protos(plugin)))
BY SourcesFacts, IncludedFacts DEF Protos

\* What a plugin declares: where, with which extensions, and with a directory
\* only if it is one of those that have one.
LEMMA PluginFacts ==
  ASSUME rule \in Rules, NEW i \in 1 .. Len(rule.plugins), NEW p, p = rule.plugins[i]
  PROVE  /\ IsSeq(PluginOutputs(p)) /\ IsSeq(Generated(p)) /\ IsSeq(OutputDirs(p))
         /\ ToSet(PluginOutputs(p)) = ToSet(PerProto(p)) \cup ToSet(Out(p)) \cup ToSet(OutputDirs(p))
         /\ ToSet(Generated(p)) = ToSet(PerProto(p)) \cup
                                    {IF IsJar(f) THEN SrcJar(f) ELSE f : f \in ToSet(Out(p))}
         /\ \A f \in ToSet(PerProto(p)) \cup ToSet(Out(p)) : f.place = "premerge" /\ f.ext \notin OwnExts
         /\ \A f \in ToSet(Generated(p)) \cup ToSet(OutputDirs(p)) : f.place = "premerge"
         /\ ToSet(OutputDirs(p)) = IF p.directory THEN {OutputDir(p)} ELSE {}
         /\ \A f, g \in ToSet(Out(p)) : f = g
         /\ p.directory \in BOOLEAN /\ p.template \in BOOLEAN
         /\ PluginOutputs(p) = << >> <=> ToSet(PluginOutputs(p)) = {}
<1>1. /\ IsSeq(p.outputs) /\ p.directory \in BOOLEAN /\ p.template \in BOOLEAN
      /\ \A o \in p.out : o.ext \notin OwnExts
      /\ \A proto \in UNION {ToSet(protos) : protos \in ToSet(rule.protos)}, pattern \in ToSet(p.outputs) :
           OutputName[proto, pattern].ext \notin OwnExts
  <2>1. i \in DOMAIN rule.plugins
    BY SourcesFacts
  <2> QED
    BY <2>1, RulesAssumption DEF IsSeq
<1>2. IsSeq(PerProto(p)) /\ \A f \in ToSet(PerProto(p)) : f.place = "premerge" /\ f.ext \notin OwnExts
  <2>1. /\ IsSeq(Protos(p))
        /\ ToSet(Protos(p)) \subseteq UNION {ToSet(protos) : protos \in ToSet(rule.protos)}
    BY ProtosFacts, SourcesFacts
  <2>2. IsSeq(PerProto(p)) /\ \A f \in ToSet(PerProto(p)) : MadeFrom(f, p, Protos(p))
    <3>1. PerProto(p) = Declared(p, Protos(p))
      BY DEF PerProto
    <3> QED
      BY <1>1, <2>1, <3>1, DeclaredFacts
  <2>3. SUFFICES ASSUME NEW f \in ToSet(PerProto(p)) PROVE f.place = "premerge" /\ f.ext \notin OwnExts
    BY <2>2
  <2>4. PICK proto \in ToSet(Protos(p)), pattern \in ToSet(p.outputs) :
          f = Premerge(OutputName[proto, pattern])
    BY <2>2 DEF MadeFrom
  <2>5. OutputName[proto, pattern].ext \notin OwnExts
    BY <1>1, <2>1
  <2>6. f.place = "premerge" /\ f.ext = OutputName[proto, pattern].ext
    BY <2>4 DEF Premerge, File
  <2> QED
    BY <2>5, <2>6
<1>3. /\ IsSeq(Out(p)) /\ \A f \in ToSet(Out(p)) : f.place = "premerge" /\ f.ext \notin OwnExts
      /\ \A f, g \in ToSet(Out(p)) : f = g
  <2>1. CASE p.out = {}
    BY <2>1, OneFacts DEF Out
  <2>2. CASE p.out # {}
    <3> DEFINE o == CHOOSE o \in p.out : TRUE
    <3>1. o.ext \notin OwnExts
      BY <1>1, <2>2
    <3>2. Out(p) = <<Premerge(o)>> /\ Premerge(o).place = "premerge" /\ Premerge(o).ext = o.ext
      BY <2>2 DEF Out, Premerge, File
    <3> HIDE DEF o
    <3>3. IsSeq(<<Premerge(o)>>) /\ ToSet(<<Premerge(o)>>) = {Premerge(o)}
      BY OneFacts
    <3> QED
      BY <3>1, <3>2, <3>3
  <2> QED
    BY <2>1, <2>2
<1>4. /\ IsSeq(OutputDirs(p)) /\ ToSet(OutputDirs(p)) = IF p.directory THEN {OutputDir(p)} ELSE {}
      /\ OutputDir(p).place = "premerge"
  <2>1. OutputDir(p).place = "premerge"
    BY DEF OutputDir, File
  <2> QED
    BY <2>1, OneFacts DEF OutputDirs
<1>5. /\ IsSeq(PerProto(p) \o Out(p)) /\ ToSet(PerProto(p) \o Out(p)) = ToSet(PerProto(p)) \cup ToSet(Out(p))
  BY <1>2, <1>3, ConcatFacts
<1>6. /\ IsSeq(PluginOutputs(p))
      /\ ToSet(PluginOutputs(p)) = ToSet(PerProto(p)) \cup ToSet(Out(p)) \cup ToSet(OutputDirs(p))
  <2>1. PluginOutputs(p) = (PerProto(p) \o Out(p)) \o OutputDirs(p)
    BY DEF PluginOutputs
  <2> QED
    BY <1>4, <1>5, <2>1, ConcatFacts
<1>7. PluginOutputs(p) = << >> <=> ToSet(PluginOutputs(p)) = {}
  BY <1>6, SeqFacts DEF IsSeq
<1> DEFINE Kept == [j \in 1 .. Len(Out(p)) |-> IF IsJar(Out(p)[j]) THEN SrcJar(Out(p)[j]) ELSE Out(p)[j]]
           Keep(f) == IF IsJar(f) THEN SrcJar(f) ELSE f
<1>8. IsSeq(Kept) /\ ToSet(Kept) = {Keep(f) : f \in ToSet(Out(p))}
  <2>1. Len(Out(p)) \in Nat /\ ToSet(Out(p)) = {Out(p)[j] : j \in 1 .. Len(Out(p))}
    BY <1>3, SeqFacts DEF IsSeq
  <2>2. /\ DOMAIN Kept = 1 .. Len(Out(p)) /\ Kept = [j \in 1 .. Len(Out(p)) |-> Kept[j]]
        /\ \A j \in 1 .. Len(Out(p)) : Kept[j] = Keep(Out(p)[j])
    OBVIOUS
  <2> HIDE DEF Kept, Keep
  <2>3. IsSeq(Kept) /\ ToSet(Kept) = {Kept[j] : j \in 1 .. Len(Out(p))}
    BY <2>1, <2>2, FunctionFacts
  <2> QED
    BY <2>1, <2>2, <2>3
<1>9. Generated(p) = PerProto(p) \o Kept
  BY DEF Generated
<1> HIDE DEF Kept
<1>10. IsSeq(Generated(p)) /\ ToSet(Generated(p)) = ToSet(PerProto(p)) \cup ToSet(Kept)
  BY <1>2, <1>8, <1>9, ConcatFacts
<1>11. \A f \in ToSet(Out(p)) : Keep(f).place = "premerge"
  BY <1>3 DEF SrcJar
<1>12. \A f \in ToSet(Generated(p)) \cup ToSet(OutputDirs(p)) : f.place = "premerge"
  BY <1>2, <1>4, <1>8, <1>10, <1>11
<1> QED
  BY <1>1, <1>2, <1>3, <1>4, <1>6, <1>7, <1>8, <1>10, <1>12

-----------------------------------------------------------------------------
(* The target stays what it is *)

LEMMA SameOutputs ==
  ASSUME rule' = rule, NEW p
  PROVE  /\ Protos(p)' = Protos(p) /\ PerProto(p)' = PerProto(p)
         /\ PluginOutputs(p)' = PluginOutputs(p) /\ Generated(p)' = Generated(p)
         /\ Unusable(p)' = Unusable(p)
<1>1. Protos(p)' = Protos(p)
  BY DEF Protos
<1>2. PerProto(p)' = PerProto(p)
  BY <1>1 DEF PerProto
<1>3. PluginOutputs(p)' = PluginOutputs(p)
  BY <1>2 DEF PluginOutputs
<1>4. Generated(p)' = Generated(p)
  BY <1>2 DEF Generated
<1>5. Unusable(p)' = Unusable(p)
  BY <1>3 DEF Unusable
<1> QED
  BY <1>1, <1>2, <1>3, <1>4, <1>5

LEMMA SameActions ==
  ASSUME UNCHANGED <<rule, allOptions, pluginOptions>>, NEW p
  PROVE  PluginActions(p)' = PluginActions(p) /\ JarActions(p)' = JarActions(p)
<1>1. Options(p)' = Options(p)
  BY DEF Options
<1>2. \A outs : Protoc(p, outs)' = Protoc(p, outs)
  BY <1>1, SameOutputs DEF Protoc
<1>3. PluginActions(p)' = PluginActions(p)
  BY <1>2, SameOutputs DEF PluginActions
<1>4. JarActions(p)' = JarActions(p)
  BY DEF JarActions
<1> QED
  BY <1>3, <1>4

-----------------------------------------------------------------------------
(***************************************************************************)
(* The inductive invariant.  As long as the target is not refused, what    *)
(* has been registered is determined by how far the two loops have come:   *)
(* Through counts the options gone through, Passed the plugins.            *)
(***************************************************************************)

Through == IF pc = "options" THEN at - 1 ELSE Len(rule.options)

Passed == IF pc = "options" THEN 0 ELSE IF pc = "plugins" THEN at - 1 ELSE Len(rule.plugins)

Concluded == pc \in {"check", "done", "conflict"}

RanTo(n) == {rule.plugins[i] : i \in {j \in 1 .. n : Protos(rule.plugins[j]) # << >>}}

PointInv ==
  /\ rule \in Rules
  /\ pc \in {"options", "plugins", "check", "done", "failed", "conflict"}
  /\ at \in Nat /\ at >= 1
  /\ pc = "options" => at <= Len(rule.options) + 1
  /\ pc = "plugins" \/ Concluded => at <= Len(rule.plugins) + 1
  /\ DOMAIN pluginOptions = Labels

\* A label that is the plugin of a key has the options of that key or of a
\* later one, and every label that has options is the plugin of a key.
Reached ==
  \A i \in 1 .. Through : rule.options[i].key # Star =>
    LET label == Resolve(rule.options[i].key) IN
    /\ label \in Labels
    /\ \/ pluginOptions[label] = rule.options[i].opts
       \/ \E j \in i + 1 .. Through : pluginOptions[label] = rule.options[j].opts

Given ==
  \A l \in Labels : pluginOptions[l] # << >> =>
    \E i \in 1 .. Through : /\ rule.options[i].key # Star
                            /\ Resolve(rule.options[i].key) = l
                            /\ pluginOptions[l] = rule.options[i].opts

OptionsInv ==
  pc # "failed" =>
    /\ pc # "options" /\ Star \in Keys => Len(rule.options) <= 1
    /\ Reached /\ Given

PluginsInv ==
  pc # "failed" =>
    \A i \in 1 .. Passed : /\ ~ Mixed(rule.plugins[i])
                           /\ Protos(rule.plugins[i]) # << >> => ~ Unusable(rule.plugins[i])

FilesInv ==
  pc # "failed" =>
    /\ IsSeq(files) /\ IsSeq(dirs)
    /\ ToSet(files) = UNION {ToSet(Generated(p)) : p \in RanTo(Passed)}
    /\ ToSet(dirs) = UNION {ToSet(OutputDirs(p)) : p \in RanTo(Passed)}

ActionsOf(p) == PluginActions(p) \cup JarActions(p)

FinalActions ==
  IF dirs = << >> THEN {Copy(f, Destination(f)) : f \in ToSet(files)}
  ELSE {Action("write", NoPlugin, {}, {MergerManifest}, dirs \o files, << >>, << >>),
        Action("merger", NoPlugin, {MergerManifest} \cup ToSet(dirs) \cup ToSet(files),
               {MergedDir}, << >>, << >>, << >>)}

FinalOutputs == IF dirs = << >> THEN {Destination(f) : f \in ToSet(files)} ELSE {MergedDir}

ActionsInv ==
  pc # "failed" =>
    /\ actions = (UNION {ActionsOf(p) : p \in RanTo(Passed)}) \cup (IF Concluded THEN FinalActions ELSE {})
    /\ outputs = IF Concluded THEN FinalOutputs ELSE {}
    /\ Concluded /\ dirs # << >> => rule.mode = "PREFIXED"
    /\ pc = "done" => ~ Conflicting
    /\ pc = "conflict" => Conflicting

\* What is also true of a target that is refused half way.
KeptInv ==
  /\ \A f \in ToSet(files) \cup ToSet(dirs) : f.place = "premerge"
  /\ \A f \in outputs : f.place # "premerge"
  /\ \A a \in actions :
       /\ a.outputs # {} /\ \A f \in a.inputs \cup a.outputs : f.place \in Places
       /\ a.kind = "protoc" => \E p \in Ran : a.plugin = p.label /\ a.protos = Protos(p)

RefusedInv == pc = "failed" => Invalid

IInv == PointInv /\ OptionsInv /\ PluginsInv /\ FilesInv /\ ActionsInv /\ KeptInv /\ RefusedInv

-----------------------------------------------------------------------------
(* Facts about the invariant's operators *)

LEMMA SameTarget ==
  ASSUME rule' = rule
  PROVE  /\ Labels' = Labels /\ Keys' = Keys /\ Ran' = Ran /\ Invalid' = Invalid
         /\ \A n : RanTo(n)' = RanTo(n)
         /\ \A key : Resolve(key)' = Resolve(key)
<1>1. Labels' = Labels /\ Keys' = Keys
  BY DEF Labels, Keys
<1>2. \A n : RanTo(n)' = RanTo(n)
  BY SameOutputs DEF RanTo
<1>3. Ran' = Ran
  BY SameOutputs DEF Ran
<1>4. Invalid' = Invalid
  BY <1>1, <1>3, SameOutputs DEF Invalid
<1>5. \A key : Resolve(key)' = Resolve(key)
  BY DEF Resolve, Labels, Matches
<1> QED
  BY <1>1, <1>2, <1>3, <1>4, <1>5

LEMMA RanFacts ==
  ASSUME rule \in Rules
  PROVE  /\ RanTo(0) = {} /\ RanTo(Len(rule.plugins)) = Ran
         /\ \A n \in 1 .. Len(rule.plugins) :
              RanTo(n) = RanTo(n - 1) \cup (IF Protos(rule.plugins[n]) = << >> THEN {} ELSE {rule.plugins[n]})
         /\ \A p \in Ran : \E i \in 1 .. Len(rule.plugins) : p = rule.plugins[i] /\ Protos(p) # << >>
<1>1. RanTo(0) = {}
  <2>1. 1 .. 0 = {}
    OBVIOUS
  <2> QED
    BY <2>1 DEF RanTo
<1>2. RanTo(Len(rule.plugins)) = Ran
  BY DEF RanTo, Ran
<1>3. ASSUME NEW n \in 1 .. Len(rule.plugins)
      PROVE  RanTo(n) = RanTo(n - 1) \cup (IF Protos(rule.plugins[n]) = << >> THEN {} ELSE {rule.plugins[n]})
  <2>1. 1 .. n = (1 .. n - 1) \cup {n}
    BY SourcesFacts
  <2> QED
    BY <2>1 DEF RanTo
<1>4. \A p \in Ran : \E i \in 1 .. Len(rule.plugins) : p = rule.plugins[i] /\ Protos(p) # << >>
  BY DEF Ran
<1> QED
  BY <1>1, <1>2, <1>3, <1>4

\* A key is resolved to a plugin exactly when it names one, and then to that.
LEMMA ResolveFacts ==
  ASSUME rule \in Rules, NEW key, key # Star
  PROVE  /\ Resolve(key) \in Labels => Names(key, Resolve(key))
         /\ Resolve(key) \notin Labels => \A l \in Labels : ~ Names(key, l)
<1>1. CASE Parse[key] \in Labels
  BY <1>1 DEF Resolve, Names
<1>2. CASE Parse[key] \notin Labels /\ Matches(key) = {}
  <2>1. Resolve(key) = Parse[key]
    BY <1>2 DEF Resolve
  <2>2. \A l \in Labels : Apparent[l] # key
    BY <1>2 DEF Matches, Labels
  <2> QED
    BY <1>2, <2>1, <2>2 DEF Names
<1>3. CASE Parse[key] \notin Labels /\ Matches(key) # {}
  <2> DEFINE i == Max(Matches(key))
  <2>1. i \in Matches(key)
    <3>1. Len(rule.plugins) \in Nat /\ Matches(key) \in SUBSET (1 .. Len(rule.plugins))
      BY SourcesFacts DEF Matches
    <3> QED
      BY <1>3, <3>1, MaxFacts
  <2>2. Resolve(key) = rule.plugins[i].label
    BY <1>3 DEF Resolve
  <2> HIDE DEF i
  <2>3. i \in 1 .. Len(rule.plugins) /\ Apparent[rule.plugins[i].label] = key
    BY <2>1 DEF Matches
  <2> QED
    BY <2>2, <2>3 DEF Labels, Names
<1> QED
  BY <1>1, <1>2, <1>3

\* The actions of a plugin that is run: each makes something, in the places
\* where outputs are, and protoc is run for that plugin on its protos.
LEMMA ActionsOfFacts ==
  ASSUME rule \in Rules, NEW i \in 1 .. Len(rule.plugins), NEW p, p = rule.plugins[i],
         PluginOutputs(p) # << >>
  PROVE  \A a \in ActionsOf(p) :
           /\ a.outputs # {} /\ \A f \in a.inputs \cup a.outputs : f.place \in Places
           /\ a.kind = "protoc" => a.plugin = p.label /\ a.protos = Protos(p)
<1> DEFINE Fine(a) == /\ a.outputs # {} /\ \A f \in a.inputs \cup a.outputs : f.place \in Places
                      /\ a.kind = "protoc" => a.plugin = p.label /\ a.protos = Protos(p)
           outs == ToSet(PluginOutputs(p))
<1>1. /\ outs # {} /\ \A f \in outs : f.place = "premerge"
      /\ \A f \in ToSet(Out(p)) : f.place = "premerge"
  BY PluginFacts
<1> HIDE DEF outs
<1>2. /\ FixerManifest(p).place = "premerge" /\ UnfixedDir(p).place = "premerge"
      /\ "premerge" \in Places
  BY DEF FixerManifest, UnfixedDir, File, Places
<1>3. Fine(Action("write", NoPlugin, {}, {FixerManifest(p)}, PluginOutputs(p), << >>, << >>))
  BY <1>2 DEF Action
<1>4. Fine(Protoc(p, {UnfixedDir(p)}))
  BY <1>2 DEF Action, Protoc
<1>5. Fine(Action("fixer", p.label, {FixerManifest(p), UnfixedDir(p)}, outs, << >>, << >>, << >>))
  BY <1>1, <1>2 DEF Action
<1>6. Fine(Protoc(p, outs))
  BY <1>1, <1>2 DEF Action, Protoc
<1>7. ASSUME NEW f \in ToSet(Out(p)) PROVE Fine(Copy(f, SrcJar(f)))
  <2>1. f.place = "premerge" /\ SrcJar(f).place = "premerge"
    BY <1>1 DEF SrcJar
  <2> QED
    BY <1>2, <2>1 DEF Action, Copy
<1>8. \A a \in PluginActions(p) :
        \/ a = Action("write", NoPlugin, {}, {FixerManifest(p)}, PluginOutputs(p), << >>, << >>)
        \/ a = Protoc(p, {UnfixedDir(p)})
        \/ a = Action("fixer", p.label, {FixerManifest(p), UnfixedDir(p)}, outs, << >>, << >>, << >>)
        \/ a = Protoc(p, outs)
  BY DEF PluginActions, outs
<1>9. \A a \in JarActions(p) : \E f \in ToSet(Out(p)) : a = Copy(f, SrcJar(f))
  BY DEF JarActions
<1> HIDE DEF Fine
<1>10. \A a \in ActionsOf(p) : Fine(a)
  BY <1>3, <1>4, <1>5, <1>6, <1>7, <1>8, <1>9 DEF ActionsOf
<1> QED
  BY <1>10 DEF Fine

-----------------------------------------------------------------------------
(* What a step leaves as it is *)

LEMMA PointStep ==
  ASSUME PointInv, [AnalysisNext]_analysisVars
  PROVE  PointInv'
<1> USE DEF PointInv, Concluded
<1>1. rule' = rule /\ Labels' = Labels /\ Len(rule.plugins) \in Nat /\ Len(rule.options) \in Nat
  <2>1. rule' = rule
    BY DEF AnalysisNext, analysisVars, ResolveKey, ResolveStar, RejectPlugin, SkipPlugin, AddPlugin,
           MergeOutputs, RejectMode, CopyOutputs, CheckActions, Fail
  <2> QED
    BY <2>1, SameTarget, SourcesFacts
<1>2. ASSUME Fail, pc # "failed" PROVE PointInv'
  BY <1>1, <1>2 DEF Fail
<1>3. CASE ResolveKey
  BY <1>1, <1>2, <1>3 DEF ResolveKey
<1>4. CASE ResolveStar
  BY <1>1, <1>2, <1>4 DEF ResolveStar
<1>5. CASE RejectPlugin
  BY <1>1, <1>2, <1>5 DEF RejectPlugin, AtPlugin
<1>6. CASE SkipPlugin
  BY <1>1, <1>6 DEF SkipPlugin, AtPlugin
<1>7. CASE AddPlugin
  BY <1>1, <1>7 DEF AddPlugin, AtPlugin
<1>8. CASE MergeOutputs
  BY <1>1, <1>8 DEF MergeOutputs, PluginsDone
<1>9. CASE RejectMode
  BY <1>1, <1>2, <1>9 DEF RejectMode, PluginsDone
<1>10. CASE CopyOutputs
  BY <1>1, <1>10 DEF CopyOutputs, PluginsDone
<1>11. CASE CheckActions
  BY <1>1, <1>11 DEF CheckActions
<1>12. CASE UNCHANGED analysisVars
  BY <1>1, <1>12 DEF analysisVars
<1> QED
  BY <1>3, <1>4, <1>5, <1>6, <1>7, <1>8, <1>9, <1>10, <1>11, <1>12 DEF AnalysisNext

LEMMA KeptSame ==
  ASSUME KeptInv, UNCHANGED <<rule, files, dirs, actions, outputs>>
  PROVE  KeptInv'
<1>1. Ran' = Ran /\ \A p : Protos(p)' = Protos(p)
  BY SameTarget, SameOutputs
<1> QED
  BY <1>1 DEF KeptInv

LEMMA OptionsSame ==
  ASSUME OptionsInv, pc # "failed", UNCHANGED <<rule, pluginOptions>>, Through' = Through,
         pc' # "options" /\ Star \in Keys => Len(rule.options) <= 1
  PROVE  OptionsInv'
<1>1. Labels' = Labels /\ Keys' = Keys /\ \A key : Resolve(key)' = Resolve(key)
  BY SameTarget
<1>2. (Reached => Reached') /\ (Given => Given')
  BY <1>1 DEF Reached, Given
<1> QED
  BY <1>1, <1>2 DEF OptionsInv

LEMMA PluginsSame ==
  ASSUME PluginsInv, pc # "failed", rule' = rule, Passed' = Passed
  PROVE  PluginsInv'
BY SameOutputs DEF PluginsInv, Mixed

\* What was registered stays so, whatever options change before a plugin is run.
LEMMA ActionsSame ==
  ASSUME rule' = rule, Passed' = Passed,
         UNCHANGED <<allOptions, pluginOptions>> \/ RanTo(Passed) = {}
  PROVE  /\ RanTo(Passed)' = RanTo(Passed)
         /\ (UNION {ActionsOf(p) : p \in RanTo(Passed)})' = UNION {ActionsOf(p) : p \in RanTo(Passed)}
<1>1. RanTo(Passed)' = RanTo(Passed)
  BY SameTarget
<1>2. CASE UNCHANGED <<allOptions, pluginOptions>>
  <2>1. \A p : ActionsOf(p)' = ActionsOf(p)
    BY <1>2, SameActions DEF ActionsOf
  <2> QED
    BY <1>1, <2>1
<1>3. CASE RanTo(Passed) = {}
  BY <1>1, <1>3
<1> QED
  BY <1>1, <1>2, <1>3

LEMMA FinalSame ==
  ASSUME UNCHANGED <<rule, files, dirs>>
  PROVE  FinalActions' = FinalActions /\ FinalOutputs' = FinalOutputs
<1>1. MergedDir' = MergedDir
  BY DEF MergedDir
<1>2. \A f : Destination(f)' = Destination(f)
  BY DEF Destination
<1> QED
  BY <1>1, <1>2 DEF FinalActions, FinalOutputs

LEMMA Quiet ==
  ASSUME FilesInv, ActionsInv, UNCHANGED <<rule, files, dirs, actions, outputs>>,
         pc # "failed", Passed' = Passed, Concluded' = Concluded,
         UNCHANGED <<allOptions, pluginOptions>> \/ RanTo(Passed) = {},
         pc' = "done" => ~ Conflicting, pc' = "conflict" => Conflicting
  PROVE  FilesInv' /\ ActionsInv'
<1>1. /\ RanTo(Passed)' = RanTo(Passed)
      /\ (UNION {ActionsOf(p) : p \in RanTo(Passed)})' = UNION {ActionsOf(p) : p \in RanTo(Passed)}
  BY ActionsSame
<1>2. \A p : Generated(p)' = Generated(p) /\ OutputDirs(p)' = OutputDirs(p)
  BY SameOutputs DEF OutputDirs, OutputDir
<1>3. FinalActions' = FinalActions /\ FinalOutputs' = FinalOutputs
  BY FinalSame
<1>4. Conflicting' <=> Conflicting
  BY DEF Conflicting
<1>5. FilesInv'
  BY <1>1, <1>2 DEF FilesInv
<1>6. ActionsInv'
  BY <1>1, <1>3, <1>4 DEF ActionsInv
<1> QED
  BY <1>5, <1>6

LEMMA FailStep ==
  ASSUME IInv, Fail, Invalid, PointInv'
  PROVE  IInv'
<1>1. Invalid'
  BY SameTarget DEF Fail
<1>2. KeptInv'
  BY KeptSame DEF IInv, Fail
<1>3. OptionsInv' /\ PluginsInv' /\ FilesInv' /\ ActionsInv' /\ RefusedInv'
  BY <1>1 DEF Fail, OptionsInv, PluginsInv, FilesInv, ActionsInv, RefusedInv
<1> QED
  BY <1>2, <1>3 DEF IInv

LEMMA StutterStep ==
  ASSUME IInv, UNCHANGED analysisVars, PointInv'
  PROVE  IInv'
<1> USE DEF analysisVars
<1>1. KeptInv'
  BY KeptSame DEF IInv
<1>2. Through' = Through /\ Passed' = Passed /\ Concluded' = Concluded /\ Invalid' = Invalid
  BY SameTarget DEF Through, Passed, Concluded
<1>3. CASE pc = "failed"
  BY <1>1, <1>2, <1>3 DEF IInv, OptionsInv, PluginsInv, FilesInv, ActionsInv, RefusedInv
<1>4. CASE pc # "failed"
  <2>1. OptionsInv'
    BY <1>2, <1>4, OptionsSame DEF IInv, OptionsInv
  <2>2. PluginsInv'
    BY <1>2, <1>4, PluginsSame DEF IInv
  <2>3. FilesInv' /\ ActionsInv'
    BY <1>2, <1>4, Quiet DEF IInv, ActionsInv
  <2>4. RefusedInv'
    BY <1>4 DEF RefusedInv
  <2> QED
    BY <1>1, <2>1, <2>2, <2>3, <2>4 DEF IInv
<1> QED
  BY <1>3, <1>4

-----------------------------------------------------------------------------
(* The actions of the analysis *)

LEMMA ResolveKeyStep ==
  ASSUME IInv, ResolveKey, PointInv'
  PROVE  IInv'
<1> DEFINE key == rule.options[at].key
           opts == rule.options[at].opts
           label == Resolve(key)
<1>1. /\ pc = "options" /\ at \in 1 .. Len(rule.options) /\ Len(rule.options) \in Nat
      /\ rule \in Rules
  BY SourcesFacts DEF IInv, PointInv, ResolveKey
<1>2. CASE Fail
  <2>1. CASE key # Star /\ label \notin Labels
    <3>1. \A l \in Labels : ~ Names(key, l)
      BY <1>1, <2>1, ResolveFacts
    <3>2. Invalid
      BY <1>1, <2>1, <3>1 DEF Invalid
    <3> QED
      BY <1>2, <3>2, FailStep
  <2>2. CASE ~ (key # Star /\ label \notin Labels)
    BY <1>1, <1>2, <2>2 DEF ResolveKey, Fail
  <2> QED
    BY <2>1, <2>2
<1>3. CASE ~ Fail
  <2>1. /\ at' = at + 1 /\ UNCHANGED <<rule, pc, allOptions, files, dirs, actions, outputs>>
        /\ \/ key = Star /\ pluginOptions' = pluginOptions
           \/ /\ key # Star /\ label \in Labels
              /\ pluginOptions' = [pluginOptions EXCEPT ![label] = opts]
    BY <1>3 DEF ResolveKey
  <2>2. /\ Through = at - 1 /\ Through' = at /\ Passed = 0 /\ Passed' = 0
        /\ Concluded' = Concluded /\ ~ Concluded /\ pc # "failed" /\ pc' = "options"
    BY <1>1, <2>1 DEF Through, Passed, Concluded
  <2>3. RanTo(Passed) = {}
    BY <1>1, <2>2, RanFacts
  <2>4. FilesInv' /\ ActionsInv'
    BY <2>1, <2>2, <2>3, Quiet DEF IInv
  <2>5. PluginsInv' /\ KeptInv' /\ RefusedInv'
    BY <2>1, <2>2, PluginsSame, KeptSame DEF IInv, RefusedInv
  <2>6. Labels' = Labels /\ Keys' = Keys /\ \A k : Resolve(k)' = Resolve(k)
    BY <2>1, SameTarget
  <2> DEFINE From(l, i) == /\ rule.options[i].key # Star /\ Resolve(rule.options[i].key) = l
                           /\ pluginOptions[l] = rule.options[i].opts
  <2>7. /\ \A i \in 1 .. at - 1 : rule.options[i].key # Star =>
             LET l == Resolve(rule.options[i].key) IN
             /\ l \in Labels
             /\ \/ pluginOptions[l] = rule.options[i].opts
                \/ \E j \in i + 1 .. at - 1 : pluginOptions[l] = rule.options[j].opts
        /\ \A l \in Labels : pluginOptions[l] # << >> => \E i \in 1 .. at - 1 : From(l, i)
        /\ DOMAIN pluginOptions = Labels
    BY <2>2 DEF IInv, OptionsInv, PointInv, Reached, Given
  <2>8. ASSUME NEW i \in 1 .. at, rule.options[i].key # Star
        PROVE  LET l == Resolve(rule.options[i].key) IN
               /\ l \in Labels
               /\ \/ pluginOptions'[l] = rule.options[i].opts
                  \/ \E j \in i + 1 .. at : pluginOptions'[l] = rule.options[j].opts
    <3>1. CASE i = at
      BY <2>1, <2>7, <2>8, <3>1
    <3>2. CASE i # at
      <4> DEFINE l == Resolve(rule.options[i].key)
      <4>1. i \in 1 .. at - 1 /\ \A j \in i + 1 .. at - 1 : j \in i + 1 .. at
        BY <1>1, <3>2
      <4>2. /\ l \in Labels
            /\ \/ pluginOptions[l] = rule.options[i].opts
               \/ \E j \in i + 1 .. at - 1 : pluginOptions[l] = rule.options[j].opts
        BY <2>7, <2>8, <4>1
      <4>3. at \in i + 1 .. at
        BY <1>1, <4>1
      <4> HIDE DEF l, label
      <4>4. pluginOptions'[l] = pluginOptions[l] \/ pluginOptions'[l] = opts
        BY <2>1, <2>7, <4>2
      <4>5. CASE pluginOptions'[l] = opts
        BY <4>2, <4>3, <4>5 DEF l
      <4>6. CASE pluginOptions'[l] = pluginOptions[l]
        <5>1. \/ pluginOptions'[l] = rule.options[i].opts
              \/ \E j \in i + 1 .. at : pluginOptions'[l] = rule.options[j].opts
          BY <4>1, <4>2, <4>6
        <5> QED
          BY <4>2, <5>1 DEF l
      <4> QED
        BY <4>4, <4>5, <4>6
    <3> QED
      BY <3>1, <3>2
  <2>9. ASSUME NEW l \in Labels, pluginOptions'[l] # << >>
        PROVE  \E i \in 1 .. at : /\ rule.options[i].key # Star /\ Resolve(rule.options[i].key) = l
                                  /\ pluginOptions'[l] = rule.options[i].opts
    <3>1. at \in 1 .. at /\ \A i \in 1 .. at - 1 : i \in 1 .. at
      BY <1>1
    <3>2. CASE key # Star /\ label = l
      <4>1. pluginOptions'[l] = opts
        BY <2>1, <2>7, <3>2
      <4> QED
        BY <3>1, <3>2, <4>1
    <3>3. CASE ~ (key # Star /\ label = l)
      <4>1. pluginOptions'[l] = pluginOptions[l]
        BY <2>1, <2>7, <3>3
      <4>2. PICK i \in 1 .. at - 1 : From(l, i)
        BY <2>7, <2>9, <4>1
      <4> QED
        BY <3>1, <4>1, <4>2
    <3> QED
      BY <3>2, <3>3
  <2>10. OptionsInv'
    <3>1. /\ pc' = "options" /\ Through' = at /\ rule' = rule /\ Labels' = Labels
          /\ \A i : Resolve(rule.options[i].key)' = Resolve(rule.options[i].key)
      BY <2>1, <2>2, <2>6
    <3>2. Reached'
      BY <2>8, <3>1 DEF Reached
    <3>3. Given'
      BY <2>9, <3>1 DEF Given
    <3> QED
      BY <3>1, <3>2, <3>3 DEF OptionsInv
  <2> QED
    BY <2>4, <2>5, <2>10 DEF IInv
<1> QED
  BY <1>2, <1>3

LEMMA ResolveStarStep ==
  ASSUME IInv, ResolveStar, PointInv'
  PROVE  IInv'
<1>1. /\ pc = "options" /\ at = Len(rule.options) + 1 /\ Len(rule.options) \in Nat
      /\ rule \in Rules
  BY SourcesFacts DEF IInv, PointInv, ResolveStar
<1>2. CASE Star \in Keys /\ Len(rule.options) > 1 /\ Fail
  <2>1. Invalid
    BY <1>2 DEF Invalid
  <2> QED
    BY <1>2, <2>1, FailStep
<1>3. CASE (Star \in Keys => Len(rule.options) = 1) /\ pc' = "plugins"
  <2>1. at' = 1 /\ UNCHANGED <<rule, pluginOptions, files, dirs, actions, outputs>>
    BY <1>3 DEF ResolveStar, Fail
  <2>2. /\ Through' = Through /\ Passed = 0 /\ Passed' = 0 /\ Concluded' = Concluded /\ pc # "failed"
    BY <1>1, <1>3, <2>1 DEF Through, Passed, Concluded
  <2>3. RanTo(Passed) = {}
    BY <1>1, <2>2, RanFacts
  <2>4. FilesInv' /\ ActionsInv'
    BY <1>3, <2>1, <2>2, <2>3, Quiet DEF IInv
  <2>5. PluginsInv' /\ KeptInv' /\ RefusedInv'
    BY <1>3, <2>1, <2>2, PluginsSame, KeptSame DEF IInv, RefusedInv
  <2>6. OptionsInv'
    <3>1. ASSUME Star \in Keys PROVE Len(rule.options) <= 1
      <4>1. Len(rule.options) = 1
        BY <1>3, <3>1
      <4> QED
        BY <4>1
    <3> QED
      BY <2>1, <2>2, <3>1, OptionsSame DEF IInv
  <2> QED
    BY <2>4, <2>5, <2>6 DEF IInv
<1> QED
  BY <1>2, <1>3 DEF ResolveStar

LEMMA RejectPluginStep ==
  ASSUME IInv, RejectPlugin, PointInv'
  PROVE  IInv'
<1>1. rule \in Rules /\ Len(rule.plugins) \in Nat /\ at \in 1 .. Len(rule.plugins) /\ Fail
  BY SourcesFacts DEF IInv, PointInv, RejectPlugin, AtPlugin
<1>2. CASE Mixed(Plugin)
  BY <1>1, <1>2, FailStep DEF Invalid, Plugin
<1>3. CASE Protos(Plugin) # << >> /\ Unusable(Plugin)
  <2>1. Plugin \in Ran
    BY <1>1, <1>3 DEF Ran, Plugin
  <2>2. Invalid
    BY <1>3, <2>1 DEF Invalid
  <2> QED
    BY <1>1, <2>2, FailStep
<1> QED
  BY <1>2, <1>3 DEF RejectPlugin

LEMMA RejectModeStep ==
  ASSUME IInv, RejectMode, PointInv'
  PROVE  IInv'
<1>1. /\ rule \in Rules /\ Len(rule.plugins) \in Nat /\ at = Len(rule.plugins) + 1 /\ Fail
      /\ pc = "plugins" /\ dirs # << >> /\ rule.mode # "PREFIXED"
  BY SourcesFacts DEF IInv, PointInv, RejectMode, PluginsDone
<1>2. Passed = Len(rule.plugins)
  BY <1>1 DEF Passed
<1>3. IsSeq(dirs) /\ ToSet(dirs) = UNION {ToSet(OutputDirs(p)) : p \in Ran}
  BY <1>1, <1>2, RanFacts DEF IInv, FilesInv
<1>4. PICK d \in ToSet(dirs) : TRUE
  BY <1>1, <1>3, SeqFacts DEF IsSeq
<1>5. PICK p \in Ran : d \in ToSet(OutputDirs(p))
  BY <1>3
<1>6. p.directory
  <2>1. PICK i \in 1 .. Len(rule.plugins) : p = rule.plugins[i]
    BY <1>1, RanFacts
  <2>2. ToSet(OutputDirs(p)) = IF p.directory THEN {OutputDir(p)} ELSE {}
    BY <1>1, <2>1, PluginFacts
  <2> QED
    BY <1>5, <2>2
<1>7. Invalid
  BY <1>1, <1>6 DEF Invalid
<1> QED
  BY <1>1, <1>7, FailStep

LEMMA SkipPluginStep ==
  ASSUME IInv, SkipPlugin, PointInv'
  PROVE  IInv'
<1>1. /\ rule \in Rules /\ at \in 1 .. Len(rule.plugins) /\ Len(rule.plugins) \in Nat
      /\ pc = "plugins" /\ pc' = "plugins" /\ at' = at + 1
      /\ UNCHANGED <<rule, pluginOptions, allOptions, files, dirs, actions, outputs>>
      /\ ~ Mixed(rule.plugins[at]) /\ Protos(rule.plugins[at]) = << >>
  BY SourcesFacts DEF IInv, PointInv, SkipPlugin, AtPlugin, Plugin
<1>2. /\ Through' = Through /\ Passed = at - 1 /\ Passed' = at /\ ~ Concluded /\ ~ Concluded'
  BY <1>1 DEF Through, Passed, Concluded
<1>3. RanTo(at) = RanTo(at - 1) /\ \A n : RanTo(n)' = RanTo(n)
  BY <1>1, RanFacts, SameTarget
<1>4. RanTo(Passed)' = RanTo(Passed)
  BY <1>2, <1>3
<1>5. \A p : /\ Generated(p)' = Generated(p) /\ OutputDirs(p)' = OutputDirs(p)
             /\ ActionsOf(p)' = ActionsOf(p)
  BY <1>1, SameOutputs, SameActions DEF OutputDirs, OutputDir, ActionsOf
<1>6. FilesInv'
  BY <1>1, <1>4, <1>5 DEF IInv, FilesInv
<1>7. ActionsInv'
  BY <1>1, <1>2, <1>4, <1>5 DEF IInv, ActionsInv
<1>8. OptionsInv'
  BY <1>1, <1>2, OptionsSame DEF IInv, OptionsInv
<1>9. KeptInv' /\ RefusedInv'
  BY <1>1, KeptSame DEF IInv, RefusedInv
<1>10. PluginsInv'
  <2>1. /\ \A i \in 1 .. at : ~ Mixed(rule.plugins[i])
        /\ \A i \in 1 .. at : Protos(rule.plugins[i]) # << >> => ~ Unusable(rule.plugins[i])
    <3>1. \A i \in 1 .. at : i = at \/ i \in 1 .. at - 1
      BY <1>1
    <3> QED
      BY <1>1, <1>2, <3>1 DEF IInv, PluginsInv
  <2> QED
    BY <1>1, <1>2, <2>1, SameOutputs DEF PluginsInv, Mixed
<1> QED
  BY <1>6, <1>7, <1>8, <1>9, <1>10 DEF IInv

LEMMA AddPluginStep ==
  ASSUME IInv, AddPlugin, PointInv'
  PROVE  IInv'
<1> DEFINE q == rule.plugins[at]
<1>1. /\ rule \in Rules /\ at \in 1 .. Len(rule.plugins) /\ Len(rule.plugins) \in Nat
      /\ pc = "plugins" /\ pc' = "plugins" /\ at' = at + 1
      /\ UNCHANGED <<rule, pluginOptions, allOptions, outputs>>
      /\ ~ Mixed(q) /\ Protos(q) # << >> /\ ~ Unusable(q)
      /\ files' = files \o Generated(q) /\ dirs' = dirs \o OutputDirs(q)
      /\ actions' = actions \cup ActionsOf(q)
  BY SourcesFacts DEF IInv, PointInv, AddPlugin, AtPlugin, Plugin, ActionsOf
<1>2. /\ Through' = Through /\ Passed = at - 1 /\ Passed' = at /\ ~ Concluded /\ ~ Concluded'
  BY <1>1 DEF Through, Passed, Concluded
<1>3. RanTo(at) = RanTo(at - 1) \cup {q} /\ \A n : RanTo(n)' = RanTo(n)
  BY <1>1, RanFacts, SameTarget
<1>4. RanTo(Passed)' = RanTo(Passed) \cup {q}
  BY <1>2, <1>3
<1>5. \A p : /\ Generated(p)' = Generated(p) /\ OutputDirs(p)' = OutputDirs(p)
             /\ ActionsOf(p)' = ActionsOf(p)
  BY <1>1, SameOutputs, SameActions DEF OutputDirs, OutputDir, ActionsOf
<1>6. /\ IsSeq(Generated(q)) /\ IsSeq(OutputDirs(q)) /\ PluginOutputs(q) # << >>
      /\ \A f \in ToSet(Generated(q)) \cup ToSet(OutputDirs(q)) : f.place = "premerge"
  BY <1>1, PluginFacts DEF Unusable
<1>7. /\ IsSeq(files) /\ IsSeq(dirs)
      /\ ToSet(files) = UNION {ToSet(Generated(p)) : p \in RanTo(Passed)}
      /\ ToSet(dirs) = UNION {ToSet(OutputDirs(p)) : p \in RanTo(Passed)}
  BY <1>1 DEF IInv, FilesInv
<1>8. /\ IsSeq(files') /\ ToSet(files') = ToSet(files) \cup ToSet(Generated(q))
      /\ IsSeq(dirs') /\ ToSet(dirs') = ToSet(dirs) \cup ToSet(OutputDirs(q))
  BY <1>1, <1>6, <1>7, ConcatFacts
<1> HIDE DEF q
<1>9. FilesInv'
  <2>1. (UNION {ToSet(Generated(p)) : p \in RanTo(Passed)})' = ToSet(files')
    BY <1>4, <1>5, <1>7, <1>8
  <2>2. (UNION {ToSet(OutputDirs(p)) : p \in RanTo(Passed)})' = ToSet(dirs')
    BY <1>4, <1>5, <1>7, <1>8
  <2> QED
    BY <1>8, <2>1, <2>2 DEF FilesInv, IsSeq
<1>10. ActionsInv'
  <2>1. actions = UNION {ActionsOf(p) : p \in RanTo(Passed)} /\ outputs = {}
    BY <1>1, <1>2 DEF IInv, ActionsInv
  <2>2. (UNION {ActionsOf(p) : p \in RanTo(Passed)})' = actions'
    BY <1>1, <1>4, <1>5, <2>1
  <2> QED
    BY <1>1, <1>2, <2>1, <2>2 DEF ActionsInv
<1>11. OptionsInv'
  BY <1>1, <1>2, OptionsSame DEF IInv, OptionsInv
<1>12. RefusedInv'
  BY <1>1 DEF RefusedInv
<1>13. PluginsInv'
  <2>1. /\ \A i \in 1 .. at : ~ Mixed(rule.plugins[i])
        /\ \A i \in 1 .. at : Protos(rule.plugins[i]) # << >> => ~ Unusable(rule.plugins[i])
    <3>1. \A i \in 1 .. at : i = at \/ i \in 1 .. at - 1
      BY <1>1
    <3> QED
      BY <1>1, <1>2, <3>1 DEF IInv, PluginsInv, q
  <2> QED
    BY <1>1, <1>2, <2>1, SameOutputs DEF PluginsInv, Mixed
<1>14. KeptInv'
  <2>1. Ran' = Ran /\ \A p : Protos(p)' = Protos(p)
    BY <1>1, SameTarget, SameOutputs
  <2>2. q \in Ran
    BY <1>1 DEF Ran, q
  <2>3. \A a \in ActionsOf(q) :
           /\ a.outputs # {} /\ \A f \in a.inputs \cup a.outputs : f.place \in Places
           /\ a.kind = "protoc" => a.plugin = q.label /\ a.protos = Protos(q)
    BY <1>1, <1>6, ActionsOfFacts DEF q
  <2>4. \A f \in ToSet(files') \cup ToSet(dirs') : f.place = "premerge"
    BY <1>6, <1>8 DEF IInv, KeptInv
  <2>5. \A a \in actions' :
          /\ a.outputs # {} /\ \A f \in a.inputs \cup a.outputs : f.place \in Places
          /\ a.kind = "protoc" => \E p \in Ran : a.plugin = p.label /\ a.protos = Protos(p)
    BY <1>1, <2>2, <2>3 DEF IInv, KeptInv
  <2> QED
    BY <1>1, <2>1, <2>4, <2>5 DEF IInv, KeptInv
<1> QED
  BY <1>9, <1>10, <1>11, <1>12, <1>13, <1>14 DEF IInv

\* The end of the loop: the final actions, of either kind.
LEMMA ConcludeStep ==
  ASSUME IInv, MergeOutputs \/ CopyOutputs, PointInv'
  PROVE  IInv'
<1>1. /\ rule \in Rules /\ at = Len(rule.plugins) + 1 /\ Len(rule.plugins) \in Nat
      /\ pc = "plugins" /\ pc' = "check" /\ at' = at
      /\ UNCHANGED <<rule, pluginOptions, allOptions, files, dirs>>
      /\ actions' = actions \cup FinalActions /\ outputs' = FinalOutputs
      /\ dirs # << >> => rule.mode = "PREFIXED"
  <2>1. rule \in Rules /\ at = Len(rule.plugins) + 1 /\ Len(rule.plugins) \in Nat
    BY SourcesFacts DEF IInv, PointInv, MergeOutputs, CopyOutputs, PluginsDone
  <2>2. CASE MergeOutputs
    <3>1. dirs # << >>
      BY <2>2 DEF MergeOutputs
    <3> QED
      BY <2>1, <2>2, <3>1 DEF MergeOutputs, PluginsDone, FinalActions, FinalOutputs
  <2>3. CASE CopyOutputs
    <3>1. dirs = << >>
      BY <2>3 DEF CopyOutputs
    <3>2. /\ FinalActions = {Copy(f, Destination(f)) : f \in ToSet(files)}
          /\ FinalOutputs = {Destination(f) : f \in ToSet(files)}
      BY <3>1 DEF FinalActions, FinalOutputs
    <3> QED
      BY <2>1, <2>3, <3>1, <3>2 DEF CopyOutputs, PluginsDone
  <2> QED
    BY <2>2, <2>3
<1>2. /\ Through' = Through /\ Passed' = Passed /\ ~ Concluded /\ Concluded'
  BY <1>1 DEF Through, Passed, Concluded
<1>3. /\ RanTo(Passed)' = RanTo(Passed)
      /\ (UNION {ActionsOf(p) : p \in RanTo(Passed)})' = UNION {ActionsOf(p) : p \in RanTo(Passed)}
  BY <1>1, <1>2, ActionsSame
<1>4. FinalActions' = FinalActions /\ FinalOutputs' = FinalOutputs
  BY <1>1, FinalSame
<1>5. FilesInv'
  <2>1. \A p : Generated(p)' = Generated(p) /\ OutputDirs(p)' = OutputDirs(p)
    BY <1>1, SameOutputs DEF OutputDirs, OutputDir
  <2> QED
    BY <1>1, <1>3, <2>1 DEF IInv, FilesInv
<1>6. ActionsInv'
  <2>1. actions = UNION {ActionsOf(p) : p \in RanTo(Passed)}
    BY <1>1, <1>2 DEF IInv, ActionsInv
  <2>2. actions' = (UNION {ActionsOf(p) : p \in RanTo(Passed)})' \cup FinalActions'
    BY <1>1, <1>3, <1>4, <2>1
  <2> QED
    BY <1>1, <1>2, <1>4, <2>2 DEF ActionsInv
<1>7. OptionsInv'
  BY <1>1, <1>2, OptionsSame DEF IInv, OptionsInv
<1>8. PluginsInv' /\ RefusedInv'
  BY <1>1, <1>2, PluginsSame DEF IInv, RefusedInv
<1>9. KeptInv'
  <2>1. Ran' = Ran /\ \A p : Protos(p)' = Protos(p)
    BY <1>1, SameTarget, SameOutputs
  <2>2. /\ \A f : Destination(f).place \in {"target", "package"}
        /\ MergedDir.place = "target" /\ MergerManifest.place = "premerge"
        /\ \A f \in ToSet(files) \cup ToSet(dirs) : f.place = "premerge"
    BY DEF Destination, MergedDir, MergerManifest, File, IInv, KeptInv
  <2>3. \A f \in outputs' : f.place # "premerge"
    BY <1>1, <2>2 DEF FinalOutputs
  <2>4. ASSUME NEW a \in FinalActions
        PROVE  /\ a.outputs # {} /\ \A f \in a.inputs \cup a.outputs : f.place \in Places
               /\ a.kind # "protoc"
    <3>1. CASE dirs = << >>
      <4>1. PICK f \in ToSet(files) : a = Copy(f, Destination(f))
        BY <2>4, <3>1 DEF FinalActions
      <4>2. a.kind = "copy" /\ a.inputs = {f} /\ a.outputs = {Destination(f)}
        BY <4>1 DEF Copy, Action
      <4> QED
        BY <2>2, <4>2 DEF Places
    <3>2. CASE dirs # << >>
      <4>1. /\ a.kind \in {"write", "merger"} /\ a.outputs \in {{MergerManifest}, {MergedDir}}
            /\ a.inputs \subseteq {MergerManifest} \cup ToSet(dirs) \cup ToSet(files)
        BY <2>4, <3>2 DEF FinalActions, Action
      <4> QED
        BY <2>2, <4>1 DEF Places
    <3> QED
      BY <3>1, <3>2
  <2>5. \A a \in actions' :
          /\ a.outputs # {} /\ \A f \in a.inputs \cup a.outputs : f.place \in Places
          /\ a.kind = "protoc" => \E p \in Ran : a.plugin = p.label /\ a.protos = Protos(p)
    BY <1>1, <2>4 DEF IInv, KeptInv
  <2> QED
    BY <1>1, <2>1, <2>2, <2>3, <2>5 DEF KeptInv
<1> QED
  BY <1>5, <1>6, <1>7, <1>8, <1>9 DEF IInv

LEMMA CheckActionsStep ==
  ASSUME IInv, CheckActions, PointInv'
  PROVE  IInv'
<1>1. /\ pc = "check" /\ pc' = IF Conflicting THEN "conflict" ELSE "done"
      /\ UNCHANGED <<rule, at, pluginOptions, allOptions, files, dirs, actions, outputs>>
  BY DEF CheckActions
<1>2. /\ Through' = Through /\ Passed' = Passed /\ Concluded /\ Concluded' /\ pc' # "failed"
      /\ pc' = "done" => ~ Conflicting
      /\ pc' = "conflict" => Conflicting
  BY <1>1 DEF Through, Passed, Concluded
<1>3. FilesInv' /\ ActionsInv'
  BY <1>1, <1>2, Quiet DEF IInv
<1>4. OptionsInv'
  BY <1>1, <1>2, OptionsSame DEF IInv, OptionsInv
<1>5. PluginsInv' /\ RefusedInv' /\ KeptInv'
  BY <1>1, <1>2, PluginsSame, KeptSame DEF IInv, RefusedInv
<1> QED
  BY <1>3, <1>4, <1>5 DEF IInv

LEMMA InitInv == AnalysisInit => IInv
<1> SUFFICES ASSUME AnalysisInit PROVE IInv
  OBVIOUS
<1>1. /\ rule \in Rules /\ pc = "options" /\ at = 1 /\ files = << >> /\ dirs = << >>
      /\ pluginOptions = [l \in Labels |-> << >>] /\ actions = {} /\ outputs = {}
      /\ Len(rule.options) \in Nat
  BY SourcesFacts DEF AnalysisInit
<1>2. Through = 0 /\ Passed = 0 /\ ~ Concluded /\ RanTo(Passed) = {} /\ 1 .. 0 = {}
  BY <1>1, RanFacts DEF Through, Passed, Concluded
<1>3. IsSeq(<< >>) /\ ToSet(<< >>) = {}
  BY OneFacts
<1>4. PointInv
  BY <1>1 DEF PointInv, Concluded
<1>5. OptionsInv /\ PluginsInv /\ RefusedInv
  BY <1>1, <1>2 DEF OptionsInv, Reached, Given, PluginsInv, RefusedInv
<1>6. FilesInv /\ ActionsInv /\ KeptInv
  BY <1>1, <1>2, <1>3 DEF FilesInv, ActionsInv, KeptInv
<1> QED
  BY <1>4, <1>5, <1>6 DEF IInv

\* What the analysis has collected and registered is at every point determined
\* by the options and plugins that its two loops have gone through.
THEOREM Invariance == AnalysisSpec => []IInv
<1>1. IInv /\ [AnalysisNext]_analysisVars => IInv'
  <2> SUFFICES ASSUME IInv, [AnalysisNext]_analysisVars PROVE IInv'
    OBVIOUS
  <2>1. PointInv'
    BY PointStep DEF IInv
  <2> QED
    BY <2>1, ResolveKeyStep, ResolveStarStep, RejectPluginStep, SkipPluginStep, AddPluginStep,
       ConcludeStep, RejectModeStep, CheckActionsStep, StutterStep DEF AnalysisNext
<1> QED
  BY <1>1, InitInv, PTL DEF AnalysisSpec

-----------------------------------------------------------------------------
(* The theorems *)

\* The analysis keeps its types: what the plugins make is below the premerge
\* root, what the target provides is not, and every action makes something.
THEOREM TypeCorrect == AnalysisSpec => []TypeOK
<1>1. IInv => TypeOK
  <2> SUFFICES ASSUME IInv PROVE TypeOK
    OBVIOUS
  <2>1. /\ at \in Nat /\ at >= 1 /\ Len(rule.plugins) \in Nat /\ Len(rule.options) \in Nat
        /\ pc = "options" => at <= Len(rule.options) + 1
        /\ pc \in {"plugins", "check", "done", "conflict"} => at <= Len(rule.plugins) + 1
        /\ pc \in {"options", "plugins", "check", "done", "failed", "conflict"}
    BY SourcesFacts DEF IInv, PointInv, Concluded
  <2>2. at \in 1..(IF pc = "options" THEN Len(rule.options) ELSE Len(rule.plugins)) + 1 \/ pc = "failed"
    BY <2>1
  <2> QED
    BY <2>1, <2>2 DEF TypeOK, IInv, PointInv, KeptInv
<1> QED
  BY <1>1, Invariance, PTL

\* A target is refused for its attributes exactly when they are invalid,
\* whatever the order of its plugins and options.
THEOREM RefusedExactly == AnalysisSpec => []FailsExactlyOnInvalid
<1>1. IInv => FailsExactlyOnInvalid
  <2> SUFFICES ASSUME IInv, pc \in {"check", "conflict", "done"}, Invalid PROVE FALSE
    BY DEF IInv, RefusedInv, FailsExactlyOnInvalid
  <2>1. /\ rule \in Rules /\ Through = Len(rule.options) /\ Passed = Len(rule.plugins)
        /\ Concluded /\ pc # "failed" /\ pc # "options"
        /\ Len(rule.plugins) \in Nat /\ Len(rule.options) \in Nat
    BY SourcesFacts DEF IInv, PointInv, Through, Passed, Concluded
  <2>2. /\ \A i \in 1 .. Len(rule.plugins) : ~ Mixed(rule.plugins[i])
        /\ \A i \in 1 .. Len(rule.plugins) : Protos(rule.plugins[i]) # << >> => ~ Unusable(rule.plugins[i])
    BY <2>1 DEF IInv, PluginsInv
  <2>3. ASSUME NEW plugin \in Ran PROVE ~ Unusable(plugin)
    BY <2>1, <2>2, RanFacts
  <2>4. ASSUME NEW i \in 1 .. Len(rule.options), rule.options[i].key # Star
        PROVE  \E l \in Labels : Names(rule.options[i].key, l)
    <3>1. Resolve(rule.options[i].key) \in Labels
      BY <2>1, <2>4 DEF IInv, OptionsInv, Reached
    <3> QED
      BY <2>1, <2>4, <3>1, ResolveFacts
  <2>5. ~ (Star \in Keys /\ Len(rule.options) > 1)
    BY <2>1 DEF IInv, OptionsInv
  <2>6. ASSUME NEW plugin \in Ran, plugin.directory PROVE rule.mode = "PREFIXED"
    <3>1. PICK i \in 1 .. Len(rule.plugins) : plugin = rule.plugins[i]
      BY <2>1, RanFacts
    <3>2. OutputDir(plugin) \in ToSet(OutputDirs(plugin))
      BY <2>1, <2>6, <3>1, PluginFacts
    <3>3. plugin \in RanTo(Passed)
      BY <2>1, RanFacts
    <3>4. OutputDir(plugin) \in ToSet(dirs)
      BY <2>1, <3>2, <3>3 DEF IInv, FilesInv
    <3>5. dirs # << >>
      BY <3>4, OneFacts
    <3> QED
      BY <2>1, <3>5 DEF IInv, ActionsInv
  <2> QED
    BY <2>2, <2>3, <2>4, <2>5, <2>6 DEF Invalid
<1> QED
  BY <1>1, Invariance, PTL

\* Options given under a label reach the plugins that the label names and no
\* others, unless another key takes their place.
THEOREM OptionsReach == AnalysisSpec => []OptionsReachNamed
<1>1. IInv => OptionsReachNamed
  <2> SUFFICES ASSUME IInv, pc = "done" PROVE OptionsReachNamed
    BY DEF OptionsReachNamed
  <2>1. rule \in Rules /\ Through = Len(rule.options) /\ Reached /\ Given
    BY DEF IInv, PointInv, OptionsInv, Through
  <2>2. ASSUME NEW l \in Labels, pluginOptions[l] # << >>
        PROVE  \E i \in 1 .. Len(rule.options) :
                 Names(rule.options[i].key, l) /\ pluginOptions[l] = rule.options[i].opts
    <3>1. PICK i \in 1 .. Len(rule.options) : /\ rule.options[i].key # Star
                                              /\ Resolve(rule.options[i].key) = l
                                              /\ pluginOptions[l] = rule.options[i].opts
      BY <2>1, <2>2 DEF Given
    <3>2. Names(rule.options[i].key, l)
      BY <2>1, <3>1, ResolveFacts
    <3> QED
      BY <3>1, <3>2
  <2>3. ASSUME NEW i \in 1 .. Len(rule.options), rule.options[i].key # Star
        PROVE  \E l \in Labels : /\ Names(rule.options[i].key, l)
                                 /\ \/ pluginOptions[l] = rule.options[i].opts
                                    \/ \E j \in i + 1 .. Len(rule.options) :
                                         pluginOptions[l] = rule.options[j].opts
    <3> DEFINE label == Resolve(rule.options[i].key)
    <3>1. /\ label \in Labels
          /\ \/ pluginOptions[label] = rule.options[i].opts
             \/ \E j \in i + 1 .. Len(rule.options) : pluginOptions[label] = rule.options[j].opts
      BY <2>1, <2>3 DEF Reached
    <3>2. Names(rule.options[i].key, label)
      BY <2>1, <2>3, <3>1, ResolveFacts
    <3> HIDE DEF label
    <3> QED
      BY <3>1, <3>2
  <2> QED
    BY <2>2, <2>3 DEF OptionsReachNamed
<1> QED
  BY <1>1, Invariance, PTL

\* A plugin is run on every source that its exclusions leave, and on each once.
THEOREM RunsOnIncluded == AnalysisSpec => []RunsOnIncludedOnce
<1>1. IInv => RunsOnIncludedOnce
  <2> SUFFICES ASSUME IInv, NEW a \in actions, a.kind = "protoc",
                      NEW plugin \in Ran, plugin.label = a.plugin
               PROVE  /\ ToSet(a.protos) = {p \in ToSet(FlattenSeq(rule.protos)) : ~ Excluded(plugin, p)}
                      /\ Len(a.protos) = Cardinality(ToSet(a.protos))
    BY DEF RunsOnIncludedOnce
  <2>1. rule \in Rules
    BY DEF IInv, PointInv
  <2>2. PICK q \in Ran : a.plugin = q.label /\ a.protos = Protos(q)
    BY DEF IInv, KeptInv
  <2>3. q = plugin
    <3>1. PICK i \in 1 .. Len(rule.plugins) : plugin = rule.plugins[i]
      BY <2>1, RanFacts
    <3>2. PICK j \in 1 .. Len(rule.plugins) : q = rule.plugins[j]
      BY <2>1, RanFacts
    <3>3. i \in DOMAIN rule.plugins /\ j \in DOMAIN rule.plugins
      BY <2>1, SourcesFacts
    <3> QED
      BY <2>1, <2>2, <3>1, <3>2, <3>3, RulesAssumption
  <2>4. a.protos = Protos(plugin)
    BY <2>2, <2>3
  <2> QED
    BY <2>1, <2>4, ProtosFacts
<1> QED
  BY <1>1, Invariance, PTL

-----------------------------------------------------------------------------
(* Who makes which file *)

LEMMA SrcJarFacts ==
  ASSUME NEW p, NEW f \in ToSet(Out(p))
  PROVE  SrcJar(f).ext = "srcjar" /\ \A g \in ToSet(Out(p)) : g = f
<1>1. p.out # {} /\ Out(p) = <<Premerge(CHOOSE o \in p.out : TRUE)>>
  BY OneFacts DEF Out
<1> DEFINE o == CHOOSE o \in p.out : TRUE
<1> HIDE DEF o
<1>2. f = File("premerge", o.dir, o.base, o.ext)
  BY <1>1, OneFacts DEF o, Premerge
<1>3. \A g \in ToSet(Out(p)) : g = f
  BY <1>1, OneFacts
<1> QED
  BY <1>2, <1>3 DEF SrcJar, File

Manifested(p) == Action("write", NoPlugin, {}, {FixerManifest(p)}, PluginOutputs(p), << >>, << >>)

Fixed(p) ==
  Action("fixer", p.label, {FixerManifest(p), UnfixedDir(p)}, ToSet(PluginOutputs(p)), << >>, << >>, << >>)

\* The action of a plugin that makes its outputs proper.
Making(p) == IF p.template THEN Fixed(p) ELSE Protoc(p, ToSet(PluginOutputs(p)))

\* The four kinds of files that the actions of a plugin make, each by one
\* action, told apart by their extensions.
LEMMA MadeFacts ==
  ASSUME rule \in Rules, NEW i \in 1 .. Len(rule.plugins), NEW p, p = rule.plugins[i],
         NEW a \in ActionsOf(p), NEW f \in a.outputs
  PROVE  /\ f.place = "premerge" /\ f.ext # "_plugin_merger_manifest"
         /\ \/ a = Manifested(p) /\ f = FixerManifest(p) /\ f.ext = "_plugin_fixer_manifest"
            \/ a = Protoc(p, {UnfixedDir(p)}) /\ f = UnfixedDir(p) /\ f.ext = "_plugin_unfixed"
            \/ a = Making(p) /\ f \in ToSet(PluginOutputs(p)) /\ f.ext \notin OwnExts \ {"_plugin"}
            \/ /\ f.ext = "srcjar" /\ f \in ToSet(Generated(p))
               /\ \E g \in ToSet(Out(p)) : IsJar(g) /\ a = Copy(g, SrcJar(g))
<1>1. /\ \A g \in ToSet(PluginOutputs(p)) : g.place = "premerge" /\ g.ext \notin OwnExts \ {"_plugin"}
      /\ p.template \in BOOLEAN
  <2>1. OutputDir(p).place = "premerge" /\ OutputDir(p).ext = "_plugin"
    BY DEF OutputDir, File
  <2>2. /\ ToSet(PluginOutputs(p)) = ToSet(PerProto(p)) \cup ToSet(Out(p)) \cup ToSet(OutputDirs(p))
        /\ ToSet(OutputDirs(p)) \subseteq {OutputDir(p)} /\ p.template \in BOOLEAN
        /\ \A g \in ToSet(PerProto(p)) \cup ToSet(Out(p)) : g.place = "premerge" /\ g.ext \notin OwnExts
    BY PluginFacts
  <2> QED
    BY <2>1, <2>2
<1>2. CASE a \in JarActions(p)
  <2>1. PICK g \in ToSet(Out(p)) : IsJar(g) /\ a = Copy(g, SrcJar(g))
    BY <1>2 DEF JarActions
  <2>2. f = SrcJar(g)
    BY <2>1 DEF Copy, Action
  <2>3. f \in ToSet(Generated(p)) /\ f.place = "premerge"
    BY <2>1, <2>2, PluginFacts
  <2>4. f.ext = "srcjar"
    BY <2>2, SrcJarFacts
  <2> QED
    BY <2>1, <2>3, <2>4
<1>3. CASE a \in PluginActions(p)
  <2>1. \/ p.template /\ a = Manifested(p)
        \/ p.template /\ a = Protoc(p, {UnfixedDir(p)})
        \/ a = Making(p)
    BY <1>1, <1>3 DEF PluginActions, Manifested, Making, Fixed
  <2>2. CASE a = Manifested(p)
    BY <2>2 DEF Manifested, Action, FixerManifest, File
  <2>3. CASE a = Protoc(p, {UnfixedDir(p)})
    BY <2>3 DEF Protoc, Action, UnfixedDir, File
  <2>4. CASE a = Making(p)
    <3>1. f \in ToSet(PluginOutputs(p))
      BY <2>4 DEF Making, Fixed, Protoc, Action
    <3>2. "_plugin_merger_manifest" \in OwnExts \ {"_plugin"}
      BY DEF OwnExts
    <3> QED
      BY <1>1, <2>4, <3>1, <3>2
  <2> QED
    BY <2>1, <2>2, <2>3, <2>4
<1> QED
  BY <1>2, <1>3 DEF ActionsOf

\* Every file that a plugin declares, or that one of its actions reads, is made
\* by one of its actions.
LEMMA MakersFacts ==
  ASSUME rule \in Rules, NEW i \in 1 .. Len(rule.plugins), NEW p, p = rule.plugins[i]
  PROVE  /\ \A f \in ToSet(Generated(p)) \cup ToSet(OutputDirs(p)) : \E b \in ActionsOf(p) : f \in b.outputs
         /\ \A a \in ActionsOf(p) : \A f \in a.inputs : \E b \in ActionsOf(p) : f \in b.outputs
<1>1. /\ ToSet(PluginOutputs(p)) = ToSet(PerProto(p)) \cup ToSet(Out(p)) \cup ToSet(OutputDirs(p))
      /\ ToSet(Generated(p)) = ToSet(PerProto(p)) \cup
                                 {IF IsJar(f) THEN SrcJar(f) ELSE f : f \in ToSet(Out(p))}
      /\ p.template \in BOOLEAN
  BY PluginFacts
<1>2. Making(p) \in ActionsOf(p) /\ Making(p).outputs = ToSet(PluginOutputs(p))
  BY <1>1 DEF Making, Fixed, Protoc, Action, PluginActions, ActionsOf
<1>3. ASSUME NEW f \in ToSet(Out(p)), IsJar(f)
      PROVE  Copy(f, SrcJar(f)) \in ActionsOf(p) /\ SrcJar(f) \in Copy(f, SrcJar(f)).outputs
  BY <1>3 DEF ActionsOf, JarActions, Copy, Action
<1>4. ASSUME NEW f \in ToSet(Generated(p)) \cup ToSet(OutputDirs(p))
      PROVE  \E b \in ActionsOf(p) : f \in b.outputs
  <2>1. CASE f \in ToSet(PluginOutputs(p))
    BY <1>2, <2>1
  <2>2. CASE f \notin ToSet(PluginOutputs(p))
    <3>1. PICK g \in ToSet(Out(p)) : IsJar(g) /\ f = SrcJar(g)
      BY <1>1, <2>2
    <3> QED
      BY <1>3, <3>1
  <2> QED
    BY <2>1, <2>2
<1>5. ASSUME NEW a \in ActionsOf(p), NEW f \in a.inputs
      PROVE  \E b \in ActionsOf(p) : f \in b.outputs
  <2>1. CASE a \in JarActions(p)
    <3>1. PICK g \in ToSet(Out(p)) : a = Copy(g, SrcJar(g))
      BY <2>1 DEF JarActions
    <3>2. f = g
      BY <3>1 DEF Copy, Action
    <3> QED
      BY <1>1, <1>2, <3>2
  <2>2. CASE a \in PluginActions(p)
    <3>1. \/ a = Manifested(p) \/ a = Protoc(p, {UnfixedDir(p)})
          \/ (p.template /\ a = Fixed(p)) \/ a = Protoc(p, ToSet(PluginOutputs(p)))
      BY <1>1, <2>2 DEF PluginActions, Manifested, Fixed
    <3>2. p.template /\ a = Fixed(p)
      BY <3>1 DEF Manifested, Protoc, Action
    <3>3. f = FixerManifest(p) \/ f = UnfixedDir(p)
      BY <3>2 DEF Fixed, Action
    <3>4. Manifested(p) \in ActionsOf(p) /\ Protoc(p, {UnfixedDir(p)}) \in ActionsOf(p)
      BY <3>2 DEF ActionsOf, PluginActions, Manifested
    <3>5. FixerManifest(p) \in Manifested(p).outputs /\ UnfixedDir(p) \in Protoc(p, {UnfixedDir(p)}).outputs
      BY DEF Manifested, Protoc, Action
    <3> QED
      BY <3>3, <3>4, <3>5
  <2> QED
    BY <2>1, <2>2 DEF ActionsOf
<1> QED
  BY <1>4, <1>5

\* An analysis that has come to its end, in the invariant's terms.
LEMMA EndFacts ==
  ASSUME IInv, pc \in {"done", "conflict"}
  PROVE  /\ rule \in Rules
         /\ actions = (UNION {ActionsOf(p) : p \in Ran}) \cup FinalActions
         /\ outputs = FinalOutputs
         /\ ToSet(files) = UNION {ToSet(Generated(p)) : p \in Ran}
         /\ ToSet(dirs) = UNION {ToSet(OutputDirs(p)) : p \in Ran}
         /\ IsSeq(dirs) /\ (dirs = << >> <=> ToSet(dirs) = {})
<1>1. /\ rule \in Rules /\ Concluded /\ Passed = Len(rule.plugins) /\ pc # "failed"
  BY DEF IInv, PointInv, Concluded, Passed
<1>2. RanTo(Passed) = Ran
  BY <1>1, RanFacts
<1>3. /\ ToSet(files) = UNION {ToSet(Generated(p)) : p \in Ran}
      /\ ToSet(dirs) = UNION {ToSet(OutputDirs(p)) : p \in Ran} /\ IsSeq(dirs)
  BY <1>1, <1>2 DEF IInv, FilesInv
<1>4. actions = (UNION {ActionsOf(p) : p \in Ran}) \cup FinalActions /\ outputs = FinalOutputs
  BY <1>1, <1>2 DEF IInv, ActionsInv
<1>5. dirs = << >> <=> ToSet(dirs) = {}
  BY <1>3, SeqFacts DEF IsSeq
<1> QED
  BY <1>1, <1>3, <1>4, <1>5

\* Every file that an action of an accepted target reads, and every file that
\* the target provides, is made by exactly one action.
THEOREM OneProducer == AnalysisSpec => []InputsHaveOneProducer
<1>1. IInv => InputsHaveOneProducer
  <2> SUFFICES ASSUME IInv, pc = "done", NEW a \in actions, NEW f \in a.inputs \cup outputs
               PROVE  Cardinality({b \in actions : f \in b.outputs}) = 1
    BY DEF InputsHaveOneProducer
  <2>1. /\ rule \in Rules /\ outputs = FinalOutputs
        /\ actions = (UNION {ActionsOf(p) : p \in Ran}) \cup FinalActions
        /\ ToSet(files) = UNION {ToSet(Generated(p)) : p \in Ran}
        /\ ToSet(dirs) = UNION {ToSet(OutputDirs(p)) : p \in Ran}
        /\ ~ Conflicting
    BY EndFacts DEF IInv, ActionsInv
  <2>2. ASSUME NEW p \in Ran
        PROVE  /\ \A g \in ToSet(Generated(p)) \cup ToSet(OutputDirs(p)) : \E b \in actions : g \in b.outputs
               /\ \A c \in ActionsOf(p) : \A g \in c.inputs : \E b \in actions : g \in b.outputs
    <3>1. PICK i \in 1 .. Len(rule.plugins) : p = rule.plugins[i]
      BY <2>1, RanFacts
    <3>2. /\ \A g \in ToSet(Generated(p)) \cup ToSet(OutputDirs(p)) : \E b \in ActionsOf(p) : g \in b.outputs
          /\ \A c \in ActionsOf(p) : \A g \in c.inputs : \E b \in ActionsOf(p) : g \in b.outputs
      BY <2>1, <3>1, MakersFacts
    <3>3. ActionsOf(p) \subseteq actions
      BY <2>1
    <3> QED
      BY <3>2, <3>3
  <2>3. \A g \in ToSet(files) \cup ToSet(dirs) : \E b \in actions : g \in b.outputs
    BY <2>1, <2>2
  <2>4. \E b \in actions : f \in b.outputs
    <3>1. CASE \E p \in Ran : a \in ActionsOf(p) /\ f \in a.inputs
      BY <2>2, <3>1
    <3>2. CASE dirs = << >> /\ (f \in outputs \/ a \in FinalActions)
      <4>1. CASE f \in outputs
        <5>1. PICK g \in ToSet(files) : f = Destination(g)
          BY <2>1, <3>2, <4>1 DEF FinalOutputs
        <5>2. Copy(g, Destination(g)) \in actions /\ f \in Copy(g, Destination(g)).outputs
          BY <2>1, <3>2, <5>1 DEF FinalActions, Copy, Action
        <5> QED
          BY <5>2
      <4>2. CASE a \in FinalActions /\ f \in a.inputs
        <5>1. PICK g \in ToSet(files) : a = Copy(g, Destination(g))
          BY <3>2, <4>2 DEF FinalActions
        <5>2. f = g
          BY <4>2, <5>1 DEF Copy, Action
        <5> QED
          BY <2>3, <5>2
      <4> QED
        BY <3>2, <4>1, <4>2
    <3>3. CASE dirs # << >> /\ (f \in outputs \/ a \in FinalActions)
      <4> DEFINE written == Action("write", NoPlugin, {}, {MergerManifest}, dirs \o files, << >>, << >>)
                 merged  == Action("merger", NoPlugin, {MergerManifest} \cup ToSet(dirs) \cup ToSet(files),
                                   {MergedDir}, << >>, << >>, << >>)
      <4>1. FinalActions = {written, merged} /\ FinalOutputs = {MergedDir}
        BY <3>3 DEF FinalActions, FinalOutputs
      <4>2. MergerManifest \in written.outputs /\ MergedDir \in merged.outputs
        BY DEF Action
      <4>3. /\ written.inputs = {}
            /\ merged.inputs = {MergerManifest} \cup ToSet(dirs) \cup ToSet(files)
        BY DEF Action
      <4> HIDE DEF written, merged
      <4>4. f \in outputs \/ f \in written.inputs \/ f \in merged.inputs
        BY <3>3, <4>1
      <4>5. f = MergedDir \/ f = MergerManifest \/ f \in ToSet(files) \cup ToSet(dirs)
        BY <2>1, <4>1, <4>3, <4>4
      <4> QED
        BY <2>1, <2>3, <4>1, <4>2, <4>5
    <3> QED
      BY <2>1, <3>1, <3>2, <3>3
  <2>5. PICK b \in actions : f \in b.outputs
    BY <2>4
  <2>6. \A c \in actions : f \in c.outputs => c = b
    BY <2>1, <2>5 DEF Conflicting
  <2>7. {c \in actions : f \in c.outputs} = {b}
    BY <2>5, <2>6
  <2> QED
    BY <2>7, FS_Singleton
<1> QED
  BY <1>1, Invariance, PTL

\* In an accepted target everything that the plugins declare is provided: in a
\* file of its own, or in the input of the merger.
THEOREM NothingLost == AnalysisSpec => []NothingIsLost
<1>1. IInv => NothingIsLost
  <2> DEFINE declared == UNION {ToSet(Generated(plugin)) \cup ToSet(OutputDirs(plugin)) : plugin \in Ran}
  <2> SUFFICES ASSUME IInv, pc = "done"
               PROVE  IF dirs = << >>
                      THEN /\ \A f \in declared : \E to \in outputs : Copy(f, to) \in actions
                           /\ \A f, g \in declared, to \in outputs :
                                Copy(f, to) \in actions /\ Copy(g, to) \in actions => f = g
                      ELSE \E a \in actions :
                             a.kind = "merger" /\ declared \subseteq a.inputs /\ outputs = a.outputs
    BY DEF NothingIsLost
  <2>1. /\ outputs = FinalOutputs /\ FinalActions \subseteq actions
        /\ declared = ToSet(files) \cup ToSet(dirs)
        /\ dirs = << >> <=> ToSet(dirs) = {}
        /\ ~ Conflicting
    BY EndFacts DEF IInv, ActionsInv
  <2> HIDE DEF declared
  <2>2. CASE dirs = << >>
    <3>1. ASSUME NEW f \in declared PROVE \E to \in outputs : Copy(f, to) \in actions
      <4>1. f \in ToSet(files)
        BY <2>1, <2>2
      <4>2. Destination(f) \in outputs /\ Copy(f, Destination(f)) \in actions
        BY <2>1, <2>2, <4>1 DEF FinalOutputs, FinalActions
      <4> QED
        BY <4>2
    <3>2. ASSUME NEW f \in declared, NEW g \in declared, NEW to \in outputs,
                 Copy(f, to) \in actions, Copy(g, to) \in actions
          PROVE  f = g
      <4>1. to \in Copy(f, to).outputs \cap Copy(g, to).outputs
        BY DEF Copy, Action
      <4>2. Copy(f, to) = Copy(g, to)
        BY <2>1, <3>2, <4>1 DEF Conflicting
      <4>3. Copy(f, to).inputs = {f} /\ Copy(g, to).inputs = {g}
        BY DEF Copy, Action
      <4>4. {f} = {g}
        BY <4>2, <4>3
      <4> QED
        BY <4>4
    <3> QED
      BY <2>2, <3>1, <3>2
  <2>3. CASE dirs # << >>
    <3> DEFINE merged == Action("merger", NoPlugin, {MergerManifest} \cup ToSet(dirs) \cup ToSet(files),
                                {MergedDir}, << >>, << >>, << >>)
    <3>1. merged \in actions /\ outputs = {MergedDir}
      BY <2>1, <2>3 DEF FinalActions, FinalOutputs
    <3>2. /\ merged.kind = "merger" /\ merged.outputs = {MergedDir}
          /\ merged.inputs = {MergerManifest} \cup ToSet(dirs) \cup ToSet(files)
      BY DEF Action
    <3> HIDE DEF merged
    <3>3. declared \subseteq merged.inputs
      BY <2>1, <3>2
    <3> QED
      BY <2>3, <3>1, <3>2, <3>3
  <2> QED
    BY <2>2, <2>3
<1> QED
  BY <1>1, Invariance, PTL

Clash(p, q) ==
  /\ p # q
  /\ \/ PluginId[p.label] = PluginId[q.label]
     \/ ToSet(PluginOutputs(p)) \cap ToSet(PluginOutputs(q)) # {}
     \/ ToSet(Generated(p)) \cap ToSet(Generated(q)) # {}

\* Two actions of plugins make one file only if the plugins clash.
LEMMA ClashFacts ==
  ASSUME rule \in Rules, NEW p \in Ran, NEW q \in Ran,
         NEW a \in ActionsOf(p), NEW b \in ActionsOf(q), a # b, NEW f \in a.outputs, f \in b.outputs
  PROVE  Clash(p, q)
<1>1. PICK i \in 1 .. Len(rule.plugins) : p = rule.plugins[i]
  BY RanFacts
<1>2. PICK j \in 1 .. Len(rule.plugins) : q = rule.plugins[j]
  BY RanFacts
<1>3. /\ "_plugin_fixer_manifest" \in OwnExts \ {"_plugin"} /\ "_plugin_unfixed" \in OwnExts \ {"_plugin"}
      /\ "srcjar" \in OwnExts \ {"_plugin"}
  BY DEF OwnExts
<1>4. \/ a = Manifested(p) /\ f = FixerManifest(p) /\ f.ext = "_plugin_fixer_manifest"
      \/ a = Protoc(p, {UnfixedDir(p)}) /\ f = UnfixedDir(p) /\ f.ext = "_plugin_unfixed"
      \/ a = Making(p) /\ f \in ToSet(PluginOutputs(p)) /\ f.ext \notin OwnExts \ {"_plugin"}
      \/ /\ f.ext = "srcjar" /\ f \in ToSet(Generated(p))
         /\ \E g \in ToSet(Out(p)) : IsJar(g) /\ a = Copy(g, SrcJar(g))
  BY <1>1, MadeFacts, ZenonT(60)
<1>5. \/ b = Manifested(q) /\ f = FixerManifest(q) /\ f.ext = "_plugin_fixer_manifest"
      \/ b = Protoc(q, {UnfixedDir(q)}) /\ f = UnfixedDir(q) /\ f.ext = "_plugin_unfixed"
      \/ b = Making(q) /\ f \in ToSet(PluginOutputs(q)) /\ f.ext \notin OwnExts \ {"_plugin"}
      \/ /\ f.ext = "srcjar" /\ f \in ToSet(Generated(q))
         /\ \E g \in ToSet(Out(q)) : IsJar(g) /\ b = Copy(g, SrcJar(g))
  BY <1>2, MadeFacts
<1>6. CASE a = Manifested(p) /\ f = FixerManifest(p) /\ f.ext = "_plugin_fixer_manifest"
  <2>1. b = Manifested(q) /\ f = FixerManifest(q)
    BY <1>3, <1>5, <1>6
  <2>2. f.base = PluginId[p.label] /\ f.base = PluginId[q.label]
    BY <1>6, <2>1 DEF FixerManifest, File
  <2> QED
    BY <1>6, <2>1, <2>2 DEF Clash
<1>7. CASE a = Protoc(p, {UnfixedDir(p)}) /\ f = UnfixedDir(p) /\ f.ext = "_plugin_unfixed"
  <2>1. b = Protoc(q, {UnfixedDir(q)}) /\ f = UnfixedDir(q)
    BY <1>3, <1>5, <1>7
  <2>2. f.base = PluginId[p.label] /\ f.base = PluginId[q.label]
    BY <1>7, <2>1 DEF UnfixedDir, File
  <2> QED
    BY <1>7, <2>1, <2>2 DEF Clash
<1>8. CASE a = Making(p) /\ f \in ToSet(PluginOutputs(p)) /\ f.ext \notin OwnExts \ {"_plugin"}
  <2>1. b = Making(q) /\ f \in ToSet(PluginOutputs(q))
    BY <1>3, <1>5, <1>8
  <2> QED
    BY <1>8, <2>1 DEF Clash
<1>9. CASE /\ f.ext = "srcjar" /\ f \in ToSet(Generated(p))
           /\ \E g \in ToSet(Out(p)) : IsJar(g) /\ a = Copy(g, SrcJar(g))
  <2>1. f \in ToSet(Generated(q)) /\ \E g \in ToSet(Out(q)) : b = Copy(g, SrcJar(g))
    BY <1>3, <1>5, <1>9
  <2>2. \A g, h \in ToSet(Out(p)) : g = h
    BY SrcJarFacts
  <2>3. p # q
    BY <1>9, <2>1, <2>2
  <2> QED
    BY <1>9, <2>1, <2>3 DEF Clash
<1> QED
  BY <1>4, <1>6, <1>7, <1>8, <1>9

\* Bazel finds a conflict only between two plugins that clash, or between two
\* files that the output mode sends to one place.
THEOREM ClashesOnly == AnalysisSpec => []ConflictsAreClashes
<1>1. IInv => ConflictsAreClashes
  <2> DEFINE Flattened == \E f, g \in ToSet(files) : f # g /\ Destination(f) = Destination(g)
  <2> SUFFICES ASSUME IInv, pc = "conflict" PROVE (\E p, q \in Ran : Clash(p, q)) \/ Flattened
    BY DEF ConflictsAreClashes, Clash
  <2>1. /\ rule \in Rules /\ actions = (UNION {ActionsOf(p) : p \in Ran}) \cup FinalActions
        /\ Conflicting
    BY EndFacts DEF IInv, ActionsInv
  <2>2. /\ \A f : Destination(f).place # "premerge"
        /\ MergedDir.place = "target" /\ MergerManifest.place = "premerge"
        /\ MergerManifest.ext = "_plugin_merger_manifest"
    BY DEF Destination, MergedDir, MergerManifest, File
  <2>3. PICK a \in actions, b \in actions : a # b /\ a.outputs \cap b.outputs # {}
    BY <2>1 DEF Conflicting
  <2>4. PICK f \in a.outputs : f \in b.outputs
    BY <2>3
  <2>5. ASSUME NEW p \in Ran, NEW c \in ActionsOf(p), NEW d \in FinalActions,
               f \in c.outputs, f \in d.outputs
        PROVE  FALSE
    <3>1. PICK i \in 1 .. Len(rule.plugins) : p = rule.plugins[i]
      BY <2>1, RanFacts
    <3>2. f.place = "premerge" /\ f.ext # "_plugin_merger_manifest"
      BY <2>1, <2>5, <3>1, MadeFacts
    <3>3. d.outputs \in {{MergerManifest}, {MergedDir}} \/ \E g : d.outputs = {Destination(g)}
      BY DEF FinalActions, Copy, Action
    <3> QED
      BY <2>2, <2>5, <3>2, <3>3
  <2>6. CASE a \in FinalActions /\ b \in FinalActions
    <3>1. CASE dirs = << >>
      <4>1. PICK g \in ToSet(files) : a = Copy(g, Destination(g))
        BY <2>6, <3>1 DEF FinalActions
      <4>2. PICK h \in ToSet(files) : b = Copy(h, Destination(h))
        BY <2>6, <3>1 DEF FinalActions
      <4>3. f = Destination(g) /\ f = Destination(h)
        BY <2>4, <4>1, <4>2 DEF Copy, Action
      <4>4. g # h
        BY <2>3, <4>1, <4>2
      <4> QED
        BY <4>3, <4>4
    <3>2. CASE dirs # << >>
      <4> DEFINE written == Action("write", NoPlugin, {}, {MergerManifest}, dirs \o files, << >>, << >>)
                 merged  == Action("merger", NoPlugin, {MergerManifest} \cup ToSet(dirs) \cup ToSet(files),
                                   {MergedDir}, << >>, << >>, << >>)
      <4>1. a \in {written, merged} /\ b \in {written, merged}
        BY <2>6, <3>2 DEF FinalActions
      <4>2. written.outputs = {MergerManifest} /\ merged.outputs = {MergedDir}
        BY DEF Action
      <4> HIDE DEF written, merged
      <4> QED
        BY <2>2, <2>3, <2>4, <4>1, <4>2
    <3> QED
      BY <3>1, <3>2
  <2>7. CASE \E p, q \in Ran : a \in ActionsOf(p) /\ b \in ActionsOf(q)
    BY <2>1, <2>3, <2>4, <2>7, ClashFacts
  <2> QED
    BY <2>1, <2>4, <2>5, <2>6, <2>7
<1> QED
  BY <1>1, Invariance, PTL

-----------------------------------------------------------------------------
(* What the library of a language gets *)

\* Every file of a library's target is one that its library rule takes.
LEMMA LibraryFiles ==
  ASSUME rule \in Rules, rule.macro # NoMacro,
         NEW i \in 1 .. Len(rule.plugins), NEW p, p = rule.plugins[i], NEW f \in ToSet(Generated(p))
  PROVE  f.dir \in Seq(STRING) /\ Takes(rule.macro, f)
<1>1. /\ IsSeq(p.outputs)
      /\ \A proto \in UNION {ToSet(protos) : protos \in ToSet(rule.protos)}, pattern \in ToSet(p.outputs) :
           /\ OutputName[proto, pattern].dir \in Seq(STRING)
           /\ Takes(rule.macro, OutputName[proto, pattern])
      /\ \A o \in p.out :
           o.dir \in Seq(STRING) /\ Takes(rule.macro, IF IsJar(o) THEN SrcJar(Premerge(o)) ELSE o)
  <2>1. i \in DOMAIN rule.plugins
    BY SourcesFacts
  <2> QED
    BY <2>1, RulesAssumption, LibrariesAssumption DEF IsSeq
<1>2. \A g, h : g.ext = h.ext /\ Takes(rule.macro, g) => Takes(rule.macro, h)
  BY DEF Takes, Filter
<1>3. CASE f \in ToSet(PerProto(p))
  <2>1. /\ IsSeq(Protos(p))
        /\ ToSet(Protos(p)) \subseteq UNION {ToSet(protos) : protos \in ToSet(rule.protos)}
    BY ProtosFacts, SourcesFacts
  <2>2. PerProto(p) = Declared(p, Protos(p))
    BY DEF PerProto
  <2>3. MadeFrom(f, p, Protos(p))
    BY <1>1, <1>3, <2>1, <2>2, DeclaredFacts
  <2>4. PICK proto \in ToSet(Protos(p)), pattern \in ToSet(p.outputs) :
          f = Premerge(OutputName[proto, pattern])
    BY <2>3 DEF MadeFrom
  <2>5. f.dir = OutputName[proto, pattern].dir /\ f.ext = OutputName[proto, pattern].ext
    BY <2>4 DEF Premerge, File
  <2> QED
    BY <1>1, <1>2, <2>1, <2>5
<1>4. CASE f \notin ToSet(PerProto(p))
  <2>1. PICK g \in ToSet(Out(p)) : f = IF IsJar(g) THEN SrcJar(g) ELSE g
    BY <1>4, PluginFacts
  <2>2. p.out # {} /\ Out(p) = <<Premerge(CHOOSE o \in p.out : TRUE)>>
    BY <2>1, OneFacts DEF Out
  <2> DEFINE o == CHOOSE o \in p.out : TRUE
  <2>3. o \in p.out
    BY <2>2
  <2> HIDE DEF o
  <2>4. g = Premerge(o)
    BY <2>1, <2>2, OneFacts DEF o
  <2>5. g.dir = o.dir /\ g.ext = o.ext /\ SrcJar(g).dir = o.dir
    BY <2>4 DEF Premerge, File, SrcJar
  <2>6. IsJar(g) <=> IsJar(o)
    BY <2>5 DEF IsJar
  <2>7. f.dir = o.dir /\ f.ext = (IF IsJar(o) THEN SrcJar(Premerge(o)) ELSE o).ext
    BY <2>1, <2>4, <2>5, <2>6
  <2> QED
    BY <1>1, <1>2, <2>3, <2>7
<1> QED
  BY <1>3, <1>4

\* A file whose directory starts with that of a root is found from there.
LEMMA FoundBelow ==
  ASSUME NEW place, NEW start, NEW base, NEW ext, NEW dir, NEW name, NEW end, NEW to,
         NEW root, root = File(place, start, base, ext),
         root \in Roots(rule.macro, rule.mode, rule.prefix), to = File(place, start \o dir, name, end)
  PROVE  IsFound(to, dir)
<1> DEFINE all == start \o dir
<1>1. root.dir = start /\ to.base = name /\ to.ext = end
  BY DEF File
<1>2. to = File(place, all, name, end)
  OBVIOUS
<1>3. [root EXCEPT !.dir = @ \o dir, !.base = to.base, !.ext = to.ext]
        = [root EXCEPT !.dir = all, !.base = name, !.ext = end]
  BY <1>1
<1> HIDE DEF all
<1>4. [File(place, start, base, ext) EXCEPT !.dir = all] = File(place, all, base, ext)
  BY DEF File
<1>5. [File(place, all, base, ext) EXCEPT !.base = name] = File(place, all, name, ext)
  BY DEF File
<1>6. [File(place, all, name, ext) EXCEPT !.ext = end] = File(place, all, name, end)
  BY DEF File
<1>7. [root EXCEPT !.dir = all, !.base = name, !.ext = end] = to
  BY <1>2, <1>4, <1>5, <1>6
<1> QED
  BY <1>3, <1>7 DEF IsFound

\* For every proto, prefix and output mode the library rule gets every file of
\* the compile target once, and finds it from one of its directories, both as
\* the user of the library names it and as generated code does.
THEOREM LibrariesFindCode == AnalysisSpec => []LibraryFindsCode
<1>1. IInv => LibraryFindsCode
  <2> SUFFICES ASSUME IInv, pc = "done", rule.macro # NoMacro, NEW f \in ToSet(files)
               PROVE  LET to   == Destination(f)
                          flat == rule.mode = "NO_PREFIX_FLAT"
                      IN /\ Takes(rule.macro, to)
                         /\ \/ rule.macro.roots = "none"
                            \/ rule.macro.roots = "target" /\ rule.mode # "PREFIXED"
                            \/ /\ IsFound(to, rule.prefix \o IF flat THEN << >> ELSE f.dir)
                               /\ \/ rule.prefix # << >> /\ rule.macro.roots # "prefix"
                                  \/ flat /\ f.dir # << >>
                                  \/ IsFound(to, f.dir)
    BY DEF LibraryFindsCode
  <2> DEFINE to    == Destination(f)
             flat  == rule.mode = "NO_PREFIX_FLAT"
             inner == IF flat THEN << >> ELSE f.dir
             place == IF rule.mode = "PREFIXED" THEN "target" ELSE "package"
             root(dir) == File(place, dir, "", "")
  <2>1. rule \in Rules /\ ToSet(files) = UNION {ToSet(Generated(p)) : p \in Ran}
    BY EndFacts
  <2>2. PICK p \in Ran : f \in ToSet(Generated(p))
    BY <2>1
  <2>3. PICK i \in 1 .. Len(rule.plugins) : p = rule.plugins[i]
    BY <2>1, RanFacts
  <2>4. f.dir \in Seq(STRING) /\ Takes(rule.macro, f)
    BY <2>1, <2>2, <2>3, LibraryFiles
  <2>5. rule.prefix \in Seq(STRING)
    BY <2>1, LibrariesAssumption
  <2>6. /\ \A s \in Seq(STRING) : << >> \o s = s /\ s \o << >> = s
        /\ << >> \in Seq(STRING)
        /\ \A s, t \in Seq(STRING) : s \o t \in Seq(STRING)
    OBVIOUS
  <2>7. inner \in Seq(STRING)
    BY <2>4, <2>6
  <2>8. to = File(place, rule.prefix \o inner, f.base, f.ext)
    <3>1. (IF flat THEN rule.prefix ELSE rule.prefix \o f.dir) = rule.prefix \o inner
      BY <2>5, <2>6
    <3> QED
      BY <3>1 DEF Destination
  <2>9. to.ext = f.ext /\ to.base = f.base
    BY <2>8 DEF File
  <2>10. Takes(rule.macro, to)
    BY <2>4, <2>9 DEF Takes, Filter
  <2>11. ASSUME rule.macro.roots # "none", rule.macro.roots # "target" \/ rule.mode = "PREFIXED"
         PROVE  /\ root(<< >>) \in Roots(rule.macro, rule.mode, rule.prefix)
                /\ rule.macro.roots = "prefix" =>
                     root(rule.prefix) \in Roots(rule.macro, rule.mode, rule.prefix)
    BY <2>11 DEF Roots
  <2>12. ASSUME NEW start \in Seq(STRING), NEW dir \in Seq(STRING),
                root(start) \in Roots(rule.macro, rule.mode, rule.prefix),
                start \o dir = rule.prefix \o inner
         PROVE  IsFound(to, dir)
    <3>1. to = File(place, start \o dir, to.base, to.ext)
      BY <2>8, <2>9, <2>12
    <3> DEFINE begin == root(start)
    <3>2. begin = File(place, start, "", "")
      OBVIOUS
    <3>3. begin \in Roots(rule.macro, rule.mode, rule.prefix)
      BY <2>12
    <3> DEFINE name == to.base
               end  == to.ext
    <3>4. to = File(place, start \o dir, name, end)
      BY <3>1
    <3> HIDE DEF to, place, begin, name, end
    <3> QED
      BY <3>2, <3>3, <3>4, FoundBelow
  <2> HIDE DEF to, inner, root
  <2>13. ASSUME rule.macro.roots # "none", rule.macro.roots # "target" \/ rule.mode = "PREFIXED"
         PROVE  IsFound(to, rule.prefix \o inner)
    BY <2>5, <2>6, <2>7, <2>11, <2>12, <2>13
  <2>14. ASSUME rule.macro.roots # "none", rule.macro.roots # "target" \/ rule.mode = "PREFIXED",
                rule.prefix = << >> \/ rule.macro.roots = "prefix", inner = f.dir
         PROVE  IsFound(to, f.dir)
    <3>1. CASE rule.macro.roots = "prefix"
      BY <2>4, <2>5, <2>11, <2>12, <2>14, <3>1
    <3>2. CASE rule.prefix = << >>
      BY <2>4, <2>6, <2>11, <2>12, <2>14, <3>2
    <3> QED
      BY <2>14, <3>1, <3>2
  <2>15. ~ flat \/ f.dir = << >> => inner = f.dir
    BY DEF inner
  <2> QED
    BY <2>10, <2>13, <2>14, <2>15 DEF to, inner
<1> QED
  BY <1>1, Invariance, PTL

-----------------------------------------------------------------------------
(***************************************************************************)
(* Where in premerge_files and premerge_dirs the outputs of a plugin are.  *)
(* The list u holds, one after the other, the lists that g gives for the   *)
(* places at which there is a plugin that is run.                          *)
(***************************************************************************)

PlacedAt(pos, u, g) ==
  /\ \A i \in DOMAIN g : \A k \in 1 .. Len(g[i]) : pos[i][k] \in 1 .. Len(u) /\ u[pos[i][k]] = g[i][k]
  /\ \A i, j \in DOMAIN g : \A k \in 1 .. Len(g[i]), l \in 1 .. Len(g[j]) :
       i < j \/ (i = j /\ k < l) => pos[i][k] < pos[j][l]
  /\ \A y \in 1 .. Len(u) : \E i \in DOMAIN g : \E k \in 1 .. Len(g[i]) : pos[i][k] = y

\* The list u is made of the lists of g, one after the other.
Placed(u, g) == \E pos : PlacedAt(pos, u, g)

\* Of the first n places of the list of plugins, those with a plugin that is run.
RunTo(n) == {i \in 1 .. n : Protos(rule.plugins[i]) # << >>}

\* What these plugins add to premerge_files.
FilesOf(n) == [i \in RunTo(n) |-> Generated(rule.plugins[i])]

\* What they add to premerge_dirs.
DirsOf(n) == [i \in RunTo(n) |-> OutputDirs(rule.plugins[i])]

\* Of an analysis that was not refused, both lists hold what the plugins added.
PlacedInv == pc # "failed" => Placed(files, FilesOf(Passed)) /\ Placed(dirs, DirsOf(Passed))

\* The list of one more place is appended.
LEMMA PlacedAppend ==
  ASSUME NEW n \in Nat, NEW g, DOMAIN g \subseteq 1 .. n - 1, NEW u, IsSeq(u), NEW x, IsSeq(x),
         \A i \in DOMAIN g : Len(g[i]) \in Nat,
         Placed(u, g), NEW h, DOMAIN h = DOMAIN g \cup {n}, h[n] = x, \A i \in DOMAIN g : h[i] = g[i]
  PROVE  Placed(u \o x, h)
<1> DEFINE v == u \o x
<1>1. /\ Len(u) \in Nat /\ Len(x) \in Nat /\ Len(v) = Len(u) + Len(x)
      /\ \A y \in 1 .. Len(v) : v[y] = IF y <= Len(u) THEN u[y] ELSE x[y - Len(u)]
  <2> DEFINE S == ToSet(u) \cup ToSet(x)
  <2>1. u \in Seq(S) /\ x \in Seq(S)
    <3>1. u \in Seq(ToSet(u)) /\ x \in Seq(ToSet(x))
      BY DEF IsSeq
    <3> QED
      BY <3>1
  <2> HIDE DEF S
  <2> QED
    BY <2>1
<1> HIDE DEF v
<1>2. PICK pos : PlacedAt(pos, u, g)
  BY DEF Placed
<1> DEFINE new == [i \in DOMAIN h |-> IF i = n THEN [k \in 1 .. Len(x) |-> Len(u) + k] ELSE pos[i]]
<1>3. /\ \A i \in DOMAIN g : new[i] = pos[i] /\ i < n /\ i \in DOMAIN h /\ i # n /\ i \in Nat
      /\ n \in DOMAIN h /\ \A k \in 1 .. Len(x) : new[n][k] = Len(u) + k
  OBVIOUS
<1> HIDE DEF new
<1>4. ASSUME NEW i \in DOMAIN h, NEW k \in 1 .. Len(h[i])
      PROVE  new[i][k] \in 1 .. Len(v) /\ v[new[i][k]] = h[i][k]
  <2>1. CASE i = n
    <3>1. k \in 1 .. Len(x) /\ new[i][k] = Len(u) + k /\ h[i][k] = x[k]
      BY <1>3, <1>4, <2>1
    <3> QED
      BY <1>1, <3>1
  <2>2. CASE i # n
    <3>1. /\ i \in DOMAIN g /\ k \in 1 .. Len(g[i]) /\ new[i][k] = pos[i][k] /\ h[i][k] = g[i][k]
      BY <1>3, <1>4, <2>2
    <3>2. pos[i][k] \in 1 .. Len(u) /\ u[pos[i][k]] = g[i][k]
      BY <1>2, <3>1 DEF PlacedAt
    <3> QED
      BY <1>1, <3>1, <3>2
  <2> QED
    BY <2>1, <2>2
<1>5. ASSUME NEW i \in DOMAIN h, NEW j \in DOMAIN h, NEW k \in 1 .. Len(h[i]), NEW l \in 1 .. Len(h[j]),
             i < j \/ (i = j /\ k < l)
      PROVE  new[i][k] < new[j][l]
  <2>1. CASE i = n
    <3>1. i = j /\ k < l
      BY <1>3, <1>5, <2>1
    <3> QED
      BY <1>1, <1>3, <2>1, <3>1
  <2>2. CASE i # n /\ j = n
    <3>1. i \in DOMAIN g /\ k \in 1 .. Len(g[i]) /\ new[i][k] = pos[i][k] /\ l \in 1 .. Len(x)
      BY <1>3, <2>2
    <3>2. pos[i][k] \in 1 .. Len(u) /\ new[j][l] = Len(u) + l
      BY <1>2, <1>3, <2>2, <3>1 DEF PlacedAt
    <3> QED
      BY <1>1, <3>1, <3>2
  <2>3. CASE i # n /\ j # n
    <3>1. /\ i \in DOMAIN g /\ k \in 1 .. Len(g[i]) /\ new[i][k] = pos[i][k]
          /\ j \in DOMAIN g /\ l \in 1 .. Len(g[j]) /\ new[j][l] = pos[j][l]
      BY <1>3, <2>3
    <3> QED
      BY <1>2, <1>5, <3>1 DEF PlacedAt
  <2> QED
    BY <2>1, <2>2, <2>3
<1>6. ASSUME NEW y \in 1 .. Len(v)
      PROVE  \E i \in DOMAIN h : \E k \in 1 .. Len(h[i]) : new[i][k] = y
  <2>1. CASE y <= Len(u)
    <3>1. y \in 1 .. Len(u)
      BY <1>1, <2>1
    <3>2. PICK i \in DOMAIN g : \E k \in 1 .. Len(g[i]) : pos[i][k] = y
      BY <1>2, <3>1 DEF PlacedAt
    <3> QED
      BY <1>3, <3>2
  <2>2. CASE ~ (y <= Len(u))
    <3>1. y - Len(u) \in 1 .. Len(x) /\ Len(u) + (y - Len(u)) = y
      BY <1>1, <2>2
    <3> QED
      BY <1>3, <3>1
  <2> QED
    BY <2>1, <2>2
<1>7. PlacedAt(new, v, h)
  BY <1>4, <1>5, <1>6 DEF PlacedAt
<1>8. Placed(v, h)
  BY <1>7 DEF Placed
<1> QED
  BY <1>8 DEF v

LEMMA RunToFacts ==
  ASSUME rule \in Rules
  PROVE  /\ RunTo(0) = {} /\ RunTo(Len(rule.plugins)) = RunAt
         /\ \A n \in 1 .. Len(rule.plugins) :
              /\ RunTo(n - 1) \subseteq 1 .. n - 1
              /\ RunTo(n) = RunTo(n - 1) \cup (IF Protos(rule.plugins[n]) = << >> THEN {} ELSE {n})
         /\ RunAt \subseteq 1 .. Len(rule.plugins)
         /\ Ran = {rule.plugins[i] : i \in RunAt}
<1>1. RunTo(0) = {}
  <2>1. 1 .. 0 = {}
    OBVIOUS
  <2> QED
    BY <2>1 DEF RunTo
<1>2. ASSUME NEW n \in 1 .. Len(rule.plugins)
      PROVE  /\ RunTo(n - 1) \subseteq 1 .. n - 1
             /\ RunTo(n) = RunTo(n - 1) \cup (IF Protos(rule.plugins[n]) = << >> THEN {} ELSE {n})
  <2>1. 1 .. n = (1 .. n - 1) \cup {n}
    BY SourcesFacts
  <2> QED
    BY <2>1 DEF RunTo
<1> QED
  BY <1>1, <1>2 DEF RunTo, RunAt, Ran

\* A list that nothing was added to.
LEMMA PlacedSame ==
  ASSUME PlacedInv, pc # "failed", UNCHANGED <<rule, files, dirs>>, RunTo(Passed)' = RunTo(Passed)
  PROVE  PlacedInv'
<1>1. \A p : Generated(p)' = Generated(p) /\ OutputDirs(p)' = OutputDirs(p)
  BY SameOutputs DEF OutputDirs, OutputDir
<1>2. FilesOf(Passed)' = FilesOf(Passed) /\ DirsOf(Passed)' = DirsOf(Passed)
  BY <1>1 DEF FilesOf, DirsOf
<1>3. (Placed(files, FilesOf(Passed)) => Placed(files, FilesOf(Passed))')
      /\ (Placed(dirs, DirsOf(Passed)) => Placed(dirs, DirsOf(Passed))')
  BY <1>2 DEF Placed
<1> QED
  BY <1>3 DEF PlacedInv

\* A plugin that is run adds a list, for one more place.
LEMMA PlacedAdd ==
  ASSUME IInv, PlacedInv, AddPlugin
  PROVE  PlacedInv'
<1> DEFINE q == rule.plugins[at]
<1>1. /\ rule \in Rules /\ at \in 1 .. Len(rule.plugins) /\ Len(rule.plugins) \in Nat
      /\ pc = "plugins" /\ pc' = "plugins" /\ at' = at + 1 /\ rule' = rule
      /\ Protos(q) # << >>
      /\ files' = files \o Generated(q) /\ dirs' = dirs \o OutputDirs(q)
  BY SourcesFacts DEF IInv, PointInv, AddPlugin, AtPlugin, Plugin
<1>2. Passed = at - 1 /\ Passed' = at /\ pc # "failed"
  BY <1>1 DEF Passed
<1>3. RunTo(at) = RunTo(at - 1) \cup {at} /\ RunTo(at - 1) \subseteq 1 .. at - 1
  BY <1>1, RunToFacts
<1>4. \A p : Generated(p)' = Generated(p) /\ OutputDirs(p)' = OutputDirs(p) /\ Protos(p)' = Protos(p)
  BY <1>1, SameOutputs DEF OutputDirs, OutputDir
<1>5. \A i \in 1 .. Len(rule.plugins) : IsSeq(Generated(rule.plugins[i])) /\ IsSeq(OutputDirs(rule.plugins[i]))
  BY <1>1, PluginFacts
<1>6. \A s : IsSeq(s) => Len(s) \in Nat
  BY SeqFacts DEF IsSeq
<1>7. IsSeq(files) /\ IsSeq(dirs) /\ Placed(files, FilesOf(at - 1)) /\ Placed(dirs, DirsOf(at - 1))
  BY <1>2 DEF IInv, FilesInv, PlacedInv
<1>8. RunTo(Passed)' = RunTo(at) /\ RunTo(at) \subseteq 1 .. Len(rule.plugins)
  BY <1>1, <1>2, <1>4 DEF RunTo
<1>9. Placed(files', FilesOf(at))
  <2> DEFINE g == FilesOf(at - 1)
             h == FilesOf(at)
  <2>1. /\ DOMAIN g \subseteq 1 .. at - 1 /\ DOMAIN h = DOMAIN g \cup {at}
        /\ h[at] = Generated(q) /\ \A i \in DOMAIN g : h[i] = g[i] /\ Len(g[i]) \in Nat
    BY <1>3, <1>5, <1>6, <1>8 DEF FilesOf
  <2> HIDE DEF g, h, q
  <2>2. at \in Nat /\ IsSeq(Generated(q))
    BY <1>1, <1>5 DEF q
  <2>3. Placed(files \o Generated(q), h)
    BY <1>7, <2>1, <2>2, PlacedAppend DEF g
  <2> QED
    BY <1>1, <2>3 DEF h
<1>10. Placed(dirs', DirsOf(at))
  <2> DEFINE g == DirsOf(at - 1)
             h == DirsOf(at)
  <2>1. /\ DOMAIN g \subseteq 1 .. at - 1 /\ DOMAIN h = DOMAIN g \cup {at}
        /\ h[at] = OutputDirs(q) /\ \A i \in DOMAIN g : h[i] = g[i] /\ Len(g[i]) \in Nat
    BY <1>3, <1>5, <1>6, <1>8 DEF DirsOf
  <2> HIDE DEF g, h, q
  <2>2. at \in Nat /\ IsSeq(OutputDirs(q))
    BY <1>1, <1>5 DEF q
  <2>3. Placed(dirs \o OutputDirs(q), h)
    BY <1>7, <2>1, <2>2, PlacedAppend DEF g
  <2> QED
    BY <1>1, <2>3 DEF h
<1>11. FilesOf(Passed)' = FilesOf(at) /\ DirsOf(Passed)' = DirsOf(at)
  BY <1>1, <1>4, <1>8 DEF FilesOf, DirsOf
<1>12. Placed(files, FilesOf(Passed))' /\ Placed(dirs, DirsOf(Passed))'
  <2>1. Placed(files, FilesOf(Passed))'
    BY <1>9, <1>11 DEF Placed
  <2>2. Placed(dirs, DirsOf(Passed))'
    BY <1>10, <1>11 DEF Placed
  <2> QED
    BY <2>1, <2>2
<1> QED
  BY <1>12 DEF PlacedInv

\* PlacedInv is kept by every step of the analysis.
LEMMA PlacedStep ==
  ASSUME IInv, PlacedInv, AnalysisNext
  PROVE  PlacedInv'
<1>1. CASE Fail
  BY <1>1 DEF Fail, PlacedInv
<1>2. CASE AddPlugin
  BY <1>2, PlacedAdd
<1>3. CASE SkipPlugin
  <2>1. /\ rule \in Rules /\ at \in 1 .. Len(rule.plugins) /\ Len(rule.plugins) \in Nat
        /\ pc = "plugins" /\ pc' = "plugins" /\ at' = at + 1
        /\ UNCHANGED <<rule, files, dirs>> /\ Protos(rule.plugins[at]) = << >>
    BY <1>3, SourcesFacts DEF IInv, PointInv, SkipPlugin, AtPlugin, Plugin
  <2>2. Passed = at - 1 /\ Passed' = at
    BY <2>1 DEF Passed
  <2>3. RunTo(at) = RunTo(at - 1)
    BY <2>1, RunToFacts
  <2>4. RunTo(Passed)' = RunTo(Passed)
    BY <2>1, <2>2, <2>3, SameOutputs DEF RunTo
  <2> QED
    BY <2>1, <2>4, PlacedSame
<1>4. CASE ~ Fail /\ ~ AddPlugin /\ ~ SkipPlugin
  <2>1. rule' = rule /\ files' = files /\ dirs' = dirs /\ pc # "failed" /\ Passed' = Passed
    <3>1. rule \in Rules /\ Len(rule.plugins) \in Nat /\ at \in Nat
          /\ (pc = "plugins" => at <= Len(rule.plugins) + 1)
      BY SourcesFacts DEF IInv, PointInv
    <3>2. CASE ResolveKey \/ ResolveStar
      BY <1>4, <3>1, <3>2 DEF ResolveKey, ResolveStar, Passed
    <3>3. CASE MergeOutputs \/ CopyOutputs
      BY <1>4, <3>1, <3>3 DEF MergeOutputs, CopyOutputs, PluginsDone, Passed
    <3>4. CASE CheckActions
      BY <1>4, <3>1, <3>4 DEF CheckActions, Passed
    <3> QED
      BY <1>4, <3>2, <3>3, <3>4 DEF AnalysisNext, RejectPlugin, RejectMode
  <2>2. RunTo(Passed)' = RunTo(Passed)
    BY <2>1, SameOutputs DEF RunTo
  <2> QED
    BY <2>1, <2>2, PlacedSame
<1> QED
  BY <1>1, <1>2, <1>3, <1>4

-----------------------------------------------------------------------------
(* The actions of an accepted target, and the files that they make. *)

\* The run of protoc for a plugin, and the directory that it may write to.
ProtocOf(p) == Protoc(p, IF p.template THEN {UnfixedDir(p)} ELSE ToSet(PluginOutputs(p)))

\* The directory that a plugin with a template or a directory writes to.
DirOf(p) == IF p.template THEN UnfixedDir(p) ELSE OutputDir(p)

\* The action that writes the manifest of the merger, and that of the merger.
Listing == Action("write", NoPlugin, {}, {MergerManifest}, dirs \o files, << >>, << >>)

Merging ==
  Action("merger", NoPlugin, {MergerManifest} \cup ToSet(dirs) \cup ToSet(files), {MergedDir},
         << >>, << >>, << >>)

\* What each of the actions takes and makes.
LEMMA Fields ==
  /\ \A p : /\ Manifested(p).kind = "write" /\ Manifested(p).plugin = NoPlugin /\ Manifested(p).inputs = {}
            /\ Manifested(p).outputs = {FixerManifest(p)} /\ Manifested(p).lists = PluginOutputs(p)
            /\ ProtocOf(p).kind = "protoc" /\ ProtocOf(p).plugin = p.label /\ ProtocOf(p).inputs = {}
            /\ ProtocOf(p).outputs = IF p.template THEN {UnfixedDir(p)} ELSE ToSet(PluginOutputs(p))
            /\ Fixed(p).kind = "fixer" /\ Fixed(p).plugin = p.label
            /\ Fixed(p).inputs = {FixerManifest(p), UnfixedDir(p)}
            /\ Fixed(p).outputs = ToSet(PluginOutputs(p))
  /\ \A f, g : /\ Copy(f, g).kind = "copy" /\ Copy(f, g).plugin = NoPlugin
               /\ Copy(f, g).inputs = {f} /\ Copy(f, g).outputs = {g}
  /\ Listing.kind = "write" /\ Listing.plugin = NoPlugin /\ Listing.inputs = {}
  /\ Listing.outputs = {MergerManifest} /\ Listing.lists = dirs \o files
  /\ Merging.kind = "merger" /\ Merging.plugin = NoPlugin /\ Merging.outputs = {MergedDir}
  /\ Merging.inputs = {MergerManifest} \cup ToSet(dirs) \cup ToSet(files)
BY DEF Manifested, ProtocOf, Protoc, Fixed, Copy, Listing, Merging, Action

\* Every action is one of these, and these are registered.
LEMMA Registered ==
  ASSUME IInv, pc = "done"
  PROVE  /\ \A p \in Ran :
              /\ ProtocOf(p) \in actions
              /\ p.template => Manifested(p) \in actions /\ Fixed(p) \in actions
              /\ \A f \in ToSet(Out(p)) : IsJar(f) => Copy(f, SrcJar(f)) \in actions
         /\ dirs = << >> => \A f \in ToSet(files) : Copy(f, Destination(f)) \in actions
         /\ dirs # << >> => Listing \in actions /\ Merging \in actions
         /\ \A a \in actions :
              \/ \E p \in Ran : p.template /\ a = Manifested(p)
              \/ \E p \in Ran : a = ProtocOf(p)
              \/ \E p \in Ran : p.template /\ a = Fixed(p)
              \/ \E p \in Ran : \E f \in ToSet(Out(p)) : IsJar(f) /\ a = Copy(f, SrcJar(f))
              \/ dirs = << >> /\ \E f \in ToSet(files) : a = Copy(f, Destination(f))
              \/ dirs # << >> /\ a \in {Listing, Merging}
         /\ \A a, b \in actions : \A f \in a.outputs : f \in b.outputs => a = b
<1>1. /\ actions = (UNION {ActionsOf(p) : p \in Ran}) \cup FinalActions
      /\ ~ Conflicting /\ rule \in Rules
  BY EndFacts DEF IInv, ActionsInv
<1>2. ASSUME NEW p \in Ran
      PROVE  ActionsOf(p) = {ProtocOf(p)}
                              \cup (IF p.template THEN {Manifested(p), Fixed(p)} ELSE {})
                              \cup {Copy(f, SrcJar(f)) : f \in {g \in ToSet(Out(p)) : IsJar(g)}}
  <2>1. PICK i \in 1 .. Len(rule.plugins) : p = rule.plugins[i]
    BY <1>1, RanFacts
  <2>2. p.template \in BOOLEAN
    BY <1>1, <2>1, PluginFacts
  <2>3. PluginActions(p) = {ProtocOf(p)} \cup (IF p.template THEN {Manifested(p), Fixed(p)} ELSE {})
    BY <2>2 DEF PluginActions, ProtocOf, Manifested, Fixed
  <2>4. JarActions(p) = {Copy(f, SrcJar(f)) : f \in {g \in ToSet(Out(p)) : IsJar(g)}}
    BY DEF JarActions
  <2> QED
    BY <2>3, <2>4 DEF ActionsOf
<1>3. FinalActions = IF dirs = << >> THEN {Copy(f, Destination(f)) : f \in ToSet(files)}
                     ELSE {Listing, Merging}
  BY DEF FinalActions, Listing, Merging
<1>4. \A a, b \in actions : \A f \in a.outputs : f \in b.outputs => a = b
  BY <1>1 DEF Conflicting
<1>5. ASSUME NEW p \in Ran
      PROVE  /\ ProtocOf(p) \in actions
             /\ p.template => Manifested(p) \in actions /\ Fixed(p) \in actions
             /\ \A f \in ToSet(Out(p)) : IsJar(f) => Copy(f, SrcJar(f)) \in actions
  <2>1. ActionsOf(p) \subseteq actions
    BY <1>1
  <2> QED
    BY <1>2, <2>1
<1>6. ASSUME NEW a \in actions
      PROVE  \/ \E p \in Ran : p.template /\ a = Manifested(p)
             \/ \E p \in Ran : a = ProtocOf(p)
             \/ \E p \in Ran : p.template /\ a = Fixed(p)
             \/ \E p \in Ran : \E f \in ToSet(Out(p)) : IsJar(f) /\ a = Copy(f, SrcJar(f))
             \/ dirs = << >> /\ \E f \in ToSet(files) : a = Copy(f, Destination(f))
             \/ dirs # << >> /\ a \in {Listing, Merging}
  <2>1. CASE a \in FinalActions
    BY <1>3, <2>1
  <2>2. CASE a \notin FinalActions
    <3>1. PICK p \in Ran : a \in ActionsOf(p)
      BY <1>1, <2>2
    <3>2. a \in {ProtocOf(p)}
                  \cup (IF p.template THEN {Manifested(p), Fixed(p)} ELSE {})
                  \cup {Copy(f, SrcJar(f)) : f \in {g \in ToSet(Out(p)) : IsJar(g)}}
      BY <1>2, <3>1
    <3> QED
      BY <3>2
  <2> QED
    BY <2>1, <2>2
<1>7. /\ dirs = << >> => \A f \in ToSet(files) : Copy(f, Destination(f)) \in actions
      /\ dirs # << >> => Listing \in actions /\ Merging \in actions
  BY <1>1, <1>3
<1> QED
  BY <1>4, <1>5, <1>6, <1>7

\* Of a plugin that is run: its outputs, where they are and how they end.
LEMMA Outputs ==
  ASSUME IInv, pc = "done", NEW p \in Ran
  PROVE  /\ \A q \in Ran : q.label = p.label => q = p
         /\ p.template \in BOOLEAN /\ p.directory \in BOOLEAN
         /\ p.directory => /\ ~ p.template /\ Out(p) = << >> /\ Generated(p) = << >>
                           /\ PluginOutputs(p) = <<OutputDir(p)>> /\ OutputDirs(p) = <<OutputDir(p)>>
         /\ ~ p.directory => /\ OutputDirs(p) = << >>
                             /\ \A f \in ToSet(PluginOutputs(p)) : f.ext \notin OwnExts
         /\ IsSeq(PluginOutputs(p)) /\ PluginOutputs(p) # << >>
         /\ \A f \in ToSet(PluginOutputs(p)) : f.place = "premerge"
         /\ ToSet(Out(p)) \subseteq ToSet(PluginOutputs(p))
<1>1. rule \in Rules /\ pc # "failed" /\ Passed = Len(rule.plugins)
  BY DEF IInv, PointInv, Passed
<1>2. PICK i \in 1 .. Len(rule.plugins) : p = rule.plugins[i] /\ Protos(p) # << >>
  BY <1>1, RanFacts
<1>3. ASSUME NEW q \in Ran, q.label = p.label PROVE q = p
  <2>1. PICK j \in 1 .. Len(rule.plugins) : q = rule.plugins[j]
    BY <1>1, RanFacts
  <2>2. i \in DOMAIN rule.plugins /\ j \in DOMAIN rule.plugins
    BY <1>1, SourcesFacts
  <2> QED
    BY <1>1, <1>2, <1>3, <2>1, <2>2, RulesAssumption
<1>4. ~ Mixed(p) /\ ~ Unusable(p)
  BY <1>1, <1>2 DEF IInv, PluginsInv
<1>5. /\ IsSeq(PluginOutputs(p)) /\ PluginOutputs(p) # << >>
      /\ ToSet(PluginOutputs(p)) = ToSet(PerProto(p)) \cup ToSet(Out(p)) \cup ToSet(OutputDirs(p))
      /\ \A f \in ToSet(PerProto(p)) \cup ToSet(Out(p)) : f.place = "premerge" /\ f.ext \notin OwnExts
      /\ \A f \in ToSet(OutputDirs(p)) : f.place = "premerge"
      /\ p.directory \in BOOLEAN /\ p.template \in BOOLEAN
  BY <1>1, <1>2, <1>4, PluginFacts DEF Unusable
<1>6. ASSUME p.directory
      PROVE  /\ ~ p.template /\ Out(p) = << >> /\ Generated(p) = << >>
             /\ PluginOutputs(p) = <<OutputDir(p)>> /\ OutputDirs(p) = <<OutputDir(p)>>
  <2>1. ~ p.template /\ p.out = {} /\ p.outputs = << >>
    BY <1>4, <1>5, <1>6 DEF Mixed
  <2>2. Out(p) = << >> /\ OutputDirs(p) = <<OutputDir(p)>>
    BY <1>6, <2>1 DEF Out, OutputDirs
  <2>3. PerProto(p) = << >>
    <3>1. IsSeq(PerProto(p)) /\ \A f \in ToSet(PerProto(p)) : MadeFrom(f, p, Protos(p))
      <4>1. PerProto(p) = Declared(p, Protos(p)) /\ IsSeq(p.outputs)
        BY <2>1, OneFacts DEF PerProto
      <4> QED
        BY <1>1, <4>1, DeclaredFacts, ProtosFacts
    <3>2. ToSet(PerProto(p)) = {}
      BY <2>1, <3>1, OneFacts DEF MadeFrom
    <3> QED
      BY <3>1, <3>2, SeqFacts DEF IsSeq
  <2>4. Generated(p) = << >>
    <3>1. [j \in 1 .. Len(Out(p)) |-> IF IsJar(Out(p)[j]) THEN SrcJar(Out(p)[j]) ELSE Out(p)[j]] = << >>
      BY <2>2
    <3> QED
      BY <2>3, <3>1 DEF Generated
  <2> QED
    BY <2>1, <2>2, <2>3, <2>4 DEF PluginOutputs
<1>7. ASSUME ~ p.directory
      PROVE  OutputDirs(p) = << >> /\ \A f \in ToSet(PluginOutputs(p)) : f.ext \notin OwnExts
  BY <1>5, <1>7, OneFacts DEF OutputDirs
<1> QED
  BY <1>3, <1>5, <1>6, <1>7

-----------------------------------------------------------------------------
(***************************************************************************)
(* The inductive invariant of the execution.  What is on disk is what the  *)
(* actions that succeeded declare, each had its inputs, and what it left   *)
(* is still as it left it.                                                 *)
(***************************************************************************)

Finished == ran \ DOMAIN broken

\* The target as it is handed over by the analysis.
Accepted == [sources |-> [i \in RunAt |-> SourceOf(rule.plugins[i])], merged |-> dirs # << >>]

\* What is on disk was declared by an action that ended well.
DiskInv ==
  /\ ran \subseteq actions /\ DOMAIN broken \subseteq ran
  /\ \A a \in DOMAIN broken : broken[a] \in {"tool", "twice", "missing", "denied", "conflict"}
  /\ \A a \in DOMAIN broken : broken[a] \in {"twice", "missing"} => a.kind = "protoc"
  /\ DOMAIN disk = UNION {a.outputs : a \in Finished}
  /\ \A a \in Finished : a.inputs \subseteq DOMAIN disk
  /\ pc # "done" => ran = {} /\ target = NoTarget
  /\ pc = "done" => target = Accepted

\* What the run of protoc for a plugin leaves.
Emits(p) ==
  IF p.directory \/ p.template
  THEN \E names \in SUBSET ToSet(Candidates(p)) :
         disk[DirOf(p)] = Tree([f \in names |-> Written(p.label, f)])
  ELSE \A f \in ToSet(PluginOutputs(p)) : disk[f] = Written(p.label, f)

\* A manifest that was written lists what its action lists.
Listed == \A a \in Finished : a.kind = "write" => \A f \in a.outputs : disk[f] = Manifest(a.lists)

\* What a plugin wrote is still there.
Emitted == \A p \in Ran : ProtocOf(p) \in Finished => Emits(p)

\* A file of the fixer is a copy, or filled in if the plugin left it out.
FilledIn ==
  \A p \in Ran : p.template /\ Fixed(p) \in Finished =>
    \A f \in ToSet(PluginOutputs(p)) : disk[f] = Fix(p.label, disk[UnfixedDir(p)].tree, f)

\* A source jar is a copy of the jar.
Copied ==
  \A p \in Ran : \A f \in ToSet(Out(p)) :
    IsJar(f) /\ Copy(f, SrcJar(f)) \in Finished => disk[SrcJar(f)] = disk[f]

MadeInv == Listed /\ Emitted /\ FilledIn /\ Copied

\* The inductive invariant of the build.
BInv == IInv /\ PlacedInv /\ DiskInv /\ MadeInv

-----------------------------------------------------------------------------

\* What depends on the analysis alone stays as it is while actions run.
LEMMA SameAnalysis ==
  ASSUME UNCHANGED analysisVars
  PROVE  /\ Ran' = Ran /\ RunAt' = RunAt /\ Accepted' = Accepted /\ MergedDir' = MergedDir
         /\ \A p : /\ ProtocOf(p)' = ProtocOf(p) /\ Fixed(p)' = Fixed(p) /\ DirOf(p)' = DirOf(p)
                   /\ PluginOutputs(p)' = PluginOutputs(p) /\ Out(p)' = Out(p)
                   /\ Candidates(p)' = Candidates(p) /\ SourceOf(p)' = SourceOf(p)
<1> USE DEF analysisVars
<1>1. Ran' = Ran /\ \A p : Protos(p)' = Protos(p) /\ PluginOutputs(p)' = PluginOutputs(p)
                           /\ Generated(p)' = Generated(p)
  BY SameTarget, SameOutputs
<1>2. RunAt' = RunAt
  BY <1>1 DEF RunAt
<1>3. \A p, outs : Protoc(p, outs)' = Protoc(p, outs)
  BY <1>1 DEF Protoc, Options
<1>4. \A p : /\ ProtocOf(p)' = ProtocOf(p) /\ Fixed(p)' = Fixed(p) /\ DirOf(p)' = DirOf(p)
             /\ Out(p)' = Out(p) /\ Candidates(p)' = Candidates(p)
  BY <1>1, <1>3 DEF ProtocOf, Fixed, DirOf, Candidates, Out, UnfixedDir, OutputDir, FixerManifest
<1>5. \A f : InTarget(f)' = InTarget(f)
  BY DEF InTarget, Destination
<1>6. \A p : Called(p)' = Called(p)
  BY <1>1 DEF Called
<1>7. \A p : SourceOf(p)' = SourceOf(p)
  BY <1>4, <1>5, <1>6 DEF SourceOf
<1>8. Accepted' = Accepted
  BY <1>2, <1>7 DEF Accepted
<1>9. MergedDir' = MergedDir
  BY DEF MergedDir
<1> QED
  BY <1>1, <1>2, <1>4, <1>7, <1>8, <1>9

\* What is said of the analysis stays true while actions run.
LEMMA IdleStep ==
  ASSUME IInv, PlacedInv, UNCHANGED analysisVars
  PROVE  IInv' /\ PlacedInv'
<1>1. IInv'
  <2>1. PointInv'
    BY PointStep DEF IInv
  <2> QED
    BY <2>1, StutterStep
<1>2. PlacedInv'
  <2>1. CASE pc = "failed"
    BY <2>1 DEF PlacedInv, analysisVars
  <2>2. CASE pc # "failed"
    <3>1. Passed' = Passed
      BY DEF Passed, analysisVars
    <3>2. RunTo(Passed)' = RunTo(Passed)
      BY <3>1, SameOutputs DEF RunTo, analysisVars
    <3> QED
      BY <2>2, <3>2, PlacedSame DEF analysisVars
  <2> QED
    BY <2>1, <2>2
<1> QED
  BY <1>1, <1>2

\* An action that is ready and succeeds adds its outputs, and nothing that was
\* on disk changes.
LEMMA Frame ==
  ASSUME BInv, NEW a, Ready(a), NEW c, DOMAIN c = a.outputs, Succeed(a, c)
  PROVE  /\ a \in actions /\ a \notin ran /\ Finished' = Finished \cup {a}
         /\ DOMAIN disk' = DOMAIN disk \cup a.outputs
         /\ \A f \in DOMAIN disk : f \notin a.outputs /\ disk'[f] = disk[f]
         /\ \A f \in a.outputs : disk'[f] = c[f]
         /\ \A b \in Finished : b.outputs \subseteq DOMAIN disk /\ b.inputs \subseteq DOMAIN disk
         /\ IInv' /\ PlacedInv' /\ DiskInv'
<1>1. /\ pc = "done" /\ a \in actions \ ran /\ a.inputs \subseteq DOMAIN disk
      /\ ran' = ran \cup {a} /\ disk' = With(disk, c)
      /\ UNCHANGED analysisVars /\ UNCHANGED <<broken, target>>
  BY DEF Ready, Succeed
<1>2. Finished' = Finished \cup {a}
  BY <1>1 DEF Finished, BInv, DiskInv
<1>3. /\ DOMAIN disk' = DOMAIN disk \cup a.outputs
      /\ \A f \in a.outputs : disk'[f] = c[f]
      /\ \A f \in DOMAIN disk : f \notin a.outputs => disk'[f] = disk[f]
  BY <1>1 DEF With
<1>4. ASSUME NEW f \in DOMAIN disk PROVE f \notin a.outputs
  <2>1. PICK b \in Finished : f \in b.outputs
    BY DEF BInv, DiskInv
  <2>2. b \in actions /\ b \in ran
    BY <2>1 DEF BInv, DiskInv, Finished
  <2> QED
    BY <1>1, <2>1, <2>2, Registered DEF BInv
<1>5. \A b \in Finished : b.outputs \subseteq DOMAIN disk /\ b.inputs \subseteq DOMAIN disk
  BY DEF BInv, DiskInv
<1>6. IInv' /\ PlacedInv'
  BY <1>1, IdleStep DEF BInv
<1>7. DiskInv'
  <2>1. Accepted' = Accepted /\ pc' = pc /\ actions' = actions
    BY <1>1, SameAnalysis DEF analysisVars
  <2>2. DOMAIN disk' = UNION {b.outputs : b \in Finished'}
    BY <1>2, <1>3 DEF BInv, DiskInv
  <2>3. \A b \in Finished' : b.inputs \subseteq DOMAIN disk'
    BY <1>1, <1>2, <1>3, <1>5
  <2>4. /\ ran' \subseteq actions' /\ DOMAIN broken' \subseteq ran'
        /\ \A b \in DOMAIN broken' : broken'[b] \in {"tool", "twice", "missing", "denied", "conflict"}
        /\ \A b \in DOMAIN broken' : broken'[b] \in {"twice", "missing"} => b.kind = "protoc"
    BY <1>1, <2>1 DEF BInv, DiskInv
  <2>5. target' = Accepted'
    BY <1>1, <2>1 DEF BInv, DiskInv
  <2> QED
    BY <1>1, <2>1, <2>2, <2>3, <2>4, <2>5 DEF DiskInv
<1> QED
  BY <1>1, <1>2, <1>3, <1>4, <1>5, <1>6, <1>7

\* It keeps the invariant if what it leaves is what an action of its kind does.
LEMMA Kept ==
  ASSUME BInv, NEW a, Ready(a), NEW c, DOMAIN c = a.outputs, Succeed(a, c),
         a.kind = "write" => \A f \in a.outputs : c[f] = Manifest(a.lists),
         \A p \in Ran : a = ProtocOf(p) => Emits(p)',
         \A p \in Ran : p.template /\ a = Fixed(p) =>
           \A f \in ToSet(PluginOutputs(p)) : c[f] = Fix(p.label, disk[UnfixedDir(p)].tree, f),
         \A f \in a.inputs : a.kind = "copy" => \A g \in a.outputs : c[g] = disk[f]
  PROVE  BInv'
<1>1. /\ Finished' = Finished \cup {a} /\ a \in actions /\ a \notin ran
      /\ \A f \in DOMAIN disk : f \notin a.outputs /\ disk'[f] = disk[f]
      /\ \A f \in a.outputs : disk'[f] = c[f]
      /\ \A b \in Finished : b.outputs \subseteq DOMAIN disk /\ b.inputs \subseteq DOMAIN disk
      /\ IInv' /\ PlacedInv' /\ DiskInv'
  BY Frame
<1>2. /\ pc = "done" /\ a.inputs \subseteq DOMAIN disk /\ UNCHANGED analysisVars
  BY DEF Ready, Succeed
<1>3. /\ Ran' = Ran
      /\ \A p : /\ ProtocOf(p)' = ProtocOf(p) /\ Fixed(p)' = Fixed(p) /\ DirOf(p)' = DirOf(p)
                /\ PluginOutputs(p)' = PluginOutputs(p) /\ Out(p)' = Out(p)
                /\ Candidates(p)' = Candidates(p)
  BY <1>2, SameAnalysis
<1>4. Listed'
  BY <1>1 DEF Listed, BInv, MadeInv
<1>5. Emitted'
  <2> SUFFICES ASSUME NEW p \in Ran, ProtocOf(p) \in Finished PROVE Emits(p)'
    BY <1>1, <1>3 DEF Emitted
  <2>1. Emits(p)
    BY DEF BInv, MadeInv, Emitted
  <2>2. ProtocOf(p).outputs \subseteq DOMAIN disk
    BY <1>1
  <2>3. CASE p.directory \/ p.template
    <3>1. DirOf(p) \in ProtocOf(p).outputs
      <4>1. p.directory => PluginOutputs(p) = <<OutputDir(p)>>
        BY <1>2, Outputs DEF BInv
      <4>2. CASE p.template
        BY <4>2, Fields DEF DirOf
      <4>3. CASE ~ p.template
        <5>1. PluginOutputs(p) = <<OutputDir(p)>> /\ DirOf(p) = OutputDir(p)
          BY <2>3, <4>1, <4>3 DEF DirOf
        <5>2. ProtocOf(p).outputs = ToSet(PluginOutputs(p))
          BY <4>3, Fields
        <5>3. OutputDir(p) \in ToSet(<<OutputDir(p)>>)
          BY OneFacts
        <5> QED
          BY <5>1, <5>2, <5>3
      <4> QED
        BY <4>2, <4>3
    <3>2. disk'[DirOf(p)] = disk[DirOf(p)]
      BY <1>1, <2>2, <3>1
    <3> QED
      BY <1>3, <2>1, <2>3, <3>2 DEF Emits
  <2>4. CASE ~ (p.directory \/ p.template)
    <3>1. ProtocOf(p).outputs = ToSet(PluginOutputs(p))
      BY <2>4, Fields
    <3>2. \A f \in ToSet(PluginOutputs(p)) : disk'[f] = disk[f]
      BY <1>1, <2>2, <3>1
    <3> QED
      BY <1>3, <2>1, <2>4, <3>2 DEF Emits
  <2> QED
    BY <2>3, <2>4
<1>6. FilledIn'
  <2> SUFFICES ASSUME NEW p \in Ran, p.template, Fixed(p) \in Finished', NEW f \in ToSet(PluginOutputs(p))
               PROVE  disk'[f] = Fix(p.label, disk'[UnfixedDir(p)].tree, f)
    BY <1>3 DEF FilledIn, UnfixedDir
  <2>1. UnfixedDir(p) \in Fixed(p).inputs /\ f \in Fixed(p).outputs
    BY Fields
  <2>2. CASE Fixed(p) = a
    BY <1>1, <1>2, <2>1, <2>2
  <2>3. CASE Fixed(p) \in Finished
    <3>1. disk'[UnfixedDir(p)] = disk[UnfixedDir(p)] /\ disk'[f] = disk[f]
      BY <1>1, <2>1, <2>3
    <3> QED
      BY <2>3, <3>1 DEF BInv, MadeInv, FilledIn
  <2> QED
    BY <1>1, <2>2, <2>3
<1>7. Copied'
  <2> SUFFICES ASSUME NEW p \in Ran, NEW f \in ToSet(Out(p)), IsJar(f), Copy(f, SrcJar(f)) \in Finished'
               PROVE  disk'[SrcJar(f)] = disk'[f]
    BY <1>3 DEF Copied
  <2>1. /\ f \in Copy(f, SrcJar(f)).inputs /\ SrcJar(f) \in Copy(f, SrcJar(f)).outputs
        /\ Copy(f, SrcJar(f)).kind = "copy"
    BY DEF Copy, Action
  <2>2. CASE Copy(f, SrcJar(f)) = a
    BY <1>1, <1>2, <2>1, <2>2
  <2>3. CASE Copy(f, SrcJar(f)) \in Finished
    <3>1. disk'[f] = disk[f] /\ disk'[SrcJar(f)] = disk[SrcJar(f)]
      BY <1>1, <2>1, <2>3
    <3> QED
      BY <2>3, <3>1 DEF BInv, MadeInv, Copied
  <2> QED
    BY <1>1, <2>2, <2>3
<1> QED
  BY <1>1, <1>4, <1>5, <1>6, <1>7 DEF BInv, MadeInv

\* An action that fails leaves the disk and what is finished.
LEMMA Broken ==
  ASSUME BInv, NEW a, Ready(a), NEW why, Break(a, why),
         why \in {"tool", "twice", "missing", "denied", "conflict"},
         why \in {"twice", "missing"} => a.kind = "protoc"
  PROVE  BInv' /\ Finished' = Finished
<1>1. /\ pc = "done" /\ a \in actions \ ran
      /\ ran' = ran \cup {a} /\ broken' = With(broken, [b \in {a} |-> why])
      /\ UNCHANGED analysisVars /\ UNCHANGED <<disk, target>>
  BY DEF Ready, Break
<1>2. /\ DOMAIN broken' = DOMAIN broken \cup {a}
      /\ \A b \in DOMAIN broken' : (b = a /\ broken'[b] = why) \/ (b \in DOMAIN broken /\ broken'[b] = broken[b])
  BY <1>1 DEF With
<1>3. Finished' = Finished
  BY <1>1, <1>2 DEF Finished
<1>4. IInv' /\ PlacedInv'
  BY <1>1, IdleStep DEF BInv
<1>5. /\ Ran' = Ran /\ Accepted' = Accepted /\ pc' = pc /\ actions' = actions
      /\ \A p : /\ ProtocOf(p)' = ProtocOf(p) /\ Fixed(p)' = Fixed(p) /\ DirOf(p)' = DirOf(p)
                /\ PluginOutputs(p)' = PluginOutputs(p) /\ Out(p)' = Out(p)
                /\ Candidates(p)' = Candidates(p)
  BY <1>1, SameAnalysis DEF analysisVars
<1>6. DiskInv'
  <2>1. /\ \A b \in DOMAIN broken' : broken'[b] \in {"tool", "twice", "missing", "denied", "conflict"}
        /\ \A b \in DOMAIN broken' : broken'[b] \in {"twice", "missing"} => b.kind = "protoc"
    BY <1>2 DEF BInv, DiskInv
  <2> QED
    BY <1>1, <1>2, <1>3, <1>5, <2>1 DEF BInv, DiskInv
<1>7. \A p : Emits(p)' <=> Emits(p)
  BY <1>1, <1>5 DEF Emits
<1>8. Listed' /\ Emitted' /\ Copied'
  BY <1>1, <1>3, <1>5, <1>7 DEF BInv, MadeInv, Listed, Emitted, Copied
<1>9. FilledIn'
  BY <1>1, <1>3, <1>5 DEF BInv, MadeInv, FilledIn, UnfixedDir
<1> QED
  BY <1>3, <1>4, <1>6, <1>8, <1>9 DEF BInv, MadeInv

-----------------------------------------------------------------------------
(* Whose a file on disk is *)

\* Every action by its kind.
LEMMA KindFacts ==
  ASSUME IInv, pc = "done", NEW a \in actions
  PROVE  /\ a.kind = "write" =>
              (\E p \in Ran : p.template /\ a = Manifested(p)) \/ (dirs # << >> /\ a = Listing)
         /\ a.kind = "protoc" => \E p \in Ran : a = ProtocOf(p)
         /\ a.kind = "fixer" => \E p \in Ran : p.template /\ a = Fixed(p)
         /\ a.kind = "merger" => dirs # << >> /\ a = Merging
         /\ a.kind = "copy" =>
              \/ \E p \in Ran : \E f \in ToSet(Out(p)) : IsJar(f) /\ a = Copy(f, SrcJar(f))
              \/ dirs = << >> /\ \E f \in ToSet(files) : a = Copy(f, Destination(f))
<1>1. CASE \E p \in Ran : p.template /\ a = Manifested(p)
  <2>1. \A p : Manifested(p).kind = "write"
    BY Fields
  <2> QED
    BY <1>1, <2>1
<1>2. CASE \E p \in Ran : a = ProtocOf(p)
  <2>1. \A p : ProtocOf(p).kind = "protoc"
    BY Fields
  <2> QED
    BY <1>2, <2>1
<1>3. CASE \E p \in Ran : p.template /\ a = Fixed(p)
  <2>1. \A p : Fixed(p).kind = "fixer"
    BY Fields
  <2> QED
    BY <1>3, <2>1
<1>4. CASE \/ \E p \in Ran : \E f \in ToSet(Out(p)) : IsJar(f) /\ a = Copy(f, SrcJar(f))
           \/ dirs = << >> /\ \E f \in ToSet(files) : a = Copy(f, Destination(f))
  <2>1. a.kind = "copy"
    BY <1>4 DEF Copy, Action
  <2> QED
    BY <1>4, <2>1
<1>5. CASE dirs # << >> /\ a \in {Listing, Merging}
  <2>1. Listing.kind = "write" /\ Merging.kind = "merger"
    BY Fields
  <2> QED
    BY <1>5, <2>1
<1> QED
  BY <1>1, <1>2, <1>3, <1>4, <1>5, Registered

\* A file on disk was left by the action that declares it.
LEMMA OnDisk ==
  ASSUME BInv, pc = "done", NEW a \in actions, NEW f \in a.outputs, f \in DOMAIN disk
  PROVE  a \in Finished /\ a.inputs \subseteq DOMAIN disk /\ a.outputs \subseteq DOMAIN disk
<1>1. PICK b \in Finished : f \in b.outputs
  BY DEF BInv, DiskInv
<1>2. b \in actions
  BY <1>1 DEF BInv, DiskInv, Finished
<1>3. a = b
  BY <1>1, <1>2, Registered DEF BInv
<1> QED
  BY <1>1, <1>3 DEF BInv, DiskInv

\* The k-th of a plugin's outputs and what it is called when it has run.
LEMMA IndexFacts ==
  ASSUME IInv, pc = "done", NEW p \in Ran, ~ p.directory
  PROVE  /\ Len(PluginOutputs(p)) \in Nat /\ Len(Generated(p)) = Len(PluginOutputs(p))
         /\ DOMAIN PluginOutputs(p) = 1 .. Len(PluginOutputs(p))
         /\ DOMAIN Generated(p) = 1 .. Len(PluginOutputs(p))
         /\ ToSet(PluginOutputs(p)) = {PluginOutputs(p)[k] : k \in 1 .. Len(PluginOutputs(p))}
         /\ \A k \in 1 .. Len(PluginOutputs(p)) :
              \/ Generated(p)[k] = PluginOutputs(p)[k]
              \/ /\ PluginOutputs(p)[k] \in ToSet(Out(p)) /\ IsJar(PluginOutputs(p)[k])
                 /\ Generated(p)[k] = SrcJar(PluginOutputs(p)[k])
<1> DEFINE s == PerProto(p)
           t == Out(p)
           u == [j \in 1 .. Len(t) |-> IF IsJar(t[j]) THEN SrcJar(t[j]) ELSE t[j]]
<1>1. rule \in Rules
  BY DEF IInv, PointInv
<1>2. PICK i \in 1 .. Len(rule.plugins) : p = rule.plugins[i]
  BY <1>1, RanFacts
<1>3. /\ OutputDirs(p) = << >> /\ IsSeq(PluginOutputs(p)) /\ IsSeq(Generated(p))
      /\ p.directory \in BOOLEAN
  BY <1>1, <1>2, Outputs, PluginFacts
<1>4. IsSeq(s) /\ IsSeq(t)
  <2>1. IsSeq(s)
    <3>1. IsSeq(p.outputs) /\ s = Declared(p, Protos(p))
      <4>1. i \in DOMAIN rule.plugins
        BY <1>1, SourcesFacts
      <4> QED
        BY <1>1, <1>2, <4>1, RulesAssumption DEF IsSeq, PerProto
    <3> QED
      BY <1>1, <3>1, ProtosFacts, DeclaredFacts
  <2>2. IsSeq(t)
    BY OneFacts DEF Out
  <2> QED
    BY <2>1, <2>2
<1>5. /\ Len(s) \in Nat /\ Len(t) \in Nat /\ s \in Seq(ToSet(s)) /\ t \in Seq(ToSet(t))
      /\ DOMAIN t = 1 .. Len(t) /\ ToSet(t) = {t[j] : j \in 1 .. Len(t)}
  BY <1>4, SeqFacts DEF IsSeq
<1>6. PluginOutputs(p) = s \o t
  <2>1. (s \o t) \in Seq(ToSet(s) \cup ToSet(t))
    <3> DEFINE S == ToSet(s) \cup ToSet(t)
    <3>1. s \in Seq(S) /\ t \in Seq(S)
      BY <1>5
    <3> HIDE DEF S, s, t
    <3>2. s \o t \in Seq(S)
      BY <3>1
    <3> QED
      BY <3>2 DEF S
  <2>2. PluginOutputs(p) = (s \o t) \o << >>
    BY <1>3 DEF PluginOutputs
  <2> HIDE DEF s, t
  <2> QED
    BY <2>1, <2>2
<1>7. Generated(p) = s \o u
  BY DEF Generated
<1>8. /\ Len(u) = Len(t) /\ IsSeq(u)
      /\ \A j \in 1 .. Len(t) : u[j] = IF IsJar(t[j]) THEN SrcJar(t[j]) ELSE t[j]
  <2>1. /\ DOMAIN u = 1 .. Len(t) /\ u = [j \in 1 .. Len(t) |-> u[j]]
        /\ \A j \in 1 .. Len(t) : u[j] = IF IsJar(t[j]) THEN SrcJar(t[j]) ELSE t[j]
    OBVIOUS
  <2> HIDE DEF u, t
  <2> QED
    BY <1>5, <2>1, FunctionFacts
<1>9. u \in Seq(ToSet(u))
  BY <1>8 DEF IsSeq
<1> HIDE DEF s, t, u
<1>10. /\ Len(s \o t) = Len(s) + Len(t) /\ Len(s \o u) = Len(s) + Len(t)
       /\ \A k \in 1 .. Len(s) + Len(t) :
            /\ (s \o t)[k] = IF k <= Len(s) THEN s[k] ELSE t[k - Len(s)]
            /\ (s \o u)[k] = IF k <= Len(s) THEN s[k] ELSE u[k - Len(s)]
  <2> DEFINE S == ToSet(s) \cup ToSet(t) \cup ToSet(u)
  <2>1. s \in Seq(S) /\ t \in Seq(S) /\ u \in Seq(S)
    <3>1. ToSet(s) \subseteq S /\ ToSet(t) \subseteq S /\ ToSet(u) \subseteq S
      OBVIOUS
    <3> HIDE DEF S
    <3> QED
      BY <1>5, <1>9, <3>1
  <2> HIDE DEF S
  <2>2. /\ Len(s \o t) = Len(s) + Len(t)
        /\ \A k \in 1 .. Len(s) + Len(t) : (s \o t)[k] = IF k <= Len(s) THEN s[k] ELSE t[k - Len(s)]
    BY <2>1, ConcatProperties
  <2>3. /\ Len(s \o u) = Len(s) + Len(u)
        /\ \A k \in 1 .. Len(s) + Len(u) : (s \o u)[k] = IF k <= Len(s) THEN s[k] ELSE u[k - Len(s)]
    BY <2>1, ConcatProperties
  <2> QED
    BY <1>8, <2>2, <2>3
<1>11. /\ DOMAIN PluginOutputs(p) = 1 .. Len(PluginOutputs(p))
       /\ DOMAIN Generated(p) = 1 .. Len(Generated(p))
       /\ ToSet(PluginOutputs(p)) = {PluginOutputs(p)[k] : k \in 1 .. Len(PluginOutputs(p))}
  BY <1>3, SeqFacts DEF IsSeq
<1>12. ASSUME NEW k \in 1 .. Len(PluginOutputs(p))
       PROVE  \/ Generated(p)[k] = PluginOutputs(p)[k]
              \/ /\ PluginOutputs(p)[k] \in ToSet(Out(p)) /\ IsJar(PluginOutputs(p)[k])
                 /\ Generated(p)[k] = SrcJar(PluginOutputs(p)[k])
  <2>1. k \in 1 .. Len(s) + Len(t)
    BY <1>6, <1>10
  <2>2. CASE k <= Len(s)
    BY <1>6, <1>7, <1>10, <2>1, <2>2
  <2>3. CASE ~ (k <= Len(s))
    <3> DEFINE j == k - Len(s)
    <3>1. j \in 1 .. Len(t)
      BY <1>5, <2>1, <2>3
    <3>2. PluginOutputs(p)[k] = t[j] /\ Generated(p)[k] = u[j]
      BY <1>6, <1>7, <1>10, <2>1, <2>3
    <3> HIDE DEF j
    <3>3. t[j] \in ToSet(t)
      BY <1>5, <3>1
    <3>4. u[j] = IF IsJar(t[j]) THEN SrcJar(t[j]) ELSE t[j]
      BY <1>8, <3>1
    <3> QED
      BY <3>2, <3>3, <3>4 DEF t
  <2> QED
    BY <2>2, <2>3
<1>13. Len(PluginOutputs(p)) \in Nat /\ Len(Generated(p)) = Len(PluginOutputs(p))
  BY <1>5, <1>6, <1>7, <1>10
<1>14. DOMAIN Generated(p) = 1 .. Len(PluginOutputs(p))
  BY <1>11, <1>13
<1> QED
  BY <1>11, <1>12, <1>13, <1>14

\* The run of protoc for a plugin, as TargetBuild sees it.
LEMMA RunsFacts ==
  ASSUME BInv, pc = "done", NEW p \in Ran
  PROVE  /\ RunsOf(SourceOf(p)) = {ProtocOf(p)} \cap Finished
         /\ ~ (p.directory \/ p.template) => Wrote(SourceOf(p)) = ToSet(PluginOutputs(p))
         /\ p.directory \/ p.template => DirOf(p) \in ProtocOf(p).outputs
         /\ ProtocOf(p) \in Finished /\ (p.directory \/ p.template) =>
              /\ Wrote(SourceOf(p)) \subseteq ToSet(Candidates(p))
              /\ Wrote(SourceOf(p)) = DOMAIN disk[DirOf(p)].tree
              /\ disk[DirOf(p)] = Tree([f \in Wrote(SourceOf(p)) |-> Written(p.label, f)])
<1>1. /\ SourceOf(p).label = p.label /\ SourceOf(p).outs = Candidates(p)
      /\ SourceOf(p).writes = IF p.directory THEN "directory" ELSE IF p.template THEN "template" ELSE "all"
  BY DEF SourceOf
<1>2. RunsOf(SourceOf(p)) = {ProtocOf(p)} \cap Finished
  <2>1. RunsOf(SourceOf(p)) = {a \in Finished : a.kind = "protoc" /\ a.plugin = p.label}
    BY <1>1 DEF RunsOf, Finished
  <2>2. ASSUME NEW a \in Finished, a.kind = "protoc", a.plugin = p.label PROVE a = ProtocOf(p)
    <3>1. a \in actions
      BY DEF BInv, DiskInv, Finished
    <3>2. PICK q \in Ran : a = ProtocOf(q)
      BY <2>2, <3>1, KindFacts DEF BInv
    <3>3. q.label = p.label
      BY <2>2, <3>2, Fields
    <3> QED
      BY <3>2, <3>3, Outputs DEF BInv
  <2>3. ProtocOf(p).kind = "protoc" /\ ProtocOf(p).plugin = p.label
    BY Fields
  <2> QED
    BY <2>1, <2>2, <2>3
<1>3. ASSUME ~ (p.directory \/ p.template) PROVE Wrote(SourceOf(p)) = ToSet(PluginOutputs(p))
  BY <1>1, <1>3 DEF Wrote, Candidates
<1>4. ASSUME p.directory \/ p.template PROVE DirOf(p) \in ProtocOf(p).outputs /\ ProtocOf(p).outputs \subseteq {DirOf(p)}
  <2>1. CASE p.template
    BY <2>1, Fields DEF DirOf
  <2>2. CASE ~ p.template
    <3>1. PluginOutputs(p) = <<OutputDir(p)>> /\ DirOf(p) = OutputDir(p)
      BY <1>4, <2>2, Outputs DEF DirOf, BInv
    <3>2. ProtocOf(p).outputs = ToSet(PluginOutputs(p))
      BY <2>2, Fields
    <3>3. {OutputDir(p)} = ToSet(<<OutputDir(p)>>)
      BY OneFacts
    <3> QED
      BY <3>1, <3>2, <3>3
  <2> QED
    BY <2>1, <2>2
<1>5. ASSUME ProtocOf(p) \in Finished, p.directory \/ p.template
      PROVE  /\ Wrote(SourceOf(p)) \subseteq ToSet(Candidates(p))
             /\ Wrote(SourceOf(p)) = DOMAIN disk[DirOf(p)].tree
             /\ disk[DirOf(p)] = Tree([f \in Wrote(SourceOf(p)) |-> Written(p.label, f)])
  <2>1. PICK names \in SUBSET ToSet(Candidates(p)) :
          disk[DirOf(p)] = Tree([f \in names |-> Written(p.label, f)])
    BY <1>5 DEF BInv, MadeInv, Emitted, Emits
  <2>2. DOMAIN disk[DirOf(p)].tree = names
    BY <2>1 DEF Tree, Content
  <2>3. UNION {a.outputs : a \in RunsOf(SourceOf(p))} = {DirOf(p)}
    <3>1. RunsOf(SourceOf(p)) = {ProtocOf(p)} /\ ProtocOf(p).outputs = {DirOf(p)}
      BY <1>2, <1>4, <1>5
    <3> QED
      BY <3>1
  <2>4. Wrote(SourceOf(p)) = DOMAIN disk[DirOf(p)].tree
    <3>1. SourceOf(p).writes # "all"
      BY <1>1, <1>5
    <3>2. (CHOOSE d \in {DirOf(p)} : TRUE) = DirOf(p)
      OBVIOUS
    <3> QED
      BY <2>3, <3>1, <3>2 DEF Wrote
  <2> QED
    BY <2>1, <2>2, <2>4
<1> QED
  BY <1>2, <1>3, <1>4, <1>5

\* What an output of a plugin is, once it is there: what the plugin wrote for
\* it, or the template.
LEMMA FileFacts ==
  ASSUME BInv, pc = "done", NEW p \in Ran, ~ p.directory, NEW k \in 1 .. Len(PluginOutputs(p)),
         Generated(p)[k] \in DOMAIN disk
  PROVE  /\ ProtocOf(p) \in Finished
         /\ disk[Generated(p)[k]] = IF PluginOutputs(p)[k] \in Wrote(SourceOf(p))
                                    THEN Written(p.label, PluginOutputs(p)[k])
                                    ELSE Template(p.label, PluginOutputs(p)[k])
<1> DEFINE f == Generated(p)[k]
           g == PluginOutputs(p)[k]
<1>1. /\ g \in ToSet(PluginOutputs(p))
      /\ f = g \/ (g \in ToSet(Out(p)) /\ IsJar(g) /\ f = SrcJar(g))
  BY IndexFacts DEF BInv
<1> HIDE DEF f, g
<1>2. g \in DOMAIN disk /\ disk[f] = disk[g]
  <2>1. CASE f = g
    BY <2>1 DEF f
  <2>2. CASE g \in ToSet(Out(p)) /\ IsJar(g) /\ f = SrcJar(g)
    <3>1. Copy(g, SrcJar(g)) \in actions
      BY <2>2, Registered DEF BInv
    <3>2. SrcJar(g) \in Copy(g, SrcJar(g)).outputs /\ g \in Copy(g, SrcJar(g)).inputs
      BY DEF Copy, Action
    <3>3. Copy(g, SrcJar(g)) \in Finished /\ g \in DOMAIN disk
      BY <2>2, <3>1, <3>2, OnDisk DEF f
    <3>4. disk[SrcJar(g)] = disk[g]
      BY <2>2, <3>3 DEF BInv, MadeInv, Copied
    <3> QED
      BY <2>2, <3>3, <3>4
  <2> QED
    BY <1>1, <2>1, <2>2
<1>3. CASE ~ p.template
  <2>1. ProtocOf(p) \in actions /\ ProtocOf(p).outputs = ToSet(PluginOutputs(p))
    BY <1>3, Registered, Fields DEF BInv
  <2>2. ProtocOf(p) \in Finished
    BY <1>1, <1>2, <2>1, OnDisk
  <2>3. disk[g] = Written(p.label, g)
    BY <1>1, <1>3, <2>2 DEF BInv, MadeInv, Emitted, Emits
  <2>4. Wrote(SourceOf(p)) = ToSet(PluginOutputs(p))
    BY <1>3, RunsFacts
  <2> QED
    BY <1>1, <1>2, <2>2, <2>3, <2>4 DEF f, g
<1>4. CASE p.template
  <2>1. Fixed(p) \in actions /\ Fixed(p).outputs = ToSet(PluginOutputs(p))
    BY <1>4, Registered, Fields DEF BInv
  <2>2. Fixed(p) \in Finished /\ Fixed(p).inputs \subseteq DOMAIN disk
    BY <1>1, <1>2, <2>1, OnDisk
  <2>3. UnfixedDir(p) \in DOMAIN disk
    BY <2>2, Fields
  <2>4. ProtocOf(p) \in actions /\ UnfixedDir(p) \in ProtocOf(p).outputs
    BY <1>4, Registered, Fields DEF BInv
  <2>5. ProtocOf(p) \in Finished
    BY <2>3, <2>4, OnDisk
  <2>6. disk[g] = Fix(p.label, disk[UnfixedDir(p)].tree, g)
    BY <1>1, <1>4, <2>2 DEF BInv, MadeInv, FilledIn
  <2>7. disk[UnfixedDir(p)] = Tree([h \in Wrote(SourceOf(p)) |-> Written(p.label, h)])
    BY <1>4, <2>5, RunsFacts DEF DirOf
  <2>8. disk[UnfixedDir(p)].tree = [h \in Wrote(SourceOf(p)) |-> Written(p.label, h)]
    BY <2>7 DEF Tree, Content
  <2>9. disk[g] = IF g \in Wrote(SourceOf(p)) THEN Written(p.label, g) ELSE Template(p.label, g)
    BY <2>6, <2>8 DEF Fix
  <2> QED
    BY <1>2, <2>5, <2>9 DEF f, g
<1> QED
  BY <1>3, <1>4

-----------------------------------------------------------------------------
(* What each action does, when it is run *)

\* Two files are of one plugin at two places of the list, or of two plugins.
LEMMA FileOf ==
  ASSUME BInv, pc = "done"
  PROVE  /\ \A f \in ToSet(files) : \E p \in Ran : \E k \in 1 .. Len(PluginOutputs(p)) :
              ~ p.directory /\ f = Generated(p)[k]
         /\ \A f \in ToSet(dirs) : \E p \in Ran : p.directory /\ f = OutputDir(p)
         /\ ToSet(dirs \o files) = ToSet(dirs) \cup ToSet(files)
<1>1. /\ ToSet(files) = UNION {ToSet(Generated(p)) : p \in Ran}
      /\ ToSet(dirs) = UNION {ToSet(OutputDirs(p)) : p \in Ran}
  BY EndFacts DEF BInv
<1>2. ASSUME NEW f \in ToSet(files)
      PROVE  \E p \in Ran : \E k \in 1 .. Len(PluginOutputs(p)) : ~ p.directory /\ f = Generated(p)[k]
  <2>1. PICK p \in Ran : f \in ToSet(Generated(p))
    BY <1>1
  <2>2. ~ p.directory
    <3>1. p.directory => Generated(p) = << >>
      BY Outputs DEF BInv
    <3> QED
      BY <2>1, <3>1, OneFacts
  <2>3. DOMAIN Generated(p) = 1 .. Len(PluginOutputs(p))
    BY <2>2, IndexFacts DEF BInv
  <2> QED
    BY <2>1, <2>2, <2>3 DEF ToSet
<1>3. ASSUME NEW f \in ToSet(dirs) PROVE \E p \in Ran : p.directory /\ f = OutputDir(p)
  <2>1. PICK p \in Ran : f \in ToSet(OutputDirs(p))
    BY <1>1
  <2> QED
    BY <2>1, OneFacts DEF OutputDirs
<1>4. IsSeq(files) /\ IsSeq(dirs)
  BY DEF BInv, IInv, FilesInv
<1> QED
  BY <1>2, <1>3, <1>4, ConcatFacts

\* The label of an action tells its plugin.
LEMMA PluginOfFacts ==
  ASSUME IInv, NEW p \in Ran, NEW a, a.plugin = p.label
  PROVE  PluginOf(a) = p
<1>1. rule \in Rules
  BY DEF IInv, PointInv
<1>2. PICK i \in 1 .. Len(rule.plugins) : p = rule.plugins[i]
  BY <1>1, RanFacts
<1>3. \A j \in 1 .. Len(rule.plugins) : rule.plugins[j].label = p.label => rule.plugins[j] = p
  <2>1. DOMAIN rule.plugins = 1 .. Len(rule.plugins)
    BY <1>1, SourcesFacts, SeqFacts DEF IsSeq
  <2> QED
    BY <1>1, <1>2, <2>1, RulesAssumption
<1>4. \A q \in {rule.plugins[j] : j \in 1 .. Len(rule.plugins)} : q.label = a.plugin <=> q = p
  BY <1>3
<1> QED
  BY <1>2, <1>4 DEF PluginOf

\* What the run of each kind of action does to the disk.
LEMMA WriteEffect ==
  ASSUME BInv, NEW a, RunWrite(a)
  PROVE  /\ Ready(a) /\ a.kind = "write"
         /\ \E c : DOMAIN c = a.outputs /\ Succeed(a, c) /\ \A f \in a.outputs : c[f] = Manifest(a.lists)
BY DEF RunWrite

\* A copy has the content of the one file that it is of.
LEMMA CopyEffect ==
  ASSUME BInv, NEW a, RunCopy(a)
  PROVE  /\ Ready(a) /\ a.kind = "copy"
         /\ \E f : a.inputs = {f} /\ f \in DOMAIN disk
         /\ \E c : /\ DOMAIN c = a.outputs /\ Succeed(a, c)
                   /\ \A f \in a.inputs : \A g \in a.outputs : c[g] = disk[f]
<1>1. /\ Ready(a) /\ a.kind = "copy" /\ a \in actions /\ pc = "done" /\ a.inputs \subseteq DOMAIN disk
      /\ Succeed(a, [f \in a.outputs |-> disk[CHOOSE g \in a.inputs : TRUE]])
  BY DEF RunCopy, Ready
<1>2. PICK f, g : a = Copy(f, g)
  <2>1. \/ \E p \in Ran : \E f \in ToSet(Out(p)) : IsJar(f) /\ a = Copy(f, SrcJar(f))
        \/ dirs = << >> /\ \E f \in ToSet(files) : a = Copy(f, Destination(f))
    BY <1>1, KindFacts DEF BInv
  <2> QED
    BY <2>1
<1>3. a.inputs = {f}
  BY <1>2 DEF Copy, Action
<1>4. (CHOOSE h \in a.inputs : TRUE) = f
  BY <1>3
<1> DEFINE c == [h \in a.outputs |-> disk[f]]
<1>5. DOMAIN c = a.outputs /\ Succeed(a, c) /\ \A h \in a.inputs : \A k \in a.outputs : c[k] = disk[h]
  BY <1>1, <1>3, <1>4
<1> QED
  BY <1>1, <1>3, <1>5

\* A run of protoc ends well, or repeats a name, or leaves an output out.
LEMMA ProtocEffect ==
  ASSUME BInv, NEW a, RunProtoc(a)
  PROVE  \E p \in Ran :
           /\ Ready(a) /\ a = ProtocOf(p)
           /\ \/ Break(a, "twice") /\ ~ IsInjective(Candidates(p))
              \/ Break(a, "missing") /\ ~ p.directory /\ ~ p.template
              \/ \E c : /\ DOMAIN c = a.outputs /\ Succeed(a, c)
                        /\ IF p.directory \/ p.template
                           THEN \E names \in SUBSET ToSet(Candidates(p)) :
                                  c[DirOf(p)] = Tree([f \in names |-> Written(p.label, f)])
                           ELSE \A f \in ToSet(PluginOutputs(p)) : c[f] = Written(p.label, f)
<1>1. Ready(a) /\ a.kind = "protoc" /\ a \in actions /\ pc = "done"
  BY DEF RunProtoc, Ready
<1>2. PICK p \in Ran : a = ProtocOf(p)
  BY <1>1, KindFacts DEF BInv
<1>3. /\ a.plugin = p.label
      /\ a.outputs = IF p.template THEN {UnfixedDir(p)} ELSE ToSet(PluginOutputs(p))
  BY <1>2, Fields
<1>4. PluginOf(a) = p
  BY <1>3, PluginOfFacts DEF BInv
<1>5. p.directory \/ p.template => DirOf(p) \in a.outputs
  BY <1>1, <1>2, RunsFacts
<1> DEFINE named == Candidates(p)
<1>6. PICK emitted \in SUBSET DOMAIN named :
        LET written == [i \in emitted |-> named[i]]
            names   == {named[i] : i \in emitted}
            tree    == Tree([f \in names |-> Written(a.plugin, f)])
        IN \/ Twice(written) /\ Break(a, "twice")
           \/ /\ ~ Twice(written)
              /\ p.directory \/ p.template
              /\ Succeed(a, [d \in a.outputs |-> tree])
           \/ /\ ~ Twice(written)
              /\ ~ p.directory /\ ~ p.template
              /\ IF a.outputs \subseteq names
                 THEN Succeed(a, [f \in a.outputs |-> Written(a.plugin, f)])
                 ELSE Break(a, "missing")
  <2> DEFINE Body(q) ==
        \E emitted \in SUBSET DOMAIN Candidates(q) :
          LET written == [i \in emitted |-> Candidates(q)[i]]
              names   == {Candidates(q)[i] : i \in emitted}
              tree    == Tree([f \in names |-> Written(a.plugin, f)])
          IN \/ Twice(written) /\ Break(a, "twice")
             \/ /\ ~ Twice(written)
                /\ q.directory \/ q.template
                /\ Succeed(a, [d \in a.outputs |-> tree])
             \/ /\ ~ Twice(written)
                /\ ~ q.directory /\ ~ q.template
                /\ IF a.outputs \subseteq names
                   THEN Succeed(a, [f \in a.outputs |-> Written(a.plugin, f)])
                   ELSE Break(a, "missing")
  <2>1. Body(PluginOf(a))
    BY DEF RunProtoc
  <2> HIDE DEF Body
  <2>2. Body(p)
    BY <1>4, <2>1
  <2> QED
    BY <2>2 DEF Body
<1> DEFINE written == [i \in emitted |-> named[i]]
           names   == {named[i] : i \in emitted}
           tree    == Tree([f \in names |-> Written(p.label, f)])
<1>7. Twice(written) => ~ IsInjective(named)
  BY DEF Twice, IsInjective
<1>8. names \in SUBSET ToSet(Candidates(p))
  BY DEF ToSet
<1>9. CASE Twice(written) /\ Break(a, "twice")
  BY <1>1, <1>2, <1>7, <1>9
<1>10. CASE (p.directory \/ p.template) /\ Succeed(a, [d \in a.outputs |-> tree])
  <2> DEFINE c == [d \in a.outputs |-> tree]
  <2>1. DOMAIN c = a.outputs /\ Succeed(a, c) /\ c[DirOf(p)] = tree
    BY <1>5, <1>10
  <2> HIDE DEF c, named
  <2> QED
    BY <1>1, <1>2, <1>8, <1>10, <2>1
<1>11. CASE /\ ~ p.directory /\ ~ p.template
            /\ Succeed(a, [f \in a.outputs |-> Written(a.plugin, f)])
  <2> DEFINE c == [f \in a.outputs |-> Written(a.plugin, f)]
  <2>1. DOMAIN c = a.outputs /\ Succeed(a, c) /\ \A f \in ToSet(PluginOutputs(p)) : c[f] = Written(p.label, f)
    BY <1>3, <1>11
  <2> HIDE DEF c
  <2> QED
    BY <1>1, <1>2, <1>11, <2>1
<1>12. CASE ~ p.directory /\ ~ p.template /\ Break(a, "missing")
  BY <1>1, <1>2, <1>12
<1>13. \/ Twice(written) /\ Break(a, "twice")
       \/ (p.directory \/ p.template) /\ Succeed(a, [d \in a.outputs |-> tree])
       \/ /\ ~ p.directory /\ ~ p.template
          /\ Succeed(a, [f \in a.outputs |-> Written(a.plugin, f)])
       \/ ~ p.directory /\ ~ p.template /\ Break(a, "missing")
  <2> HIDE DEF named
  <2> QED
    BY <1>3, <1>6
<1> QED
  BY <1>9, <1>10, <1>11, <1>12, <1>13

\* The fixer ends well, or is denied to write a file twice.
LEMMA FixerEffect ==
  ASSUME BInv, NEW a, RunFixer(a)
  PROVE  \E p \in Ran :
           /\ Ready(a) /\ p.template /\ a = Fixed(p) /\ ProtocOf(p) \in Finished
           /\ \/ Break(a, "denied") /\ ~ IsInjective(PluginOutputs(p))
              \/ \E c : /\ DOMAIN c = a.outputs /\ Succeed(a, c)
                        /\ \A f \in ToSet(PluginOutputs(p)) :
                             c[f] = Fix(p.label, disk[UnfixedDir(p)].tree, f)
<1>1. Ready(a) /\ a.kind = "fixer" /\ a \in actions /\ pc = "done" /\ a.inputs \subseteq DOMAIN disk
  BY DEF RunFixer, Ready
<1>2. PICK p \in Ran : p.template /\ a = Fixed(p)
  BY <1>1, KindFacts DEF BInv
<1>3. /\ a.plugin = p.label /\ a.outputs = ToSet(PluginOutputs(p))
      /\ a.inputs = {FixerManifest(p), UnfixedDir(p)}
  BY <1>2, Fields
<1>4. /\ ProtocOf(p) \in actions /\ Manifested(p) \in actions
      /\ UnfixedDir(p) \in ProtocOf(p).outputs
      /\ FixerManifest(p) \in Manifested(p).outputs /\ Manifested(p).kind = "write"
      /\ Manifested(p).lists = PluginOutputs(p)
  <2>1. ProtocOf(p) \in actions /\ Manifested(p) \in actions
    BY <1>1, <1>2, Registered DEF BInv
  <2>2. /\ UnfixedDir(p) \in ProtocOf(p).outputs
        /\ FixerManifest(p) \in Manifested(p).outputs /\ Manifested(p).kind = "write"
        /\ Manifested(p).lists = PluginOutputs(p)
    BY <1>2, Fields
  <2> QED
    BY <2>1, <2>2
<1>5. ProtocOf(p) \in Finished /\ Manifested(p) \in Finished
  BY <1>1, <1>3, <1>4, OnDisk
<1>6. disk[FixerManifest(p)] = Manifest(PluginOutputs(p))
  BY <1>4, <1>5 DEF BInv, MadeInv, Listed
<1>7. disk[FixerManifest(p)].kind = "manifest" /\ disk[FixerManifest(p)].lists = PluginOutputs(p)
  BY <1>6 DEF Manifest, Content
<1>8. disk[UnfixedDir(p)].kind = "directory"
  <2>1. disk[DirOf(p)] = Tree([f \in Wrote(SourceOf(p)) |-> Written(p.label, f)])
    BY <1>1, <1>2, <1>5, RunsFacts
  <2> QED
    BY <1>2, <2>1 DEF DirOf, Tree, Content
<1>9. ManifestOf(a) = PluginOutputs(p) /\ UnfixedOf(a) = disk[UnfixedDir(p)].tree
  <2>1. (CHOOSE f \in a.inputs : disk[f].kind = "manifest") = FixerManifest(p)
    BY <1>3, <1>7, <1>8
  <2>2. (CHOOSE f \in a.inputs : disk[f].kind = "directory") = UnfixedDir(p)
    BY <1>3, <1>7, <1>8
  <2> QED
    BY <1>7, <2>1, <2>2 DEF ManifestOf, UnfixedOf
<1>10. DOMAIN PluginOutputs(p) = 1 .. Len(PluginOutputs(p))
  <2>1. IsSeq(PluginOutputs(p))
    BY <1>1, Outputs DEF BInv
  <2> QED
    BY <2>1, SeqFacts DEF IsSeq
<1> DEFINE lists == PluginOutputs(p)
           source == disk[UnfixedDir(p)].tree
<1>11. CASE \E i, j \in 1 .. Len(lists) : i # j /\ lists[i] = lists[j] /\ lists[i] \in DOMAIN source
  <2>1. Break(a, "denied")
    BY <1>9, <1>11 DEF RunFixer
  <2>2. ~ IsInjective(lists)
    BY <1>10, <1>11 DEF IsInjective
  <2> QED
    BY <1>1, <1>2, <1>5, <2>1, <2>2
<1>12. CASE ~ \E i, j \in 1 .. Len(lists) : i # j /\ lists[i] = lists[j] /\ lists[i] \in DOMAIN source
  <2> DEFINE c == [f \in ToSet(lists) |-> Fix(a.plugin, source, f)]
  <2>1. Succeed(a, c)
    BY <1>9, <1>12 DEF RunFixer
  <2>2. DOMAIN c = a.outputs /\ \A f \in ToSet(lists) : c[f] = Fix(p.label, source, f)
    BY <1>3
  <2> HIDE DEF c
  <2> QED
    BY <1>1, <1>2, <1>5, <2>1, <2>2
<1> QED
  BY <1>11, <1>12

\* The merger is run on the whole of both lists, or refuses a conflict.
LEMMA MergerEffect ==
  ASSUME BInv, NEW a, RunMerger(a)
  PROVE  /\ Ready(a) /\ a = Merging /\ dirs # << >>
         /\ ToSet(dirs \o files) \subseteq DOMAIN disk
         /\ IF Plan!HasConflict(MergeLines(dirs \o files))
            THEN Break(a, "conflict")
            ELSE Succeed(a, [d \in {MergedDir} |-> Tree(Merged(dirs \o files))])
<1>1. Ready(a) /\ a.kind = "merger" /\ a \in actions /\ pc = "done" /\ a.inputs \subseteq DOMAIN disk
  BY DEF RunMerger, Ready
<1>2. dirs # << >> /\ a = Merging
  BY <1>1, KindFacts DEF BInv
<1>3. a.inputs = {MergerManifest} \cup ToSet(dirs) \cup ToSet(files) /\ a.outputs = {MergedDir}
  BY <1>2, Fields
<1>4. disk[MergerManifest].kind = "manifest" /\ disk[MergerManifest].lists = dirs \o files
  <2>1. /\ Listing \in actions /\ MergerManifest \in Listing.outputs
        /\ Listing.kind = "write" /\ Listing.lists = dirs \o files
    BY <1>1, <1>2, Registered, Fields DEF BInv
  <2>2. Listing \in Finished
    BY <1>1, <1>3, <2>1, OnDisk
  <2>3. disk[MergerManifest] = Manifest(dirs \o files)
    BY <2>1, <2>2 DEF BInv, MadeInv, Listed
  <2> QED
    BY <2>3 DEF Manifest, Content
<1>5. \A f \in ToSet(dirs) : disk[f].kind = "directory"
  <2> SUFFICES ASSUME NEW f \in ToSet(dirs) PROVE disk[f].kind = "directory"
    OBVIOUS
  <2>1. PICK p \in Ran : p.directory /\ f = OutputDir(p)
    BY <1>1, FileOf
  <2>2. ~ p.template
    BY <1>1, <2>1, Outputs DEF BInv
  <2>3. ProtocOf(p) \in actions /\ DirOf(p) \in ProtocOf(p).outputs /\ DirOf(p) = f
    BY <1>1, <2>1, <2>2, Registered, RunsFacts DEF BInv, DirOf
  <2>4. ProtocOf(p) \in Finished
    BY <1>1, <1>3, <2>3, OnDisk
  <2>5. disk[DirOf(p)] = Tree([h \in Wrote(SourceOf(p)) |-> Written(p.label, h)])
    BY <1>1, <2>1, <2>4, RunsFacts
  <2> QED
    BY <2>3, <2>5 DEF Tree, Content
<1>6. \A f \in ToSet(files) : disk[f].kind # "manifest"
  <2> SUFFICES ASSUME NEW f \in ToSet(files) PROVE disk[f].kind # "manifest"
    OBVIOUS
  <2>1. PICK p \in Ran : \E k \in 1 .. Len(PluginOutputs(p)) : ~ p.directory /\ f = Generated(p)[k]
    BY <1>1, FileOf
  <2>2. PICK k \in 1 .. Len(PluginOutputs(p)) : ~ p.directory /\ f = Generated(p)[k]
    BY <2>1
  <2>3. f \in DOMAIN disk
    BY <1>1, <1>3
  <2>4. \/ disk[f] = Written(p.label, PluginOutputs(p)[k])
        \/ disk[f] = Template(p.label, PluginOutputs(p)[k])
    BY <1>1, <2>2, <2>3, FileFacts
  <2> QED
    BY <2>4 DEF Written, Template, Content
<1>7. ManifestOf(a) = dirs \o files
  <2>1. \A f \in a.inputs : disk[f].kind = "manifest" <=> f = MergerManifest
    BY <1>3, <1>4, <1>5, <1>6
  <2>2. (CHOOSE f \in a.inputs : disk[f].kind = "manifest") = MergerManifest
    BY <1>3, <2>1
  <2> QED
    BY <1>4, <2>2 DEF ManifestOf
<1>8. ToSet(dirs \o files) \subseteq DOMAIN disk
  BY <1>1, <1>3, FileOf
<1> QED
  BY <1>1, <1>2, <1>3, <1>7, <1>8 DEF RunMerger

-----------------------------------------------------------------------------
(* Every step preserves the invariant *)

LEMMA ExecuteStep ==
  ASSUME BInv, NEW a, Execute(a)
  PROVE  BInv'
<1>1. Ready(a) /\ pc = "done" /\ a \in actions
  BY DEF Execute, RunWrite, RunCopy, RunProtoc, RunFixer, RunMerger, BreakTool, Ready
<1>2. \A p : ProtocOf(p).kind = "protoc" /\ Fixed(p).kind = "fixer"
  BY Fields
<1>3. CASE RunWrite(a)
  <2>1. PICK c : DOMAIN c = a.outputs /\ Succeed(a, c) /\ \A f \in a.outputs : c[f] = Manifest(a.lists)
    BY <1>3, WriteEffect
  <2>2. a.kind = "write"
    BY <1>3, WriteEffect
  <2>3. /\ a.kind # "copy" /\ \A p \in Ran : a # ProtocOf(p) /\ a # Fixed(p)
    BY <1>2, <2>2
  <2> QED
    BY <1>1, <2>1, <2>3, Kept
<1>4. CASE RunCopy(a)
  <2>1. PICK c : /\ DOMAIN c = a.outputs /\ Succeed(a, c)
                 /\ \A f \in a.inputs : \A g \in a.outputs : c[g] = disk[f]
    BY <1>4, CopyEffect
  <2>2. a.kind = "copy"
    BY <1>4, CopyEffect
  <2>3. /\ a.kind # "write" /\ \A p \in Ran : a # ProtocOf(p) /\ a # Fixed(p)
    BY <1>2, <2>2
  <2> QED
    BY <1>1, <2>1, <2>3, Kept
<1>5. CASE RunProtoc(a)
  <2>1. PICK p \in Ran :
           /\ Ready(a) /\ a = ProtocOf(p)
           /\ \/ Break(a, "twice") /\ ~ IsInjective(Candidates(p))
              \/ Break(a, "missing") /\ ~ p.directory /\ ~ p.template
              \/ \E c : /\ DOMAIN c = a.outputs /\ Succeed(a, c)
                        /\ IF p.directory \/ p.template
                           THEN \E names \in SUBSET ToSet(Candidates(p)) :
                                  c[DirOf(p)] = Tree([f \in names |-> Written(p.label, f)])
                           ELSE \A f \in ToSet(PluginOutputs(p)) : c[f] = Written(p.label, f)
    BY <1>5, ProtocEffect
  <2>2. CASE Break(a, "twice") \/ Break(a, "missing")
    <3>1. a.kind = "protoc"
      BY <2>1, Fields
    <3> QED
      BY <1>1, <2>2, <3>1, Broken
  <2>3. CASE \E c : /\ DOMAIN c = a.outputs /\ Succeed(a, c)
                    /\ IF p.directory \/ p.template
                       THEN \E names \in SUBSET ToSet(Candidates(p)) :
                              c[DirOf(p)] = Tree([f \in names |-> Written(p.label, f)])
                       ELSE \A f \in ToSet(PluginOutputs(p)) : c[f] = Written(p.label, f)
    <3>1. PICK c : /\ DOMAIN c = a.outputs /\ Succeed(a, c)
                   /\ IF p.directory \/ p.template
                      THEN \E names \in SUBSET ToSet(Candidates(p)) :
                             c[DirOf(p)] = Tree([f \in names |-> Written(p.label, f)])
                      ELSE \A f \in ToSet(PluginOutputs(p)) : c[f] = Written(p.label, f)
      BY <2>3
    <3>2. a.kind = "protoc" /\ a.plugin = p.label
      BY <2>1, Fields
    <3>3. /\ a.kind # "write" /\ a.kind # "copy" /\ \A q \in Ran : a # Fixed(q)
      BY <1>2, <3>2
    <3>4. \A q \in Ran : a = ProtocOf(q) => q = p
      <4>1. \A q \in Ran : a = ProtocOf(q) => q.label = p.label
        BY <3>2, Fields
      <4> QED
        BY <1>1, <4>1, Outputs DEF BInv
    <3>5. \A f \in a.outputs : disk'[f] = c[f]
      BY <1>1, <3>1, Frame
    <3>6. Emits(p)'
      <4>1. UNCHANGED analysisVars
        BY <3>1 DEF Succeed
      <4>2. DirOf(p)' = DirOf(p) /\ PluginOutputs(p)' = PluginOutputs(p) /\ Candidates(p)' = Candidates(p)
        BY <4>1, SameAnalysis
      <4>3. CASE p.directory \/ p.template
        <5>1. DirOf(p) \in a.outputs
          BY <1>1, <2>1, <4>3, RunsFacts
        <5>2. disk'[DirOf(p)] = c[DirOf(p)]
          BY <3>5, <5>1
        <5> QED
          BY <3>1, <4>2, <4>3, <5>2 DEF Emits
      <4>4. CASE ~ (p.directory \/ p.template)
        <5>1. a.outputs = ToSet(PluginOutputs(p))
          BY <2>1, <4>4, Fields
        <5> QED
          BY <3>1, <3>5, <4>2, <4>4, <5>1 DEF Emits
      <4> QED
        BY <4>3, <4>4
    <3>7. \A q \in Ran : a = ProtocOf(q) => Emits(q)'
      BY <3>4, <3>6
    <3> HIDE DEF BInv
    <3> QED
      BY <1>1, <3>1, <3>3, <3>7, Kept
  <2> QED
    BY <2>1, <2>2, <2>3
<1>6. CASE RunFixer(a)
  <2>1. PICK p \in Ran :
           /\ Ready(a) /\ p.template /\ a = Fixed(p)
           /\ \/ Break(a, "denied")
              \/ \E c : /\ DOMAIN c = a.outputs /\ Succeed(a, c)
                        /\ \A f \in ToSet(PluginOutputs(p)) :
                             c[f] = Fix(p.label, disk[UnfixedDir(p)].tree, f)
    BY <1>6, FixerEffect
  <2>2. CASE Break(a, "denied")
    BY <1>1, <2>2, Broken
  <2>3. CASE ~ Break(a, "denied")
    <3>1. PICK c : /\ DOMAIN c = a.outputs /\ Succeed(a, c)
                   /\ \A f \in ToSet(PluginOutputs(p)) :
                        c[f] = Fix(p.label, disk[UnfixedDir(p)].tree, f)
      BY <2>1, <2>3
    <3>2. a.kind = "fixer" /\ a.plugin = p.label
      BY <2>1, Fields
    <3>3. /\ a.kind # "write" /\ a.kind # "copy" /\ \A q \in Ran : a # ProtocOf(q)
      BY <1>2, <3>2
    <3>4. \A q \in Ran : a = Fixed(q) => q = p
      <4>1. \A q \in Ran : a = Fixed(q) => q.label = p.label
        BY <3>2, Fields
      <4> QED
        BY <1>1, <4>1, Outputs DEF BInv
    <3> QED
      BY <1>1, <3>1, <3>3, <3>4, Kept
  <2> QED
    BY <2>2, <2>3
<1>7. CASE RunMerger(a)
  <2>1. /\ a = Merging
        /\ Break(a, "conflict") \/ Succeed(a, [d \in {MergedDir} |-> Tree(Merged(dirs \o files))])
    BY <1>7, MergerEffect
  <2>2. CASE Break(a, "conflict")
    BY <1>1, <2>2, Broken
  <2>3. CASE Succeed(a, [d \in {MergedDir} |-> Tree(Merged(dirs \o files))])
    <3> DEFINE c == [d \in {MergedDir} |-> Tree(Merged(dirs \o files))]
    <3>1. a.kind = "merger" /\ a.outputs = {MergedDir}
      BY <2>1, Fields
    <3>2. /\ a.kind # "write" /\ a.kind # "copy" /\ \A q \in Ran : a # ProtocOf(q) /\ a # Fixed(q)
      BY <1>2, <3>1
    <3>3. DOMAIN c = a.outputs /\ Succeed(a, c)
      BY <2>3, <3>1
    <3> HIDE DEF c
    <3> QED
      BY <1>1, <3>2, <3>3, Kept
  <2> QED
    BY <2>1, <2>2, <2>3
<1>8. CASE BreakTool(a)
  BY <1>1, <1>8, Broken DEF BreakTool
<1> QED
  BY <1>3, <1>4, <1>5, <1>6, <1>7, <1>8 DEF Execute

\* A step of the analysis keeps its invariant, now that Build runs it.
LEMMA AnalysisStep ==
  ASSUME IInv, AnalysisNext
  PROVE  IInv'
<1>1. PointInv'
  BY PointStep DEF IInv
<1> QED
  BY <1>1, ResolveKeyStep, ResolveStarStep, RejectPluginStep, SkipPluginStep, AddPluginStep,
     ConcludeStep, RejectModeStep, CheckActionsStep DEF AnalysisNext

\* A step of the analysis happens before any action, and keeps the invariant.
LEMMA AnalyseStep ==
  ASSUME BInv, Analyse
  PROVE  BInv' /\ pc # "done" /\ target = NoTarget
<1>1. AnalysisNext /\ UNCHANGED execVars
  BY DEF Analyse
<1>2. pc # "done"
  BY <1>1 DEF AnalysisNext, ResolveKey, ResolveStar, RejectPlugin, SkipPlugin, AddPlugin, AtPlugin,
    MergeOutputs, RejectMode, CopyOutputs, PluginsDone, CheckActions
<1>3. ran = {} /\ target = NoTarget
  BY <1>2 DEF BInv, DiskInv
<1>4. Finished = {} /\ Finished' = {} /\ DOMAIN disk = {} /\ disk' = disk /\ ran' = {} /\ DOMAIN broken' = {}
  BY <1>1, <1>3 DEF BInv, DiskInv, Finished, execVars
<1>5. IInv' /\ PlacedInv'
  BY <1>1, PlacedStep, AnalysisStep DEF BInv
<1>6. target' = IF pc' # "done" THEN NoTarget ELSE Accepted'
  <2>1. CASE pc' = "done"
    <3>1. UNCHANGED <<rule, at, pluginOptions, allOptions, files, dirs, actions, outputs>>
      BY <1>1, <2>1 DEF AnalysisNext, ResolveKey, ResolveStar, RejectPlugin, SkipPlugin, AddPlugin, AtPlugin,
        MergeOutputs, RejectMode, CopyOutputs, PluginsDone, CheckActions, Fail, BInv, IInv, PointInv
    <3>2. RunAt' = RunAt /\ \A p : SourceOf(p)' = SourceOf(p)
      BY <3>1, SameOutputs DEF RunAt, SourceOf, Candidates, Called, InTarget, Destination
    <3>3. Accepted' = Accepted
      BY <3>1, <3>2 DEF Accepted
    <3> QED
      BY <2>1, <3>3 DEF Analyse, Accepted
  <2> QED
    BY <2>1 DEF Analyse
<1>7. DiskInv'
  BY <1>4, <1>6 DEF DiskInv
<1>8. MadeInv'
  BY <1>4 DEF MadeInv, Listed, Emitted, FilledIn, Copied
<1> QED
  BY <1>2, <1>3, <1>5, <1>7, <1>8 DEF BInv

\* Nothing is on disk before the analysis.
LEMMA InitBuild == Init => BInv
<1> SUFFICES ASSUME Init PROVE BInv
  OBVIOUS
<1>1. IInv /\ pc = "options" /\ files = << >> /\ dirs = << >>
  BY InitInv DEF Init, AnalysisInit
<1>2. ran = {} /\ DOMAIN broken = {} /\ DOMAIN disk = {} /\ target = NoTarget
  BY DEF Init, Empty
<1>3. PlacedInv
  <2>1. Passed = 0 /\ RunTo(0) = {}
    BY <1>1, RunToFacts DEF Passed, IInv, PointInv
  <2>2. DOMAIN FilesOf(Passed) = {} /\ DOMAIN DirsOf(Passed) = {}
    BY <2>1 DEF FilesOf, DirsOf
  <2>3. 1 .. Len(<< >>) = {}
    OBVIOUS
  <2>4. \A g : DOMAIN g = {} => Placed(<< >>, g)
    BY <2>3 DEF Placed, PlacedAt
  <2> QED
    BY <1>1, <2>2, <2>4 DEF PlacedInv
<1>4. DiskInv /\ MadeInv
  BY <1>1, <1>2 DEF DiskInv, MadeInv, Finished, Listed, Emitted, FilledIn, Copied
<1> QED
  BY <1>1, <1>3, <1>4 DEF BInv

\* What is on disk is at every point what the plugins, the fixer and the copies
\* have made of the target that the analysis accepted: each output is there
\* when its action has succeeded, and is as that action left it.
THEOREM BuildInvariance == Spec => []BInv
<1>1. BInv /\ [Next]_vars => BInv'
  <2> SUFFICES ASSUME BInv, [Next]_vars PROVE BInv'
    OBVIOUS
  <2>1. CASE Analyse
    BY <2>1, AnalyseStep
  <2>2. CASE \E a \in actions : Execute(a)
    BY <2>2, ExecuteStep
  <2>3. CASE UNCHANGED vars
    <3>1. UNCHANGED analysisVars /\ disk' = disk /\ ran' = ran /\ broken' = broken /\ target' = target
      BY <2>3 DEF vars, execVars
    <3>2. IInv' /\ PlacedInv'
      BY <3>1, IdleStep DEF BInv
    <3>3. /\ Ran' = Ran /\ Accepted' = Accepted /\ pc' = pc /\ actions' = actions
          /\ \A p : /\ ProtocOf(p)' = ProtocOf(p) /\ Fixed(p)' = Fixed(p) /\ DirOf(p)' = DirOf(p)
                    /\ PluginOutputs(p)' = PluginOutputs(p) /\ Out(p)' = Out(p)
                    /\ Candidates(p)' = Candidates(p)
      BY <3>1, SameAnalysis DEF analysisVars
    <3>4. Finished' = Finished
      BY <3>1 DEF Finished
    <3>5. DiskInv'
      BY <3>1, <3>3, <3>4 DEF BInv, DiskInv
    <3>6. \A p : Emits(p)' <=> Emits(p)
      BY <3>1, <3>3 DEF Emits
    <3>7. Listed' /\ Emitted' /\ Copied'
      BY <3>1, <3>3, <3>4, <3>6 DEF BInv, MadeInv, Listed, Emitted, Copied
    <3>8. FilledIn'
      BY <3>1, <3>3, <3>4 DEF BInv, MadeInv, FilledIn, UnfixedDir
    <3> QED
      BY <3>2, <3>5, <3>7, <3>8 DEF BInv, MadeInv
  <2> QED
    BY <2>1, <2>2, <2>3 DEF Next
<1> QED
  BY <1>1, InitBuild, PTL DEF Spec

\* Bazel runs only what was registered, what fails was run, and there is no
\* file that no action left: the type of the execution's state.
THEOREM BuildTypeCorrect == Spec => []ExecTypeOK
<1>1. BInv => ExecTypeOK
  <2> SUFFICES ASSUME BInv PROVE ExecTypeOK
    OBVIOUS
  <2>1. Finished \subseteq ran
    BY DEF Finished
  <2>2. /\ ran \subseteq actions /\ DOMAIN broken \subseteq ran /\ (pc # "done" => ran = {})
        /\ \A a \in DOMAIN broken : broken[a] \in {"tool", "twice", "missing", "denied", "conflict"}
        /\ DOMAIN disk = UNION {a.outputs : a \in Finished}
    BY DEF BInv, DiskInv
  <2> QED
    BY <2>1, <2>2 DEF ExecTypeOK
<1> QED
  BY <1>1, BuildInvariance, PTL

-----------------------------------------------------------------------------
(* When nothing can be run any more *)

\* An action that is not broken was run if its inputs exist.
LEMMA RestsFacts ==
  ASSUME BInv, Rests, NEW a \in actions, a \notin DOMAIN broken, a.inputs \subseteq DOMAIN disk
  PROVE  a.outputs \subseteq DOMAIN disk
<1>1. a \in ran
  BY DEF Rests, Ready
<1>2. a \in Finished
  BY <1>1 DEF Finished
<1> QED
  BY <1>2 DEF BInv, DiskInv

\* What a plugin needs to be run for its files, one after the other.
LEMMA ChainFacts ==
  ASSUME BInv, Rests, NEW p \in Ran, ActionsFor(p) \cap DOMAIN broken = {}
  PROVE  ToSet(Generated(p)) \cup ToSet(OutputDirs(p)) \subseteq DOMAIN disk
<1> DEFINE outs == ToSet(PluginOutputs(p))
<1>1. IInv /\ pc = "done" /\ rule \in Rules
  BY EndFacts DEF BInv, Rests
<1>2. PICK i \in 1 .. Len(rule.plugins) : p = rule.plugins[i]
  BY <1>1, RanFacts
<1>3. /\ ToSet(PluginOutputs(p)) = ToSet(PerProto(p)) \cup ToSet(Out(p)) \cup ToSet(OutputDirs(p))
      /\ ToSet(Generated(p)) = ToSet(PerProto(p)) \cup
                                 {IF IsJar(f) THEN SrcJar(f) ELSE f : f \in ToSet(Out(p))}
      /\ p.template \in BOOLEAN
  BY <1>1, <1>2, PluginFacts
<1>4. /\ ProtocOf(p) \in ActionsFor(p)
      /\ p.template => Manifested(p) \in ActionsFor(p) /\ Fixed(p) \in ActionsFor(p)
      /\ \A f \in ToSet(Out(p)) : IsJar(f) => Copy(f, SrcJar(f)) \in ActionsFor(p)
  BY <1>3 DEF ActionsFor, PluginActions, JarActions, ProtocOf, Manifested, Fixed
<1>5. /\ ProtocOf(p) \in actions
      /\ p.template => Manifested(p) \in actions /\ Fixed(p) \in actions
      /\ \A f \in ToSet(Out(p)) : IsJar(f) => Copy(f, SrcJar(f)) \in actions
  BY <1>1, Registered
<1>6. ProtocOf(p).outputs \subseteq DOMAIN disk
  BY <1>4, <1>5, RestsFacts, Fields
<1>7. outs \subseteq DOMAIN disk
  <2>1. CASE ~ p.template
    BY <1>6, <2>1, Fields
  <2>2. CASE p.template
    <3>1. Manifested(p).outputs \subseteq DOMAIN disk
      BY <1>4, <1>5, <2>2, RestsFacts, Fields
    <3>2. Fixed(p).inputs \subseteq DOMAIN disk
      <4>1. /\ Fixed(p).inputs = {FixerManifest(p), UnfixedDir(p)}
            /\ Manifested(p).outputs = {FixerManifest(p)} /\ ProtocOf(p).outputs = {UnfixedDir(p)}
        BY <2>2, Fields
      <4> QED
        BY <1>6, <3>1, <4>1
    <3>3. Fixed(p).outputs \subseteq DOMAIN disk
      BY <1>4, <1>5, <2>2, <3>2, RestsFacts
    <3> QED
      BY <3>3, Fields
  <2> QED
    BY <1>3, <2>1, <2>2
<1>8. ASSUME NEW f \in ToSet(Out(p)), IsJar(f) PROVE SrcJar(f) \in DOMAIN disk
  <2>1. Copy(f, SrcJar(f)).inputs = {f} /\ Copy(f, SrcJar(f)).outputs = {SrcJar(f)}
    BY Fields
  <2>2. f \in DOMAIN disk
    BY <1>3, <1>7, <1>8
  <2>3. Copy(f, SrcJar(f)).outputs \subseteq DOMAIN disk
    BY <1>4, <1>5, <1>8, <2>1, <2>2, RestsFacts
  <2> QED
    BY <2>1, <2>3
<1> QED
  BY <1>3, <1>7, <1>8

\* Without a failure nothing is missing.
LEMMA AllThere ==
  ASSUME BInv, Rests, broken = Empty
  PROVE  outputs \subseteq DOMAIN disk
<1>1. IInv /\ pc = "done" /\ DOMAIN broken = {}
  BY DEF BInv, Rests, Empty
<1>2. \A p \in Ran : ToSet(Generated(p)) \cup ToSet(OutputDirs(p)) \subseteq DOMAIN disk
  BY <1>1, ChainFacts
<1>3. /\ ToSet(files) = UNION {ToSet(Generated(p)) : p \in Ran}
      /\ ToSet(dirs) = UNION {ToSet(OutputDirs(p)) : p \in Ran}
      /\ outputs = FinalOutputs
  BY <1>1, EndFacts
<1>4. ToSet(files) \subseteq DOMAIN disk /\ ToSet(dirs) \subseteq DOMAIN disk
  BY <1>2, <1>3
<1>5. CASE dirs = << >>
  <2>1. ASSUME NEW f \in ToSet(files) PROVE Destination(f) \in DOMAIN disk
    <3>1. /\ Copy(f, Destination(f)) \in actions
          /\ Copy(f, Destination(f)).inputs = {f} /\ Copy(f, Destination(f)).outputs = {Destination(f)}
      <4>1. Copy(f, Destination(f)) \in actions
        BY <1>1, <1>5, Registered
      <4> QED
        BY <4>1, Fields
    <3>2. Copy(f, Destination(f)).outputs \subseteq DOMAIN disk
      BY <1>1, <1>4, <3>1, RestsFacts
    <3> QED
      BY <3>1, <3>2
  <2> QED
    BY <1>3, <1>5, <2>1 DEF FinalOutputs
<1>6. CASE dirs # << >>
  <2>1. Listing \in actions /\ Merging \in actions
    BY <1>1, <1>6, Registered
  <2>2. Listing.outputs \subseteq DOMAIN disk
    BY <1>1, <2>1, RestsFacts, Fields
  <2>3. Merging.outputs \subseteq DOMAIN disk
    BY <1>1, <1>4, <2>1, <2>2, RestsFacts, Fields
  <2> QED
    BY <1>3, <1>6, <2>3, Fields DEF FinalOutputs
<1> QED
  BY <1>5, <1>6

\* Nobody waits for anybody: when Bazel has nothing left to run, a plugin none
\* of whose own actions failed has all of its files, whatever became of the
\* others, and a build in which nothing failed has all of its outputs.
THEOREM NothingWaits == Spec => []OnlyFailuresHinder
<1>1. BInv => OnlyFailuresHinder
  BY ChainFacts, AllThere DEF OnlyFailuresHinder
<1> QED
  BY <1>1, BuildInvariance, PTL

-----------------------------------------------------------------------------
(***************************************************************************)
(* The build implements TargetBuild.  The facts about a state that are     *)
(* needed of the next state too are named, and hold in every state.        *)
(***************************************************************************)

\* The sources of the target are the plugins that are run, and those that have
\* run are known by what they left.
SourcesFact ==
  pc = "done" =>
    /\ DOMAIN target.sources = RunAt /\ target.merged = (dirs # << >>)
    /\ \A i \in RunAt : rule.plugins[i] \in Ran /\ target.sources[i] = SourceOf(rule.plugins[i])
    /\ \A p \in Ran : \E i \in RunAt : rule.plugins[i] = p
    /\ DOMAIN HasWritten = {i \in RunAt : ProtocOf(rule.plugins[i]) \in Finished}
    /\ \A i \in DOMAIN HasWritten : HasWritten[i] = Wrote(SourceOf(rule.plugins[i]))
    /\ HasWritten = [i \in DOMAIN HasWritten |-> HasWritten[i]]

\* What a plugin without a directory of its own writes is all that it declares.
RunsFact ==
  pc = "done" =>
    \A p \in Ran :
      /\ ~ (p.directory \/ p.template) => Wrote(SourceOf(p)) = ToSet(PluginOutputs(p))
      /\ p.directory \/ p.template => DirOf(p) \in ProtocOf(p).outputs
      /\ ProtocOf(p) \in Finished /\ (p.directory \/ p.template) =>
           /\ Wrote(SourceOf(p)) \subseteq ToSet(Candidates(p))
           /\ Wrote(SourceOf(p)) = DOMAIN disk[DirOf(p)].tree

LEMMA SourcesAre == BInv => SourcesFact
<1> SUFFICES ASSUME BInv, pc = "done"
             PROVE  /\ DOMAIN target.sources = RunAt /\ target.merged = (dirs # << >>)
                    /\ \A i \in RunAt : rule.plugins[i] \in Ran /\ target.sources[i] = SourceOf(rule.plugins[i])
                    /\ \A p \in Ran : \E i \in RunAt : rule.plugins[i] = p
                    /\ DOMAIN HasWritten = {i \in RunAt : ProtocOf(rule.plugins[i]) \in Finished}
                    /\ \A i \in DOMAIN HasWritten : HasWritten[i] = Wrote(SourceOf(rule.plugins[i]))
                    /\ HasWritten = [i \in DOMAIN HasWritten |-> HasWritten[i]]
  BY DEF SourcesFact
<1>1. /\ DOMAIN target.sources = RunAt /\ target.merged = (dirs # << >>)
      /\ \A i \in RunAt : target.sources[i] = SourceOf(rule.plugins[i])
  BY DEF BInv, DiskInv, Accepted
<1>2. /\ \A i \in RunAt : rule.plugins[i] \in Ran
      /\ \A p \in Ran : \E i \in RunAt : rule.plugins[i] = p
  BY DEF RunAt, Ran
<1>3. \A i \in RunAt : RunsOf(target.sources[i]) # {} <=> ProtocOf(rule.plugins[i]) \in Finished
  <2>1. \A p \in Ran : RunsOf(SourceOf(p)) = {ProtocOf(p)} \cap Finished
    BY RunsFacts
  <2> QED
    BY <1>1, <1>2, <2>1
<1>4. DOMAIN HasWritten = {i \in RunAt : ProtocOf(rule.plugins[i]) \in Finished}
  BY <1>1, <1>3 DEF HasWritten
<1>5. \A i \in DOMAIN HasWritten : HasWritten[i] = Wrote(target.sources[i])
  BY DEF HasWritten
<1>6. HasWritten = [i \in DOMAIN HasWritten |-> HasWritten[i]]
  BY DEF HasWritten
<1> QED
  BY <1>1, <1>2, <1>4, <1>5, <1>6

LEMMA RunsAre == BInv => RunsFact
BY RunsFacts DEF RunsFact

\* How a plugin of an accepted target appears among the sources of TargetBuild.
LEMMA SourceFacts ==
  ASSUME IInv, pc = "done", NEW p \in Ran
  PROVE  /\ SourceOf(p).label = p.label /\ SourceOf(p).outs = Candidates(p)
         /\ SourceOf(p).writes = IF p.directory THEN "directory" ELSE IF p.template THEN "template" ELSE "all"
         /\ SourceOf(p).writes = "all" <=> ~ p.directory /\ ~ p.template
         /\ SourceOf(p).writes = "directory" <=> p.directory
         /\ p.template => SourceOf(p).writes = "template"
         /\ \A k \in DOMAIN Candidates(p) : SourceOf(p).names[k] = InTarget(Called(p)[k])
         /\ \A q \in Ran : SourceOf(q) = SourceOf(p) => q = p
         /\ \A q \in Ran : ProtocOf(q) = ProtocOf(p) => q = p
<1>1. /\ \A q : SourceOf(q).label = q.label
      /\ SourceOf(p).outs = Candidates(p)
      /\ SourceOf(p).writes = IF p.directory THEN "directory" ELSE IF p.template THEN "template" ELSE "all"
      /\ \A k \in DOMAIN Candidates(p) : SourceOf(p).names[k] = InTarget(Called(p)[k])
  BY DEF SourceOf
<1>2. p.directory => ~ p.template
  BY Outputs
<1>3. \A q \in Ran : q.label = p.label => q = p
  BY Outputs
<1>4. \A q : ProtocOf(q).plugin = q.label
  BY Fields
<1> QED
  BY <1>1, <1>2, <1>3, <1>4

\* A plugin that has run has written, from then on, what it has written.
LEMMA WrittenAfter ==
  ASSUME BInv, BInv', NEW a, Ready(a), NEW c, DOMAIN c = a.outputs, Succeed(a, c)
  PROVE  /\ DOMAIN HasWritten' = DOMAIN HasWritten \cup {i \in RunAt : ProtocOf(rule.plugins[i]) = a}
         /\ \A i \in DOMAIN HasWritten : HasWritten'[i] = HasWritten[i]
         /\ a.kind # "protoc" => HasWritten' = HasWritten
<1>1. /\ pc = "done" /\ pc' = "done" /\ UNCHANGED analysisVars /\ rule' = rule
  BY DEF Ready, Succeed, analysisVars
<1>2. SourcesFact' /\ RunsFact'
  BY SourcesAre, RunsAre, PTL
<1>3. SourcesFact /\ RunsFact
  BY SourcesAre, RunsAre
<1>4. /\ Ran' = Ran /\ RunAt' = RunAt
      /\ \A p : /\ ProtocOf(p)' = ProtocOf(p) /\ DirOf(p)' = DirOf(p) /\ SourceOf(p)' = SourceOf(p)
                /\ PluginOutputs(p)' = PluginOutputs(p)
  BY <1>1, SameAnalysis
<1>5. /\ Finished' = Finished \cup {a} /\ \A f \in DOMAIN disk : disk'[f] = disk[f]
      /\ \A b \in Finished : b.outputs \subseteq DOMAIN disk
  BY Frame
<1>6. ASSUME NEW p \in Ran, ProtocOf(p) \in Finished PROVE Wrote(SourceOf(p))' = Wrote(SourceOf(p))
  <2>1. ProtocOf(p)' \in Finished'
    BY <1>4, <1>5, <1>6
  <2>2. CASE p.directory \/ p.template
    <3>1. Wrote(SourceOf(p))' = DOMAIN disk'[DirOf(p)].tree
      BY <1>1, <1>2, <1>4, <2>1, <2>2 DEF RunsFact
    <3>2. Wrote(SourceOf(p)) = DOMAIN disk[DirOf(p)].tree /\ DirOf(p) \in ProtocOf(p).outputs
      BY <1>1, <1>3, <1>6, <2>2 DEF RunsFact
    <3>3. disk'[DirOf(p)] = disk[DirOf(p)]
      BY <1>5, <1>6, <3>2
    <3> QED
      BY <3>1, <3>2, <3>3
  <2>3. CASE ~ (p.directory \/ p.template)
    <3>1. Wrote(SourceOf(p))' = ToSet(PluginOutputs(p))
      BY <1>1, <1>2, <1>4, <2>3 DEF RunsFact
    <3>2. Wrote(SourceOf(p)) = ToSet(PluginOutputs(p))
      BY <1>1, <1>3, <2>3 DEF RunsFact
    <3> QED
      BY <3>1, <3>2
  <2> QED
    BY <2>2, <2>3
<1>7. DOMAIN HasWritten = {i \in RunAt : ProtocOf(rule.plugins[i]) \in Finished}
  BY <1>1, <1>3 DEF SourcesFact
<1>8. DOMAIN HasWritten' = {i \in RunAt : ProtocOf(rule.plugins[i]) \in Finished'}
  BY <1>1, <1>2, <1>4 DEF SourcesFact
<1>9. DOMAIN HasWritten' = DOMAIN HasWritten \cup {i \in RunAt : ProtocOf(rule.plugins[i]) = a}
  BY <1>5, <1>7, <1>8
<1>10. ASSUME NEW i \in DOMAIN HasWritten PROVE HasWritten'[i] = HasWritten[i]
  <2>1. /\ i \in RunAt /\ rule.plugins[i] \in Ran /\ ProtocOf(rule.plugins[i]) \in Finished
        /\ i \in DOMAIN HasWritten'
    BY <1>1, <1>3, <1>7, <1>9 DEF SourcesFact
  <2>2. HasWritten[i] = Wrote(SourceOf(rule.plugins[i]))
    BY <1>1, <1>3 DEF SourcesFact
  <2>3. HasWritten'[i] = Wrote(SourceOf(rule.plugins[i]))'
    BY <1>1, <1>2, <2>1 DEF SourcesFact
  <2>4. Wrote(SourceOf(rule.plugins[i]))' = Wrote(SourceOf(rule.plugins[i]))
    <3> DEFINE p == rule.plugins[i]
    <3>1. Wrote(SourceOf(p))' = Wrote(SourceOf(p))
      BY <1>1, <1>6, <2>1
    <3> QED
      BY <3>1
  <2> QED
    BY <2>2, <2>3, <2>4
<1>11. ASSUME a.kind # "protoc" PROVE HasWritten' = HasWritten
  <2>1. \A p : ProtocOf(p) # a
    BY <1>11, Fields
  <2>2. DOMAIN HasWritten' = DOMAIN HasWritten
    BY <1>9, <2>1
  <2>3. /\ HasWritten = [i \in DOMAIN HasWritten |-> HasWritten[i]]
        /\ HasWritten' = [i \in DOMAIN HasWritten' |-> HasWritten'[i]]
    BY <1>1, <1>2, <1>3 DEF SourcesFact
  <2> QED
    BY <1>10, <2>2, <2>3
<1> QED
  BY <1>9, <1>10, <1>11

-----------------------------------------------------------------------------
(* What the steps of the build are in TargetBuild *)

LEMMA SamePromise ==
  ASSUME pc = "done", UNCHANGED analysisVars, UNCHANGED target
  PROVE  Stage = "building" /\ Stage' = Stage /\ target' = target
BY DEF Stage, analysisVars

\* TargetBuild takes its operators on sequences from the same module.
LEMMA SameOperators ==
  \A s : /\ Promise!ToSet(s) = ToSet(s) /\ Promise!Outs(s) = ToSet(s.outs)
         /\ Promise!IsInjective(s) <=> IsInjective(s)
         /\ Promise!Repeats(s) <=> ~ IsInjective(s.outs)
<1>1. \A s : Promise!ToSet(s) = ToSet(s) /\ (Promise!IsInjective(s) <=> IsInjective(s))
  BY DEF Promise!ToSet, ToSet, Promise!IsInjective, IsInjective
<1> QED
  BY <1>1 DEF Promise!Outs, Promise!Repeats

\* The run of protoc for a plugin.
LEMMA RunImplements ==
  ASSUME BInv, BInv', NEW p \in Ran, NEW a, a = ProtocOf(p), Ready(a),
         NEW c, DOMAIN c = a.outputs, Succeed(a, c), Delivered' = Delivered
  PROVE  Promise!Run(target, HasWritten)
<1>1. /\ pc = "done" /\ pc' = "done" /\ UNCHANGED analysisVars /\ UNCHANGED <<broken, target>> /\ rule' = rule
      /\ a \notin ran
  BY DEF Ready, Succeed, analysisVars
<1>2. SourcesFact' /\ RunsFact'
  BY SourcesAre, RunsAre, PTL
<1>3. SourcesFact
  BY SourcesAre
<1>4. /\ RunAt' = RunAt /\ Ran' = Ran /\ SourceOf(p)' = SourceOf(p) /\ ProtocOf(p)' = ProtocOf(p)
      /\ Candidates(p)' = Candidates(p) /\ PluginOutputs(p)' = PluginOutputs(p)
  BY <1>1, SameAnalysis
<1> DEFINE w == HasWritten
           s == SourceOf(p)
           names == Wrote(SourceOf(p))'
<1>5. PICK i \in RunAt : rule.plugins[i] = p
  BY <1>1, <1>3 DEF SourcesFact
<1>6. i \in DOMAIN target.sources \ DOMAIN w /\ target.sources[i] = s
  BY <1>1, <1>3, <1>5 DEF SourcesFact, Finished
<1>7. /\ DOMAIN w' = DOMAIN w \cup {j \in DOMAIN target.sources : target.sources[j] = s}
      /\ \A j \in DOMAIN w : w'[j] = w[j] /\ target.sources[j] # s
  <2>1. \A j \in RunAt : ProtocOf(rule.plugins[j]) = a <=> target.sources[j] = s
    <3>1. \A q \in Ran : ProtocOf(q) = ProtocOf(p) <=> SourceOf(q) = SourceOf(p)
      BY <1>1, SourceFacts DEF BInv
    <3> QED
      BY <1>1, <1>3, <3>1 DEF SourcesFact
  <2>2. \A j \in DOMAIN w : target.sources[j] # s
    BY <1>1, <1>3, <2>1 DEF SourcesFact, Finished
  <2>3. DOMAIN target.sources = RunAt
    BY <1>1, <1>3 DEF SourcesFact
  <2>4. /\ DOMAIN w' = DOMAIN w \cup {j \in RunAt : ProtocOf(rule.plugins[j]) = a}
        /\ \A j \in DOMAIN w : w'[j] = w[j]
    BY WrittenAfter
  <2> QED
    BY <2>1, <2>2, <2>3, <2>4
<1>8. \A j \in DOMAIN target.sources : target.sources[j] = s => w'[j] = names
  <2> SUFFICES ASSUME NEW j \in DOMAIN target.sources, target.sources[j] = s PROVE w'[j] = names
    OBVIOUS
  <2>1. j \in RunAt /\ rule.plugins[j] = p
    <3>1. j \in RunAt /\ rule.plugins[j] \in Ran /\ SourceOf(rule.plugins[j]) = SourceOf(p)
      BY <1>1, <1>3 DEF SourcesFact
    <3> QED
      BY <1>1, <3>1, SourceFacts DEF BInv
  <2>2. j \in DOMAIN w'
    BY <1>7
  <2>3. w'[j] = Wrote(SourceOf(rule.plugins[j]))'
    BY <1>1, <1>2, <2>2 DEF SourcesFact
  <2> QED
    BY <1>1, <2>1, <2>3
<1>9. w' = [j \in DOMAIN w \cup {j \in DOMAIN target.sources : target.sources[j] = s} |->
              IF target.sources[j] = s THEN names ELSE w[j]]
  <2>1. w' = [j \in DOMAIN w' |-> w'[j]]
    BY <1>1, <1>2 DEF SourcesFact
  <2> HIDE DEF w, s, names
  <2> QED
    BY <1>7, <1>8, <2>1
<1>10. names \in SUBSET ToSet(Candidates(p)) /\ (s.writes = "all" => names = ToSet(Candidates(p)))
  <2>1. ProtocOf(p)' \in Finished'
    <3>1. Finished' = Finished \cup {a}
      BY Frame
    <3> QED
      BY <1>4, <3>1
  <2>2. CASE p.directory \/ p.template
    <3>1. s.writes # "all"
      BY <1>1, <2>2, SourceFacts DEF BInv
    <3> QED
      BY <1>1, <1>2, <1>4, <2>1, <2>2, <3>1 DEF RunsFact
  <2>3. CASE ~ (p.directory \/ p.template)
    <3>1. names = ToSet(PluginOutputs(p))
      BY <1>1, <1>2, <1>4, <2>3 DEF RunsFact
    <3> QED
      BY <2>3, <3>1 DEF Candidates
  <2> QED
    BY <2>2, <2>3
<1>11. \A why \in {"twice", "missing"} : <<s.label, why>> \notin Faults
  <2> SUFFICES ASSUME NEW b \in DOMAIN broken, b.plugin = s.label, broken[b] \in {"twice", "missing"}
               PROVE  FALSE
    BY DEF Faults
  <2>1. b.kind = "protoc" /\ b \in ran /\ b \in actions
    BY DEF BInv, DiskInv
  <2>2. PICK q \in Ran : b = ProtocOf(q)
    BY <1>1, <2>1, KindFacts DEF BInv
  <2>3. q.label = p.label
    <3>1. \A r : ProtocOf(r).plugin = r.label
      BY Fields
    <3>2. s.label = p.label
      BY <1>1, SourceFacts DEF BInv
    <3> QED
      BY <2>2, <3>1, <3>2
  <2>4. q = p
    BY <1>1, <2>3, Outputs DEF BInv
  <2> QED
    BY <1>1, <2>1, <2>2, <2>4
<1>12. w' # w
  BY <1>6, <1>7
<1>13. s.outs = Candidates(p)
  BY <1>1, SourceFacts DEF BInv
<1>14. Stage' = Stage /\ target' = target /\ Faults' = Faults
  BY <1>1, SamePromise DEF Faults
<1> HIDE DEF s, names
<1>15. /\ ~ Promise!Failed(target.sources[i], {"twice", "missing"})
       /\ names \in SUBSET Promise!Outs(target.sources[i])
       /\ target.sources[i].writes = "all" => names = Promise!Outs(target.sources[i])
  BY <1>6, <1>10, <1>11, <1>13, SameOperators DEF Promise!Failed
<1> DEFINE f(j, wr) ==
      [k \in DOMAIN w \cup {k \in DOMAIN target.sources : target.sources[k] = target.sources[j]} |->
         IF target.sources[k] = target.sources[j] THEN wr ELSE w[k]]
<1>16. w' = f(i, names)
  <2>1. target.sources[i] = s
    BY <1>6
  <2> HIDE DEF w
  <2> QED
    BY <1>9, <2>1
<1> HIDE DEF f
<1>17. \E j \in DOMAIN target.sources \ DOMAIN w :
         /\ ~ Promise!Failed(target.sources[j], {"twice", "missing"})
         /\ \E wr \in SUBSET Promise!Outs(target.sources[j]) :
              /\ target.sources[j].writes = "all" => wr = Promise!Outs(target.sources[j])
              /\ w' = f(j, wr)
  BY <1>6, <1>15, <1>16
<1> QED
  BY <1>12, <1>14, <1>17, Zenon DEF Promise!Run, w, f

\* Which actions make what the target provides.
LEMMA FinalAre ==
  ASSUME BInv, pc = "done", NEW a \in actions
  PROVE  /\ dirs = << >> => outputs = {Destination(f) : f \in ToSet(files)}
         /\ dirs = << >> /\ ~ (\E f \in ToSet(files) : a = Copy(f, Destination(f))) =>
              a.outputs \cap outputs = {}
         /\ dirs # << >> /\ a # Merging => MergedDir \notin a.outputs
<1>1. dirs = << >> => outputs = {Destination(f) : f \in ToSet(files)}
  BY EndFacts DEF BInv, FinalOutputs
<1>2. \A b \in actions : \A f \in a.outputs : f \in b.outputs => a = b
  BY Registered DEF BInv
<1>3. ASSUME dirs = << >>, NEW g \in a.outputs, g \in outputs
      PROVE  \E f \in ToSet(files) : a = Copy(f, Destination(f))
  <2>1. PICK f \in ToSet(files) : g = Destination(f)
    BY <1>1, <1>3
  <2>2. Copy(f, Destination(f)) \in actions
    BY <1>3, Registered DEF BInv
  <2>3. Destination(f) \in Copy(f, Destination(f)).outputs
    BY DEF Copy, Action
  <2> QED
    BY <1>2, <1>3, <2>1, <2>2, <2>3
<1>4. ASSUME dirs # << >>, MergedDir \in a.outputs PROVE a = Merging
  <2>1. Merging \in actions /\ MergedDir \in Merging.outputs
    BY <1>4, Registered, Fields DEF BInv
  <2> QED
    BY <1>2, <1>4, <2>1
<1> QED
  BY <1>1, <1>3, <1>4

\* An action that is neither the merger nor a copy to a destination delivers nothing.
LEMMA DeliveredKept ==
  ASSUME BInv, NEW a, Ready(a), NEW c, DOMAIN c = a.outputs, Succeed(a, c),
         dirs = << >> => ~ \E f \in ToSet(files) : a = Copy(f, Destination(f)),
         dirs # << >> => a # Merging
  PROVE  Delivered' = Delivered
<1>1. /\ pc = "done" /\ dirs' = dirs /\ outputs' = outputs /\ MergedDir' = MergedDir
      /\ a \in actions
  BY SameAnalysis DEF Ready, Succeed, analysisVars
<1>2. /\ DOMAIN disk' = DOMAIN disk \cup a.outputs
      /\ \A f \in DOMAIN disk : disk'[f] = disk[f]
  BY Frame
<1>3. CASE dirs = << >>
  <2>1. outputs \cap DOMAIN disk' = outputs \cap DOMAIN disk
    BY <1>1, <1>2, <1>3, FinalAre
  <2>2. [f \in outputs \cap DOMAIN disk' |-> disk'[f]] = [f \in outputs \cap DOMAIN disk |-> disk[f]]
    BY <1>2, <2>1
  <2> QED
    BY <1>1, <1>3, <2>2 DEF Delivered, PlainAll, Plain
<1>4. CASE dirs # << >>
  <2>1. MergedDir \in DOMAIN disk' <=> MergedDir \in DOMAIN disk
    BY <1>1, <1>2, <1>4, FinalAre
  <2>2. MergedDir \in DOMAIN disk => disk'[MergedDir] = disk[MergedDir]
    BY <1>2
  <2> QED
    BY <1>1, <1>4, <2>1, <2>2 DEF Delivered, PlainAll, Plain
<1> QED
  BY <1>3, <1>4

\* What is written, fixed or copied on the way to the target is not seen.
LEMMA SilentImplements ==
  ASSUME BInv, BInv', NEW a, Ready(a), NEW c, DOMAIN c = a.outputs, Succeed(a, c), a.kind # "protoc",
         dirs = << >> => ~ \E f \in ToSet(files) : a = Copy(f, Destination(f)),
         dirs # << >> => a # Merging
  PROVE  UNCHANGED Promise!vars
<1>1. /\ pc = "done" /\ UNCHANGED analysisVars /\ UNCHANGED <<broken, target>>
  BY DEF Ready, Succeed
<1>2. Delivered' = Delivered
  BY DeliveredKept
<1>3. HasWritten' = HasWritten
  BY WrittenAfter
<1>4. Stage' = Stage /\ target' = target /\ Faults' = Faults
  BY <1>1, SamePromise DEF Faults
<1> QED
  BY <1>2, <1>3, <1>4 DEF Promise!vars

\* An action that fails, if its plugin gave cause.
LEMMA BreakImplements ==
  ASSUME BInv, NEW a, Ready(a), NEW why, Break(a, why),
         Promise!MayFail(target, HasWritten, a.plugin, why)
  PROVE  Promise!Break(target, HasWritten)
<1>1. /\ pc = "done" /\ a \in actions \ ran
      /\ ran' = ran \cup {a} /\ broken' = With(broken, [b \in {a} |-> why])
      /\ UNCHANGED analysisVars /\ UNCHANGED <<disk, target>>
  BY DEF Ready, Break
<1>2. /\ DOMAIN broken' = DOMAIN broken \cup {a} /\ a \notin DOMAIN broken
      /\ broken'[a] = why /\ \A b \in DOMAIN broken : broken'[b] = broken[b]
  <2>1. a \notin DOMAIN broken
    BY <1>1 DEF BInv, DiskInv
  <2> QED
    BY <1>1, <2>1 DEF With
<1>3. ran' \ DOMAIN broken' = ran \ DOMAIN broken
  BY <1>1, <1>2
<1>4. \A s : RunsOf(s)' = RunsOf(s)
  BY <1>3 DEF RunsOf
<1>5. \A s : Wrote(s)' = Wrote(s)
  BY <1>1, <1>4 DEF Wrote
<1>6. HasWritten' = HasWritten
  BY <1>1, <1>4, <1>5 DEF HasWritten
<1>7. Delivered' = Delivered
  <2>1. dirs' = dirs /\ outputs' = outputs /\ MergedDir' = MergedDir
    BY <1>1, SameAnalysis DEF analysisVars
  <2> QED
    BY <1>1, <2>1 DEF Delivered, PlainAll, Plain
<1>8. Stage' = Stage /\ target' = target
  BY <1>1, SamePromise
<1>9. Faults' = Faults \cup {<<a.plugin, why>>}
  BY <1>2 DEF Faults
<1>10. \A fault \in Faults' \ Faults : Promise!MayFail(target, HasWritten, fault[1], fault[2])
  <2>1. \A fault \in Faults' \ Faults : fault = <<a.plugin, why>>
    BY <1>9
  <2>2. <<a.plugin, why>>[1] = a.plugin /\ <<a.plugin, why>>[2] = why
    OBVIOUS
  <2> QED
    BY <2>1, <2>2
<1> QED
  BY <1>6, <1>7, <1>8, <1>9, <1>10 DEF Promise!Break

\* What is called what in the target.
LEMMA NamedFacts ==
  ASSUME BInv, pc = "done", NEW i \in RunAt, NEW p, p = rule.plugins[i], ~ p.directory
  PROVE  /\ target.sources[i].label = p.label /\ target.sources[i].outs = PluginOutputs(p)
         /\ target.sources[i].writes # "directory"
         /\ Promise!Has(target, HasWritten, i) = 1 .. Len(PluginOutputs(p))
         /\ \A k \in 1 .. Len(PluginOutputs(p)) :
              target.sources[i].names[k] = InTarget(Generated(p)[k])
<1>1. p \in Ran /\ target.sources[i] = SourceOf(p)
  BY SourcesAre DEF SourcesFact
<1>2. /\ SourceOf(p).label = p.label /\ SourceOf(p).outs = Candidates(p)
      /\ SourceOf(p).writes # "directory"
      /\ \A k \in DOMAIN Candidates(p) : SourceOf(p).names[k] = InTarget(Called(p)[k])
  BY <1>1, SourceFacts DEF BInv
<1>3. Candidates(p) = PluginOutputs(p) /\ Called(p) = Generated(p)
  BY DEF Candidates, Called
<1>4. DOMAIN PluginOutputs(p) = 1 .. Len(PluginOutputs(p))
  BY <1>1, IndexFacts DEF BInv
<1>5. Promise!Has(target, HasWritten, i) = DOMAIN target.sources[i].outs
  BY <1>1, <1>2 DEF Promise!Has
<1> QED
  BY <1>1, <1>2, <1>3, <1>4, <1>5

\* A file on disk tells its plugin, its name, and whether it was filled in.
LEMMA PlainFacts ==
  \A label, f : /\ Plain(Written(label, f)) = [by |-> label, of |-> f, filled |-> FALSE]
                /\ Plain(Template(label, f)) = [by |-> label, of |-> f, filled |-> TRUE]
BY DEF Plain, Written, Template, Content

\* A file on disk, as TargetBuild describes it.
LEMMA ContentFacts ==
  ASSUME BInv, pc = "done", NEW i \in RunAt, NEW p, p = rule.plugins[i], ~ p.directory,
         NEW k \in 1 .. Len(PluginOutputs(p)), Generated(p)[k] \in DOMAIN disk
  PROVE  /\ i \in DOMAIN HasWritten
         /\ Plain(disk[Generated(p)[k]]) = Promise!Content(target, HasWritten, i, k)
<1>1. p \in Ran /\ SourcesFact
  BY SourcesAre DEF SourcesFact
<1>2. /\ ProtocOf(p) \in Finished
      /\ disk[Generated(p)[k]] = IF PluginOutputs(p)[k] \in Wrote(SourceOf(p))
                                 THEN Written(p.label, PluginOutputs(p)[k])
                                 ELSE Template(p.label, PluginOutputs(p)[k])
  BY <1>1, FileFacts
<1>3. i \in DOMAIN HasWritten /\ HasWritten[i] = Wrote(SourceOf(p))
  BY <1>1, <1>2 DEF SourcesFact
<1>4. Plain(disk[Generated(p)[k]]) =
        [by |-> p.label, of |-> PluginOutputs(p)[k], filled |-> PluginOutputs(p)[k] \notin Wrote(SourceOf(p))]
  BY <1>2, PlainFacts
<1>5. target.sources[i].label = p.label /\ target.sources[i].outs = PluginOutputs(p)
  BY NamedFacts
<1> QED
  BY <1>3, <1>4, <1>5 DEF Promise!Content

\* The copy of a file to where the target provides it.
LEMMA DeliverImplements ==
  ASSUME BInv, BInv', NEW a, Ready(a), NEW c, DOMAIN c = a.outputs, Succeed(a, c),
         dirs = << >>, NEW f \in ToSet(files), a = Copy(f, Destination(f)),
         f \in DOMAIN disk, c[Destination(f)] = disk[f]
  PROVE  Promise!Deliver(target, HasWritten)
<1>1. /\ pc = "done" /\ UNCHANGED analysisVars /\ UNCHANGED <<broken, target>>
      /\ dirs' = dirs /\ outputs' = outputs /\ a \in actions
  BY DEF Ready, Succeed, analysisVars
<1>2. a.outputs = {Destination(f)} /\ a.kind = "copy"
  BY DEF Copy, Action
<1>3. PICK p \in Ran : \E k \in 1 .. Len(PluginOutputs(p)) : ~ p.directory /\ f = Generated(p)[k]
  BY <1>1, FileOf
<1>4. PICK k \in 1 .. Len(PluginOutputs(p)) : ~ p.directory /\ f = Generated(p)[k]
  BY <1>3
<1>5. SourcesFact
  BY SourcesAre
<1>6. PICK i \in RunAt : rule.plugins[i] = p
  BY <1>1, <1>5 DEF SourcesFact
<1> DEFINE name == Destination(f)
           was == [g \in outputs \cap DOMAIN disk |-> disk[g]]
           is == [g \in outputs \cap DOMAIN disk' |-> disk'[g]]
<1>7. i \in DOMAIN HasWritten /\ Plain(disk[f]) = Promise!Content(target, HasWritten, i, k)
  BY <1>1, <1>4, <1>6, ContentFacts
<1>8. k \in Promise!Has(target, HasWritten, i) /\ target.sources[i].names[k] = name
  <2>1. /\ Promise!Has(target, HasWritten, i) = 1 .. Len(PluginOutputs(p))
        /\ target.sources[i].names[k] = InTarget(Generated(p)[k])
    BY <1>1, <1>4, <1>6, NamedFacts
  <2> QED
    BY <1>4, <2>1 DEF InTarget
<1>9. ~ target.merged
  BY <1>1, <1>5 DEF SourcesFact
<1>10. /\ DOMAIN disk' = DOMAIN disk \cup {name} /\ name \notin DOMAIN disk
       /\ disk'[name] = disk[f] /\ \A g \in DOMAIN disk : disk'[g] = disk[g]
  BY <1>2, Frame
<1>11. name \in outputs
  BY <1>1, FinalAre
<1>12. Delivered = PlainAll(was) /\ Delivered' = PlainAll(is)
  <2>1. Delivered = PlainAll(was)
    BY DEF Delivered
  <2>2. Delivered' = PlainAll(is)
    BY <1>1 DEF Delivered, PlainAll, Plain
  <2> QED
    BY <2>1, <2>2
<1>13. /\ DOMAIN is = DOMAIN was \cup {name} /\ name \notin DOMAIN was
       /\ is[name] = disk[f] /\ \A g \in DOMAIN was : is[g] = was[g]
  BY <1>10, <1>11
<1> HIDE DEF is, was, name
<1>14. /\ DOMAIN Delivered = DOMAIN was
       /\ PlainAll(is) = [n \in DOMAIN Delivered \cup {name} |->
                            IF n = name THEN Plain(disk[f]) ELSE Delivered[n]]
  BY <1>12, <1>13 DEF PlainAll
<1> DEFINE g(j, l) == [n \in DOMAIN Delivered \cup {target.sources[j].names[l]} |->
                         IF n = target.sources[j].names[l] THEN Promise!Content(target, HasWritten, j, l)
                         ELSE Delivered[n]]
<1>15. Delivered' = g(i, k)
  BY <1>7, <1>8, <1>12, <1>14
<1> HIDE DEF g
<1>16. \E j \in DOMAIN HasWritten : \E l \in Promise!Has(target, HasWritten, j) :
         /\ target.sources[j].names[l] \notin DOMAIN Delivered
         /\ Delivered' = g(j, l)
  BY <1>7, <1>8, <1>13, <1>14, <1>15
<1>17. HasWritten' = HasWritten
  BY <1>2, WrittenAfter
<1>18. Stage' = Stage /\ target' = target /\ Faults' = Faults
  BY <1>1, SamePromise DEF Faults
<1> QED
  BY <1>9, <1>16, <1>17, <1>18, Zenon DEF Promise!Deliver, g

-----------------------------------------------------------------------------
(* A target that is accepted keeps the files of its plugins apart *)

LEMMA NotShared ==
  ASSUME IInv, pc = "done", NEW p \in Ran, NEW q \in Ran,
         NEW f \in ToSet(PluginOutputs(p)), f \in ToSet(PluginOutputs(q))
  PROVE  p = q
<1>1. \A r : Fixed(r).outputs = ToSet(PluginOutputs(r)) /\ Fixed(r).plugin = r.label
             /\ ProtocOf(r).plugin = r.label
             /\ ProtocOf(r).outputs = IF r.template THEN {UnfixedDir(r)} ELSE ToSet(PluginOutputs(r))
  BY Fields
<1>2. \A r \in Ran : \E a \in actions : a.plugin = r.label /\ a.outputs = ToSet(PluginOutputs(r))
  BY <1>1, Registered
<1>3. PICK a \in actions : a.plugin = p.label /\ a.outputs = ToSet(PluginOutputs(p))
  BY <1>2
<1>4. PICK b \in actions : b.plugin = q.label /\ b.outputs = ToSet(PluginOutputs(q))
  BY <1>2
<1>5. a = b
  BY <1>3, <1>4, Registered
<1> QED
  BY <1>3, <1>4, <1>5, Outputs

\* Two outputs that have one name when their plugins have run.
LEMMA SameGenerated ==
  ASSUME IInv, pc = "done", NEW p \in Ran, NEW q \in Ran, ~ p.directory, ~ q.directory,
         NEW k \in 1 .. Len(PluginOutputs(p)), NEW l \in 1 .. Len(PluginOutputs(q)),
         Generated(p)[k] = Generated(q)[l]
  PROVE  p = q /\ PluginOutputs(p)[k] = PluginOutputs(q)[l]
<1> DEFINE f == PluginOutputs(p)[k]
           g == PluginOutputs(q)[l]
<1>1. /\ f \in ToSet(PluginOutputs(p)) /\ f.ext \notin OwnExts
      /\ Generated(p)[k] = f \/ (f \in ToSet(Out(p)) /\ IsJar(f) /\ Generated(p)[k] = SrcJar(f))
  BY IndexFacts, Outputs
<1>2. /\ g \in ToSet(PluginOutputs(q)) /\ g.ext \notin OwnExts
      /\ Generated(q)[l] = g \/ (g \in ToSet(Out(q)) /\ IsJar(g) /\ Generated(q)[l] = SrcJar(g))
  BY IndexFacts, Outputs
<1> HIDE DEF f, g
<1>3. "srcjar" \in OwnExts
  BY DEF OwnExts
<1>4. f \in ToSet(Out(p)) => SrcJar(f).ext = "srcjar"
  BY SrcJarFacts
<1>5. g \in ToSet(Out(q)) => SrcJar(g).ext = "srcjar"
  BY SrcJarFacts
<1>6. CASE f = g
  BY <1>1, <1>2, <1>6, NotShared DEF f, g
<1>7. CASE f \in ToSet(Out(p)) /\ IsJar(f) /\ g \in ToSet(Out(q)) /\ IsJar(g) /\ SrcJar(f) = SrcJar(g)
  <2>1. Copy(f, SrcJar(f)) \in actions /\ Copy(g, SrcJar(g)) \in actions
    BY <1>7, Registered
  <2>2. /\ SrcJar(f) \in Copy(f, SrcJar(f)).outputs /\ SrcJar(g) \in Copy(g, SrcJar(g)).outputs
        /\ Copy(f, SrcJar(f)).inputs = {f} /\ Copy(g, SrcJar(g)).inputs = {g}
    BY DEF Copy, Action
  <2>3. Copy(f, SrcJar(f)) = Copy(g, SrcJar(g))
    BY <1>7, <2>1, <2>2, Registered
  <2>4. f = g
    BY <2>2, <2>3
  <2> QED
    BY <1>6, <2>4
<1> QED
  BY <1>1, <1>2, <1>3, <1>4, <1>5, <1>6, <1>7

\* Two files of the target that have one name there.
LEMMA SameInTarget ==
  ASSUME IInv, pc = "done", NEW f \in ToSet(files), NEW g \in ToSet(files), InTarget(f) = InTarget(g)
  PROVE  f = g
<1>1. CASE dirs # << >>
  BY <1>1 DEF InTarget
<1>2. CASE dirs = << >>
  <2>1. Destination(f) = Destination(g)
    BY <1>2 DEF InTarget
  <2>2. Copy(f, Destination(f)) \in actions /\ Copy(g, Destination(g)) \in actions
    BY <1>2, Registered
  <2>3. /\ Destination(f) \in Copy(f, Destination(f)).outputs
        /\ Destination(g) \in Copy(g, Destination(g)).outputs
        /\ Copy(f, Destination(f)).inputs = {f} /\ Copy(g, Destination(g)).inputs = {g}
    BY DEF Copy, Action
  <2>4. Copy(f, Destination(f)) = Copy(g, Destination(g))
    BY <2>1, <2>2, <2>3, Registered
  <2> QED
    BY <2>3, <2>4
<1> QED
  BY <1>1, <1>2

\* An accepted target keeps the files of different sources apart.
ApartFact == pc = "done" => Promise!Apart(target)

LEMMA AreApart == BInv => ApartFact
<1> SUFFICES ASSUME BInv, pc = "done" PROVE Promise!Apart(target)
  BY DEF ApartFact
<1>1. SourcesFact
  BY SourcesAre
<1>2. DOMAIN target.sources = RunAt
  BY <1>1 DEF SourcesFact
<1>3. ASSUME NEW i \in RunAt, target.sources[i].writes # "directory"
      PROVE  LET p == rule.plugins[i] IN
             /\ p \in Ran /\ ~ p.directory
             /\ target.sources[i].outs = PluginOutputs(p)
             /\ DOMAIN target.sources[i].outs = 1 .. Len(PluginOutputs(p))
             /\ \A k \in 1 .. Len(PluginOutputs(p)) :
                  /\ target.sources[i].names[k] = InTarget(Generated(p)[k])
                  /\ Generated(p)[k] \in ToSet(files)
  <2> DEFINE p == rule.plugins[i]
  <2>1. p \in Ran /\ target.sources[i] = SourceOf(p)
    BY <1>1 DEF SourcesFact
  <2> HIDE DEF p
  <2>2. ~ p.directory
    BY <1>3, <2>1, SourceFacts DEF BInv
  <2>3. /\ target.sources[i].outs = PluginOutputs(p)
        /\ \A k \in 1 .. Len(PluginOutputs(p)) : target.sources[i].names[k] = InTarget(Generated(p)[k])
    BY <2>2, NamedFacts DEF p
  <2>4. /\ DOMAIN Generated(p) = 1 .. Len(PluginOutputs(p))
        /\ DOMAIN PluginOutputs(p) = 1 .. Len(PluginOutputs(p))
    BY <2>1, <2>2, IndexFacts DEF BInv
  <2>5. \A k \in 1 .. Len(PluginOutputs(p)) : Generated(p)[k] \in ToSet(files)
    <3>1. ToSet(files) = UNION {ToSet(Generated(r)) : r \in Ran}
      BY EndFacts DEF BInv
    <3>2. \A k \in 1 .. Len(PluginOutputs(p)) : Generated(p)[k] \in ToSet(Generated(p))
      BY <2>4 DEF ToSet
    <3> QED
      BY <2>1, <3>1, <3>2
  <2> QED
    BY <2>1, <2>2, <2>3, <2>4, <2>5 DEF p
<1>4. ASSUME NEW i \in RunAt, NEW k \in DOMAIN target.sources[i].outs, NEW l \in DOMAIN target.sources[i].outs,
             target.sources[i].names[k] = target.sources[i].names[l]
      PROVE  target.sources[i].outs[k] = target.sources[i].outs[l]
  <2> DEFINE p == rule.plugins[i]
  <2>1. p \in Ran /\ target.sources[i] = SourceOf(p)
    BY <1>1 DEF SourcesFact
  <2>2. CASE target.sources[i].writes # "directory"
    <3>1. /\ ~ p.directory /\ target.sources[i].outs = PluginOutputs(p)
          /\ k \in 1 .. Len(PluginOutputs(p)) /\ l \in 1 .. Len(PluginOutputs(p))
          /\ InTarget(Generated(p)[k]) = InTarget(Generated(p)[l])
          /\ Generated(p)[k] \in ToSet(files) /\ Generated(p)[l] \in ToSet(files)
      BY <1>3, <1>4, <2>2
    <3>2. Generated(p)[k] = Generated(p)[l]
      BY <3>1, SameInTarget DEF BInv
    <3> HIDE DEF p
    <3>3. PluginOutputs(p)[k] = PluginOutputs(p)[l]
      BY <2>1, <3>1, <3>2, SameGenerated DEF BInv
    <3> QED
      BY <3>1, <3>3
  <2>3. CASE target.sources[i].writes = "directory"
    <3> HIDE DEF p
    <3>1. p.directory
      BY <2>1, <2>3, SourceFacts DEF BInv
    <3>2. dirs # << >>
      <4>1. OutputDirs(p) = <<OutputDir(p)>>
        BY <2>1, <3>1, Outputs DEF BInv
      <4>2. OutputDir(p) \in ToSet(OutputDirs(p))
        BY <4>1, OneFacts
      <4>3. ToSet(dirs) # {}
        BY <2>1, <4>2, EndFacts DEF BInv
      <4> QED
        BY <4>3, OneFacts
    <3>3. \A j \in DOMAIN TreeNames : target.sources[i].names[j] = TreeNames[j]
      <4>1. Candidates(p) = TreeNames /\ Called(p) = TreeNames
        BY <3>1 DEF Candidates, Called
      <4>2. \A j \in DOMAIN Candidates(p) : SourceOf(p).names[j] = InTarget(Called(p)[j])
        BY <2>1, SourceFacts DEF BInv
      <4> QED
        BY <2>1, <3>2, <4>1, <4>2 DEF InTarget
    <3>4. target.sources[i].outs = TreeNames
      BY <2>1, <3>1, SourceFacts DEF Candidates, BInv
    <3> QED
      BY <1>4, <3>3, <3>4
  <2> QED
    BY <2>2, <2>3
<1>5. ASSUME NEW i \in RunAt, NEW j \in RunAt, target.sources[i] # target.sources[j],
             target.sources[i].writes # "directory", target.sources[j].writes # "directory",
             NEW k \in DOMAIN target.sources[i].outs, NEW l \in DOMAIN target.sources[j].outs
      PROVE  target.sources[i].names[k] # target.sources[j].names[l]
  <2> SUFFICES ASSUME target.sources[i].names[k] = target.sources[j].names[l] PROVE FALSE
    OBVIOUS
  <2> DEFINE p == rule.plugins[i]
             q == rule.plugins[j]
  <2>1. /\ p \in Ran /\ q \in Ran /\ ~ p.directory /\ ~ q.directory
        /\ k \in 1 .. Len(PluginOutputs(p)) /\ l \in 1 .. Len(PluginOutputs(q))
        /\ InTarget(Generated(p)[k]) = InTarget(Generated(q)[l])
        /\ Generated(p)[k] \in ToSet(files) /\ Generated(q)[l] \in ToSet(files)
    BY <1>3, <1>5
  <2>2. target.sources[i] = SourceOf(p) /\ target.sources[j] = SourceOf(q)
    BY <1>1 DEF SourcesFact
  <2> HIDE DEF p, q
  <2>3. Generated(p)[k] = Generated(q)[l]
    BY <2>1, SameInTarget DEF BInv
  <2>4. p = q
    BY <2>1, <2>3, SameGenerated DEF BInv
  <2> QED
    BY <1>5, <2>2, <2>4
<1>6. \A i \in RunAt : LET s == target.sources[i] IN
        \A k, l \in DOMAIN s.outs : s.names[k] = s.names[l] => s.outs[k] = s.outs[l]
  BY <1>4
<1>7. \A i, j \in RunAt :
        target.sources[i] # target.sources[j]
          /\ "directory" \notin {target.sources[i].writes, target.sources[j].writes} =>
        Promise!NamesOf(target.sources[i]) \cap Promise!NamesOf(target.sources[j]) = {}
  <2> SUFFICES ASSUME NEW i \in RunAt, NEW j \in RunAt, target.sources[i] # target.sources[j],
                      target.sources[i].writes # "directory", target.sources[j].writes # "directory",
                      NEW n \in Promise!NamesOf(target.sources[i]), n \in Promise!NamesOf(target.sources[j])
               PROVE  FALSE
    OBVIOUS
  <2>1. PICK k \in DOMAIN target.sources[i].outs : n = target.sources[i].names[k]
    BY DEF Promise!NamesOf
  <2>2. PICK l \in DOMAIN target.sources[j].outs : n = target.sources[j].names[l]
    BY DEF Promise!NamesOf
  <2> QED
    BY <1>5, <2>1, <2>2
<1> QED
  BY <1>2, <1>6, <1>7 DEF Promise!Apart

\* The analysis accepts the target, refuses it, or is not seen.
LEMMA AnalyseImplements ==
  ASSUME BInv, BInv', Analyse
  PROVE  Promise!Accept \/ Promise!Refuse \/ UNCHANGED Promise!vars
<1>1. pc # "done" /\ target = NoTarget /\ AnalysisNext /\ UNCHANGED execVars
  BY AnalyseStep DEF Analyse
<1>2. pc \notin {"done", "failed", "conflict"}
  BY <1>1 DEF AnalysisNext, ResolveKey, ResolveStar, RejectPlugin, SkipPlugin, AddPlugin, AtPlugin,
    MergeOutputs, RejectMode, CopyOutputs, PluginsDone, CheckActions
<1>3. ran = {} /\ DOMAIN disk = {} /\ DOMAIN broken = {} /\ disk' = disk /\ ran' = ran /\ broken' = broken
  <2>1. ran = {} /\ DOMAIN broken \subseteq ran /\ DOMAIN disk = UNION {a.outputs : a \in Finished}
    BY <1>1 DEF BInv, DiskInv
  <2>2. Finished = {}
    BY <2>1 DEF Finished
  <2>3. DOMAIN disk = {}
    BY <2>1, <2>2
  <2> QED
    BY <1>1, <2>1, <2>3 DEF execVars
<1>4. HasWritten' = HasWritten
  <2>1. \A s : RunsOf(s) = {} /\ RunsOf(s)' = {}
    BY <1>3 DEF RunsOf
  <2>2. DOMAIN HasWritten = {} /\ DOMAIN HasWritten' = {}
    BY <2>1 DEF HasWritten
  <2>3. HasWritten = [i \in DOMAIN HasWritten |-> HasWritten[i]]
    BY DEF HasWritten
  <2>4. HasWritten' = [i \in DOMAIN HasWritten' |-> HasWritten'[i]]
    BY DEF HasWritten
  <2> QED
    BY <2>2, <2>3, <2>4
<1>5. Faults = {} /\ Faults' = {}
  BY <1>3 DEF Faults
<1>6. Delivered = Empty /\ Delivered' = Empty
  <2>1. \A g : DOMAIN g = {} => PlainAll(g) = Empty
    BY DEF PlainAll, Empty
  <2>2. \A S : DOMAIN [f \in S \cap DOMAIN disk |-> disk[f]] = {}
    BY <1>3
  <2>3. MergedDir \notin DOMAIN disk
    BY <1>3
  <2>4. Delivered = Empty
    BY <2>1, <2>2, <2>3 DEF Delivered
  <2>5. \A g : DOMAIN g = {} => PlainAll(g)' = Empty
    BY <2>1 DEF PlainAll, Plain
  <2>6. Delivered' = Empty
    BY <1>3, <2>2, <2>5 DEF Delivered
  <2> QED
    BY <2>4, <2>6
<1>7. Stage = "analysis"
  BY <1>2 DEF Stage
<1>8. CASE pc' = "done"
  <2>1. Stage' = "building"
    BY <1>8 DEF Stage
  <2>2. ApartFact'
    BY AreApart, PTL
  <2>3. Promise!Apart(target')
    BY <1>8, <2>2 DEF ApartFact, Promise!Apart, Promise!NamesOf
  <2> QED
    BY <1>4, <1>5, <1>6, <1>7, <2>1, <2>3 DEF Promise!Accept
<1>9. CASE pc' # "done"
  <2>1. target' = target
    BY <1>1, <1>9 DEF Analyse
  <2>2. Stage' \in {"analysis", "refused"}
    BY <1>9 DEF Stage
  <2> QED
    BY <1>4, <1>5, <1>6, <1>7, <2>1, <2>2 DEF Promise!Refuse, Promise!vars
<1> QED
  BY <1>8, <1>9

\* The refinement maps initial states to initial states.
LEMMA InitImplementsTarget == Init => Promise!Init
<1> SUFFICES ASSUME Init PROVE Promise!Init
  OBVIOUS
<1>1. pc = "options" /\ dirs = << >> /\ disk = Empty /\ broken = Empty /\ target = NoTarget
  BY DEF Init, AnalysisInit
<1>2. Stage = "analysis" /\ Faults = {}
  BY <1>1 DEF Stage, Faults, Empty
<1>3. HasWritten = Empty
  <2>1. DOMAIN HasWritten = {}
    BY <1>1 DEF HasWritten, NoTarget
  <2>2. HasWritten = [i \in DOMAIN HasWritten |-> HasWritten[i]]
    BY DEF HasWritten
  <2> QED
    BY <2>1, <2>2 DEF Empty
<1>4. Delivered = Empty
  <2>1. \A g : DOMAIN g = {} => PlainAll(g) = Empty
    BY DEF PlainAll, Empty
  <2> QED
    BY <1>1, <2>1 DEF Delivered, Empty
<1> QED
  BY <1>1, <1>2, <1>3, <1>4 DEF Promise!Init, Promise!NoTarget, Promise!Nothing, NoTarget, Empty

-----------------------------------------------------------------------------
(***************************************************************************)
(* The merger.  The lines of its manifest, of which the first d name       *)
(* directories, are known by the paths of the files that each brings.      *)
(***************************************************************************)

\* Of the lines m the first d are of directories; line y brings the files B[y].
LinesAre(m, d, B) ==
  /\ Len(m) \in Nat /\ d \in 0 .. Len(m)
  /\ \A y \in 1 .. Len(m) :
       /\ B[y] \subseteq FilePath
       /\ m[y].kind = IF y <= d THEN "D" ELSE "F"
       /\ y > d => B[y] = {m[y].path}
       /\ \A p \in TreePath :
            /\ Plan!Provides(m[y], p) \in {"file", "dir", "absent"}
            /\ Plan!Provides(m[y], p) = "file" <=> p \in B[y]
            /\ Plan!Provides(m[y], p) = "dir" <=>
                 p \notin B[y] /\ ((y <= d /\ p = << >>) \/ \E q \in B[y] : Plan!Above(p, q))
  /\ \A x, y \in 1 .. d : \A p \in B[x], q \in B[y] : Plan!Within(p, q) => p = q

\* Two files, the later of which has a line of its own, are in each other's way.
Clashes(m, d, B) ==
  \E x, y \in 1 .. Len(m) :
    /\ x < y /\ y > d
    /\ \E p \in B[x], q \in B[y] : Plan!Within(p, q) \/ Plan!Within(q, p)

\* What Within means for the paths of files.
LEMMA PathFacts ==
  /\ FilePath \subseteq TreePath /\ << >> \notin FilePath
  /\ \A p \in TreePath : p \in Seq(STRING) /\ Plan!Within(p, p)
<1>1. \A p \in TreePath : p \in Seq(STRING)
  BY TreeAssumption
<1>2. ASSUME NEW p \in Seq(STRING) PROVE Plan!Within(p, p)
  <2>1. Len(p) \in Nat /\ SubSeq(p, 1, Len(p)) = p
    OBVIOUS
  <2> QED
    BY <2>1 DEF Plan!Within
<1> QED
  BY <1>1, <1>2 DEF FilePath

\* Of the lines that have something at a path there is a first.
LEMMA FirstLine ==
  ASSUME NEW m, Len(m) \in Nat, NEW x \in 1 .. Len(m), NEW p, Plan!Provides(m[x], p) # "absent"
  PROVE  \E y \in 1 .. Len(m) : y <= x /\ Plan!IsFirst(m, y, p)
<1> DEFINE S == {y \in 1 .. Len(m) : Plan!Provides(m[y], p) # "absent"}
<1>1. S \in SUBSET Nat /\ S # {} /\ x \in S
  OBVIOUS
<1> HIDE DEF S
<1>2. PICK y \in S : \A k \in S : y <= k
  BY <1>1, Least
<1>3. y \in 1 .. Len(m) /\ y <= x /\ Plan!Provides(m[y], p) # "absent"
  BY <1>1, <1>2 DEF S
<1>4. \A j \in 1 .. Len(m) : j < y => Plan!Provides(m[j], p) = "absent"
  <2> SUFFICES ASSUME NEW j \in 1 .. Len(m), j < y, Plan!Provides(m[j], p) # "absent" PROVE FALSE
    OBVIOUS
  <2>1. j \in S
    BY DEF S
  <2>2. y <= j
    BY <1>2, <2>1
  <2> QED
    BY <1>3, <2>2
<1> QED
  BY <1>3, <1>4 DEF Plan!IsFirst

\* Files in each other's way are a conflict for the merger.
LEMMA ClashConflicts ==
  ASSUME NEW m, NEW d, NEW B, LinesAre(m, d, B), Clashes(m, d, B)
  PROVE  Plan!HasConflict(m)
<1>1. PICK x \in 1 .. Len(m), y \in 1 .. Len(m) :
        /\ x < y /\ y > d
        /\ \E p \in B[x], q \in B[y] : Plan!Within(p, q) \/ Plan!Within(q, p)
  BY DEF Clashes
<1>2. PICK p \in B[x], q \in B[y] : Plan!Within(p, q) \/ Plan!Within(q, p)
  BY <1>1
<1>3. Len(m) \in Nat /\ d \in Nat /\ x \in Nat /\ y \in Nat /\ ~ (y <= d)
  BY <1>1 DEF LinesAre
<1>4. p \in FilePath /\ q \in FilePath /\ p \in TreePath /\ q \in TreePath /\ p # << >> /\ q # << >>
  BY PathFacts DEF LinesAre
<1>5. m[y].kind = "F" /\ m[y].path = q /\ Plan!Provides(m[x], p) = "file"
  BY <1>1, <1>2, <1>3, <1>4 DEF LinesAre
<1>6. CASE Plan!Within(q, p)
  <2>1. Plan!Provides(m[x], q) # "absent"
    <3>1. CASE p = q
      BY <1>5, <3>1
    <3>2. CASE p # q
      <4>1. Plan!Above(q, p)
        BY <1>6, <3>2 DEF Plan!Above
      <4> QED
        BY <1>4, <4>1 DEF LinesAre
    <3> QED
      BY <3>1, <3>2
  <2>2. Plan!Conflict(m, y)
    BY <1>1, <1>4, <1>5, <2>1 DEF Plan!Conflict
  <2> QED
    BY <2>2 DEF Plan!HasConflict
<1>7. CASE ~ Plan!Within(q, p)
  <2>1. p # q /\ Plan!Above(p, q)
    BY <1>2, <1>4, <1>7, PathFacts DEF Plan!Above
  <2>2. PICK z \in 1 .. Len(m) : z <= x /\ Plan!IsFirst(m, z, p)
    BY <1>3, <1>5, FirstLine
  <2>3. z < y /\ z \in Nat /\ Plan!Provides(m[z], p) # "absent"
    BY <1>1, <1>3, <2>2 DEF Plan!IsFirst
  <2>4. CASE Plan!Provides(m[z], p) = "file"
    <3>1. p \notin B[y]
      BY <1>3, <1>5, <2>1 DEF LinesAre
    <3>2. Plan!Provides(m[y], p) = "dir"
      BY <1>4, <2>1, <3>1 DEF LinesAre
    <3>3. Plan!Conflict(m, y)
      BY <1>4, <2>2, <2>3, <2>4, <3>2 DEF Plan!Conflict
    <3> QED
      BY <3>3 DEF Plan!HasConflict
  <2>5. CASE Plan!Provides(m[z], p) # "file"
    <3>1. Plan!Provides(m[z], p) = "dir"
      BY <1>4, <2>3, <2>5 DEF LinesAre
    <3>2. PICK h \in B[z] : Plan!Above(p, h)
      BY <1>4, <3>1 DEF LinesAre
    <3>3. z # x
      BY <1>5, <2>5
    <3>4. z < x
      BY <1>3, <2>2, <2>3, <3>3
    <3>5. x > d
      <4> SUFFICES ASSUME x <= d PROVE FALSE
        BY <1>3
      <4>1. x \in 1 .. d /\ z \in 1 .. d
        BY <1>3, <2>3, <3>4
      <4>2. p = h
        BY <3>2, <4>1 DEF LinesAre, Plan!Above
      <4> QED
        BY <3>2, <4>2 DEF Plan!Above
    <3>6. m[x].kind = "F" /\ m[x].path = p
      BY <1>3, <3>5 DEF LinesAre
    <3>7. Plan!Conflict(m, x)
      BY <1>4, <2>3, <3>4, <3>6 DEF Plan!Conflict
    <3> QED
      BY <3>7 DEF Plan!HasConflict
  <2> QED
    BY <2>4, <2>5
<1> QED
  BY <1>6, <1>7

\* A conflict for the merger is of two files in each other's way.
LEMMA ConflictClashes ==
  ASSUME NEW m, NEW d, NEW B, LinesAre(m, d, B), Plan!HasConflict(m)
  PROVE  Clashes(m, d, B)
<1>1. PICK y \in 1 .. Len(m) : Plan!Conflict(m, y)
  BY DEF Plan!HasConflict
<1>2. m[y].kind \in {"D", "F"} /\ Len(m) \in Nat /\ d \in Nat /\ y \in Nat
  BY DEF LinesAre
<1>3. PICK x \in 1 .. Len(m), p \in TreePath :
        /\ x < y
        /\ \/ /\ Plan!IsFirst(m, x, p)
              /\ Plan!Provides(m[x], p) = "file"
              /\ Plan!Provides(m[y], p) = "dir"
           \/ /\ m[y].kind = "F"
              /\ p = m[y].path
              /\ Plan!Provides(m[x], p) # "absent"
  BY <1>1, <1>2 DEF Plan!Conflict
<1>4. CASE Plan!Provides(m[x], p) = "file" /\ Plan!Provides(m[y], p) = "dir"
  <2>1. p \in B[x] /\ p # << >>
    BY <1>4, PathFacts DEF LinesAre
  <2>2. PICK q \in B[y] : Plan!Above(p, q)
    BY <1>4, <2>1 DEF LinesAre
  <2>3. y > d
    <3> SUFFICES ASSUME y <= d PROVE FALSE
      BY <1>2
    <3>1. x \in 1 .. d /\ y \in 1 .. d
      BY <1>2, <1>3
    <3>2. p = q
      BY <2>1, <2>2, <3>1 DEF LinesAre, Plan!Above
    <3> QED
      BY <2>2, <3>2 DEF Plan!Above
  <2>4. Plan!Within(p, q)
    BY <2>2 DEF Plan!Above
  <2> QED
    BY <1>3, <2>1, <2>3, <2>4 DEF Clashes
<1>5. CASE m[y].kind = "F" /\ p = m[y].path /\ Plan!Provides(m[x], p) # "absent"
  <2>1. y > d
    BY <1>2, <1>5 DEF LinesAre
  <2>2. p \in B[y] /\ p # << >>
    <3>1. B[y] = {p}
      BY <1>5, <2>1 DEF LinesAre
    <3> QED
      BY <3>1, PathFacts DEF LinesAre
  <2>3. PICK q \in B[x] : Plan!Within(p, q)
    <3>1. CASE p \in B[x]
      BY <3>1, PathFacts
    <3>2. CASE p \notin B[x]
      <4>1. Plan!Provides(m[x], p) = "dir"
        BY <1>5, <3>2 DEF LinesAre
      <4> QED
        BY <2>2, <4>1 DEF LinesAre, Plan!Above
    <3> QED
      BY <3>1, <3>2
  <2> QED
    BY <1>3, <2>1, <2>2, <2>3 DEF Clashes
<1> QED
  BY <1>3, <1>4, <1>5

\* Without a conflict the first line that has anything at the path of a file
\* brings that file, and a file that has a line of its own has no other.
LEMMA FirstBrings ==
  ASSUME NEW m, NEW d, NEW B, LinesAre(m, d, B), ~ Plan!HasConflict(m),
         NEW x \in 1 .. Len(m), NEW p \in B[x], NEW y, Plan!IsFirst(m, y, p)
  PROVE  /\ y \in 1 .. Len(m) /\ p \in B[y] /\ y <= x
         /\ x > d => x = y
         /\ \A z \in 1 .. Len(m) : z < y => p \notin B[z]
<1>1. Len(m) \in Nat /\ d \in Nat /\ x \in Nat /\ p \in TreePath /\ p # << >>
  BY PathFacts DEF LinesAre
<1>2. y \in 1 .. Len(m) /\ Plan!Provides(m[y], p) # "absent" /\ y \in Nat
  BY <1>1 DEF Plan!IsFirst
<1>3. \A z \in 1 .. Len(m) : z < y => p \notin B[z]
  <2>1. \A z \in 1 .. Len(m) : z < y => Plan!Provides(m[z], p) = "absent"
    BY DEF Plan!IsFirst
  <2> QED
    BY <1>1, <2>1 DEF LinesAre
<1>4. y <= x
  BY <1>1, <1>2, <1>3
<1>5. PICK q \in B[y] : Plan!Within(p, q)
  <2>1. CASE p \in B[y]
    BY <1>1, <2>1, PathFacts
  <2>2. CASE p \notin B[y]
    <3>1. Plan!Provides(m[y], p) = "dir"
      BY <1>1, <1>2, <2>2 DEF LinesAre
    <3> QED
      BY <1>1, <1>2, <3>1 DEF LinesAre, Plan!Above
  <2> QED
    BY <2>1, <2>2
<1>6. ASSUME x > d PROVE x = y
  <2> SUFFICES ASSUME y < x PROVE FALSE
    BY <1>1, <1>2, <1>4
  <2>1. Clashes(m, d, B)
    BY <1>2, <1>5, <1>6 DEF Clashes
  <2> QED
    BY <2>1, ClashConflicts
<1>7. p \in B[y]
  <2>1. CASE x = y
    BY <2>1
  <2>2. CASE x # y
    <3>1. x <= d
      BY <1>1, <1>6, <2>2
    <3>2. x \in 1 .. d /\ y \in 1 .. d
      BY <1>1, <1>2, <1>4, <3>1
    <3>3. p = q
      BY <1>5, <3>2 DEF LinesAre
    <3> QED
      BY <3>3
  <2> QED
    BY <2>1, <2>2
<1> QED
  BY <1>2, <1>3, <1>4, <1>6, <1>7

-----------------------------------------------------------------------------
(* What the merger finds when it runs *)

\* The merger may run: all of its inputs exist.
AtMerge == pc = "done" /\ dirs # << >> /\ ToSet(dirs \o files) \subseteq DOMAIN disk

\* Whether the source at place i is a directory, its places, and what it has there.
IsDir(i) == rule.plugins[i].directory

PlacesOf(i) == 1 .. Len(PluginOutputs(rule.plugins[i]))

FileAt(i, k) == Generated(rule.plugins[i])[k]

\* A file that is merged has a path.
LEMMA GeneratedPath ==
  ASSUME IInv, pc = "done", NEW p \in Ran, NEW f \in ToSet(Generated(p))
  PROVE  PathOf(f) \in FilePath
<1>1. rule \in Rules
  BY DEF IInv, PointInv
<1>2. PICK i \in 1 .. Len(rule.plugins) : p = rule.plugins[i]
  BY <1>1, RanFacts
<1>3. i \in DOMAIN rule.plugins
  BY <1>1, SourcesFacts
<1>4. /\ \A proto \in UNION {ToSet(protos) : protos \in ToSet(rule.protos)}, pattern \in ToSet(p.outputs) :
           PathOf(Premerge(OutputName[proto, pattern])) \in FilePath
      /\ \A o \in p.out : PathOf(Premerge(o)) \in FilePath /\ PathOf(SrcJar(Premerge(o))) \in FilePath
  BY <1>1, <1>2, <1>3, NamesAssumption
<1>5. CASE f \in ToSet(PerProto(p))
  <2>1. IsSeq(p.outputs) /\ PerProto(p) = Declared(p, Protos(p))
    BY <1>1, <1>2, <1>3, RulesAssumption DEF IsSeq, PerProto
  <2>2. MadeFrom(f, p, Protos(p))
    BY <1>1, <1>5, <2>1, DeclaredFacts, ProtosFacts
  <2>3. PICK proto \in ToSet(Protos(p)), pattern \in ToSet(p.outputs) : f = Premerge(OutputName[proto, pattern])
    BY <2>2 DEF MadeFrom
  <2>4. proto \in UNION {ToSet(protos) : protos \in ToSet(rule.protos)}
    BY <1>1, SourcesFacts, ProtosFacts
  <2> QED
    BY <1>4, <2>3, <2>4
<1>6. CASE f \notin ToSet(PerProto(p))
  <2>1. PICK g \in ToSet(Out(p)) : f = IF IsJar(g) THEN SrcJar(g) ELSE g
    BY <1>1, <1>2, <1>6, PluginFacts
  <2>2. p.out # {}
    BY <2>1, OneFacts DEF Out
  <2>3. PICK o \in p.out : g = Premerge(o)
    BY <2>1, <2>2, OneFacts DEF Out
  <2> QED
    BY <1>4, <2>1, <2>3
<1> QED
  BY <1>5, <1>6

\* A directory that is merged: its plugin has run, and filled it.
LEMMA BroughtDir ==
  ASSUME BInv, AtMerge, NEW i \in RunAt, NEW p, p = rule.plugins[i], p.directory
  PROVE  /\ i \in DOMAIN HasWritten /\ HasWritten[i] \subseteq ToSet(TreeNames)
         /\ disk[OutputDir(p)].kind = "directory" /\ Brings(OutputDir(p)) = HasWritten[i]
         /\ \A g \in HasWritten[i] : Brought(OutputDir(p), g) = Written(p.label, g)
         /\ target.sources[i].label = p.label /\ target.sources[i].outs = TreeNames
         /\ target.sources[i].writes = "directory"
         /\ Promise!Has(target, HasWritten, i) = {k \in DOMAIN TreeNames : TreeNames[k] \in HasWritten[i]}
         /\ \A k \in DOMAIN TreeNames : target.sources[i].names[k] = TreeNames[k]
<1>1. /\ pc = "done" /\ SourcesFact /\ p \in Ran /\ target.sources[i] = SourceOf(p)
  BY SourcesAre DEF AtMerge, SourcesFact
<1>2. ~ p.template /\ OutputDirs(p) = <<OutputDir(p)>> /\ DirOf(p) = OutputDir(p)
  BY <1>1, Outputs DEF BInv, DirOf
<1>3. OutputDir(p) \in DOMAIN disk
  <2>1. OutputDir(p) \in ToSet(OutputDirs(p))
    BY <1>2, OneFacts
  <2>2. OutputDir(p) \in ToSet(dirs)
    BY <1>1, <2>1, EndFacts DEF BInv
  <2> QED
    BY <1>1, <2>2, FileOf DEF AtMerge
<1>4. ProtocOf(p) \in Finished
  <2>1. ProtocOf(p) \in actions /\ DirOf(p) \in ProtocOf(p).outputs
    BY <1>1, Registered, RunsFacts DEF BInv
  <2> QED
    BY <1>1, <1>2, <1>3, <2>1, OnDisk
<1>5. i \in DOMAIN HasWritten /\ HasWritten[i] = Wrote(SourceOf(p))
  BY <1>1, <1>4 DEF SourcesFact
<1>6. /\ HasWritten[i] \subseteq ToSet(Candidates(p))
      /\ disk[OutputDir(p)] = Tree([f \in HasWritten[i] |-> Written(p.label, f)])
  BY <1>1, <1>2, <1>4, <1>5, RunsFacts
<1>7. /\ disk[OutputDir(p)].kind = "directory"
      /\ disk[OutputDir(p)].tree = [f \in HasWritten[i] |-> Written(p.label, f)]
  BY <1>6 DEF Tree, Content
<1>8. /\ Brings(OutputDir(p)) = HasWritten[i]
      /\ \A g \in HasWritten[i] : Brought(OutputDir(p), g) = Written(p.label, g)
  BY <1>7 DEF Brings, Brought
<1>9. Candidates(p) = TreeNames /\ Called(p) = TreeNames
  BY DEF Candidates, Called
<1>10. /\ target.sources[i].label = p.label /\ target.sources[i].outs = TreeNames
       /\ target.sources[i].writes = "directory"
       /\ \A k \in DOMAIN TreeNames : target.sources[i].names[k] = TreeNames[k]
  <2>1. /\ SourceOf(p).label = p.label /\ SourceOf(p).outs = Candidates(p)
        /\ SourceOf(p).writes = "directory"
        /\ \A k \in DOMAIN Candidates(p) : SourceOf(p).names[k] = InTarget(Called(p)[k])
    BY <1>1, SourceFacts DEF BInv
  <2>2. \A f : InTarget(f) = f
    BY DEF InTarget, AtMerge
  <2> QED
    BY <1>1, <1>9, <2>1, <2>2
<1>11. Promise!Has(target, HasWritten, i) = {k \in DOMAIN TreeNames : TreeNames[k] \in HasWritten[i]}
  BY <1>10 DEF Promise!Has
<1> QED
  BY <1>5, <1>6, <1>7, <1>8, <1>9, <1>10, <1>11

\* A file that is merged.
LEMMA BroughtFile ==
  ASSUME BInv, AtMerge, NEW i \in RunAt, ~ IsDir(i), NEW k \in PlacesOf(i)
  PROVE  /\ i \in DOMAIN HasWritten
         /\ disk[FileAt(i, k)].kind # "directory" /\ Brings(FileAt(i, k)) = {FileAt(i, k)}
         /\ PathOf(FileAt(i, k)) \in FilePath
         /\ Plain(Brought(FileAt(i, k), FileAt(i, k))) = Promise!Content(target, HasWritten, i, k)
         /\ target.sources[i].writes # "directory"
         /\ Promise!Has(target, HasWritten, i) = PlacesOf(i)
         /\ target.sources[i].names[k] = FileAt(i, k)
<1> DEFINE p == rule.plugins[i]
           f == FileAt(i, k)
<1>0. p = rule.plugins[i] /\ ~ p.directory /\ k \in 1 .. Len(PluginOutputs(p)) /\ f = Generated(p)[k]
      /\ PlacesOf(i) = 1 .. Len(PluginOutputs(p))
  BY DEF IsDir, PlacesOf, FileAt
<1> HIDE DEF p, f
<1>1. pc = "done" /\ p \in Ran
  BY <1>0, SourcesAre DEF AtMerge, SourcesFact
<1>2. f \in ToSet(Generated(p))
  BY <1>0, <1>1, IndexFacts DEF BInv, ToSet
<1>3. f \in DOMAIN disk
  <2>1. f \in ToSet(files)
    BY <1>1, <1>2, EndFacts DEF BInv
  <2> QED
    BY <1>1, <2>1, FileOf DEF AtMerge
<1>4. disk[f] = Written(p.label, PluginOutputs(p)[k]) \/ disk[f] = Template(p.label, PluginOutputs(p)[k])
  BY <1>0, <1>1, <1>3, FileFacts
<1>5. disk[f].kind # "directory"
  BY <1>4 DEF Written, Template, Content
<1>6. Brings(f) = {f} /\ Brought(f, f) = disk[f]
  BY <1>5 DEF Brings, Brought
<1>7. i \in DOMAIN HasWritten /\ Plain(disk[f]) = Promise!Content(target, HasWritten, i, k)
  BY <1>0, <1>1, <1>3, ContentFacts
<1>8. PathOf(f) \in FilePath
  BY <1>1, <1>2, GeneratedPath DEF BInv
<1>9. /\ target.sources[i].writes # "directory"
      /\ Promise!Has(target, HasWritten, i) = 1 .. Len(PluginOutputs(p))
      /\ \A l \in 1 .. Len(PluginOutputs(p)) : target.sources[i].names[l] = InTarget(Generated(p)[l])
  BY <1>0, <1>1, NamedFacts
<1>10. \A g : InTarget(g) = g
  BY DEF InTarget, AtMerge
<1> QED
  BY <1>0, <1>5, <1>6, <1>7, <1>8, <1>9, <1>10 DEF f

-----------------------------------------------------------------------------
(* Which line of the manifest is of which source: dl gives that of a directory, *)
(* fl that of each file.                                                        *)

Joined == dirs \o files

\* The line dl[i] is that of directory i, and fl[i][k] that of output k of source i.
LinesPlaced(dl, fl) ==
  /\ \A i \in RunAt : IsDir(i) => dl[i] \in 1 .. Len(dirs) /\ Joined[dl[i]] = OutputDir(rule.plugins[i])
  /\ \A i, j \in RunAt : IsDir(i) /\ IsDir(j) /\ i < j => dl[i] < dl[j]
  /\ \A y \in 1 .. Len(dirs) : \E i \in RunAt : IsDir(i) /\ dl[i] = y
  /\ \A i \in RunAt : ~ IsDir(i) => \A k \in PlacesOf(i) :
       fl[i][k] \in Len(dirs) + 1 .. Len(Joined) /\ Joined[fl[i][k]] = FileAt(i, k)
  /\ \A i, j \in RunAt : ~ IsDir(i) /\ ~ IsDir(j) => \A k \in PlacesOf(i), l \in PlacesOf(j) :
       fl[i][k] = fl[j][l] => i = j /\ k = l
  /\ \A y \in Len(dirs) + 1 .. Len(Joined) : \E i \in RunAt : \E k \in PlacesOf(i) : ~ IsDir(i) /\ fl[i][k] = y

\* The lines of directories come before those of files.
LEMMA JoinedFacts ==
  ASSUME BInv, pc = "done"
  PROVE  /\ Len(dirs) \in Nat /\ Len(files) \in Nat /\ Len(Joined) = Len(dirs) + Len(files)
         /\ \A y \in 1 .. Len(Joined) : Joined[y] = IF y <= Len(dirs) THEN dirs[y] ELSE files[y - Len(dirs)]
         /\ IsSeq(Joined) /\ ToSet(Joined) = {Joined[y] : y \in 1 .. Len(Joined)}
<1>1. IsSeq(dirs) /\ IsSeq(files)
  BY DEF BInv, IInv, FilesInv
<1> DEFINE S == ToSet(dirs) \cup ToSet(files)
<1>2. dirs \in Seq(S) /\ files \in Seq(S)
  <2>1. dirs \in Seq(ToSet(dirs)) /\ files \in Seq(ToSet(files))
    BY <1>1 DEF IsSeq
  <2> QED
    BY <2>1
<1> HIDE DEF S
<1>3. /\ Len(dirs \o files) = Len(dirs) + Len(files)
      /\ \A y \in 1 .. Len(dirs) + Len(files) :
           (dirs \o files)[y] = IF y <= Len(dirs) THEN dirs[y] ELSE files[y - Len(dirs)]
  BY <1>2, ConcatProperties
<1>4. Len(dirs) \in Nat /\ Len(files) \in Nat
  BY <1>2
<1>5. IsSeq(dirs \o files)
  BY <1>1, ConcatFacts
<1>6. ToSet(dirs \o files) = {(dirs \o files)[y] : y \in 1 .. Len(dirs \o files)}
  BY <1>5, SeqFacts DEF IsSeq
<1> QED
  BY <1>3, <1>4, <1>5, <1>6 DEF Joined

\* Every source has its lines, from where PlacedInv says that its outputs are.
LEMMA LinesExist ==
  ASSUME BInv, AtMerge
  PROVE  \E dl, fl : LinesPlaced(dl, fl)
<1>1. pc = "done" /\ Passed = Len(rule.plugins) /\ rule \in Rules
  BY DEF AtMerge, Passed, BInv, IInv, PointInv
<1>2. RunTo(Passed) = RunAt /\ RunAt \subseteq 1 .. Len(rule.plugins) /\ Len(rule.plugins) \in Nat
  BY <1>1, RunToFacts, SourcesFacts
<1>3. Placed(files, FilesOf(Passed)) /\ Placed(dirs, DirsOf(Passed))
  BY <1>1 DEF BInv, PlacedInv
<1>4. PICK pf : PlacedAt(pf, files, FilesOf(Passed))
  BY <1>3 DEF Placed
<1>5. PICK pd : PlacedAt(pd, dirs, DirsOf(Passed))
  BY <1>3 DEF Placed
<1>6. ASSUME NEW i \in RunAt
      PROVE  /\ i \in Nat /\ rule.plugins[i] \in Ran
             /\ i \in DOMAIN FilesOf(Passed) /\ i \in DOMAIN DirsOf(Passed)
             /\ IsDir(i) => /\ DirsOf(Passed)[i] = <<OutputDir(rule.plugins[i])>>
                            /\ Len(DirsOf(Passed)[i]) = 1
                            /\ DirsOf(Passed)[i][1] = OutputDir(rule.plugins[i])
                            /\ Len(FilesOf(Passed)[i]) = 0
             /\ ~ IsDir(i) => /\ Len(DirsOf(Passed)[i]) = 0
                              /\ FilesOf(Passed)[i] = Generated(rule.plugins[i])
                              /\ 1 .. Len(FilesOf(Passed)[i]) = PlacesOf(i)
                              /\ PlacesOf(i) \subseteq Nat
  <2> DEFINE p == rule.plugins[i]
  <2>1. i \in Nat /\ p \in Ran
    BY <1>2 DEF RunAt, Ran
  <2>2. /\ i \in DOMAIN FilesOf(Passed) /\ i \in DOMAIN DirsOf(Passed)
        /\ FilesOf(Passed)[i] = Generated(p) /\ DirsOf(Passed)[i] = OutputDirs(p)
    BY <1>2 DEF FilesOf, DirsOf
  <2>3. \A x : Len(<<x>>) = 1 /\ <<x>>[1] = x
    OBVIOUS
  <2>4. Len(<< >>) = 0
    OBVIOUS
  <2> HIDE DEF p
  <2>5. ASSUME p.directory
        PROVE  /\ OutputDirs(p) = <<OutputDir(p)>> /\ Len(OutputDirs(p)) = 1
               /\ OutputDirs(p)[1] = OutputDir(p) /\ Len(Generated(p)) = 0
    BY <1>1, <2>1, <2>3, <2>4, <2>5, Outputs DEF BInv
  <2>6. ASSUME ~ p.directory
        PROVE  /\ Len(OutputDirs(p)) = 0 /\ 1 .. Len(Generated(p)) = 1 .. Len(PluginOutputs(p))
               /\ Len(PluginOutputs(p)) \in Nat
    BY <1>1, <2>1, <2>4, <2>6, Outputs, IndexFacts DEF BInv
  <2> QED
    BY <2>1, <2>2, <2>5, <2>6 DEF p, IsDir, PlacesOf
<1>7. DOMAIN FilesOf(Passed) = RunAt /\ DOMAIN DirsOf(Passed) = RunAt
  BY <1>2 DEF FilesOf, DirsOf
<1> DEFINE d == Len(dirs)
           dl == [i \in RunAt |-> pd[i][1]]
           fl == [i \in RunAt |-> [k \in PlacesOf(i) |-> d + pf[i][k]]]
<1>8. /\ \A i \in RunAt : dl[i] = pd[i][1]
      /\ \A i \in RunAt : \A k \in PlacesOf(i) : fl[i][k] = d + pf[i][k]
  OBVIOUS
<1> HIDE DEF dl, fl
<1>9. /\ d \in Nat /\ Len(files) \in Nat /\ Len(Joined) = d + Len(files)
      /\ \A y \in 1 .. Len(Joined) : Joined[y] = IF y <= d THEN dirs[y] ELSE files[y - d]
  BY <1>1, JoinedFacts
<1>10. ASSUME NEW i \in RunAt, IsDir(i)
       PROVE  dl[i] \in 1 .. Len(dirs) /\ Joined[dl[i]] = OutputDir(rule.plugins[i])
  <2>1. pd[i][1] \in 1 .. d /\ dirs[pd[i][1]] = OutputDir(rule.plugins[i])
    <3>1. i \in DOMAIN DirsOf(Passed) /\ 1 \in 1 .. Len(DirsOf(Passed)[i])
      BY <1>6, <1>10
    <3> QED
      BY <1>5, <1>6, <1>10, <3>1 DEF PlacedAt
  <2> QED
    BY <1>8, <1>9, <2>1
<1>11. ASSUME NEW i \in RunAt, NEW j \in RunAt, IsDir(i), IsDir(j), i < j PROVE dl[i] < dl[j]
  <2>1. /\ i \in DOMAIN DirsOf(Passed) /\ 1 \in 1 .. Len(DirsOf(Passed)[i])
        /\ j \in DOMAIN DirsOf(Passed) /\ 1 \in 1 .. Len(DirsOf(Passed)[j])
    BY <1>6, <1>11
  <2>2. pd[i][1] < pd[j][1]
    BY <1>5, <1>11, <2>1 DEF PlacedAt
  <2> QED
    BY <1>8, <2>2
<1>12. ASSUME NEW y \in 1 .. Len(dirs) PROVE \E i \in RunAt : IsDir(i) /\ dl[i] = y
  <2>1. PICK i \in DOMAIN DirsOf(Passed) : \E k \in 1 .. Len(DirsOf(Passed)[i]) : pd[i][k] = y
    BY <1>5 DEF PlacedAt
  <2>2. PICK k \in 1 .. Len(DirsOf(Passed)[i]) : pd[i][k] = y
    BY <2>1
  <2>3. i \in RunAt
    BY <1>7, <2>1
  <2>4. IsDir(i) /\ k = 1
    <3>1. IsDir(i) => Len(DirsOf(Passed)[i]) = 1
      BY <1>6, <2>3
    <3>2. ~ IsDir(i) => Len(DirsOf(Passed)[i]) = 0
      BY <1>6, <2>3
    <3> QED
      BY <2>2, <3>1, <3>2
  <2> QED
    BY <1>8, <2>2, <2>3, <2>4
<1>13. ASSUME NEW i \in RunAt, ~ IsDir(i), NEW k \in PlacesOf(i)
       PROVE  /\ pf[i][k] \in 1 .. Len(files) /\ fl[i][k] = d + pf[i][k]
              /\ fl[i][k] \in Len(dirs) + 1 .. Len(Joined)
              /\ Joined[fl[i][k]] = FileAt(i, k)
  <2>1. /\ i \in DOMAIN FilesOf(Passed) /\ k \in 1 .. Len(FilesOf(Passed)[i])
        /\ FilesOf(Passed)[i] = Generated(rule.plugins[i])
    BY <1>6, <1>13
  <2>2. pf[i][k] \in 1 .. Len(files) /\ files[pf[i][k]] = Generated(rule.plugins[i])[k]
    BY <1>4, <2>1 DEF PlacedAt
  <2>3. fl[i][k] = d + pf[i][k]
    BY <1>8
  <2>4. fl[i][k] \in 1 .. Len(Joined) /\ ~ (fl[i][k] <= d) /\ fl[i][k] - d = pf[i][k] /\ fl[i][k] \in d + 1 .. Len(Joined)
    BY <1>9, <2>2, <2>3
  <2>5. Joined[fl[i][k]] = files[pf[i][k]]
    BY <1>9, <2>4
  <2> QED
    BY <2>2, <2>3, <2>4, <2>5 DEF FileAt
<1>14. ASSUME NEW i \in RunAt, NEW j \in RunAt, ~ IsDir(i), ~ IsDir(j),
              NEW k \in PlacesOf(i), NEW l \in PlacesOf(j), fl[i][k] = fl[j][l]
       PROVE  i = j /\ k = l
  <2>1. pf[i][k] = pf[j][l] /\ pf[i][k] \in Nat
    BY <1>9, <1>13, <1>14
  <2>2. /\ i \in DOMAIN FilesOf(Passed) /\ k \in 1 .. Len(FilesOf(Passed)[i]) /\ k \in Nat /\ i \in Nat
        /\ j \in DOMAIN FilesOf(Passed) /\ l \in 1 .. Len(FilesOf(Passed)[j]) /\ l \in Nat /\ j \in Nat
    BY <1>6, <1>14
  <2>3. ~ (i < j \/ (i = j /\ k < l)) /\ ~ (j < i \/ (j = i /\ l < k))
    <3>1. i < j \/ (i = j /\ k < l) => pf[i][k] < pf[j][l]
      BY <1>4, <2>2 DEF PlacedAt
    <3>2. j < i \/ (j = i /\ l < k) => pf[j][l] < pf[i][k]
      BY <1>4, <2>2 DEF PlacedAt
    <3> QED
      BY <2>1, <3>1, <3>2
  <2> QED
    BY <2>2, <2>3
<1>15. ASSUME NEW y \in Len(dirs) + 1 .. Len(Joined)
       PROVE  \E i \in RunAt : \E k \in PlacesOf(i) : ~ IsDir(i) /\ fl[i][k] = y
  <2>1. y - d \in 1 .. Len(files) /\ d + (y - d) = y
    BY <1>9
  <2>2. PICK i \in DOMAIN FilesOf(Passed) : \E k \in 1 .. Len(FilesOf(Passed)[i]) : pf[i][k] = y - d
    BY <1>4, <2>1 DEF PlacedAt
  <2>3. PICK k \in 1 .. Len(FilesOf(Passed)[i]) : pf[i][k] = y - d
    BY <2>2
  <2>4. i \in RunAt
    BY <1>7, <2>2
  <2>5. ~ IsDir(i) /\ k \in PlacesOf(i)
    BY <1>6, <2>3, <2>4
  <2> QED
    BY <1>8, <2>1, <2>3, <2>4, <2>5
<1>16. LinesPlaced(dl, fl)
  BY <1>10, <1>11, <1>12, <1>13, <1>14, <1>15 DEF LinesPlaced
<1> QED
  BY <1>16

-----------------------------------------------------------------------------

\* The paths of what each line brings.
Paths == [y \in 1 .. Len(Joined) |-> {PathOf(g) : g \in Brings(Joined[y])}]

\* What a line brings when the merger runs.
LEMMA LineFacts ==
  ASSUME BInv, AtMerge, NEW y \in 1 .. Len(Joined)
  PROVE  /\ \A g \in Brings(Joined[y]) : PathOf(g) \in FilePath
         /\ y <= Len(dirs) => disk[Joined[y]].kind = "directory" /\ Brings(Joined[y]) \subseteq ToSet(TreeNames)
         /\ y > Len(dirs) => disk[Joined[y]].kind # "directory" /\ Brings(Joined[y]) = {Joined[y]}
<1>1. PICK dl, fl : LinesPlaced(dl, fl)
  BY LinesExist
<1>2. Len(dirs) \in Nat /\ y \in Nat /\ Len(Joined) \in Nat
  BY JoinedFacts DEF AtMerge
<1>3. CASE y <= Len(dirs)
  <2>1. PICK i \in RunAt : IsDir(i) /\ dl[i] = y
    BY <1>1, <1>2, <1>3 DEF LinesPlaced
  <2>2. Joined[y] = OutputDir(rule.plugins[i])
    BY <1>1, <2>1 DEF LinesPlaced
  <2>3. disk[Joined[y]].kind = "directory" /\ Brings(Joined[y]) \subseteq ToSet(TreeNames)
    BY <2>1, <2>2, BroughtDir DEF IsDir
  <2>4. \A g \in ToSet(TreeNames) : PathOf(g) \in FilePath
    <3>1. ToSet(TreeNames) = {TreeNames[k] : k \in 1 .. Len(TreeNames)}
      BY TreeAssumption, SeqFacts
    <3> QED
      BY <3>1, TreeAssumption
  <2> QED
    BY <1>2, <1>3, <2>3, <2>4
<1>4. CASE y > Len(dirs)
  <2>1. PICK i \in RunAt : \E k \in PlacesOf(i) : ~ IsDir(i) /\ fl[i][k] = y
    BY <1>1, <1>2, <1>4 DEF LinesPlaced
  <2>2. PICK k \in PlacesOf(i) : ~ IsDir(i) /\ fl[i][k] = y
    BY <2>1
  <2>3. Joined[y] = FileAt(i, k)
    BY <1>1, <2>2 DEF LinesPlaced
  <2>4. disk[Joined[y]].kind # "directory" /\ Brings(Joined[y]) = {Joined[y]} /\ PathOf(Joined[y]) \in FilePath
    BY <2>2, <2>3, BroughtFile
  <2> QED
    BY <1>2, <1>4, <2>4
<1> QED
  BY <1>2, <1>3, <1>4

\* No name that is written in a directory stands in the way of another.
LEMMA TreeNamesFacts ==
  \A f, g \in ToSet(TreeNames) : Plan!Within(PathOf(f), PathOf(g)) => f = g
<1>1. ToSet(TreeNames) = {TreeNames[k] : k \in 1 .. Len(TreeNames)}
  BY TreeAssumption, SeqFacts
<1> QED
  BY <1>1, TreeAssumption

\* The manifest of the merger is of the form that the lemmas above are about.
LEMMA BuildLines ==
  ASSUME BInv, AtMerge
  PROVE  LinesAre(MergeLines(Joined), Len(dirs), Paths)
<1> DEFINE m == MergeLines(Joined)
           d == Len(dirs)
<1>1. Len(Joined) \in Nat /\ d \in 0 .. Len(Joined)
  BY JoinedFacts DEF AtMerge
<1>2. Len(m) = Len(Joined) /\ \A y \in 1 .. Len(Joined) : m[y] = MergeLine(Joined[y])
  <2>1. m = [y \in 1 .. Len(Joined) |-> MergeLine(Joined[y])]
    BY DEF MergeLines
  <2>2. DOMAIN m = 1 .. Len(Joined) /\ \A y \in 1 .. Len(Joined) : m[y] = MergeLine(Joined[y])
    BY <2>1
  <2>3. m = [y \in 1 .. Len(Joined) |-> m[y]]
    BY <2>1, <2>2
  <2> HIDE DEF m
  <2>4. Len(m) = Len(Joined)
    BY <1>1, <2>2, <2>3, FunctionFacts
  <2> QED
    BY <2>2, <2>4
<1> HIDE DEF m
<1>3. ASSUME NEW y \in 1 .. Len(Joined)
      PROVE  /\ Paths[y] \subseteq FilePath
             /\ m[y].kind = IF y <= d THEN "D" ELSE "F"
             /\ y > d => Paths[y] = {m[y].path}
             /\ \A p \in TreePath :
                  /\ Plan!Provides(m[y], p) \in {"file", "dir", "absent"}
                  /\ Plan!Provides(m[y], p) = "file" <=> p \in Paths[y]
                  /\ Plan!Provides(m[y], p) = "dir" <=>
                       p \notin Paths[y] /\ ((y <= d /\ p = << >>) \/ \E q \in Paths[y] : Plan!Above(p, q))
  <2> DEFINE f == Joined[y]
  <2>1. Paths[y] = {PathOf(g) : g \in Brings(f)} /\ Paths[y] \subseteq FilePath
    BY LineFacts DEF Paths
  <2>2. m[y] = MergeLine(f) /\ y \in Nat /\ d \in Nat
    BY <1>1, <1>2
  <2>3. CASE y <= d
    <3>1. disk[f].kind = "directory"
      BY <2>3, LineFacts
    <3>2. m[y] = [kind |-> "D", path |-> << >>, tree |-> TreeOf(Brings(f))]
      BY <2>2, <3>1 DEF MergeLine
    <3> DEFINE B == Brings(f)
    <3>3. m[y].kind = "D" /\ m[y].tree = TreeOf(B)
      BY <3>2
    <3> HIDE DEF B, f
    <3>4. ASSUME NEW p \in TreePath
          PROVE  TreeOf(B)[p] = IF \E g \in B : p = PathOf(g) THEN "file"
                                ELSE IF p = << >> \/ \E g \in B : Plan!Above(p, PathOf(g)) THEN "dir"
                                ELSE "absent"
      BY DEF TreeOf
    <3>5. \A p : Plan!Provides(m[y], p) = TreeOf(B)[p]
      BY <3>3 DEF Plan!Provides
    <3>6. Paths[y] = {PathOf(g) : g \in B}
      BY <2>1 DEF B
    <3>7. \A p : /\ p \in Paths[y] <=> \E g \in B : p = PathOf(g)
                 /\ (\E q \in Paths[y] : Plan!Above(p, q)) <=> \E g \in B : Plan!Above(p, PathOf(g))
      BY <3>6
    <3>8. \A p \in TreePath :
            /\ Plan!Provides(m[y], p) \in {"file", "dir", "absent"}
            /\ Plan!Provides(m[y], p) = "file" <=> p \in Paths[y]
            /\ Plan!Provides(m[y], p) = "dir" <=>
                 p \notin Paths[y] /\ (p = << >> \/ \E q \in Paths[y] : Plan!Above(p, q))
      BY <3>4, <3>5, <3>7
    <3> QED
      BY <2>1, <2>2, <2>3, <3>3, <3>8
  <2>4. CASE y > d
    <3>1. disk[f].kind # "directory" /\ Brings(f) = {f}
      BY <2>4, LineFacts
    <3>2. m[y] = [kind |-> "F", path |-> PathOf(f), tree |-> TreeOf({})]
      BY <2>2, <3>1 DEF MergeLine
    <3>3. m[y].kind = "F" /\ m[y].path = PathOf(f)
      BY <3>2
    <3> HIDE DEF f
    <3>4. Paths[y] = {PathOf(f)}
      BY <2>1, <3>1
    <3>5. \A p : Plan!Provides(m[y], p) = IF p = PathOf(f) THEN "file"
                                          ELSE IF Plan!Above(p, PathOf(f)) THEN "dir" ELSE "absent"
      BY <3>3 DEF Plan!Provides
    <3>6. \A p : (\E q \in Paths[y] : Plan!Above(p, q)) <=> Plan!Above(p, PathOf(f))
      BY <3>4
    <3>7. \A p : Plan!Above(p, PathOf(f)) => p # PathOf(f)
      BY DEF Plan!Above
    <3>8. \A p : /\ Plan!Provides(m[y], p) \in {"file", "dir", "absent"}
                 /\ Plan!Provides(m[y], p) = "file" <=> p \in Paths[y]
                 /\ Plan!Provides(m[y], p) = "dir" <=> p \notin Paths[y] /\ \E q \in Paths[y] : Plan!Above(p, q)
      BY <3>4, <3>5, <3>6, <3>7
    <3>9. ~ (y <= d)
      BY <2>2, <2>4
    <3> QED
      BY <2>1, <2>4, <3>3, <3>4, <3>8, <3>9
  <2> QED
    BY <2>2, <2>3, <2>4
<1>4. ASSUME NEW x \in 1 .. d, NEW y \in 1 .. d, NEW p \in Paths[x], NEW q \in Paths[y], Plan!Within(p, q)
      PROVE  p = q
  <2>1. x \in 1 .. Len(Joined) /\ y \in 1 .. Len(Joined) /\ x <= d /\ y <= d
    BY <1>1
  <2>2. PICK f \in Brings(Joined[x]) : p = PathOf(f)
    BY <2>1 DEF Paths
  <2>3. PICK g \in Brings(Joined[y]) : q = PathOf(g)
    BY <2>1 DEF Paths
  <2>4. f \in ToSet(TreeNames) /\ g \in ToSet(TreeNames)
    BY <2>1, <2>2, <2>3, LineFacts
  <2> QED
    BY <1>4, <2>2, <2>3, <2>4, TreeNamesFacts
<1>5. LinesAre(m, d, Paths)
  BY <1>1, <1>2, <1>3, <1>4 DEF LinesAre
<1> QED
  BY <1>5 DEF m

-----------------------------------------------------------------------------
(* The line that each output of a source has *)

\* The outputs that the source at place i has written.
HasAt(i) == Promise!Has(target, HasWritten, i)

\* The name under which one of them is delivered.
NameAt(i, k) == target.sources[i].names[k]

\* The line of the manifest that it is on.
LineOf(dl, fl, i, k) == IF IsDir(i) THEN dl[i] ELSE fl[i][k]

\* When the merger runs, every source has run.
LEMMA AllHaveRun ==
  ASSUME BInv, AtMerge
  PROVE  /\ DOMAIN HasWritten = RunAt /\ DOMAIN target.sources = RunAt /\ target.merged
         /\ \A i \in RunAt : IsDir(i) <=> target.sources[i].writes = "directory"
         /\ RunAt \subseteq Nat
<1>1. /\ DOMAIN target.sources = RunAt /\ target.merged /\ DOMAIN HasWritten \subseteq RunAt
  BY SourcesAre DEF AtMerge, SourcesFact
<1>2. ASSUME NEW i \in RunAt PROVE i \in DOMAIN HasWritten /\ (IsDir(i) <=> target.sources[i].writes = "directory")
  <2>1. CASE IsDir(i)
    BY <2>1, BroughtDir DEF IsDir
  <2>2. CASE ~ IsDir(i)
    <3>1. \E k : k \in PlacesOf(i)
      <4> DEFINE p == rule.plugins[i]
      <4>1. p \in Ran /\ ~ p.directory /\ pc = "done"
        BY <2>2, SourcesAre DEF AtMerge, SourcesFact, IsDir
      <4> HIDE DEF p
      <4>2. PluginOutputs(p) # << >> /\ IsSeq(PluginOutputs(p))
        BY <4>1, Outputs DEF BInv
      <4>3. PluginOutputs(p) \in Seq(ToSet(PluginOutputs(p)))
        BY <4>2 DEF IsSeq
      <4>4. 1 \in 1 .. Len(PluginOutputs(p))
        BY <4>2, <4>3
      <4> QED
        BY <4>4 DEF PlacesOf, p
    <3> QED
      BY <2>2, <3>1, BroughtFile
  <2> QED
    BY <2>1, <2>2
<1>3. RunAt \subseteq Nat
  BY DEF RunAt
<1> QED
  BY <1>1, <1>2, <1>3

\* What a source has written is brought by its line, with the content it wrote.
LEMMA Located ==
  ASSUME BInv, AtMerge, NEW dl, NEW fl, LinesPlaced(dl, fl),
         NEW i \in RunAt, NEW k \in HasAt(i), NEW y, y = LineOf(dl, fl, i, k)
  PROVE  /\ y \in 1 .. Len(Joined) /\ NameAt(i, k) \in Brings(Joined[y])
         /\ PathOf(NameAt(i, k)) \in Paths[y]
         /\ IsDir(i) <=> y <= Len(dirs)
         /\ IsDir(i) => y = dl[i]
         /\ ~ IsDir(i) => k \in PlacesOf(i) /\ y = fl[i][k]
         /\ Plain(Brought(Joined[y], NameAt(i, k))) = Promise!Content(target, HasWritten, i, k)
<1>1. Len(dirs) \in Nat /\ Len(Joined) \in Nat /\ Len(dirs) <= Len(Joined)
  BY JoinedFacts DEF AtMerge
<1>2. CASE IsDir(i)
  <2> DEFINE p == rule.plugins[i]
             d == OutputDir(p)
  <2>1. y = dl[i] /\ dl[i] \in 1 .. Len(dirs) /\ Joined[dl[i]] = d
    BY <1>2 DEF LineOf, LinesPlaced
  <2>2. /\ Brings(d) = HasWritten[i]
        /\ \A g \in HasWritten[i] : Brought(d, g) = Written(p.label, g)
        /\ target.sources[i].label = p.label /\ target.sources[i].outs = TreeNames
        /\ HasAt(i) = {j \in DOMAIN TreeNames : TreeNames[j] \in HasWritten[i]}
        /\ \A j \in DOMAIN TreeNames : target.sources[i].names[j] = TreeNames[j]
    BY <1>2, BroughtDir DEF IsDir, HasAt
  <2>3. k \in DOMAIN TreeNames /\ TreeNames[k] \in HasWritten[i] /\ NameAt(i, k) = TreeNames[k]
    BY <2>2 DEF NameAt
  <2>4. Promise!Content(target, HasWritten, i, k) = [by |-> p.label, of |-> TreeNames[k], filled |-> FALSE]
    BY <2>2, <2>3 DEF Promise!Content
  <2>5. Plain(Written(p.label, TreeNames[k])) = [by |-> p.label, of |-> TreeNames[k], filled |-> FALSE]
    BY PlainFacts
  <2>6. Plain(Brought(d, NameAt(i, k))) = Promise!Content(target, HasWritten, i, k)
    BY <2>2, <2>3, <2>4, <2>5
  <2> HIDE DEF d
  <2>7. y \in 1 .. Len(Joined) /\ y <= Len(dirs)
    BY <1>1, <2>1
  <2>8. NameAt(i, k) \in Brings(Joined[y])
    BY <2>1, <2>2, <2>3
  <2>9. PathOf(NameAt(i, k)) \in Paths[y]
    BY <2>7, <2>8 DEF Paths
  <2> QED
    BY <1>2, <2>1, <2>6, <2>7, <2>8, <2>9
<1>3. CASE ~ IsDir(i)
  <2>1. \A j \in PlacesOf(i) : HasAt(i) = PlacesOf(i)
    BY <1>3, BroughtFile DEF HasAt
  <2>2. k \in PlacesOf(i)
    <3>1. PICK j : j \in PlacesOf(i)
      <4> DEFINE p == rule.plugins[i]
      <4>1. p \in Ran /\ ~ p.directory /\ pc = "done"
        BY <1>3, SourcesAre DEF AtMerge, SourcesFact, IsDir
      <4> HIDE DEF p
      <4>2. PluginOutputs(p) # << >> /\ IsSeq(PluginOutputs(p))
        BY <4>1, Outputs DEF BInv
      <4>3. PluginOutputs(p) \in Seq(ToSet(PluginOutputs(p)))
        BY <4>2 DEF IsSeq
      <4>4. 1 \in 1 .. Len(PluginOutputs(p))
        BY <4>2, <4>3
      <4> QED
        BY <4>4 DEF PlacesOf, p
    <3> QED
      BY <2>1, <3>1
  <2>3. y = fl[i][k] /\ fl[i][k] \in Len(dirs) + 1 .. Len(Joined) /\ Joined[fl[i][k]] = FileAt(i, k)
    BY <1>3, <2>2 DEF LineOf, LinesPlaced
  <2>4. /\ NameAt(i, k) = FileAt(i, k) /\ Brings(FileAt(i, k)) = {FileAt(i, k)}
        /\ Plain(Brought(FileAt(i, k), FileAt(i, k))) = Promise!Content(target, HasWritten, i, k)
    BY <1>3, <2>2, BroughtFile DEF NameAt
  <2>5. y \in 1 .. Len(Joined) /\ ~ (y <= Len(dirs))
    BY <1>1, <2>3
  <2>6. NameAt(i, k) \in Brings(Joined[y])
    BY <2>3, <2>4
  <2>7. PathOf(NameAt(i, k)) \in Paths[y]
    BY <2>5, <2>6 DEF Paths
  <2> QED
    BY <1>3, <2>2, <2>3, <2>4, <2>5, <2>6, <2>7
<1> QED
  BY <1>2, <1>3

\* What a line brings was written by the source of the line.
LEMMA Giver ==
  ASSUME BInv, AtMerge, NEW dl, NEW fl, LinesPlaced(dl, fl),
         NEW y \in 1 .. Len(Joined), NEW g \in Brings(Joined[y])
  PROVE  \E i \in RunAt : \E k \in HasAt(i) : LineOf(dl, fl, i, k) = y /\ NameAt(i, k) = g
<1>1. Len(dirs) \in Nat /\ Len(Joined) \in Nat
  BY JoinedFacts DEF AtMerge
<1>2. CASE y <= Len(dirs)
  <2>1. y \in 1 .. Len(dirs)
    BY <1>1, <1>2
  <2>2. PICK i \in RunAt : IsDir(i) /\ dl[i] = y
    BY <2>1 DEF LinesPlaced
  <2>3. Joined[y] = OutputDir(rule.plugins[i])
    BY <2>2 DEF LinesPlaced
  <2>4. /\ g \in HasWritten[i] /\ HasWritten[i] \subseteq ToSet(TreeNames)
        /\ HasAt(i) = {j \in DOMAIN TreeNames : TreeNames[j] \in HasWritten[i]}
        /\ \A j \in DOMAIN TreeNames : target.sources[i].names[j] = TreeNames[j]
    BY <2>2, <2>3, BroughtDir DEF IsDir, HasAt
  <2>5. PICK k \in DOMAIN TreeNames : TreeNames[k] = g
    BY <2>4 DEF ToSet
  <2>6. k \in HasAt(i) /\ NameAt(i, k) = g /\ LineOf(dl, fl, i, k) = y
    BY <2>2, <2>4, <2>5 DEF NameAt, LineOf
  <2> QED
    BY <2>6
<1>3. CASE y > Len(dirs)
  <2>1. y \in Len(dirs) + 1 .. Len(Joined)
    BY <1>1, <1>3
  <2>2. PICK i \in RunAt : \E k \in PlacesOf(i) : ~ IsDir(i) /\ fl[i][k] = y
    BY <2>1 DEF LinesPlaced
  <2>3. PICK k \in PlacesOf(i) : ~ IsDir(i) /\ fl[i][k] = y
    BY <2>2
  <2>4. Joined[y] = FileAt(i, k)
    BY <2>3 DEF LinesPlaced
  <2>5. HasAt(i) = PlacesOf(i) /\ NameAt(i, k) = FileAt(i, k) /\ Brings(FileAt(i, k)) = {FileAt(i, k)}
    BY <2>3, BroughtFile DEF HasAt, NameAt
  <2>6. k \in HasAt(i) /\ NameAt(i, k) = g /\ LineOf(dl, fl, i, k) = y
    BY <2>3, <2>4, <2>5 DEF LineOf
  <2> QED
    BY <2>6
<1> QED
  BY <1>1, <1>2, <1>3

\* A file has a line of its own, and directories have their lines in order.
LEMMA LinesApart ==
  ASSUME BInv, AtMerge, NEW dl, NEW fl, LinesPlaced(dl, fl),
         NEW i \in RunAt, NEW k \in HasAt(i), NEW j \in RunAt, NEW l \in HasAt(j)
  PROVE  /\ LineOf(dl, fl, i, k) = LineOf(dl, fl, j, l) => i = j /\ (IsDir(i) \/ k = l)
         /\ IsDir(i) /\ IsDir(j) /\ i < j => LineOf(dl, fl, i, k) < LineOf(dl, fl, j, l)
<1> DEFINE y == LineOf(dl, fl, i, k)
           z == LineOf(dl, fl, j, l)
<1>1. /\ IsDir(i) <=> y <= Len(dirs)
      /\ IsDir(i) => y = dl[i]
      /\ ~ IsDir(i) => k \in PlacesOf(i) /\ y = fl[i][k]
  BY Located
<1>2. /\ IsDir(j) <=> z <= Len(dirs)
      /\ IsDir(j) => z = dl[j]
      /\ ~ IsDir(j) => l \in PlacesOf(j) /\ z = fl[j][l]
  BY Located
<1>3. i \in Nat /\ j \in Nat
  BY AllHaveRun
<1> HIDE DEF y, z
<1>4. IsDir(i) /\ IsDir(j) /\ i < j => y < z
  BY <1>1, <1>2 DEF LinesPlaced
<1>5. IsDir(i) /\ IsDir(j) /\ j < i => z < y
  BY <1>1, <1>2 DEF LinesPlaced
<1>6. ASSUME y = z PROVE i = j /\ (IsDir(i) \/ k = l)
  <2>1. IsDir(i) <=> IsDir(j)
    BY <1>1, <1>2, <1>6
  <2>2. CASE IsDir(i)
    <3>1. y \in Nat
      <4>1. dl[i] \in 1 .. Len(dirs)
        BY <2>2 DEF LinesPlaced
      <4> QED
        BY <1>1, <2>2, <4>1
    <3>2. ~ (i < j) /\ ~ (j < i)
      BY <1>4, <1>5, <1>6, <2>1, <2>2, <3>1
    <3> QED
      BY <1>3, <2>2, <3>2
  <2>3. CASE ~ IsDir(i)
    <3>1. fl[i][k] = fl[j][l] /\ k \in PlacesOf(i) /\ l \in PlacesOf(j) /\ ~ IsDir(j)
      BY <1>1, <1>2, <1>6, <2>1, <2>3
    <3> QED
      BY <2>3, <3>1 DEF LinesPlaced
  <2> QED
    BY <2>2, <2>3
<1> QED
  BY <1>4, <1>6 DEF y, z

-----------------------------------------------------------------------------
(* The merger refuses what TargetBuild calls a conflict, and nothing else. *)

LEMMA JoinedLines ==
  ASSUME BInv, AtMerge
  PROVE  /\ Len(MergeLines(Joined)) = Len(Joined) /\ Len(Joined) \in Nat
         /\ Len(dirs) \in Nat /\ Len(dirs) <= Len(Joined)
<1>1. Len(Joined) \in Nat /\ Len(dirs) \in Nat /\ Len(dirs) <= Len(Joined)
  BY JoinedFacts DEF AtMerge
<1> DEFINE m == MergeLines(Joined)
<1>2. m = [y \in 1 .. Len(Joined) |-> MergeLine(Joined[y])]
  BY DEF MergeLines
<1>3. DOMAIN m = 1 .. Len(Joined)
  BY <1>2
<1>4. m = [y \in 1 .. Len(Joined) |-> m[y]]
  BY <1>2, <1>3
<1> HIDE DEF m
<1>5. Len(m) = Len(Joined)
  BY <1>1, <1>3, <1>4, FunctionFacts
<1> QED
  BY <1>1, <1>5 DEF m

\* The same, of the files that are in each other's way.
PairInWay(i, k, j, l) ==
  \/ Plan!Within(PathOf(NameAt(i, k)), PathOf(NameAt(j, l)))
  \/ Plan!Within(PathOf(NameAt(j, l)), PathOf(NameAt(i, k)))

\* Two outputs in each other's way, one of them a file, are a conflict of the target.
LEMMA ConflictPairs ==
  ASSUME BInv, AtMerge
  PROVE  Promise!Conflict(target, HasWritten) <=>
           \E i, j \in RunAt : ~ IsDir(i) /\ \E k \in HasAt(i), l \in HasAt(j) :
             (i # j \/ k # l) /\ PairInWay(i, k, j, l)
<1>1. DOMAIN HasWritten = RunAt /\ \A i \in RunAt : IsDir(i) <=> target.sources[i].writes = "directory"
  BY AllHaveRun
<1>2. Promise!Conflict(target, HasWritten) <=>
        \E i, j \in DOMAIN HasWritten :
          /\ target.sources[i].writes # "directory"
          /\ \E k \in HasAt(i), l \in HasAt(j) : (i # j \/ k # l) /\ PairInWay(i, k, j, l)
  BY DEF Promise!Conflict, HasAt, NameAt, InWay, PairInWay
<1> HIDE DEF HasWritten
<1> QED
  BY <1>1, <1>2

\* The merger finds a conflict exactly if the sources of the target have one.
LEMMA ConflictSame ==
  ASSUME BInv, AtMerge
  PROVE  Plan!HasConflict(MergeLines(Joined)) <=> Promise!Conflict(target, HasWritten)
<1> DEFINE m == MergeLines(Joined)
           d == Len(dirs)
<1>1. PICK dl, fl : LinesPlaced(dl, fl)
  BY LinesExist
<1>2. LinesAre(m, d, Paths)
  BY BuildLines
<1>3. Len(m) = Len(Joined) /\ Len(Joined) \in Nat /\ d \in Nat /\ d <= Len(Joined)
  BY JoinedLines
<1>4. ASSUME Plan!HasConflict(m) PROVE Promise!Conflict(target, HasWritten)
  <2>1. Clashes(m, d, Paths)
    BY <1>2, <1>4, ConflictClashes
  <2>2. PICK x \in 1 .. Len(Joined), y \in 1 .. Len(Joined) :
          /\ x < y /\ y > d
          /\ \E p \in Paths[x], q \in Paths[y] : Plan!Within(p, q) \/ Plan!Within(q, p)
    BY <1>3, <2>1 DEF Clashes
  <2>3. PICK p \in Paths[x], q \in Paths[y] : Plan!Within(p, q) \/ Plan!Within(q, p)
    BY <2>2
  <2>4. PICK f \in Brings(Joined[x]) : p = PathOf(f)
    BY <2>3 DEF Paths
  <2>5. PICK g \in Brings(Joined[y]) : q = PathOf(g)
    BY <2>3 DEF Paths
  <2>6. PICK j \in RunAt : \E l \in HasAt(j) : LineOf(dl, fl, j, l) = x /\ NameAt(j, l) = f
    BY <1>1, Giver
  <2>7. PICK l \in HasAt(j) : LineOf(dl, fl, j, l) = x /\ NameAt(j, l) = f
    BY <2>6
  <2>8. PICK i \in RunAt : \E k \in HasAt(i) : LineOf(dl, fl, i, k) = y /\ NameAt(i, k) = g
    BY <1>1, Giver
  <2>9. PICK k \in HasAt(i) : LineOf(dl, fl, i, k) = y /\ NameAt(i, k) = g
    BY <2>8
  <2>10. ~ IsDir(i)
    <3>1. IsDir(i) <=> y <= d
      BY <1>1, <2>9, Located
    <3> QED
      BY <1>3, <2>2, <3>1
  <2>11. i # j \/ k # l
    <3>1. LineOf(dl, fl, i, k) # LineOf(dl, fl, j, l)
      BY <1>3, <2>2, <2>7, <2>9
    <3> QED
      BY <3>1
  <2>12. PairInWay(i, k, j, l)
    BY <2>3, <2>4, <2>5, <2>7, <2>9 DEF PairInWay
  <2> QED
    BY <2>10, <2>11, <2>12, ConflictPairs
<1>5. ASSUME Promise!Conflict(target, HasWritten) PROVE Plan!HasConflict(m)
  <2>1. PICK i \in RunAt, j \in RunAt : ~ IsDir(i) /\ \E k \in HasAt(i), l \in HasAt(j) :
          (i # j \/ k # l) /\ PairInWay(i, k, j, l)
    BY <1>5, ConflictPairs
  <2>2. PICK k \in HasAt(i), l \in HasAt(j) : (i # j \/ k # l) /\ PairInWay(i, k, j, l)
    BY <2>1
  <2>3. PICK y : y = LineOf(dl, fl, i, k)
    OBVIOUS
  <2>4. PICK x : x = LineOf(dl, fl, j, l)
    OBVIOUS
  <2>5. y \in 1 .. Len(Joined) /\ PathOf(NameAt(i, k)) \in Paths[y] /\ (IsDir(i) <=> y <= d)
    BY <1>1, <2>3, Located
  <2>6. x \in 1 .. Len(Joined) /\ PathOf(NameAt(j, l)) \in Paths[x] /\ (IsDir(j) <=> x <= d)
    BY <1>1, <2>4, Located
  <2>7. x # y
    <3> SUFFICES ASSUME x = y PROVE FALSE
      OBVIOUS
    <3>1. LineOf(dl, fl, i, k) = LineOf(dl, fl, j, l)
      BY <2>3, <2>4
    <3>2. i = j /\ (IsDir(i) \/ k = l)
      BY <1>1, <3>1, LinesApart
    <3> QED
      BY <2>1, <2>2, <3>2
  <2>8. y > d /\ x \in Nat /\ y \in Nat
    BY <1>3, <2>1, <2>5, <2>6
  <2>9. Clashes(m, d, Paths)
    <3>1. CASE x < y
      BY <1>3, <2>2, <2>5, <2>6, <2>8, <3>1 DEF Clashes, PairInWay
    <3>2. CASE y < x
      <4>1. x > d
        BY <1>3, <2>8, <3>2
      <4> QED
        BY <1>3, <2>2, <2>5, <2>6, <3>2, <4>1 DEF Clashes, PairInWay
    <3> QED
      BY <2>7, <2>8, <3>1, <3>2
  <2> QED
    BY <1>2, <2>9, ClashConflicts
<1> QED
  BY <1>4, <1>5 DEF m

-----------------------------------------------------------------------------
(* What it makes is what TargetBuild calls the merged directory. *)

Unhindered == AtMerge /\ ~ Plan!HasConflict(MergeLines(Joined))

\* The line that a merged file comes from: the first that brings it.
FirstGives(y, g) ==
  /\ y \in 1 .. Len(Joined) /\ g \in Brings(Joined[y])
  /\ \A z \in 1 .. Len(Joined) : z < y => g \notin Brings(Joined[z])

\* The first line with a path is the first with the name of the file.
LEMMA FirstFact ==
  ASSUME BInv, Unhindered, NEW x \in 1 .. Len(Joined), NEW g \in Brings(Joined[x]),
         NEW y \in 1 .. Len(Joined), Plan!IsFirst(MergeLines(Joined), y, PathOf(g))
  PROVE  FirstGives(y, g) /\ y <= x /\ (x > Len(dirs) => x = y)
<1> DEFINE m == MergeLines(Joined)
           d == Len(dirs)
<1>1. AtMerge /\ LinesAre(m, d, Paths) /\ ~ Plan!HasConflict(m)
  BY BuildLines DEF Unhindered
<1>2. Len(m) = Len(Joined) /\ Len(Joined) \in Nat /\ d \in Nat /\ d <= Len(Joined)
  BY <1>1, JoinedLines
<1>3. PathOf(g) \in Paths[x] /\ PathOf(g) \in FilePath
  BY <1>1, LineFacts DEF Paths
<1> HIDE DEF m
<1>4. /\ PathOf(g) \in Paths[y] /\ y <= x /\ (x > d => x = y)
      /\ \A z \in 1 .. Len(Joined) : z < y => PathOf(g) \notin Paths[z]
  <2>1. Plan!IsFirst(m, y, PathOf(g)) /\ x \in 1 .. Len(m)
    BY <1>2 DEF m
  <2> QED
    BY <1>1, <1>2, <1>3, <2>1, FirstBrings
<1>5. \A z \in 1 .. Len(Joined) : z < y => g \notin Brings(Joined[z])
  BY <1>4 DEF Paths
<1>6. g \in Brings(Joined[y])
  <2>1. CASE x > d
    BY <1>4, <2>1
  <2>2. CASE x <= d
    <3>1. PICK h \in Brings(Joined[y]) : PathOf(g) = PathOf(h)
      BY <1>4 DEF Paths
    <3>2. y <= d
      BY <1>2, <1>4, <2>2
    <3>3. g \in ToSet(TreeNames) /\ h \in ToSet(TreeNames)
      BY <1>1, <2>2, <3>2, LineFacts
    <3>4. Plan!Within(PathOf(g), PathOf(h))
      BY <1>3, <3>1, PathFacts
    <3> QED
      BY <3>1, <3>3, <3>4, TreeNamesFacts
  <2> QED
    BY <1>2, <2>1, <2>2
<1> QED
  BY <1>4, <1>5, <1>6 DEF FirstGives

\* A merged file has the content that the first line with its name brings.
LEMMA MergedLine ==
  ASSUME BInv, Unhindered, NEW x \in 1 .. Len(Joined), NEW g \in Brings(Joined[x])
  PROVE  \E y \in 1 .. Len(Joined) :
           /\ FirstGives(y, g) /\ y <= x /\ (x > Len(dirs) => x = y)
           /\ Merged(Joined)[g] = Brought(Joined[y], g)
<1> DEFINE m == MergeLines(Joined)
           First(y) == Plan!IsFirst(m, y, PathOf(g))
           y == CHOOSE y \in 1 .. Len(Joined) : First(y)
<1>1. AtMerge /\ LinesAre(m, Len(dirs), Paths)
  BY BuildLines DEF Unhindered
<1>2. Len(m) = Len(Joined) /\ Len(Joined) \in Nat
  BY <1>1, JoinedLines
<1>3. PathOf(g) \in Paths[x] /\ PathOf(g) \in TreePath
  BY <1>1, LineFacts, PathFacts DEF Paths
<1>4. \E z \in 1 .. Len(Joined) : First(z)
  <2>1. Plan!Provides(m[x], PathOf(g)) = "file"
    BY <1>1, <1>2, <1>3 DEF LinesAre
  <2>2. Plan!Provides(m[x], PathOf(g)) # "absent" /\ Len(m) \in Nat /\ x \in 1 .. Len(m)
    BY <1>2, <2>1
  <2> HIDE DEF m
  <2>3. \E z \in 1 .. Len(m) : z <= x /\ Plan!IsFirst(m, z, PathOf(g))
    BY <2>2, FirstLine
  <2> QED
    BY <1>2, <2>3
<1>5. y \in 1 .. Len(Joined) /\ First(y)
  <2> HIDE DEF First
  <2> QED
    BY <1>4
<1>6. FirstGives(y, g) /\ y <= x /\ (x > Len(dirs) => x = y)
  BY <1>5, FirstFact
<1>7. Merged(Joined)[g] = Brought(Joined[y], g)
  <2>1. g \in UNION {Brings(Joined[i]) : i \in 1 .. Len(Joined)}
    OBVIOUS
  <2> QED
    BY <2>1 DEF Merged
<1> QED
  BY <1>5, <1>6, <1>7

\* The first source that gives a merged file gives it its content.
LEMMA SourceLine ==
  ASSUME BInv, Unhindered, NEW g, NEW i \in RunAt, NEW k \in HasAt(i), NameAt(i, k) = g,
         \A j \in RunAt : j < i => \A l \in HasAt(j) : NameAt(j, l) # g
  PROVE  /\ g \in UNION {Brings(Joined[y]) : y \in 1 .. Len(Joined)}
         /\ Plain(Merged(Joined)[g]) = Promise!Content(target, HasWritten, i, k)
<1>0. AtMerge
  BY DEF Unhindered
<1>1. PICK dl, fl : LinesPlaced(dl, fl)
  BY <1>0, LinesExist
<1>2. PICK x : x = LineOf(dl, fl, i, k)
  OBVIOUS
<1>3. /\ x \in 1 .. Len(Joined) /\ g \in Brings(Joined[x])
      /\ IsDir(i) <=> x <= Len(dirs)
      /\ Plain(Brought(Joined[x], g)) = Promise!Content(target, HasWritten, i, k)
  BY <1>0, <1>1, <1>2, Located
<1>4. PICK y \in 1 .. Len(Joined) :
        /\ FirstGives(y, g) /\ y <= x /\ (x > Len(dirs) => x = y)
        /\ Merged(Joined)[g] = Brought(Joined[y], g)
  BY <1>3, MergedLine
<1>5. Len(Joined) \in Nat /\ Len(dirs) \in Nat /\ RunAt \subseteq Nat
  BY <1>0, JoinedLines, AllHaveRun
<1>6. x = y
  <2>1. CASE x > Len(dirs)
    BY <1>4, <2>1
  <2>2. CASE x <= Len(dirs)
    <3>1. PICK j \in RunAt : \E l \in HasAt(j) : LineOf(dl, fl, j, l) = y /\ NameAt(j, l) = g
      <4>1. g \in Brings(Joined[y])
        BY <1>4 DEF FirstGives
      <4> QED
        BY <1>0, <1>1, <4>1, Giver
    <3>2. PICK l \in HasAt(j) : LineOf(dl, fl, j, l) = y /\ NameAt(j, l) = g
      BY <3>1
    <3>3. IsDir(i) /\ IsDir(j)
      <4>1. IsDir(j) <=> y <= Len(dirs)
        BY <1>0, <1>1, <3>2, Located
      <4> QED
        BY <1>3, <1>4, <1>5, <2>2, <4>1
    <3>4. ~ (j < i)
      BY <3>2
    <3>5. CASE i = j
      <4>1. x = dl[i] /\ y = dl[j]
        BY <1>2, <3>2, <3>3 DEF LineOf
      <4> QED
        BY <3>5, <4>1
    <3>6. CASE i < j
      <4>1. x < y
        BY <1>0, <1>1, <1>2, <3>2, <3>3, <3>6, LinesApart
      <4> QED
        BY <1>3, <1>4, <1>5, <4>1
    <3> QED
      BY <1>5, <3>4, <3>5, <3>6
  <2>3. x \in Nat
    BY <1>3, <1>5
  <2>4. x > Len(dirs) \/ x <= Len(dirs)
    BY <1>5, <2>3
  <2> QED
    BY <2>1, <2>2, <2>4
<1> QED
  BY <1>3, <1>4, <1>6

\* The merged directory is that of TargetBuild: the first source with a name wins.
LEMMA MergedSame ==
  ASSUME BInv, Unhindered
  PROVE  PlainAll(Merged(Joined)) = Promise!Merged(target, HasWritten)
<1> DEFINE L == PlainAll(Merged(Joined))
           R == Promise!Merged(target, HasWritten)
           N == UNION {Brings(Joined[y]) : y \in 1 .. Len(Joined)}
           NamesAt(i) == {NameAt(i, k) : k \in HasAt(i)}
           G == UNION {NamesAt(i) : i \in RunAt}
           from(g) == CHOOSE i \in RunAt : g \in NamesAt(i) /\ \A j \in RunAt : j < i => g \notin NamesAt(j)
           place(g) == CHOOSE k \in HasAt(from(g)) : NameAt(from(g), k) = g
<1>1. AtMerge
  BY DEF Unhindered
<1>2. L = [g \in N |-> Plain(Merged(Joined)[g])]
  BY DEF PlainAll, Merged
<1>3. R = [g \in G |-> Promise!Content(target, HasWritten, from(g), place(g))]
  <2> DEFINE F(D) ==
        [g \in UNION {NamesAt(i) : i \in D} |->
           LET i == CHOOSE i \in D : g \in NamesAt(i) /\ \A j \in D : j < i => g \notin NamesAt(j)
           IN Promise!Content(target, HasWritten, i, CHOOSE k \in HasAt(i) : NameAt(i, k) = g)]
  <2>1. R = F(DOMAIN HasWritten)
    BY Zenon DEF Promise!Merged, Promise!Gives, HasAt, NameAt
  <2>2. DOMAIN HasWritten = RunAt
    BY <1>1, AllHaveRun
  <2>3. F(RunAt) = [g \in G |-> Promise!Content(target, HasWritten, from(g), place(g))]
    BY Zenon
  <2> HIDE DEF F, R
  <2>4. R = F(RunAt)
    BY <2>1, <2>2
  <2> QED
    BY <2>3, <2>4
<1>4. ASSUME NEW g \in G
      PROVE  /\ from(g) \in RunAt /\ place(g) \in HasAt(from(g)) /\ NameAt(from(g), place(g)) = g
             /\ \A j \in RunAt : j < from(g) => g \notin NamesAt(j)
  <2>1. \E i \in RunAt : g \in NamesAt(i) /\ \A j \in RunAt : j < i => g \notin NamesAt(j)
    <3> DEFINE S == {i \in RunAt : g \in NamesAt(i)}
    <3>1. S \in SUBSET Nat /\ S # {}
      BY <1>1, AllHaveRun
    <3> HIDE DEF S
    <3>2. PICK i \in S : \A j \in S : i <= j
      BY <3>1, Least
    <3>3. i \in RunAt /\ g \in NamesAt(i) /\ \A j \in RunAt : g \in NamesAt(j) => i <= j
      BY <3>2 DEF S
    <3>4. RunAt \subseteq Nat
      BY <1>1, AllHaveRun
    <3> HIDE DEF NamesAt
    <3>5. ASSUME NEW j \in RunAt, j < i PROVE g \notin NamesAt(j)
      BY <3>3, <3>4, <3>5
    <3> QED
      BY <3>3, <3>5
  <2>2. from(g) \in RunAt /\ g \in NamesAt(from(g)) /\ \A j \in RunAt : j < from(g) => g \notin NamesAt(j)
    <3> HIDE DEF NamesAt
    <3> QED
      BY <2>1, Zenon
  <2>3. \E k \in HasAt(from(g)) : NameAt(from(g), k) = g
    <3> HIDE DEF from
    <3> QED
      BY <2>2
  <2>4. place(g) \in HasAt(from(g)) /\ NameAt(from(g), place(g)) = g
    <3> HIDE DEF from
    <3> QED
      BY <2>3
  <2> QED
    BY <2>2, <2>4
<1>5. ASSUME NEW g \in G
      PROVE  g \in N /\ Plain(Merged(Joined)[g]) = Promise!Content(target, HasWritten, from(g), place(g))
  <2>1. /\ from(g) \in RunAt /\ place(g) \in HasAt(from(g)) /\ NameAt(from(g), place(g)) = g
        /\ \A j \in RunAt : j < from(g) => \A l \in HasAt(j) : NameAt(j, l) # g
    <3> HIDE DEF from, place
    <3> QED
      BY <1>4
  <2> HIDE DEF from, place
  <2> QED
    BY <2>1, SourceLine
<1>6. N \subseteq G
  <2> SUFFICES ASSUME NEW y \in 1 .. Len(Joined), NEW g \in Brings(Joined[y]) PROVE g \in G
    OBVIOUS
  <2>1. PICK dl, fl : LinesPlaced(dl, fl)
    BY <1>1, LinesExist
  <2>2. PICK i \in RunAt : \E k \in HasAt(i) : LineOf(dl, fl, i, k) = y /\ NameAt(i, k) = g
    BY <1>1, <2>1, Giver
  <2> QED
    BY <2>2
<1> HIDE DEF L, R, N, G, from, place
<1>7. N = G
  BY <1>5, <1>6
<1> QED
  BY <1>2, <1>3, <1>5, <1>7 DEF L, R

-----------------------------------------------------------------------------
(* Every action that Bazel runs is a step of TargetBuild, or is not seen. *)

LEMMA NotFinal ==
  ASSUME NEW a
  PROVE  /\ a.kind # "copy" => ~ \E f \in ToSet(files) : a = Copy(f, Destination(f))
         /\ a.kind # "merger" => a # Merging
<1>1. Merging.kind = "merger"
  BY Fields
<1>2. \A f, g : Copy(f, g).kind = "copy"
  BY Fields
<1> QED
  BY <1>1, <1>2

\* The merger delivers the directory, or the build fails of a conflict.
LEMMA MergerImplements ==
  ASSUME BInv, BInv', NEW a, RunMerger(a)
  PROVE  Promise!DeliverMerged(target, HasWritten) \/ Promise!Break(target, HasWritten)
<1>1. /\ Ready(a) /\ a = Merging /\ dirs # << >> /\ ToSet(Joined) \subseteq DOMAIN disk
      /\ IF Plan!HasConflict(MergeLines(Joined))
         THEN Break(a, "conflict")
         ELSE Succeed(a, [d \in {MergedDir} |-> Tree(Merged(Joined))])
  BY MergerEffect DEF Joined
<1>2. a.kind = "merger" /\ a.outputs = {MergedDir}
  BY <1>1, Fields
<1>3. AtMerge /\ pc = "done"
  BY <1>1 DEF AtMerge, Ready, Joined
<1>4. target.merged /\ DOMAIN HasWritten = DOMAIN target.sources
  BY <1>3, AllHaveRun
<1>5. CASE Plan!HasConflict(MergeLines(Joined))
  <2>1. Promise!Conflict(target, HasWritten)
    BY <1>3, <1>5, ConflictSame
  <2>2. Promise!MayFail(target, HasWritten, a.plugin, "conflict")
    BY <1>4, <2>1 DEF Promise!MayFail
  <2> QED
    BY <1>1, <1>5, <2>2, BreakImplements
<1>6. CASE ~ Plan!HasConflict(MergeLines(Joined))
  <2> DEFINE c == [d \in {MergedDir} |-> Tree(Merged(Joined))]
  <2>1. DOMAIN c = a.outputs /\ Succeed(a, c) /\ c[MergedDir] = Tree(Merged(Joined))
    BY <1>1, <1>2, <1>6
  <2> HIDE DEF c
  <2>2. UNCHANGED analysisVars /\ UNCHANGED target /\ broken' = broken
    BY <2>1 DEF Succeed
  <2>3. dirs' = dirs /\ MergedDir' = MergedDir
    BY <2>2, SameAnalysis DEF analysisVars
  <2>4. MergedDir \notin DOMAIN disk /\ MergedDir \in DOMAIN disk' /\ disk'[MergedDir] = Tree(Merged(Joined))
    <3>1. /\ DOMAIN disk' = DOMAIN disk \cup a.outputs
          /\ \A f \in DOMAIN disk : f \notin a.outputs
          /\ \A f \in a.outputs : disk'[f] = c[f]
      BY <1>1, <2>1, Frame
    <3> QED
      BY <1>2, <2>1, <3>1
  <2>5. Delivered = Promise!Nothing
    BY <1>1, <2>4 DEF Delivered, Empty, Promise!Nothing
  <2>6. disk'[MergedDir].tree = Merged(Joined)
    BY <2>4 DEF Tree, Content
  <2>7. Delivered' = PlainAll(Merged(Joined))
    <3>1. Delivered' = PlainAll(disk'[MergedDir].tree)
      BY <1>1, <2>3, <2>4 DEF Delivered, PlainAll, Plain
    <3> QED
      BY <2>6, <3>1
  <2>8. Delivered' = Promise!Merged(target, HasWritten)
    BY <1>3, <1>6, <2>7, MergedSame DEF Unhindered
  <2>9. ~ Promise!Conflict(target, HasWritten)
    BY <1>3, <1>6, ConflictSame
  <2>10. HasWritten' = HasWritten
    BY <1>1, <1>2, <2>1, WrittenAfter
  <2>11. Stage' = Stage /\ target' = target /\ Faults' = Faults
    BY <1>3, <2>2, SamePromise DEF Faults
  <2> QED
    BY <1>4, <2>5, <2>8, <2>9, <2>10, <2>11 DEF Promise!DeliverMerged
<1> QED
  BY <1>5, <1>6

\* A run of protoc is the run of a source, or the build fails.
LEMMA ProtocImplements ==
  ASSUME BInv, BInv', NEW a, RunProtoc(a)
  PROVE  Promise!Run(target, HasWritten) \/ Promise!Break(target, HasWritten)
<1>1. PICK p \in Ran :
        /\ Ready(a) /\ a = ProtocOf(p)
        /\ \/ Break(a, "twice") /\ ~ IsInjective(Candidates(p))
           \/ Break(a, "missing") /\ ~ p.directory /\ ~ p.template
           \/ \E c : DOMAIN c = a.outputs /\ Succeed(a, c)
  <2>1. \E p \in Ran :
           /\ Ready(a) /\ a = ProtocOf(p)
           /\ \/ Break(a, "twice") /\ ~ IsInjective(Candidates(p))
              \/ Break(a, "missing") /\ ~ p.directory /\ ~ p.template
              \/ \E c : /\ DOMAIN c = a.outputs /\ Succeed(a, c)
                        /\ IF p.directory \/ p.template
                           THEN \E names \in SUBSET ToSet(Candidates(p)) :
                                  c[DirOf(p)] = Tree([f \in names |-> Written(p.label, f)])
                           ELSE \A f \in ToSet(PluginOutputs(p)) : c[f] = Written(p.label, f)
    BY ProtocEffect
  <2> QED
    BY <2>1, Zenon
<1>2. pc = "done" /\ a \notin ran /\ a \notin Finished
  BY <1>1 DEF Ready, Finished
<1>3. a.kind = "protoc" /\ a.plugin = p.label
  BY <1>1, Fields
<1>4. SourcesFact
  BY SourcesAre
<1>5. PICK i \in RunAt : rule.plugins[i] = p
  BY <1>2, <1>4 DEF SourcesFact
<1>6. i \in DOMAIN target.sources \ DOMAIN HasWritten /\ target.sources[i] = SourceOf(p)
  BY <1>1, <1>2, <1>4, <1>5 DEF SourcesFact
<1>7. /\ target.sources[i].label = a.plugin /\ target.sources[i].outs = Candidates(p)
      /\ target.sources[i].writes = "all" <=> ~ p.directory /\ ~ p.template
  BY <1>2, <1>3, <1>6, SourceFacts DEF BInv
<1>8. CASE Break(a, "twice") /\ ~ IsInjective(Candidates(p))
  <2>1. Promise!Repeats(target.sources[i])
    BY <1>7, <1>8, SameOperators
  <2>2. Promise!MayFail(target, HasWritten, a.plugin, "twice")
    BY <1>6, <1>7, <2>1, Zenon DEF Promise!MayFail
  <2> QED
    BY <1>1, <1>8, <2>2, BreakImplements
<1>9. CASE Break(a, "missing") /\ ~ p.directory /\ ~ p.template
  <2>1. target.sources[i].writes = "all"
    BY <1>7, <1>9
  <2>2. Promise!MayFail(target, HasWritten, a.plugin, "missing")
    BY <1>6, <1>7, <2>1, Zenon DEF Promise!MayFail
  <2> QED
    BY <1>1, <1>9, <2>2, BreakImplements
<1>10. CASE \E c : DOMAIN c = a.outputs /\ Succeed(a, c)
  <2>1. PICK c : DOMAIN c = a.outputs /\ Succeed(a, c)
    BY <1>10
  <2>2. a # Merging /\ ~ \E f \in ToSet(files) : a = Copy(f, Destination(f))
    BY <1>3, NotFinal
  <2>3. Delivered' = Delivered
    BY <1>1, <2>1, <2>2, DeliveredKept
  <2> QED
    BY <1>1, <2>1, <2>3, RunImplements
<1> QED
  BY <1>1, <1>8, <1>9, <1>10

\* The fixer changes nothing that TargetBuild sees, or fails.
LEMMA FixerImplements ==
  ASSUME BInv, BInv', NEW a, RunFixer(a)
  PROVE  UNCHANGED Promise!vars \/ Promise!Break(target, HasWritten)
<1>1. PICK p \in Ran :
        /\ Ready(a) /\ p.template /\ a = Fixed(p) /\ ProtocOf(p) \in Finished
        /\ \/ Break(a, "denied") /\ ~ IsInjective(PluginOutputs(p))
           \/ \E c : DOMAIN c = a.outputs /\ Succeed(a, c)
  <2>1. \E p \in Ran :
           /\ Ready(a) /\ p.template /\ a = Fixed(p) /\ ProtocOf(p) \in Finished
           /\ \/ Break(a, "denied") /\ ~ IsInjective(PluginOutputs(p))
              \/ \E c : /\ DOMAIN c = a.outputs /\ Succeed(a, c)
                        /\ \A f \in ToSet(PluginOutputs(p)) :
                             c[f] = Fix(p.label, disk[UnfixedDir(p)].tree, f)
    BY FixerEffect
  <2> QED
    BY <2>1, Zenon
<1>2. pc = "done"
  BY <1>1 DEF Ready
<1>3. a.kind = "fixer" /\ a.plugin = p.label
  BY <1>1, Fields
<1>4. CASE Break(a, "denied") /\ ~ IsInjective(PluginOutputs(p))
  <2>1. SourcesFact
    BY SourcesAre
  <2>2. PICK i \in RunAt : rule.plugins[i] = p
    BY <1>2, <2>1 DEF SourcesFact
  <2>3. i \in DOMAIN HasWritten /\ target.sources[i] = SourceOf(p)
    BY <1>1, <1>2, <2>1, <2>2 DEF SourcesFact
  <2>4. ~ p.directory
    BY <1>1, <1>2, Outputs DEF BInv
  <2>5. /\ target.sources[i].label = a.plugin /\ target.sources[i].outs = PluginOutputs(p)
        /\ target.sources[i].writes = "template"
    BY <1>1, <1>2, <1>3, <2>3, <2>4, SourceFacts DEF BInv, Candidates
  <2>6. Promise!Repeats(target.sources[i])
    BY <1>4, <2>5, SameOperators
  <2>7. Promise!MayFail(target, HasWritten, a.plugin, "denied")
    BY <2>3, <2>5, <2>6, Zenon DEF Promise!MayFail
  <2> QED
    BY <1>1, <1>4, <2>7, BreakImplements
<1>5. CASE \E c : DOMAIN c = a.outputs /\ Succeed(a, c)
  <2>1. PICK c : DOMAIN c = a.outputs /\ Succeed(a, c)
    BY <1>5
  <2>2. a # Merging /\ a.kind # "protoc" /\ ~ \E f \in ToSet(files) : a = Copy(f, Destination(f))
    BY <1>3, NotFinal
  <2> QED
    BY <1>1, <2>1, <2>2, SilentImplements
<1> QED
  BY <1>1, <1>4, <1>5

\* A copy delivers a file, or is that of a jar, which TargetBuild does not see.
LEMMA CopyImplements ==
  ASSUME BInv, BInv', NEW a, RunCopy(a)
  PROVE  UNCHANGED Promise!vars \/ Promise!Deliver(target, HasWritten)
<1>1. Ready(a) /\ a.kind = "copy"
  BY CopyEffect
<1>2. PICK g : a.inputs = {g} /\ g \in DOMAIN disk
  BY CopyEffect
<1>3. PICK c : /\ DOMAIN c = a.outputs /\ Succeed(a, c)
               /\ \A f \in a.inputs : \A h \in a.outputs : c[h] = disk[f]
  BY CopyEffect
<1>4. a # Merging /\ a.kind # "protoc"
  BY <1>1, NotFinal
<1>5. CASE dirs = << >> /\ \E f \in ToSet(files) : a = Copy(f, Destination(f))
  <2>1. PICK f \in ToSet(files) : a = Copy(f, Destination(f))
    BY <1>5
  <2>2. a.inputs = {f} /\ a.outputs = {Destination(f)}
    BY <2>1, Fields
  <2>3. f \in DOMAIN disk /\ c[Destination(f)] = disk[f]
    BY <1>2, <1>3, <2>2
  <2> QED
    BY <1>1, <1>3, <1>5, <2>1, <2>3, DeliverImplements
<1>6. CASE dirs = << >> => ~ \E f \in ToSet(files) : a = Copy(f, Destination(f))
  BY <1>1, <1>3, <1>4, <1>6, SilentImplements
<1> QED
  BY <1>5, <1>6

\* Every action of the build is a step of TargetBuild or none.
LEMMA ExecuteImplements ==
  ASSUME BInv, BInv', NEW a, Execute(a)
  PROVE  Promise!Build(target, HasWritten) \/ UNCHANGED Promise!vars
<1>1. CASE RunWrite(a)
  <2>1. Ready(a) /\ a.kind = "write"
    BY <1>1, WriteEffect
  <2>2. PICK c : DOMAIN c = a.outputs /\ Succeed(a, c)
    BY <1>1, WriteEffect
  <2>3. a # Merging /\ a.kind # "protoc" /\ ~ \E f \in ToSet(files) : a = Copy(f, Destination(f))
    BY <2>1, NotFinal
  <2> QED
    BY <2>1, <2>2, <2>3, SilentImplements
<1>2. CASE RunCopy(a)
  BY <1>2, CopyImplements DEF Promise!Build
<1>3. CASE RunProtoc(a)
  BY <1>3, ProtocImplements DEF Promise!Build
<1>4. CASE RunFixer(a)
  BY <1>4, FixerImplements DEF Promise!Build
<1>5. CASE RunMerger(a)
  BY <1>5, MergerImplements DEF Promise!Build
<1>6. CASE BreakTool(a)
  <2>1. Ready(a) /\ Break(a, "tool")
    BY <1>6 DEF BreakTool
  <2>2. Promise!MayFail(target, HasWritten, a.plugin, "tool")
    BY DEF Promise!MayFail
  <2> QED
    BY <2>1, <2>2, BreakImplements DEF Promise!Build
<1> QED
  BY <1>1, <1>2, <1>3, <1>4, <1>5, <1>6 DEF Execute

-----------------------------------------------------------------------------

\* Every step of the build is a step of TargetBuild or none.
LEMMA NextImplements ==
  ASSUME BInv, BInv', [Next]_vars
  PROVE  [Promise!Next]_(Promise!vars)
<1>1. CASE Analyse
  BY <1>1, AnalyseImplements DEF Promise!Next
<1>2. CASE \E a \in actions : Execute(a)
  <2>1. PICK a \in actions : Execute(a)
    BY <1>2
  <2>2. pc = "done"
    BY <2>1 DEF Execute, RunWrite, RunCopy, RunProtoc, RunFixer, RunMerger, BreakTool, Ready
  <2>3. Stage = "building"
    BY <2>2 DEF Stage
  <2>4. Promise!Build(target, HasWritten) \/ UNCHANGED Promise!vars
    BY <2>1, ExecuteImplements
  <2>5. Promise!Build(target, HasWritten) => Promise!Next
    BY <2>3, Zenon DEF Promise!Next
  <2> QED
    BY <2>4, <2>5
<1>3. CASE UNCHANGED vars
  <2>1. /\ pc' = pc /\ dirs' = dirs /\ rule' = rule /\ outputs' = outputs
        /\ disk' = disk /\ ran' = ran /\ broken' = broken /\ target' = target
    BY <1>3 DEF vars, execVars, analysisVars
  <2>2. MergedDir' = MergedDir
    BY <1>3, SameAnalysis DEF vars
  <2>3. \A s : RunsOf(s)' = RunsOf(s) /\ Wrote(s)' = Wrote(s)
    BY <2>1 DEF RunsOf, Wrote
  <2>4. HasWritten' = HasWritten
    BY <2>1, <2>3 DEF HasWritten
  <2>5. Stage' = Stage /\ Faults' = Faults
    BY <2>1 DEF Stage, Faults
  <2>6. Delivered' = Delivered
    BY <2>1, <2>2 DEF Delivered, PlainAll, Plain
  <2> QED
    BY <2>1, <2>4, <2>5, <2>6 DEF Promise!vars
<1> QED
  BY <1>1, <1>2, <1>3 DEF Next

\* In whatever order Bazel runs the actions, and whichever of them fail, the
\* build is one of TargetBuild: what the plugins wrote, each under the name and
\* with the template that its plugin gives it, delivered once, a merged name
\* from the first plugin that has it, and no refusal without a cause in them.
THEOREM BuildImplementsTarget == Spec => ImplementsTargetBuild
<1>1. Init => Promise!Init
  BY InitImplementsTarget
<1>2. BInv /\ BInv' /\ [Next]_vars => [Promise!Next]_(Promise!vars)
  BY NextImplements
<1> QED
  BY <1>1, <1>2, BuildInvariance, PTL DEF Spec, ImplementsTargetBuild, Promise!Spec

=============================================================================
