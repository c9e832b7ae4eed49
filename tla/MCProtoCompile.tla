--------------------------- MODULE MCProtoCompile ---------------------------
(***************************************************************************)
(* Instances of proto_compile: two plugins of every kind, on protos two of *)
(* which have the same base name, in every output mode; two keys of        *)
(* options of every kind; and the rules of all languages.                  *)
(***************************************************************************)
EXTENDS LanguageRules

\* A file of the main repository, whose libraries have the source root "." or
\* the directory of generated files; one of another repository; and one that a
\* library of another repository imports under another path.
Proto(dir, base, source_root, root, workspace_root) ==
  [dir |-> dir, base |-> base, proto_source_root |-> source_root, root |-> root,
   workspace_root |-> workspace_root]
InMain(dir, base) == Proto(dir, base, << >>, << >>, << >>)
bin == <<"bazel-out", "bin">>
OfGenerated(dir, base) == Proto(bin \o dir, base, bin, bin, << >>)
InOther(dir, base) == Proto(<<"external", "m">> \o dir, base, <<"external", "m">>, << >>, <<"external", "m">>)
Virtual(dir, base) ==
  LET source_root == bin \o <<"external", "m", "_virtual_imports", "l">>
  IN Proto(source_root \o dir, base, source_root, bin, <<"external", "m">>)

\* Protos: x in a and in b, and plugin.proto of google/protobuf/compiler.
ax == InMain(<<"a">>, "x")
bx == InMain(<<"b">>, "x")
gy == InMain(<<"google", "compiler">>, "y")

Plain(token, ext) == Pattern(token, "none", "", ext)

\* In a directory with a dash and a dot; names that end as outputs do; names
\* with words that Objective C writes in upper case; a well-known type.
root_x   == InMain(<< >>, "x")
x_grpc   == InMain(<< >>, "x_grpc")
guide    == InOther(<<"path-with.dots">>, "route_guide")
url      == OfGenerated(<<"a">>, "url")
http_2   == InMain(<<"a">>, "http_2")
any      == Virtual(<<"google", "protobuf">>, "any")

LibraryProtos == {<< <<root_x>> >>, << <<guide>> >>, << <<root_x, x_grpc>> >>, << <<any, ax>>, <<ax>> >>,
                  << <<ax>>, <<bx>> >>, << <<url>>, <<http_2, url>> >>}

Lower(text) == Part("lower", text)
Sign(text) == Part("sign", text)

MCWords == {"x", "y", "a", "b", "google", "compiler", "protobuf", "url", "any"}
MCSpelling ==
  [name \in MCWords |-> <<Lower(name)>>] @@
  ("x_grpc"         :> <<Lower("x"), Sign("_"), Lower("grpc")>>) @@
  ("route_guide"    :> <<Lower("route"), Sign("_"), Lower("guide")>>) @@
  ("http_2"         :> <<Lower("http"), Sign("_"), Part("digit", "2")>>) @@
  ("path-with.dots" :> <<Lower("path"), Sign("-"), Lower("with"), Sign("."), Lower("dots")>>)
MCCapital ==
  "x" :> "X" @@ "y" :> "Y" @@ "grpc" :> "Grpc" @@ "any" :> "Any" @@ "url" :> "Url" @@
  "http" :> "Http" @@ "route" :> "Route" @@ "guide" :> "Guide"
MCUpper == "url" :> "URL" @@ "http" :> "HTTP" @@ "https" :> "HTTPS"

Libraries == {r \in RulesInTable : r.name[3] = "library"}

doc_template_compile == Plugins(RuleNamed(<<"doc", "template", "compile">>))

\* The compile rules that no library is made with.
Documents ==
  {Plugins(r) : r \in {q \in RulesInTable :
     /\ q.name[3] = "compile" /\ q.name # <<"doc", "template", "compile">>
     /\ \A library \in Libraries : q # CompileRule(library)}}

MCPatterns ==
  {Plain("protopath", "h"), Plain("protopath", "cc"), Plain("basename", "cs")}
    \cup UNION {ToSet(plugin.outputs) : plugin \in AllPlugins}

MCOutputName ==
  [pair \in {ax, bx, gy, root_x, x_grpc, guide, url, http_2, any} \X MCPatterns |->
     OutputFilename(pair[1], pair[2])]

(***************************************************************************)
(* Labels: one is of a module under another repository version, so that    *)
(* the two have one apparent name; third is //p_q:plugin beside //p/q.     *)
(***************************************************************************)
MCLabels == {"first~1", "first~2", "third", "p/q", "p_q"} \cup {plugin.label : plugin \in AllPlugins}
MCKeys == {"@first", "first~1", "third", "unknown", "*"}
MCParse == [k \in MCKeys \cup {template_plugin.label} |-> k]
MCApparent == [l \in MCLabels |-> IF l \in {"first~1", "first~2"} THEN "@first" ELSE "@" \o l]
MCPluginId == [l \in MCLabels |-> IF l = "p/q" THEN "p_q" ELSE l]

NoName == {}
Named(base, ext) == {[dir |-> << >>, base |-> base, ext |-> ext]}

Shape(outs, out, directory, template, envClash) ==
  [outputs |-> outs, out |-> out, directory |-> directory, template |-> template,
   envClash |-> envClash]

MCShapes ==
  {Shape(<<Plain("protopath", "h"), Plain("protopath", "cc")>>, NoName, FALSE, FALSE, FALSE),
   Shape(<<Plain("protopath", "h")>>, NoName, FALSE, TRUE, FALSE),
   Shape(<<Plain("basename", "cs")>>, NoName, FALSE, TRUE, FALSE),
   Shape(<<>>, Named("t", "jar"), FALSE, FALSE, FALSE),
   Shape(<<>>, Named("t", "md"), FALSE, TRUE, FALSE),
   Shape(<<>>, NoName, TRUE, FALSE, FALSE),
   Shape(<<>>, Named("t", "md"), TRUE, FALSE, FALSE),
   Shape(<<>>, NoName, FALSE, FALSE, FALSE),
   Shape(<<Plain("protopath", "cc")>>, NoName, FALSE, FALSE, TRUE)}

MCPlugin(label, shape, exclusions) ==
  [label |-> label, exclusions |-> exclusions, options |-> <<"own">>,
   outputs |-> shape.outputs, out |-> shape.out, directory |-> shape.directory,
   template |-> shape.template, envClash |-> shape.envClash]

MCRule(protos, plugins, options, mode, prefix) ==
  [protos |-> protos, plugins |-> plugins, options |-> options, mode |-> mode, prefix |-> prefix,
   macro |-> NoMacro]

MCModes == {"PREFIXED", "NO_PREFIX", "NO_PREFIX_FLAT"}

MCProtos == {<< <<ax>> >>, << <<ax>>, <<ax, bx>> >>, << <<gy, ax>>, <<ax>> >>}

\* Nothing excluded, the directory a, the file y, and the directory google,
\* below which the files of google/compiler are.
MCExclusions == {{}, {<<"a">>}, {<<"y">>}, {<<"google">>}}

\* Two plugins of any kind, the second without exclusions.
PluginPairs ==
  {<<MCPlugin(l[1], s, x), MCPlugin(l[2], t, {})>> :
     l \in {<<"first~1", "third">>, <<"p/q", "p_q">>}, s \in MCShapes, t \in MCShapes,
     x \in MCExclusions}
  \cup {<<MCPlugin("third", s, x), MCPlugin("third", s, x)>> : s \in MCShapes, x \in MCExclusions}

MCOutputRules ==
  {MCRule(protos, plugins, << >>, mode, prefix) :
     protos \in MCProtos, plugins \in PluginPairs, mode \in MCModes, prefix \in {<< >>, <<"pre">>}}

\* Every pair of keys of options, on plugins two of which have one name.
MCOptionLists ==
  {<< >>} \cup {<<[key |-> k, opts |-> <<"one">>]>> : k \in MCKeys}
    \cup {<<[key |-> k[1], opts |-> <<"one">>], [key |-> k[2], opts |-> <<"two">>]>> :
            k \in {pair \in MCKeys \X MCKeys : pair[1] # pair[2]}}

MCOptionRules ==
  {MCRule(<< <<ax>> >>,
          [i \in 1..Len(labels) |->
             MCPlugin(labels[i],
                      Shape(<<>>, Named(labels[i], "md"), FALSE, FALSE, FALSE), {})],
          options, "PREFIXED", << >>) :
     labels \in {<<"first~1">>, <<"first~1", "third">>, <<"first~1", "first~2">>,
                 <<"first~2", "third">>, <<"first~1", "first~2", "third">>},
     options \in MCOptionLists}

\* The language rules, for every kind of proto and all arguments that matter.
MCLibraryRules ==
  {CompileTarget(library,
     [protos |-> protos, output_mode |-> mode, prefix_path |-> prefix, importpath |-> import,
      generate_pyi |-> pyi /\ "generate_pyi" \in library.heeds]) :
     library \in Libraries, protos \in LibraryProtos, mode \in MCModes,
     prefix \in {{}, {<<"pre">>}}, import \in {{}, {<<"example.com", "x">>}}, pyi \in BOOLEAN}

MCDocumentRules ==
  {MCRule(protos, plugins, << >>, mode, << >>) :
     protos \in LibraryProtos, plugins \in Documents, mode \in MCModes}
  \cup {MCRule(<< <<ax>> >>, doc_template_compile, TemplateOptions(options, <<"template", "t">>),
               "PREFIXED", << >>) :
          options \in {<< >>} \cup {<<[key |-> k, opts |-> <<"one">>]>> :
                                     k \in {Star, template_plugin.label}}}

MCRules == MCOutputRules \cup MCOptionRules \cup MCLibraryRules \cup MCDocumentRules
=============================================================================
