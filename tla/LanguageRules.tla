---------------------------- MODULE LanguageRules ----------------------------
(***************************************************************************)
(* The plugins of the languages, and their compile rules and library       *)
(* macros as rulegen generates them from the table.  A compile rule is     *)
(* proto_compile with a list of plugins.  A library macro makes the        *)
(* compile target, filters its outputs by extension, and passes them with  *)
(* the directories to look for them in to the library rule of the language.*)
(***************************************************************************)
EXTENDS ProtoCompile, OutputNames, Languages

-----------------------------------------------------------------------------
(* Plugins.  The options that they bring and the tools they run are left out. *)

google_protobuf == {<<"google", "protobuf">>}
google == {<<"google", "api">>, <<"google", "protobuf">>}

\* Whether a plugin has an empty_template.
Filled == TRUE

\* proto_plugin with outputs per proto, or with one whose name is {name}, which
\* is pb in this module, and an ending.
proto_plugin(label, exclusions, template, patterns) ==
  [label |-> label, exclusions |-> exclusions, options |-> << >>, outputs |-> patterns,
   out |-> {}, directory |-> FALSE, template |-> template, envClash |-> FALSE]

PluginWithOut(label, exclusions, ending, ext) ==
  [proto_plugin(label, exclusions, ~ Filled, << >>) EXCEPT
     !.out = {[dir |-> << >>, base |-> "pb" \o ending, ext |-> ext]}]

ByPath(suffix, ext) == Pattern("protopath", "none", suffix, ext)
Objc(suffix, ext)   == Pattern("protopath", "objc", suffix, ext)
Python(suffix, ext) == Pattern("protopath", "python", suffix, ext)
CSharp(suffix)      == Pattern("basename", "pascal", suffix, "cs")

cpp_plugin == proto_plugin("cpp:proto_plugin", google_protobuf, ~ Filled,
  <<ByPath(".pb", "h"), ByPath(".pb", "cc")>>)
cpp_grpc_plugin == proto_plugin("cpp:grpc_plugin", google_protobuf, ~ Filled,
  <<ByPath(".grpc.pb", "h"), ByPath(".grpc.pb", "cc"), ByPath("_mock.grpc.pb", "h")>>)
csharp_plugin == proto_plugin("csharp:proto_plugin", google_protobuf, ~ Filled, <<CSharp("")>>)
csharp_grpc_plugin == proto_plugin("csharp:grpc_plugin", google_protobuf, Filled, <<CSharp("Grpc")>>)
docbook_plugin  == PluginWithOut("doc:docbook_plugin", {}, "", "xml")
html_plugin     == PluginWithOut("doc:html_plugin", {}, "", "html")
json_plugin     == PluginWithOut("doc:json_plugin", {}, "", "json")
markdown_plugin == PluginWithOut("doc:markdown_plugin", {}, "", "md")
template_plugin == PluginWithOut("doc:template_plugin", {}, "", "")
go_plugin == proto_plugin("go:proto_plugin", google, ~ Filled, <<ByPath(".pb", "go")>>)
go_grpc_plugin == proto_plugin("go:grpc_plugin", google, Filled, <<ByPath("_grpc.pb", "go")>>)
gateway_plugin == proto_plugin("grpc_gateway:plugin", google, Filled, <<ByPath(".pb.gw", "go")>>)
openapiv2_plugin == proto_plugin("grpc_gateway:openapiv2_plugin", google, ~ Filled,
  <<ByPath(".swagger", "json")>>)
openapiv2_combined_plugin ==
  PluginWithOut("grpc_gateway:openapiv2_combined_plugin", google, ".swagger", "json")
java_plugin      == PluginWithOut("java:proto_plugin", {}, "", "jar")
java_grpc_plugin == PluginWithOut("java:grpc_plugin", {}, "_grpc", "jar")
js_plugin == proto_plugin("js:proto_plugin", google_protobuf, ~ Filled, <<ByPath("_pb", "js")>>)
js_ts_plugin == proto_plugin("js:proto_ts_plugin", {}, ~ Filled, <<ByPath("_pb.d", "ts")>>)
js_grpc_plugin == proto_plugin("js:grpc_plugin", google_protobuf, Filled, <<ByPath("_grpc_pb", "js")>>)
js_grpc_ts_plugin == proto_plugin("js:grpc_ts_plugin", {}, Filled, <<ByPath("_grpc_pb.d", "ts")>>)
js_grpc_web_plugin == proto_plugin("js:grpc_web_js_plugin", {}, Filled,
  <<ByPath("_grpc_web_pb", "js"), ByPath("_grpc_web_pb.d", "ts")>>)
objc_plugin == proto_plugin("objc:proto_plugin", {}, ~ Filled,
  <<Objc(".pbobjc", "h"), Objc(".pbobjc", "m")>>)
objc_grpc_plugin == proto_plugin("objc:grpc_plugin", {}, Filled,
  <<Objc(".pbrpc", "h"), Objc(".pbrpc", "m")>>)
python_plugin == proto_plugin("python:proto_plugin", google_protobuf, ~ Filled,
  <<Python("_pb2", "py")>>)
python_grpc_plugin == proto_plugin("python:grpc_plugin", google_protobuf, ~ Filled,
  <<Python("_pb2_grpc", "py")>>)
python_grpclib_plugin == proto_plugin("python:grpclib_plugin", {}, ~ Filled,
  <<Python("_grpc", "py")>>)
pyi_plugin == proto_plugin("python:pyi_plugin", google_protobuf, ~ Filled, <<Python("_pb2", "pyi")>>)
scala_plugin      == PluginWithOut("scala:proto_plugin", {}, "", "jar")
scala_grpc_plugin == PluginWithOut("scala:grpc_plugin", {}, "", "jar")
swift_plugin == proto_plugin("swift:proto_plugin", google_protobuf, ~ Filled,
  <<ByPath(".pb", "swift")>>)
swift_grpc_plugin == proto_plugin("swift:grpc_plugin", google_protobuf, Filled,
  <<ByPath(".grpc", "swift")>>)

AllPlugins ==
  {cpp_plugin, cpp_grpc_plugin, csharp_plugin, csharp_grpc_plugin, docbook_plugin,
   html_plugin, json_plugin, markdown_plugin, template_plugin, go_plugin, go_grpc_plugin,
   gateway_plugin, openapiv2_plugin, openapiv2_combined_plugin, java_plugin,
   java_grpc_plugin, js_plugin, js_ts_plugin, js_grpc_plugin, js_grpc_ts_plugin,
   js_grpc_web_plugin, objc_plugin, objc_grpc_plugin, python_plugin, python_grpc_plugin,
   python_grpclib_plugin, pyi_plugin, scala_plugin, scala_grpc_plugin, swift_plugin,
   swift_grpc_plugin}

-----------------------------------------------------------------------------
(* Compile rules *)

RulesInTable == UNION {ToSet(language.rules) : language \in ToSet(languages)}
RuleNamed(name) == CHOOSE r \in RulesInTable : r.name = name

\* The default of _plugins.
Plugins(r) ==
  [i \in DOMAIN r.plugins |-> CHOOSE plugin \in AllPlugins : plugin.label = r.plugins[i]]

\* doc_template_compile sets the options of all plugins to its template.
TemplateOptions(options, template) ==
  LET given == {i \in 1..Len(options) : options[i].key = Star}
  IN IF given = {} THEN Append(options, [key |-> Star, opts |-> template])
     ELSE [i \in 1..Len(options) |->
             IF i \in given THEN [options[i] EXCEPT !.opts = template] ELSE options[i]]

-----------------------------------------------------------------------------
(* Library macros *)

\* The compile rule that the macro of a library uses.
CompileRule(r) == RuleNamed(CHOOSE name \in r.loads : name[3] = "compile")

\* filter_files, or all files of the compile target.
Filter(extensions, f) == extensions = All \/ f.ext \in extensions

\* A file that the library rule compiles, given to it once.
Takes(macro, f) ==
  f.ext \in macro.takes /\ Filter(macro.srcs, f) # Filter(macro.hdrs, f)

\* The plugins of a library make what its library rule compiles, as the table
\* pairs them; a directory is a list of names.
ASSUME LibrariesAssumption ==
  \A r \in Rules : r.macro # NoMacro =>
    /\ r.prefix \in Seq(STRING)
    /\ \A i \in DOMAIN r.plugins :
         LET plugin == r.plugins[i] IN
         /\ \A proto \in UNION {ToSet(protos) : protos \in ToSet(r.protos)}, pattern \in ToSet(plugin.outputs) :
              /\ OutputName[proto, pattern].dir \in Seq(STRING)
              /\ Takes(r.macro, OutputName[proto, pattern])
         /\ \A o \in plugin.out :
              o.dir \in Seq(STRING) /\ Takes(r.macro, IF IsJar(o) THEN SrcJar(Premerge(o)) ELSE o)

\* Variant: the directories do not depend on the output mode.
RootsOfTarget(macro, mode, prefix) ==
  CASE macro.roots = "none"   -> {}
    [] macro.roots = "prefix" -> {File("target", dir, "", "") : dir \in {<< >>, prefix}}
    [] OTHER                    -> {File("target", << >>, "", "")}

\* includes or imports, as files without a name.
Roots(macro, mode, prefix) ==
  LET place == IF mode = "PREFIXED" \/ macro.roots = "target" THEN "target" ELSE "package"
  IN CASE macro.roots = "none"   -> {}
       [] macro.roots = "prefix" -> {File(place, dir, "", "") : dir \in {<< >>, prefix}}
       [] OTHER                    -> {File(place, << >>, "", "")}

\* The languages of go have the import path as prefix unless prefix_path is given.
PrefixPath(macro, given) ==
  CASE given.prefix_path # {} -> CHOOSE path \in given.prefix_path : TRUE
    [] given.prefix_path = {} /\ given.importpath # {} /\ "importpath" \in macro.args ->
         CHOOSE path \in given.importpath : TRUE
    [] OTHER -> << >>

\* The compile target of a library macro, for the given arguments.
CompileTarget(r, given) ==
  [protos  |-> given.protos,
   plugins |-> Plugins(CompileRule(r)) \o IF given.generate_pyi THEN <<pyi_plugin>> ELSE << >>,
   options |-> << >>,
   mode    |-> given.output_mode,
   prefix  |-> PrefixPath(r.macro, given),
   macro   |-> r.macro]

-----------------------------------------------------------------------------
(* Properties *)

\* A file is found under a name if a root and the name lead to it.
IsFound(to, dir) ==
  \E root \in Roots(rule.macro, rule.mode, rule.prefix) :
    to = [root EXCEPT !.dir = @ \o dir, !.base = to.base, !.ext = to.ext]

\* The library rule gets every output of the compile target, once, as a file it
\* compiles, and its directories are such that code which uses the library finds
\* the output under prefix_path, and code generated with it, which knows of no
\* prefix, under its own directory.  What is left out is what the macros do not
\* provide for: objc and grpclib without PREFIXED; a prefix in languages other
\* than python with grpc; NO_PREFIX_FLAT for protos in a directory.
LibraryFindsCode ==
  pc = "done" /\ rule.macro # NoMacro =>
    \A f \in ToSet(files) :
      LET to   == Destination(f)
          flat == rule.mode = "NO_PREFIX_FLAT"
      IN /\ Takes(rule.macro, to)
         /\ \/ rule.macro.roots = "none"
            \/ rule.macro.roots = "target" /\ rule.mode # "PREFIXED"
            \/ /\ IsFound(to, rule.prefix \o IF flat THEN << >> ELSE f.dir)
               /\ \/ rule.prefix # << >> /\ rule.macro.roots # "prefix"
                  \/ flat /\ f.dir # << >>
                  \/ IsFound(to, f.dir)

\* common.bzl:27 says of Objective C names: "it will uppercase the words "url",
\* "http", and "https"".
ObjcUppercasesWords ==
  pc = "done" =>
    \A plugin \in Ran : \A i \in 1..Len(plugin.outputs) : \A proto \in ToSet(Protos(plugin)) :
      plugin.outputs[i].filter = "objc" =>
        \A j \in 1..Len(Spelling[proto.base]) :
          Spelling[proto.base][j].text \in DOMAIN Upper =>
            \E part \in ToSet(pascal_objc(Spelling[proto.base])) :
              part = Part("upper", Spelling[proto.base][j].text)
=============================================================================
