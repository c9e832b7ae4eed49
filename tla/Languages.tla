------------------------------ MODULE Languages ------------------------------
(***************************************************************************)
(* The table of languages and rules that rulegen generates from, with what *)
(* the templates make of it.  The name of a rule is the triple of its      *)
(* parts: cpp_proto_compile is <<"cpp", "proto", "compile">>.  A label is  *)
(* a string of a language and a name: //:proto_plugin of the module for    *)
(* C++ is "cpp:proto_plugin".                                              *)
(***************************************************************************)
EXTENDS Sequences

-----------------------------------------------------------------------------
(* The attributes that are documented, and those that are there.  The ones *)
(* that all rules of Bazel have are left out.                              *)

compileRuleAttrs ==
  {"protos", "options", "verbose", "prefix_path", "extra_protoc_args", "extra_protoc_files",
   "output_mode"}
libraryRuleAttrs  == compileRuleAttrs \cup {"deps"}
cppLibraryRuleAttrs == libraryRuleAttrs \cup
  {"alwayslink", "copts", "defines", "include_prefix", "linkopts", "linkstatic", "local_defines",
   "nocopts", "strip_include_prefix"}
goLibraryRuleAttrs    == libraryRuleAttrs \cup {"importpath"}
javaLibraryRuleAttrs  == libraryRuleAttrs \cup {"exports"}
swiftLibraryRuleAttrs == libraryRuleAttrs \cup {"module_name"}
docTemplateRuleAttrs  == compileRuleAttrs \cup {"template"}

proto_compile_attrs ==
  {"protos", "options", "verbose", "prefix_path", "extra_protoc_args", "extra_protoc_files",
   "extra_plugins", "output_mode"}

-----------------------------------------------------------------------------
(***************************************************************************)
(* The templates of the library macros: what a macro does with the files   *)
(* of its compile target.  "srcs" and "hdrs" are the extensions of those   *)
(* that the library gets as sources and as headers, "roots" how it chooses *)
(* the directories in which its code is looked for: none, that of the      *)
(* target, by output_mode, or by output_mode and prefix_path; "takes" are  *)
(* the extensions that the library rule of the language compiles, and      *)
(* "args" the arguments that the macro reads or passes on to that rule.    *)
(***************************************************************************)
All == {"*"}

Macro(srcs, hdrs, roots, takes, args) ==
  [srcs |-> srcs, hdrs |-> hdrs, roots |-> roots, takes |-> takes, args |-> args]

NoMacro == Macro({}, {}, "none", {}, {})

\* Variant: the last of the arguments that are passed on is forgotten.
ccShort == {"alwayslink", "copts", "defines", "include_prefix", "linkopts", "linkstatic",
            "local_defines", "nocopts"}

\* The arguments that are passed on to cc_library, and to objc_library.
ccArgs == {"alwayslink", "copts", "defines", "include_prefix", "linkopts", "linkstatic",
           "local_defines", "nocopts", "strip_include_prefix"}

\* The arguments that are passed on to csharp_library.
dotnetArgs ==
  {"resources", "out", "additionalfiles", "allow_unsafe_blocks", "analyzer_configs", "compile_data",
   "compiler_options", "defines", "exports", "generate_documentation_file", "internals_visible_to",
   "is_analyzer", "is_language_specific_analyzer", "keyfile", "langversion", "nowarn", "nullable",
   "project_sdk", "run_analyzers", "treat_warnings_as_errors", "warning_level", "warnings_as_errors",
   "warnings_not_as_errors"}

cppLibrary         == Macro({"cc"}, {"h"}, "mode", {"cc", "h"}, {"deps"} \cup ccArgs)
csharpLibrary      == Macro(All, {}, "none", {"cs"}, {"deps", "target_frameworks"} \cup dotnetArgs)
goProtoLibrary     == Macro(All, {}, "none", {"go"}, {"deps", "go_deps", "importpath"})
goGrpcLibrary      == Macro(All, {}, "none", {"go"}, {"deps", "go_deps", "importpath"})
gatewayLibrary     == Macro(All, {}, "none", {"go"}, {"deps", "go_deps", "importpath"})
javaLibrary        == Macro(All, {}, "none", {"srcjar"}, {"deps", "exports"})
jsLibrary          == Macro(All, {}, "none", {"js", "ts"}, {"deps"})
objcProtoLibrary   == Macro({"m"}, {"h"}, "target", {"m", "h"}, {"deps"} \cup ccArgs)
objcGrpcLibrary    == Macro(All, {}, "target", {"m", "h"}, {"deps"} \cup ccArgs)
pythonProtoLibrary == Macro(All, {}, "mode", {"py", "pyi"}, {"deps", "data", "generate_pyi"})
pythonGrpcLibrary  == Macro(All, {}, "prefix", {"py", "pyi"}, {"deps", "data", "generate_pyi"})
pythonGrpclibLibrary == Macro(All, {}, "target", {"py", "pyi"}, {"deps", "data", "generate_pyi"})
scalaLibrary       == Macro(All, {}, "none", {"srcjar"}, {"deps", "exports"})
swiftLibrary       == Macro(All, {}, "none", {"swift"}, {"deps", "module_name"})

-----------------------------------------------------------------------------
(* The templates of the BUILD.bazel of the examples: targets, the protos   *)
(* that they are of, and the targets that they depend on.                  *)

Target(name, protos, deps) == [name |-> name, protos |-> protos, deps |-> deps]

protoCompileExample ==
  {Target("person", {"person"}, {}), Target("place", {"place"}, {}), Target("thing", {"thing"}, {})}
grpcCompileExample == {Target("thing", {"thing"}, {}), Target("greeter", {"greeter"}, {})}
protoLibraryExample ==
  {Target("person", {"person"}, {"place"}), Target("place", {"place"}, {"thing"}),
   Target("thing", {"thing"}, {})}
grpcLibraryExample == {Target("thing", {"thing"}, {}), Target("greeter", {"greeter"}, {"thing"})}

\* In Go all protos are in one package and in Swift in one module.
goProtoLibraryExample    == {Target("proto", {"person", "place", "thing"}, {})}
goGrpcLibraryExample     == {Target("greeter", {"greeter", "thing"}, {})}
swiftProtoLibraryExample == {Target("proto", {"person", "place", "thing"}, {})}
swiftGrpcLibraryExample  == {Target("greeter", {"greeter", "thing"}, {})}

jsProtoLibraryExample ==
  {Target("person", {"person"}, {"place"}), Target("place", {"place"}, {"thing"}),
   Target("thing", {"thing"}, {})}
jsGrpcLibraryExample == {Target("thing", {"thing"}, {}), Target("greeter", {"greeter"}, {"thing"})}

docCustomExample          == {Target("greeter", {"greeter", "thing"}, {})}
grpcGatewayCompileExample == {Target("api", {"api"}, {})}
grpcGatewayLibraryExample == {Target("api", {"api"}, {})}
bufBreakingExample == {Target("buf", {"greeter", "person", "place", "routeguide", "thing"}, {})}
bufLintExample ==
  {Target(p, {p}, {}) : p \in {"person", "place", "thing", "routeguide"}}

\* The protos of modules/example_protos, and which of them they import.
ExampleProtos ==
  [api |-> {}, person |-> {"place"}, place |-> {"thing"}, thing |-> {}, routeguide |-> {},
   greeter |-> {"thing"}]

-----------------------------------------------------------------------------
(* Rules and languages. *)

\* A rule: the rules of its language whose files its file loads, the pairs
\* of a language and a definition that it loads from the defs.bzl of another
\* module, the languages whose modules it has labels of, the platforms on
\* which it is not tested (none to leave it to the language), its plugins,
\* the attributes that are documented and those that it heeds, what it does
\* with the files if it is a library, and its example.
Rule(name, loads) ==
  [name |-> name, loads |-> loads, defs |-> {}, labels |-> {}, skip |-> {}, plugins |-> << >>,
   attrs |-> compileRuleAttrs, heeds |-> proto_compile_attrs, macro |-> NoMacro, example |-> {}]

\* compileRuleTemplate loads no rule of its language.
Compile(base, kind, plugins, example) ==
  [Rule(<<base, kind, "compile">>, {}) EXCEPT !.plugins = plugins, !.example = example]

\* The templates of the libraries load the compile rule of their kind, and
\* pass the attributes of compile rules on to it.
Library(base, kind, macro, attrs, example) ==
  [Rule(<<base, kind, "library">>, {<<base, kind, "compile">>}) EXCEPT
     !.attrs = attrs, !.heeds = @ \cup macro.args, !.macro = macro, !.example = example]

Standard(base, macro, attrs) ==
  <<Compile(base, "proto", <<base \o ":proto_plugin">>, protoCompileExample),
    Compile(base, "grpc", <<base \o ":proto_plugin", base \o ":grpc_plugin">>, grpcCompileExample),
    Library(base, "proto", macro, attrs, protoLibraryExample),
    Library(base, "grpc", macro, attrs, grpcLibraryExample)>>

Language(name, rules) ==
  [name |-> name, rules |-> rules, dependsOn |-> {}, skip |-> {}, aliases |-> {}, extraDefs |-> {}]

\* Aliases that exchange the first part of the names.
Aliases(new, old, kinds) ==
  {<<<<new, k, f>>, <<old, k, f>>>> : k \in kinds, f \in {"compile", "library"}}

\* The scripts heed what buf.bzl reads of the attributes.
makeBuf == Language("buf",
  <<[Rule(<<"buf", "proto_breaking", "test">>, {}) EXCEPT
       !.plugins = <<"buf:breaking_plugin">>, !.example = bufBreakingExample,
       !.attrs = {"protos", "against_input", "use_rules", "except_rules", "ignore_unstable_packages"},
       !.heeds = {"protos", "against_input", "use_rules", "except_rules"}],
    [Rule(<<"buf", "proto_lint", "test">>, {}) EXCEPT
       !.plugins = <<"buf:lint_plugin">>, !.example = bufLintExample,
       !.attrs = {"protos", "use_rules", "except_rules", "enum_zero_value_suffix",
                  "rpc_allow_same_request_response", "rpc_allow_google_protobuf_empty_requests",
                  "rpc_allow_google_protobuf_empty_responses", "service_suffix"},
       !.heeds = {"protos", "use_rules", "except_rules", "enum_zero_value_suffix",
                  "rpc_allow_same_request_response", "rpc_allow_google_protobuf_empty_requests",
                  "rpc_allow_google_protobuf_empty_responses", "service_suffix"}]>>)

makeCpp == [Language("cpp", Standard("cpp", cppLibrary, cppLibraryRuleAttrs)) EXCEPT
  !.aliases = Aliases("cc", "cpp", {"proto", "grpc"})]

makeCsharp == Language("csharp", Standard("csharp", csharpLibrary, libraryRuleAttrs))

\* The template rule sets the options of all plugins itself, beside which no
\* other key is allowed: those of a target are replaced, or fail it.
makeDoc == Language("doc",
  <<Compile("doc", "docbook", <<"doc:docbook_plugin">>, protoCompileExample),
    Compile("doc", "html", <<"doc:html_plugin">>, protoCompileExample),
    Compile("doc", "json", <<"doc:json_plugin">>, protoCompileExample),
    Compile("doc", "markdown", <<"doc:markdown_plugin">>, protoCompileExample),
    [Compile("doc", "template", <<"doc:template_plugin">>, docCustomExample) EXCEPT
       !.attrs = docTemplateRuleAttrs, !.heeds = (@ \cup {"template"}) \ {"options"}]>>)

\* go_grpc_library also loads PROTO_DEPS from the file of go_proto_library.
makeGo == [Language("go", Standard("go", goProtoLibrary, goLibraryRuleAttrs)) EXCEPT
  !.rules[3].example = goProtoLibraryExample,
  !.rules[4].macro = goGrpcLibrary,
  !.rules[4].example = goGrpcLibraryExample,
  !.rules[4].loads = @ \cup {<<"go", "proto", "library">>},
  !.extraDefs = {<<"GRPC_DEPS", <<"go", "grpc", "library">>>>, <<"PROTO_DEPS", <<"go", "proto", "library">>>>}]

makeGrpcGateway == [Language("grpc_gateway",
  <<[Compile("gateway", "grpc",
             <<"grpc_gateway:plugin", "go:grpc_plugin", "go:proto_plugin">>,
             grpcGatewayCompileExample) EXCEPT !.labels = {"go"}],
    Compile("gateway", "openapiv2", <<"grpc_gateway:openapiv2_plugin">>, grpcGatewayCompileExample),
    Compile("gateway", "openapiv2_combined", <<"grpc_gateway:openapiv2_combined_plugin">>,
            grpcGatewayCompileExample),
    [Library("gateway", "grpc", gatewayLibrary, goLibraryRuleAttrs, grpcGatewayLibraryExample)
       EXCEPT !.defs = {<<"go", "GRPC_DEPS">>}]>>) EXCEPT
  !.dependsOn = {"go"},
  !.extraDefs = {<<"GATEWAY_DEPS", <<"gateway", "grpc", "library">>>>}]

\* The grpc plugin is not needed by the rules for proto.
makeJava == [Language("java", Standard("java", javaLibrary, javaLibraryRuleAttrs)) EXCEPT
  !.skip = {"macos_arm64"}, !.rules[1].skip = {"none"}, !.rules[3].skip = {"none"}]

makeJs == [Language("js",
  <<Compile("js", "proto", <<"js:proto_plugin", "js:proto_ts_plugin">>, protoCompileExample),
    Compile("js", "grpc",
            <<"js:proto_plugin", "js:proto_ts_plugin", "js:grpc_plugin", "js:grpc_ts_plugin">>,
            grpcCompileExample),
    Compile("js", "grpc_web", <<"js:proto_plugin", "js:proto_ts_plugin", "js:grpc_web_js_plugin">>,
            grpcCompileExample),
    Library("js", "proto", jsLibrary, compileRuleAttrs, jsProtoLibraryExample),
    Library("js", "grpc", jsLibrary, compileRuleAttrs, jsGrpcLibraryExample),
    Library("js", "grpc_web", jsLibrary, compileRuleAttrs, jsGrpcLibraryExample)>>) EXCEPT
  !.skip = {"macos_arm64"}]

makeObjc == [Language("objc", Standard("objc", objcProtoLibrary, cppLibraryRuleAttrs)) EXCEPT
  !.rules[4].macro = objcGrpcLibrary, !.skip = {"linux", "windows", "macos"}]

makePython == [Language("python",
  <<Compile("python", "proto", <<"python:proto_plugin">>, protoCompileExample),
    Compile("python", "grpc", <<"python:proto_plugin", "python:grpc_plugin">>, grpcCompileExample),
    Compile("python", "grpclib", <<"python:proto_plugin", "python:grpclib_plugin">>,
            grpcCompileExample),
    Library("python", "proto", pythonProtoLibrary, libraryRuleAttrs, protoLibraryExample),
    Library("python", "grpc", pythonGrpcLibrary, libraryRuleAttrs, grpcLibraryExample),
    Library("python", "grpclib", pythonGrpclibLibrary, libraryRuleAttrs, grpcLibraryExample)>>)
  EXCEPT !.aliases = Aliases("py", "python", {"proto", "grpc", "grpclib"})]

makeScala == [Language("scala", Standard("scala", scalaLibrary, javaLibraryRuleAttrs)) EXCEPT
  !.rules[2].plugins = <<"scala:grpc_plugin">>, !.dependsOn = {"java"}]

makeSwift == [Language("swift", Standard("swift", swiftLibrary, swiftLibraryRuleAttrs)) EXCEPT
  !.rules[3].example = swiftProtoLibraryExample, !.rules[4].example = swiftGrpcLibraryExample,
  !.skip = {"windows", "linux"}]

languages ==
  <<makeBuf, makeCpp, makeCsharp, makeDoc, makeGo, makeGrpcGateway, makeJava,
    makeJs, makeObjc, makePython, makeScala, makeSwift>>

\* The modules of other languages that the MODULE.bazel of a module needs.
ModuleDeps == [l \in {"grpc_gateway", "scala"} |-> IF l = "scala" THEN {"java"} ELSE {"go"}]
RequiredModules(l) == IF l \in DOMAIN ModuleDeps THEN ModuleDeps[l] ELSE {}
=============================================================================
