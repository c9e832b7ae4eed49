------------------------------- MODULE MCBuild -------------------------------
(***************************************************************************)
(* The build of a target of two plugins, each of any kind, on one proto or *)
(* on two that have the same base name, with every choice of the outputs   *)
(* that the plugins write.                                                 *)
(***************************************************************************)
EXTENDS Build

ax == [dir |-> <<"a">>, base |-> "x"]
bx == [dir |-> <<"b">>, base |-> "x"]

Pattern(token, ext) == [token |-> token, ext |-> ext]

\* get_output_filename for the two kinds of token.
MCOutputName ==
  [pair \in {ax, bx} \X {Pattern("protopath", "h"), Pattern("basename", "cs"), Pattern("basename", "jar")} |->
     [dir  |-> IF pair[2].token = "protopath" THEN pair[1].dir ELSE << >>,
      base |-> pair[1].base,
      ext  |-> pair[2].ext]]

MCLabels == {"first", "second"}
MCSelf == [l \in MCLabels |-> l]

Shape(outs, out, directory, template) ==
  [outputs |-> outs, out |-> out, directory |-> directory, template |-> template]

MCOut(base, ext) == {[dir |-> << >>, base |-> base, ext |-> ext]}

\* A header per proto, the same filled in, a file by base name filled in, a
\* jar, a jar by base name and under the same name as the single output, a
\* document filled in, a directory.
MCShapes ==
  {Shape(<<Pattern("protopath", "h")>>, {}, FALSE, FALSE),
   Shape(<<Pattern("protopath", "h")>>, {}, FALSE, TRUE),
   Shape(<<Pattern("basename", "cs")>>, {}, FALSE, TRUE),
   Shape(<<Pattern("basename", "cs")>>, {}, FALSE, FALSE),
   Shape(<<>>, MCOut("t", "jar"), FALSE, FALSE),
   Shape(<<Pattern("basename", "jar")>>, MCOut("x", "jar"), FALSE, TRUE),
   Shape(<<>>, MCOut("t", "md"), FALSE, TRUE),
   Shape(<<>>, {}, TRUE, FALSE)}

MCPlugin(label, shape) ==
  [label |-> label, exclusions |-> {}, options |-> << >>,
   outputs |-> shape.outputs, out |-> shape.out, directory |-> shape.directory,
   template |-> shape.template, envClash |-> FALSE]

\* Two plugins, or one that is listed twice, by itself or with a directory.
MCTwo == {<<MCPlugin("first", s), MCPlugin("second", t)>> : s \in MCShapes, t \in MCShapes}
MCTwice == {<<MCPlugin("first", s), MCPlugin("first", s)>> : s \in MCShapes}

MCPlugins ==
  MCTwo \cup MCTwice
    \cup {twice \o <<MCPlugin("second", Shape(<<>>, {}, TRUE, FALSE))>> : twice \in MCTwice}

MCRules ==
  {[protos |-> << protos >>, options |-> << >>, mode |-> mode, prefix |-> << >>, plugins |-> plugins] :
     protos \in {<<ax>>, <<ax, bx>>}, plugins \in MCPlugins, mode \in {"PREFIXED", "NO_PREFIX_FLAT"}}

\* One name that a header has too, one that a document has, and one below x.cs.
MCTreeNames ==
  <<File("premerge", <<"a">>, "x", "h"), File("premerge", << >>, "t", "md"),
    File("premerge", <<"x.cs">>, "t", "md")>>

MCTreePath ==
  {<< >>, <<"a">>, <<"b">>, <<"a", "x.h">>, <<"b", "x.h">>, <<"x.cs">>, <<"t.md">>, <<"x.cs", "t.md">>,
   <<"t.jar">>, <<"t.srcjar">>, <<"x.jar">>, <<"x.srcjar">>}
=============================================================================
