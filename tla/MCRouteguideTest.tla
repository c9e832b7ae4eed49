--------------------------- MODULE MCRouteguideTest ---------------------------
(***************************************************************************)
(* RouteguideTest with the matrix of examples/routeguide/BUILD.bazel and a *)
(* database of five features: the one that the clients ask for, one without *)
(* a name beside it, one to the north of the area, one to the east that    *)
(* only the area of the JavaScript client has, and one on the edge.        *)
(***************************************************************************)
EXTENDS RouteguideTest

MCClients == <<"cpp", "csharp", "go", "java", "js", "python", "scala">>
MCRunByHand == {<<"java", "go">>, <<"scala", "python">>}
MCServers == <<"cpp", "csharp", "go", "java", "js", "python">>
JsClients == <<"go">>
JsServers == <<"js">>

MCFeatures == <<
  [name |-> "inside",  location |-> <<41, -75>>],
  [name |-> Unnamed,   location |-> <<41, -74>>],
  [name |-> "north",   location |-> <<43, -74>>],
  [name |-> "east",    location |-> <<41, -30>>],
  [name |-> "corner",  location |-> <<42, -73>>]>>

\* The Go client goes from one side of the earth to the other, the Scala
\* client has its own two features, and the others pass one without a name.
MCRandomPoints ==
  [c \in Langs |-> IF c = "go" THEN {<<0, 0>>, <<0, -180>>}
                   ELSE IF c = "scala" THEN {<<41, -75>>, <<42, -73>>} ELSE {<<41, -75>>, <<41, -74>>}]

MCPoints ==
  MCRandomPoints["go"] \cup {<<1, 1>>} \cup {MCFeatures[i].location : i \in DOMAIN MCFeatures}

\* About 100 km to a degree, and the largest distance where it is attained.
Abs(n) == IF n < 0 THEN -n ELSE n
MCDistance ==
  [pq \in MCPoints \X MCPoints |->
     IF pq[1] # pq[2] /\ {pq[1], pq[2]} = MCRandomPoints["go"]
     THEN MaxLeg
     ELSE 100 * (Abs(pq[1][1] - pq[2][1]) + Abs(pq[1][2] - pq[2][2]))]
=============================================================================
