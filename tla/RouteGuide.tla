------------------------------ MODULE RouteGuide ------------------------------
(***************************************************************************)
(* The answers of the routeguide servers to GetFeature, ListFeatures and   *)
(* RecordRoute.  The handlers keep nothing between calls: an answer is a   *)
(* function of the features, of the request and of the language of the     *)
(* server.  A point is <<latitude, longitude>> in degrees; a feature       *)
(* without a name stands for a place that could not be named.              *)
(***************************************************************************)
EXTENDS Integers, FiniteSets, SequencesExt, Lists

CONSTANTS
  Points,    \* the points that features and routes are made of
  Features,  \* the features of the database, in the order of the file
  Distance   \* the distance between two points, in kilometres

Unnamed == ""

\* Half of the circumference of the earth, 6371 * pi, rounded up.
MaxLeg == 20016

\* In the database no two features share a location.
ASSUME FeaturesAssumption ==
  /\ Points \subseteq (-90 .. 90) \X (-180 .. 180)
  /\ Features \in Seq([name : STRING, location : Points])
  /\ \A i, j \in DOMAIN Features : Features[i].location = Features[j].location => i = j
  /\ Distance \in [Points \X Points -> 0 .. MaxLeg]

\* The sum is a 32-bit number of metres: 2^32 metres, in whole kilometres,
\* is where it begins anew.
Int32(km) == ((km + 2147483) % 4294967) - 2147483

\* The first feature at a point, or one without a name.
CheckFeature(p) ==
  LET found == {i \in DOMAIN Features : Features[i].location = p}
  IN IF found = {} THEN [name |-> Unnamed, location |-> p]
     ELSE Features[CHOOSE i \in found : \A j \in found : i <= j]

\* Variant: only the latitudes are compared.
WithinLatitudes(rect, p) ==
  \/ rect.lo[1] <= p[1] /\ p[1] <= rect.hi[1]
  \/ rect.hi[1] <= p[1] /\ p[1] <= rect.lo[1]

\* Both corners belong to a rectangle, whichever two opposite ones they are.
Within(rect, p) ==
  \A i \in 1 .. 2 : \/ rect.lo[i] <= p[i] /\ p[i] <= rect.hi[i]
                    \/ rect.hi[i] <= p[i] /\ p[i] <= rect.lo[i]

\* These servers list features without a name too.
ListsUnnamed == {"cpp", "go", "python"}

\* The JavaScript server takes Math.min and Math.max of an array, which is
\* NaN: no longitude compares with it and nothing is listed.
ListFeatures(server, rect) ==
  Among(Features, {f \in Range(Features) :
    /\ server # "js"
    /\ f.name = Unnamed => server \in ListsUnnamed
    /\ Within(rect, f.location)})

\* Whether a point of a route counts as a feature.  Go and Python count any
\* feature at the point, and the others one with a name; the JavaScript
\* server compares the name of a message, which it reads as a field that is
\* not there, with the empty name: every point counts.
Counts(server, p) ==
  CASE server = "js"               -> TRUE
    [] server \in {"go", "python"} -> \E i \in DOMAIN Features : Features[i].location = p
    [] OTHER                       -> CheckFeature(p).name # Unnamed

\* The sum of the distances from each point to the next.
Travelled(points) ==
  LET upTo[i \in 1 .. Len(points)] ==
        IF i = 1 THEN 0 ELSE upTo[i - 1] + Distance[<<points[i - 1], points[i]>>]
  IN upTo[Len(points)]

\* Additions that begin anew when they overflow leave the sum, begun anew.
RecordRoute(server, points) ==
  [point_count   |-> Len(points),
   feature_count |-> Cardinality({i \in DOMAIN points : Counts(server, points[i])}),
   distance      |-> Int32(Travelled(points))]

-----------------------------------------------------------------------------
(* What modules/example_protos/routeguide.proto says of the answers. *)

\* A feature with an empty name is returned if there is no feature at the
\* position, and else the feature.
GetFits(p, f) ==
  /\ f.location = p
  /\ \/ f \in Range(Features)
     \/ f.name = Unnamed /\ \A g \in Range(Features) : g.location # p

\* Neither coordinate is on one side of both corners.
Inside(rect, p) == \A i \in 1 .. 2 : (p[i] - rect.lo[i]) * (p[i] - rect.hi[i]) <= 0

\* The features within the rectangle: all that have a name, each once, and
\* none from outside.
ListFits(rect, list) ==
  /\ IsInjective(list)
  /\ \A f \in Range(list) : f \in Range(Features) /\ Inside(rect, f.location)
  /\ \A f \in Range(Features) : f.name # Unnamed /\ Inside(rect, f.location) => f \in Range(list)

\* The number of points, the total of the distances, and a number of
\* features that counts those with a name and may count those without.
SummaryFits(points, summary) ==
  LET Passed(S) == Cardinality({i \in DOMAIN points : \E f \in S : f.location = points[i]})
  IN /\ summary.point_count = Len(points)
     /\ summary.distance = Travelled(points)
     /\ Passed({f \in Range(Features) : f.name # Unnamed}) <= summary.feature_count
     /\ summary.feature_count <= Passed(Range(Features))
=============================================================================
