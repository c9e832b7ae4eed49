---------------------------- MODULE RouteguideTest ----------------------------
(***************************************************************************)
(* One test of the routeguide matrix: the script that starts a server,     *)
(* sleeps, runs a client and takes its status, the two processes, and the  *)
(* limit that Bazel sets to the test.  Beside it there may be one other    *)
(* server on the machine: that of another test of the matrix, or one that  *)
(* was started by hand on its default port.  Time is counted in ticks of   *)
(* two seconds.                                                            *)
(***************************************************************************)
EXTENDS RouteGuide, FiniteSets

CONSTANTS
  Clients,       \* the languages of the clients, in the order of the matrix
  Servers,       \* the languages of the servers, in the order of the matrix
  Skip,          \* the clients, the servers and the tests that are left out
  RandomPoints,  \* the points that a client may draw for its route
  Nearby,        \* how far apart in the matrix are the tests that run at once
  RunByHand,     \* the tests that are also run with bazel run, which sets no limit
  MaxClock       \* the ticks that such a run is followed for

Langs == {"cpp", "csharp", "go", "java", "js", "python", "scala"}

ASSUME MatrixAssumption ==
  /\ Clients \in Seq(Langs) /\ IsInjective(Clients)
  /\ Servers \in Seq(Langs \ {"scala"}) /\ IsInjective(Servers)
  /\ RandomPoints \in [Langs -> SUBSET Points]
  /\ \A c \in Langs \ {"go"} : RandomPoints[c] \subseteq {Features[i].location : i \in DOMAIN Features}
  /\ Nearby \in Nat /\ MaxClock \in Nat

VARIABLES
  test,      \* the client and the server
  fault,     \* what may go wrong: nothing, a slow start, a crash, a hanging call
  limited,   \* whether the test is run by bazel test
  other,     \* the other server: the port that it listens on, and who started it
  otherUp,   \* whether it listens already, still, or no more
  clock,     \* the ticks since the test began
  server,    \* whether the server is starting, listening or has exited
  status,    \* whether the client runs, or how it has exited
  step,      \* the call that the client is at
  waited,    \* the ticks since it came to it
  answers,   \* the calls that were answered
  verdict    \* what Bazel says of the test

vars == <<test, fault, limited, other, otherUp, clock, server, status, step, waited, answers, verdict>>

fixedVars  == <<test, fault, limited, other>>
clientVars == <<status, step, waited, answers>>

client     == test[1]
serverLang == test[2]

-----------------------------------------------------------------------------
(* The matrix. *)

\* For each server, the tests of all clients.
AllTests ==
  [i \in 1 .. Len(Servers) * Len(Clients) |->
     <<Clients[((i - 1) % Len(Clients)) + 1], Servers[((i - 1) \div Len(Clients)) + 1]>>]

Matrix == {t \in Range(AllTests) : {t[1], t[2], t} \cap Skip = {}}

DefaultPort == 50051

\* Where a test comes, with those that are left out.
Place(t) == CHOOSE i \in DOMAIN AllTests : AllTests[i] = t

\* A test that is left out takes no port.
Ports == [t \in Matrix |-> DefaultPort + Cardinality({u \in Matrix : Place(u) < Place(t)})]

\* Variant: the next port is taken for the next server only.
PortOfServer(t) == DefaultPort + (CHOOSE i \in DOMAIN Servers : Servers[i] = t[2]) - 1

Port(t) == Ports[t]

\* The port of a server that is started without SERVER_PORT.
PortByHand(lang) ==
  CASE lang = "python" -> 50076
    [] lang = "java"   -> 50074
    [] OTHER           -> DefaultPort

Others(t) ==
  {[port |-> 0, byHand |-> FALSE]}
    \cup {[port |-> Port(u), byHand |-> FALSE] :
            u \in {v \in Matrix \ {t} : Port(v) - Port(t) \in -Nearby .. Nearby}}
    \cup {[port |-> PortByHand(Servers[i]), byHand |-> TRUE] : i \in DOMAIN Servers}

-----------------------------------------------------------------------------
(* How long things take, in ticks. *)

\* Variant: Python is given no more time than the other servers.
ShortDelay(lang) == 1

\* What the script sleeps: 10 seconds if the path of the server has python
\* in it, and 2 if not.
Delay(lang) == IF lang = "python" THEN 5 ELSE 1

\* What a server takes to listen: Python unpacks itself first on Windows.
StartTime(lang) == IF lang = "python" THEN 4 ELSE 0

\* Variant: the test has size medium.
MediumLimit == 150

\* A small test is killed after a minute.
Limit == 30

\* The Go client gives a call 10 seconds; the others have no deadline.  The 4000
\* that the JavaScript client gives to waitForReady is a date of 1970: it does
\* not wait for its channel.
HasDeadline == {"go"}
Deadline(lang) == 5

\* The Java and the Scala client wait a minute for the end of the two calls
\* with a stream of requests, and go on with a warning when it has passed.
HasLatch == {"java", "scala"}
Latch == 30

\* RecordRoute: half a second to one and a half after each of ten points
\* (Java, C#) or of three (Scala), a tenth of a second at most in C++.
SendingTimes(lang, call) ==
  IF call # "RecordRoute" THEN 0 .. 0
  ELSE CASE lang \in {"java", "csharp"} -> 2 .. 8
         [] lang = "scala"              -> 0 .. 3
         [] lang = "cpp"                -> 0 .. 1
         [] OTHER                       -> 0 .. 0

\* A server that does not hang answers within a tick.
AnswerTime == 1

-----------------------------------------------------------------------------
(* The calls that a client makes, one after the other. *)

\* A client has read its database by then.
Calls(lang) ==
  IF lang = "scala"
  THEN <<"GetFeature", "ListFeatures", "RecordRoute", "RouteChat">>
  ELSE <<"GetFeature", "GetFeature", "ListFeatures", "RecordRoute", "RouteChat">>

Known   == <<41, -75>>
Missing(lang) == IF lang = "js" THEN <<1, 1>> ELSE <<0, 0>>

\* Between 40, -75 and 42, -73; the JavaScript client has lost a zero.
Area(lang) == [lo |-> <<40, -75>>, hi |-> <<42, IF lang = "js" THEN -7 ELSE -73>>]

\* The number of points of a route; Scala goes from 0 to 2.
RouteLengths(lang) == CASE lang = "go" -> 2 .. 101 [] lang = "scala" -> {3} [] OTHER -> {10}

\* Of the random routes, the shortest and the longest that go to and fro
\* between two points.
Extremes(S) == {n \in S : (\A m \in S : n <= m) \/ (\A m \in S : m <= n)}
Routes(lang) ==
  [from : RandomPoints[lang], to : RandomPoints[lang], length : Extremes(RouteLengths(lang))]
PointsOf(route) == [i \in 1 .. route.length |-> IF i % 2 = 1 THEN route.from ELSE route.to]

call == Calls(client)[step]

Requests ==
  CASE call = "GetFeature"   -> {IF step = 1 THEN Known ELSE Missing(client)}
    [] call = "ListFeatures" -> {Area(client)}
    [] call = "RecordRoute"  -> Routes(client)
    [] call = "RouteChat"    -> {"notes"}

\* The answers of RouteChat are those of module RouteChat.
Reply(lang, request) ==
  CASE call = "GetFeature"   -> CheckFeature(request)
    [] call = "ListFeatures" -> ListFeatures(lang, request)
    [] call = "RecordRoute"  -> RecordRoute(lang, PointsOf(request))
    [] call = "RouteChat"    -> "notes"

-----------------------------------------------------------------------------
Init ==
  /\ test \in Matrix
  /\ fault \in {"none", "slow", "crash", "hang"}
  /\ other \in Others(test)
  /\ limited \in {TRUE, test \notin RunByHand}
  /\ fault # "none" \/ ~ limited => other.port = 0
  /\ otherUp = "not yet"
  /\ clock = 0
  /\ server = "starting"
  /\ status = "none" /\ step = 1 /\ waited = 0 /\ answers = << >>
  /\ verdict = "none"

OnOurPort == other.port = Port(test)

\* Who listens on the port of the test.
Listeners ==
  {who \in {"own", "other"} :
     IF who = "own" THEN server = "listening" ELSE OnOurPort /\ otherUp = "up"}

\* The servers that gRPC's core binds for: where the system has SO_REUSEPORT two
\* of them can have one port, and any of them may get a connection.
SharesPort == {"cpp", "python"}

-----------------------------------------------------------------------------
(* The servers. *)

\* The database is loaded and the port bound; a server that cannot bind its
\* port exits, which the script does not notice.
Listen ==
  /\ verdict = "none" /\ server = "starting"
  /\ \/ server' = "listening" /\ (Listeners = {} \/ serverLang \in SharesPort)
     \/ server' = "exited" /\ Listeners # {}
  /\ UNCHANGED <<otherUp, clock, clientVars, verdict, fixedVars>>

Crash ==
  /\ verdict = "none" /\ fault = "crash" /\ server # "exited"
  /\ server' = "exited"
  /\ UNCHANGED <<otherUp, clock, clientVars, verdict, fixedVars>>

\* The other server takes its port, unless ours has it and does not share it,
\* and leaves it.
OtherListens ==
  /\ verdict = "none" /\ other.port # 0 /\ otherUp = "not yet"
  /\ \/ otherUp' = "up" /\ (OnOurPort /\ server = "listening" => serverLang \in SharesPort)
     \/ otherUp' = "gone" /\ OnOurPort /\ server = "listening"
  /\ UNCHANGED <<server, clock, clientVars, verdict, fixedVars>>

OtherExits ==
  /\ verdict = "none" /\ otherUp = "up"
  /\ otherUp' = "gone"
  /\ UNCHANGED <<server, clock, clientVars, verdict, fixedVars>>

-----------------------------------------------------------------------------
(* The client. *)

\* It goes on to its next call, or exits with status 0 after the last one.
NextCall ==
  /\ step' = step + 1
  /\ waited' = 0
  /\ status' = IF step = Len(Calls(client)) THEN "ok" ELSE status

\* Every client ends with an error when a call does.
ExitWithError ==
  /\ status' = "error"
  /\ UNCHANGED <<step, waited, answers>>

\* The script wakes up and runs the client.
StartClient ==
  /\ verdict = "none" /\ status = "none" /\ clock >= Delay(serverLang)
  /\ status' = "running"
  /\ UNCHANGED <<step, waited, answers, otherUp, server, clock, verdict, fixedVars>>

Running == verdict = "none" /\ status = "running"

\* The fewest and the most ticks that the client takes to send its requests.
Sent    == \E n \in SendingTimes(client, call) : waited >= n
AllSent(more) == \A n \in SendingTimes(client, call) : waited >= n + more

\* Variant: the client makes the call once more.
AnsweredAgain ==
  /\ Running /\ Sent
  /\ \E request \in Requests, by \in Listeners :
       answers' = Append(answers, [call |-> call, request |-> request, by |-> by,
                                   reply |-> Reply(serverLang, request)])
  /\ UNCHANGED <<status, step, waited, otherUp, server, clock, verdict, fixedVars>>

Answered ==
  /\ Running /\ Sent
  /\ \E request \in Requests, by \in Listeners :
       answers' = Append(answers, [call |-> call, request |-> request, by |-> by,
                                   reply |-> Reply(serverLang, request)])
  /\ NextCall
  /\ UNCHANGED <<otherUp, server, clock, verdict, fixedVars>>

\* Nobody listens, or the server has gone in the middle of the call.
Failed ==
  /\ Running /\ Listeners = {}
  /\ ExitWithError
  /\ UNCHANGED <<otherUp, server, clock, verdict, fixedVars>>

\* The other server exits when it has the call of the client.
CutOff ==
  /\ Running /\ "other" \in Listeners
  /\ otherUp' = "gone"
  /\ ExitWithError
  /\ UNCHANGED <<server, clock, verdict, fixedVars>>

DeadlineExceeded ==
  /\ Running /\ client \in HasDeadline /\ waited >= Deadline(client)
  /\ ExitWithError
  /\ UNCHANGED <<otherUp, server, clock, verdict, fixedVars>>

\* A warning, and the client goes on as if the call had ended.
AtLatch == client \in HasLatch /\ call \in {"RecordRoute", "RouteChat"}
LatchExpires ==
  /\ Running /\ AtLatch
  /\ \E n \in SendingTimes(client, call) : waited >= n + Latch
  /\ NextCall
  /\ UNCHANGED <<answers, otherUp, server, clock, verdict, fixedVars>>

-----------------------------------------------------------------------------
(* The script and Bazel. *)

\* The script ends with the status of the client, and its trap kills the
\* server.
ScriptEnds ==
  /\ verdict = "none" /\ status \in {"ok", "error"}
  /\ verdict' = IF status = "ok" THEN "passed" ELSE "failed"
  /\ server' = "exited"
  /\ UNCHANGED <<otherUp, clock, clientVars, fixedVars>>

Timeout ==
  /\ verdict = "none" /\ limited /\ clock >= Limit
  /\ verdict' = "timeout"
  /\ server' = "exited"
  /\ UNCHANGED <<otherUp, clock, clientVars, fixedVars>>

\* What does not wait for the next tick: a server that is not slow to start,
\* the script, a call that fails, a deadline, a latch, the answer of a server
\* that does not hang, and the limit.
Due ==
  \/ server = "starting" /\ fault # "slow" /\ clock >= StartTime(serverLang)
  \/ status = "none" /\ clock >= Delay(serverLang)
  \/ status \in {"ok", "error"}
  \/ limited /\ clock >= Limit
  \/ /\ status = "running"
     /\ \/ Listeners = {}
        \/ Listeners # {} /\ fault # "hang" /\ AllSent(AnswerTime)
        \/ client \in HasDeadline /\ waited >= Deadline(client)
        \/ AtLatch /\ AllSent(Latch)

Tick ==
  /\ verdict = "none" /\ ~ Due /\ clock < MaxClock
  /\ clock' = clock + 1
  /\ waited' = IF status = "running" THEN waited + 1 ELSE waited
  /\ UNCHANGED <<otherUp, server, status, step, answers, verdict, fixedVars>>

-----------------------------------------------------------------------------
Next ==
  \/ Listen \/ Crash \/ OtherListens \/ OtherExits
  \/ StartClient \/ Answered \/ Failed \/ CutOff \/ DeadlineExceeded \/ LatchExpires
  \/ ScriptEnds \/ Timeout \/ Tick

Spec == Init /\ [][Next]_vars

\* Time passes, and what is due happens.
FairSpec == Spec /\ WF_vars(Next)

-----------------------------------------------------------------------------
(* Properties. *)

\* The state is well formed; a call that the client waits for began after
\* the script's delay, and the test never outlives the limit.
TestTypeOK ==
  /\ test \in Matrix /\ other \in [port : Nat, byHand : BOOLEAN]
  /\ fault \in {"none", "slow", "crash", "hang"}
  /\ otherUp \in {"not yet", "up", "gone"}
  /\ server \in {"starting", "listening", "exited"}
  /\ status \in {"none", "running", "ok", "error"}
  /\ verdict \in {"none", "passed", "failed", "timeout"}
  /\ limited \in BOOLEAN
  /\ clock \in Nat /\ (limited => clock <= Limit) /\ waited \in 0 .. clock
  /\ step \in 1 .. Len(Calls(client)) + 1
  /\ Len(answers) < step

\* A test that passes had an answer to each of its calls, although the Java
\* and the Scala client exit with status 0 when a call has hung for a minute:
\* by then bazel test has killed it, because its script has slept first.
PassMeansAnswered ==
  limited /\ verdict = "passed" => [i \in DOMAIN answers |-> answers[i].call] = Calls(client)

\* The tests of the matrix that run at once do not disturb each other: the
\* calls of a client are answered by the server of its test.  Only a server
\* that was started by hand on a port of the matrix can come in between.
OwnServerAnswers ==
  \A i \in DOMAIN answers : answers[i].by = "own" \/ other.byHand

\* The latest answer to a call.
LatestTo(c) == answers # << >> /\ Last(answers).call = c

\* Whatever the language of the server, its answers are what the proto file
\* says.  A feature is the one that was asked for, and the features of an area
\* are all listed.  The summary of a route tells its points, its features and
\* its distance: the longest route of the Go client, 101 random points, cannot
\* be so long that the 32-bit sum begins anew.  But the JavaScript server lists
\* nothing, and counts every point of a route as a feature.
AnswersFit ==
  /\ LatestTo("GetFeature") => GetFits(Last(answers).request, Last(answers).reply)
  /\ LatestTo("ListFeatures") =>
       serverLang = "js" \/ ListFits(Last(answers).request, Last(answers).reply)
  /\ LatestTo("RecordRoute") =>
       serverLang = "js" \/ SummaryFits(PointsOf(Last(answers).request), Last(answers).reply)

\* "Obtains the Features available within the given Rectangle."
AreaIsListed ==
  LatestTo("ListFeatures") => ListFits(Last(answers).request, Last(answers).reply)

\* A test whose server starts in its time, does not fail, and has its port to
\* itself passes: the delay is long enough for it, and the minute for all of
\* the calls.
HealthyPasses == fault = "none" /\ ~ other.byHand ~> verdict = "passed"

-----------------------------------------------------------------------------
(* The inductive invariant. *)

\* The answers are a sequence of whatever was answered.
AnswersInv == answers \in Seq(Range(answers))

\* The script has slept before the client began: a client that waits for a
\* call has waited for less than the test has lasted.
RunningInv ==
  /\ status = "none" => step = 1 /\ waited = 0
  /\ status = "running" => clock >= waited + Delay(serverLang) /\ step <= Len(Calls(client))
  /\ status = "ok" => step = Len(Calls(client)) + 1
  /\ verdict = "passed" => status = "ok"

\* Within the limit a client goes on only when its call is answered.
AnsweredInv ==
  limited => /\ Len(answers) = step - 1
             /\ \A i \in 1 .. step - 1 : answers[i].call = Calls(client)[i]

IInv ==
  /\ TestTypeOK /\ other \in Others(test)
  /\ AnswersInv /\ RunningInv /\ AnsweredInv /\ OwnServerAnswers

-----------------------------------------------------------------------------
(* A healthy test in its time. *)

\* The server starts in its time, does not fail, and has its port to itself.
Healthy == fault = "none" /\ ~ other.byHand

\* A healthy test never fails and is never killed: it is over after 18 ticks
\* of the 30 at the latest.  HealthyPasses needs besides only that time passes.
HealthyInTime == Healthy => verdict \in {"none", "passed"} /\ clock <= 18

\* The longest that a client takes to send its requests.
LongestSending == IF call = "RecordRoute" /\ client # "go" THEN 8 ELSE 0

\* The longest that it takes for its first n calls: RecordRoute is the last
\* but one.
Spent(n) == AnswerTime * n + IF n >= Len(Calls(client)) - 1 THEN 8 ELSE 0

\* The server listens before the client begins; a call takes no longer than
\* it takes to send the requests and answer them, and all that is waited for
\* before the next tick has happened.
HealthyInv ==
  Healthy =>
    /\ verdict = "none" => server # "exited"
    /\ server = "starting" => clock <= StartTime(serverLang)
    /\ verdict = "none" /\ status # "none" => server = "listening"
    /\ status = "none" => clock <= Delay(serverLang)
    /\ status = "running" => /\ waited <= LongestSending + AnswerTime
                             /\ clock <= Delay(serverLang) + Spent(step - 1) + waited
    /\ status = "ok" => clock <= Delay(serverLang) + Spent(step - 1)
    /\ status # "error" /\ verdict \in {"none", "passed"}
=============================================================================
