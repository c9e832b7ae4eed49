------------------------- MODULE RouteguideTestProofs -------------------------
(***************************************************************************)
(* RouteguideTest.tla: a test that passes had its answers, and had them    *)
(* from its own server, for every matrix, every database, every choice of  *)
(* what is left out and of what runs beside a test.                        *)
(***************************************************************************)
EXTENDS RouteguideTest, SequenceFacts

-----------------------------------------------------------------------------
(* The ports of the matrix *)

\* A test of the matrix has a place in it.
LEMMA PlaceOfTest ==
  ASSUME NEW t \in Matrix
  PROVE  Place(t) \in DOMAIN AllTests /\ AllTests[Place(t)] = t
<1>1. PICK i \in DOMAIN AllTests : AllTests[i] = t
  BY DEF Matrix, Range
<1> QED
  BY <1>1 DEF Place

LEMMA PlacesAreNumbers == DOMAIN AllTests \in SUBSET Nat /\ IsFiniteSet(DOMAIN AllTests)
<1> DEFINE n == Len(Servers) * Len(Clients)
<1>1. Len(Servers) \in Nat /\ Len(Clients) \in Nat
  BY MatrixAssumption, LenProperties
<1>2. n \in Nat
  BY <1>1
<1>3. DOMAIN AllTests = 1 .. n
  BY DEF AllTests
<1> HIDE DEF n
<1>4. 1 .. n \in SUBSET Nat
  BY <1>2
<1> QED
  BY <1>2, <1>3, <1>4, FS_Interval

\* Finitely many tests come before one.
LEMMA MatrixFinite == IsFiniteSet(Matrix)
<1> DEFINE R == Range(AllTests)
<1>1. AllTests \in Surjection(DOMAIN AllTests, R)
  <2>1. AllTests = [i \in DOMAIN AllTests |-> AllTests[i]]
    BY DEF AllTests
  <2>2. AllTests \in [DOMAIN AllTests -> R]
    BY <2>1 DEF Range
  <2> QED
    BY <2>2 DEF Surjection, Range
<1>2. IsFiniteSet(R)
  BY <1>1, PlacesAreNumbers, FS_Surjection
<1>3. Matrix \in SUBSET R
  BY DEF Matrix
<1> QED
  BY <1>2, <1>3, FS_Subset

\* The tests before one.
Before(t) == {u \in Matrix : Place(u) < Place(t)}

LEMMA BeforeFinite ==
  ASSUME NEW t
  PROVE  IsFiniteSet(Before(t)) /\ Cardinality(Before(t)) \in Nat
<1>1. Before(t) \in SUBSET Matrix
  BY DEF Before
<1>2. IsFiniteSet(Before(t))
  BY <1>1, MatrixFinite, FS_Subset
<1> QED
  BY <1>2, FS_CardinalityType

LEMMA PortOfTest ==
  ASSUME NEW t \in Matrix
  PROVE  Port(t) = 50051 + Cardinality(Before(t)) /\ Port(t) \in Nat /\ Port(t) # 0
<1>1. Port(t) = 50051 + Cardinality(Before(t))
  BY DEF Port, Ports, DefaultPort, Before
<1> QED
  BY <1>1, BeforeFinite

\* A test takes a port after those of the tests before it.
LEMMA PortsGrow ==
  ASSUME NEW t \in Matrix, NEW u \in Matrix, Place(u) < Place(t)
  PROVE  Port(u) < Port(t)
<1>1. Place(t) \in Nat /\ Place(u) \in Nat
  BY PlaceOfTest, PlacesAreNumbers
<1>2. \A v \in Matrix : Place(v) \in Nat
  BY PlaceOfTest, PlacesAreNumbers
<1>3. Before(u) \in SUBSET Before(t)
  BY <1>1, <1>2 DEF Before
<1>4. u \in Before(t) /\ u \notin Before(u)
  BY <1>1 DEF Before
<1>5. /\ Cardinality(Before(u)) <= Cardinality(Before(t))
      /\ Cardinality(Before(u)) # Cardinality(Before(t))
  BY <1>3, <1>4, BeforeFinite, FS_Subset
<1> QED
  BY <1>5, BeforeFinite, PortOfTest

\* No two tests of the matrix have the same port, whatever is left out.
THEOREM PortsDiffer == \A t, u \in Matrix : Port(t) = Port(u) => t = u
<1> SUFFICES ASSUME NEW t \in Matrix, NEW u \in Matrix, t # u
             PROVE  Port(t) # Port(u)
  OBVIOUS
<1>1. Place(t) \in Nat /\ Place(u) \in Nat /\ Place(t) # Place(u)
  BY PlaceOfTest, PlacesAreNumbers
<1>2. Port(t) \in Nat /\ Port(u) \in Nat
  BY PortOfTest
<1>3. CASE Place(t) < Place(u)
  BY <1>2, <1>3, PortsGrow
<1>4. CASE Place(u) < Place(t)
  BY <1>2, <1>4, PortsGrow
<1> QED
  BY <1>1, <1>3, <1>4

\* Another server that has the port of a test was started by hand.
LEMMA OthersAreElsewhere ==
  ASSUME NEW t \in Matrix, NEW o \in Others(t)
  PROVE  /\ o \in [port : Nat, byHand : BOOLEAN]
         /\ o.port = Port(t) => o.byHand
<1>1. CASE o = [port |-> 0, byHand |-> FALSE]
  BY <1>1, PortOfTest
<1>2. CASE \E u \in Matrix \ {t} : o = [port |-> Port(u), byHand |-> FALSE]
  BY <1>2, PortOfTest, PortsDiffer
<1>3. CASE \E i \in DOMAIN Servers : o = [port |-> PortByHand(Servers[i]), byHand |-> TRUE]
  BY <1>3 DEF PortByHand, DefaultPort
<1> QED
  BY <1>1, <1>2, <1>3 DEF Others

-----------------------------------------------------------------------------
(* Calls and times *)

LEMMA CallsAreSeq ==
  ASSUME NEW lang
  PROVE  /\ Len(Calls(lang)) \in Nat /\ Len(Calls(lang)) >= 1
         /\ Calls(lang) = [i \in 1 .. Len(Calls(lang)) |-> Calls(lang)[i]]
  BY DEF Calls

LEMMA DelayBounds ==
  ASSUME NEW lang
  PROVE  Delay(lang) \in Nat /\ Delay(lang) >= 1
  BY DEF Delay

LEMMA SendingTakesTime ==
  ASSUME NEW lang, NEW c, NEW n \in SendingTimes(lang, c)
  PROVE  n \in Nat
  BY DEF SendingTimes

\* One more answer leaves those before it where they are.
LEMMA OneMore ==
  ASSUME NEW s, s \in Seq(Range(s)), NEW e
  PROVE  /\ Append(s, e) \in Seq(Range(Append(s, e)))
         /\ Len(s) \in Nat /\ DOMAIN s = 1 .. Len(s)
         /\ Len(Append(s, e)) = Len(s) + 1
         /\ DOMAIN Append(s, e) = 1 .. Len(s) + 1
         /\ \A i \in 1 .. Len(s) : Append(s, e)[i] = s[i]
         /\ Append(s, e)[Len(s) + 1] = e
<1> DEFINE T == Range(s) \cup {e}
           a == Append(s, e)
<1>1. s \in Seq(T) /\ e \in T
  BY SeqMonotonic
<1>2. /\ a \in Seq(T) /\ Len(a) = Len(s) + 1
      /\ \A i \in 1 .. Len(s) : a[i] = s[i]
      /\ a[Len(s) + 1] = e
  BY <1>1, AppendProperties
<1>3. Len(s) \in Nat /\ DOMAIN s = 1 .. Len(s)
  BY <1>1, LenProperties
<1>4. Len(a) \in Nat /\ a \in [1 .. Len(a) -> T] /\ DOMAIN a = 1 .. Len(a)
  BY <1>2, LenProperties
<1> HIDE DEF a, T
<1>5. a \in [1 .. Len(a) -> Range(a)]
  BY <1>4 DEF Range
<1>6. a \in Seq(Range(a))
  BY <1>4, <1>5, SeqDef
<1> QED
  BY <1>2, <1>3, <1>4, <1>6 DEF a

\* The numbers of a state that is well formed.
LEMMA NumbersTyped ==
  ASSUME TestTypeOK, AnswersInv
  PROVE  /\ step \in Nat /\ 1 <= step /\ step <= Len(Calls(client)) + 1
         /\ Len(answers) \in Nat /\ Len(answers) < step
         /\ clock \in Nat /\ waited \in Nat /\ waited <= clock
         /\ Len(Calls(client)) \in Nat /\ Delay(serverLang) \in Nat
<1>1. step \in 1 .. Len(Calls(client)) + 1 /\ Len(answers) < step
  BY DEF TestTypeOK
<1>2. clock \in Nat /\ waited \in 0 .. clock
  BY DEF TestTypeOK
<1>3. Len(answers) \in Nat
  BY OneMore DEF AnswersInv
<1>4. Len(Calls(client)) \in Nat /\ Delay(serverLang) \in Nat
  BY CallsAreSeq, DelayBounds
<1>5. step \in Nat /\ 1 <= step /\ step <= Len(Calls(client)) + 1
  BY <1>1, <1>4
<1> QED
  BY <1>1, <1>2, <1>3, <1>4, <1>5

-----------------------------------------------------------------------------
(* The invariant *)

LEMMA InitInv == Init => IInv
<1> SUFFICES ASSUME Init PROVE IInv
  OBVIOUS
<1>1. /\ test \in Matrix /\ other \in Others(test)
      /\ fault \in {"none", "slow", "crash", "hang"}
      /\ otherUp = "not yet" /\ server = "starting" /\ status = "none"
      /\ verdict = "none"
  BY DEF Init
<1>2. step = 1 /\ waited = 0 /\ clock = 0
  BY DEF Init
<1>3. answers = << >>
  BY DEF Init
<1>4. limited \in BOOLEAN
  BY Zenon DEF Init
<1>5. other \in [port : Nat, byHand : BOOLEAN]
  BY <1>1, OthersAreElsewhere
<1>6. TestTypeOK
  <2>1. 1 \in 1 .. Len(Calls(client)) + 1
    BY CallsAreSeq
  <2>2. step \in 1 .. Len(Calls(client)) + 1
    BY <1>2, <2>1, Zenon
  <2>3. Len(answers) < step
    BY <1>2, <1>3
  <2>4. clock \in Nat /\ clock <= Limit /\ waited \in 0 .. clock
    <3>1. 0 \in Nat /\ 0 <= Limit /\ 0 \in 0 .. 0
      BY DEF Limit
    <3> QED
      BY <1>2, <3>1, Zenon
  <2> QED
    BY <1>1, <1>4, <1>5, <2>2, <2>3, <2>4 DEF TestTypeOK
<1>7. AnswersInv
  <2>1. << >> \in Seq(Range(<< >>))
    OBVIOUS
  <2> QED
    BY <1>3, <2>1 DEF AnswersInv
<1>8. RunningInv
  BY <1>1, <1>2 DEF RunningInv
<1>9. AnsweredInv
  BY <1>2, <1>3 DEF AnsweredInv
<1>10. OwnServerAnswers
  BY <1>3 DEF OwnServerAnswers
<1> QED
  BY <1>1, <1>6, <1>7, <1>8, <1>9, <1>10 DEF IInv

\* What stays, and what does with it, when a step leaves the client alone.
LEMMA ClientRests ==
  ASSUME IInv, UNCHANGED clientVars, UNCHANGED fixedVars, UNCHANGED clock
  PROVE  /\ other' \in Others(test')
         /\ AnswersInv' /\ AnsweredInv' /\ OwnServerAnswers'
         /\ (verdict' = "passed" => status = "ok") => RunningInv'
         /\ /\ otherUp' \in {"not yet", "up", "gone"}
            /\ server' \in {"starting", "listening", "exited"}
            /\ verdict' \in {"none", "passed", "failed", "timeout"}
            => TestTypeOK'
<1> USE DEF IInv, clientVars, fixedVars
<1>1. other' \in Others(test')
  BY DEF Others
<1>2. AnswersInv' /\ AnsweredInv' /\ OwnServerAnswers'
  BY DEF AnswersInv, AnsweredInv, OwnServerAnswers, client
<1>3. (verdict' = "passed" => status = "ok") => RunningInv'
  BY DEF RunningInv, client, serverLang
<1>4. /\ otherUp' \in {"not yet", "up", "gone"}
      /\ server' \in {"starting", "listening", "exited"}
      /\ verdict' \in {"none", "passed", "failed", "timeout"}
      => TestTypeOK'
  BY DEF TestTypeOK, client
<1> QED
  BY <1>1, <1>2, <1>3, <1>4

\* The steps of the servers, of the script and of Bazel.
LEMMA RestInv ==
  ASSUME IInv, Listen \/ Crash \/ OtherListens \/ OtherExits \/ ScriptEnds \/ Timeout \/ UNCHANGED vars
  PROVE  IInv'
<1>1. UNCHANGED clientVars /\ UNCHANGED fixedVars /\ UNCHANGED clock
  BY DEF Listen, Crash, OtherListens, OtherExits, ScriptEnds, Timeout, vars, clientVars, fixedVars
<1>2. verdict' = "passed" => status = "ok"
  BY DEF Listen, Crash, OtherListens, OtherExits, ScriptEnds, Timeout, vars, IInv, RunningInv
<1>3. /\ otherUp' \in {"not yet", "up", "gone"}
      /\ server' \in {"starting", "listening", "exited"}
      /\ verdict' \in {"none", "passed", "failed", "timeout"}
  BY DEF Listen, Crash, OtherListens, OtherExits, ScriptEnds, Timeout, vars, IInv, TestTypeOK
<1> QED
  BY <1>1, <1>2, <1>3, ClientRests DEF IInv

\* What a step that leaves the time and the own server alone must do.
LEMMA ClientStep ==
  ASSUME IInv, Running, UNCHANGED <<server, clock, verdict, fixedVars>>,
         otherUp' \in {otherUp, "gone"},
         status' \in {"running", "ok", "error"}, waited' \in {0, waited},
         \/ step' = step /\ status' # "ok"
         \/ step' = step + 1 /\ (status' = "ok" <=> step = Len(Calls(client))),
         Len(answers') \in Nat, Len(answers') < step',
         AnswersInv', AnsweredInv', OwnServerAnswers'
  PROVE  IInv'
<1>1. other' \in Others(test')
  BY DEF IInv, Others, fixedVars
<1>2. /\ Len(Calls(client)) \in Nat /\ Len(Calls(client))' = Len(Calls(client))
      /\ Delay(serverLang) \in Nat /\ Delay(serverLang)' = Delay(serverLang)
  BY CallsAreSeq, DelayBounds DEF client, serverLang, fixedVars
<1>3. /\ step \in Nat /\ 1 <= step /\ clock \in Nat /\ waited \in Nat /\ waited <= clock
      /\ clock >= waited + Delay(serverLang) /\ step <= Len(Calls(client))
  BY NumbersTyped DEF IInv, Running, RunningInv
<1>4. TestTypeOK'
  <2>1. step' \in 1 .. Len(Calls(client))' + 1
    BY <1>2, <1>3
  <2>2. waited' \in 0 .. clock'
    BY <1>3
  <2> QED
    BY <2>1, <2>2 DEF IInv, TestTypeOK, fixedVars
<1>5. RunningInv'
  <2>1. status' = "running" => clock' >= waited' + Delay(serverLang)' /\ step' <= Len(Calls(client))'
    BY <1>2, <1>3
  <2>2. status' = "ok" => step' = Len(Calls(client))' + 1
    BY <1>2, <1>3
  <2> QED
    BY <2>1, <2>2 DEF Running, RunningInv
<1> QED
  BY <1>1, <1>4, <1>5 DEF IInv

LEMMA StartInv ==
  ASSUME IInv, StartClient
  PROVE  IInv'
<1> USE DEF IInv, StartClient, fixedVars
<1>1. other' \in Others(test')
  BY DEF Others
<1>2. AnswersInv' /\ AnsweredInv' /\ OwnServerAnswers'
  BY DEF AnswersInv, AnsweredInv, OwnServerAnswers, client
<1>3. /\ Len(Calls(client)) \in Nat /\ Len(Calls(client)) >= 1
      /\ Delay(serverLang) \in Nat /\ clock \in Nat
  BY CallsAreSeq, DelayBounds DEF TestTypeOK
<1>4. RunningInv'
  BY <1>3 DEF RunningInv, client, serverLang
<1>5. TestTypeOK'
  BY DEF TestTypeOK, client
<1> QED
  BY <1>1, <1>2, <1>4, <1>5

\* The client that is answered is answered by its own server, or by one that
\* was started by hand.
LEMMA AnsweredKeeps ==
  ASSUME IInv, Answered
  PROVE  IInv'
<1>1. PICK e : /\ answers' = Append(answers, e)
               /\ e.call = call /\ e.by \in Listeners
  BY DEF Answered
<1>2. /\ Len(answers) \in Nat /\ DOMAIN answers = 1 .. Len(answers)
      /\ Len(answers') = Len(answers) + 1 /\ DOMAIN answers' = 1 .. Len(answers) + 1
      /\ \A i \in 1 .. Len(answers) : answers'[i] = answers[i]
      /\ answers'[Len(answers) + 1] = e
      /\ AnswersInv'
  BY <1>1, OneMore DEF IInv, AnswersInv
<1>3. /\ Running /\ UNCHANGED <<otherUp, server, clock, verdict, fixedVars>>
      /\ step' = step + 1 /\ waited' = 0
      /\ status' = IF step = Len(Calls(client)) THEN "ok" ELSE status
  BY DEF Answered, NextCall
<1>4. step \in Nat /\ Len(answers) < step
  BY NumbersTyped DEF IInv
<1>5. AnsweredInv'
  BY <1>1, <1>2, <1>3, <1>4 DEF IInv, AnsweredInv, call, client, fixedVars
<1>6. e.by = "own" \/ other.byHand
  <2>1. test \in Matrix /\ other \in Others(test)
    BY DEF IInv, TestTypeOK
  <2> QED
    BY <1>1, <1>3, <2>1, OthersAreElsewhere DEF Listeners, OnOurPort
<1>7. OwnServerAnswers'
  BY <1>2, <1>3, <1>6 DEF IInv, OwnServerAnswers, fixedVars
<1>8. status' \in {"running", "ok"} /\ (status' = "ok" <=> step = Len(Calls(client)))
  BY <1>3 DEF Running
<1> QED
  BY <1>2, <1>3, <1>4, <1>5, <1>7, <1>8, ClientStep

LEMMA FailsInv ==
  ASSUME IInv, Failed \/ CutOff \/ DeadlineExceeded
  PROVE  IInv'
<1>1. /\ Running /\ status' = "error" /\ UNCHANGED <<step, waited, answers>>
      /\ UNCHANGED <<server, clock, verdict, fixedVars>> /\ otherUp' \in {otherUp, "gone"}
  BY DEF Failed, CutOff, DeadlineExceeded, ExitWithError
<1>2. AnswersInv' /\ AnsweredInv' /\ OwnServerAnswers'
  BY <1>1 DEF IInv, AnswersInv, AnsweredInv, OwnServerAnswers, client, fixedVars
<1>3. Len(answers) \in Nat /\ Len(answers) < step
  BY NumbersTyped DEF IInv
<1> QED
  BY <1>1, <1>2, <1>3, ClientStep

\* A client that goes on without an answer has waited for a minute after the
\* script has slept: bazel test would have killed it.
LEMMA LatchInv ==
  ASSUME IInv, LatchExpires
  PROVE  IInv'
<1>1. /\ Running /\ UNCHANGED <<answers, otherUp, server, clock, verdict, fixedVars>>
      /\ step' = step + 1 /\ waited' = 0
      /\ status' = IF step = Len(Calls(client)) THEN "ok" ELSE status
  BY DEF LatchExpires, NextCall
<1>2. ~ limited
  <2>1. PICK n \in SendingTimes(client, call) : waited >= n + Latch
    BY DEF LatchExpires
  <2>2. n \in Nat
    BY SendingTakesTime
  <2>3. clock \in Nat /\ waited \in Nat /\ clock >= waited + Delay(serverLang)
    BY <1>1, NumbersTyped DEF IInv, RunningInv, Running
  <2>4. Delay(serverLang) \in Nat /\ Delay(serverLang) >= 1
    BY DelayBounds
  <2>5. clock > 30
    BY <2>1, <2>2, <2>3, <2>4 DEF Latch
  <2>6. limited => clock <= 30
    BY DEF IInv, TestTypeOK, Limit
  <2> QED
    BY <2>3, <2>5, <2>6
<1>3. AnswersInv' /\ AnsweredInv' /\ OwnServerAnswers'
  BY <1>1, <1>2 DEF IInv, AnswersInv, AnsweredInv, OwnServerAnswers, fixedVars
<1>4. step \in Nat /\ Len(answers) \in Nat /\ Len(answers) < step
  BY NumbersTyped DEF IInv
<1>5. status' \in {"running", "ok"} /\ (status' = "ok" <=> step = Len(Calls(client)))
  BY <1>1 DEF Running
<1> QED
  BY <1>1, <1>3, <1>4, <1>5, ClientStep

LEMMA TickInv ==
  ASSUME IInv, Tick
  PROVE  IInv'
<1> USE DEF IInv, fixedVars
<1>1. /\ UNCHANGED <<otherUp, server, status, step, answers, verdict, fixedVars>>
      /\ clock' = clock + 1 /\ verdict = "none"
      /\ waited' = IF status = "running" THEN waited + 1 ELSE waited
      /\ limited => ~ (clock >= Limit)
  BY DEF Tick, Due
<1>2. other' \in Others(test')
  BY <1>1 DEF Others
<1>3. AnswersInv' /\ AnsweredInv' /\ OwnServerAnswers'
  BY <1>1 DEF AnswersInv, AnsweredInv, OwnServerAnswers, client
<1>4. clock \in Nat /\ waited \in Nat /\ waited <= clock /\ Delay(serverLang) \in Nat
  BY NumbersTyped
<1>5. RunningInv'
  BY <1>1, <1>4 DEF RunningInv, client, serverLang
<1>6. TestTypeOK'
  <2>1. clock' \in Nat /\ waited' \in 0 .. clock'
    BY <1>1, <1>4
  <2>2. limited => clock' <= Limit
    BY <1>1, <1>4 DEF Limit
  <2> QED
    BY <1>1, <2>1, <2>2 DEF TestTypeOK, client
<1> QED
  BY <1>2, <1>3, <1>5, <1>6

LEMMA NextInv == IInv /\ [Next]_vars => IInv'
<1> SUFFICES ASSUME IInv, [Next]_vars PROVE IInv'
  OBVIOUS
<1>1. CASE Listen \/ Crash \/ OtherListens \/ OtherExits \/ ScriptEnds \/ Timeout \/ UNCHANGED vars
  BY <1>1, RestInv
<1>2. CASE StartClient
  BY <1>2, StartInv
<1>3. CASE Answered
  BY <1>3, AnsweredKeeps
<1>4. CASE Failed \/ CutOff \/ DeadlineExceeded
  BY <1>4, FailsInv
<1>5. CASE LatchExpires
  BY <1>5, LatchInv
<1>6. CASE Tick
  BY <1>6, TickInv
<1> QED
  BY <1>1, <1>2, <1>3, <1>4, <1>5, <1>6 DEF Next

\* Where a client is, what it was answered and by whom, at every moment.
THEOREM Invariance == Spec => []IInv
  BY InitInv, NextInv, PTL DEF Spec

-----------------------------------------------------------------------------
(* The properties *)

\* The state is well formed, and no test outlives its limit.
THEOREM TypeCorrect == Spec => []TestTypeOK
<1>1. IInv => TestTypeOK
  BY DEF IInv
<1> QED
  BY <1>1, Invariance, PTL

\* The calls of a client are answered by the server of its test, unless
\* another one was started by hand: the ports of a matrix differ, whatever
\* is left out of it.
THEOREM AnsweredByOwn == Spec => []OwnServerAnswers
<1>1. IInv => OwnServerAnswers
  BY DEF IInv
<1> QED
  BY <1>1, Invariance, PTL

\* A test that passes had an answer to each of its calls.
THEOREM PassedWasAnswered == Spec => []PassMeansAnswered
<1>1. IInv => PassMeansAnswered
  <2> SUFFICES ASSUME IInv, limited, verdict = "passed"
               PROVE  [i \in DOMAIN answers |-> answers[i].call] = Calls(client)
    BY DEF PassMeansAnswered
  <2>1. /\ Len(answers) = Len(Calls(client))
        /\ \A i \in 1 .. Len(Calls(client)) : answers[i].call = Calls(client)[i]
    BY CallsAreSeq DEF IInv, RunningInv, AnsweredInv
  <2>2. DOMAIN answers = 1 .. Len(Calls(client))
    BY <2>1, OneMore DEF IInv, AnswersInv
  <2>3. Calls(client) = [i \in 1 .. Len(Calls(client)) |-> Calls(client)[i]]
    BY CallsAreSeq
  <2>4. [i \in DOMAIN answers |-> answers[i].call] = [i \in 1 .. Len(Calls(client)) |-> Calls(client)[i]]
    BY <2>1, <2>2
  <2> QED
    BY <2>3, <2>4
<1> QED
  BY <1>1, Invariance, PTL

-----------------------------------------------------------------------------
(* The answers *)

\* The features are a list in which none comes twice.
LEMMA FeaturesAreSeq ==
  /\ Features \in Seq(Range(Features)) /\ Len(Features) \in Nat
  /\ DOMAIN Features = 1 .. Len(Features)
  /\ Range(Features) = {Features[i] : i \in 1 .. Len(Features)}
  /\ \A i \in 1 .. Len(Features) : Features[i].location \in (-90 .. 90) \X (-180 .. 180)
  /\ \A i, j \in 1 .. Len(Features) : Features[i].location = Features[j].location => i = j
<1>1. /\ Len(Features) \in Nat /\ DOMAIN Features = 1 .. Len(Features)
      /\ Features \in [1 .. Len(Features) -> [name : STRING, location : Points]]
  BY FeaturesAssumption, LenProperties
<1>2. Range(Features) = {Features[i] : i \in 1 .. Len(Features)}
  BY <1>1 DEF Range
<1>3. Features \in Seq(Range(Features))
  BY <1>1, <1>2
<1>4. \A i \in 1 .. Len(Features) : Features[i].location \in Points
  BY <1>1
<1> QED
  BY <1>1, <1>2, <1>3, <1>4, FeaturesAssumption

\* The feature that is found at a point is the only one that is there.
LEMMA FoundAt ==
  ASSUME NEW p
  PROVE  /\ CheckFeature(p).location = p
         /\ \/ \E i \in 1 .. Len(Features) : CheckFeature(p) = Features[i]
            \/ /\ CheckFeature(p).name = Unnamed
               /\ \A i \in 1 .. Len(Features) : Features[i].location # p
         /\ \A i \in 1 .. Len(Features) : Features[i].location = p => CheckFeature(p) = Features[i]
<1> DEFINE found == {i \in DOMAIN Features : Features[i].location = p}
           first == CHOOSE i \in found : \A j \in found : i <= j
<1>1. CheckFeature(p) = IF found = {} THEN [name |-> Unnamed, location |-> p] ELSE Features[first]
  BY DEF CheckFeature
<1>2. \A i \in 1 .. Len(Features) : i \in found <=> Features[i].location = p
  BY FeaturesAreSeq
<1>3. found \in SUBSET Nat /\ found \subseteq 1 .. Len(Features)
  BY FeaturesAreSeq
<1>4. CASE found = {}
  BY <1>1, <1>2, <1>4
<1>5. CASE found # {}
  <2>1. \E i \in found : \A j \in found : i <= j
    <3> HIDE DEF found
    <3> QED
      BY <1>3, <1>5, Least
  <2>2. first \in found
    <3> HIDE DEF found
    <3> QED
      BY <2>1
  <2>3. first \in 1 .. Len(Features) /\ Features[first].location = p
    BY <1>3, <2>2
  <2> HIDE DEF first, found
  <2>4. CheckFeature(p) = Features[first]
    BY <1>1, <1>5
  <2>5. \A i \in 1 .. Len(Features) : Features[i].location = p => i = first
    BY <2>3, FeaturesAreSeq
  <2> QED
    BY <2>3, <2>4, <2>5
<1> QED
  BY <1>4, <1>5

\* A feature is what was asked for.
LEMMA FeatureFits ==
  ASSUME NEW p
  PROVE  GetFits(p, CheckFeature(p))
<1>1. /\ CheckFeature(p).location = p
      /\ \/ \E i \in 1 .. Len(Features) : CheckFeature(p) = Features[i]
         \/ /\ CheckFeature(p).name = Unnamed
            /\ \A i \in 1 .. Len(Features) : Features[i].location # p
  BY FoundAt
<1>2. \A g \in Range(Features) : \E i \in 1 .. Len(Features) : g = Features[i]
  BY FeaturesAreSeq
<1>3. \A i \in 1 .. Len(Features) : Features[i] \in Range(Features)
  BY FeaturesAreSeq
<1> QED
  BY <1>1, <1>2, <1>3 DEF GetFits

\* Of a list without repetitions, those among some are each there once.
LEMMA AmongOnce ==
  ASSUME NEW T, NEW list \in Seq(T), NEW some,
         \A i, j \in 1 .. Len(list) : list[i] = list[j] => i = j
  PROVE  /\ Among(list, some) \in Seq(T)
         /\ \A i \in 1 .. Len(Among(list, some)) :
              Among(list, some)[i] \in some /\ \E k \in 1 .. Len(list) : Among(list, some)[i] = list[k]
         /\ \A k \in 1 .. Len(list) : list[k] \in some =>
              \E i \in 1 .. Len(Among(list, some)) : Among(list, some)[i] = list[k]
         /\ \A i, j \in 1 .. Len(Among(list, some)) : Among(list, some)[i] = Among(list, some)[j] => i = j
<1> DEFINE n == Len(list)
<1>1. n \in Nat /\ \A k \in 1 .. n : list[k] \in T
  BY LenProperties
<1>2. PICK f : /\ f = [i \in 0 .. n |->
                         IF i = 0 THEN << >>
                         ELSE IF list[i] \in some THEN Append(f[i - 1], list[i]) ELSE f[i - 1]]
               /\ Among(list, some) = f[n]
  BY <1>1, AmongUnfolds
<1> DEFINE Good(s, m) ==
             /\ s \in Seq(T)
             /\ \A i \in 1 .. Len(s) : s[i] \in some /\ \E k \in 1 .. m : s[i] = list[k]
             /\ \A k \in 1 .. m : list[k] \in some => \E i \in 1 .. Len(s) : s[i] = list[k]
             /\ \A i, j \in 1 .. Len(s) : s[i] = s[j] => i = j
           Bad == {m \in 0 .. n : ~ Good(f[m], m)}
<1> HIDE DEF n
<1>3. f[0] = << >> /\ \A m \in 1 .. n : f[m] = IF list[m] \in some THEN Append(f[m - 1], list[m]) ELSE f[m - 1]
  <2>1. 0 \in 0 .. n /\ \A m \in 1 .. n : m \in 0 .. n /\ m # 0
    BY <1>1
  <2>2. \A i \in 0 .. n : f[i] = IF i = 0 THEN << >>
                                 ELSE IF list[i] \in some THEN Append(f[i - 1], list[i]) ELSE f[i - 1]
    BY <1>2
  <2> QED
    BY <2>1, <2>2
<1>4. Good(f[0], 0)
  BY <1>3
<1>5. ASSUME NEW m \in 1 .. n, Good(f[m - 1], m - 1)
      PROVE  Good(f[m], m)
  <2> DEFINE s == f[m - 1]
             r == f[m]
  <2>1. /\ s \in Seq(T) /\ Len(s) \in Nat /\ m \in Nat /\ m - 1 \in Nat
        /\ \A k \in 1 .. m : k \in 1 .. m - 1 \/ k = m
        /\ \A k \in 1 .. m - 1 : k \in 1 .. m /\ k \in 1 .. n /\ k # m
        /\ m \in 1 .. m /\ list[m] \in T
    BY <1>1, <1>5, LenProperties
  <2>2. r = IF list[m] \in some THEN Append(s, list[m]) ELSE s
    BY <1>3
  <2>3. CASE list[m] \notin some
    <3>1. r = s
      BY <2>2, <2>3
    <3> HIDE DEF r, s
    <3> QED
      BY <1>5, <2>1, <2>3, <3>1 DEF r, s
  <2>4. CASE list[m] \in some
    <3> DEFINE a == Append(s, list[m])
    <3>1. /\ a \in Seq(T) /\ Len(a) = Len(s) + 1
          /\ \A i \in 1 .. Len(s) : a[i] = s[i]
          /\ a[Len(s) + 1] = list[m]
      BY <2>1, AppendProperties
    <3>2. r = a
      BY <2>2, <2>4
    <3>3. /\ \A i \in 1 .. Len(a) : i \in 1 .. Len(s) \/ i = Len(s) + 1
          /\ \A i \in 1 .. Len(s) : i \in 1 .. Len(a)
          /\ Len(s) + 1 \in 1 .. Len(a)
      BY <2>1, <3>1
    <3>4. /\ \A i \in 1 .. Len(s) : s[i] \in some /\ \E k \in 1 .. m - 1 : s[i] = list[k]
          /\ \A k \in 1 .. m - 1 : list[k] \in some => \E i \in 1 .. Len(s) : s[i] = list[k]
          /\ \A i, j \in 1 .. Len(s) : s[i] = s[j] => i = j
      BY <1>5
    <3> HIDE DEF a, s, r
    <3>5. ASSUME NEW i \in 1 .. Len(a)
          PROVE  a[i] \in some /\ \E k \in 1 .. m : a[i] = list[k]
      <4>1. CASE i = Len(s) + 1
        BY <2>1, <2>4, <3>1, <4>1
      <4>2. CASE i \in 1 .. Len(s)
        <5>1. a[i] \in some /\ \E k \in 1 .. m - 1 : a[i] = list[k]
          BY <3>1, <3>4, <4>2
        <5> QED
          BY <2>1, <5>1
      <4> QED
        BY <3>3, <4>1, <4>2
    <3>6. \A k \in 1 .. m : list[k] \in some => \E i \in 1 .. Len(a) : a[i] = list[k]
      BY <2>1, <3>1, <3>3, <3>4
    <3>7. \A i \in 1 .. Len(s) : s[i] # list[m]
      BY <2>1, <3>4, <1>1 DEF n
    <3>8. \A i, j \in 1 .. Len(a) : a[i] = a[j] => i = j
      BY <3>1, <3>3, <3>4, <3>7
    <3> QED
      BY <3>1, <3>2, <3>5, <3>6, <3>8 DEF r
  <2> QED
    BY <2>3, <2>4
<1>6. Bad = {}
  <2> SUFFICES ASSUME Bad # {} PROVE FALSE
    OBVIOUS
  <2>1. Bad \in SUBSET Nat
    BY <1>1
  <2>2. PICK m \in Bad : \A k \in Bad : m <= k
    <3> HIDE DEF Bad
    <3> QED
      BY <2>1, Least
  <2>3. m \in 0 .. n /\ ~ Good(f[m], m)
    OBVIOUS
  <2> HIDE DEF Good
  <2>4. m # 0
    BY <1>4, <2>3
  <2>5. m \in 1 .. n /\ m - 1 \in 0 .. n /\ m - 1 < m
    BY <1>1, <2>3, <2>4
  <2>6. Good(f[m - 1], m - 1)
    BY <2>2, <2>5
  <2> QED
    BY <1>5, <2>3, <2>5, <2>6
<1>7. Good(f[n], n)
  <2> HIDE DEF Good
  <2> QED
    BY <1>1, <1>6
<1>8. Good(Among(list, some), n)
  <2> HIDE DEF Good
  <2> QED
    BY <1>2, <1>7
<1> QED
  BY <1>8 DEF n

\* The two ways of saying that a point is in an area.
LEMMA WithinIsInside ==
  ASSUME NEW lang, NEW p \in (-90 .. 90) \X (-180 .. 180)
  PROVE  Within(Area(lang), p) <=> Inside(Area(lang), p)
<1> DEFINE lo == Area(lang).lo
           hi == Area(lang).hi
<1>1. \A i \in 1 .. 2 : p[i] \in Int /\ lo[i] \in Int /\ hi[i] \in Int
  <2>1. p[1] \in Int /\ p[2] \in Int
    OBVIOUS
  <2>2. lo[1] \in Int /\ lo[2] \in Int /\ hi[1] \in Int /\ hi[2] \in Int
    BY DEF Area
  <2> QED
    BY <2>1, <2>2
<1>2. \A x, l, h \in Int : (x - l) * (x - h) <= 0 <=> (l <= x /\ x <= h) \/ (h <= x /\ x <= l)
  OBVIOUS
<1> HIDE DEF lo, hi
<1>3. \A i \in 1 .. 2 : (p[i] - lo[i]) * (p[i] - hi[i]) <= 0
                    <=> (lo[i] <= p[i] /\ p[i] <= hi[i]) \/ (hi[i] <= p[i] /\ p[i] <= lo[i])
  BY <1>1, <1>2
<1> QED
  BY <1>3 DEF Within, Inside, lo, hi

\* The features of an area are all listed, once each.
LEMMA ListIsFit ==
  ASSUME NEW lang, NEW answering \in Langs \ {"js"}
  PROVE  ListFits(Area(lang), ListFeatures(answering, Area(lang)))
<1> DEFINE rect == Area(lang)
           some == {f \in Range(Features) :
                      /\ answering # "js"
                      /\ f.name = Unnamed => answering \in ListsUnnamed
                      /\ Within(rect, f.location)}
           listed == Among(Features, some)
<1>1. ListFeatures(answering, rect) = listed
  BY DEF ListFeatures
<1>2. \A i, j \in 1 .. Len(Features) : Features[i] = Features[j] => i = j
  BY FeaturesAreSeq
<1>3. /\ listed \in Seq(Range(Features))
      /\ \A i \in 1 .. Len(listed) : listed[i] \in some
      /\ \A k \in 1 .. Len(Features) : Features[k] \in some => \E i \in 1 .. Len(listed) : listed[i] = Features[k]
      /\ \A i, j \in 1 .. Len(listed) : listed[i] = listed[j] => i = j
  <2> HIDE DEF some, rect
  <2>1. Features \in Seq(Range(Features))
    BY FeaturesAreSeq
  <2> QED
    BY <1>2, <2>1, AmongOnce
<1>4. \A f \in Range(Features) : Within(rect, f.location) <=> Inside(rect, f.location)
  <2>1. ASSUME NEW f \in Range(Features)
        PROVE  f.location \in (-90 .. 90) \X (-180 .. 180)
    <3>1. PICK i \in 1 .. Len(Features) : f = Features[i]
      BY FeaturesAreSeq
    <3> QED
      BY <3>1, FeaturesAreSeq
  <2> QED
    BY <2>1, WithinIsInside
<1>5. \A f \in some : f \in Range(Features) /\ Inside(rect, f.location)
  BY <1>4
<1>6. \A f \in Range(Features) : f.name # Unnamed /\ Inside(rect, f.location) => f \in some
  BY <1>4
<1> HIDE DEF some, listed, rect
<1>7. DOMAIN listed = 1 .. Len(listed)
  BY <1>3, LenProperties
<1>8. Range(listed) = {listed[i] : i \in 1 .. Len(listed)}
  BY <1>7 DEF Range
<1>9. IsInjective(listed)
  BY <1>3, <1>7 DEF IsInjective
<1>10. \A f \in Range(Features) : f \in some => f \in Range(listed)
  BY <1>3, <1>8, FeaturesAreSeq
<1>11. \A f \in Range(listed) : f \in some
  BY <1>3, <1>8
<1>12. ListFits(rect, listed)
  BY <1>5, <1>6, <1>9, <1>10, <1>11 DEF ListFits
<1> QED
  BY <1>1, <1>12 DEF rect

\* The sums of the distances of a route exist.
LEMMA TravelledUnfolds ==
  ASSUME NEW points, Len(points) \in Nat
  PROVE  \E f :
           /\ f = [i \in 1 .. Len(points) |->
                     IF i = 1 THEN 0 ELSE f[i - 1] + Distance[<<points[i - 1], points[i]>>]]
           /\ Travelled(points) = f[Len(points)]
<1> DEFINE Def(f, m) ==
             f = [i \in 1 .. m |-> IF i = 1 THEN 0 ELSE f[i - 1] + Distance[<<points[i - 1], points[i]>>]]
           Bad == {m \in Nat : ~ \E f : Def(f, m)}
           upTo[i \in 1 .. Len(points)] ==
             IF i = 1 THEN 0 ELSE upTo[i - 1] + Distance[<<points[i - 1], points[i]>>]
<1>1. Bad = {}
  <2> SUFFICES ASSUME Bad # {} PROVE FALSE
    OBVIOUS
  <2>1. \E m \in Bad : \A k \in Bad : m <= k
    <3>1. Bad \in SUBSET Nat
      OBVIOUS
    <3> HIDE DEF Bad
    <3> QED
      BY <3>1, Least
  <2>2. PICK m \in Bad : \A k \in Bad : m <= k
    BY <2>1
  <2>3. m \in Nat
    OBVIOUS
  <2>4. m # 0
    <3>1. Def([i \in 1 .. 0 |-> 0], 0)
      OBVIOUS
    <3> QED
      BY <3>1
  <2>5. m - 1 \in Nat /\ m - 1 \notin Bad
    <3> HIDE DEF Bad
    <3> QED
      BY <2>2, <2>3, <2>4
  <2>6. PICK f : Def(f, m - 1)
    BY <2>5
  <2> DEFINE last == IF m = 1 THEN 0 ELSE f[m - 1] + Distance[<<points[m - 1], points[m]>>]
             g == [i \in 1 .. m |-> IF i = m THEN last ELSE f[i]]
  <2>7. Def(g, m)
    <3>1. SUFFICES ASSUME NEW i \in 1 .. m
                   PROVE  g[i] = IF i = 1 THEN 0 ELSE g[i - 1] + Distance[<<points[i - 1], points[i]>>]
      OBVIOUS
    <3>2. CASE i = m
      BY <2>3, <2>4, <3>2
    <3>3. CASE i # m
      <4>1. i \in 1 .. m - 1 /\ (i # 1 => i - 1 \in 1 .. m - 1 /\ i - 1 # m)
        BY <2>3, <2>5, <3>3
      <4>2. f[i] = IF i = 1 THEN 0 ELSE f[i - 1] + Distance[<<points[i - 1], points[i]>>]
        BY <2>6, <4>1
      <4> QED
        BY <3>3, <4>1, <4>2
    <3> QED
      BY <3>2, <3>3
  <2> QED
    BY <2>3, <2>7
<1>2. \E f : Def(f, Len(points))
  BY <1>1
<1>3. Def(upTo, Len(points))
  BY <1>2
<1>4. Travelled(points) = upTo[Len(points)]
  BY DEF Travelled
<1> HIDE DEF upTo
<1> QED
  BY <1>3, <1>4

\* A route is no longer than its legs can be together.
LEMMA TravelledBound ==
  ASSUME NEW points, NEW n \in Nat \ {0}, Len(points) = n, \A i \in 1 .. n : points[i] \in Points
  PROVE  Travelled(points) \in 0 .. 20016 * (n - 1)
<1>1. PICK f : /\ f = [i \in 1 .. n |->
                         IF i = 1 THEN 0 ELSE f[i - 1] + Distance[<<points[i - 1], points[i]>>]]
               /\ Travelled(points) = f[n]
  BY TravelledUnfolds
<1>2. f[1] = 0 /\ \A i \in 2 .. n : f[i] = f[i - 1] + Distance[<<points[i - 1], points[i]>>]
  <2>1. \A i \in 1 .. n : f[i] = IF i = 1 THEN 0 ELSE f[i - 1] + Distance[<<points[i - 1], points[i]>>]
    BY <1>1
  <2>2. 1 \in 1 .. n /\ \A i \in 2 .. n : i \in 1 .. n /\ i # 1
    OBVIOUS
  <2> QED
    BY <2>1, <2>2
<1>3. \A i \in 2 .. n : Distance[<<points[i - 1], points[i]>>] \in 0 .. MaxLeg
  <2>1. Distance \in [Points \X Points -> 0 .. MaxLeg]
    BY Zenon, FeaturesAssumption
  <2>2. \A i \in 2 .. n : i \in 1 .. n /\ i - 1 \in 1 .. n
    OBVIOUS
  <2>3. \A i \in 2 .. n : <<points[i - 1], points[i]>> \in Points \X Points
    BY <2>2
  <2> QED
    BY <2>1, <2>3, Zenon
<1> DEFINE Bad == {m \in 1 .. n : f[m] \notin 0 .. 20016 * (m - 1)}
<1>4. Bad = {}
  <2> SUFFICES ASSUME Bad # {} PROVE FALSE
    OBVIOUS
  <2>1. Bad \in SUBSET Nat
    OBVIOUS
  <2>2. PICK m \in Bad : \A k \in Bad : m <= k
    <3> HIDE DEF Bad
    <3> QED
      BY <2>1, Least
  <2>3. m \in 1 .. n /\ f[m] \notin 0 .. 20016 * (m - 1)
    OBVIOUS
  <2>4. m # 1
    BY <1>2, <2>3
  <2>5. m \in 2 .. n /\ m - 1 \in 1 .. n /\ m - 1 < m
    BY <2>3, <2>4
  <2>6. f[m - 1] \in 0 .. 20016 * (m - 1 - 1)
    BY <2>2, <2>5
  <2> DEFINE leg == Distance[<<points[m - 1], points[m]>>]
             sum == f[m - 1]
  <2>7. f[m] = sum + leg /\ leg \in 0 .. 20016 /\ sum \in 0 .. 20016 * (m - 1 - 1)
    <3> HIDE DEF Bad
    <3>0. m \in 2 .. n
      BY <2>5, Zenon
    <3>1. f[m] = sum + leg
      BY <1>2, <3>0, Zenon
    <3>2. leg \in 0 .. MaxLeg
      BY <1>3, <3>0, Zenon
    <3> HIDE DEF leg, sum
    <3>3. leg \in 0 .. 20016
      BY <3>2, SMT DEF MaxLeg
    <3> QED
      BY <2>6, <3>1, <3>3, SMT DEF sum
  <2> HIDE DEF Bad, leg, sum
  <2>8. sum + leg \in 0 .. 20016 * (m - 1)
    <3>1. m \in Int /\ sum \in Int /\ leg \in Int /\ 0 <= sum /\ 0 <= leg
          /\ sum <= 20016 * (m - 1 - 1) /\ leg <= 20016
      BY <2>5, <2>7, SMT
    <3> QED
      BY <3>1, SMT
  <2> QED
    BY <2>3, <2>7, <2>8
<1>5. n \in 1 .. n
  OBVIOUS
<1>6. f[n] \in 0 .. 20016 * (n - 1)
  BY <1>4, <1>5
<1> QED
  BY <1>1, <1>6

\* The sum of a route of 101 points does not begin anew.
LEMMA NoWrap ==
  ASSUME NEW km \in Nat, km <= 2001600
  PROVE  Int32(km) = km
<1>1. (km + 2147483) % 4294967 = km + 2147483
  BY SMT
<1> QED
  BY <1>1, SMT DEF Int32

\* What counts as a feature of a route: at least those with a name, and at
\* most all.
LEMMA CountsBetween ==
  ASSUME NEW answering \in Langs \ {"js"}, NEW p
  PROVE  /\ (\E f \in {g \in Range(Features) : g.name # Unnamed} : f.location = p) => Counts(answering, p)
         /\ Counts(answering, p) => \E f \in Range(Features) : f.location = p
<1>1. \A f \in Range(Features) : \E i \in 1 .. Len(Features) : f = Features[i]
  BY FeaturesAreSeq
<1>2. \A i \in 1 .. Len(Features) : Features[i] \in Range(Features)
  BY FeaturesAreSeq
<1>3. CASE answering \in {"go", "python"}
  <2>1. Counts(answering, p) <=> \E i \in 1 .. Len(Features) : Features[i].location = p
    BY <1>3, FeaturesAreSeq DEF Counts
  <2> QED
    BY <1>1, <1>2, <2>1
<1>4. CASE answering \notin {"go", "python"}
  <2>1. Counts(answering, p) <=> CheckFeature(p).name # Unnamed
    BY <1>4 DEF Counts
  <2> QED
    BY <1>1, <1>2, <2>1, FoundAt
<1> QED
  BY <1>3, <1>4

\* The summary of a route.
LEMMA SummaryIsFit ==
  ASSUME NEW lang \in Langs, NEW answering \in Langs \ {"js"}, NEW route \in Routes(lang)
  PROVE  SummaryFits(PointsOf(route), RecordRoute(answering, PointsOf(route)))
<1> DEFINE points == PointsOf(route)
           n == route.length
<1>1. n \in 2 .. 101
  <2>1. n \in RouteLengths(lang)
    BY DEF Routes, Extremes
  <2> QED
    BY <2>1 DEF RouteLengths
<1>2. route.from \in Points /\ route.to \in Points
  BY MatrixAssumption DEF Routes
<1>3. points = [i \in 1 .. n |-> IF i % 2 = 1 THEN route.from ELSE route.to]
  BY DEF PointsOf
<1>4. DOMAIN points = 1 .. n /\ \A i \in 1 .. n : points[i] \in Points
  BY <1>2, <1>3
<1>5. Len(points) = n
  <2>1. points \in Seq(Points)
    <3> HIDE DEF points, n
    <3>1. points = [i \in 1 .. n |-> points[i]]
      BY <1>3 DEF points
    <3>2. points \in [1 .. n -> Points]
      BY <1>4, <3>1
    <3>3. n \in Nat
      BY <1>1
    <3> QED
      BY <3>2, <3>3
  <2> HIDE DEF points, n
  <2> QED
    BY <1>1, <1>4, <2>1, LenProperties
<1> HIDE DEF points, n
<1>6. Travelled(points) \in 0 .. 20016 * (n - 1)
  BY <1>1, <1>4, <1>5, TravelledBound
<1>7. Int32(Travelled(points)) = Travelled(points)
  <2>1. Travelled(points) \in Nat /\ Travelled(points) <= 2001600
    BY <1>1, <1>6, SMT
  <2> QED
    BY <2>1, NoWrap, SMT
<1> DEFINE Passed(S) == {i \in DOMAIN points : \E f \in S : f.location = points[i]}
           Named == Passed({f \in Range(Features) : f.name # Unnamed})
           Counted == {i \in DOMAIN points : Counts(answering, points[i])}
           All == Passed(Range(Features))
<1>8. Named \subseteq Counted /\ Counted \subseteq All /\ All \subseteq 1 .. n
  BY <1>4, CountsBetween
<1>9. Cardinality(Named) <= Cardinality(Counted) /\ Cardinality(Counted) <= Cardinality(All)
  <2> HIDE DEF Named, Counted, All
  <2>1. IsFiniteSet(1 .. n)
    BY <1>1, FS_Interval
  <2>2. IsFiniteSet(All)
    BY <1>8, <2>1, FS_Subset
  <2>3. IsFiniteSet(Counted) /\ Cardinality(Counted) <= Cardinality(All)
    BY <1>8, <2>2, FS_Subset
  <2> QED
    BY <1>8, <2>3, FS_Subset
<1>10. LET summary == RecordRoute(answering, points)
       IN /\ summary.point_count = Len(points)
          /\ summary.distance = Travelled(points)
          /\ summary.feature_count = Cardinality(Counted)
  BY <1>7 DEF RecordRoute
<1> QED
  BY <1>9, <1>10 DEF SummaryFits, points

\* The languages of a test are among those of the examples.
LEMMA LanguagesOfTest ==
  ASSUME NEW t \in Matrix
  PROVE  t[1] \in Langs /\ t[2] \in Langs
<1>1. PICK i \in DOMAIN AllTests : AllTests[i] = t
  BY DEF Matrix, Range
<1>2. /\ Len(Servers) \in Nat /\ Len(Clients) \in Nat
      /\ \A j \in 1 .. Len(Clients) : Clients[j] \in Langs
      /\ \A j \in 1 .. Len(Servers) : Servers[j] \in Langs
  BY MatrixAssumption, LenProperties
<1> DEFINE c == ((i - 1) % Len(Clients)) + 1
           d == ((i - 1) \div Len(Clients)) + 1
<1>3. i \in 1 .. Len(Servers) * Len(Clients) /\ t = <<Clients[c], Servers[d]>>
  BY <1>1 DEF AllTests
<1>4. c \in 1 .. Len(Clients) /\ d \in 1 .. Len(Servers)
  <2>1. \A x, y, z \in Nat : z \in 1 .. x * y => y > 0 /\ (z - 1) % y \in 0 .. y - 1
    OBVIOUS
  <2>2. \A x, y, z \in Nat : z \in 1 .. x * y => (z - 1) \div y \in 0 .. x - 1
    OBVIOUS
  <2>3. c \in 1 .. Len(Clients)
    BY <1>2, <1>3, <2>1
  <2>4. (i - 1) \div Len(Clients) \in 0 .. Len(Servers) - 1
    <3> DEFINE x == Len(Servers)
               y == Len(Clients)
    <3>1. x \in Nat /\ y \in Nat /\ i \in Nat /\ i \in 1 .. x * y
      BY <1>2, <1>3
    <3> HIDE DEF x, y
    <3>2. (i - 1) \div y \in 0 .. x - 1
      BY <2>2, <3>1
    <3> QED
      BY <3>2 DEF x, y
  <2> QED
    BY <1>2, <2>3, <2>4
<1> QED
  BY <1>2, <1>3, <1>4

\* An answer fits, and stays the latest until the next one.
LEMMA LatestFits ==
  ASSUME IInv, AnswersFit, [Next]_vars
  PROVE  AnswersFit'
<1>1. CASE Answered
  <2>1. PICK request \in Requests, by \in Listeners :
          answers' = Append(answers, [call |-> call, request |-> request, by |-> by,
                                      reply |-> Reply(serverLang, request)])
    BY <1>1 DEF Answered
  <2> DEFINE e == [call |-> call, request |-> request, by |-> by, reply |-> Reply(serverLang, request)]
  <2>2. /\ Len(answers) \in Nat /\ Len(answers') = Len(answers) + 1
        /\ answers'[Len(answers) + 1] = e
    BY <2>1, OneMore DEF IInv, AnswersInv
  <2>3. Last(answers)' = e
    BY <2>2 DEF Last
  <2>4. e.call = call /\ e.request = request /\ e.reply = Reply(serverLang, request)
    OBVIOUS
  <2>5. serverLang \in Langs /\ client \in Langs /\ serverLang' = serverLang
    <3>1. test' = test
      BY <1>1 DEF Answered, fixedVars
    <3>2. test \in Matrix
      BY DEF IInv, TestTypeOK
    <3> QED
      BY <3>1, <3>2, LanguagesOfTest DEF client, serverLang
  <2> HIDE DEF e
  <2>6. call = "GetFeature" => GetFits(request, Reply(serverLang, request))
    BY FeatureFits DEF Reply
  <2>7. call = "ListFeatures" => serverLang = "js" \/ ListFits(request, Reply(serverLang, request))
    <3> SUFFICES ASSUME call = "ListFeatures", serverLang # "js"
                 PROVE  ListFits(request, Reply(serverLang, request))
      OBVIOUS
    <3>1. request = Area(client) /\ Reply(serverLang, request) = ListFeatures(serverLang, request)
      BY DEF Requests, Reply
    <3> QED
      BY <2>5, <3>1, ListIsFit
  <2>8. call = "RecordRoute" => serverLang = "js" \/ SummaryFits(PointsOf(request), Reply(serverLang, request))
    <3> SUFFICES ASSUME call = "RecordRoute", serverLang # "js"
                 PROVE  SummaryFits(PointsOf(request), Reply(serverLang, request))
      OBVIOUS
    <3>1. request \in Routes(client) /\ Reply(serverLang, request) = RecordRoute(serverLang, PointsOf(request))
      BY DEF Requests, Reply
    <3> QED
      BY <2>5, <3>1, SummaryIsFit
  <2> QED
    BY <2>3, <2>4, <2>5, <2>6, <2>7, <2>8 DEF AnswersFit, LatestTo
<1>2. CASE ~ Answered
  <2>1. answers' = answers /\ test' = test
    BY <1>2 DEF Next, Listen, Crash, OtherListens, OtherExits, StartClient, Failed, CutOff, DeadlineExceeded,
                ExitWithError, LatchExpires, ScriptEnds, Timeout, Tick, vars, clientVars, fixedVars
  <2> QED
    BY <2>1 DEF AnswersFit, LatestTo, serverLang
<1> QED
  BY <1>1, <1>2

\* Whatever the database, the matrix and the routes that are drawn, an answer
\* is what the proto file says, but for two of the JavaScript server: a route of
\* 101 points cannot be so long that its sum begins anew.
THEOREM AnswersAreFit == Spec => []AnswersFit
<1>1. Init => AnswersFit
  <2> SUFFICES ASSUME Init PROVE AnswersFit
    OBVIOUS
  <2>1. answers = << >>
    BY DEF Init
  <2> QED
    BY <2>1 DEF AnswersFit, LatestTo
<1>2. IInv /\ AnswersFit /\ [Next]_vars => AnswersFit'
  BY LatestFits
<1> QED
  BY <1>1, <1>2, Invariance, PTL DEF Spec

-----------------------------------------------------------------------------
(* A healthy test in its time *)

\* RecordRoute is the last call but one, and no test makes more than five.
LEMMA RecordRouteFacts ==
  ASSUME IInv, status = "running"
  PROVE  /\ Len(Calls(client)) \in {4, 5} /\ step \in 1 .. Len(Calls(client))
         /\ call = "RecordRoute" <=> step = Len(Calls(client)) - 1
<1>1. Len(Calls(client)) \in Nat /\ step \in Nat /\ 1 <= step
  BY NumbersTyped DEF IInv
<1>2. step <= Len(Calls(client))
  BY DEF IInv, RunningInv
<1>3. CASE client = "scala"
  <2>1. Calls(client) = <<"GetFeature", "ListFeatures", "RecordRoute", "RouteChat">>
    BY <1>3 DEF Calls
  <2>2. step \in {1, 2, 3, 4} /\ Len(Calls(client)) = 4
    BY <1>1, <1>2, <2>1
  <2> QED
    BY <2>1, <2>2 DEF call
<1>4. CASE client # "scala"
  <2>1. Calls(client) = <<"GetFeature", "GetFeature", "ListFeatures", "RecordRoute", "RouteChat">>
    BY <1>4 DEF Calls
  <2>2. step \in {1, 2, 3, 4, 5} /\ Len(Calls(client)) = 5
    BY <1>1, <1>2, <2>1
  <2> QED
    BY <2>1, <2>2 DEF call
<1> QED
  BY <1>3, <1>4

\* A client that has waited for longer has sent its requests.
LEMMA SendingEnds ==
  /\ LongestSending \in {0, 8}
  /\ LongestSending = 8 => call = "RecordRoute" /\ client # "go"
  /\ \A n \in SendingTimes(client, call) : n \in Nat /\ n <= LongestSending
<1>1. LongestSending \in {0, 8} /\ (LongestSending = 8 => call = "RecordRoute" /\ client # "go")
  BY DEF LongestSending
<1>2. ASSUME NEW n \in SendingTimes(client, call)
      PROVE  n \in Nat /\ n <= LongestSending
  <2>1. n \in Nat
    BY <1>2, SendingTakesTime
  <2>2. CASE call # "RecordRoute" \/ client = "go"
    <3>1. SendingTimes(client, call) = 0 .. 0
      <4>1. CASE call # "RecordRoute"
        BY <4>1 DEF SendingTimes
      <4>2. CASE call = "RecordRoute" /\ client = "go"
        <5>1. SendingTimes("go", "RecordRoute") = 0 .. 0
          BY DEF SendingTimes
        <5> QED
          BY <4>2, <5>1
      <4> QED
        BY <2>2, <4>1, <4>2
    <3> QED
      BY <1>1, <1>2, <3>1
  <2>3. CASE call = "RecordRoute" /\ client # "go"
    <3>1. LongestSending = 8 /\ SendingTimes(client, call) \in {2 .. 8, 0 .. 3, 0 .. 1, 0 .. 0}
      BY <2>3 DEF LongestSending, SendingTimes
    <3> QED
      BY <1>2, <3>1
  <2> QED
    BY <2>1, <2>2, <2>3
<1> QED
  BY <1>1, <1>2

\* The time that each call may take adds up.
LEMMA SpentFacts ==
  ASSUME IInv, status = "running"
  PROVE  /\ Spent(step - 1) \in Nat /\ Spent(step) \in Nat
         /\ Spent(step - 1) + LongestSending + AnswerTime <= Spent(step)
         /\ Spent(step) <= 13
<1> DEFINE L == Len(Calls(client))
<1>1. L \in {4, 5} /\ step \in 1 .. L /\ (call = "RecordRoute" <=> step = L - 1)
  BY RecordRouteFacts
<1>2. LongestSending \in {0, 8} /\ (LongestSending = 8 => call = "RecordRoute")
  BY SendingEnds
<1>3. /\ Spent(step - 1) = AnswerTime * (step - 1) + IF step - 1 >= L - 1 THEN 8 ELSE 0
      /\ Spent(step) = AnswerTime * step + IF step >= L - 1 THEN 8 ELSE 0
  BY DEF Spent
<1> HIDE DEF L
<1> QED
  BY <1>1, <1>2, <1>3 DEF AnswerTime

\* Nobody is in the way of a healthy test.
LEMMA OwnPort == IInv /\ Healthy => ~ OnOurPort
<1> SUFFICES ASSUME IInv, Healthy PROVE ~ OnOurPort
  OBVIOUS
<1>1. test \in Matrix /\ other \in Others(test)
  BY DEF IInv, TestTypeOK
<1> QED
  BY <1>1, OthersAreElsewhere DEF OnOurPort, Healthy

LEMMA InitHealthy == Init => HealthyInv
<1> SUFFICES ASSUME Init PROVE HealthyInv
  OBVIOUS
<1>1. server = "starting" /\ status = "none" /\ verdict = "none" /\ clock = 0
  BY DEF Init
<1>2. 0 <= StartTime(serverLang) /\ 0 <= Delay(serverLang)
  BY DEF StartTime, Delay
<1> QED
  BY <1>1, <1>2 DEF HealthyInv

\* What is said of a client that waits, in a step that only a server takes.
LEMMA HealthySame ==
  ASSUME HealthyInv, Healthy, UNCHANGED <<fixedVars, clientVars, clock, verdict>>,
         verdict = "none" => server' # "exited",
         server' = "starting" => server = "starting",
         server = "listening" => server' = "listening"
  PROVE  HealthyInv'
<1>1. /\ StartTime(serverLang)' = StartTime(serverLang) /\ Delay(serverLang)' = Delay(serverLang)
      /\ Spent(step - 1)' = Spent(step - 1) /\ LongestSending' = LongestSending
  BY DEF StartTime, Delay, serverLang, Spent, LongestSending, call, client, fixedVars, clientVars
<1> QED
  BY <1>1 DEF HealthyInv, Healthy, fixedVars, clientVars

LEMMA HealthyServers ==
  ASSUME IInv, HealthyInv, Healthy, Listen \/ Crash \/ OtherListens \/ OtherExits \/ UNCHANGED vars
  PROVE  HealthyInv'
<1>1. UNCHANGED <<fixedVars, clientVars, clock, verdict>>
  BY DEF Listen, Crash, OtherListens, OtherExits, vars, fixedVars, clientVars
<1>2. ~ Crash
  BY DEF Crash, Healthy
<1>3. CASE Listen
  <2>1. server = "starting" /\ server' = "listening"
    BY <1>3, OwnPort DEF Listen, Listeners
  <2> QED
    BY <1>1, <2>1, HealthySame
<1>4. CASE OtherListens \/ OtherExits \/ UNCHANGED vars
  <2>1. server' = server
    BY <1>4 DEF OtherListens, OtherExits, vars
  <2> QED
    BY <1>1, <2>1, HealthySame DEF HealthyInv
<1> QED
  BY <1>2, <1>3, <1>4

\* When the client begins, its server listens.
LEMMA HealthyStart ==
  ASSUME IInv, HealthyInv, Healthy, StartClient
  PROVE  HealthyInv'
<1>1. /\ verdict = "none" /\ status = "none" /\ clock >= Delay(serverLang) /\ status' = "running"
      /\ UNCHANGED <<step, waited, answers, otherUp, server, clock, verdict, fixedVars>>
  BY DEF StartClient
<1>2. server # "exited" /\ clock <= Delay(serverLang) /\ (server = "starting" => clock <= StartTime(serverLang))
  BY <1>1 DEF HealthyInv
<1>3. server = "listening"
  <2>1. StartTime(serverLang) < Delay(serverLang) /\ StartTime(serverLang) \in Nat /\ Delay(serverLang) \in Nat
    BY DEF StartTime, Delay
  <2>2. clock \in Nat /\ server \in {"starting", "listening", "exited"}
    BY DEF IInv, TestTypeOK
  <2> QED
    BY <1>1, <1>2, <2>1, <2>2
<1>4. step = 1 /\ waited = 0 /\ clock \in Nat /\ Delay(serverLang) \in Nat
  BY <1>1, NumbersTyped DEF IInv, RunningInv
<1>5. Spent(step - 1)' \in Nat
  <2>1. Len(Calls(client))' \in Nat
    BY CallsAreSeq
  <2> QED
    BY <1>1, <1>4, <2>1 DEF Spent, AnswerTime
<1>6. Delay(serverLang)' = Delay(serverLang) /\ LongestSending' \in {0, 8}
  BY <1>1 DEF Delay, serverLang, fixedVars, LongestSending
<1>7. waited' <= LongestSending' + AnswerTime /\ clock' <= Delay(serverLang)' + Spent(step - 1)' + waited'
  <2>1. waited' = 0 /\ clock' = clock
    BY <1>1, <1>4
  <2>2. 0 <= LongestSending' + AnswerTime
    <3>1. \A n \in {0, 8} : 0 <= n + AnswerTime
      BY DEF AnswerTime
    <3> QED
      BY <1>6, <3>1
  <2>3. clock <= Delay(serverLang)
    BY <1>1, <1>2
  <2>4. clock' <= Delay(serverLang)' + Spent(step - 1)' + 0
    <3> HIDE DEF Spent, Delay
    <3> QED
      BY <1>4, <1>5, <1>6, <2>1, <2>3
  <2> QED
    BY <2>1, <2>2, <2>4
<1> QED
  BY <1>1, <1>3, <1>7 DEF HealthyInv, Healthy, fixedVars

\* An answer comes within the time of the call.
LEMMA HealthyAnswer ==
  ASSUME IInv, HealthyInv, Healthy, Answered
  PROVE  HealthyInv'
<1>1. /\ Running /\ UNCHANGED <<otherUp, server, clock, verdict, fixedVars>>
      /\ step' = step + 1 /\ waited' = 0
      /\ status' = IF step = Len(Calls(client)) THEN "ok" ELSE status
  BY DEF Answered, NextCall
<1>2. /\ status = "running" /\ verdict = "none" /\ server = "listening"
      /\ waited <= LongestSending + AnswerTime
      /\ clock <= Delay(serverLang) + Spent(step - 1) + waited
  BY <1>1 DEF Running, HealthyInv
<1>3. /\ Spent(step - 1) \in Nat /\ Spent(step) \in Nat
      /\ Spent(step - 1) + LongestSending + AnswerTime <= Spent(step)
  BY <1>2, SpentFacts
<1>4. LongestSending \in {0, 8} /\ LongestSending' \in {0, 8}
  BY SendingEnds DEF LongestSending
<1>5. step \in Nat /\ clock \in Nat /\ waited \in Nat /\ Delay(serverLang) \in Nat
  BY NumbersTyped DEF IInv
<1>6. Delay(serverLang)' = Delay(serverLang) /\ Spent(step - 1)' = Spent(step)
  BY <1>1, <1>5 DEF Delay, serverLang, Spent, client, fixedVars
<1>7. /\ waited' <= LongestSending' + AnswerTime
      /\ clock' <= Delay(serverLang)' + Spent(step - 1)'
  <2>1. 0 <= LongestSending' + AnswerTime
    <3>1. \A n \in {0, 8} : 0 <= n + AnswerTime
      BY DEF AnswerTime
    <3> QED
      BY <1>4, <3>1
  <2>2. clock <= Delay(serverLang) + Spent(step)
    BY <1>2, <1>3, <1>4, <1>5 DEF AnswerTime
  <2>3. clock' = clock /\ waited' = 0
    BY <1>1
  <2> QED
    BY <1>6, <2>1, <2>2, <2>3
<1>8. clock' <= Delay(serverLang)' + Spent(step - 1)' + waited'
  BY <1>1, <1>3, <1>5, <1>6, <1>7
<1>9. status' \in {"running", "ok"}
  BY <1>1, <1>2
<1> QED
  BY <1>1, <1>2, <1>7, <1>8, <1>9 DEF HealthyInv, Healthy, fixedVars

\* Nothing that ends a call otherwise happens.
LEMMA HealthyCalls ==
  ASSUME IInv, HealthyInv, Healthy, Failed \/ CutOff \/ DeadlineExceeded \/ LatchExpires
  PROVE  FALSE
<1>1. Running
  BY DEF Failed, CutOff, DeadlineExceeded, LatchExpires
<1>2. status = "running" /\ server = "listening" /\ waited <= LongestSending + AnswerTime
  BY <1>1 DEF Running, HealthyInv
<1>3. LongestSending \in {0, 8} /\ (LongestSending = 8 => client # "go") /\ waited \in Nat
  BY SendingEnds, NumbersTyped DEF IInv
<1>4. ~ Failed /\ ~ CutOff
  BY <1>2, OwnPort DEF Failed, CutOff, Listeners
<1>5. ~ DeadlineExceeded
  BY <1>2, <1>3 DEF DeadlineExceeded, HasDeadline, Deadline, AnswerTime
<1>6. ~ LatchExpires
  <2> SUFFICES ASSUME NEW n \in SendingTimes(client, call), waited >= n + Latch PROVE FALSE
    BY DEF LatchExpires
  <2>1. n \in Nat
    BY SendingEnds
  <2> QED
    BY <1>2, <1>3, <2>1 DEF Latch, AnswerTime
<1> QED
  BY <1>4, <1>5, <1>6

\* At every moment a healthy test is within its time.
LEMMA WithinTime ==
  ASSUME IInv, HealthyInv, Healthy
  PROVE  clock \in Nat /\ clock <= 18
<1>1. clock \in Nat /\ waited \in Nat /\ Delay(serverLang) \in 0 .. 5
  BY NumbersTyped DEF IInv, Delay
<1>2. CASE status = "none"
  BY <1>1, <1>2 DEF HealthyInv
<1>3. CASE status = "running"
  <2>1. Spent(step - 1) \in Nat /\ Spent(step - 1) + LongestSending + AnswerTime <= 13
    BY <1>3, SpentFacts, SendingEnds DEF AnswerTime
  <2>2. waited <= LongestSending + AnswerTime /\ clock <= Delay(serverLang) + Spent(step - 1) + waited
    BY <1>3 DEF HealthyInv
  <2>3. LongestSending \in {0, 8}
    BY SendingEnds
  <2> QED
    BY <1>1, <2>1, <2>2, <2>3 DEF AnswerTime
<1>4. CASE status = "ok"
  <2>1. clock <= Delay(serverLang) + Spent(step - 1) /\ step = Len(Calls(client)) + 1
    BY <1>4 DEF HealthyInv, IInv, RunningInv
  <2>2. Len(Calls(client)) \in {4, 5}
    BY DEF Calls
  <2> DEFINE n == Len(Calls(client))
  <2>3. Spent(n) = 1 * n + IF n >= n - 1 THEN 8 ELSE 0
    BY DEF Spent, AnswerTime
  <2>4. n \in {4, 5} /\ step = n + 1
    BY <2>1, <2>2
  <2> HIDE DEF n
  <2>5. Spent(n) \in 0 .. 13 /\ step - 1 = n
    BY <2>3, <2>4
  <2> QED
    BY <1>1, <2>1, <2>5 DEF n
<1>5. status \in {"none", "running", "ok"}
  BY DEF IInv, TestTypeOK, HealthyInv
<1> QED
  BY <1>1, <1>2, <1>3, <1>4, <1>5

LEMMA HealthyEnds ==
  ASSUME IInv, HealthyInv, Healthy, ScriptEnds \/ Timeout
  PROVE  HealthyInv'
<1>1. ~ Timeout
  BY WithinTime DEF Timeout, Limit
<1>2. /\ status = "ok" /\ verdict' = "passed" /\ server' = "exited"
      /\ UNCHANGED <<clock, clientVars, fixedVars>>
  BY <1>1 DEF ScriptEnds, HealthyInv
<1>3. Delay(serverLang)' = Delay(serverLang) /\ Spent(step - 1)' = Spent(step - 1)
  BY <1>2 DEF Delay, serverLang, Spent, client, fixedVars, clientVars
<1> QED
  BY <1>2, <1>3 DEF HealthyInv, Healthy, fixedVars, clientVars

\* Time passes only when nothing is due.
LEMMA HealthyTick ==
  ASSUME IInv, HealthyInv, Healthy, Tick
  PROVE  HealthyInv'
<1>1. /\ verdict = "none" /\ ~ Due /\ clock' = clock + 1
      /\ waited' = IF status = "running" THEN waited + 1 ELSE waited
      /\ UNCHANGED <<otherUp, server, status, step, answers, verdict, fixedVars>>
  BY DEF Tick
<1>2. clock \in Nat /\ waited \in Nat /\ Delay(serverLang) \in Nat /\ StartTime(serverLang) \in Nat
  BY NumbersTyped DEF IInv, StartTime
<1>3. /\ server = "starting" => ~ (clock >= StartTime(serverLang))
      /\ status = "none" => ~ (clock >= Delay(serverLang))
      /\ status # "ok"
  BY <1>1 DEF Due, Healthy
<1>4. /\ Delay(serverLang)' = Delay(serverLang) /\ StartTime(serverLang)' = StartTime(serverLang)
      /\ Spent(step - 1)' = Spent(step - 1) /\ LongestSending' = LongestSending
  BY <1>1 DEF Delay, StartTime, serverLang, Spent, LongestSending, call, client, fixedVars
<1>5. ASSUME status = "running"
      PROVE  /\ waited' <= LongestSending' + AnswerTime
             /\ clock' <= Delay(serverLang)' + Spent(step - 1)' + waited'
  <2>1. Listeners # {} /\ fault # "hang"
    BY <1>1, <1>5 DEF HealthyInv, Healthy, Listeners
  <2>2. ~ AllSent(AnswerTime)
    BY <1>1, <1>5, <2>1 DEF Due
  <2>3. PICK n \in SendingTimes(client, call) : ~ (waited >= n + AnswerTime)
    BY <2>2 DEF AllSent
  <2>4. n \in Nat /\ n <= LongestSending /\ LongestSending \in {0, 8}
    BY SendingEnds
  <2>5. clock <= Delay(serverLang) + Spent(step - 1) + waited /\ Spent(step - 1) \in Nat
    BY <1>5, SpentFacts DEF HealthyInv
  <2> QED
    BY <1>1, <1>2, <1>4, <1>5, <2>3, <2>4, <2>5 DEF AnswerTime
<1>6. /\ server = "starting" => clock' <= StartTime(serverLang)'
      /\ status = "none" => clock' <= Delay(serverLang)'
  BY <1>1, <1>2, <1>3, <1>4
<1> QED
  BY <1>1, <1>3, <1>5, <1>6 DEF HealthyInv, Healthy, fixedVars

LEMMA NextHealthy == IInv /\ HealthyInv /\ [Next]_vars => HealthyInv'
<1> SUFFICES ASSUME IInv, HealthyInv, [Next]_vars PROVE HealthyInv'
  OBVIOUS
<1>1. CASE Healthy
  BY <1>1, HealthyServers, HealthyStart, HealthyAnswer, HealthyCalls, HealthyEnds, HealthyTick DEF Next
<1>2. CASE ~ Healthy
  <2>1. UNCHANGED fixedVars
    BY DEF Next, Listen, Crash, OtherListens, OtherExits, StartClient, Answered, Failed, CutOff, DeadlineExceeded,
      LatchExpires, ScriptEnds, Timeout, Tick, vars, fixedVars
  <2> QED
    BY <1>2, <2>1 DEF HealthyInv, Healthy, fixedVars
<1> QED
  BY <1>1, <1>2

\* A test whose server starts in its time, does not fail and has its port to
\* itself is never failed or killed, and is over after 36 seconds: the delays
\* of routeguide_test.sh and the minute of a small test are enough.
THEOREM HealthyIsInTime == Spec => []HealthyInTime
<1>1. IInv /\ HealthyInv => HealthyInTime
  BY WithinTime DEF HealthyInTime, HealthyInv
<1>2. Spec => []HealthyInv
  BY InitHealthy, NextHealthy, Invariance, PTL DEF Spec
<1> QED
  BY <1>1, <1>2, Invariance, PTL
=============================================================================
