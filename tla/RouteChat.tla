------------------------------ MODULE RouteChat ------------------------------
(***************************************************************************)
(* The RouteChat call of the routeguide examples: one server, in any of    *)
(* the languages that have one, and clients that chat with it at the same  *)
(* time.  Every note that a client sends has a location; the server        *)
(* answers it with the notes it already has at that location, and keeps    *)
(* it.  What the servers differ in is where they keep the notes (one list  *)
(* for the server or one per call), and how the answer and the keeping of  *)
(* the note interleave with those of other calls.                          *)
(***************************************************************************)
EXTENDS Naturals, FiniteSets, SequencesExt, Lists

CONSTANTS
  Clients,       \* the clients; each makes one call
  Locations,     \* the points that notes are sent from
  Scripts,       \* the sequences of locations that each client may send notes from
  ServerLangs,   \* the languages of the server, a subset of Langs
  Window,        \* the messages in transit in one direction of a call
  Workers,       \* the threads that the Python server runs handlers on
  MaxUnreliable  \* the number of clients that may stall or be cancelled

\* The servers of examples/routeguide and their languages.
Langs == {"cpp", "csharp", "go", "java", "js", "python", "scala"}

ASSUME ChatAssumption ==
  /\ IsFiniteSet(Clients)
  /\ "server" \notin Clients
  /\ \A c \in Clients : Scripts[c] \subseteq Seq(Locations)
  /\ ServerLangs \subseteq Langs
  /\ Window \in Nat \ {0}
  /\ Workers \in Nat \ {0}
  /\ MaxUnreliable \in Nat

VARIABLES
  server,      \* the language of the server
  script,      \* the locations that each client sends notes from
  unreliable,  \* the clients that may stop at any moment
  sent,        \* the number of notes that a client has sent
  up,          \* the notes in transit to the server
  closed,      \* whether the client has closed its side of the call
  cancelled,   \* whether the call was cancelled
  pc,          \* where the server's handler of the call is
  current,     \* the note that the handler is at
  old,         \* Scala: the notes that updateAndGet has read
  pending,     \* the replies that the handler has still to write
  down,        \* the replies in transit to the client
  finished,    \* whether the client has seen the end of the call
  notes,       \* the lists of notes: one per call and the one of the server
  heard,       \* what the server answered to each note
  before       \* the notes whose handling had ended when that of a note began

vars == <<server, script, unreliable, sent, up, closed, cancelled, pc, current,
          old, pending, down, finished, notes, heard, before>>

clientVars == <<sent, closed, cancelled, finished>>
fixedVars  == <<server, script, unreliable>>

\* A note is the client and the position in its script.
Notes == UNION {{c} \X (1 .. Len(script[c])) : c \in Clients}
Loc(n) == script[n[1]][n[2]]
NoNote == <<"server", 0>>

\* The notes that the server has taken, and those that it has dealt with.
Taken == {n \in Notes : n[2] <= sent[n[1]] /\ ~ Contains(up[n[1]], n)}
Handled ==
  {n \in Taken : current[n[1]] = n => pc[n[1]] \in {"read", "done"} /\ ~ cancelled[n[1]]}

-----------------------------------------------------------------------------
(* Where the servers keep notes and how they write replies. *)

\* A field of the service, or of the module, is one list for all calls.  In
\* C++ and Python the list is a local variable of the handler; in C# it is a
\* field of a service of which every call gets an instance.
Shared == {"go", "java", "js", "scala"}
List(c) == IF server \in Shared THEN "server" ELSE c

\* Writing a reply waits for room in these servers; in the others it is
\* only put in a buffer.
Blocking == {"cpp", "csharp", "go", "python"}

\* Variant: only the latest note at the location.
AtLatest(list, loc) ==
  LET there == SelectSeq(list, LAMBDA n : Loc(n) = loc)
  IN IF there = << >> THEN there ELSE <<Last(there)>>

\* The notes of a list at a location.
At(list, loc) == Among(list, {n \in Notes : Loc(n) = loc})

-----------------------------------------------------------------------------
Init ==
  /\ server \in ServerLangs
  /\ script \in {s \in [Clients -> UNION {Scripts[c] : c \in Clients}] : \A c \in Clients : s[c] \in Scripts[c]}
  /\ unreliable \in {S \in SUBSET Clients : Cardinality(S) <= MaxUnreliable}
  /\ sent      = [c \in Clients |-> 0]
  /\ up        = [c \in Clients |-> << >>]
  /\ closed    = [c \in Clients |-> FALSE]
  /\ cancelled = [c \in Clients |-> FALSE]
  /\ pc        = [c \in Clients |-> "idle"]
  /\ current   = [c \in Clients |-> NoNote]
  /\ old       = [c \in Clients |-> << >>]
  /\ pending   = [c \in Clients |-> << >>]
  /\ down      = [c \in Clients |-> << >>]
  /\ finished  = [c \in Clients |-> FALSE]
  /\ notes     = [l \in Clients \cup {"server"} |-> << >>]
  /\ heard     = [n \in Notes |-> << >>]
  /\ before    = [n \in Notes |-> {}]

-----------------------------------------------------------------------------
(* The clients.  All of them read replies while they are still sending:    *)
(* in another thread or task, or in callbacks.                             *)

Send(c) ==
  /\ ~ cancelled[c] /\ sent[c] < Len(script[c]) /\ Len(up[c]) < Window
  /\ sent' = [sent EXCEPT ![c] = @ + 1]
  /\ up' = [up EXCEPT ![c] = Append(@, <<c, sent'[c]>>)]
  /\ UNCHANGED <<closed, cancelled, finished, pc, current, old, pending, down, notes, heard, before, fixedVars>>

CloseSend(c) ==
  /\ ~ cancelled[c] /\ ~ closed[c] /\ sent[c] = Len(script[c])
  /\ closed' = [closed EXCEPT ![c] = TRUE]
  /\ UNCHANGED <<sent, up, cancelled, finished, pc, current, old, pending, down, notes, heard, before, fixedVars>>

Receive(c) ==
  /\ ~ cancelled[c] /\ down[c] # << >>
  /\ down' = [down EXCEPT ![c] = Tail(@)]
  /\ UNCHANGED <<clientVars, up, pc, current, old, pending, notes, heard, before, fixedVars>>

SeeEnd(c) ==
  /\ ~ cancelled[c] /\ ~ finished[c] /\ pc[c] = "done" /\ down[c] = << >>
  /\ finished' = [finished EXCEPT ![c] = TRUE]
  /\ UNCHANGED <<sent, closed, cancelled, up, pc, current, old, pending, down, notes, heard, before, fixedVars>>

\* The deadline of the Go client passes, or the client dies, and the server has
\* come to know.  What it still reads of the notes that came before is read
\* before this step: for the client, which may stop at any moment, and for the
\* other calls there is no difference.
Cancel(c) ==
  /\ c \in unreliable /\ ~ cancelled[c] /\ ~ finished[c]
  /\ cancelled' = [cancelled EXCEPT ![c] = TRUE]
  /\ down' = [down EXCEPT ![c] = << >>]
  /\ UNCHANGED <<sent, closed, finished, up, pc, current, old, pending, notes, heard, before, fixedVars>>

-----------------------------------------------------------------------------
(* The server. *)

\* A handler begins when there is a thread for it.  A handler of the Python
\* server keeps its thread until the call ends.
Begin(c) ==
  /\ pc[c] = "idle" /\ ~ cancelled[c]
  /\ server = "python" => Cardinality({d \in Clients : pc[d] \notin {"idle", "done"}}) < Workers
  /\ pc' = [pc EXCEPT ![c] = "read"]
  /\ UNCHANGED <<clientVars, up, current, old, pending, down, notes, heard, before, fixedVars>>

\* The handler reads note n.
Read(c, n) ==
  /\ pc[c] = "read" /\ ~ cancelled[c]
  /\ up[c] # << >> /\ n = Head(up[c])
  /\ up' = [up EXCEPT ![c] = Tail(@)]
  /\ current' = [current EXCEPT ![c] = n]
  /\ before' = [before EXCEPT ![n] = Handled]

\* It answers n with replies and goes on at the given place when they are
\* written: here, if writing waits, or else at once.
Answer(c, n, replies, next) ==
  /\ heard' = [heard EXCEPT ![n] = replies]
  /\ IF server \in Blocking
     THEN /\ pending' = [pending EXCEPT ![c] = replies]
          /\ pc' = [pc EXCEPT ![c] = "reply"]
          /\ UNCHANGED down
     ELSE /\ down' = [down EXCEPT ![c] = @ \o replies]
          /\ pc' = [pc EXCEPT ![c] = next]
          /\ UNCHANGED pending
  /\ UNCHANGED <<clientVars, old, fixedVars>>

Keep(c, n) == notes' = [notes EXCEPT ![List(c)] = Append(@, n)]

\* C++ and Python: the replies are those of the notes of this call that are
\* at the location, written while the list is gone through.
CppAnswer(c) ==
  /\ server = "cpp"
  /\ \E n \in Notes : Read(c, n) /\ Answer(c, n, At(notes[List(c)], Loc(n)), "add")
  /\ UNCHANGED notes

PythonAnswer(c) ==
  /\ server = "python"
  /\ \E n \in Notes : Read(c, n) /\ Answer(c, n, At(notes[List(c)], Loc(n)), "add")
  /\ UNCHANGED notes

\* C#: the notes at the location are copied and the note is added in one
\* critical section.
CSharpAnswer(c) ==
  /\ server = "csharp"
  /\ \E n \in Notes : Read(c, n) /\ Keep(c, n) /\ Answer(c, n, At(notes[List(c)], Loc(n)), "read")

\* Variant: the lock is held while the replies are written.
GoAnswerLocked(c) ==
  /\ server = "go"
  /\ \A d \in Clients : pc[d] # "reply"
  /\ \E n \in Notes : Read(c, n) /\ Keep(c, n) /\ Answer(c, n, At(notes'[List(c)], Loc(n)), "read")

\* Variant: the note is added after its replies, out of the critical section.
GoAnswerThenAdd(c) ==
  /\ server = "go"
  /\ \E n \in Notes :
       /\ Read(c, n)
       /\ heard' = [heard EXCEPT ![n] = At(notes[List(c)], Loc(n))]
  /\ pc' = [pc EXCEPT ![c] = "add"]
  /\ UNCHANGED <<clientVars, old, pending, down, notes, fixedVars>>

\* Go: the note is added and the notes at the location are copied, with the
\* new one, in one critical section.
GoAnswer(c) ==
  /\ server = "go"
  /\ \E n \in Notes : Read(c, n) /\ Keep(c, n) /\ Answer(c, n, At(notes'[List(c)], Loc(n)), "read")

\* Java: the replies are those of a copy of the synchronised list, and the
\* note is added later.
JavaAnswer(c) ==
  /\ server = "java"
  /\ \E n \in Notes : Read(c, n) /\ Answer(c, n, At(notes[List(c)], Loc(n)), "add")
  /\ UNCHANGED notes

\* Scala: the replies are those of the immutable map that the reference
\* holds, and the note is added to the map that it then holds.
ScalaAnswer(c) ==
  /\ server = "scala"
  /\ \E n \in Notes : Read(c, n) /\ Answer(c, n, At(notes[List(c)], Loc(n)), "get")
  /\ UNCHANGED notes

\* JavaScript: a callback that no other interrupts.  route_notes[key] = []
\* makes a property of the Map and not an entry, so has(key) is never true:
\* nothing is answered and the list at the location begins anew.
MapEntries == {}
JsAnswer(c) ==
  /\ server = "js"
  /\ \E n \in Notes :
       /\ Read(c, n)
       /\ LET kept == notes[List(c)]
              known == Loc(n) \in MapEntries
          IN /\ Answer(c, n, IF known THEN At(kept, Loc(n)) ELSE << >>, "read")
             /\ notes' = [notes EXCEPT ![List(c)] =
                  Append(IF known THEN @ ELSE Among(@, {m \in Notes : Loc(m) # Loc(n)}), n)]

\* Variant: a reply is written without waiting.
WriteAtOnce(c) ==
  /\ pc[c] = "reply" /\ ~ cancelled[c] /\ pending[c] # << >>
  /\ down' = [down EXCEPT ![c] = Append(@, Head(pending[c]))]
  /\ pending' = [pending EXCEPT ![c] = Tail(@)]
  /\ UNCHANGED <<clientVars, up, pc, current, old, notes, heard, before, fixedVars>>

\* A reply is written when there is room for it.
Write(c) ==
  /\ pc[c] = "reply" /\ ~ cancelled[c] /\ pending[c] # << >> /\ Len(down[c]) < Window
  /\ down' = [down EXCEPT ![c] = Append(@, Head(pending[c]))]
  /\ pending' = [pending EXCEPT ![c] = Tail(@)]
  /\ UNCHANGED <<clientVars, up, pc, current, old, notes, heard, before, fixedVars>>

\* When all are written, Go and C# read on; C++ and Python have still to add
\* the note.
Written(c) ==
  /\ pc[c] = "reply" /\ pending[c] = << >>
  /\ pc' = [pc EXCEPT ![c] = IF server \in {"go", "csharp"} THEN "read" ELSE "add"]
  /\ UNCHANGED <<clientVars, up, current, old, pending, down, notes, heard, before, fixedVars>>

AddNote(c) ==
  /\ pc[c] = "add"
  /\ Keep(c, current[c])
  /\ pc' = [pc EXCEPT ![c] = "read"]
  /\ UNCHANGED <<clientVars, up, current, old, pending, down, heard, before, fixedVars>>

\* Scala, AtomicRef.updateAndGet: read the reference, and set it to the map
\* with the note unless it has changed, in which case it is read again.
GetRef(c) ==
  /\ pc[c] = "get"
  /\ old' = [old EXCEPT ![c] = notes[List(c)]]
  /\ pc' = [pc EXCEPT ![c] = "swap"]
  /\ UNCHANGED <<clientVars, up, current, pending, down, notes, heard, before, fixedVars>>

\* Variant: set without the comparison.
SetRef(c) ==
  /\ pc[c] = "swap"
  /\ notes' = [notes EXCEPT ![List(c)] = Append(old[c], current[c])]
  /\ pc' = [pc EXCEPT ![c] = "read"]
  /\ old' = [old EXCEPT ![c] = << >>]
  /\ UNCHANGED <<clientVars, up, current, pending, down, heard, before, fixedVars>>

CompareAndSet(c) ==
  /\ pc[c] = "swap"
  /\ IF notes[List(c)] = old[c]
     THEN /\ notes' = [notes EXCEPT ![List(c)] = Append(old[c], current[c])]
          /\ pc' = [pc EXCEPT ![c] = "read"]
     ELSE /\ pc' = [pc EXCEPT ![c] = "get"]
          /\ UNCHANGED notes
  /\ old' = [old EXCEPT ![c] = << >>]
  /\ UNCHANGED <<clientVars, up, current, pending, down, heard, before, fixedVars>>

\* The client has closed its side and there are no more notes: the call ends.
End(c) ==
  /\ pc[c] = "read" /\ ~ cancelled[c] /\ closed[c] /\ up[c] = << >>
  /\ pc' = [pc EXCEPT ![c] = "done"]
  /\ UNCHANGED <<clientVars, up, current, old, pending, down, notes, heard, before, fixedVars>>

\* A handler of a cancelled call ends where it reads or writes; in Java and
\* Scala the exception of a write also skips the adding of the note.  C++
\* looks at no result of Write: it adds the note and then fails to read.
Abort(c) ==
  /\ cancelled[c]
  /\ \/ pc[c] \in {"idle", "read"}
     \/ pc[c] = "reply" /\ pending[c] # << >> /\ server # "cpp"
     \/ pc[c] \in {"add", "get"} /\ server \in {"java", "scala"} /\ heard[current[c]] # << >>
  /\ pc' = [pc EXCEPT ![c] = "done"]
  /\ pending' = [pending EXCEPT ![c] = << >>]
  /\ UNCHANGED <<clientVars, up, current, old, down, notes, heard, before, fixedVars>>

WriteInVain(c) ==
  /\ cancelled[c] /\ server = "cpp" /\ pc[c] = "reply" /\ pending[c] # << >>
  /\ pending' = [pending EXCEPT ![c] = << >>]
  /\ UNCHANGED <<clientVars, up, pc, current, old, down, notes, heard, before, fixedVars>>

-----------------------------------------------------------------------------
Client(c) == Send(c) \/ CloseSend(c) \/ Receive(c) \/ SeeEnd(c)

Handler(c) ==
  \/ Begin(c)
  \/ CppAnswer(c) \/ PythonAnswer(c) \/ CSharpAnswer(c) \/ GoAnswer(c)
  \/ JavaAnswer(c) \/ ScalaAnswer(c) \/ JsAnswer(c)
  \/ Write(c) \/ Written(c) \/ AddNote(c) \/ GetRef(c) \/ CompareAndSet(c)
  \/ End(c) \/ Abort(c) \/ WriteInVain(c)

Next == \E c \in Clients : Client(c) \/ Handler(c) \/ Cancel(c)

Spec == Init /\ [][Next]_vars

\* The runtime of each server runs its handlers, and a client that is not
\* unreliable goes on sending and receiving.
FairSpec ==
  /\ Spec
  /\ \A c \in Clients : WF_vars(Handler(c)) /\ WF_vars(c \notin unreliable /\ Client(c))

-----------------------------------------------------------------------------
(* Properties. *)

\* The state is well formed: what is in transit fits the window, and a list
\* of a call holds notes of that call only.
ChatTypeOK ==
  /\ server \in ServerLangs /\ (\A c \in Clients : script[c] \in Scripts[c]) /\ unreliable \subseteq Clients
  /\ DOMAIN heard = Notes /\ DOMAIN before = Notes
  /\ \A n \in Notes : heard[n] \in Seq(Notes) /\ before[n] \subseteq Notes
  /\ \A c \in Clients :
       /\ sent[c] \in 0 .. Len(script[c]) /\ {closed[c], cancelled[c], finished[c]} \subseteq BOOLEAN
       /\ pc[c] \in {"idle", "read", "reply", "add", "get", "swap", "done"}
       /\ current[c] \in Notes \cup {NoNote}
       /\ up[c] \in Seq(Notes) /\ Len(up[c]) <= Window
       /\ {old[c], pending[c], down[c]} \subseteq Seq(Notes)
       /\ server \in Blocking => Len(down[c]) <= Window
       /\ notes[c] \in Seq({n \in Notes : n[1] = c})
  /\ notes["server"] \in Seq(Notes)

\* Whether two notes are at one location, whoever sent them.
Together(m, n) == m # n /\ Loc(m) = Loc(n)

\* What becomes of the notes of others differs, and not all servers do what
\* the call promises ("while receiving other RouteNotes (e.g. from other
\* users)"): Go, Java and Scala answer with the notes of all users, C++, C#
\* and Python only with those that the sender of the note has sent in the same
\* call, and JavaScript with none.
Returned(m, n) ==
  /\ Together(m, n)
  /\ server \in {"go", "java", "scala"} \/ (server \in {"cpp", "csharp", "python"} /\ m[1] = n[1])

\* The answers of the RouteChat handlers.  In Go, Java and Scala they hold all
\* the previous notes at the location, those of other users among them: every
\* one that the server was done with when it took up the note.  In C++, C# and
\* Python they hold all the previous ones of the same user and never one of
\* another user, and in JavaScript nothing.  They hold nothing else, each note
\* once and those of one user in the order in which they were sent; the Go
\* server adds the note itself.
PreviousAreReturned ==
  \A n \in Taken :
    /\ \A m \in before[n] : Returned(m, n) => Contains(heard[n], m)
    /\ IsInjective(heard[n])
    /\ \A i \in DOMAIN heard[n] :
         /\ heard[n][i] \in Taken
         /\ Returned(heard[n][i], n) \/ (server = "go" /\ heard[n][i] = n)
         /\ \A j \in 1 .. i - 1 : heard[n][j][1] = heard[n][i][1] => heard[n][j][2] < heard[n][i][2]

\* A note that a server is done with is in its list, once, whatever other
\* calls have added meanwhile; only the JavaScript server drops notes.
NoNoteIsLost ==
  /\ \A l \in DOMAIN notes : IsInjective(notes[l])
  /\ server # "js" => \A n \in Handled : Contains(notes[List(n[1])], n)

\* Of two notes at one location that the server is done with, one was answered
\* with the other: in Go whoever sent them, so that two users who are there at
\* the same time cannot both miss each other.  In the other servers this is so
\* only of the notes of one user (in JavaScript not even of them).  Two users
\* can miss each other in Java and Scala, whose answering and adding are two
\* steps, and always do in C++, C#, Python and JavaScript.
OneOfTwoHears ==
  \A m, n \in Handled :
    LET met == Contains(heard[m], n) \/ Contains(heard[n], m)
    IN Together(m, n) =>
         /\ server = "go" \/ (m[1] = n[1] /\ server # "js") => met
         /\ server \in {"cpp", "csharp", "python", "js"} /\ m[1] # n[1] => ~ met

\* Every chat of a reliable client ends, whatever the other clients do: a
\* client that does not read its replies holds up no other.  The exception
\* is the Python server when it has no more threads than such clients.
ChatsEnd ==
  \A c \in Clients :
    <>(\/ finished[c] \/ c \in unreliable
       \/ server = "python" /\ Cardinality(unreliable) >= Workers)

\* What the call promises: a user receives the notes of the others who have
\* been at the location of the note that it sends.  C++, C#, Python and
\* JavaScript do not keep it.
OthersAreReceived ==
  \A n \in Taken : \A m \in before[n] : Together(m, n) /\ m[1] # n[1] => Contains(heard[n], m)

-----------------------------------------------------------------------------
(* The inductive invariant. *)

ShapeInv ==
  /\ server \in ServerLangs /\ unreliable \subseteq Clients
  /\ DOMAIN script = Clients /\ \A c \in Clients : script[c] \in Scripts[c]
  /\ sent \in [Clients -> Nat] /\ \A c \in Clients : sent[c] <= Len(script[c])
  /\ closed \in [Clients -> BOOLEAN] /\ cancelled \in [Clients -> BOOLEAN] /\ finished \in [Clients -> BOOLEAN]
  /\ pc \in [Clients -> {"idle", "read", "reply", "add", "get", "swap", "done"}]
  /\ current \in [Clients -> Notes \cup {NoNote}]
  /\ up \in [Clients -> Seq(Notes)] /\ old \in [Clients -> Seq(Notes)]
  /\ pending \in [Clients -> Seq(Notes)] /\ down \in [Clients -> Seq(Notes)]
  /\ \A c \in Clients : Len(up[c]) <= Window /\ (server \in Blocking => Len(down[c]) <= Window)
  /\ notes \in [Clients \cup {"server"} -> Seq(Notes)]
  /\ heard \in [Notes -> Seq(Notes)] /\ before \in [Notes -> SUBSET Notes]

\* How many notes of a client were taken.
TakenTo(c) == sent[c] - Len(up[c])

\* What is in transit follows what was taken, and the handler is at the
\* latest note that it took.
TransitInv ==
  \A c \in Clients :
    /\ TakenTo(c) \in Nat
    /\ \A i \in 1 .. Len(up[c]) : up[c][i] = <<c, TakenTo(c) + i>>
    /\ current[c] = IF TakenTo(c) = 0 THEN NoNote ELSE <<c, TakenTo(c)>>
    /\ pc[c] = "idle" => TakenTo(c) = 0
    /\ pc[c] \in {"reply", "add", "get", "swap"} => TakenTo(c) # 0

\* Which servers wait where.
PlaceInv ==
  \A c \in Clients :
    /\ pc[c] = "reply" => server \in Blocking
    /\ pc[c] = "add" => server \in {"cpp", "python", "java"}
    /\ pc[c] \in {"get", "swap"} => server = "scala"

\* The handler has still to keep its note.
Adding(c) == pc[c] \in {"add", "get", "swap"} \/ (pc[c] = "reply" /\ server \in {"cpp", "python"})

\* Notes of one client are in the order of their numbers.
InOrder(s) == \A i, j \in DOMAIN s : i < j /\ s[i][1] = s[j][1] => s[i][2] < s[j][2]

\* A list has taken notes, of the calls that it is for, in their order.
ListsInv ==
  \A l \in Clients \cup {"server"} :
    /\ InOrder(notes[l])
    /\ \A i \in DOMAIN notes[l] :
         LET n == notes[l][i]
         IN n \in Taken /\ List(n[1]) = l /\ (Adding(n[1]) => n # current[n[1]])

\* A note that is not in its list is the one that a handler is at, which adds
\* it later or was cancelled before.
KeptInv ==
  server # "js" =>
    \A n \in Taken :
      \/ Contains(notes[List(n[1])], n)
      \/ /\ current[n[1]] = n
         /\ Adding(n[1]) \/ (pc[n[1]] = "done" /\ cancelled[n[1]] /\ server \notin {"go", "csharp"})

\* Whether the server keeps two notes in one list and at one location.
Listed(m, n) == Together(m, n) /\ List(m[1]) = List(n[1])

\* What a note is answered with, of its list: of two notes of one list and one
\* location the server returns the one with the other, save in JavaScript.
HeardInv ==
  \A n \in Taken :
    /\ server # "js" => \A m \in before[n] : Listed(m, n) => Contains(heard[n], m)
    /\ server = "js" => heard[n] = << >>
    /\ InOrder(heard[n])
    /\ \A i \in DOMAIN heard[n] :
         /\ heard[n][i] \in Taken
         /\ Listed(heard[n][i], n) \/ (server = "go" /\ heard[n][i] = n)

\* OneOfTwoHears, of the notes of one list that were taken.
PairsInv ==
  server # "js" =>
    \A m, n \in Taken :
      Listed(m, n) /\ (m[1] = n[1] \/ server \notin {"java", "scala"})
        => Contains(heard[m], n) \/ Contains(heard[n], m)

IInv == ShapeInv /\ TransitInv /\ PlaceInv /\ ListsInv /\ KeptInv /\ HeardInv /\ PairsInv

-----------------------------------------------------------------------------
(***************************************************************************)
(* That no chat waits for another                                          *)
(***************************************************************************)

\* Only an unreliable client is cancelled, and the end of a call is seen when
\* its handler has ended.
StopInv ==
  \A c \in Clients : (cancelled[c] => c \in unreliable) /\ (finished[c] => pc[c] = "done")

\* The calls whose handlers have begun and not ended; the Python server has a
\* thread for each of them.
Busy == {c \in Clients : pc[c] \notin {"idle", "done"}}
FreeThread == server = "python" => Cardinality(Busy) < Workers

\* The guards of the steps that a client and its handler take in a call that is
\* not cancelled.
ClientReady(c) ==
  \/ sent[c] < Len(script[c]) /\ Len(up[c]) < Window
  \/ sent[c] = Len(script[c]) /\ ~ closed[c]
  \/ down[c] # << >>
  \/ pc[c] = "done" /\ ~ finished[c]
HandlerReady(c) ==
  \/ pc[c] = "idle" /\ FreeThread
  \/ pc[c] = "read" /\ (closed[c] \/ up[c] # << >>)
  \/ pc[c] = "reply" /\ (pending[c] = << >> \/ Len(down[c]) < Window)
  \/ pc[c] \in {"add", "get", "swap"}
Ready(c) == ~ cancelled[c] /\ (ClientReady(c) \/ HandlerReady(c))

\* A chat of a reliable client that has not ended can always go on by itself,
\* wherever the other calls are.  In Python it may wait for a thread, but then
\* the chat of another reliable client, which has one, can go on, unless there
\* are no more threads than unreliable clients.
NoChatWaits ==
  \A c \in Clients \ unreliable :
    ~ finished[c] =>
      \/ Ready(c)
      \/ /\ server = "python" /\ pc[c] = "idle"
         /\ \/ Workers <= Cardinality(unreliable)
            \/ \E d \in Busy \ unreliable : Ready(d)
=============================================================================
