--------------------------- MODULE RouteChatProofs ---------------------------
(***************************************************************************)
(* RouteChat.tla: what the answers have, that notes are kept, and that of  *)
(* two notes one is answered with the other, for every number of clients,  *)
(* every script, window and number of threads.                             *)
(***************************************************************************)
EXTENDS RouteChat, SequenceFacts

-----------------------------------------------------------------------------
(* The notes of a list that are among some *)

\* All the notes of the list that are among some, in their order.
LEMMA AmongFacts ==
  ASSUME NEW T, NEW list \in Seq(T), NEW some
  PROVE  /\ Among(list, some) \in Seq(T)
         /\ \A i \in 1 .. Len(Among(list, some)) :
              /\ Among(list, some)[i] \in some
              /\ \E k \in 1 .. Len(list) : Among(list, some)[i] = list[k]
         /\ \A k \in 1 .. Len(list) : list[k] \in some => Contains(Among(list, some), list[k])
         /\ InOrder(list) => InOrder(Among(list, some))
<1> DEFINE n == Len(list)
<1>1. n \in Nat /\ DOMAIN list = 1 .. n /\ \A k \in 1 .. n : list[k] \in T
  BY LenProperties
<1>2. PICK f : /\ f = [i \in 0 .. n |->
                         IF i = 0 THEN << >>
                         ELSE IF list[i] \in some THEN Append(f[i - 1], list[i]) ELSE f[i - 1]]
               /\ Among(list, some) = f[n]
  BY <1>1, AmongUnfolds
<1> DEFINE Good(s, m) ==
             /\ s \in Seq(T)
             /\ \A i \in 1 .. Len(s) : s[i] \in some /\ \E k \in 1 .. m : s[i] = list[k]
             /\ \A k \in 1 .. m : list[k] \in some => \E i \in 1 .. Len(s) : s[i] = list[k]
             /\ InOrder(list) => \A i, j \in 1 .. Len(s) : i < j /\ s[i][1] = s[j][1] => s[i][2] < s[j][2]
           Bad == {m \in 0 .. n : ~ Good(f[m], m)}
<1> HIDE DEF n
<1>3. f[0] = << >> /\ \A m \in 1 .. n : f[m] = IF list[m] \in some THEN Append(f[m - 1], list[m]) ELSE f[m - 1]
  <2>1. 0 \in 0 .. n /\ \A m \in 1 .. n : m \in 0 .. n /\ m # 0
    BY <1>1
  <2>2. \A i \in 0 .. n : f[i] = IF i = 0 THEN << >>
                                 ELSE IF list[i] \in some THEN Append(f[i - 1], list[i]) ELSE f[i - 1]
    BY <1>2
  <2> QED
    BY <2>1, <2>2
<1>4. Good(f[0], 0)
  BY <1>3
<1>5. ASSUME NEW m \in 1 .. n, Good(f[m - 1], m - 1)
      PROVE  Good(f[m], m)
  <2> DEFINE s == f[m - 1]
             r == f[m]
  <2>1. /\ s \in Seq(T) /\ Len(s) \in Nat /\ m \in Nat /\ m - 1 \in Nat
        /\ \A k \in 1 .. m : k \in 1 .. m - 1 \/ k = m
        /\ \A k \in 1 .. m - 1 : k \in 1 .. m /\ k < m
        /\ m \in 1 .. m /\ list[m] \in T
    BY <1>1, <1>5, LenProperties
  <2>2. r = IF list[m] \in some THEN Append(s, list[m]) ELSE s
    BY <1>3
  <2>3. CASE list[m] \notin some
    <3>1. r = s
      BY <2>2, <2>3
    <3> HIDE DEF r, s
    <3> QED
      BY <1>5, <2>1, <2>3, <3>1 DEF r, s
  <2>4. CASE list[m] \in some
    <3> DEFINE a == Append(s, list[m])
    <3>1. /\ a \in Seq(T) /\ Len(a) = Len(s) + 1
          /\ \A i \in 1 .. Len(s) : a[i] = s[i]
          /\ a[Len(s) + 1] = list[m]
      BY <2>1, AppendProperties
    <3>2. r = a
      BY <2>2, <2>4
    <3>3. \A i \in 1 .. Len(a) : i \in 1 .. Len(s) \/ i = Len(s) + 1
      BY <2>1, <3>1
    <3>3a. /\ \A i \in 1 .. Len(s) : i \in 1 .. Len(a) /\ i < Len(s) + 1
           /\ Len(s) + 1 \in 1 .. Len(a)
      BY <2>1, <3>1
    <3>4. /\ \A i \in 1 .. Len(s) : s[i] \in some /\ \E k \in 1 .. m - 1 : s[i] = list[k]
          /\ \A k \in 1 .. m - 1 : list[k] \in some => \E i \in 1 .. Len(s) : s[i] = list[k]
          /\ InOrder(list) => \A i, j \in 1 .. Len(s) : i < j /\ s[i][1] = s[j][1] => s[i][2] < s[j][2]
      BY <1>5
    <3> HIDE DEF a, s, r
    <3>5. \A i \in 1 .. Len(a) : a[i] \in some /\ \E k \in 1 .. m : a[i] = list[k]
      BY <2>1, <2>4, <3>1, <3>3, <3>4
    <3>6. \A k \in 1 .. m : list[k] \in some => \E i \in 1 .. Len(a) : a[i] = list[k]
      BY <2>1, <3>1, <3>3a, <3>4
    <3>7. ASSUME InOrder(list), NEW i \in 1 .. Len(a), NEW j \in 1 .. Len(a), i < j, a[i][1] = a[j][1]
          PROVE  a[i][2] < a[j][2]
      <4>1. i \in 1 .. Len(s)
        BY <2>1, <3>1, <3>7
      <4>2. CASE j \in 1 .. Len(s)
        BY <3>1, <3>4, <3>7, <4>1, <4>2
      <4>3. CASE j = Len(s) + 1
        <5>1. PICK k \in 1 .. m - 1 : a[i] = list[k]
          BY <3>1, <3>4, <4>1
        <5>2. k \in DOMAIN list /\ m \in DOMAIN list /\ k < m
          BY <1>1, <2>1
        <5> QED
          BY <3>1, <3>7, <4>3, <5>1, <5>2 DEF InOrder
      <4> QED
        BY <3>3, <4>2, <4>3
    <3> QED
      BY <3>1, <3>2, <3>5, <3>6, <3>7 DEF r
  <2> QED
    BY <2>3, <2>4
<1>6. Bad = {}
  <2> SUFFICES ASSUME Bad # {} PROVE FALSE
    OBVIOUS
  <2>1. Bad \in SUBSET Nat
    OBVIOUS
  <2>2. \E m \in Bad : \A k \in Bad : m <= k
    <3> HIDE DEF Bad
    <3> QED
      BY <2>1, Least
  <2>3. PICK m \in Bad : \A k \in Bad : m <= k
    BY <2>2
  <2>4. m \in 0 .. n /\ ~ Good(f[m], m)
    OBVIOUS
  <2> HIDE DEF Good
  <2>5. m # 0
    BY <1>4, <2>4
  <2>6. m \in 1 .. n /\ m - 1 \in 0 .. n /\ m - 1 < m
    BY <1>1, <2>4, <2>5
  <2>7. Good(f[m - 1], m - 1)
    BY <1>1, <2>3, <2>6
  <2> QED
    BY <1>5, <2>4, <2>6, <2>7
<1>7. Good(f[n], n)
  <2>1. n \in 0 .. n
    BY <1>1
  <2>2. n \notin Bad
    <3> HIDE DEF Bad
    <3> QED
      BY <1>6
  <2> HIDE DEF Good
  <2> QED
    BY <2>1, <2>2
<1>8. DOMAIN f[n] = 1 .. Len(f[n])
  BY <1>7, LenProperties
<1>9. InOrder(list) => InOrder(f[n])
  BY <1>7, <1>8 DEF InOrder
<1>10. \A k \in 1 .. n : list[k] \in some => Contains(f[n], list[k])
  BY <1>7 DEF Contains
<1>11. f[n] \in Seq(T) /\ \A i \in 1 .. Len(f[n]) : f[n][i] \in some /\ \E k \in 1 .. n : f[n][i] = list[k]
  BY <1>7
<1> HIDE DEF Good, Bad
<1> QED
  BY <1>2, <1>9, <1>10, <1>11 DEF n

\* An element more at the end of a sequence.
LEMMA AppendKeeps ==
  ASSUME NEW T, NEW s \in Seq(T), NEW e \in T
  PROVE  /\ Append(s, e) \in Seq(T) /\ Len(s) \in Nat /\ Len(Append(s, e)) = Len(s) + 1
         /\ DOMAIN s = 1 .. Len(s) /\ DOMAIN Append(s, e) = 1 .. Len(s) + 1
         /\ \A i \in 1 .. Len(s) : Append(s, e)[i] = s[i]
         /\ Append(s, e)[Len(s) + 1] = e
         /\ Contains(Append(s, e), e)
         /\ \A x : Contains(s, x) => Contains(Append(s, e), x)
<1> DEFINE a == Append(s, e)
<1>1. /\ a \in Seq(T) /\ Len(s) \in Nat /\ Len(a) = Len(s) + 1
      /\ \A i \in 1 .. Len(s) : a[i] = s[i]
      /\ a[Len(s) + 1] = e
  BY AppendProperties, LenProperties
<1>2. DOMAIN s = 1 .. Len(s) /\ DOMAIN a = 1 .. Len(a)
  BY <1>1, LenProperties
<1> HIDE DEF a
<1>3. Contains(a, e) /\ \A x : Contains(s, x) => Contains(a, x)
  BY <1>1 DEF Contains
<1> QED
  BY <1>1, <1>2, <1>3 DEF a

-----------------------------------------------------------------------------
(* Notes, and those that were taken *)

LEMMA NoteParts ==
  ASSUME NEW n \in Notes
  PROVE  /\ n[1] \in Clients /\ n[2] \in 1 .. Len(script[n[1]])
         /\ n = <<n[1], n[2]>>
  BY DEF Notes

LEMMA NoteMade ==
  ASSUME NEW c \in Clients, NEW k \in 1 .. Len(script[c])
  PROVE  <<c, k>> \in Notes
  BY DEF Notes

LEMMA NumbersTyped ==
  ASSUME ShapeInv, TransitInv, NEW c \in Clients
  PROVE  /\ Len(script[c]) \in Nat /\ Len(up[c]) \in Nat /\ sent[c] \in Nat /\ TakenTo(c) \in Nat
         /\ sent[c] = TakenTo(c) + Len(up[c]) /\ sent[c] <= Len(script[c])
         /\ up[c] \in Seq(Notes) /\ DOMAIN up[c] = 1 .. Len(up[c])
<1>1. script[c] \in Seq(Locations)
  BY ChatAssumption DEF ShapeInv
<1>2. up[c] \in Seq(Notes) /\ sent[c] \in Nat /\ sent[c] <= Len(script[c])
  BY DEF ShapeInv
<1>3. Len(script[c]) \in Nat /\ Len(up[c]) \in Nat /\ DOMAIN up[c] = 1 .. Len(up[c])
  BY <1>1, <1>2, LenProperties
<1>4. TakenTo(c) \in Nat
  BY DEF TransitInv
<1> QED
  BY <1>2, <1>3, <1>4 DEF TakenTo

\* The notes that were taken are the first ones of every client.
LEMMA TakenIs ==
  ShapeInv /\ TransitInv => Taken = {n \in Notes : n[2] <= TakenTo(n[1])}
<1> SUFFICES ASSUME ShapeInv, TransitInv, NEW n \in Notes
             PROVE  n \in Taken <=> n[2] <= TakenTo(n[1])
  BY DEF Taken
<1> DEFINE c == n[1]
<1>1. c \in Clients /\ n[2] \in Nat /\ n = <<c, n[2]>>
  BY NoteParts
<1>2. /\ Len(up[c]) \in Nat /\ sent[c] \in Nat /\ TakenTo(c) \in Nat
      /\ sent[c] = TakenTo(c) + Len(up[c])
  BY <1>1, NumbersTyped
<1>3. \A i \in 1 .. Len(up[c]) : up[c][i] = <<c, TakenTo(c) + i>>
  BY <1>1 DEF TransitInv
<1>4. n \in Taken <=> n[2] <= sent[c] /\ ~ Contains(up[c], n)
  BY DEF Taken
<1> HIDE DEF c
<1>5. ASSUME n[2] <= TakenTo(c) PROVE n \in Taken
  <2>1. \A i \in 1 .. Len(up[c]) : up[c][i] # n
    BY <1>1, <1>2, <1>3, <1>5
  <2> QED
    BY <1>1, <1>2, <1>4, <1>5, <2>1 DEF Contains
<1>6. ASSUME ~ (n[2] <= TakenTo(c)), n[2] <= sent[c] PROVE n \notin Taken
  <2> DEFINE i == n[2] - TakenTo(c)
  <2>1. i \in 1 .. Len(up[c]) /\ TakenTo(c) + i = n[2]
    BY <1>1, <1>2, <1>6
  <2>2. up[c][i] = n
    BY <1>1, <1>3, <2>1
  <2> QED
    BY <1>4, <2>1, <2>2 DEF Contains
<1> QED
  BY <1>1, <1>2, <1>4, <1>5, <1>6 DEF c

LEMMA TakenIsNext ==
  ShapeInv' /\ TransitInv' => Taken' = {n \in Notes' : n[2] <= TakenTo(n[1])'}
<1>1. (ShapeInv /\ TransitInv => Taken = {n \in Notes : n[2] <= TakenTo(n[1])})'
  BY TakenIs, PTL
<1> QED
  BY <1>1

LEMMA SameNotes ==
  ASSUME UNCHANGED fixedVars
  PROVE  /\ Notes' = Notes
         /\ \A n : Loc(n)' = Loc(n)
         /\ \A c : List(c)' = List(c)
         /\ \A m, n : Listed(m, n)' <=> Listed(m, n)
  BY DEF fixedVars, Notes, Loc, List, Listed, Together

-----------------------------------------------------------------------------
(* Steps that take no note *)

\* What was answered stays as it is while no note is taken.
LEMMA AnswersStay ==
  ASSUME HeardInv, PairsInv, UNCHANGED <<fixedVars, heard, before>>, Taken' = Taken
  PROVE  HeardInv' /\ PairsInv'
<1>2. server' = server
  BY DEF fixedVars
<1>3. HeardInv'
  BY <1>2, SameNotes DEF HeardInv, InOrder, Contains
<1>4. PairsInv'
  BY <1>2, SameNotes DEF PairsInv
<1> QED
  BY <1>3, <1>4

\* How a handler goes on without taking or keeping a note.
Moves(c, next, hasCancelled) ==
  \/ next = pc[c]
  \/ pc[c] = "idle" /\ next = "read"
  \/ pc[c] = "reply" /\ next = IF server \in {"go", "csharp"} THEN "read" ELSE "add"
  \/ pc[c] = "get" /\ next = "swap"
  \/ pc[c] = "swap" /\ next = "get"
  \/ pc[c] = "read" /\ next = "done"
  \/ /\ next = "done" /\ hasCancelled
     /\ \/ pc[c] \in {"idle", "read"}
        \/ pc[c] = "reply" /\ server # "cpp"
        \/ pc[c] \in {"add", "get"} /\ server \in {"java", "scala"}

LEMMA QuietStep ==
  ASSUME IInv, UNCHANGED <<fixedVars, up, sent, current, notes, heard, before>>,
         closed' \in [Clients -> BOOLEAN], cancelled' \in [Clients -> BOOLEAN],
         finished' \in [Clients -> BOOLEAN], old' \in [Clients -> Seq(Notes)],
         pending' \in [Clients -> Seq(Notes)], down' \in [Clients -> Seq(Notes)],
         \A c \in Clients : server \in Blocking => Len(down'[c]) <= Window,
         pc' \in [Clients -> {"idle", "read", "reply", "add", "get", "swap", "done"}],
         \A c \in Clients : cancelled[c] => cancelled'[c],
         \A c \in Clients : Moves(c, pc'[c], cancelled'[c])
  PROVE  IInv'
<1>1. server' = server /\ script' = script /\ unreliable' = unreliable
  BY DEF fixedVars
<1>2. ShapeInv'
  BY <1>1, SameNotes DEF IInv, ShapeInv, Blocking
<1>3. Taken' = Taken /\ \A c : TakenTo(c)' = TakenTo(c)
  BY SameNotes DEF Taken, TakenTo
<1>4. TransitInv'
  <2> SUFFICES ASSUME NEW c \in Clients
               PROVE  /\ pc'[c] = "idle" => TakenTo(c) = 0
                      /\ pc'[c] \in {"reply", "add", "get", "swap"} => TakenTo(c) # 0
    BY <1>3 DEF IInv, TransitInv
  <2>1. /\ pc[c] = "idle" => TakenTo(c) = 0
        /\ pc[c] \in {"reply", "add", "get", "swap"} => TakenTo(c) # 0
    BY DEF IInv, TransitInv
  <2> QED
    BY <2>1 DEF Moves
<1>5. PlaceInv'
  <2> SUFFICES ASSUME NEW c \in Clients
               PROVE  /\ pc'[c] = "reply" => server \in Blocking
                      /\ pc'[c] = "add" => server \in {"cpp", "python", "java"}
                      /\ pc'[c] \in {"get", "swap"} => server = "scala"
    BY <1>1 DEF PlaceInv, Blocking
  <2> QED
    BY DEF IInv, PlaceInv, Moves, Blocking
<1>6. ASSUME NEW c \in Clients
      PROVE  /\ Adding(c)' => Adding(c)
             /\ \/ ~ Adding(c) \/ Adding(c)'
                \/ pc'[c] = "done" /\ cancelled'[c] /\ server \notin {"go", "csharp"}
             /\ pc[c] = "done" => pc'[c] = "done"
  BY <1>1 DEF Moves, Adding, IInv, PlaceInv, Blocking
<1>7. ListsInv'
  <2> SUFFICES ASSUME NEW l \in Clients \cup {"server"}
               PROVE  /\ InOrder(notes[l])
                      /\ \A i \in DOMAIN notes[l] :
                           /\ notes[l][i] \in Taken /\ List(notes[l][i][1]) = l
                           /\ Adding(notes[l][i][1])' => notes[l][i] # current[notes[l][i][1]]
    BY <1>3, SameNotes DEF ListsInv, InOrder
  <2>1. InOrder(notes[l])
    BY DEF IInv, ListsInv
  <2>2. ASSUME NEW i \in DOMAIN notes[l]
        PROVE  /\ notes[l][i] \in Taken /\ List(notes[l][i][1]) = l
               /\ Adding(notes[l][i][1]) => notes[l][i] # current[notes[l][i][1]]
    BY DEF IInv, ListsInv
  <2>3. \A n \in Taken : n[1] \in Clients
    BY NoteParts DEF Taken
  <2> QED
    BY <1>6, <2>1, <2>2, <2>3
<1>8. KeptInv'
  <2> SUFFICES ASSUME server # "js", NEW n \in Taken
               PROVE  \/ Contains(notes[List(n[1])], n)
                      \/ /\ current[n[1]] = n
                         /\ Adding(n[1])' \/ (pc'[n[1]] = "done" /\ cancelled'[n[1]] /\ server \notin {"go", "csharp"})
    <3>1. \A n : List(n[1])' = List(n[1])
      BY SameNotes
    <3> QED
      BY <1>1, <1>3, <3>1 DEF KeptInv
  <2>1. n[1] \in Clients
    BY NoteParts DEF Taken
  <2>2. \/ Contains(notes[List(n[1])], n)
        \/ /\ current[n[1]] = n
           /\ Adding(n[1]) \/ (pc[n[1]] = "done" /\ cancelled[n[1]] /\ server \notin {"go", "csharp"})
    BY DEF IInv, KeptInv
  <2> QED
    BY <1>6, <2>1, <2>2
<1>9. HeardInv' /\ PairsInv'
  BY <1>3, AnswersStay DEF IInv
<1> QED
  BY <1>2, <1>4, <1>5, <1>7, <1>8, <1>9 DEF IInv

\* A note on its way is not taken.
LEMMA SendStep ==
  ASSUME IInv, NEW c \in Clients, Send(c)
  PROVE  IInv'
<1>1. /\ sent[c] < Len(script[c]) /\ Len(up[c]) < Window
      /\ sent' = [sent EXCEPT ![c] = sent[c] + 1]
      /\ up' = [up EXCEPT ![c] = Append(up[c], <<c, sent[c] + 1>>)]
      /\ UNCHANGED <<closed, cancelled, finished, pc, current, old, pending, down, notes, heard, before, fixedVars>>
  BY DEF Send, IInv, ShapeInv
<1>2. server' = server /\ script' = script /\ unreliable' = unreliable /\ Notes' = Notes
  BY <1>1, SameNotes DEF fixedVars
<1>3. /\ Len(script[c]) \in Nat /\ Len(up[c]) \in Nat /\ sent[c] \in Nat /\ TakenTo(c) \in Nat
      /\ sent[c] = TakenTo(c) + Len(up[c]) /\ up[c] \in Seq(Notes) /\ DOMAIN up[c] = 1 .. Len(up[c])
  BY NumbersTyped DEF IInv
<1>4. <<c, sent[c] + 1>> \in Notes
  <2>1. sent[c] + 1 \in 1 .. Len(script[c])
    BY <1>1, <1>3
  <2> QED
    BY <2>1, NoteMade
<1> DEFINE a == Append(up[c], <<c, sent[c] + 1>>)
<1>5. /\ a \in Seq(Notes) /\ Len(a) = Len(up[c]) + 1
      /\ \A i \in 1 .. Len(up[c]) : a[i] = up[c][i]
      /\ a[Len(up[c]) + 1] = <<c, sent[c] + 1>>
  BY <1>3, <1>4, AppendKeeps
<1> HIDE DEF a
<1>6. /\ up' \in [Clients -> Seq(Notes)] /\ sent' \in [Clients -> Nat]
      /\ up'[c] = a /\ sent'[c] = sent[c] + 1
      /\ \A d \in Clients : d # c => up'[d] = up[d] /\ sent'[d] = sent[d]
  BY <1>1, <1>3, <1>5 DEF a, IInv, ShapeInv
<1>7. ShapeInv'
  <2>1. \A d \in Clients : sent'[d] <= Len(script[d]) /\ Len(up'[d]) <= Window
    BY <1>1, <1>3, <1>5, <1>6, ChatAssumption DEF IInv, ShapeInv
  <2> QED
    BY <1>1, <1>2, <1>6, <2>1 DEF IInv, ShapeInv, Blocking
<1>8. ASSUME NEW d \in Clients PROVE TakenTo(d)' = TakenTo(d)
  <2>1. CASE d # c
    BY <1>6, <2>1 DEF TakenTo
  <2>2. sent'[c] - Len(up'[c]) = sent[c] - Len(up[c])
    <3>1. Len(up'[c]) = Len(up[c]) + 1
      BY <1>5, <1>6
    <3>2. sent'[c] = sent[c] + 1
      BY <1>6
    <3>3. Len(up[c]) \in Nat /\ sent[c] \in Nat
      BY <1>3
    <3> QED
      BY <3>1, <3>2, <3>3
  <2> QED
    BY <2>1, <2>2 DEF TakenTo
<1>9. TransitInv'
  <2> SUFFICES ASSUME NEW d \in Clients
               PROVE  \A i \in 1 .. Len(up'[d]) : up'[d][i] = <<d, TakenTo(d) + i>>
    BY <1>1, <1>8 DEF IInv, TransitInv, NoNote
  <2>1. \A i \in 1 .. Len(up[d]) : up[d][i] = <<d, TakenTo(d) + i>>
    BY DEF IInv, TransitInv
  <2>2. CASE d # c
    BY <1>6, <2>1, <2>2
  <2>3. CASE d = c
    <3> SUFFICES ASSUME NEW i \in 1 .. Len(a)
                 PROVE  a[i] = <<c, TakenTo(c) + i>>
      BY <1>6, <2>3
    <3>1. i \in 1 .. Len(up[c]) \/ i = Len(up[c]) + 1
      BY <1>3, <1>5
    <3>2. CASE i \in 1 .. Len(up[c])
      BY <1>5, <2>1, <2>3, <3>2
    <3>3. CASE i = Len(up[c]) + 1
      BY <1>3, <1>5, <3>3
    <3> QED
      BY <3>1, <3>2, <3>3
  <2> QED
    BY <2>2, <2>3
<1>10. Taken' = Taken
  <2>1. Taken = {n \in Notes : n[2] <= TakenTo(n[1])}
    BY TakenIs DEF IInv
  <2>2. Taken' = {n \in Notes' : n[2] <= TakenTo(n[1])'}
    BY <1>7, <1>9, TakenIsNext
  <2>3. \A n \in Notes : TakenTo(n[1])' = TakenTo(n[1])
    BY <1>8, NoteParts
  <2> QED
    BY <1>2, <2>1, <2>2, <2>3
<1>11. PlaceInv'
  BY <1>1, <1>2 DEF IInv, PlaceInv, Blocking
<1>12. ListsInv'
  BY <1>1, <1>2, <1>10, SameNotes DEF IInv, ListsInv, InOrder, Adding
<1>13. KeptInv'
  BY <1>1, <1>2, <1>10, SameNotes DEF IInv, KeptInv, Adding, Contains
<1>14. HeardInv' /\ PairsInv'
  BY <1>1, <1>10, AnswersStay DEF IInv
<1> QED
  BY <1>7, <1>9, <1>11, <1>12, <1>13, <1>14 DEF IInv

-----------------------------------------------------------------------------
(* Steps that add a note later than it was taken *)

\* The note that a handler still has to add is taken and not in its list.
LEMMA CurrentNote ==
  ASSUME IInv, NEW c \in Clients, Adding(c)
  PROVE  /\ current[c] = <<c, TakenTo(c)>> /\ current[c] \in Taken /\ TakenTo(c) \in Nat
         /\ \A m \in Taken : m[1] = c => m[2] <= TakenTo(c)
<1>1. /\ TakenTo(c) \in Nat /\ TakenTo(c) # 0
      /\ current[c] = <<c, TakenTo(c)>>
  BY DEF IInv, TransitInv, Adding
<1>2. TakenTo(c) \in 1 .. Len(script[c])
  BY <1>1, NumbersTyped DEF IInv
<1>3. current[c] \in Notes
  BY <1>1, <1>2, NoteMade
<1>4. Taken = {n \in Notes : n[2] <= TakenTo(n[1])}
  BY TakenIs DEF IInv
<1> QED
  BY <1>1, <1>3, <1>4

LEMMA ListDomain ==
  ASSUME ShapeInv, NEW c \in Clients
  PROVE  List(c) \in Clients \cup {"server"}
  BY DEF List

LEMMA AddStep ==
  ASSUME IInv, NEW c \in Clients, Adding(c),
         notes' = [notes EXCEPT ![List(c)] = Append(notes[List(c)], current[c])],
         pc' = [pc EXCEPT ![c] = "read"], old' \in [Clients -> Seq(Notes)],
         UNCHANGED <<clientVars, fixedVars, up, current, pending, down, heard, before>>
  PROVE  IInv'
<1> DEFINE n == current[c]
           l == List(c)
           a == Append(notes[l], n)
           A == {d \in Clients : Adding(d)'}
<1>1. /\ server' = server /\ script' = script /\ unreliable' = unreliable
      /\ sent' = sent /\ closed' = closed /\ cancelled' = cancelled /\ finished' = finished
      /\ up' = up /\ current' = current /\ pending' = pending /\ down' = down /\ heard' = heard /\ before' = before
  BY DEF fixedVars, clientVars
<1>2. /\ n = <<c, TakenTo(c)>> /\ n \in Taken /\ TakenTo(c) \in Nat
      /\ \A m \in Taken : m[1] = c => m[2] <= TakenTo(c)
  BY CurrentNote
<1>3. Taken \subseteq Notes /\ Taken' = Taken /\ (\A d : TakenTo(d)' = TakenTo(d)) /\ Notes' = Notes
  BY <1>1, SameNotes DEF Taken, TakenTo
<1>4. l \in Clients \cup {"server"} /\ notes[l] \in Seq(Notes) /\ n \in Notes
  BY <1>2, <1>3, ListDomain DEF IInv, ShapeInv
<1> HIDE DEF n, l
<1>5. /\ a \in Seq(Notes) /\ Len(notes[l]) \in Nat
      /\ DOMAIN notes[l] = 1 .. Len(notes[l]) /\ DOMAIN a = 1 .. Len(notes[l]) + 1
      /\ \A i \in 1 .. Len(notes[l]) : a[i] = notes[l][i]
      /\ a[Len(notes[l]) + 1] = n
      /\ Contains(a, n) /\ \A x : Contains(notes[l], x) => Contains(a, x)
  BY <1>4, AppendKeeps
<1> HIDE DEF a
<1>6. /\ notes' \in [Clients \cup {"server"} -> Seq(Notes)] /\ notes'[l] = a
      /\ \A k \in Clients \cup {"server"} : k # l => notes'[k] = notes[k]
  BY <1>4, <1>5 DEF IInv, ShapeInv, a, n, l
<1>7. /\ pc' \in [Clients -> {"idle", "read", "reply", "add", "get", "swap", "done"}]
      /\ pc'[c] = "read" /\ \A d \in Clients : d # c => pc'[d] = pc[d]
  BY DEF IInv, ShapeInv
<1>8. ShapeInv'
  <2>1. notes' \in [Clients \cup {"server"} -> Seq(Notes)]
    BY <1>6
  <2>2. pc' \in [Clients -> {"idle", "read", "reply", "add", "get", "swap", "done"}]
    BY <1>7
  <2>3. Notes' = Notes
    BY <1>3
  <2> QED
    BY <1>1, <2>1, <2>2, <2>3 DEF IInv, ShapeInv, Blocking
<1>9. TransitInv'
  BY <1>1, <1>3, <1>7 DEF IInv, TransitInv, NoNote
<1>10. PlaceInv'
  BY <1>1, <1>7 DEF IInv, PlaceInv, Blocking
<1>11. c \notin A /\ \A d \in Clients : d # c => (d \in A <=> Adding(d))
  BY <1>1, <1>7 DEF Adding
<1> HIDE DEF A
<1>12. ASSUME NEW k \in Clients \cup {"server"}
       PROVE  /\ InOrder(notes[k])
              /\ \A i \in DOMAIN notes[k] :
                   /\ notes[k][i] \in Taken /\ List(notes[k][i][1]) = k
                   /\ Adding(notes[k][i][1]) => notes[k][i] # current[notes[k][i][1]]
  BY DEF IInv, ListsInv
<1>13. \A m \in Taken : m[1] \in Clients /\ m = <<m[1], m[2]>> /\ m[2] \in Nat
  BY <1>3, NoteParts
<1>14. ASSUME NEW k \in Clients \cup {"server"}
       PROVE  /\ InOrder(notes'[k])
              /\ \A i \in DOMAIN notes'[k] :
                   /\ notes'[k][i] \in Taken /\ List(notes'[k][i][1]) = k
                   /\ notes'[k][i][1] \in A => notes'[k][i] # current[notes'[k][i][1]]
  <2>1. CASE k # l
    <3>1. notes'[k] = notes[k]
      BY <1>6, <2>1
    <3> QED
      BY <3>1, <1>11, <1>12, <1>13
  <2>2. CASE k = l
    <3>1. notes'[k] = a
      BY <1>6, <2>2
    <3>2. \A i \in DOMAIN a : i \in DOMAIN notes[l] \/ i = Len(notes[l]) + 1
      BY <1>5
    <3>3. \A i \in DOMAIN notes[l] : a[i] = notes[l][i]
      BY <1>5
    <3>4. List(n[1]) = l /\ n[1] = c /\ n[2] = TakenTo(c)
      BY <1>2 DEF l
    <3>5. \A i \in DOMAIN a :
             /\ a[i] \in Taken /\ List(a[i][1]) = k
             /\ a[i][1] \in A => a[i] # current[a[i][1]]
      <4> SUFFICES ASSUME NEW i \in DOMAIN a
                   PROVE  /\ a[i] \in Taken /\ List(a[i][1]) = l
                          /\ a[i][1] \in A => a[i] # current[a[i][1]]
        BY <2>2
      <4>1. CASE i \in DOMAIN notes[l]
        <5> DEFINE m == notes[l][i]
        <5>1. a[i] = m /\ m \in Taken /\ List(m[1]) = l /\ (Adding(m[1]) => m # current[m[1]])
          BY <1>4, <1>12, <3>3, <4>1
        <5>2. m[1] \in Clients
          BY <1>13, <5>1
        <5> HIDE DEF m
        <5>3. m[1] \in A => Adding(m[1])
          BY <1>11, <5>2
        <5> QED
          BY <5>1, <5>3
      <4>2. CASE i = Len(notes[l]) + 1
        BY <1>2, <1>5, <1>11, <3>4, <4>2
      <4> QED
        BY <3>2, <4>1, <4>2
    <3>6. ASSUME NEW i \in DOMAIN a, NEW j \in DOMAIN a, i < j, a[i][1] = a[j][1]
          PROVE  a[i][2] < a[j][2]
      <4>1. i \in DOMAIN notes[l]
        BY <1>5, <3>6
      <4>2. CASE j \in DOMAIN notes[l]
        BY <1>4, <1>12, <3>3, <3>6, <4>1, <4>2 DEF InOrder
      <4>3. CASE j = Len(notes[l]) + 1
        <5>1. a[j] = n
          BY <1>5, <4>3
        <5>2. /\ a[i] = notes[l][i] /\ a[i] \in Taken /\ a[i][1] = c
              /\ Adding(a[i][1]) => a[i] # current[a[i][1]]
          BY <1>4, <1>12, <3>3, <3>4, <3>6, <4>1, <5>1
        <5>3. a[i] # n
          BY <5>2 DEF n
        <5>4. a[i][2] # TakenTo(c) /\ a[i][2] <= TakenTo(c) /\ a[i][2] \in Nat
          BY <1>2, <1>13, <5>2, <5>3
        <5> QED
          BY <1>2, <3>4, <5>1, <5>4
      <4> QED
        BY <3>2, <4>2, <4>3
    <3>7. InOrder(a)
      BY <3>6 DEF InOrder
    <3> QED
      BY <3>1, <3>5, <3>7
  <2> QED
    BY <2>1, <2>2
<1>15. ListsInv'
  <2>1. \A d : List(d)' = List(d)
    BY SameNotes
  <2> QED
    <3>1. \A d \in Clients :
             d \in A <=> pc'[d] \in {"add", "get", "swap"} \/ (pc'[d] = "reply" /\ server \in {"cpp", "python"})
      BY <1>1 DEF A, Adding
    <3> SUFFICES ASSUME NEW k \in Clients \cup {"server"}
                 PROVE  (/\ InOrder(notes[k])
                         /\ \A i \in DOMAIN notes[k] :
                              LET m == notes[k][i]
                              IN m \in Taken /\ List(m[1]) = k /\ (Adding(m[1]) => m # current[m[1]]))'
      BY DEF ListsInv
    <3>2. /\ InOrder(notes'[k])
          /\ \A i \in DOMAIN notes'[k] :
               LET m == notes'[k][i]
               IN m \in Taken /\ List(m[1]) = k /\ (m[1] \in A => m # current[m[1]])
      BY <1>14
    <3>3. InOrder(notes[k])'
      BY <3>2 DEF InOrder
    <3> QED
      BY <1>1, <1>3, <1>13, <2>1, <3>1, <3>2, <3>3 DEF Adding
<1>16. KeptInv'
  <2> SUFFICES ASSUME server # "js", NEW m \in Taken
               PROVE  \/ Contains(notes'[List(m[1])], m)
                      \/ /\ current[m[1]] = m
                         /\ m[1] \in A \/ (pc'[m[1]] = "done" /\ cancelled[m[1]] /\ server \notin {"go", "csharp"})
    <3>1. \A d : List(d)' = List(d)
      BY SameNotes
    <3> QED
      BY <1>1, <1>3, <1>13, <3>1 DEF KeptInv, A
  <2>1. m[1] \in Clients /\ List(m[1]) \in Clients \cup {"server"}
    BY <1>13, ListDomain DEF IInv
  <2>2. \/ Contains(notes[List(m[1])], m)
        \/ /\ current[m[1]] = m
           /\ Adding(m[1]) \/ (pc[m[1]] = "done" /\ cancelled[m[1]] /\ server \notin {"go", "csharp"})
    BY DEF IInv, KeptInv
  <2>3. Contains(notes[List(m[1])], m) => Contains(notes'[List(m[1])], m)
    BY <1>5, <1>6, <2>1
  <2>4. CASE m[1] # c
    BY <1>7, <1>11, <2>1, <2>2, <2>3, <2>4
  <2>5. CASE m[1] = c
    <3>1. current[m[1]] = m => Contains(notes'[List(m[1])], m)
      BY <1>5, <1>6, <2>5 DEF n, l
    <3> QED
      BY <2>2, <2>3, <3>1
  <2> QED
    BY <2>4, <2>5
<1>17. HeardInv' /\ PairsInv'
  BY <1>1, <1>3, AnswersStay DEF IInv, fixedVars
<1> QED
  BY <1>8, <1>9, <1>10, <1>15, <1>16, <1>17 DEF IInv

-----------------------------------------------------------------------------
(* Steps that take a note *)

\* The next note of the call is taken.
LEMMA ReadFacts ==
  ASSUME IInv, NEW c \in Clients, NEW n \in Notes, Read(c, n), UNCHANGED <<sent, fixedVars>>
  PROVE  /\ n = <<c, TakenTo(c) + 1>> /\ TakenTo(c) \in Nat
         /\ n \notin Taken /\ Taken' = Taken \cup {n}
         /\ \A m \in Taken : m[1] = c => m[2] <= TakenTo(c)
         /\ up' \in [Clients -> Seq(Notes)] /\ \A d \in Clients : Len(up'[d]) <= Window
         /\ TakenTo(c)' = TakenTo(c) + 1 /\ \A d \in Clients : d # c => TakenTo(d)' = TakenTo(d)
         /\ \A d \in Clients : \A i \in 1 .. Len(up'[d]) : up'[d][i] = <<d, TakenTo(d)' + i>>
<1>1. /\ up[c] # << >> /\ n = Head(up[c])
      /\ up' = [up EXCEPT ![c] = Tail(up[c])]
  BY DEF Read
<1>2. /\ Len(script[c]) \in Nat /\ Len(up[c]) \in Nat /\ sent[c] \in Nat /\ TakenTo(c) \in Nat
      /\ sent[c] = TakenTo(c) + Len(up[c]) /\ up[c] \in Seq(Notes) /\ DOMAIN up[c] = 1 .. Len(up[c])
  BY NumbersTyped DEF IInv
<1> DEFINE t == Tail(up[c])
<1>3. /\ t \in Seq(Notes) /\ Len(t) = Len(up[c]) - 1 /\ Len(t) \in Nat
      /\ \A i \in 1 .. Len(t) : t[i] = up[c][i + 1]
      /\ n = up[c][1] /\ Len(up[c]) # 0
  BY <1>1, <1>2, HeadTailProperties, EmptySeq
<1> HIDE DEF t
<1>4. /\ up' \in [Clients -> Seq(Notes)] /\ up'[c] = t
      /\ \A d \in Clients : d # c => up'[d] = up[d]
  BY <1>1, <1>3 DEF IInv, ShapeInv, t
<1>5. \A d \in Clients : \A i \in 1 .. Len(up[d]) : up[d][i] = <<d, TakenTo(d) + i>>
  BY DEF IInv, TransitInv
<1>6. n = <<c, TakenTo(c) + 1>>
  <2>1. 1 \in 1 .. Len(up[c])
    BY <1>2, <1>3
  <2> QED
    BY <1>3, <1>5, <2>1
<1>7. Taken = {m \in Notes : m[2] <= TakenTo(m[1])}
  BY TakenIs DEF IInv
<1>8. n \notin Taken /\ \A m \in Taken : m[1] = c => m[2] <= TakenTo(c)
  BY <1>2, <1>6, <1>7
<1>9. \A d \in Clients : Len(up'[d]) <= Window
  <2>1. \A d \in Clients : Len(up[d]) <= Window
    BY DEF IInv, ShapeInv
  <2>2. Len(t) <= Window
    <3>1. Len(up[c]) <= Window /\ Len(t) = Len(up[c]) - 1 /\ Len(up[c]) \in Nat /\ Window \in Nat
      BY <1>2, <1>3, <2>1, ChatAssumption
    <3> QED
      BY <3>1
  <2> QED
    BY <1>4, <2>1, <2>2
<1>10. TakenTo(c)' = TakenTo(c) + 1 /\ \A d \in Clients : d # c => TakenTo(d)' = TakenTo(d)
  <2>1. \A d \in Clients : d # c => TakenTo(d)' = TakenTo(d)
    BY <1>4 DEF TakenTo
  <2>2. Len(up'[c]) = Len(up[c]) - 1 /\ sent'[c] = sent[c]
    BY <1>3, <1>4
  <2>3. sent[c] - (Len(up[c]) - 1) = (sent[c] - Len(up[c])) + 1
    BY <1>2
  <2> QED
    BY <2>1, <2>2, <2>3 DEF TakenTo
<1>11. ASSUME NEW d \in Clients, NEW i \in 1 .. Len(up'[d])
       PROVE  up'[d][i] = <<d, TakenTo(d)' + i>>
  <2>1. CASE d # c
    <3>1. up'[d] = up[d] /\ TakenTo(d)' = TakenTo(d)
      BY <1>4, <1>10, <2>1
    <3>2. i \in 1 .. Len(up[d])
      BY <3>1, <1>11
    <3> QED
      BY <1>5, <3>1, <3>2
  <2>2. CASE d = c
    <3>1. i \in 1 .. Len(t) /\ up'[d] = t
      BY <1>4, <1>11, <2>2
    <3>2. i + 1 \in 1 .. Len(up[c]) /\ (TakenTo(c) + 1) + i = TakenTo(c) + (i + 1)
      BY <1>2, <1>3, <3>1
    <3>3. t[i] = <<c, TakenTo(c) + (i + 1)>>
      BY <1>3, <1>5, <3>1, <3>2
    <3> QED
      BY <1>10, <2>2, <3>1, <3>2, <3>3
  <2> QED
    BY <2>1, <2>2
<1>12. Taken' = Taken \cup {n}
  <2>1. Notes' = Notes
    BY SameNotes
  <2>2. ASSUME NEW m \in Notes PROVE m \in Taken' <=> m \in Taken \/ m = n
    <3>1. m \in Taken' <=> m[2] <= sent[m[1]] /\ ~ Contains(up'[m[1]], m)
      BY <2>1 DEF Taken, Contains
    <3>2. m \in Taken <=> m[2] <= sent[m[1]] /\ ~ Contains(up[m[1]], m)
      BY DEF Taken
    <3>3. m[1] \in Clients /\ m = <<m[1], m[2]>> /\ m[2] \in Nat
      BY NoteParts
    <3>4. CASE m[1] # c
      BY <1>4, <1>6, <3>1, <3>2, <3>3, <3>4
    <3>5. CASE m = n
      <4>1. ~ Contains(t, n)
        <5> SUFFICES ASSUME NEW i \in 1 .. Len(t) PROVE t[i] # n
          BY DEF Contains
        <5>1. i + 1 \in 1 .. Len(up[c])
          BY <1>2, <1>3
        <5>2. t[i] = <<c, TakenTo(c) + (i + 1)>>
          BY <1>3, <1>5, <5>1
        <5>3. TakenTo(c) + (i + 1) # TakenTo(c) + 1
          BY <1>2, <1>3
        <5> QED
          BY <1>6, <5>2, <5>3
      <4>2. n[1] = c /\ n[2] = TakenTo(c) + 1
        BY <1>6
      <4>3. TakenTo(c) + 1 <= sent[c]
        BY <1>2, <1>3
      <4> QED
        BY <1>4, <3>1, <3>5, <4>1, <4>2, <4>3
    <3>6. CASE m[1] = c /\ m # n
      <4>1. Contains(t, m) <=> Contains(up[c], m)
        <5>1. ASSUME NEW i \in 1 .. Len(t) PROVE i + 1 \in 1 .. Len(up[c]) /\ t[i] = up[c][i + 1]
          BY <1>2, <1>3
        <5>2. ASSUME NEW i \in 1 .. Len(up[c]), up[c][i] = m PROVE i - 1 \in 1 .. Len(t) /\ t[i - 1] = m
          <6>1. i # 1
            BY <1>3, <3>6, <5>2
          <6>2. i - 1 \in 1 .. Len(t) /\ (i - 1) + 1 = i
            BY <1>2, <1>3, <6>1
          <6>3. t[i - 1] = up[c][(i - 1) + 1]
            BY <1>3, <6>2
          <6> QED
            BY <5>2, <6>2, <6>3
        <5> QED
          BY <5>1, <5>2 DEF Contains
      <4> QED
        BY <1>4, <3>1, <3>2, <3>6, <4>1
    <3> QED
      BY <3>4, <3>5, <3>6
  <2>3. Taken \subseteq Notes /\ Taken' \subseteq Notes
    BY <2>1 DEF Taken
  <2> QED
    BY <2>2, <2>3
<1> QED
  BY <1>2, <1>4, <1>6, <1>8, <1>9, <1>10, <1>11, <1>12

\* A note that the server is done with is in its list.
LEMMA HandledKept ==
  ASSUME IInv, server # "js", NEW m \in Handled
  PROVE  Contains(notes[List(m[1])], m)
<1>1. m \in Taken /\ (current[m[1]] = m => pc[m[1]] \in {"read", "done"} /\ ~ cancelled[m[1]])
  BY DEF Handled
<1>2. \/ Contains(notes[List(m[1])], m)
      \/ /\ current[m[1]] = m
         /\ Adding(m[1]) \/ (pc[m[1]] = "done" /\ cancelled[m[1]] /\ server \notin {"go", "csharp"})
  BY <1>1 DEF IInv, KeptInv
<1> QED
  BY <1>1, <1>2 DEF Adding

\* So are the notes that a note may have to be answered with when it is taken.
LEMMA PairKept ==
  ASSUME IInv, server # "js", NEW c \in Clients, pc[c] = "read", NEW m \in Taken, List(m[1]) = List(c),
         m[1] = c \/ server \notin {"java", "scala"}
  PROVE  Contains(notes[List(c)], m)
<1>1. m[1] \in Clients
  BY NoteParts DEF Taken
<1>2. \/ Contains(notes[List(m[1])], m)
      \/ /\ current[m[1]] = m
         /\ Adding(m[1]) \/ (pc[m[1]] = "done" /\ cancelled[m[1]] /\ server \notin {"go", "csharp"})
  BY DEF IInv, KeptInv
<1>3. CASE m[1] = c
  BY <1>2, <1>3 DEF Adding
<1>4. CASE m[1] # c
  <2>1. server = "go"
    BY <1>4 DEF List, Shared
  <2>2. ~ Adding(m[1])
    BY <1>1, <2>1 DEF Adding, IInv, PlaceInv
  <2> QED
    BY <1>2, <2>1, <2>2
<1> QED
  BY <1>3, <1>4

\* What a note is answered with, when it is taken, is what the properties of
\* answers ask for.
LEMMA HeardStep ==
  ASSUME IInv, NEW c \in Clients, NEW n \in Notes, Read(c, n), UNCHANGED <<sent, fixedVars>>,
         NEW r \in Seq(Notes), InOrder(r), heard' = [heard EXCEPT ![n] = r],
         \A i \in DOMAIN r : r[i] \in Taken \cup {n} /\ (Listed(r[i], n) \/ (server = "go" /\ r[i] = n)),
         server = "js" => r = << >>,
         server # "js" => \A m \in Taken : Contains(notes[List(c)], m) /\ Listed(m, n) => Contains(r, m)
  PROVE  /\ heard' \in [Notes -> Seq(Notes)] /\ before' \in [Notes -> SUBSET Notes]
         /\ HeardInv' /\ PairsInv'
<1>1. /\ n = <<c, TakenTo(c) + 1>> /\ n \notin Taken /\ Taken' = Taken \cup {n}
  BY ReadFacts
<1>2. Taken \subseteq Notes /\ Handled \subseteq Taken
  BY DEF Taken, Handled
<1>3. /\ heard' \in [Notes -> Seq(Notes)] /\ heard'[n] = r
      /\ \A m \in Notes : m # n => heard'[m] = heard[m]
  BY DEF IInv, ShapeInv
<1>4. /\ before' \in [Notes -> SUBSET Notes] /\ before'[n] = Handled
      /\ \A m \in Notes : m # n => before'[m] = before[m]
  BY <1>2 DEF IInv, ShapeInv, Read
<1>5. server' = server /\ pc[c] = "read"
  BY DEF fixedVars, Read
<1>6. \A m, k : Listed(m, k)' <=> Listed(m, k)
  BY SameNotes
<1>7. \A m : Listed(m, n) => List(m[1]) = List(c)
  BY <1>1 DEF Listed, Together
<1>8. ASSUME server # "js", NEW m \in Handled, Listed(m, n)
      PROVE  Contains(r, m)
  BY <1>2, <1>7, <1>8, HandledKept
<1>9. HeardInv'
  <2> SUFFICES ASSUME NEW m \in Taken \cup {n}
               PROVE  /\ server # "js" => \A k \in before'[m] : Listed(k, m) => Contains(heard'[m], k)
                      /\ server = "js" => heard'[m] = << >>
                      /\ InOrder(heard'[m])
                      /\ \A i \in DOMAIN heard'[m] :
                           /\ heard'[m][i] \in Taken \cup {n}
                           /\ Listed(heard'[m][i], m) \/ (server = "go" /\ heard'[m][i] = m)
    BY <1>1, <1>5, <1>6 DEF HeardInv, InOrder, Contains
  <2>1. CASE m = n
    BY <1>3, <1>4, <1>8, <2>1
  <2>2. CASE m # n
    <3>1. m \in Taken /\ heard'[m] = heard[m] /\ before'[m] = before[m]
      BY <1>2, <1>3, <1>4, <2>2
    <3>2. /\ server # "js" => \A k \in before[m] : Listed(k, m) => Contains(heard[m], k)
          /\ server = "js" => heard[m] = << >>
          /\ InOrder(heard[m])
          /\ \A i \in DOMAIN heard[m] :
               /\ heard[m][i] \in Taken
               /\ Listed(heard[m][i], m) \/ (server = "go" /\ heard[m][i] = m)
      BY <3>1 DEF IInv, HeardInv
    <3> QED
      BY <3>1, <3>2
  <2> QED
    BY <2>1, <2>2
<1>10. ASSUME server # "js", NEW m \in Taken, Listed(m, n), m[1] = c \/ server \notin {"java", "scala"}
       PROVE  Contains(heard'[n], m)
  <2>1. Contains(notes[List(c)], m)
    BY <1>5, <1>7, <1>10, PairKept
  <2> QED
    BY <1>3, <1>10, <2>1
<1>11. PairsInv'
  <2> SUFFICES ASSUME server # "js", NEW m \in Taken \cup {n}, NEW k \in Taken \cup {n}, Listed(m, k),
                      m[1] = k[1] \/ server \notin {"java", "scala"}
               PROVE  Contains(heard'[m], k) \/ Contains(heard'[k], m)
    <3>1. (\A m, k \in Taken' : Listed(m, k)' /\ (m[1] = k[1] \/ server' \notin {"java", "scala"})
              => Contains(heard'[m], k) \/ Contains(heard'[k], m)) <=>
          (\A m, k \in Taken \cup {n} : Listed(m, k) /\ (m[1] = k[1] \/ server \notin {"java", "scala"})
              => Contains(heard'[m], k) \/ Contains(heard'[k], m))
      BY <1>1, <1>5, <1>6
    <3> QED
      BY <1>5, <3>1 DEF PairsInv, Contains
  <2>1. m # k /\ Listed(k, m) /\ n[1] = c
    BY <1>1 DEF Listed, Together
  <2>2. CASE m = n
    BY <1>10, <2>1, <2>2
  <2>3. CASE k = n
    BY <1>10, <2>1, <2>3
  <2>4. CASE m # n /\ k # n
    <3>1. m \in Taken /\ k \in Taken /\ heard'[m] = heard[m] /\ heard'[k] = heard[k]
      BY <1>2, <1>3, <2>4
    <3>2. Contains(heard[m], k) \/ Contains(heard[k], m)
      BY <3>1 DEF IInv, PairsInv
    <3> QED
      BY <3>1, <3>2
  <2> QED
    BY <2>2, <2>3, <2>4
<1> QED
  BY <1>3, <1>4, <1>9, <1>11

\* Where a handler waits after it has taken a note, and what is in transit.
LEMMA PlaceStep ==
  ASSUME IInv, NEW c \in Clients, NEW n \in Notes, Read(c, n), NEW r \in Seq(Notes), NEW next, Answer(c, n, r, next),
         \/ next = "add" /\ server \in {"cpp", "python", "java"}
         \/ next = "get" /\ server = "scala"
         \/ next = "read" /\ server \in {"csharp", "go", "js"},
         notes' \in [Clients \cup {"server"} -> Seq(Notes)],
         heard' \in [Notes -> Seq(Notes)], before' \in [Notes -> SUBSET Notes]
  PROVE  /\ ShapeInv' /\ TransitInv' /\ PlaceInv'
         /\ pc'[c] = IF server \in Blocking THEN "reply" ELSE next
         /\ \A d \in Clients : d # c => pc'[d] = pc[d]
         /\ current'[c] = n /\ \A d \in Clients : d # c => current'[d] = current[d]
<1>1. /\ UNCHANGED <<sent, fixedVars>> /\ old' = old
      /\ server' = server /\ script' = script /\ unreliable' = unreliable
      /\ closed' = closed /\ cancelled' = cancelled /\ finished' = finished
      /\ current' = [current EXCEPT ![c] = n]
      /\ Notes' = Notes
  BY SameNotes DEF Answer, Read, clientVars, fixedVars
<1>2. /\ n = <<c, TakenTo(c) + 1>> /\ TakenTo(c) \in Nat
      /\ up' \in [Clients -> Seq(Notes)] /\ \A d \in Clients : Len(up'[d]) <= Window
      /\ TakenTo(c)' = TakenTo(c) + 1 /\ \A d \in Clients : d # c => TakenTo(d)' = TakenTo(d)
      /\ \A d \in Clients : \A i \in 1 .. Len(up'[d]) : up'[d][i] = <<d, TakenTo(d)' + i>>
  BY <1>1, ReadFacts
<1>3. /\ pc' = [pc EXCEPT ![c] = IF server \in Blocking THEN "reply" ELSE next]
      /\ next \in {"read", "add", "get"}
  BY DEF Answer
<1>4. /\ pc' \in [Clients -> {"idle", "read", "reply", "add", "get", "swap", "done"}]
      /\ pc'[c] = IF server \in Blocking THEN "reply" ELSE next
      /\ \A d \in Clients : d # c => pc'[d] = pc[d]
  BY <1>3 DEF IInv, ShapeInv
<1>5. /\ pending' \in [Clients -> Seq(Notes)] /\ down' \in [Clients -> Seq(Notes)]
      /\ server \in Blocking => down' = down
  <2>1. pending \in [Clients -> Seq(Notes)] /\ down \in [Clients -> Seq(Notes)]
    BY DEF IInv, ShapeInv
  <2>2. down[c] \o r \in Seq(Notes)
    BY <2>1, ConcatProperties
  <2>3. CASE server \in Blocking
    BY <2>1, <2>3 DEF Answer
  <2>4. CASE server \notin Blocking
    BY <2>1, <2>2, <2>4 DEF Answer
  <2> QED
    BY <2>3, <2>4
<1>6. /\ current' \in [Clients -> Notes \cup {NoNote}]
      /\ current'[c] = n /\ \A d \in Clients : d # c => current'[d] = current[d]
  BY <1>1 DEF IInv, ShapeInv
<1>7. ShapeInv'
  <2>1. /\ server \in ServerLangs /\ unreliable \subseteq Clients
        /\ DOMAIN script = Clients /\ \A d \in Clients : script[d] \in Scripts[d]
        /\ sent \in [Clients -> Nat] /\ \A d \in Clients : sent[d] <= Len(script[d])
        /\ closed \in [Clients -> BOOLEAN] /\ cancelled \in [Clients -> BOOLEAN] /\ finished \in [Clients -> BOOLEAN]
        /\ old \in [Clients -> Seq(Notes)]
        /\ \A d \in Clients : server \in Blocking => Len(down[d]) <= Window
    BY DEF IInv, ShapeInv
  <2>2. \A d \in Clients : server \in Blocking => Len(down'[d]) <= Window
    BY <1>5, <2>1
  <2>3. sent' = sent
    BY <1>1
  <2> QED
    BY <1>1, <1>2, <1>4, <1>5, <1>6, <2>1, <2>2, <2>3 DEF ShapeInv, Blocking, NoNote
<1>8. TransitInv'
  <2> SUFFICES ASSUME NEW d \in Clients
               PROVE  /\ TakenTo(d)' \in Nat
                      /\ \A i \in 1 .. Len(up'[d]) : up'[d][i] = <<d, TakenTo(d)' + i>>
                      /\ current'[d] = IF TakenTo(d)' = 0 THEN NoNote ELSE <<d, TakenTo(d)'>>
                      /\ pc'[d] = "idle" => TakenTo(d)' = 0
                      /\ pc'[d] \in {"reply", "add", "get", "swap"} => TakenTo(d)' # 0
    BY DEF TransitInv, NoNote
  <2>1. /\ TakenTo(d) \in Nat
        /\ current[d] = IF TakenTo(d) = 0 THEN NoNote ELSE <<d, TakenTo(d)>>
        /\ pc[d] = "idle" => TakenTo(d) = 0
        /\ pc[d] \in {"reply", "add", "get", "swap"} => TakenTo(d) # 0
    BY DEF IInv, TransitInv
  <2>2. CASE d # c
    BY <1>2, <1>4, <1>6, <2>1, <2>2
  <2>3. CASE d = c
    <3>1. TakenTo(c) + 1 \in Nat /\ TakenTo(c) + 1 # 0
      BY <1>2
    <3>2. pc'[c] # "idle"
      BY <1>3, <1>4
    <3> QED
      BY <1>2, <1>6, <2>3, <3>1, <3>2
  <2> QED
    BY <2>2, <2>3
<1>9. PlaceInv'
  <2> SUFFICES ASSUME NEW d \in Clients
               PROVE  /\ pc'[d] = "reply" => server \in Blocking
                      /\ pc'[d] = "add" => server \in {"cpp", "python", "java"}
                      /\ pc'[d] \in {"get", "swap"} => server = "scala"
    BY <1>1 DEF PlaceInv, Blocking
  <2> QED
    BY <1>3, <1>4 DEF IInv, PlaceInv
<1> QED
  BY <1>4, <1>6, <1>7, <1>8, <1>9

\* The note is taken and answered; the handler adds it later.
LEMMA LateStep ==
  ASSUME IInv, NEW c \in Clients, NEW n \in Notes, Read(c, n), NEW r \in Seq(Notes), NEW next, Answer(c, n, r, next),
         \/ next = "add" /\ server \in {"cpp", "python", "java"}
         \/ next = "get" /\ server = "scala",
         InOrder(r),
         \A i \in DOMAIN r : r[i] \in Taken \cup {n} /\ (Listed(r[i], n) \/ (server = "go" /\ r[i] = n)),
         server = "js" => r = << >>,
         server # "js" => \A m \in Taken : Contains(notes[List(c)], m) /\ Listed(m, n) => Contains(r, m),
         UNCHANGED notes
  PROVE  IInv'
<1> DEFINE A == {d \in Clients : Adding(d)'}
<1>1. /\ UNCHANGED <<sent, fixedVars>> /\ server' = server /\ cancelled' = cancelled /\ pc[c] = "read"
      /\ heard' = [heard EXCEPT ![n] = r] /\ Notes' = Notes
  BY SameNotes DEF Answer, Read, clientVars, fixedVars
<1>2. /\ heard' \in [Notes -> Seq(Notes)] /\ before' \in [Notes -> SUBSET Notes]
      /\ HeardInv' /\ PairsInv'
  BY <1>1, HeardStep
<1>3. notes' \in [Clients \cup {"server"} -> Seq(Notes)]
  BY DEF IInv, ShapeInv
<1>4. /\ ShapeInv' /\ TransitInv' /\ PlaceInv'
      /\ pc'[c] = IF server \in Blocking THEN "reply" ELSE next
      /\ \A d \in Clients : d # c => pc'[d] = pc[d]
      /\ current'[c] = n /\ \A d \in Clients : d # c => current'[d] = current[d]
  BY <1>2, <1>3, PlaceStep
<1>5. /\ n \notin Taken /\ Taken' = Taken \cup {n} /\ n[1] = c
  BY <1>1, ReadFacts
<1>6. /\ c \in A /\ \A d \in Clients : d # c => (d \in A <=> Adding(d))
      /\ ~ Adding(c)
  BY <1>1, <1>4 DEF Adding, Blocking
<1> HIDE DEF A
<1>7. \A m \in Taken : m[1] \in Clients
  BY NoteParts DEF Taken
<1>8. \A d : List(d)' = List(d)
  BY <1>1, SameNotes
<1>9. \A d \in Clients :
         d \in A <=> pc'[d] \in {"add", "get", "swap"} \/ (pc'[d] = "reply" /\ server \in {"cpp", "python"})
  BY <1>1 DEF A, Adding
<1>10. ListsInv'
  <2> SUFFICES ASSUME NEW k \in Clients \cup {"server"}
               PROVE  /\ InOrder(notes[k])
                      /\ \A i \in DOMAIN notes[k] :
                           /\ notes[k][i] \in Taken' /\ notes[k][i][1] \in Clients /\ List(notes[k][i][1]) = k
                           /\ notes[k][i][1] \in A => notes[k][i] # current'[notes[k][i][1]]
    BY <1>1, <1>8, <1>9 DEF ListsInv, InOrder, Adding
  <2>1. /\ InOrder(notes[k])
        /\ \A i \in DOMAIN notes[k] :
             /\ notes[k][i] \in Taken /\ List(notes[k][i][1]) = k
             /\ Adding(notes[k][i][1]) => notes[k][i] # current[notes[k][i][1]]
    BY DEF IInv, ListsInv
  <2>2. ASSUME NEW m \in Taken, Adding(m[1]) => m # current[m[1]], m[1] \in A
        PROVE  m # current'[m[1]]
    <3>1. CASE m[1] = c
      BY <1>4, <1>5, <3>1
    <3>2. CASE m[1] # c
      BY <1>4, <1>6, <1>7, <2>2, <3>2
    <3> QED
      BY <3>1, <3>2
  <2> QED
    BY <1>5, <1>7, <2>1, <2>2
<1>11. KeptInv'
  <2> SUFFICES ASSUME server # "js", NEW m \in Taken \cup {n}
               PROVE  \/ Contains(notes[List(m[1])], m)
                      \/ /\ current'[m[1]] = m
                         /\ m[1] \in A \/ (pc'[m[1]] = "done" /\ cancelled[m[1]] /\ server \notin {"go", "csharp"})
    BY <1>1, <1>5, <1>7, <1>8 DEF KeptInv, A, Contains
  <2>1. CASE m = n
    BY <1>4, <1>5, <1>6, <2>1
  <2>2. CASE m # n
    <3>1. \/ Contains(notes[List(m[1])], m)
          \/ /\ current[m[1]] = m
             /\ Adding(m[1]) \/ (pc[m[1]] = "done" /\ cancelled[m[1]] /\ server \notin {"go", "csharp"})
      BY <2>2 DEF IInv, KeptInv
    <3>2. CASE m[1] = c
      BY <1>1, <1>6, <3>1, <3>2
    <3>3. CASE m[1] # c
      BY <1>4, <1>6, <1>7, <2>2, <3>1, <3>3
    <3> QED
      BY <3>2, <3>3
  <2> QED
    BY <2>1, <2>2
<1> QED
  BY <1>2, <1>4, <1>10, <1>11 DEF IInv

\* A note that is taken comes after those of its client.
LEMMA NextInOrder ==
  ASSUME IInv, NEW c \in Clients, NEW n \in Notes, Read(c, n), UNCHANGED <<sent, fixedVars>>,
         NEW s \in Seq(Notes), InOrder(s), \A i \in DOMAIN s : s[i] \in Taken
  PROVE  InOrder(Append(s, n))
<1> DEFINE a == Append(s, n)
<1>1. /\ n = <<c, TakenTo(c) + 1>> /\ TakenTo(c) \in Nat
      /\ \A m \in Taken : m[1] = c => m[2] <= TakenTo(c)
  BY ReadFacts
<1>2. /\ Len(s) \in Nat /\ DOMAIN s = 1 .. Len(s) /\ DOMAIN a = 1 .. Len(s) + 1
      /\ \A i \in 1 .. Len(s) : a[i] = s[i]
      /\ a[Len(s) + 1] = n
  BY AppendKeeps
<1> HIDE DEF a
<1>3. \A m \in Taken : m[2] \in Nat
  BY NoteParts DEF Taken
<1> SUFFICES ASSUME NEW i \in DOMAIN a, NEW j \in DOMAIN a, i < j, a[i][1] = a[j][1]
             PROVE  a[i][2] < a[j][2]
  BY DEF InOrder, a
<1>4. i \in DOMAIN s /\ a[i] = s[i] /\ (j \in DOMAIN s \/ j = Len(s) + 1)
  BY <1>2
<1>5. CASE j \in DOMAIN s
  <2>1. a[j] = s[j]
    BY <1>2, <1>5
  <2> QED
    BY <1>4, <1>5, <2>1 DEF InOrder
<1>6. CASE j = Len(s) + 1
  <2>1. a[j] = n /\ a[i] \in Taken /\ n[1] = c /\ n[2] = TakenTo(c) + 1
    BY <1>1, <1>2, <1>4, <1>6
  <2>2. a[i][2] <= TakenTo(c) /\ a[i][2] \in Nat
    BY <1>1, <1>3, <2>1
  <2> QED
    BY <1>1, <2>1, <2>2
<1> QED
  BY <1>4, <1>5, <1>6

\* The notes at the location, of the list or of the list with the note, are
\* what the note has to be answered with.
LEMMA AnswerFacts ==
  ASSUME IInv, NEW c \in Clients, NEW n \in Notes, Read(c, n), UNCHANGED <<sent, fixedVars>>,
         NEW s \in Seq(Notes), InOrder(s),
         \A i \in DOMAIN s : /\ s[i] \in Taken \cup {n} /\ List(s[i][1]) = List(c)
                             /\ s[i] = n => server = "go",
         \A x : Contains(notes[List(c)], x) => Contains(s, x)
  PROVE  LET r == At(s, Loc(n))
         IN /\ r \in Seq(Notes) /\ InOrder(r)
            /\ \A i \in DOMAIN r : r[i] \in Taken \cup {n} /\ (Listed(r[i], n) \/ (server = "go" /\ r[i] = n))
            /\ \A m \in Taken : Contains(notes[List(c)], m) /\ Listed(m, n) => Contains(r, m)
<1> DEFINE there == {m \in Notes : Loc(m) = Loc(n)}
           r == Among(s, there)
<1> HIDE DEF there
<1>1. /\ r \in Seq(Notes) /\ InOrder(r)
      /\ \A i \in 1 .. Len(r) : r[i] \in there /\ \E k \in 1 .. Len(s) : r[i] = s[k]
      /\ \A k \in 1 .. Len(s) : s[k] \in there => Contains(r, s[k])
  BY AmongFacts
<1>2. r = At(s, Loc(n))
  BY DEF At, there
<1>3. DOMAIN r = 1 .. Len(r) /\ DOMAIN s = 1 .. Len(s)
  BY <1>1, LenProperties
<1> HIDE DEF r
<1>4. n[1] = c
  BY ReadFacts
<1>5. \A i \in DOMAIN r : r[i] \in Taken \cup {n} /\ (Listed(r[i], n) \/ (server = "go" /\ r[i] = n))
  BY <1>1, <1>3, <1>4 DEF Listed, Together, there
<1>6. ASSUME NEW m \in Taken, Contains(notes[List(c)], m), Listed(m, n)
      PROVE  Contains(r, m)
  <2>1. PICK k \in 1 .. Len(s) : s[k] = m
    BY <1>3, <1>6 DEF Contains
  <2>2. m \in there
    BY <1>6 DEF Taken, Listed, Together, there
  <2> QED
    BY <1>1, <2>1, <2>2
<1> QED
  BY <1>1, <1>2, <1>5, <1>6

\* The list that a call uses.
LEMMA ListFacts ==
  ASSUME IInv, NEW c \in Clients
  PROVE  /\ notes[List(c)] \in Seq(Notes) /\ InOrder(notes[List(c)])
         /\ \A i \in DOMAIN notes[List(c)] : notes[List(c)][i] \in Taken /\ List(notes[List(c)][i][1]) = List(c)
<1>1. List(c) \in Clients \cup {"server"}
  BY ListDomain DEF IInv
<1> QED
  BY <1>1 DEF IInv, ShapeInv, ListsInv

\* The note is taken, answered and added to what is left of the list.
LEMMA NowStep ==
  ASSUME IInv, NEW c \in Clients, NEW n \in Notes, Read(c, n), NEW r \in Seq(Notes), Answer(c, n, r, "read"),
         server \in {"csharp", "go", "js"},
         InOrder(r),
         \A i \in DOMAIN r : r[i] \in Taken \cup {n} /\ (Listed(r[i], n) \/ (server = "go" /\ r[i] = n)),
         server = "js" => r = << >>,
         server # "js" => \A m \in Taken : Contains(notes[List(c)], m) /\ Listed(m, n) => Contains(r, m),
         NEW s \in Seq(Notes), InOrder(s),
         \A i \in DOMAIN s : \E k \in DOMAIN notes[List(c)] : s[i] = notes[List(c)][k],
         server # "js" => \A x : Contains(notes[List(c)], x) => Contains(s, x),
         notes' = [notes EXCEPT ![List(c)] = Append(s, n)]
  PROVE  IInv'
<1> DEFINE A == {d \in Clients : Adding(d)'}
           l == List(c)
           a == Append(s, n)
<1>1. /\ UNCHANGED <<sent, fixedVars>> /\ server' = server /\ cancelled' = cancelled /\ pc[c] = "read"
      /\ heard' = [heard EXCEPT ![n] = r] /\ Notes' = Notes
  BY SameNotes DEF Answer, Read, clientVars, fixedVars
<1>2. /\ heard' \in [Notes -> Seq(Notes)] /\ before' \in [Notes -> SUBSET Notes]
      /\ HeardInv' /\ PairsInv'
  BY <1>1, HeardStep
<1>3. /\ n = <<c, TakenTo(c) + 1>> /\ TakenTo(c) \in Nat
      /\ n \notin Taken /\ Taken' = Taken \cup {n}
      /\ \A m \in Taken : m[1] = c => m[2] <= TakenTo(c)
  BY <1>1, ReadFacts
<1>4. l \in Clients \cup {"server"}
  BY ListDomain DEF IInv
<1>5. /\ a \in Seq(Notes) /\ Len(s) \in Nat
      /\ DOMAIN s = 1 .. Len(s) /\ DOMAIN a = 1 .. Len(s) + 1
      /\ \A i \in 1 .. Len(s) : a[i] = s[i]
      /\ a[Len(s) + 1] = n
      /\ Contains(a, n) /\ \A x : Contains(s, x) => Contains(a, x)
  BY AppendKeeps
<1> HIDE DEF a, l
<1>6. /\ notes' \in [Clients \cup {"server"} -> Seq(Notes)] /\ notes'[l] = a
      /\ \A k \in Clients \cup {"server"} : k # l => notes'[k] = notes[k]
  BY <1>4, <1>5 DEF IInv, ShapeInv, a, l
<1>7. /\ ShapeInv' /\ TransitInv' /\ PlaceInv'
      /\ \A d \in Clients : d # c => pc'[d] = pc[d]
      /\ current'[c] = n /\ \A d \in Clients : d # c => current'[d] = current[d]
  BY <1>2, <1>6, PlaceStep
<1>8. A = {}
  BY <1>1, <1>7 DEF Adding, PlaceInv
<1>9. \A d \in Clients : ~ Adding(d)
  BY DEF Adding, IInv, PlaceInv
<1>10. \A m \in Taken : m[1] \in Clients /\ m[2] \in Nat
  BY NoteParts DEF Taken
<1>11. \A d : List(d)' = List(d)
  BY <1>1, SameNotes
<1>12. ASSUME NEW k \in Clients \cup {"server"}
       PROVE  /\ InOrder(notes[k])
              /\ \A i \in DOMAIN notes[k] : notes[k][i] \in Taken /\ List(notes[k][i][1]) = k
  BY DEF IInv, ListsInv
<1>13. \A i \in DOMAIN s : s[i] \in Taken /\ List(s[i][1]) = l
  BY <1>4, <1>12 DEF l
<1>14. \A i \in DOMAIN a : i \in DOMAIN s \/ i = Len(s) + 1
  BY <1>5
<1>15. List(n[1]) = l /\ n[1] = c /\ n[2] = TakenTo(c) + 1
  BY <1>3 DEF l
<1>16. \A i \in DOMAIN a : a[i] \in Taken \cup {n} /\ List(a[i][1]) = l
  BY <1>5, <1>13, <1>14, <1>15
<1>17. InOrder(a)
  BY <1>1, <1>13, NextInOrder DEF a
<1>18. ListsInv'
  <2> SUFFICES ASSUME NEW k \in Clients \cup {"server"}
               PROVE  /\ InOrder(notes'[k])
                      /\ \A i \in DOMAIN notes'[k] : notes'[k][i] \in Taken \cup {n} /\ List(notes'[k][i][1]) = k
    <3>1. \A m \in Taken \cup {n} : m[1] \in Clients
      BY <1>3, <1>10
    <3>2. \A d \in Clients : ~ (pc'[d] \in {"add", "get", "swap"} \/ (pc'[d] = "reply" /\ server \in {"cpp", "python"}))
      BY <1>1, <1>8 DEF A, Adding
    <3> SUFFICES ASSUME NEW k \in Clients \cup {"server"}
                 PROVE  (/\ InOrder(notes[k])
                         /\ \A i \in DOMAIN notes[k] :
                              LET m == notes[k][i]
                              IN m \in Taken /\ List(m[1]) = k /\ (Adding(m[1]) => m # current[m[1]]))'
      BY DEF ListsInv
    <3>3. /\ InOrder(notes'[k])
          /\ \A i \in DOMAIN notes'[k] : notes'[k][i] \in Taken \cup {n} /\ List(notes'[k][i][1]) = k
      OBVIOUS
    <3>4. InOrder(notes[k])'
      BY <3>3 DEF InOrder
    <3> QED
      BY <1>1, <1>3, <1>11, <3>1, <3>2, <3>3, <3>4 DEF Adding
  <2>1. CASE k = l
    <3>1. notes'[k] = a
      BY <1>6, <2>1
    <3>2. \A i \in DOMAIN a : a[i] \in Taken \cup {n} /\ List(a[i][1]) = k
      BY <1>16, <2>1
    <3> QED
      BY <3>1, <3>2, <1>17
  <2>2. CASE k # l
    <3>1. notes'[k] = notes[k]
      BY <1>6, <2>2
    <3>2. InOrder(notes[k]) /\ \A i \in DOMAIN notes[k] : notes[k][i] \in Taken \cup {n} /\ List(notes[k][i][1]) = k
      BY <1>12
    <3> QED
      BY <3>1, <3>2
  <2> QED
    BY <2>1, <2>2
<1>19. KeptInv'
  <2> SUFFICES ASSUME server # "js", NEW m \in Taken \cup {n}
               PROVE  Contains(notes'[List(m[1])], m)
    <3>1. KeptInv' <=> (server' # "js" =>
             \A m \in Taken' :
               \/ Contains(notes'[List(m[1])'], m)
               \/ /\ current'[m[1]] = m
                  /\ Adding(m[1])' \/ (pc'[m[1]] = "done" /\ cancelled'[m[1]] /\ server' \notin {"go", "csharp"}))
      BY DEF KeptInv, Contains
    <3> QED
      BY <1>1, <1>3, <1>11, <3>1
  <2>1. CASE m = n
    <3>1. Contains(notes'[List(n[1])], n)
      <4>1. notes'[List(n[1])] = a
        BY <1>6, <1>15
      <4> QED
        BY <1>5, <4>1
    <3> QED
      BY <2>1, <3>1
  <2>2. CASE m # n
    <3>1. m \in Taken /\ m[1] \in Clients /\ List(m[1]) \in Clients \cup {"server"}
      BY <1>10, <2>2, ListDomain DEF IInv
    <3>2. Contains(notes[List(m[1])], m)
      BY <1>9, <3>1 DEF IInv, KeptInv
    <3>3. CASE List(m[1]) = l
      BY <1>5, <1>6, <3>2, <3>3 DEF l
    <3>4. CASE List(m[1]) # l
      BY <1>6, <3>1, <3>2, <3>4
    <3> QED
      BY <3>3, <3>4
  <2> QED
    BY <2>1, <2>2
<1> QED
  BY <1>2, <1>7, <1>18, <1>19 DEF IInv

-----------------------------------------------------------------------------
(* The actions *)

LEMMA AnswerLater ==
  ASSUME IInv, NEW c \in Clients, NEW n \in Notes, NEW next, Read(c, n), Answer(c, n, At(notes[List(c)], Loc(n)), next),
         \/ next = "add" /\ server \in {"cpp", "python", "java"}
         \/ next = "get" /\ server = "scala",
         UNCHANGED notes
  PROVE  IInv'
<1> DEFINE r == At(notes[List(c)], Loc(n))
<1>1. UNCHANGED <<sent, fixedVars>>
  BY DEF Answer, clientVars
<1>2. /\ notes[List(c)] \in Seq(Notes) /\ InOrder(notes[List(c)])
      /\ \A i \in DOMAIN notes[List(c)] : notes[List(c)][i] \in Taken /\ List(notes[List(c)][i][1]) = List(c)
  BY ListFacts
<1>3. n \notin Taken
  BY <1>1, ReadFacts
<1>4. /\ r \in Seq(Notes) /\ InOrder(r)
      /\ \A i \in DOMAIN r : r[i] \in Taken \cup {n} /\ (Listed(r[i], n) \/ (server = "go" /\ r[i] = n))
      /\ \A m \in Taken : Contains(notes[List(c)], m) /\ Listed(m, n) => Contains(r, m)
  BY <1>1, <1>2, <1>3, AnswerFacts
<1>5. Answer(c, n, r, next)
  OBVIOUS
<1> HIDE DEF r
<1> QED
  BY <1>4, <1>5, LateStep

LEMMA CSharpStep ==
  ASSUME IInv, NEW c \in Clients, CSharpAnswer(c)
  PROVE  IInv'
<1>1. PICK n \in Notes : Read(c, n) /\ Keep(c, n) /\ Answer(c, n, At(notes[List(c)], Loc(n)), "read")
  BY DEF CSharpAnswer
<1>2. server = "csharp"
  BY DEF CSharpAnswer
<1> DEFINE r == At(notes[List(c)], Loc(n))
           s == notes[List(c)]
<1>3. UNCHANGED <<sent, fixedVars>>
  BY <1>1 DEF Answer, clientVars
<1>4. /\ s \in Seq(Notes) /\ InOrder(s)
      /\ \A i \in DOMAIN s : s[i] \in Taken /\ List(s[i][1]) = List(c)
  BY ListFacts
<1>5. n \notin Taken
  BY <1>1, <1>3, ReadFacts
<1>6. /\ r \in Seq(Notes) /\ InOrder(r)
      /\ \A i \in DOMAIN r : r[i] \in Taken \cup {n} /\ (Listed(r[i], n) \/ (server = "go" /\ r[i] = n))
      /\ \A m \in Taken : Contains(s, m) /\ Listed(m, n) => Contains(r, m)
  BY <1>1, <1>3, <1>4, <1>5, AnswerFacts
<1>7. Answer(c, n, r, "read") /\ notes' = [notes EXCEPT ![List(c)] = Append(s, n)]
  BY <1>1 DEF Keep
<1> HIDE DEF r
<1> QED
  BY <1>1, <1>2, <1>4, <1>6, <1>7, NowStep

LEMMA GoStep ==
  ASSUME IInv, NEW c \in Clients, GoAnswer(c)
  PROVE  IInv'
<1>1. PICK n \in Notes : Read(c, n) /\ Keep(c, n) /\ Answer(c, n, At(notes'[List(c)], Loc(n)), "read")
  BY DEF GoAnswer
<1>2. server = "go"
  BY DEF GoAnswer
<1> DEFINE s == notes[List(c)]
           a == Append(s, n)
           r == At(a, Loc(n))
<1>3. UNCHANGED <<sent, fixedVars>>
  BY <1>1 DEF Answer, clientVars
<1>4. /\ s \in Seq(Notes) /\ InOrder(s)
      /\ \A i \in DOMAIN s : s[i] \in Taken /\ List(s[i][1]) = List(c)
  BY ListFacts
<1>5. n[1] = c
  BY <1>1, <1>3, ReadFacts
<1>6. notes' = [notes EXCEPT ![List(c)] = a] /\ notes'[List(c)] = a
  <2>1. List(c) \in Clients \cup {"server"}
    BY ListDomain DEF IInv
  <2> QED
    BY <1>1, <2>1 DEF Keep, IInv, ShapeInv
<1> HIDE DEF s
<1>7. /\ a \in Seq(Notes) /\ Len(s) \in Nat
      /\ DOMAIN s = 1 .. Len(s) /\ DOMAIN a = 1 .. Len(s) + 1
      /\ \A i \in 1 .. Len(s) : a[i] = s[i]
      /\ a[Len(s) + 1] = n
      /\ \A x : Contains(s, x) => Contains(a, x)
  BY <1>4, AppendKeeps
<1>8. InOrder(a)
  BY <1>1, <1>3, <1>4, NextInOrder
<1> HIDE DEF a
<1>9. \A i \in DOMAIN a : a[i] \in Taken \cup {n} /\ List(a[i][1]) = List(c)
  <2>1. \A i \in DOMAIN a : i \in DOMAIN s \/ i = Len(s) + 1
    BY <1>7
  <2> QED
    BY <1>4, <1>5, <1>7, <2>1
<1>10. /\ r \in Seq(Notes) /\ InOrder(r)
       /\ \A i \in DOMAIN r : r[i] \in Taken \cup {n} /\ (Listed(r[i], n) \/ (server = "go" /\ r[i] = n))
       /\ \A m \in Taken : Contains(s, m) /\ Listed(m, n) => Contains(r, m)
  BY <1>1, <1>2, <1>3, <1>7, <1>8, <1>9, AnswerFacts DEF s
<1>11. Answer(c, n, r, "read")
  BY <1>1, <1>6
<1> HIDE DEF r
<1> QED
  BY <1>1, <1>2, <1>4, <1>6, <1>10, <1>11, NowStep DEF a, s

LEMMA JsStep ==
  ASSUME IInv, NEW c \in Clients, JsAnswer(c)
  PROVE  IInv'
<1> DEFINE kept == notes[List(c)]
           elsewhere(n) == {m \in Notes : Loc(m) # Loc(n)}
<1>1. PICK n \in Notes :
        /\ Read(c, n)
        /\ Answer(c, n, << >>, "read")
        /\ notes' = [notes EXCEPT ![List(c)] = Append(Among(notes[List(c)], elsewhere(n)), n)]
  BY DEF JsAnswer, MapEntries
<1>2. server = "js"
  BY DEF JsAnswer
<1> DEFINE s == Among(kept, elsewhere(n))
           r == << >>
<1>3. kept \in Seq(Notes) /\ InOrder(kept)
  BY ListFacts
<1>4. /\ s \in Seq(Notes) /\ InOrder(s)
      /\ \A i \in 1 .. Len(s) : \E k \in 1 .. Len(kept) : s[i] = kept[k]
  <2> HIDE DEF kept, elsewhere
  <2> QED
    BY <1>3, AmongFacts
<1>5. DOMAIN s = 1 .. Len(s) /\ DOMAIN kept = 1 .. Len(kept)
  BY <1>3, <1>4, LenProperties
<1>6. r \in Seq(Notes) /\ DOMAIN r = {} /\ InOrder(r) /\ r = << >>
  BY DEF InOrder
<1>7. notes' = [notes EXCEPT ![List(c)] = Append(s, n)] /\ Answer(c, n, r, "read")
  BY <1>1
<1>8. \A i \in DOMAIN s : \E k \in DOMAIN notes[List(c)] : s[i] = notes[List(c)][k]
  BY <1>4, <1>5
<1> HIDE DEF s, r
<1> QED
  BY <1>1, <1>2, <1>4, <1>6, <1>7, <1>8, NowStep

LEMMA QuietActions ==
  ASSUME IInv, NEW c \in Clients,
         \/ CloseSend(c) \/ Receive(c) \/ SeeEnd(c) \/ Cancel(c)
         \/ Begin(c) \/ Write(c) \/ Written(c) \/ GetRef(c) \/ End(c) \/ Abort(c) \/ WriteInVain(c)
         \/ CompareAndSet(c) /\ notes[List(c)] # old[c]
  PROVE  IInv'
<1>1. /\ closed \in [Clients -> BOOLEAN] /\ cancelled \in [Clients -> BOOLEAN] /\ finished \in [Clients -> BOOLEAN]
      /\ pc \in [Clients -> {"idle", "read", "reply", "add", "get", "swap", "done"}]
      /\ old \in [Clients -> Seq(Notes)] /\ pending \in [Clients -> Seq(Notes)] /\ down \in [Clients -> Seq(Notes)]
      /\ \A d \in Clients : server \in Blocking => Len(down[d]) <= Window
      /\ << >> \in Seq(Notes) /\ Len(<< >>) = 0 /\ 0 <= Window
  BY ChatAssumption DEF IInv, ShapeInv
<1>2. \A d \in Clients : pc'[d] = pc[d] => Moves(d, pc'[d], cancelled'[d])
  BY DEF Moves
<1> DEFINE Quiet ==
             /\ UNCHANGED <<fixedVars, up, sent, current, notes, heard, before>>
             /\ closed' \in [Clients -> BOOLEAN] /\ cancelled' \in [Clients -> BOOLEAN] /\ finished' \in [Clients -> BOOLEAN]
             /\ old' \in [Clients -> Seq(Notes)] /\ pending' \in [Clients -> Seq(Notes)]
             /\ down' \in [Clients -> Seq(Notes)]
             /\ \A d \in Clients : server \in Blocking => Len(down'[d]) <= Window
             /\ pc' \in [Clients -> {"idle", "read", "reply", "add", "get", "swap", "done"}]
             /\ \A d \in Clients : cancelled[d] => cancelled'[d]
             /\ \A d \in Clients : Moves(d, pc'[d], cancelled'[d])
<1> SUFFICES Quiet
  BY QuietStep
<1>3. ASSUME CloseSend(c) PROVE Quiet
  BY <1>1, <1>2, <1>3 DEF CloseSend
<1>4. ASSUME Receive(c) PROVE Quiet
  <2>1. Tail(down[c]) \in Seq(Notes) /\ Len(Tail(down[c])) = Len(down[c]) - 1 /\ Len(down[c]) \in Nat
    BY <1>1, <1>4, HeadTailProperties, LenProperties DEF Receive
  <2>2. server \in Blocking => Len(Tail(down[c])) <= Window
    BY <1>1, <2>1, ChatAssumption
  <2> QED
    BY <1>1, <1>2, <1>4, <2>1, <2>2 DEF Receive, clientVars
<1>5. ASSUME SeeEnd(c) PROVE Quiet
  BY <1>1, <1>2, <1>5 DEF SeeEnd
<1>6. ASSUME Cancel(c) PROVE Quiet
  BY <1>1, <1>2, <1>6 DEF Cancel
<1>7. ASSUME Begin(c) PROVE Quiet
  BY <1>1, <1>7 DEF Begin, clientVars, Moves
<1>8. ASSUME Write(c) PROVE Quiet
  <2>1. /\ down' = [down EXCEPT ![c] = Append(down[c], Head(pending[c]))]
        /\ pending' = [pending EXCEPT ![c] = Tail(pending[c])]
        /\ pending[c] # << >> /\ Len(down[c]) < Window
        /\ UNCHANGED <<clientVars, up, pc, current, old, notes, heard, before, fixedVars>>
    BY <1>8 DEF Write
  <2>2. Head(pending[c]) \in Notes /\ Tail(pending[c]) \in Seq(Notes)
    BY <1>1, <2>1, HeadTailProperties
  <2>3. /\ Append(down[c], Head(pending[c])) \in Seq(Notes) /\ Len(down[c]) \in Nat
        /\ Len(Append(down[c], Head(pending[c]))) = Len(down[c]) + 1
    BY <1>1, <2>2, AppendKeeps
  <2>4. Len(Append(down[c], Head(pending[c]))) <= Window
    BY <2>1, <2>3, ChatAssumption
  <2> QED
    BY <1>1, <1>2, <2>1, <2>2, <2>3, <2>4 DEF clientVars
<1>9. ASSUME Written(c) PROVE Quiet
  BY <1>1, <1>9 DEF Written, clientVars, Moves
<1>10. ASSUME GetRef(c) PROVE Quiet
  <2>1. notes[List(c)] \in Seq(Notes)
    BY ListFacts
  <2> QED
    BY <1>1, <1>10, <2>1 DEF GetRef, clientVars, Moves
<1>11. ASSUME End(c) PROVE Quiet
  BY <1>1, <1>11 DEF End, clientVars, Moves
<1>12. ASSUME Abort(c) PROVE Quiet
  BY <1>1, <1>12 DEF Abort, clientVars, Moves
<1>13. ASSUME WriteInVain(c) PROVE Quiet
  BY <1>1, <1>2, <1>13 DEF WriteInVain, clientVars
<1>14. ASSUME CompareAndSet(c), notes[List(c)] # old[c] PROVE Quiet
  BY <1>1, <1>14 DEF CompareAndSet, clientVars, Moves
<1> HIDE DEF Quiet
<1> QED
  BY <1>3, <1>4, <1>5, <1>6, <1>7, <1>8, <1>9, <1>10, <1>11, <1>12, <1>13, <1>14

LEMMA AddActions ==
  ASSUME IInv, NEW c \in Clients, AddNote(c) \/ (CompareAndSet(c) /\ notes[List(c)] = old[c])
  PROVE  IInv'
<1>1. old \in [Clients -> Seq(Notes)] /\ << >> \in Seq(Notes)
  BY DEF IInv, ShapeInv
<1>2. CASE AddNote(c)
  <2>1. /\ Adding(c)
        /\ notes' = [notes EXCEPT ![List(c)] = Append(notes[List(c)], current[c])]
        /\ pc' = [pc EXCEPT ![c] = "read"] /\ old' = old
        /\ UNCHANGED <<clientVars, fixedVars, up, current, pending, down, heard, before>>
    BY <1>2 DEF AddNote, Keep, Adding
  <2> QED
    BY <1>1, <2>1, AddStep
<1>3. CASE CompareAndSet(c) /\ notes[List(c)] = old[c]
  <2>1. /\ Adding(c)
        /\ notes' = [notes EXCEPT ![List(c)] = Append(notes[List(c)], current[c])]
        /\ pc' = [pc EXCEPT ![c] = "read"] /\ old' = [old EXCEPT ![c] = << >>]
        /\ UNCHANGED <<clientVars, fixedVars, up, current, pending, down, heard, before>>
    BY <1>3 DEF CompareAndSet, Adding
  <2>2. old' \in [Clients -> Seq(Notes)]
    BY <1>1, <2>1
  <2> QED
    BY <2>1, <2>2, AddStep
<1> QED
  BY <1>2, <1>3

LEMMA NextInv ==
  ASSUME IInv, [Next]_vars
  PROVE  IInv'
<1>1. ASSUME NEW c \in Clients, Client(c) PROVE IInv'
  BY <1>1, SendStep, QuietActions DEF Client
<1>2. ASSUME NEW c \in Clients, Cancel(c) PROVE IInv'
  BY <1>2, QuietActions
<1>3. ASSUME NEW c \in Clients, Handler(c) PROVE IInv'
  <2>1. CASE CppAnswer(c)
    BY <2>1, AnswerLater DEF CppAnswer
  <2>2. CASE PythonAnswer(c)
    BY <2>2, AnswerLater DEF PythonAnswer
  <2>3. CASE CSharpAnswer(c)
    BY <2>3, CSharpStep
  <2>4. CASE GoAnswer(c)
    BY <2>4, GoStep
  <2>5. CASE JavaAnswer(c)
    BY <2>5, AnswerLater DEF JavaAnswer
  <2>6. CASE ScalaAnswer(c)
    BY <2>6, AnswerLater DEF ScalaAnswer
  <2>7. CASE JsAnswer(c)
    BY <2>7, JsStep
  <2>8. CASE AddNote(c)
    BY <2>8, AddActions
  <2>9. CASE CompareAndSet(c)
    BY <2>9, AddActions, QuietActions
  <2>10. CASE Begin(c) \/ Write(c) \/ Written(c) \/ GetRef(c) \/ End(c) \/ Abort(c) \/ WriteInVain(c)
    BY <2>10, QuietActions
  <2> QED
    BY <1>3, <2>1, <2>2, <2>3, <2>4, <2>5, <2>6, <2>7, <2>8, <2>9, <2>10 DEF Handler
<1>4. CASE UNCHANGED vars
  <2>1. /\ UNCHANGED <<fixedVars, up, sent, current, notes, heard, before>>
        /\ closed' = closed /\ cancelled' = cancelled /\ finished' = finished
        /\ old' = old /\ pending' = pending /\ down' = down /\ pc' = pc
    BY <1>4 DEF vars, fixedVars
  <2>2. \A d \in Clients : Moves(d, pc'[d], cancelled'[d])
    BY <2>1 DEF Moves
  <2> QED
    BY <2>1, <2>2, QuietStep DEF IInv, ShapeInv
<1> QED
  BY <1>1, <1>2, <1>3, <1>4 DEF Next

LEMMA InitInv ==
  ASSUME Init
  PROVE  IInv
<1>1. /\ server \in ServerLangs /\ unreliable \subseteq Clients
      /\ DOMAIN script = Clients /\ \A c \in Clients : script[c] \in Scripts[c]
  BY DEF Init
<1>2. \A c \in Clients : Len(script[c]) \in Nat
  <2>1. \A c \in Clients : script[c] \in Seq(Locations)
    BY <1>1, ChatAssumption
  <2> QED
    BY <2>1, LenProperties
<1>3. << >> \in Seq(Notes) /\ Len(<< >>) = 0 /\ 0 <= Window /\ DOMAIN << >> = {}
  BY ChatAssumption
<1>4. Taken = {}
  <2> SUFFICES ASSUME NEW n \in Taken PROVE FALSE
    OBVIOUS
  <2>1. n \in Notes /\ n[2] <= sent[n[1]]
    BY DEF Taken
  <2>2. n[1] \in Clients /\ n[2] \in 1 .. Len(script[n[1]])
    BY <2>1, NoteParts
  <2>3. sent[n[1]] = 0
    BY <2>2 DEF Init
  <2> QED
    BY <1>2, <2>1, <2>2, <2>3
<1>5. ShapeInv
  <2>1. \A c \in Clients : sent[c] <= Len(script[c])
    BY <1>2 DEF Init
  <2>2. /\ closed \in [Clients -> BOOLEAN] /\ cancelled \in [Clients -> BOOLEAN] /\ finished \in [Clients -> BOOLEAN]
        /\ pc \in [Clients -> {"idle", "read", "reply", "add", "get", "swap", "done"}]
        /\ current \in [Clients -> Notes \cup {NoNote}] /\ sent \in [Clients -> Nat]
    BY DEF Init
  <2>3. /\ up \in [Clients -> Seq(Notes)] /\ old \in [Clients -> Seq(Notes)]
        /\ pending \in [Clients -> Seq(Notes)] /\ down \in [Clients -> Seq(Notes)]
        /\ \A c \in Clients : Len(up[c]) <= Window /\ (server \in Blocking => Len(down[c]) <= Window)
        /\ notes \in [Clients \cup {"server"} -> Seq(Notes)]
        /\ heard \in [Notes -> Seq(Notes)] /\ before \in [Notes -> SUBSET Notes]
    BY <1>3 DEF Init
  <2> QED
    BY <1>1, <2>1, <2>2, <2>3 DEF ShapeInv
<1>6. TransitInv
  <2>1. \A c \in Clients : up[c] = << >> /\ sent[c] = 0 /\ current[c] = NoNote /\ pc[c] = "idle"
    BY DEF Init
  <2>2. \A c \in Clients : TakenTo(c) = 0
    BY <1>3, <2>1 DEF TakenTo
  <2> QED
    BY <1>3, <2>1, <2>2 DEF TransitInv
<1>7. PlaceInv
  BY DEF Init, PlaceInv
<1>8. ListsInv
  <2>1. \A l \in Clients \cup {"server"} : notes[l] = << >>
    BY DEF Init
  <2> QED
    BY <1>3, <2>1 DEF ListsInv, InOrder
<1>9. KeptInv /\ HeardInv /\ PairsInv
  BY <1>4 DEF KeptInv, HeardInv, PairsInv
<1> QED
  BY <1>5, <1>6, <1>7, <1>8, <1>9 DEF IInv

-----------------------------------------------------------------------------
(* The theorems *)

\* The invariant of the chats: what was taken is kept or about to be, and is
\* answered with what was kept.
THEOREM Invariance == Spec => []IInv
<1>1. Init => IInv
  BY InitInv
<1>2. IInv /\ [Next]_vars => IInv'
  BY NextInv
<1> QED
  BY <1>1, <1>2, PTL DEF Spec

\* What is in transit fits the window, and the list of a call holds notes of
\* that call only, with any number of clients and threads.
THEOREM TypeCorrect == Spec => []ChatTypeOK
<1>1. IInv => ChatTypeOK
  <2> SUFFICES ASSUME IInv PROVE ChatTypeOK
    OBVIOUS
  <2>1. /\ server \in ServerLangs /\ (\A c \in Clients : script[c] \in Scripts[c]) /\ unreliable \subseteq Clients
        /\ DOMAIN heard = Notes /\ DOMAIN before = Notes
        /\ \A n \in Notes : heard[n] \in Seq(Notes) /\ before[n] \subseteq Notes
        /\ notes["server"] \in Seq(Notes)
    BY DEF IInv, ShapeInv
  <2>2. ASSUME NEW c \in Clients
        PROVE  /\ sent[c] \in 0 .. Len(script[c]) /\ {closed[c], cancelled[c], finished[c]} \subseteq BOOLEAN
               /\ pc[c] \in {"idle", "read", "reply", "add", "get", "swap", "done"}
               /\ current[c] \in Notes \cup {NoNote}
               /\ up[c] \in Seq(Notes) /\ Len(up[c]) <= Window
               /\ {old[c], pending[c], down[c]} \subseteq Seq(Notes)
               /\ server \in Blocking => Len(down[c]) <= Window
               /\ notes[c] \in Seq({n \in Notes : n[1] = c})
    <3>1. sent[c] \in 0 .. Len(script[c])
      BY NumbersTyped DEF IInv
    <3>2. {closed[c], cancelled[c], finished[c]} \subseteq BOOLEAN
      <4>1. closed[c] \in BOOLEAN /\ cancelled[c] \in BOOLEAN /\ finished[c] \in BOOLEAN
        BY Zenon DEF IInv, ShapeInv
      <4> QED
        BY <4>1, Zenon
    <3>3. /\ pc[c] \in {"idle", "read", "reply", "add", "get", "swap", "done"}
          /\ current[c] \in Notes \cup {NoNote}
          /\ up[c] \in Seq(Notes) /\ Len(up[c]) <= Window
          /\ {old[c], pending[c], down[c]} \subseteq Seq(Notes)
          /\ server \in Blocking => Len(down[c]) <= Window
          /\ notes[c] \in Seq(Notes)
      BY DEF IInv, ShapeInv
    <3>4. \A i \in DOMAIN notes[c] : notes[c][i] \in Notes /\ List(notes[c][i][1]) = c
      BY DEF IInv, ListsInv, Taken
    <3>5. \A i \in DOMAIN notes[c] : notes[c][i] \in {n \in Notes : n[1] = c}
      BY <3>4, ChatAssumption DEF List
    <3>6. notes[c] \in Seq({n \in Notes : n[1] = c})
      <4> DEFINE T == {n \in Notes : n[1] = c}
      <4>1. Len(notes[c]) \in Nat /\ DOMAIN notes[c] = 1 .. Len(notes[c])
        BY <3>3, LenProperties
      <4>2. notes[c] = [i \in 1 .. Len(notes[c]) |-> notes[c][i]]
        BY <3>3, <4>1
      <4>3. \A i \in 1 .. Len(notes[c]) : notes[c][i] \in T
        BY <3>5, <4>1
      <4> HIDE DEF T
      <4>4. notes[c] \in [1 .. Len(notes[c]) -> T]
        BY <4>2, <4>3
      <4>5. notes[c] \in Seq(T)
        BY <4>1, <4>4
      <4> QED
        BY <4>5 DEF T
    <3> QED
      BY <3>1, <3>2, <3>3, <3>6
  <2> QED
    BY <2>1, <2>2 DEF ChatTypeOK
<1> QED
  BY <1>1, Invariance, PTL

\* Lists and answers in the order of the notes have no note twice.
LEMMA InOrderInjective ==
  ASSUME NEW s \in Seq(Notes), InOrder(s)
  PROVE  IsInjective(s)
<1> SUFFICES ASSUME NEW i \in DOMAIN s, NEW j \in DOMAIN s, s[i] = s[j], i < j
             PROVE  FALSE
  <2>1. DOMAIN s \subseteq Nat
    BY LenProperties
  <2> QED
    BY <2>1 DEF IsInjective
<1>1. s[i] \in Notes
  BY LenProperties
<1>2. s[i][2] \in Nat
  BY <1>1, NoteParts
<1>3. s[i][2] < s[j][2]
  BY DEF InOrder
<1> QED
  BY <1>2, <1>3

\* Outside of JavaScript the notes that are returned are those of one list:
\* the list of the server has the notes of all users, and that of a call only
\* those of its own.
LEMMA ReturnedIsListed ==
  ASSUME IInv, NEW m \in Taken, NEW n \in Taken
  PROVE  Returned(m, n) <=> Listed(m, n) /\ server # "js"
<1>1. server \in Langs /\ m[1] \in Clients /\ n[1] \in Clients
  BY NoteParts, ChatAssumption DEF IInv, ShapeInv, Taken
<1>2. m[1] # "server" /\ n[1] # "server"
  BY <1>1, ChatAssumption
<1> QED
  BY <1>1, <1>2 DEF Returned, Listed, List, Langs, Shared

\* A note is answered with all the notes at its location that the server was
\* done with, in Go, Java and Scala those of all users, in C++, C# and Python
\* those of its own user, in JavaScript none; and with nothing else, each once
\* and in the order of its sender.
THEOREM AnswersComplete == Spec => []PreviousAreReturned
<1>1. IInv => PreviousAreReturned
  <2> SUFFICES ASSUME IInv, NEW n \in Taken
               PROVE  /\ \A m \in before[n] : Returned(m, n) => Contains(heard[n], m)
                      /\ IsInjective(heard[n])
                      /\ \A i \in DOMAIN heard[n] :
                           /\ heard[n][i] \in Taken
                           /\ Returned(heard[n][i], n) \/ (server = "go" /\ heard[n][i] = n)
                           /\ \A j \in 1 .. i - 1 : heard[n][j][1] = heard[n][i][1] => heard[n][j][2] < heard[n][i][2]
    BY DEF PreviousAreReturned
  <2>1. /\ server # "js" => \A m \in before[n] : Listed(m, n) => Contains(heard[n], m)
        /\ server = "js" => heard[n] = << >>
        /\ InOrder(heard[n])
        /\ \A i \in DOMAIN heard[n] :
             /\ heard[n][i] \in Taken
             /\ Listed(heard[n][i], n) \/ (server = "go" /\ heard[n][i] = n)
    BY DEF IInv, HeardInv
  <2>2. heard[n] \in Seq(Notes)
    BY DEF IInv, ShapeInv, Taken
  <2>3. IsInjective(heard[n])
    BY <2>1, <2>2, InOrderInjective
  <2>4. ASSUME NEW i \in DOMAIN heard[n], NEW j \in 1 .. i - 1
        PROVE  j \in DOMAIN heard[n] /\ j < i
    BY <2>2, LenProperties
  <2>5. ASSUME NEW m \in before[n], Returned(m, n)
        PROVE  Contains(heard[n], m)
    BY <2>1, <2>5 DEF Returned, Listed, List, Shared
  <2>6. ASSUME NEW i \in DOMAIN heard[n]
        PROVE  Returned(heard[n][i], n) \/ (server = "go" /\ heard[n][i] = n)
    <3>1. server # "js"
      BY <2>1
    <3> QED
      BY <2>1, <3>1, ReturnedIsListed
  <2> QED
    BY <2>1, <2>3, <2>4, <2>5, <2>6 DEF InOrder
<1> QED
  BY <1>1, Invariance, PTL

\* A note that a server is done with is in its list, and once.
THEOREM NotesKept == Spec => []NoNoteIsLost
<1>1. IInv => NoNoteIsLost
  <2> SUFFICES ASSUME IInv PROVE NoNoteIsLost
    OBVIOUS
  <2>1. ASSUME NEW l \in DOMAIN notes PROVE IsInjective(notes[l])
    <3>1. notes[l] \in Seq(Notes) /\ InOrder(notes[l])
      BY DEF IInv, ShapeInv, ListsInv
    <3> QED
      BY <3>1, InOrderInjective
  <2>2. server # "js" => \A n \in Handled : Contains(notes[List(n[1])], n)
    BY HandledKept
  <2> QED
    BY <2>1, <2>2 DEF NoNoteIsLost
<1> QED
  BY <1>1, Invariance, PTL

\* Of two notes at one location one was answered with the other: in Go
\* whoever sent them, in the other servers but JavaScript if one user sent
\* both.  In C++, C#, Python and JavaScript two users never hear each other.
THEOREM TwoMeet == Spec => []OneOfTwoHears
<1>1. IInv => OneOfTwoHears
  <2> SUFFICES ASSUME IInv, NEW m \in Taken, NEW n \in Taken, Together(m, n)
               PROVE  LET met == Contains(heard[m], n) \/ Contains(heard[n], m)
                      IN /\ server = "go" \/ (m[1] = n[1] /\ server # "js") => met
                         /\ server \in {"cpp", "csharp", "python", "js"} /\ m[1] # n[1] => ~ met
    BY DEF OneOfTwoHears, Handled
  <2>1. Together(n, m)
    BY DEF Together
  <2>2. ASSUME server = "go" \/ (m[1] = n[1] /\ server # "js")
        PROVE  Contains(heard[m], n) \/ Contains(heard[n], m)
    <3>1. Listed(m, n) /\ server # "js" /\ (m[1] = n[1] \/ server \notin {"java", "scala"})
      BY <2>2 DEF Listed, List, Shared
    <3> QED
      BY <3>1 DEF IInv, PairsInv
  <2>3. ASSUME server \in {"cpp", "csharp", "python", "js"}, m[1] # n[1]
        PROVE  ~ Contains(heard[m], n) /\ ~ Contains(heard[n], m)
    <3>1. ~ Returned(m, n) /\ ~ Returned(n, m)
      BY <2>3 DEF Returned
    <3>2. ASSUME NEW i \in DOMAIN heard[m]
          PROVE  heard[m][i] # n
      BY <2>3, <3>1, <3>2, ReturnedIsListed DEF IInv, HeardInv
    <3>3. ASSUME NEW i \in DOMAIN heard[n]
          PROVE  heard[n][i] # m
      BY <2>3, <3>1, <3>3, ReturnedIsListed DEF IInv, HeardInv
    <3> QED
      BY <3>2, <3>3 DEF Contains
  <2> QED
    BY <2>2, <2>3
<1> QED
  BY <1>1, Invariance, PTL

-----------------------------------------------------------------------------
(* No chat waits for another *)

\* What becomes of the handlers and of the ends of the calls in a step.
LEMMA NextStop ==
  ASSUME IInv, StopInv, [Next]_vars
  PROVE  StopInv'
<1>1. /\ cancelled \in [Clients -> BOOLEAN] /\ finished \in [Clients -> BOOLEAN]
      /\ pc \in [Clients -> {"idle", "read", "reply", "add", "get", "swap", "done"}]
  BY DEF IInv, ShapeInv
<1> DEFINE Ended(next) == \A c \in Clients : pc[c] = "done" => next[c] = "done"
<1>2. unreliable' = unreliable
  <2>1. ASSUME NEW c \in Clients, Client(c) \/ Cancel(c)
        PROVE  unreliable' = unreliable
    BY <2>1 DEF Client, Send, CloseSend, Receive, SeeEnd, Cancel, fixedVars
  <2>2. ASSUME NEW c \in Clients,
               \/ CppAnswer(c) \/ PythonAnswer(c) \/ CSharpAnswer(c) \/ GoAnswer(c)
               \/ JavaAnswer(c) \/ ScalaAnswer(c) \/ JsAnswer(c)
        PROVE  unreliable' = unreliable
    BY <2>2 DEF CppAnswer, PythonAnswer, CSharpAnswer, GoAnswer, JavaAnswer, ScalaAnswer, JsAnswer, Answer, fixedVars
  <2>3. ASSUME NEW c \in Clients,
               \/ Begin(c) \/ Write(c) \/ Written(c) \/ AddNote(c) \/ GetRef(c) \/ CompareAndSet(c)
               \/ End(c) \/ Abort(c) \/ WriteInVain(c)
        PROVE  unreliable' = unreliable
    BY <2>3 DEF Begin, Write, Written, AddNote, GetRef, CompareAndSet, End, Abort, WriteInVain, fixedVars
  <2>4. CASE UNCHANGED vars
    BY <2>4 DEF vars
  <2> QED
    BY <2>1, <2>2, <2>3, <2>4 DEF Next, Handler
<1>3. ASSUME NEW c \in Clients, SeeEnd(c) PROVE StopInv'
  BY <1>1, <1>2, <1>3 DEF SeeEnd, StopInv
<1>4. ASSUME NEW c \in Clients, Cancel(c) PROVE StopInv'
  BY <1>1, <1>2, <1>4 DEF Cancel, StopInv
<1> DEFINE Neither == UNCHANGED <<cancelled, finished>> /\ Ended(pc')
<1>5. ASSUME Neither PROVE StopInv'
  BY <1>2, <1>5 DEF StopInv
<1>6. ASSUME NEW c \in Clients, Send(c) \/ CloseSend(c) \/ Receive(c) \/ Write(c) \/ WriteInVain(c)
      PROVE  Neither
  BY <1>6 DEF Send, CloseSend, Receive, Write, WriteInVain, clientVars
<1>7. ASSUME NEW c \in Clients,
             \/ Begin(c) \/ Written(c) \/ AddNote(c) \/ GetRef(c) \/ CompareAndSet(c) \/ End(c) \/ Abort(c)
      PROVE  Neither
  BY <1>1, <1>7 DEF Begin, Written, AddNote, GetRef, CompareAndSet, End, Abort, clientVars
<1>8. ASSUME NEW c \in Clients, NEW n, NEW replies, NEW next, Read(c, n), Answer(c, n, replies, next)
      PROVE  Neither
  BY <1>1, <1>8 DEF Read, Answer, clientVars
<1> HIDE DEF Neither
<1>9. ASSUME NEW c \in Clients,
             \/ CppAnswer(c) \/ PythonAnswer(c) \/ CSharpAnswer(c) \/ GoAnswer(c)
             \/ JavaAnswer(c) \/ ScalaAnswer(c) \/ JsAnswer(c)
      PROVE  Neither
  BY <1>8, <1>9 DEF CppAnswer, PythonAnswer, CSharpAnswer, GoAnswer, JavaAnswer, ScalaAnswer, JsAnswer
<1>10. ASSUME UNCHANGED vars PROVE Neither
  BY <1>10 DEF vars, Neither
<1> QED
  BY <1>3, <1>4, <1>5, <1>6, <1>7, <1>9, <1>10 DEF Next, Client, Handler

\* A call that has a handler, or does not need a thread for it, can go on.
LEMMA BegunIsReady ==
  ASSUME IInv, StopInv, NEW c \in Clients \ unreliable, ~ finished[c], pc[c] = "idle" => FreeThread
  PROVE  Ready(c)
<1>1. /\ ~ cancelled[c]
      /\ pc[c] \in {"idle", "read", "reply", "add", "get", "swap", "done"}
      /\ sent[c] \in Nat /\ sent[c] <= Len(script[c]) /\ script[c] \in Scripts[c]
  BY DEF IInv, ShapeInv, StopInv
<1>2. Len(script[c]) \in Nat
  BY <1>1, ChatAssumption, LenProperties
<1>3. CASE pc[c] = "read"
  <2>1. CASE up[c] # << >>
    BY <1>1, <1>3, <2>1 DEF Ready, HandlerReady
  <2>2. CASE up[c] = << >>
    <3>1. Len(up[c]) < Window
      BY <2>2, ChatAssumption
    <3>2. sent[c] < Len(script[c]) \/ sent[c] = Len(script[c])
      BY <1>1, <1>2
    <3> QED
      BY <1>1, <1>3, <3>1, <3>2 DEF Ready, ClientReady, HandlerReady
  <2> QED
    BY <2>1, <2>2
<1>4. CASE pc[c] = "reply"
  <2>1. CASE down[c] # << >>
    BY <1>1, <2>1 DEF Ready, ClientReady
  <2>2. CASE down[c] = << >>
    <3>1. Len(down[c]) < Window
      BY <2>2, ChatAssumption
    <3> QED
      BY <1>1, <1>4, <3>1 DEF Ready, HandlerReady
  <2> QED
    BY <2>1, <2>2
<1>5. CASE pc[c] \notin {"read", "reply"}
  BY <1>1, <1>5 DEF Ready, ClientReady, HandlerReady
<1> QED
  BY <1>3, <1>4, <1>5

\* A chat of a reliable client goes on by itself, for every number of clients:
\* no lock, no window and no slow reader of another call holds it up.  Python
\* is the exception, where it may wait for a thread; then of the threads, when
\* they are more than the unreliable clients, one has a chat that can go on.
THEOREM ChatsGoOn == Spec => []NoChatWaits
<1>1. Init => StopInv
  BY DEF Init, StopInv
<1>2. IInv /\ StopInv /\ [Next]_vars => StopInv'
  BY NextStop
<1>3. IInv /\ StopInv => NoChatWaits
  <2> SUFFICES ASSUME IInv, StopInv, NEW c \in Clients \ unreliable, ~ finished[c], ~ Ready(c)
               PROVE  /\ server = "python" /\ pc[c] = "idle"
                      /\ \/ Workers <= Cardinality(unreliable)
                         \/ \E d \in Busy \ unreliable : Ready(d)
    BY DEF NoChatWaits
  <2>1. pc[c] = "idle" /\ ~ FreeThread
    BY BegunIsReady
  <2>2. server = "python" /\ ~ (Cardinality(Busy) < Workers)
    BY <2>1 DEF FreeThread
  <2>3. ASSUME Cardinality(unreliable) < Workers
        PROVE  \E d \in Busy \ unreliable : Ready(d)
    <3>1. /\ IsFiniteSet(Clients) /\ Busy \subseteq Clients /\ unreliable \subseteq Clients
          /\ Workers \in Nat
      BY ChatAssumption DEF Busy, IInv, ShapeInv
    <3>2. IsFiniteSet(Busy) /\ IsFiniteSet(unreliable)
      BY <3>1, FS_Subset
    <3>3. Cardinality(Busy) \in Nat /\ Cardinality(unreliable) \in Nat
      BY <3>2, FS_CardinalityType
    <3>4. ~ (Busy \subseteq unreliable)
      <4> SUFFICES ASSUME Busy \subseteq unreliable PROVE FALSE
        OBVIOUS
      <4>1. Cardinality(Busy) <= Cardinality(unreliable)
        BY <3>2, FS_Subset
      <4> QED
        BY <2>2, <2>3, <3>1, <3>3, <4>1
    <3>5. PICK d \in Busy : d \notin unreliable
      BY <3>4
    <3>6. d \in Clients \ unreliable /\ pc[d] \notin {"idle", "done"}
      BY <3>1, <3>5 DEF Busy
    <3>7. ~ finished[d]
      BY <3>6 DEF StopInv
    <3> QED
      BY <3>5, <3>6, <3>7, BegunIsReady
  <2>4. Workers <= Cardinality(unreliable) \/ Cardinality(unreliable) < Workers
    <3>1. IsFiniteSet(unreliable)
      BY ChatAssumption, FS_Subset DEF IInv, ShapeInv
    <3>2. Cardinality(unreliable) \in Nat
      BY <3>1, FS_CardinalityType
    <3> QED
      BY <3>2, ChatAssumption
  <2> QED
    BY <2>1, <2>2, <2>3, <2>4
<1> QED
  BY <1>1, <1>2, <1>3, Invariance, PTL DEF Spec

=============================================================================
