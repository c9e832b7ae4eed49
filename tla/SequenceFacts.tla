---------------------------- MODULE SequenceFacts ----------------------------
(***************************************************************************)
(* Lemmas on sequences and the sets of what is in them, for the proofs     *)
(* about the modules that register files and write them in a list's order. *)
(***************************************************************************)
EXTENDS Naturals, SequencesExt, Lists, WellFoundedInduction, NaturalsInduction, SequenceTheorems, FiniteSetTheorems, TLAPS

-----------------------------------------------------------------------------
\* Induction: a set of numbers has a least one.
LEMMA Least ==
  ASSUME NEW S \in SUBSET Nat, S # {}
  PROVE  \E m \in S : \A k \in S : m <= k
<1>1. PICK m \in S : \A k \in S : ~ (<<k, m>> \in OpToRel(<, Nat))
  BY WFMin, NatLessThanWellFounded
<1>2. \A k \in S : ~ (k < m)
  BY <1>1 DEF OpToRel
<1> QED
  BY <1>2

IsSeq(s) == s \in Seq(ToSet(s))

LEMMA SeqFacts ==
  ASSUME NEW S, NEW s \in Seq(S)
  PROVE  /\ IsSeq(s) /\ ToSet(s) \subseteq S
         /\ Len(s) \in Nat /\ DOMAIN s = 1 .. Len(s)
         /\ ToSet(s) = {s[i] : i \in 1 .. Len(s)}
         /\ s = << >> <=> ToSet(s) = {}
<1>1. Len(s) \in Nat /\ DOMAIN s = 1 .. Len(s) /\ s \in [1 .. Len(s) -> S]
  BY LenProperties
<1>2. ToSet(s) = {s[i] : i \in 1 .. Len(s)} /\ ToSet(s) \subseteq S
  BY <1>1 DEF ToSet
<1>3. s \in [1 .. Len(s) -> ToSet(s)]
  <2>1. \A i \in 1 .. Len(s) : s[i] \in ToSet(s)
    BY <1>2
  <2> QED
    BY <1>1, <2>1
<1>4. s \in Seq(ToSet(s))
  BY <1>1, <1>3
<1>5. s = << >> <=> ToSet(s) = {}
  <2>1. ASSUME s = << >> PROVE ToSet(s) = {}
    BY <2>1 DEF ToSet
  <2>2. ASSUME s # << >> PROVE ToSet(s) # {}
    <3>1. 1 \in 1 .. Len(s)
      BY <1>1, <2>2, EmptySeq
    <3> QED
      BY <1>2, <3>1
  <2> QED
    BY <2>1, <2>2
<1> QED
  BY <1>1, <1>2, <1>4, <1>5 DEF IsSeq

\* A function on an initial segment of the numbers is a sequence.
LEMMA FunctionFacts ==
  ASSUME NEW n \in Nat, NEW f, DOMAIN f = 1 .. n, f = [i \in 1 .. n |-> f[i]]
  PROVE  IsSeq(f) /\ ToSet(f) = {f[i] : i \in 1 .. n} /\ Len(f) = n
<1>1. ToSet(f) = {f[i] : i \in 1 .. n}
  BY DEF ToSet
<1>2. f \in [1 .. n -> ToSet(f)]
  BY <1>1
<1> QED
  BY <1>1, <1>2 DEF IsSeq

LEMMA ConcatFacts ==
  ASSUME NEW s, IsSeq(s), NEW t, IsSeq(t)
  PROVE  /\ IsSeq(s \o t) /\ ToSet(s \o t) = ToSet(s) \cup ToSet(t)
         /\ s \o t = << >> <=> s = << >> /\ t = << >>
<1> DEFINE S == ToSet(s) \cup ToSet(t)
           u == s \o t
<1>1. s \in Seq(S) /\ t \in Seq(S)
  BY SeqMonotonic DEF IsSeq
<1>2. /\ u \in Seq(S) /\ Len(u) = Len(s) + Len(t)
      /\ \A i \in 1 .. Len(s) + Len(t) : u[i] = IF i <= Len(s) THEN s[i] ELSE t[i - Len(s)]
  BY <1>1, ConcatProperties
<1>3. /\ ToSet(s) = {s[i] : i \in 1 .. Len(s)} /\ ToSet(t) = {t[i] : i \in 1 .. Len(t)}
      /\ ToSet(u) = {u[i] : i \in 1 .. Len(u)} /\ ToSet(u) \subseteq S /\ IsSeq(u)
      /\ Len(s) \in Nat /\ Len(t) \in Nat
      /\ (s = << >> <=> ToSet(s) = {}) /\ (t = << >> <=> ToSet(t) = {}) /\ (u = << >> <=> ToSet(u) = {})
  BY <1>1, <1>2, SeqFacts
<1> HIDE DEF u
<1>4. ASSUME NEW i \in 1 .. Len(s) PROVE s[i] \in ToSet(u)
  <2>1. i \in 1 .. Len(u) /\ u[i] = s[i]
    BY <1>2, <1>3
  <2> QED
    BY <1>3, <2>1
<1>5. ASSUME NEW i \in 1 .. Len(t) PROVE t[i] \in ToSet(u)
  <2>1. i + Len(s) \in 1 .. Len(u) /\ ~ (i + Len(s) <= Len(s)) /\ (i + Len(s)) - Len(s) = i
    BY <1>2, <1>3
  <2>2. u[i + Len(s)] = t[i]
    BY <1>2, <2>1
  <2> QED
    BY <1>3, <2>1, <2>2
<1>6. ToSet(u) = ToSet(s) \cup ToSet(t)
  BY <1>3, <1>4, <1>5
<1> QED
  BY <1>3, <1>6 DEF u

LEMMA OneFacts ==
  ASSUME NEW x
  PROVE  /\ IsSeq(<<x>>) /\ ToSet(<<x>>) = {x} /\ IsSeq(<< >>) /\ ToSet(<< >>) = {}
<1>1. <<x>> \in Seq({x}) /\ Len(<<x>>) = 1 /\ <<x>>[1] = x
  OBVIOUS
<1>2. ToSet(<<x>>) = {x}
  <2>1. DOMAIN <<x>> = {1}
    BY <1>1, LenProperties
  <2> QED
    BY <1>1, <2>1 DEF ToSet
<1>3. << >> \in Seq({}) /\ ToSet(<< >>) = {}
  BY SeqFacts, EmptySeq
<1> QED
  BY <1>1, <1>2, <1>3 DEF IsSeq

\* What is in a sequence of sequences, one after the other.
LEMMA FlattenFacts ==
  ASSUME NEW ss, IsSeq(ss), \A s \in ToSet(ss) : IsSeq(s)
  PROVE  /\ IsSeq(FlattenSeq(ss))
         /\ ToSet(FlattenSeq(ss)) = UNION {ToSet(s) : s \in ToSet(ss)}
<1> DEFINE n == Len(ss)
<1>1. /\ n \in Nat /\ DOMAIN ss = 1 .. n /\ ToSet(ss) = {ss[i] : i \in 1 .. n}
      /\ ss = << >> <=> ToSet(ss) = {}
  BY SeqFacts DEF IsSeq
<1>2. CASE n = 0
  <2>1. ss = << >> /\ FlattenSeq(ss) = ss
    BY <1>2, EmptySeq DEF IsSeq, FlattenSeq
  <2>2. ToSet(ss) = {}
    BY <1>1, <2>1
  <2> QED
    BY <2>1, <2>2
<1>3. CASE n # 0
  <2> DEFINE Def(f, m) == f = [i \in 1 .. m |-> IF i = 1 THEN ss[i] ELSE f[i - 1] \o ss[i]]
             Bad == {m \in Nat \ {0} : ~ \E f : Def(f, m)}
             flatten[i \in 1 .. n] == IF i = 1 THEN ss[i] ELSE flatten[i - 1] \o ss[i]
  <2>1. Bad = {}
    <3> SUFFICES ASSUME Bad # {} PROVE FALSE
      OBVIOUS
    <3>1. \E m \in Bad : \A k \in Bad : m <= k
      <4>1. Bad \in SUBSET Nat
        OBVIOUS
      <4> HIDE DEF Bad
      <4> QED
        BY <4>1, Least
    <3>2. PICK m \in Bad : \A k \in Bad : m <= k
      BY <3>1
    <3>3. m \in Nat /\ m # 0
      OBVIOUS
    <3>4. m # 1
      <4>1. Def([i \in 1 .. 1 |-> ss[1]], 1)
        OBVIOUS
      <4> QED
        BY <4>1
    <3>5. m - 1 \in Nat \ {0} /\ m - 1 \notin Bad
      <4> HIDE DEF Bad
      <4> QED
        BY <3>2, <3>3, <3>4
    <3>6. PICK f : Def(f, m - 1)
      BY <3>5
    <3> DEFINE last == f[m - 1] \o ss[m]
               g == [i \in 1 .. m |-> IF i = m THEN last ELSE f[i]]
    <3>7. Def(g, m)
      <4>1. SUFFICES ASSUME NEW i \in 1 .. m
                     PROVE  g[i] = IF i = 1 THEN ss[i] ELSE g[i - 1] \o ss[i]
        OBVIOUS
      <4>2. CASE i = m
        <5>1. i # 1 /\ i - 1 \in 1 .. m /\ i - 1 # m /\ i - 1 = m - 1
          BY <3>3, <3>4, <4>2
        <5>2. g[i - 1] = f[m - 1] /\ g[i] = last
          BY <4>2, <5>1
        <5> QED
          BY <4>2, <5>1, <5>2
      <4>3. CASE i # m
        <5>1. i \in 1 .. m - 1 /\ (i # 1 => i - 1 \in 1 .. m - 1 /\ i - 1 \in 1 .. m /\ i - 1 # m)
          BY <3>3, <3>5, <4>3
        <5>2. f[i] = IF i = 1 THEN ss[i] ELSE f[i - 1] \o ss[i]
          BY <3>6, <5>1
        <5> QED
          BY <4>3, <5>1, <5>2
      <4> QED
        BY <4>2, <4>3
    <3> QED
      BY <3>3, <3>7
  <2>2. \E f : Def(f, n)
    BY <1>1, <1>3, <2>1
  <2>3. Def(flatten, n)
    BY <2>2
  <2>4. FlattenSeq(ss) = flatten[n]
    BY <1>3 DEF FlattenSeq
  <2> HIDE DEF flatten
  <2> DEFINE Good(m) == /\ IsSeq(flatten[m])
                        /\ ToSet(flatten[m]) = UNION {ToSet(ss[i]) : i \in 1 .. m}
             Wrong == {m \in 1 .. n : ~ Good(m)}
  <2>5. flatten[1] = ss[1] /\ \A m \in 2 .. n : flatten[m] = flatten[m - 1] \o ss[m]
    <3>1. \A i \in 1 .. n : flatten[i] = IF i = 1 THEN ss[i] ELSE flatten[i - 1] \o ss[i]
      BY <2>3
    <3>2. 1 \in 1 .. n /\ \A m \in 2 .. n : m \in 1 .. n /\ m # 1
      BY <1>1, <1>3
    <3> QED
      BY <3>1, <3>2
  <2> HIDE DEF n, Def
  <2>6. Wrong = {}
    <3> SUFFICES ASSUME Wrong # {} PROVE FALSE
      OBVIOUS
    <3>1. Wrong \in SUBSET Nat
      BY <1>1
    <3>2. \E m \in Wrong : \A k \in Wrong : m <= k
      <4> HIDE DEF Wrong
      <4> QED
        BY <3>1, Least
    <3>3. PICK m \in Wrong : \A k \in Wrong : m <= k
      BY <3>2
    <3>4. m \in 1 .. n /\ ~ Good(m)
      OBVIOUS
    <3> HIDE DEF Wrong
    <3>5. IsSeq(ss[m])
      BY <1>1, <3>4
    <3>6. m # 1
      <4>1. 1 .. 1 = {1}
        OBVIOUS
      <4> QED
        BY <2>5, <3>4, <3>5, <4>1
    <3>7. m \in 2 .. n /\ m - 1 \in 1 .. n /\ m - 1 < m /\ 1 .. m = (1 .. m - 1) \cup {m}
      BY <1>1, <3>4, <3>6
    <3>8. Good(m - 1)
      <4>1. m - 1 \notin Wrong
        BY <1>1, <3>3, <3>4, <3>7
      <4> QED
        BY <3>7, <4>1 DEF Wrong
    <3>9. /\ IsSeq(flatten[m])
          /\ ToSet(flatten[m]) = ToSet(flatten[m - 1]) \cup ToSet(ss[m])
      BY <2>5, <3>5, <3>7, <3>8, ConcatFacts
    <3> QED
      BY <3>4, <3>7, <3>8, <3>9
  <2>7. Good(n)
    <3>1. n \in 1 .. n
      BY <1>1, <1>3
    <3> HIDE DEF Good
    <3> QED
      BY <2>6, <3>1
  <2> QED
    BY <1>1, <2>4, <2>7
<1> QED
  BY <1>2, <1>3


LEMMA ContainsFacts ==
  ASSUME NEW s, IsSeq(s), NEW x
  PROVE  Contains(s, x) <=> x \in ToSet(s)
<1>1. s \in Seq(ToSet(s))
  BY DEF IsSeq
<1>2. ToSet(s) = {s[i] : i \in 1 .. Len(s)}
  BY <1>1, SeqFacts
<1>3. Contains(s, x) <=> \E i \in 1 .. Len(s) : s[i] = x
  BY DEF Contains
<1> QED
  BY <1>2, <1>3

\* No element twice.
Once(s) == \A i, j \in 1 .. Len(s) : s[i] = s[j] => i = j

LEMMA OnceFacts ==
  ASSUME NEW s, IsSeq(s), Once(s)
  PROVE  Len(s) = Cardinality(ToSet(s))
<1> DEFINE n == Len(s)
           T == ToSet(s)
<1>1. n \in Nat /\ DOMAIN s = 1 .. n /\ T = {s[i] : i \in 1 .. n}
  BY SeqFacts DEF IsSeq
<1>2. s \in [1 .. n -> T]
  BY <1>1, LenProperties DEF IsSeq
<1>3. IsInjective(s)
  BY <1>1 DEF Once, IsInjective
<1>4. s \in Bijection(1 .. n, T)
  BY <1>1, <1>2, <1>3 DEF Bijection, Injection, Surjection
<1>5. ExistsBijection(1 .. n, T)
  BY <1>4 DEF ExistsBijection
<1>6. IsFiniteSet(1 .. n) /\ Cardinality(1 .. n) = n
  <2> HIDE DEF n
  <2>1. 1 \in Int /\ n \in Int /\ (IF 1 > n THEN 0 ELSE n - 1 + 1) = n
    BY <1>1
  <2>2. Cardinality(1 .. n) = IF 1 > n THEN 0 ELSE n - 1 + 1
    BY <2>1, FS_Interval
  <2> QED
    BY <2>1, <2>2, FS_Interval
<1> HIDE DEF n, T
<1>7. Cardinality(T) = Cardinality(1 .. n)
  BY <1>5, <1>6, FS_Bijection
<1> QED
  BY <1>6, <1>7 DEF n, T

LEMMA AppendFacts ==
  ASSUME NEW s, IsSeq(s), NEW x
  PROVE  /\ IsSeq(Append(s, x)) /\ ToSet(Append(s, x)) = ToSet(s) \cup {x}
         /\ Once(s) /\ x \notin ToSet(s) => Once(Append(s, x))
<1> DEFINE S == ToSet(s) \cup {x}
           u == Append(s, x)
<1>1. s \in Seq(S) /\ x \in S
  BY SeqMonotonic DEF IsSeq
<1>2. /\ u \in Seq(S) /\ Len(u) = Len(s) + 1 /\ u[Len(s) + 1] = x
      /\ \A i \in 1 .. Len(s) : u[i] = s[i]
  BY <1>1, AppendProperties
<1>3. /\ Len(s) \in Nat /\ ToSet(s) = {s[i] : i \in 1 .. Len(s)}
      /\ ToSet(u) = {u[i] : i \in 1 .. Len(u)} /\ IsSeq(u)
  BY <1>1, <1>2, SeqFacts
<1> HIDE DEF u
<1>4. 1 .. Len(u) = (1 .. Len(s)) \cup {Len(s) + 1}
  BY <1>2, <1>3
<1>5. ToSet(u) = ToSet(s) \cup {x}
  BY <1>2, <1>3, <1>4
<1>6. ASSUME Once(s), x \notin ToSet(s) PROVE Once(u)
  BY <1>2, <1>3, <1>4, <1>6 DEF Once
<1> QED
  BY <1>3, <1>5, <1>6 DEF u

\* The function that Among is defined with exists.
LEMMA AmongUnfolds ==
  ASSUME NEW list, NEW some, Len(list) \in Nat
  PROVE  \E f :
           /\ f = [i \in 0 .. Len(list) |->
                     IF i = 0 THEN << >>
                     ELSE IF list[i] \in some THEN Append(f[i - 1], list[i]) ELSE f[i - 1]]
           /\ Among(list, some) = f[Len(list)]
<1> DEFINE Def(f, m) ==
             f = [i \in 0 .. m |->
                    IF i = 0 THEN << >>
                    ELSE IF list[i] \in some THEN Append(f[i - 1], list[i]) ELSE f[i - 1]]
           Bad == {m \in Nat : ~ \E f : Def(f, m)}
           upTo[i \in 0 .. Len(list)] ==
             IF i = 0 THEN << >>
             ELSE IF list[i] \in some THEN Append(upTo[i - 1], list[i]) ELSE upTo[i - 1]
<1>1. Bad = {}
  <2> SUFFICES ASSUME Bad # {} PROVE FALSE
    OBVIOUS
  <2>1. \E m \in Bad : \A k \in Bad : m <= k
    <3>1. Bad \in SUBSET Nat
      OBVIOUS
    <3> HIDE DEF Bad
    <3> QED
      BY <3>1, Least
  <2>2. PICK m \in Bad : \A k \in Bad : m <= k
    BY <2>1
  <2>3. m \in Nat
    OBVIOUS
  <2>4. m # 0
    <3>1. Def([i \in 0 .. 0 |-> << >>], 0)
      OBVIOUS
    <3> QED
      BY <3>1
  <2>5. m - 1 \in Nat /\ m - 1 \notin Bad
    <3> HIDE DEF Bad
    <3> QED
      BY <2>2, <2>3, <2>4
  <2>6. PICK f : Def(f, m - 1)
    BY <2>5
  <2> DEFINE last == IF list[m] \in some THEN Append(f[m - 1], list[m]) ELSE f[m - 1]
             g == [i \in 0 .. m |-> IF i = m THEN last ELSE f[i]]
  <2>7. Def(g, m)
    <3>1. SUFFICES ASSUME NEW i \in 0 .. m
                   PROVE  g[i] = IF i = 0 THEN << >>
                                 ELSE IF list[i] \in some THEN Append(g[i - 1], list[i]) ELSE g[i - 1]
      OBVIOUS
    <3>2. CASE i = m
      BY <2>3, <2>4, <3>2
    <3>3. CASE i # m
      <4>1. i \in 0 .. m - 1 /\ (i # 0 => i - 1 \in 0 .. m - 1 /\ i - 1 # m)
        BY <2>3, <2>5, <3>3
      <4>2. f[i] = IF i = 0 THEN << >>
                   ELSE IF list[i] \in some THEN Append(f[i - 1], list[i]) ELSE f[i - 1]
        BY <2>6, <4>1
      <4> QED
        BY <3>3, <4>1, <4>2
    <3> QED
      BY <3>2, <3>3
  <2> QED
    BY <2>3, <2>7
<1>2. \E f : Def(f, Len(list))
  BY <1>1
<1>3. Def(upTo, Len(list))
  BY <1>2
<1>4. Among(list, some) = upTo[Len(list)]
  BY DEF Among
<1> HIDE DEF upTo
<1> QED
  BY <1>3, <1>4

=============================================================================
