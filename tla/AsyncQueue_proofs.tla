-------------------------- MODULE AsyncQueue_proofs --------------------------
(***************************************************************************)
(* Proofs about AsyncQueue for every capacity, every set of callers and     *)
(* every number of pushes.                                                  *)
(***************************************************************************)
EXTENDS AsyncQueue, SequenceTheorems, TLAPS

LEMMA ConcatLength ==
    ASSUME NEW S, NEW s \in Seq(S), NEW t \in Seq(S)
    PROVE  Len(s \o t) = Len(s) + Len(t)
  OBVIOUS

\* Dropping one parked call keeps a sequence of parked calls one.
LEMMA WithoutType ==
    ASSUME NEW S, NEW s \in Seq(S), NEW i \in 1 .. Len(s)
    PROVE  Without(s, i) \in Seq(S)
  <1>1. SubSeq(s, 1, i - 1) \in Seq(S) /\ SubSeq(s, i + 1, Len(s)) \in Seq(S)
    OBVIOUS
  <1> QED BY <1>1 DEF Without

LEMMA ValuesOfType ==
    ASSUME NEW ws \in Seq(Writer)
    PROVE  /\ ValuesOf(ws) \in Seq(Value)
           /\ Len(ValuesOf(ws)) = Len(ws)
  <1>1. ASSUME NEW i \in 1 .. Len(ws)
        PROVE  ws[i].value \in Value
    <2>1. ws[i] \in Writer
      OBVIOUS
    <2> QED BY <2>1 DEF Writer
  <1>2. ValuesOf(ws) \in [1 .. Len(ws) -> Value]
    BY <1>1 DEF ValuesOf
  <1> QED BY <1>2

LEMMA ElemsType ==
    ASSUME NEW S, NEW s \in Seq(S)
    PROVE  Elems(s) \subseteq S
  BY DEF Elems

\* What #admitWriter leaves, given a buffer and an output of the right type.
LEMMA AdmitWritersType ==
    ASSUME TypeOK, NEW n \in Nat, NEW left \in Seq(Value), NEW out \in Seq(Value),
           AdmitWriters(n, left, out)
    PROVE  /\ items' \in Seq(Value) /\ taken' \in Seq(Value)
           /\ writers' \in Seq(Writer) /\ readers' \in Seq(Consumers)
  <1> DEFINE m == IF n <= Len(writers) THEN n ELSE Len(writers)
             k == IF m <= Len(readers) THEN m ELSE Len(readers)
             vs == ValuesOf(writers)
  <1>1. m \in 0 .. Len(writers) /\ k \in 0 .. m /\ k \in 0 .. Len(readers)
    BY DEF TypeOK
  <1>2. vs \in Seq(Value) /\ Len(vs) = Len(writers)
    BY ValuesOfType DEF TypeOK
  <1>3. SubSeq(vs, k + 1, m) \in Seq(Value) /\ SubSeq(vs, 1, k) \in Seq(Value)
    BY <1>1, <1>2
  <1>4. SubSeq(writers, m + 1, Len(writers)) \in Seq(Writer)
    BY <1>1 DEF TypeOK
  <1>5. SubSeq(readers, k + 1, Len(readers)) \in Seq(Consumers)
    BY <1>1 DEF TypeOK
  <1> QED BY <1>3, <1>4, <1>5 DEF AdmitWriters

\* Every action keeps the type of every variable.
LEMMA TypeStep == TypeOK /\ [Next]_vars => TypeOK'
  <1> SUFFICES ASSUME TypeOK, [Next]_vars
               PROVE  TypeOK'
    OBVIOUS
  <1> USE CapacityAssumption, BoundAssumption
  <1>1. ASSUME NEW p \in Producers, TryPush(p)
        PROVE  TypeOK'
    <2>1. offered + 1 \in Value
      BY <1>1 DEF TryPush, TypeOK, Value
    <2>2. /\ offered' = offered + 1
          /\ refused' = refused \/ refused' = refused \cup {offered + 1}
          /\ UNCHANGED <<writers, closed, dropped>>
      BY <1>1 DEF TryPush
    <2>3. \/ UNCHANGED <<items, readers, taken>>
          \/ /\ readers # <<>> /\ readers' = Tail(readers)
             /\ taken' = Append(taken, offered + 1) /\ items' = items
          \/ items' = Append(items, offered + 1) /\ UNCHANGED <<readers, taken>>
      BY <1>1 DEF TryPush, HandToReader, Buffer
    <2>4. items' \in Seq(Value) /\ readers' \in Seq(Consumers) /\ taken' \in Seq(Value)
      <3>1. Append(items, offered + 1) \in Seq(Value) /\ Append(taken, offered + 1) \in Seq(Value)
        BY <2>1 DEF TypeOK
      <3>2. readers # <<>> => Tail(readers) \in Seq(Consumers)
        BY DEF TypeOK
      <3> QED BY <2>3, <3>1, <3>2 DEF TypeOK
    <2>5. offered' \in 0 .. MaxPush
      BY <2>1, <2>2 DEF TypeOK, Value
    <2>6. refused' \subseteq Value
      BY <2>1, <2>2 DEF TypeOK
    <2> QED BY <2>2, <2>4, <2>5, <2>6 DEF TypeOK
  <1>2. ASSUME NEW p \in Producers, Push(p)
        PROVE  TypeOK'
    <2>1. offered + 1 \in Value
      BY <1>2 DEF Push, TypeOK, Value
    <2>2. [who |-> p, value |-> offered + 1] \in Writer
      BY <2>1 DEF Writer
    <2>3. /\ offered' = offered + 1
          /\ refused' = refused \/ refused' = refused \cup {offered + 1}
          /\ UNCHANGED <<closed, dropped>>
      BY <1>2 DEF Push
    <2>4. \/ UNCHANGED <<items, readers, writers, taken>>
          \/ /\ readers # <<>> /\ readers' = Tail(readers)
             /\ taken' = Append(taken, offered + 1) /\ UNCHANGED <<items, writers>>
          \/ /\ items' = Append(items, offered + 1)
             /\ UNCHANGED <<readers, writers, taken>>
          \/ /\ writers' = Append(writers, [who |-> p, value |-> offered + 1])
             /\ UNCHANGED <<items, readers, taken>>
      BY <1>2 DEF Push, HandToReader, Buffer
    <2>5. /\ items' \in Seq(Value) /\ readers' \in Seq(Consumers)
          /\ writers' \in Seq(Writer) /\ taken' \in Seq(Value)
      <3>1. Append(items, offered + 1) \in Seq(Value) /\ Append(taken, offered + 1) \in Seq(Value)
        BY <2>1 DEF TypeOK
      <3>2. readers # <<>> => Tail(readers) \in Seq(Consumers)
        BY DEF TypeOK
      <3>3. Append(writers, [who |-> p, value |-> offered + 1]) \in Seq(Writer)
        BY <2>2 DEF TypeOK
      <3> QED BY <2>4, <3>1, <3>2, <3>3 DEF TypeOK
    <2>6. offered' \in 0 .. MaxPush
      BY <2>1, <2>3 DEF TypeOK, Value
    <2>7. refused' \subseteq Value
      BY <2>1, <2>3 DEF TypeOK
    <2> QED BY <2>3, <2>5, <2>6, <2>7 DEF TypeOK
  <1>3. ASSUME NEW c \in Consumers, Shift(c)
        PROVE  TypeOK'
    <2>1. CASE /\ items # <<>>
               /\ AdmitWriters(1, Tail(items), Append(taken, Head(items)))
      <3>1. Tail(items) \in Seq(Value) /\ Append(taken, Head(items)) \in Seq(Value)
        BY <2>1 DEF TypeOK
      <3> QED BY <1>3, <2>1, <3>1, AdmitWritersType DEF Shift, TypeOK
    <2>2. CASE items = <<>> /\ writers # <<>>
      <3>1. writers[1] \in Writer /\ Tail(writers) \in Seq(Writer)
        BY <2>2 DEF TypeOK
      <3>2. writers[1].value \in Value
        BY <3>1 DEF Writer
      <3>3. taken' = Append(taken, writers[1].value) /\ writers' = Tail(writers)
            /\ UNCHANGED <<items, readers, closed, offered, dropped, refused>>
        BY <1>3, <2>2 DEF Shift
      <3>4. taken' \in Seq(Value)
        BY <3>2, <3>3 DEF TypeOK
      <3> QED BY <3>1, <3>3, <3>4 DEF TypeOK
    <2>3. CASE items = <<>> /\ writers = <<>>
      BY <1>3, <2>3 DEF Shift, TypeOK
    <2> QED BY <1>3, <2>1, <2>2, <2>3 DEF Shift
  <1>4. ASSUME AbortWriter
        PROVE  TypeOK'
    <2>1. PICK i \in 1 .. Len(writers) :
                 /\ writers' = Without(writers, i)
                 /\ refused' = refused \cup {writers[i].value}
      BY <1>4 DEF AbortWriter
    <2>2. writers[i] \in Writer
      BY DEF TypeOK
    <2>3. writers[i].value \in Value
      BY <2>2 DEF Writer
    <2>4. writers' \in Seq(Writer)
      BY <2>1, WithoutType DEF TypeOK
    <2> QED BY <1>4, <2>1, <2>3, <2>4 DEF AbortWriter, TypeOK
  <1>5. ASSUME AbortReader
        PROVE  TypeOK'
    BY <1>5, WithoutType DEF AbortReader, TypeOK
  <1>6. ASSUME Close
        PROVE  TypeOK'
    <2>1. Elems(ValuesOf(writers)) \subseteq Value
      BY ValuesOfType, ElemsType DEF TypeOK
    <2> QED BY <1>6, <2>1 DEF Close, TypeOK
  <1>7. ASSUME Clear
        PROVE  TypeOK'
    <2>1. Elems(items) \subseteq Value
      BY ElemsType DEF TypeOK
    <2>2. CASE closed
      BY <1>7, <2>1, <2>2 DEF Clear, TypeOK
    <2>3. CASE ~closed
      <3>1. AdmitWriters(Len(writers), <<>>, taken)
        BY <1>7, <2>3 DEF Clear
      <3>2. Len(writers) \in Nat /\ <<>> \in Seq(Value) /\ taken \in Seq(Value)
        BY DEF TypeOK
      <3> QED BY <1>7, <2>1, <3>1, <3>2, AdmitWritersType DEF Clear, TypeOK
    <2> QED BY <2>2, <2>3
  <1>8. CASE UNCHANGED vars
    BY <1>8 DEF vars, TypeOK
  <1> QED BY <1>1, <1>2, <1>3, <1>4, <1>5, <1>6, <1>7, <1>8 DEF Next

\* Type correctness of the queue.
THEOREM TypeCorrect == Spec => []TypeOK
  <1>1. Init => TypeOK
    <2> SUFFICES ASSUME Init PROVE TypeOK
      OBVIOUS
    <2>1. /\ items \in Seq(Value) /\ readers \in Seq(Consumers)
          /\ writers \in Seq(Writer) /\ taken \in Seq(Value)
          /\ offered \in 0 .. MaxPush
      BY BoundAssumption DEF Init
    <2>2. closed \in BOOLEAN /\ dropped \subseteq Value /\ refused \subseteq Value
      BY DEF Init
    <2> QED BY <2>1, <2>2 DEF TypeOK
  <1> QED BY <1>1, TypeStep, PTL DEF Spec

\* The strengthening is the type of the variables: a call parks, and is
\* released, on conditions about the lengths of the three sequences.
LEMMA ParkedStep ==
    TypeOK /\ ParkedOnlyWhenBlocked /\ [Next]_vars => ParkedOnlyWhenBlocked'
  <1> SUFFICES ASSUME TypeOK, ParkedOnlyWhenBlocked, [Next]_vars
               PROVE  ParkedOnlyWhenBlocked'
    OBVIOUS
  <1> USE CapacityAssumption
  <1>1. ASSUME NEW p \in Producers, TryPush(p)
        PROVE  ParkedOnlyWhenBlocked'
    BY <1>1 DEF TryPush, HandToReader, Buffer, TypeOK, ParkedOnlyWhenBlocked
  <1>2. ASSUME NEW p \in Producers, Push(p)
        PROVE  ParkedOnlyWhenBlocked'
    BY <1>2 DEF Push, HandToReader, Buffer, TypeOK, ParkedOnlyWhenBlocked
  <1>3. ASSUME NEW c \in Consumers, Shift(c)
        PROVE  ParkedOnlyWhenBlocked'
    <2>1. CASE items # <<>>
      <3> DEFINE vs == ValuesOf(writers)
      <3>1. readers = <<>>
        BY <2>1 DEF ParkedOnlyWhenBlocked
      <3>2. AdmitWriters(1, Tail(items), Append(taken, Head(items))) /\ UNCHANGED closed
        BY <1>3, <2>1 DEF Shift
      <3>3. readers' = <<>>
        BY <3>1, <3>2 DEF AdmitWriters, TypeOK
      <3>4. CASE writers = <<>>
        <4>1. writers' = SubSeq(writers, 1, 0)
          BY <3>2, <3>4 DEF AdmitWriters, TypeOK
        <4>2. writers' = <<>>
          BY <4>1 DEF TypeOK
        <4> QED BY <3>3, <4>2 DEF ParkedOnlyWhenBlocked
      <3>5. CASE writers # <<>>
        <4>1. Len(items) >= Capacity /\ ~closed
          BY <3>5 DEF ParkedOnlyWhenBlocked
        <4>2. vs \in Seq(Value) /\ Len(vs) = Len(writers) /\ Len(writers) >= 1
          BY <3>5, ValuesOfType DEF TypeOK
        <4>3. items' = Tail(items) \o SubSeq(vs, 1, 1)
          BY <3>1, <3>2, <4>2 DEF AdmitWriters
        <4>4. SubSeq(vs, 1, 1) \in Seq(Value) /\ Len(SubSeq(vs, 1, 1)) = 1
          BY <4>2
        <4>5. Tail(items) \in Seq(Value) /\ Len(Tail(items)) = Len(items) - 1
          BY <2>1 DEF TypeOK
        <4>6. Len(items') = Len(items)
          <5>1. Len(items') = Len(Tail(items)) + Len(SubSeq(vs, 1, 1))
            BY <4>3, <4>4, <4>5, ConcatLength
          <5>2. Len(items) \in Nat
            BY DEF TypeOK
          <5> HIDE DEF vs
          <5> QED BY <4>4, <4>5, <5>1, <5>2
        <4> QED BY <3>2, <3>3, <4>1, <4>6 DEF ParkedOnlyWhenBlocked
      <3> QED BY <3>4, <3>5
    <2>2. CASE items = <<>>
      BY <1>3, <2>2 DEF Shift, TypeOK, ParkedOnlyWhenBlocked
    <2> QED BY <2>1, <2>2
  <1>4. ASSUME AbortWriter
        PROVE  ParkedOnlyWhenBlocked'
    BY <1>4 DEF AbortWriter, TypeOK, ParkedOnlyWhenBlocked
  <1>5. ASSUME AbortReader
        PROVE  ParkedOnlyWhenBlocked'
    BY <1>5 DEF AbortReader, TypeOK, ParkedOnlyWhenBlocked
  <1>6. ASSUME Close
        PROVE  ParkedOnlyWhenBlocked'
    BY <1>6 DEF Close, TypeOK, ParkedOnlyWhenBlocked
  <1>7. ASSUME Clear
        PROVE  ParkedOnlyWhenBlocked'
    <2>1. CASE closed
      BY <1>7, <2>1 DEF Clear, TypeOK, ParkedOnlyWhenBlocked
    <2>2. CASE ~closed
      <3> DEFINE vs == ValuesOf(writers)
      <3>1. AdmitWriters(Len(writers), <<>>, taken) /\ closed' = FALSE
        BY <1>7, <2>2 DEF Clear, TypeOK
      <3>2. vs \in Seq(Value) /\ Len(vs) = Len(writers)
        BY ValuesOfType DEF TypeOK
      <3>3. writers' = SubSeq(writers, Len(writers) + 1, Len(writers))
        BY <3>1 DEF AdmitWriters, TypeOK
      <3>4. writers' = <<>>
        BY <3>3 DEF TypeOK
      <3>5. CASE writers = <<>>
        <4>1. items' = <<>> \o SubSeq(vs, 1, 0)
          BY <3>1, <3>5 DEF AdmitWriters, TypeOK
        <4>2. items' = <<>>
          BY <3>2, <4>1
        <4> QED BY <3>1, <3>4, <4>2 DEF ParkedOnlyWhenBlocked
      <3>6. CASE writers # <<>>
        <4>1. readers = <<>>
          BY <3>6 DEF ParkedOnlyWhenBlocked
        <4>2. readers' = <<>>
          BY <2>2, <3>1, <4>1 DEF AdmitWriters, TypeOK
        <4> QED BY <3>4, <4>2 DEF ParkedOnlyWhenBlocked
      <3> QED BY <3>5, <3>6
    <2> QED BY <2>1, <2>2
  <1>8. CASE UNCHANGED vars
    BY <1>8 DEF vars, ParkedOnlyWhenBlocked
  <1> QED BY <1>1, <1>2, <1>3, <1>4, <1>5, <1>6, <1>7, <1>8 DEF Next

\* No shift is parked beside a value it could take and no push beside a free
\* slot, whatever the capacity, the callers and their aborts.
THEOREM NoLostWakeup == Spec => []ParkedOnlyWhenBlocked
  <1>1. Init => ParkedOnlyWhenBlocked
    BY DEF Init, ParkedOnlyWhenBlocked
  <1> QED BY <1>1, TypeCorrect, ParkedStep, PTL DEF Spec

-----------------------------------------------------------------------------
(* The order of the calls and the account of the values.                    *)

Increasing(s) == \A i, j \in 1 .. Len(s) : i < j => s[i] < s[j]

LEMMA ElemsConcat ==
    ASSUME NEW S, NEW s \in Seq(S), NEW t \in Seq(S)
    PROVE  Elems(s \o t) = Elems(s) \cup Elems(t)
  <1>1. s \o t \in Seq(S)
    BY ConcatProperties
  <1>2. Range(s) = Elems(s) /\ Range(t) = Elems(t) /\ Range(s \o t) = Elems(s \o t)
    BY <1>1, RangeEquality DEF Elems
  <1> QED BY <1>2, RangeConcatenation

LEMMA ElemsOne ==
    ASSUME NEW v
    PROVE  Elems(<<v>>) = {v}
  BY DEF Elems

\* A value above all others extends an increasing sequence.
LEMMA IncreasingAppend ==
    ASSUME NEW s \in Seq(Value), NEW v \in Value, Increasing(s),
           \A e \in Elems(s) : e < v
    PROVE  Increasing(s \o <<v>>)
  <1>1. <<v>> \in Seq(Value) /\ Len(<<v>>) = 1 /\ <<v>>[1] = v
    OBVIOUS
  <1>2. /\ Len(s \o <<v>>) = Len(s) + 1
        /\ \A i \in 1 .. Len(s) + 1 : (s \o <<v>>)[i] = IF i <= Len(s) THEN s[i] ELSE <<v>>[i - Len(s)]
    BY <1>1, ConcatProperties
  <1>3. Len(s) \in Nat /\ \A i \in 1 .. Len(s) : s[i] < v
    BY DEF Elems
  <1> QED BY <1>1, <1>2, <1>3 DEF Increasing

\* What is left of an increasing sequence when a segment is cut out is
\* increasing, and the segment has no value in common with it.
LEMMA IncreasingCut ==
    ASSUME NEW a \in Seq(Value), NEW b \in Seq(Value), NEW c \in Seq(Value),
           Increasing((a \o b) \o c)
    PROVE  /\ Increasing(a \o c)
           /\ Elems(b) \cap Elems(a \o c) = {}
  <1> DEFINE s == (a \o b) \o c
  <1>0. Len(a) \in Nat /\ Len(b) \in Nat /\ Len(c) \in Nat
    OBVIOUS
  <1>1. /\ a \o b \in Seq(Value) /\ Len(a \o b) = Len(a) + Len(b)
        /\ \A i \in 1 .. Len(a) + Len(b) :
              (a \o b)[i] = IF i <= Len(a) THEN a[i] ELSE b[i - Len(a)]
    BY ConcatProperties
  <1>2. /\ Len(s) = Len(a) + Len(b) + Len(c)
        /\ \A i \in 1 .. Len(a) + Len(b) + Len(c) :
              s[i] = IF i <= Len(a) + Len(b) THEN (a \o b)[i] ELSE c[i - (Len(a) + Len(b))]
    BY <1>1, ConcatProperties
  <1>3. /\ Len(a \o c) = Len(a) + Len(c)
        /\ \A i \in 1 .. Len(a) + Len(c) :
              (a \o c)[i] = IF i <= Len(a) THEN a[i] ELSE c[i - Len(a)]
    BY ConcatProperties
  <1> HIDE DEF s
  <1> DEFINE at(i) == IF i <= Len(a) THEN i ELSE i + Len(b)
  <1>4. \A i \in 1 .. Len(a) + Len(c) :
          /\ at(i) \in 1 .. Len(s) /\ (a \o c)[i] = s[at(i)]
          /\ at(i) \notin Len(a) + 1 .. Len(a) + Len(b)
    BY <1>0, <1>1, <1>2, <1>3
  <1>5. \A i, j \in 1 .. Len(a) + Len(c) : i < j => at(i) < at(j)
    BY <1>0
  <1>6. \A k \in 1 .. Len(b) : Len(a) + k \in 1 .. Len(s) /\ b[k] = s[Len(a) + k]
    BY <1>0, <1>1, <1>2
  <1>7. \A i \in 1 .. Len(s) : s[i] \in Value
    <2>1. s \in Seq(Value)
      BY <1>1, ConcatProperties DEF s
    <2> QED BY <2>1
  <1>8. \A i, j \in 1 .. Len(s) : i < j => s[i] < s[j]
    BY DEF Increasing, s
  <1> HIDE DEF at
  <1>9. Increasing(a \o c)
    BY <1>3, <1>4, <1>5, <1>8 DEF Increasing
  <1>10. \A k \in 1 .. Len(b), i \in 1 .. Len(a) + Len(c) : b[k] # (a \o c)[i]
    <2> TAKE k \in 1 .. Len(b), i \in 1 .. Len(a) + Len(c)
    <2>1. at(i) # Len(a) + k
      BY <1>0, <1>4
    <2>2. at(i) \in Int /\ Len(a) + k \in Int
      BY <1>0, <1>4
    <2>3. at(i) < Len(a) + k \/ Len(a) + k < at(i)
      BY <2>1, <2>2
    <2>4. s[at(i)] \in Int /\ s[Len(a) + k] \in Int
      BY <1>4, <1>6, <1>7 DEF Value
    <2> QED BY <1>4, <1>6, <1>8, <2>3, <2>4
  <1> QED BY <1>3, <1>9, <1>10 DEF Elems

\* The values of parked calls, of a part of them and of both together.
LEMMA ValuesOfConcat ==
    ASSUME NEW s \in Seq(Writer), NEW t \in Seq(Writer)
    PROVE  ValuesOf(s \o t) = ValuesOf(s) \o ValuesOf(t)
  <1>1. /\ s \o t \in Seq(Writer) /\ Len(s \o t) = Len(s) + Len(t)
        /\ \A i \in 1 .. Len(s) + Len(t) : (s \o t)[i] = IF i <= Len(s) THEN s[i] ELSE t[i - Len(s)]
    BY ConcatProperties
  <1>2. /\ ValuesOf(s) \in Seq(Value) /\ Len(ValuesOf(s)) = Len(s)
        /\ ValuesOf(t) \in Seq(Value) /\ Len(ValuesOf(t)) = Len(t)
        /\ ValuesOf(s \o t) \in Seq(Value) /\ Len(ValuesOf(s \o t)) = Len(s) + Len(t)
    BY <1>1, ValuesOfType
  <1>3. /\ ValuesOf(s) \o ValuesOf(t) \in Seq(Value)
        /\ Len(ValuesOf(s) \o ValuesOf(t)) = Len(s) + Len(t)
        /\ \A i \in 1 .. Len(s) + Len(t) : (ValuesOf(s) \o ValuesOf(t))[i]
              = IF i <= Len(s) THEN ValuesOf(s)[i] ELSE ValuesOf(t)[i - Len(s)]
    BY <1>2, ConcatProperties
  <1>4. Len(s) \in Nat /\ Len(t) \in Nat
    OBVIOUS
  <1>5. ASSUME NEW i \in 1 .. Len(s) + Len(t)
        PROVE  ValuesOf(s \o t)[i] = (ValuesOf(s) \o ValuesOf(t))[i]
    <2>1. ValuesOf(s \o t)[i] = (s \o t)[i].value
      BY <1>1 DEF ValuesOf
    <2>2. i <= Len(s) => ValuesOf(s)[i] = s[i].value
      BY <1>4 DEF ValuesOf
    <2>3. ~(i <= Len(s)) => ValuesOf(t)[i - Len(s)] = t[i - Len(s)].value
      BY <1>4 DEF ValuesOf
    <2> QED BY <1>1, <1>3, <2>1, <2>2, <2>3
  <1> QED BY <1>2, <1>3, <1>5, SeqEqual

LEMMA ValuesOfOne ==
    ASSUME NEW w
    PROVE  ValuesOf(<<w>>) = <<w.value>>
  BY SMTT(30) DEF ValuesOf

\* A sequence is its first n elements followed by the others.
LEMMA Split ==
    ASSUME NEW S, NEW s \in Seq(S), NEW n \in 0 .. Len(s)
    PROVE  /\ SubSeq(s, 1, n) \in Seq(S) /\ SubSeq(s, n + 1, Len(s)) \in Seq(S)
           /\ Len(SubSeq(s, 1, n)) = n /\ Len(SubSeq(s, n + 1, Len(s))) = Len(s) - n
           /\ s = SubSeq(s, 1, n) \o SubSeq(s, n + 1, Len(s))
  <1>1. SubSeq(s, 1, n) \o SubSeq(s, n + 1, Len(s)) = SubSeq(s, 1, Len(s))
    <2>1. Len(s) \in Nat
      OBVIOUS
    <2>2. 1 \in 1 .. Len(s) + 1 /\ n \in 1 - 1 .. Len(s) /\ Len(s) \in n .. Len(s)
      BY <2>1
    <2> QED BY <2>2, ConcatAdjacentSubSeq
  <1>2. SubSeq(s, 1, Len(s)) = s
    BY SubSeqFull
  <1>3. /\ SubSeq(s, 1, n) \in Seq(S) /\ SubSeq(s, n + 1, Len(s)) \in Seq(S)
        /\ Len(SubSeq(s, 1, n)) = n /\ Len(SubSeq(s, n + 1, Len(s))) = Len(s) - n
    OBVIOUS
  <1> QED BY <1>1, <1>2, <1>3

\* A sequence without its i-th element.
LEMMA SplitAround ==
    ASSUME NEW S, NEW s \in Seq(S), NEW i \in 1 .. Len(s)
    PROVE  /\ SubSeq(s, 1, i - 1) \in Seq(S) /\ <<s[i]>> \in Seq(S)
           /\ SubSeq(s, i + 1, Len(s)) \in Seq(S)
           /\ s = (SubSeq(s, 1, i - 1) \o <<s[i]>>) \o SubSeq(s, i + 1, Len(s))
  <1>1. s = SubSeq(s, 1, i) \o SubSeq(s, i + 1, Len(s))
    BY Split
  <1>2. SubSeq(s, 1, i) = SubSeq(s, 1, i - 1) \o <<s[i]>>
    BY SubSeqRecursiveSecond
  <1>3. /\ SubSeq(s, 1, i - 1) \in Seq(S) /\ <<s[i]>> \in Seq(S)
        /\ SubSeq(s, i + 1, Len(s)) \in Seq(S)
    OBVIOUS
  <1> QED BY <1>1, <1>2, <1>3

LEMMA PipelineType ==
    ASSUME TypeOK
    PROVE  /\ taken \in Seq(Value) /\ items \in Seq(Value) /\ ValuesOf(writers) \in Seq(Value)
           /\ taken \o items \in Seq(Value) /\ Pipeline \in Seq(Value)
  <1>1. taken \in Seq(Value) /\ items \in Seq(Value) /\ ValuesOf(writers) \in Seq(Value)
    BY ValuesOfType DEF TypeOK
  <1> QED BY <1>1, ConcatProperties DEF Pipeline

QueueOrder == CallOrder /\ OneFate

\* A step that leaves the pipeline and the account alone.
LEMMA SameStep ==
    ASSUME QueueOrder, Pipeline' = Pipeline, UNCHANGED <<offered, dropped, refused>>
    PROVE  QueueOrder'
  BY DEF QueueOrder, CallOrder, OneFate

\* A refused value never enters the pipeline.
LEMMA RefuseStep ==
    ASSUME TypeOK, QueueOrder, Pipeline' = Pipeline, dropped' = dropped,
           offered' = offered + 1, refused' = refused \cup {offered + 1}
    PROVE  QueueOrder'
  <1>1. CallOrder'
    BY DEF QueueOrder, CallOrder
  <1>2. offered \in Nat
    BY BoundAssumption DEF TypeOK
  <1>3. 1 .. offered + 1 = (1 .. offered) \cup {offered + 1} /\ offered + 1 \notin 1 .. offered
    BY <1>2
  <1> QED BY <1>1, <1>3 DEF QueueOrder, OneFate

\* An admitted value enters at the end.
LEMMA OfferStep ==
    ASSUME TypeOK, QueueOrder, offered + 1 \in Value, Pipeline' = Pipeline \o <<offered + 1>>,
           offered' = offered + 1, UNCHANGED <<dropped, refused>>
    PROVE  QueueOrder'
  <1>1. offered \in Nat
    BY BoundAssumption DEF TypeOK
  <1>2. 1 .. offered + 1 = (1 .. offered) \cup {offered + 1} /\ offered + 1 \notin 1 .. offered
    BY <1>1
  <1>3. Elems(Pipeline) \subseteq 1 .. offered
    BY DEF QueueOrder, OneFate
  <1>4. CallOrder'
    <2>1. \A e \in Elems(Pipeline) : e < offered + 1
      BY <1>1, <1>3
    <2>2. Increasing(Pipeline)
      BY DEF QueueOrder, CallOrder, Increasing
    <2>3. Increasing(Pipeline \o <<offered + 1>>)
      BY <2>1, <2>2, PipelineType, IncreasingAppend
    <2> QED BY <2>3 DEF CallOrder, Increasing
  <1>5. Elems(Pipeline') = Elems(Pipeline) \cup {offered + 1}
    <2>1. <<offered + 1>> \in Seq(Value)
      OBVIOUS
    <2>2. Elems(Pipeline \o <<offered + 1>>) = Elems(Pipeline) \cup Elems(<<offered + 1>>)
      BY <2>1, PipelineType, ElemsConcat
    <2> QED BY <2>2, ElemsOne
  <1>6. offered + 1 \notin dropped \cup refused
    BY <1>2 DEF QueueOrder, OneFate
  <1>7. OneFate'
    BY <1>2, <1>5, <1>6 DEF QueueOrder, OneFate, Elems
  <1> QED BY <1>4, <1>7 DEF QueueOrder

\* Values leave the middle of the pipeline only for one of the two sets.
LEMMA CutStep ==
    ASSUME TypeOK, QueueOrder, UNCHANGED offered,
           NEW a \in Seq(Value), NEW b \in Seq(Value), NEW c \in Seq(Value),
           Pipeline = (a \o b) \o c, Pipeline' = a \o c,
           \/ dropped' = dropped \cup Elems(b) /\ refused' = refused
           \/ dropped' = dropped /\ refused' = refused \cup Elems(b)
    PROVE  QueueOrder'
  <1>1. Increasing((a \o b) \o c)
    BY DEF QueueOrder, CallOrder, Increasing
  <1>2. Increasing(a \o c) /\ Elems(b) \cap Elems(a \o c) = {}
    BY <1>1, IncreasingCut
  <1>3. CallOrder'
    BY <1>2 DEF CallOrder, Increasing
  <1>4. Elems(Pipeline) = Elems(a) \cup Elems(b) \cup Elems(c)
    <2>1. a \o b \in Seq(Value)
      BY ConcatProperties
    <2>2. Elems((a \o b) \o c) = Elems(a \o b) \cup Elems(c)
      <3>1. ASSUME NEW s \in Seq(Value)
            PROVE  Elems(s \o c) = Elems(s) \cup Elems(c)
        BY ElemsConcat
      <3> QED BY <2>1, <3>1
    <2>3. Elems(a \o b) = Elems(a) \cup Elems(b)
      BY ElemsConcat
    <2> QED BY <2>2, <2>3
  <1>5. Elems(Pipeline') = Elems(a) \cup Elems(c) /\ Elems(a \o c) = Elems(a) \cup Elems(c)
    BY ElemsConcat
  <1>6. Elems(Pipeline)' = Elems(Pipeline')
    BY DEF Elems
  <1> HIDE DEF Elems
  <1>7. OneFate'
    BY <1>2, <1>4, <1>5, <1>6 DEF QueueOrder, OneFate
  <1> QED BY <1>3, <1>7 DEF QueueOrder

\* How the pipeline looks before and after a step, by the shape of the step.
LEMMA PipelineEmptyWriters ==
    ASSUME TypeOK, writers = <<>>
    PROVE  Pipeline = taken \o items /\ ValuesOf(writers) = <<>>
  <1>1. ValuesOf(writers) = <<>>
    BY DEF ValuesOf
  <1> QED BY <1>1, PipelineType, ConcatEmptySeq DEF Pipeline

LEMMA PipelineUnchanged ==
    ASSUME UNCHANGED <<taken, items, writers>>
    PROVE  Pipeline' = Pipeline
  BY DEF Pipeline, ValuesOf

LEMMA HandOver ==
    ASSUME TypeOK, ParkedOnlyWhenBlocked, NEW v \in Value, readers # <<>>,
           taken' = Append(taken, v), UNCHANGED <<items, writers>>
    PROVE  Pipeline' = Pipeline \o <<v>>
  <1>1. items = <<>> /\ writers = <<>>
    BY DEF ParkedOnlyWhenBlocked
  <1>2. ValuesOf(writers) = <<>> /\ ValuesOf(writers)' = <<>>
    BY <1>1 DEF ValuesOf
  <1>3. Pipeline = taken
    BY <1>1, <1>2, PipelineType, ConcatEmptySeq DEF Pipeline
  <1>4. taken' \in Seq(Value) /\ taken' = taken \o <<v>>
    BY PipelineType, AppendProperties, AppendIsConcat
  <1>5. Pipeline' = (taken' \o <<>>) \o <<>>
    BY <1>1, <1>2 DEF Pipeline
  <1>6. taken' \o <<>> = taken'
    BY <1>4, ConcatEmptySeq
  <1> QED BY <1>3, <1>4, <1>5, <1>6

LEMMA Buffered ==
    ASSUME TypeOK, NEW v \in Value, writers = <<>>,
           items' = Append(items, v), UNCHANGED <<taken, writers>>
    PROVE  Pipeline' = Pipeline \o <<v>>
  <1>1. ValuesOf(writers) = <<>> /\ ValuesOf(writers)' = <<>>
    BY DEF ValuesOf
  <1>2. Pipeline = taken \o items
    BY PipelineEmptyWriters
  <1>3. items' = items \o <<v>> /\ items' \in Seq(Value) /\ <<v>> \in Seq(Value)
    BY PipelineType, AppendProperties, AppendIsConcat
  <1>4. Pipeline' = (taken \o items') \o <<>>
    BY <1>1 DEF Pipeline
  <1>5. taken \o items' = (taken \o items) \o <<v>>
    BY <1>3, PipelineType, ConcatAssociative
  <1>6. taken \o items' \in Seq(Value)
    BY <1>3, PipelineType, ConcatProperties
  <1> QED BY <1>2, <1>4, <1>5, <1>6, ConcatEmptySeq

LEMMA Parked ==
    ASSUME TypeOK, NEW w \in Writer,
           writers' = Append(writers, w), UNCHANGED <<taken, items>>
    PROVE  Pipeline' = Pipeline \o <<w.value>>
  <1>1. writers \in Seq(Writer) /\ <<w>> \in Seq(Writer) /\ writers' = writers \o <<w>>
    BY AppendIsConcat DEF TypeOK
  <1>2. ValuesOf(writers \o <<w>>) = ValuesOf(writers) \o <<w.value>>
    BY <1>1, ValuesOfConcat, ValuesOfOne
  <1>3. ValuesOf(writers)' = ValuesOf(writers) \o <<w.value>>
    <2>1. ValuesOf(writers)' = ValuesOf(writers')
      BY DEF ValuesOf
    <2> QED BY <1>1, <1>2, <2>1
  <1>4. Pipeline' = (taken \o items) \o (ValuesOf(writers) \o <<w.value>>)
    BY <1>3 DEF Pipeline
  <1>5. w.value \in Value
    BY DEF Writer
  <1>6. <<w.value>> \in Seq(Value)
    BY <1>5
  <1> QED BY <1>4, <1>6, PipelineType, ConcatAssociative DEF Pipeline

\* Admitting parked calls moves the border between buffer and parked calls:
\* a parked reader and a parked writer never meet.
LEMMA Admitted ==
    ASSUME TypeOK, ParkedOnlyWhenBlocked, NEW n \in Nat,
           NEW left \in Seq(Value), NEW out \in Seq(Value), AdmitWriters(n, left, out)
    PROVE  Pipeline' = (out \o left) \o ValuesOf(writers)
  <1> DEFINE m == IF n <= Len(writers) THEN n ELSE Len(writers)
             k == IF m <= Len(readers) THEN m ELSE Len(readers)
             vs == ValuesOf(writers)
             ws == SubSeq(writers, m + 1, Len(writers))
             now == SubSeq(vs, 1, m)
             later == SubSeq(vs, m + 1, Len(vs))
  <1>1. m \in 0 .. Len(writers) /\ k = 0
    BY DEF TypeOK, ParkedOnlyWhenBlocked
  <1>0. /\ items' = left \o SubSeq(vs, k + 1, m)
        /\ taken' = out \o SubSeq(vs, 1, k)
        /\ writers' = ws
    BY DEF AdmitWriters
  <1> HIDE DEF m, k, vs
  <1>2. /\ items' = left \o now
        /\ taken' = out \o SubSeq(vs, 1, 0)
        /\ writers' = ws
    <2>1. k + 1 = 1
      BY <1>1
    <2> QED BY <1>0, <1>1, <2>1
  <1>3. vs \in Seq(Value) /\ Len(vs) = Len(writers) /\ writers \in Seq(Writer)
    BY ValuesOfType DEF TypeOK, vs
  <1>4. now \in Seq(Value) /\ later \in Seq(Value) /\ vs = now \o later
    BY <1>1, <1>3, Split
  <1>5. SubSeq(vs, 1, 0) = <<>>
    BY <1>3
  <1>6. taken' = out
    BY <1>2, <1>5, ConcatEmptySeq
  <1>7. ValuesOf(ws) = later
    <2>1. /\ ws \in Seq(Writer) /\ Len(ws) = Len(writers) - m
          /\ \A i \in 1 .. Len(writers) - m : ws[i] = writers[m + i]
      BY <1>1, <1>3
    <2>2. /\ Len(later) = Len(writers) - m
          /\ \A i \in 1 .. Len(writers) - m : later[i] = vs[m + i]
      BY <1>1, <1>3
    <2>3. ValuesOf(ws) \in Seq(Value) /\ Len(ValuesOf(ws)) = Len(writers) - m
      BY <2>1, ValuesOfType
    <2>4. Len(writers) \in Nat
      BY DEF TypeOK
    <2>5. ASSUME NEW i \in 1 .. Len(writers) - m
          PROVE  ValuesOf(ws)[i] = later[i]
      <3>1. m + i \in 1 .. Len(writers)
        BY <1>1, <2>4
      <3>2. vs[m + i] = writers[m + i].value
        BY <3>1 DEF ValuesOf, vs
      <3>3. ValuesOf(ws)[i] = ws[i].value
        BY <2>1 DEF ValuesOf
      <3> QED BY <2>1, <2>2, <3>2, <3>3
    <2> HIDE DEF ws, later
    <2> QED BY <1>4, <2>2, <2>3, <2>5, SeqEqual
  <1>8. Pipeline' = (out \o (left \o now)) \o later
    <2>1. ValuesOf(writers)' = ValuesOf(writers')
      BY DEF ValuesOf
    <2> QED BY <1>2, <1>6, <1>7, <2>1 DEF Pipeline
  <1> HIDE DEF now, later
  <1>9. out \o (left \o now) = (out \o left) \o now /\ out \o left \in Seq(Value)
    <2>1. out \o left \in Seq(Value)
      BY ConcatProperties
    <2>2. now \in Seq(Value)
      BY <1>4
    <2> QED BY <2>1, <2>2, ConcatAssociative
  <1>10. ((out \o left) \o now) \o later = (out \o left) \o (now \o later)
    BY <1>4, <1>9, ConcatAssociative, SMTT(30)
  <1> QED BY <1>4, <1>8, <1>9, <1>10 DEF vs

LEMMA HeadAndTail ==
    ASSUME NEW S, NEW t \in Seq(S), NEW s \in Seq(S), s # <<>>
    PROVE  /\ Append(t, Head(s)) \in Seq(S) /\ Tail(s) \in Seq(S)
           /\ Append(t, Head(s)) \o Tail(s) = t \o s
  <1>1. Head(s) \in S /\ Tail(s) \in Seq(S) /\ <<Head(s)>> \in Seq(S) /\ 1 \in 1 .. Len(s)
    OBVIOUS
  <1>2. s = <<Head(s)>> \o Tail(s)
    <2>1. SubSeq(s, 1, Len(s)) = <<s[1]>> \o SubSeq(s, 2, Len(s))
      <3>1. Len(s) \in 1 .. Len(s)
        BY <1>1
      <3> QED BY <1>1, <3>1, SubSeqRecursiveFirst
    <2> QED BY <2>1, SubSeqFull, TailIsSubSeq
  <1>3. Append(t, Head(s)) = t \o <<Head(s)>> /\ Append(t, Head(s)) \in Seq(S)
    BY <1>1, AppendIsConcat, AppendProperties
  <1>4. (t \o <<Head(s)>>) \o Tail(s) = t \o (<<Head(s)>> \o Tail(s))
    BY <1>1, ConcatAssociative
  <1> QED BY <1>1, <1>2, <1>3, <1>4

LEMMA OrderStep ==
    TypeOK /\ ParkedOnlyWhenBlocked /\ QueueOrder /\ [Next]_vars => QueueOrder'
  <1> SUFFICES ASSUME TypeOK, ParkedOnlyWhenBlocked, QueueOrder, [Next]_vars
               PROVE  QueueOrder'
    OBVIOUS
  <1> USE CapacityAssumption, BoundAssumption
  <1> DEFINE vs == ValuesOf(writers)
  <1>0. /\ taken \in Seq(Value) /\ items \in Seq(Value) /\ vs \in Seq(Value)
        /\ taken \o items \in Seq(Value) /\ <<>> \in Seq(Value)
        /\ Pipeline = (taken \o items) \o vs
    BY PipelineType, EmptySeq DEF Pipeline
  <1> HIDE DEF vs
  <1>1. ASSUME NEW p \in Producers, TryPush(p) \/ Push(p)
        PROVE  QueueOrder'
    <2>1. offered + 1 \in Value /\ offered' = offered + 1 /\ UNCHANGED dropped
      BY <1>1 DEF TryPush, Push, TypeOK, Value
    <2>2. CASE UNCHANGED <<taken, items, writers>>
      <3>1. refused' = refused \cup {offered + 1}
        BY <1>1, <2>2 DEF TryPush, Push, HandToReader, Buffer, TypeOK
      <3> QED BY <2>1, <2>2, <3>1, PipelineUnchanged, RefuseStep
    <2>3. CASE HandToReader(offered + 1) /\ readers # <<>> /\ UNCHANGED <<writers, refused>>
      <3>1. Pipeline' = Pipeline \o <<offered + 1>>
        BY <2>1, <2>3, HandOver DEF HandToReader
      <3> QED BY <2>1, <2>3, <3>1, OfferStep
    <2>4. CASE Buffer(offered + 1) /\ Len(items) < Capacity /\ UNCHANGED <<writers, refused>>
      <3>1. writers = <<>>
        BY <2>4 DEF ParkedOnlyWhenBlocked, TypeOK
      <3>2. Pipeline' = Pipeline \o <<offered + 1>>
        BY <2>1, <2>4, <3>1, Buffered DEF Buffer
      <3> QED BY <2>1, <2>4, <3>2, OfferStep
    <2>5. CASE /\ writers' = Append(writers, [who |-> p, value |-> offered + 1])
               /\ UNCHANGED <<items, taken, refused>>
      <3> DEFINE w == [who |-> p, value |-> offered + 1]
      <3>1. w \in Writer /\ w.value = offered + 1
        BY <2>1 DEF Writer
      <3>2. Pipeline' = Pipeline \o <<w.value>>
        BY <2>5, <3>1, Parked
      <3> QED BY <2>1, <2>5, <3>1, <3>2, OfferStep
    <2>6. ~(Len(items) >= Capacity) => Len(items) < Capacity
      BY DEF TypeOK
    <2> QED BY <1>1, <2>2, <2>3, <2>4, <2>5, <2>6 DEF TryPush, Push
  <1>2. ASSUME NEW c \in Consumers, Shift(c)
        PROVE  QueueOrder'
    <2>1. UNCHANGED <<offered, dropped, refused>>
      BY <1>2 DEF Shift
    <2>2. CASE items # <<>>
      <3>1. AdmitWriters(1, Tail(items), Append(taken, Head(items)))
        BY <1>2, <2>2 DEF Shift
      <3>2. /\ Tail(items) \in Seq(Value) /\ Append(taken, Head(items)) \in Seq(Value)
            /\ Append(taken, Head(items)) \o Tail(items) = taken \o items
        BY <1>0, <2>2, HeadAndTail
      <3>3. Pipeline' = (Append(taken, Head(items)) \o Tail(items)) \o vs
        BY <3>1, <3>2, Admitted DEF vs
      <3>4. Pipeline' = Pipeline
        BY <1>0, <3>2, <3>3
      <3> QED BY <2>1, <3>4, SameStep
    <2>3. CASE items = <<>>
      <3>1. writers = <<>>
        BY <2>3 DEF ParkedOnlyWhenBlocked
      <3>2. UNCHANGED <<taken, items, writers>>
        BY <1>2, <2>3, <3>1 DEF Shift
      <3> QED BY <2>1, <3>2, PipelineUnchanged, SameStep
    <2> QED BY <2>2, <2>3
  <1>3. ASSUME AbortWriter
        PROVE  QueueOrder'
    <2>1. PICK i \in 1 .. Len(writers) :
                 /\ writers' = Without(writers, i)
                 /\ refused' = refused \cup {writers[i].value}
                 /\ UNCHANGED <<items, offered, taken, dropped>>
      BY <1>3 DEF AbortWriter
    <2> DEFINE w1 == SubSeq(writers, 1, i - 1)
               w2 == SubSeq(writers, i + 1, Len(writers))
               w == writers[i]
    <2>2. /\ w1 \in Seq(Writer) /\ <<w>> \in Seq(Writer) /\ w2 \in Seq(Writer) /\ w \in Writer
          /\ writers = (w1 \o <<w>>) \o w2
      <3>1. writers \in Seq(Writer) /\ w \in Writer
        BY DEF TypeOK
      <3> QED BY <3>1, SplitAround
    <2>3. writers' = w1 \o w2
      BY <2>1 DEF Without
    <2>4. w.value \in Value
      BY <2>2 DEF Writer
    <2> HIDE DEF w1, w2, w
    <2> DEFINE v1 == ValuesOf(w1)
               v2 == ValuesOf(w2)
               a == (taken \o items) \o v1
    <2>5. v1 \in Seq(Value) /\ v2 \in Seq(Value) /\ <<w.value>> \in Seq(Value)
      BY <2>2, <2>4, ValuesOfType
    <2>6. vs = (v1 \o <<w.value>>) \o v2
      <3>1. w1 \o <<w>> \in Seq(Writer)
        BY <2>2, ConcatProperties
      <3>2. vs = ValuesOf(w1 \o <<w>>) \o v2
        BY <2>2, <3>1, ValuesOfConcat DEF vs
      <3>3. ValuesOf(w1 \o <<w>>) = v1 \o <<w.value>>
        BY <2>2, ValuesOfConcat, ValuesOfOne
      <3> QED BY <3>2, <3>3
    <2>7. ValuesOf(writers)' = v1 \o v2
      <3>1. ValuesOf(writers)' = ValuesOf(writers')
        BY DEF ValuesOf
      <3> QED BY <2>2, <2>3, <3>1, ValuesOfConcat
    <2>8. Pipeline' = (taken \o items) \o (v1 \o v2)
      BY <2>1, <2>7 DEF Pipeline
    <2> HIDE DEF v1, v2
    <2>9. a \in Seq(Value)
      BY <1>0, <2>5, ConcatProperties
    <2>10. ASSUME NEW s \in Seq(Value), NEW t \in Seq(Value), NEW u \in Seq(Value)
           PROVE  s \o (t \o u) = (s \o t) \o u
      BY ConcatAssociative
    <2>11. Pipeline' = a \o v2
      BY <1>0, <2>5, <2>8, <2>10, SMTT(30)
    <2>12. Pipeline = (a \o <<w.value>>) \o v2
      <3>1. v1 \o <<w.value>> \in Seq(Value)
        BY <2>5, ConcatProperties
      <3>2. Pipeline = ((taken \o items) \o (v1 \o <<w.value>>)) \o v2
        BY <1>0, <2>5, <2>6, <2>10, <3>1, SMTT(30)
      <3>3. (taken \o items) \o (v1 \o <<w.value>>) = a \o <<w.value>>
        BY <1>0, <2>5, ConcatAssociative, SMTT(30)
      <3> QED BY <3>2, <3>3
    <2>13. refused' = refused \cup Elems(<<w.value>>)
      BY <2>1, ElemsOne DEF w
    <2> HIDE DEF a
    <2> QED BY <2>1, <2>5, <2>9, <2>11, <2>12, <2>13, CutStep
  <1>4. ASSUME AbortReader
        PROVE  QueueOrder'
    BY <1>4, PipelineUnchanged, SameStep DEF AbortReader
  <1>5. ASSUME Close
        PROVE  QueueOrder'
    <2>1. /\ refused' = refused \cup Elems(vs) /\ writers' = <<>>
          /\ UNCHANGED <<items, offered, taken, dropped>>
      BY <1>5 DEF Close, vs
    <2>2. ValuesOf(writers)' = <<>>
      BY <2>1 DEF ValuesOf
    <2>3. Pipeline' = (taken \o items) \o <<>>
      BY <2>1, <2>2 DEF Pipeline
    <2>4. Pipeline = ((taken \o items) \o vs) \o <<>>
      <3>1. (taken \o items) \o vs \in Seq(Value)
        BY <1>0, ConcatProperties
      <3> QED BY <1>0, <3>1, ConcatEmptySeq
    <2> QED BY <1>0, <2>1, <2>3, <2>4, CutStep
  <1>6. ASSUME Clear
        PROVE  QueueOrder'
    <2>1. dropped' = dropped \cup Elems(items) /\ UNCHANGED <<offered, refused>>
      BY <1>6 DEF Clear
    <2>2. CASE closed
      <3>1. writers = <<>>
        BY <2>2 DEF ParkedOnlyWhenBlocked
      <3>2. items' = <<>> /\ UNCHANGED <<writers, taken>>
        BY <1>6, <2>2 DEF Clear
      <3>3. vs = <<>> /\ ValuesOf(writers)' = <<>>
        BY <3>1, <3>2 DEF ValuesOf, vs
      <3>4. Pipeline' = taken \o <<>>
        <4>1. Pipeline' = (taken \o <<>>) \o <<>>
          BY <3>2, <3>3 DEF Pipeline
        <4> QED BY <1>0, <4>1, ConcatEmptySeq
      <3> QED BY <1>0, <2>1, <3>3, <3>4, CutStep
    <2>3. CASE ~closed
      <3>1. AdmitWriters(Len(writers), <<>>, taken) /\ Len(writers) \in Nat
        BY <1>6, <2>3 DEF Clear, TypeOK
      <3>2. Pipeline' = (taken \o <<>>) \o vs
        BY <1>0, <3>1, Admitted DEF vs
      <3>3. Pipeline' = taken \o vs
        BY <1>0, <3>2, ConcatEmptySeq
      <3> QED BY <1>0, <2>1, <3>3, CutStep
    <2> QED BY <2>2, <2>3
  <1>7. CASE UNCHANGED vars
    BY <1>7, PipelineUnchanged, SameStep DEF vars
  <1> QED BY <1>1, <1>2, <1>3, <1>4, <1>5, <1>6, <1>7 DEF Next

LEMMA OrderInvariant == Spec => []QueueOrder
  <1>1. Init => QueueOrder
    <2> SUFFICES ASSUME Init PROVE QueueOrder
      OBVIOUS
    <2>1. Pipeline = <<>>
      BY DEF Init, Pipeline, ValuesOf
    <2>2. 1 .. offered = {} /\ Elems(Pipeline) = {} /\ Len(Pipeline) = 0
      BY <2>1 DEF Init, Elems
    <2> QED BY <2>2 DEF Init, QueueOrder, CallOrder, OneFate
  <1> QED BY <1>1, TypeCorrect, NoLostWakeup, OrderStep, PTL DEF Spec

\* Aborts, clears, closes and direct hand-overs never let a later push call
\* overtake an earlier one, whatever the capacity and the callers.
THEOREM CallOrderTheorem == Spec => []CallOrder
  BY OrderInvariant, PTL DEF QueueOrder

\* Every value offered is delivered, buffered or parked, or else discarded by
\* clear() or refused, and only one of these.
THEOREM AccountedTheorem == Spec => []Accounted
  BY TypeCorrect, OrderInvariant, PTL DEF QueueOrder, Accounted
=============================================================================
