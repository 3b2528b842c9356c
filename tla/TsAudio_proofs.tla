--------------------------- MODULE TsAudio_proofs ---------------------------
(***************************************************************************)
(* Proofs about TsAudio, for every frame size, every queue capacity and any *)
(* number of reads, writes and frames: the write() calls reach the wire as  *)
(* one ordered byte stream (WritesInOrder), reads neither lose, repeat nor  *)
(* reorder a byte (ReadsExact), and at most one frame outlives a clear()    *)
(* (ClearLeavesOneFrame).                                                   *)
(***************************************************************************)
EXTENDS TsAudio, SequenceTheorems, TLAPS

-----------------------------------------------------------------------------
(* The inductive invariant *)

FrameNos == 1 .. MaxFrames
Offered == 1 .. MaxOffered

Before(s, t) == \A x \in Elems(s), y \in Elems(t) : x < y

\* The write() calls in ws wait for their turn behind the stream st: in order,
\* complete, and what was refused is in neither.
All(ws) == UNION {Elems(ws[i]) : i \in 1 .. Len(ws)}
Accounts(st, ws, ref, n) ==
    /\ IsOrdered(st)
    /\ \A k \in 1 .. Len(ws) : IsOrdered(ws[k]) /\ Before(st, ws[k])
    /\ \A k, l \in 1 .. Len(ws) : k < l => Before(ws[k], ws[l])
    /\ Elems(st) \cup ref \cup All(ws) = 1 .. n
    /\ Elems(st) \cap ref = {} /\ All(ws) \cap ref = {}

\* What is on the wire and what follows it there.
Stream == wire \o (IF writing THEN active ELSE partial)

WriteInv ==
    /\ closing # "no" => closed
    /\ ~torn /\ closing # "done" => Accounts(Stream, writes, refused, offered)

\* The pump holds a frame exactly while it is parked, which it is only behind
\* a full queue; a read is parked only when there is nothing for it.
PumpInv ==
    /\ pump = "push" <=> held # 0
    /\ pump = "push" /\ ~closed => Len(inbound) = QueueFrames
    /\ ended /\ ~closed => pump = "done"
    /\ bound = "none" => pump = "off"
    /\ parked => reads # <<>> /\ current = <<>> /\ inbound = <<>> /\ held = 0 /\ ~ended

\* The frames between the channel and the reader, and the bytes taken from
\* earlier ones: the frames are in order wherever they are, and the bytes
\* precede them.
Hand == IF held = 0 THEN <<>> ELSE <<held>>
Ahead == inbound \o Hand \o channel
Taken == delivered \o current

InOrder(n, fs, bs) ==
    /\ IsOrdered(fs) /\ Elems(fs) \subseteq 1 .. n
    /\ IsOrdered(bs)
    /\ \A b \in Elems(bs) : b <= n * FrameBytes /\ \A f \in Elems(fs) : b <= (f - 1) * FrameBytes
OrderInv == InOrder(received, Ahead, Taken)

\* Until close() every byte received is accounted for.
CountInv ==
    ~closed => Len(Taken) + Len(Ahead) * FrameBytes + cleared = received * FrameBytes

-----------------------------------------------------------------------------
(* Sequences of numbers *)

LEMMA TailType ==
    ASSUME NEW S, NEW s \in Seq(S), s # <<>>
    PROVE  /\ Len(s) \in Nat /\ Len(s) >= 1
           /\ Head(s) \in S /\ Head(s) = s[1]
           /\ Tail(s) \in Seq(S) /\ Len(Tail(s)) = Len(s) - 1
           /\ \A i \in 1 .. Len(Tail(s)) : Tail(s)[i] = s[i + 1]
  <1>1. Len(s) \in Nat /\ Len(s) >= 1
    BY EmptySeq, LenProperties
  <1>2. Head(s) \in S /\ Tail(s) \in Seq(S)
    BY HeadTailProperties
  <1>3. Head(s) = s[1] /\ Len(Tail(s)) = Len(s) - 1 /\ \A i \in 1 .. Len(Tail(s)) : Tail(s)[i] = s[i + 1]
    BY <1>1, HeadTailProperties
  <1> QED BY <1>1, <1>2, <1>3

\* The elements of a joined sequence, and when it is in order.
LEMMA Joined ==
    \A s, t \in Seq(Int) :
      /\ s \o t \in Seq(Int) /\ Len(s \o t) = Len(s) + Len(t)
      /\ Elems(s \o t) = Elems(s) \cup Elems(t)
      /\ IsOrdered(s \o t) <=> IsOrdered(s) /\ IsOrdered(t) /\ Before(s, t)
  <1> SUFFICES ASSUME NEW s \in Seq(Int), NEW t \in Seq(Int)
               PROVE  /\ s \o t \in Seq(Int) /\ Len(s \o t) = Len(s) + Len(t)
                      /\ Elems(s \o t) = Elems(s) \cup Elems(t)
                      /\ IsOrdered(s \o t) <=> IsOrdered(s) /\ IsOrdered(t) /\ Before(s, t)
    OBVIOUS
  <1> DEFINE u == s \o t
  <1>1. /\ u \in Seq(Int) /\ Len(u) = Len(s) + Len(t) /\ Len(s) \in Nat /\ Len(t) \in Nat
        /\ \A i \in 1 .. Len(u) : u[i] = IF i <= Len(s) THEN s[i] ELSE t[i - Len(s)]
    BY ConcatProperties, LenProperties
  <1> HIDE DEF u
  <1>2. \A i \in 1 .. Len(s) : i \in 1 .. Len(u) /\ u[i] = s[i]
    BY <1>1
  <1>3. \A i \in 1 .. Len(t) : Len(s) + i \in 1 .. Len(u) /\ u[Len(s) + i] = t[i]
    <2> SUFFICES ASSUME NEW i \in 1 .. Len(t) PROVE Len(s) + i \in 1 .. Len(u) /\ u[Len(s) + i] = t[i]
      OBVIOUS
    <2>1. Len(s) + i \in 1 .. Len(u) /\ ~(Len(s) + i <= Len(s)) /\ (Len(s) + i) - Len(s) = i
      BY <1>1
    <2> QED BY <1>1, <2>1
  <1>4. \A i \in 1 .. Len(u) : \/ i \in 1 .. Len(s) /\ u[i] = s[i]
                               \/ i > Len(s) /\ i - Len(s) \in 1 .. Len(t) /\ u[i] = t[i - Len(s)]
    BY <1>1
  <1>5. Elems(u) = Elems(s) \cup Elems(t)
    <2>1. Elems(u) \subseteq Elems(s) \cup Elems(t)
      BY <1>4 DEF Elems
    <2>2. Elems(s) \subseteq Elems(u)
      BY <1>2 DEF Elems
    <2>3. Elems(t) \subseteq Elems(u)
      BY <1>3 DEF Elems
    <2> QED BY <2>1, <2>2, <2>3
  <1>6. ASSUME IsOrdered(u) PROVE IsOrdered(s) /\ IsOrdered(t) /\ Before(s, t)
    <2>1. IsOrdered(s)
      BY <1>2, <1>6 DEF IsOrdered
    <2>2. IsOrdered(t)
      <3> SUFFICES ASSUME NEW i \in 1 .. Len(t), NEW j \in 1 .. Len(t), i < j PROVE t[i] < t[j]
        BY DEF IsOrdered
      <3>1. Len(s) + i < Len(s) + j
        BY <1>1
      <3> QED BY <1>3, <1>6, <3>1 DEF IsOrdered
    <2>3. Before(s, t)
      <3> SUFFICES ASSUME NEW i \in 1 .. Len(s), NEW j \in 1 .. Len(t) PROVE s[i] < t[j]
        BY DEF Before, Elems
      <3>1. i < Len(s) + j
        BY <1>1
      <3> QED BY <1>2, <1>3, <1>6, <3>1 DEF IsOrdered
    <2> QED BY <2>1, <2>2, <2>3
  <1>7. ASSUME IsOrdered(s), IsOrdered(t), Before(s, t) PROVE IsOrdered(u)
    <2> SUFFICES ASSUME NEW i \in 1 .. Len(u), NEW j \in 1 .. Len(u), i < j PROVE u[i] < u[j]
      BY DEF IsOrdered
    <2>1. CASE i \in 1 .. Len(s) /\ u[i] = s[i] /\ j \in 1 .. Len(s) /\ u[j] = s[j]
      BY <1>7, <2>1 DEF IsOrdered
    <2>2. CASE i \in 1 .. Len(s) /\ u[i] = s[i] /\ j - Len(s) \in 1 .. Len(t) /\ u[j] = t[j - Len(s)]
      BY <1>7, <2>2 DEF Before, Elems
    <2>3. CASE i > Len(s) /\ j \in 1 .. Len(s)
      BY <1>1, <2>3
    <2>4. CASE i - Len(s) \in 1 .. Len(t) /\ u[i] = t[i - Len(s)] /\ j - Len(s) \in 1 .. Len(t) /\ u[j] = t[j - Len(s)]
      <3>1. i - Len(s) < j - Len(s)
        BY <1>1
      <3> QED BY <1>7, <2>4, <3>1 DEF IsOrdered
    <2> QED BY <1>4, <2>1, <2>2, <2>3, <2>4
  <1> QED BY <1>1, <1>5, <1>6, <1>7 DEF u

LEMMA Short ==
    /\ <<>> \in Seq(Int) /\ Len(<<>>) = 0 /\ Elems(<<>>) = {} /\ IsOrdered(<<>>)
    /\ \A x \in Int : /\ <<x>> \in Seq(Int) /\ Len(<<x>>) = 1 /\ Elems(<<x>>) = {x}
                      /\ IsOrdered(<<x>>)
  BY DEF Elems, IsOrdered

LEMMA HeadThenTail ==
    \A s \in Seq(Int) : s # <<>> =>
      Head(s) \in Int /\ Tail(s) \in Seq(Int) /\ Len(Tail(s)) = Len(s) - 1 /\ s = <<Head(s)>> \o Tail(s)
  <1> SUFFICES ASSUME NEW s \in Seq(Int), s # <<>>
               PROVE  /\ Head(s) \in Int /\ Tail(s) \in Seq(Int) /\ Len(Tail(s)) = Len(s) - 1
                      /\ s = <<Head(s)>> \o Tail(s)
    OBVIOUS
  <1>1. Len(s) \in Nat /\ Len(s) >= 1 /\ Head(s) \in Int /\ Head(s) = s[1] /\ Tail(s) \in Seq(Int)
        /\ Len(Tail(s)) = Len(s) - 1
    BY TailType
  <1>2. SubSeq(s, 1, Len(s)) = <<s[1]>> \o SubSeq(s, 1 + 1, Len(s))
    <2>1. 1 \in 1 .. Len(s) /\ Len(s) \in 1 .. Len(s)
      BY <1>1
    <2> QED BY <2>1, SubSeqRecursiveFirst
  <1>3. SubSeq(s, 1, Len(s)) = s /\ Tail(s) = SubSeq(s, 2, Len(s))
    BY SubSeqFull, TailIsSubSeq
  <1>4. SubSeq(s, 1 + 1, Len(s)) = SubSeq(s, 2, Len(s))
    OBVIOUS
  <1> QED BY <1>1, <1>2, <1>3, <1>4

\* Joining is associative, with names for the two groupings.
Three(s, t, u) == (s \o t) \o u
OneTwo(s, t, u) == s \o (t \o u)
LEMMA Associative == \A s, t, u \in Seq(Int) : Three(s, t, u) = OneTwo(s, t, u)
  <1> SUFFICES ASSUME NEW s \in Seq(Int), NEW t \in Seq(Int), NEW u \in Seq(Int)
               PROVE  (s \o t) \o u = s \o (t \o u)
    BY Zenon DEF Three, OneTwo
  <1> QED OBVIOUS

LEMMA NatAssociative == \A s, t, u \in Seq(Nat) : Three(s, t, u) = OneTwo(s, t, u)
  <1> SUFFICES ASSUME NEW s \in Seq(Nat), NEW t \in Seq(Nat), NEW u \in Seq(Nat)
               PROVE  (s \o t) \o u = s \o (t \o u)
    BY Zenon DEF Three, OneTwo
  <1> QED OBVIOUS

First(x, s) == <<x>> \o s
LEMMA FirstOfThree ==
    \A x \in Int : \A t, u, v \in Seq(Int) : Three(First(x, t), u, v) = First(x, Three(t, u, v))
  <1> SUFFICES ASSUME NEW x \in Int, NEW t \in Seq(Int), NEW u \in Seq(Int), NEW v \in Seq(Int)
               PROVE  Three(First(x, t), u, v) = First(x, Three(t, u, v))
    BY Zenon
  <1>0. <<x>> \in Seq(Int) /\ t \o u \in Seq(Int)
    BY Short, Joined
  <1>1. Three(<<x>>, t, u) = OneTwo(<<x>>, t, u) /\ Three(<<x>>, t \o u, v) = OneTwo(<<x>>, t \o u, v)
    BY <1>0, Associative
  <1> QED BY <1>1, Zenon DEF Three, OneTwo, First

LEMMA Neutral == \A s \in Seq(Int) : s \o <<>> = s /\ <<>> \o s = s
  BY ConcatEmptySeq

LEMMA Appended == \A s \in Seq(Int), x \in Int : Append(s, x) = s \o <<x>>
  BY AppendIsConcat

LEMMA Cut ==
    ASSUME NEW S, NEW s \in Seq(S), NEW n \in 0 .. Len(s)
    PROVE  /\ SubSeq(s, 1, n) \in Seq(S) /\ Len(SubSeq(s, 1, n)) = n
           /\ SubSeq(s, n + 1, Len(s)) \in Seq(S) /\ Len(SubSeq(s, n + 1, Len(s))) = Len(s) - n
           /\ SubSeq(s, 1, n) \o SubSeq(s, n + 1, Len(s)) = s
  <1>1. Len(s) \in Nat /\ n \in Nat /\ n <= Len(s) /\ \A i \in 1 .. Len(s) : s[i] \in S
    BY LenProperties, ElementOfSeq
  <1>2. SubSeq(s, 1, n) \in Seq(S) /\ Len(SubSeq(s, 1, n)) = n
    <2>1. \A i \in 1 .. n : s[i] \in S
      BY <1>1
    <2>2. SubSeq(s, 1, n) \in Seq(S) /\ Len(SubSeq(s, 1, n)) = IF 1 <= n THEN n - 1 + 1 ELSE 0
      BY <1>1, <2>1, SubSeqProperties
    <2> QED BY <1>1, <2>2
  <1>3. SubSeq(s, n + 1, Len(s)) \in Seq(S) /\ Len(SubSeq(s, n + 1, Len(s))) = Len(s) - n
    <2>1. (\A i \in n + 1 .. Len(s) : s[i] \in S) /\ n + 1 \in Int /\ Len(s) \in Int
      BY <1>1
    <2>2. \A m \in Int : (\A i \in m .. Len(s) : s[i] \in S) =>
             /\ SubSeq(s, m, Len(s)) \in Seq(S)
             /\ Len(SubSeq(s, m, Len(s))) = IF m <= Len(s) THEN Len(s) - m + 1 ELSE 0
      BY <2>1, SubSeqProperties
    <2>3. /\ SubSeq(s, n + 1, Len(s)) \in Seq(S)
          /\ Len(SubSeq(s, n + 1, Len(s))) = IF n + 1 <= Len(s) THEN Len(s) - (n + 1) + 1 ELSE 0
      BY <2>1, <2>2
    <2> QED BY <1>1, <2>3
  <1>4. SubSeq(s, 1, n) \o SubSeq(s, n + 1, Len(s)) = s
    <2>1. 1 \in 1 .. Len(s) + 1 /\ n \in 1 - 1 .. Len(s) /\ Len(s) \in n .. Len(s)
      BY <1>1
    <2>2. SubSeq(s, 1, n) \o SubSeq(s, n + 1, Len(s)) = SubSeq(s, 1, Len(s))
      BY <2>1, ConcatAdjacentSubSeq
    <2> QED BY <2>2, SubSeqFull
  <1> QED BY <1>2, <1>3, <1>4

\* The bytes of frame k, and their place among all bytes.
LEMMA BytesOfFrame ==
    \A k \in Nat : k # 0 =>
      /\ Bytes(k) \in Seq(Nat) /\ Bytes(k) \in Seq(Int) /\ Len(Bytes(k)) = FrameBytes /\ Bytes(k) # <<>>
      /\ IsOrdered(Bytes(k))
      /\ \A b \in Elems(Bytes(k)) : (k - 1) * FrameBytes < b /\ b <= k * FrameBytes
  <1> SUFFICES ASSUME NEW k \in Nat, k # 0
               PROVE  /\ Bytes(k) \in Seq(Nat) /\ Bytes(k) \in Seq(Int) /\ Len(Bytes(k)) = FrameBytes
                      /\ Bytes(k) # <<>> /\ IsOrdered(Bytes(k))
                      /\ \A b \in Elems(Bytes(k)) : (k - 1) * FrameBytes < b /\ b <= k * FrameBytes
    OBVIOUS
  <1>1. FrameBytes \in Nat /\ FrameBytes >= 1
    BY FormatAssumption
  <1> DEFINE c == (k - 1) * FrameBytes
  <1>2. c \in Nat /\ c + FrameBytes = k * FrameBytes
    BY <1>1
  <1>3. Bytes(k) = [i \in 1 .. FrameBytes |-> c + i]
    BY DEF Bytes
  <1> HIDE DEF c
  <1>4. \A i \in 1 .. FrameBytes : c + i \in Nat
    BY <1>1, <1>2
  <1>5. [i \in 1 .. FrameBytes |-> c + i] \in Seq(Nat)
    BY <1>1, <1>4
  <1>6. Bytes(k) \in Seq(Nat) /\ Bytes(k) \in Seq(Int)
    BY <1>3, <1>5, SeqMonotonic
  <1>7. DOMAIN Bytes(k) = 1 .. FrameBytes /\ Len(Bytes(k)) \in Nat /\ DOMAIN Bytes(k) = 1 .. Len(Bytes(k))
    BY <1>3, <1>6, LenProperties
  <1>8. Len(Bytes(k)) = FrameBytes
    BY <1>1, <1>7
  <1>9. Bytes(k) # <<>>
    BY <1>1, <1>8
  <1>10. \A i \in 1 .. FrameBytes : Bytes(k)[i] = c + i
    BY <1>3
  <1>11. IsOrdered(Bytes(k))
    BY <1>2, <1>8, <1>10 DEF IsOrdered
  <1>12. \A i \in 1 .. FrameBytes : c < c + i /\ c + i <= c + FrameBytes
    BY <1>1, <1>2
  <1>13. \A b \in Elems(Bytes(k)) : c < b /\ b <= c + FrameBytes
    BY <1>8, <1>10, <1>12 DEF Elems
  <1> QED BY <1>2, <1>6, <1>8, <1>9, <1>11, <1>13 DEF c

-----------------------------------------------------------------------------
(* Types, and the parking of reads and the pump *)

LEMMA TypeInit == Init => TypeOK /\ PumpInv
  <1> SUFFICES ASSUME Init PROVE TypeOK /\ PumpInv
    OBVIOUS
  <1>1. FrameBytes \in Nat /\ FrameBytes > 0 /\ QueueFrames \in Nat /\ MaxOffered \in Nat /\ MaxFrames \in Nat
    BY FormatAssumption, AudioBoundsAssumption
  <1>2. closed \in BOOLEAN /\ writing \in BOOLEAN /\ torn \in BOOLEAN /\ ended \in BOOLEAN /\ parked \in BOOLEAN
    BY DEF Init
  <1>3. TypeOK
    BY <1>1, <1>2 DEF Init, TypeOK
  <1>4. PumpInv
    BY DEF Init, PumpInv
  <1> QED BY <1>3, <1>4

\* All the sequences of the model are sequences of numbers.
LEMMA Typed ==
    ASSUME TypeOK
    PROVE  /\ wire \in Seq(Int) /\ active \in Seq(Int) /\ partial \in Seq(Int)
           /\ \A k \in 1 .. Len(writes) : writes[k] \in Seq(Int) /\ writes[k] \in Seq(Offered)
           /\ inbound \in Seq(Int) /\ channel \in Seq(Int) /\ Hand \in Seq(Int) /\ held \in Int
           /\ current \in Seq(Int) /\ delivered \in Seq(Int)
  <1>1. \A S : S \subseteq Int => \A s \in Seq(S) : s \in Seq(Int)
    BY SeqMonotonic
  <1>2. Offered \subseteq Int /\ (1 .. MaxFrames) \subseteq Int /\ Nat \subseteq Int
    BY DEF Offered
  <1>3. wire \in Seq(Int) /\ active \in Seq(Int) /\ partial \in Seq(Int)
    BY <1>1, <1>2 DEF TypeOK, Offered
  <1>4. inbound \in Seq(Int) /\ channel \in Seq(Int) /\ current \in Seq(Int) /\ delivered \in Seq(Int)
    BY <1>1, <1>2 DEF TypeOK
  <1>5. \A k \in 1 .. Len(writes) : writes[k] \in Seq(Offered)
    BY ElementOfSeq DEF TypeOK, Offered
  <1>6. held \in Int
    BY DEF TypeOK
  <1>7. Hand \in Seq(Int)
    BY <1>6, Short DEF Hand
  <1> QED BY <1>1, <1>2, <1>3, <1>4, <1>5, <1>6, <1>7

\* A read returns the first bytes of bs and leaves the rest: nothing is lost
\* between the two.
LEMMA DeliverEffect ==
    ASSUME TypeOK, reads # <<>>, NEW bs \in Seq(Nat), bs # <<>>, Len(bs) <= FrameBytes, Deliver(bs)
    PROVE  /\ delivered' \in Seq(Nat) /\ current' \in Seq(Nat) /\ Len(current') < FrameBytes
           /\ reads' \in Seq(1 .. FrameBytes) /\ parked' = FALSE
           /\ delivered' \o current' = delivered \o bs
  <1> DEFINE n == IF Head(reads) <= Len(bs) THEN Head(reads) ELSE Len(bs)
  <1>1. Head(reads) \in 1 .. FrameBytes /\ Tail(reads) \in Seq(1 .. FrameBytes)
    BY TailType DEF TypeOK
  <1>2. Len(bs) \in Nat /\ Len(bs) >= 1
    BY TailType
  <1>3. n \in Nat /\ n >= 1 /\ n \in 0 .. Len(bs) /\ FrameBytes \in Nat
    BY <1>1, <1>2, FormatAssumption
  <1>4. /\ delivered' = delivered \o SubSeq(bs, 1, n) /\ current' = SubSeq(bs, n + 1, Len(bs))
        /\ reads' = Tail(reads) /\ parked' = FALSE
    BY DEF Deliver
  <1> HIDE DEF n
  <1>5. /\ SubSeq(bs, 1, n) \in Seq(Nat) /\ SubSeq(bs, n + 1, Len(bs)) \in Seq(Nat)
        /\ Len(SubSeq(bs, n + 1, Len(bs))) = Len(bs) - n
        /\ SubSeq(bs, 1, n) \o SubSeq(bs, n + 1, Len(bs)) = bs
    BY <1>3, Cut
  <1>6. delivered' \in Seq(Nat)
    <2>1. \A s, t \in Seq(Nat) : s \o t \in Seq(Nat)
      BY ConcatProperties
    <2> QED BY <1>4, <1>5, <2>1 DEF TypeOK
  <1>7. Len(current') < FrameBytes
    BY <1>2, <1>3, <1>4, <1>5
  <1>8. delivered' \o current' = delivered \o bs
    <2>2. (delivered \o SubSeq(bs, 1, n)) \o SubSeq(bs, n + 1, Len(bs)) =
             delivered \o (SubSeq(bs, 1, n) \o SubSeq(bs, n + 1, Len(bs)))
      <3>1. delivered \in Seq(Nat)
        BY DEF TypeOK
      <3>2. Three(delivered, SubSeq(bs, 1, n), SubSeq(bs, n + 1, Len(bs))) = OneTwo(delivered, SubSeq(bs, 1, n), SubSeq(bs, n + 1, Len(bs)))
        BY <1>5, <3>1, NatAssociative
      <3> QED BY <3>2 DEF Three, OneTwo
    <2> QED BY <1>4, <1>5, <2>2
  <1> QED BY <1>1, <1>4, <1>5, <1>6, <1>7, <1>8

LEMMA WriteTypeStep ==
    ASSUME TypeOK, [Next]_vars
    PROVE  /\ bound' \in {"none", "frames", "native"}
           /\ closed' \in BOOLEAN /\ closing' \in {"no", "channel", "pump", "done"}
           /\ writes' \in Seq(Seq(Offered)) /\ active' \in Seq(Offered)
           /\ writing' \in BOOLEAN /\ torn' \in BOOLEAN
           /\ partial' \in Seq(Offered) /\ Len(partial') < FrameBytes
           /\ offered' \in 0 .. MaxOffered
           /\ wire' \in Seq(Offered) /\ refused' \subseteq Offered
  <1> USE DEF vars, writeVars, readVars
  <1> DEFINE Goal ==
           /\ bound' \in {"none", "frames", "native"}
           /\ closed' \in BOOLEAN /\ closing' \in {"no", "channel", "pump", "done"}
           /\ writes' \in Seq(Seq(Offered)) /\ active' \in Seq(Offered)
           /\ writing' \in BOOLEAN /\ torn' \in BOOLEAN
           /\ partial' \in Seq(Offered) /\ Len(partial') < FrameBytes
           /\ offered' \in 0 .. MaxOffered
           /\ wire' \in Seq(Offered) /\ refused' \subseteq Offered
  <1>0. /\ bound \in {"none", "frames", "native"}
        /\ closed \in BOOLEAN /\ closing \in {"no", "channel", "pump", "done"}
        /\ writes \in Seq(Seq(Offered)) /\ active \in Seq(Offered)
        /\ writing \in BOOLEAN /\ torn \in BOOLEAN
        /\ partial \in Seq(Offered) /\ Len(partial) < FrameBytes
        /\ offered \in 0 .. MaxOffered
        /\ wire \in Seq(Offered) /\ refused \subseteq Offered
    BY DEF TypeOK, Offered
  <1>00. FrameBytes \in Nat /\ FrameBytes > 0 /\ MaxOffered \in Nat /\ MaxWrite \in Nat /\ <<>> \in Seq(Offered) /\ Len(<<>>) = 0
    BY FormatAssumption, AudioBoundsAssumption
  <1>1. ASSUME UNCHANGED <<bound, closed, closing, writeVars>> PROVE Goal
    BY <1>0, <1>1
  <1>2. CASE \E mode \in {"frames", "native"} : Bind(mode)
    BY <1>0, <1>2 DEF Bind
  <1>3. ASSUME NEW n \in 1 .. MaxWrite, Write(n) PROVE Goal
    <2>1. offered + n \in 0 .. MaxOffered /\ \A i \in 1 .. n : offered + i \in Offered
      BY <1>0, <1>00, <1>3 DEF Write, Offered
    <2>2. [i \in 1 .. n |-> offered + i] \in Seq(Offered)
      BY <1>00, <2>1
    <2>3. Append(writes, [i \in 1 .. n |-> offered + i]) \in Seq(Seq(Offered))
      <3>1. \A s \in Seq(Offered) : Append(writes, s) \in Seq(Seq(Offered))
        BY <1>0, AppendProperties
      <3> QED BY <2>2, <3>1
    <2>4. /\ writes' = Append(writes, [i \in 1 .. n |-> offered + i]) /\ offered' = offered + n
          /\ UNCHANGED <<bound, closed, closing, active, writing, partial, wire, refused, torn>>
      BY <1>3 DEF Write
    <2> QED BY <1>0, <2>1, <2>3, <2>4
  <1>4. ASSUME writes # <<>> PROVE Tail(writes) \in Seq(Seq(Offered)) /\ Head(writes) \in Seq(Offered)
    BY <1>0, <1>4, HeadTailProperties
  <1>5. CASE WriteBegins
    <2>1. partial \o Head(writes) \in Seq(Offered)
      <3>1. \A s, t \in Seq(Offered) : s \o t \in Seq(Offered)
        BY ConcatProperties
      <3> QED BY <1>0, <1>4, <1>5, <3>1 DEF WriteBegins
    <2> QED BY <1>0, <1>4, <1>5, <2>1 DEF WriteBegins
  <1>6. CASE WriteRefused
    <2>1. Tail(writes) \in Seq(Seq(Offered)) /\ Head(writes) \in Seq(Offered)
      BY <1>4, <1>6 DEF WriteRefused
    <2>2. \A i \in 1 .. Len(Head(writes)) : Head(writes)[i] \in Offered
      <3>1. \A s \in Seq(Offered) : \A i \in 1 .. Len(s) : s[i] \in Offered
        BY ElementOfSeq
      <3> QED BY <2>1, <3>1
    <2>3. refused' \subseteq Offered
      BY <1>0, <1>6, <2>2 DEF WriteRefused
    <2> QED BY <1>0, <1>6, <2>1, <2>3 DEF WriteRefused
  <1>7. CASE FrameWritten
    <2>1. FrameBytes \in 0 .. Len(active)
      <3>1. Len(active) \in Nat /\ Len(active) >= FrameBytes
        BY <1>0, <1>7, LenProperties DEF FrameWritten
      <3> QED BY <1>00, <3>1
    <2>2. SubSeq(active, 1, FrameBytes) \in Seq(Offered) /\ SubSeq(active, FrameBytes + 1, Len(active)) \in Seq(Offered)
      BY <1>0, <2>1, Cut
    <2>3. wire \o SubSeq(active, 1, FrameBytes) \in Seq(Offered)
      <3>1. \A s, t \in Seq(Offered) : s \o t \in Seq(Offered)
        BY ConcatProperties
      <3> QED BY <1>0, <2>2, <3>1
    <2> QED BY <1>0, <1>7, <2>2, <2>3 DEF FrameWritten
  <1>8. CASE WriteFails \/ WriteReturns
    BY <1>0, <1>00, <1>8 DEF WriteFails, WriteReturns
  <1>9. CASE Close \/ ChannelClosed \/ CloseReturns
    BY <1>0, <1>00, <1>9 DEF Close, ChannelClosed, CloseReturns
  <1>10. CASE FrameReceived \/ PumpReceives \/ PumpFails \/ PumpAborted
    BY <1>1, <1>10 DEF FrameReceived, PumpReceives, PumpFails, PumpAborted
  <1>11. CASE (\E n \in 1 .. FrameBytes : Read(n)) \/ (\E abort \in BOOLEAN : ReadRejected(abort))
    BY <1>1, <1>11 DEF Read, ReadRejected
  <1>12. CASE ReadTakes \/ ReadParks \/ Clear \/ UNCHANGED vars
    BY <1>1, <1>12 DEF ReadTakes, ReadParks, Clear
  <1> QED
    BY <1>2, <1>3, <1>5, <1>6, <1>7, <1>8, <1>9, <1>10, <1>11, <1>12 DEF Next

LEMMA ReadTypeStep ==
    ASSUME TypeOK, PumpInv, [Next]_vars
    PROVE  /\ received' \in 0 .. MaxFrames /\ channel' \in Seq(FrameNos)
           /\ pump' \in {"off", "receive", "push", "done"} /\ held' \in 0 .. MaxFrames
           /\ inbound' \in Seq(FrameNos) /\ Len(inbound') <= QueueFrames
           /\ ended' \in BOOLEAN /\ parked' \in BOOLEAN
           /\ current' \in Seq(Nat) /\ Len(current') < FrameBytes
           /\ reads' \in Seq(1 .. FrameBytes)
           /\ delivered' \in Seq(Nat) /\ cleared' \in Nat
  <1> USE DEF vars, writeVars, readVars
  <1> DEFINE Goal ==
           /\ received' \in 0 .. MaxFrames /\ channel' \in Seq(FrameNos)
           /\ pump' \in {"off", "receive", "push", "done"} /\ held' \in 0 .. MaxFrames
           /\ inbound' \in Seq(FrameNos) /\ Len(inbound') <= QueueFrames
           /\ ended' \in BOOLEAN /\ parked' \in BOOLEAN
           /\ current' \in Seq(Nat) /\ Len(current') < FrameBytes
           /\ reads' \in Seq(1 .. FrameBytes)
           /\ delivered' \in Seq(Nat) /\ cleared' \in Nat
  <1>0. /\ received \in 0 .. MaxFrames /\ channel \in Seq(FrameNos)
        /\ pump \in {"off", "receive", "push", "done"} /\ held \in 0 .. MaxFrames
        /\ inbound \in Seq(FrameNos) /\ Len(inbound) <= QueueFrames
        /\ ended \in BOOLEAN /\ parked \in BOOLEAN
        /\ current \in Seq(Nat) /\ Len(current) < FrameBytes
        /\ reads \in Seq(1 .. FrameBytes)
        /\ delivered \in Seq(Nat) /\ cleared \in Nat
    BY DEF TypeOK, FrameNos
  <1>00. /\ FrameBytes \in Nat /\ FrameBytes > 0 /\ QueueFrames \in Nat /\ QueueFrames > 0 /\ MaxFrames \in Nat
         /\ Len(inbound) \in Nat /\ Len(channel) \in Nat /\ Len(current) \in Nat
    BY <1>0, FormatAssumption, AudioBoundsAssumption, LenProperties
  <1>01. /\ \A s \in Seq(FrameNos), x \in FrameNos : Append(s, x) \in Seq(FrameNos) /\ Len(Append(s, x)) = Len(s) + 1
         /\ \A s \in Seq(FrameNos) : s # <<>> => Tail(s) \in Seq(FrameNos) /\ Head(s) \in FrameNos /\ Len(Tail(s)) = Len(s) - 1
    BY AppendProperties, HeadTailProperties
  <1>02. /\ \A s \in Seq(1 .. FrameBytes) : s # <<>> => Tail(s) \in Seq(1 .. FrameBytes)
         /\ \A s \in Seq(1 .. FrameBytes), x \in 1 .. FrameBytes : Append(s, x) \in Seq(1 .. FrameBytes)
    BY AppendProperties, HeadTailProperties
  <1>03. \A k \in FrameNos : /\ Bytes(k) \in Seq(Nat) /\ Len(Bytes(k)) <= FrameBytes /\ Bytes(k) # <<>>
    <2>1. \A k \in FrameNos : k \in Nat /\ k # 0
      BY DEF FrameNos
    <2>2. FrameBytes <= FrameBytes
      BY <1>00
    <2> QED BY <2>1, <2>2, BytesOfFrame
  <1>04. <<>> \in Seq(FrameNos) /\ Len(<<>>) = 0 /\ (\A x \in FrameNos : <<x>> \in Seq(FrameNos) /\ Len(<<x>>) = 1) /\ <<>> \in Seq(Nat)
    OBVIOUS
  <1>05. pump = "push" => held \in FrameNos
    BY <1>0, <1>00 DEF PumpInv, FrameNos
  <1>06. \A n \in Nat : (n - 1) + 1 = n
    OBVIOUS
  <1>1. ASSUME UNCHANGED readVars PROVE Goal
    BY <1>0, <1>1
  <1>2. CASE \E mode \in {"frames", "native"} : Bind(mode)
    BY <1>0, <1>2 DEF Bind
  <1>3. CASE FrameReceived
    <2>1. received + 1 \in FrameNos /\ received + 1 \in 0 .. MaxFrames
      BY <1>0, <1>00, <1>3 DEF FrameReceived, FrameNos
    <2>2. Append(channel, received + 1) \in Seq(FrameNos)
      BY <1>0, <1>01, <2>1
    <2> QED BY <1>0, <1>3, <2>1, <2>2 DEF FrameReceived
  <1>4. CASE PumpReceives
    <2>1. /\ channel # <<>> /\ channel' = Tail(channel) /\ UNCHANGED <<received, ended, cleared>>
          /\ pump = "receive"
      BY <1>4 DEF PumpReceives
    <2>2. Head(channel) \in FrameNos /\ Tail(channel) \in Seq(FrameNos)
      BY <1>0, <1>01, <2>1
    <2>3. CASE parked
      <3>1. Deliver(Bytes(Head(channel))) /\ UNCHANGED <<pump, held, inbound>> /\ reads # <<>>
        BY <1>4, <2>3 DEF PumpReceives, PumpInv
      <3>2. /\ Bytes(Head(channel)) \in Seq(Nat) /\ Len(Bytes(Head(channel))) <= FrameBytes
            /\ Bytes(Head(channel)) # <<>>
        BY <1>03, <2>2
      <3>3. /\ delivered' \in Seq(Nat) /\ current' \in Seq(Nat) /\ Len(current') < FrameBytes
            /\ reads' \in Seq(1 .. FrameBytes) /\ parked' = FALSE
        BY <3>1, <3>2, DeliverEffect
      <3> QED BY <1>0, <2>1, <2>2, <3>1, <3>3
    <2>4. CASE ~parked /\ Len(inbound) < QueueFrames
      <3>1. inbound' = Append(inbound, Head(channel)) /\ UNCHANGED <<pump, held, current, reads, parked, delivered>>
        BY <1>4, <2>4 DEF PumpReceives
      <3>2. inbound' \in Seq(FrameNos) /\ Len(inbound') = Len(inbound) + 1
        BY <1>0, <1>01, <2>2, <3>1
      <3>3. Len(inbound') <= QueueFrames
        BY <1>00, <2>4, <3>2
      <3> QED BY <1>0, <2>1, <2>2, <3>1, <3>2, <3>3
    <2>5. CASE ~parked /\ ~(Len(inbound) < QueueFrames)
      <3>1. pump' = "push" /\ held' = Head(channel) /\ UNCHANGED <<inbound, current, reads, parked, delivered>>
        BY <1>4, <2>5 DEF PumpReceives
      <3>2. held' \in 0 .. MaxFrames
        BY <2>2, <3>1 DEF FrameNos
      <3> QED BY <1>0, <2>1, <2>2, <3>1, <3>2
    <2> QED BY <2>3, <2>4, <2>5
  <1>5. CASE PumpFails
    BY <1>0, <1>02, <1>5 DEF PumpFails, PumpInv
  <1>6. CASE PumpAborted
    BY <1>0, <1>00, <1>6 DEF PumpAborted
  <1>7. CASE \E n \in 1 .. FrameBytes : Read(n)
    BY <1>0, <1>02, <1>7 DEF Read
  <1>8. CASE ReadTakes
    <2>1. reads # <<>> /\ ~parked /\ UNCHANGED <<received, channel, ended, cleared>>
      BY <1>8 DEF ReadTakes
    <2>2. CASE current # <<>> /\ Deliver(current) /\ UNCHANGED <<inbound, pump, held>>
      <3>1. Len(current) <= FrameBytes
        BY <1>0, <1>00
      <3>2. /\ delivered' \in Seq(Nat) /\ current' \in Seq(Nat) /\ Len(current') < FrameBytes
            /\ reads' \in Seq(1 .. FrameBytes) /\ parked' = FALSE
        BY <1>0, <2>1, <2>2, <3>1, DeliverEffect
      <3> QED BY <1>0, <2>1, <2>2, <3>2
    <2>3. CASE /\ current = <<>> /\ inbound # <<>> /\ Deliver(Bytes(Head(inbound)))
               /\ inbound' = IF pump = "push" THEN Append(Tail(inbound), held) ELSE Tail(inbound)
               /\ pump' = IF pump = "push" THEN "receive" ELSE pump
               /\ held' = 0
      <3>1. Head(inbound) \in FrameNos /\ Tail(inbound) \in Seq(FrameNos) /\ Len(Tail(inbound)) = Len(inbound) - 1
        BY <1>0, <1>01, <2>3
      <3>2. /\ Bytes(Head(inbound)) \in Seq(Nat) /\ Len(Bytes(Head(inbound))) <= FrameBytes
            /\ Bytes(Head(inbound)) # <<>>
        BY <1>03, <3>1
      <3>3. /\ delivered' \in Seq(Nat) /\ current' \in Seq(Nat) /\ Len(current') < FrameBytes
            /\ reads' \in Seq(1 .. FrameBytes) /\ parked' = FALSE
        BY <2>1, <2>3, <3>2, DeliverEffect
      <3>4. inbound' \in Seq(FrameNos) /\ (Len(inbound') = Len(inbound) \/ Len(inbound') = Len(inbound) - 1)
        <4>1. CASE pump = "push"
          <5>1. inbound' \in Seq(FrameNos) /\ Len(inbound') = Len(Tail(inbound)) + 1
            <6>1. inbound' = Append(Tail(inbound), held)
              BY <2>3, <4>1, Zenon
            <6>2. held \in FrameNos
              BY <1>05, <4>1, Zenon
            <6> QED BY <1>01, <3>1, <6>1, <6>2, Zenon
          <5> QED BY <1>00, <1>06, <3>1, <5>1
        <4>2. CASE pump # "push"
          BY <2>3, <3>1, <4>2
        <4> QED BY <4>1, <4>2
      <3>5. Len(inbound') <= QueueFrames
        BY <1>0, <1>00, <3>4
      <3>6. pump' \in {"off", "receive", "push", "done"} /\ held' \in 0 .. MaxFrames
        BY <1>0, <1>00, <2>3
      <3> QED BY <1>0, <2>1, <3>3, <3>4, <3>5, <3>6
    <2> QED BY <1>8, <2>2, <2>3 DEF ReadTakes
  <1>9. CASE ReadParks
    BY <1>0, <1>9 DEF ReadParks
  <1>10. CASE \E abort \in BOOLEAN : ReadRejected(abort)
    BY <1>0, <1>02, <1>10 DEF ReadRejected
  <1>11. CASE Clear
    <2>1. /\ cleared' = cleared + Buffered + Len(channel) * FrameBytes
          /\ current' = <<>> /\ channel' = <<>>
          /\ UNCHANGED <<received, ended, reads, parked, delivered>>
      BY <1>11 DEF Clear
    <2>2. cleared' \in Nat
      <3>1. \A m, n \in Nat : m * n \in Nat /\ m + n \in Nat
        OBVIOUS
      <3>2. Buffered \in Nat /\ Len(channel) * FrameBytes \in Nat
        BY <1>00, <3>1 DEF Buffered
      <3>3. cleared + Buffered \in Nat
        BY <1>0, <3>1, <3>2
      <3> HIDE DEF Goal
      <3> QED BY <2>1, <3>1, <3>2, <3>3
    <2>3. /\ inbound' \in Seq(FrameNos) /\ Len(inbound') <= QueueFrames
          /\ pump' \in {"off", "receive", "push", "done"} /\ held' \in 0 .. MaxFrames
      <3>1. CASE pump = "push" /\ ~ended
        <4>1. inbound' = <<held>> /\ pump' = "receive" /\ held' = 0
          BY <1>11, <3>1 DEF Clear
        <4> QED BY <1>00, <1>04, <1>05, <3>1, <4>1
      <3>2. CASE ~(pump = "push" /\ ~ended)
        <4>1. inbound' = <<>> /\ UNCHANGED <<pump, held>>
          BY <1>11, <3>2 DEF Clear
        <4> QED BY <1>0, <1>00, <1>04, <4>1
      <3> QED BY <3>1, <3>2
    <2> QED BY <1>0, <1>00, <1>04, <2>1, <2>2, <2>3
  <1>12. CASE Close
    <2>1. ended' \in BOOLEAN /\ parked' = FALSE
      BY <1>12 DEF Close
    <2>2. reads' \in Seq(1 .. FrameBytes)
      BY <1>0, <1>02, <1>12 DEF Close, PumpInv
    <2> QED BY <1>0, <1>12, <2>1, <2>2 DEF Close
  <1>13. CASE (\E n \in 1 .. MaxWrite : Write(n)) \/ WriteBegins \/ WriteRefused \/ FrameWritten
    BY <1>1, <1>13 DEF Write, WriteBegins, WriteRefused, FrameWritten
  <1>14. CASE WriteFails \/ WriteReturns \/ ChannelClosed \/ CloseReturns \/ UNCHANGED vars
    BY <1>1, <1>14 DEF WriteFails, WriteReturns, ChannelClosed, CloseReturns
  <1> QED
    BY <1>2, <1>3, <1>4, <1>5, <1>6, <1>7, <1>8, <1>9, <1>10, <1>11, <1>12, <1>13, <1>14 DEF Next

LEMMA TypeStep == TypeOK /\ PumpInv /\ [Next]_vars => TypeOK'
  <1> SUFFICES ASSUME TypeOK, PumpInv, [Next]_vars PROVE TypeOK'
    OBVIOUS
  <1> QED BY WriteTypeStep, ReadTypeStep DEF TypeOK, Offered, FrameNos

LEMMA PumpStep == TypeOK /\ PumpInv /\ [Next]_vars => PumpInv'
  <1> SUFFICES ASSUME TypeOK, PumpInv, [Next]_vars PROVE PumpInv'
    OBVIOUS
  <1> USE DEF vars, writeVars, readVars
  <1>0. /\ QueueFrames \in Nat /\ QueueFrames > 0 /\ Len(inbound) \in Nat /\ Len(inbound) <= QueueFrames
        /\ Len(<<>>) = 0
    BY FormatAssumption, LenProperties DEF TypeOK
  <1>1. ASSUME UNCHANGED <<bound, closed, readVars>> PROVE PumpInv'
    BY <1>1 DEF PumpInv
  <1>2. CASE \E mode \in {"frames", "native"} : Bind(mode)
    BY <1>2 DEF Bind, PumpInv
  <1>3. CASE FrameReceived
    BY <1>3 DEF FrameReceived, PumpInv
  <1>4. CASE PumpReceives
    <2>1. /\ channel # <<>> /\ UNCHANGED <<bound, closed, ended>> /\ pump = "receive" /\ ~closed /\ held = 0
          /\ ~ended /\ bound # "none"
      BY <1>4 DEF PumpReceives, PumpInv
    <2>2. CASE parked
      <3>1. Deliver(Bytes(Head(channel))) /\ UNCHANGED <<pump, held, inbound>>
        BY <1>4, <2>2 DEF PumpReceives
      <3> QED BY <2>1, <3>1 DEF Deliver, PumpInv
    <2>3. CASE ~parked /\ Len(inbound) < QueueFrames
      <3>1. UNCHANGED <<pump, held, current, reads, parked>>
        BY <1>4, <2>3 DEF PumpReceives
      <3> QED BY <2>1, <2>3, <3>1 DEF PumpInv
    <2>4. CASE ~parked /\ ~(Len(inbound) < QueueFrames)
      <3>1. pump' = "push" /\ held' = Head(channel) /\ UNCHANGED <<inbound, current, reads, parked>>
        BY <1>4, <2>4 DEF PumpReceives
      <3>2. held' # 0
        <4>1. Head(channel) \in 1 .. MaxFrames
          BY <2>1, TailType DEF TypeOK
        <4> QED BY <3>1, <4>1
      <3>3. Len(inbound) = QueueFrames
        BY <1>0, <2>4
      <3> QED BY <2>1, <2>4, <3>1, <3>2, <3>3 DEF PumpInv
    <2> QED BY <2>2, <2>3, <2>4
  <1>5. CASE PumpFails
    BY <1>5 DEF PumpFails, PumpInv
  <1>6. CASE PumpAborted
    BY <1>6 DEF PumpAborted, PumpInv
  <1>7. CASE \E n \in 1 .. FrameBytes : Read(n)
    <2>1. PICK n \in 1 .. FrameBytes : Read(n)
      BY <1>7
    <2>2. reads' = Append(reads, n) /\ UNCHANGED <<bound, closed, pump, held, inbound, ended, current, parked>>
      BY <2>1 DEF Read
    <2>3. reads' # <<>>
      <3>1. reads \in Seq(1 .. FrameBytes)
        BY DEF TypeOK
      <3> QED BY <2>2, <3>1, AppendProperties
    <2> QED BY <2>2, <2>3 DEF PumpInv
  <1>8. CASE ReadTakes
    <2>1. ~parked /\ ~closed /\ UNCHANGED <<bound, closed, ended>>
      BY <1>8 DEF ReadTakes
    <2>2. parked' = FALSE
      BY <1>8 DEF ReadTakes, Deliver
    <2>3. CASE UNCHANGED <<inbound, pump, held>>
      BY <2>1, <2>2, <2>3 DEF PumpInv
    <2>4. CASE pump' = (IF pump = "push" THEN "receive" ELSE pump) /\ held' = 0
      BY <2>1, <2>2, <2>4 DEF PumpInv
    <2> QED BY <1>8, <2>3, <2>4 DEF ReadTakes
  <1>9. CASE ReadParks
    <2>1. /\ ~closed /\ reads # <<>> /\ current = <<>> /\ inbound = <<>> /\ ~ended
          /\ UNCHANGED <<bound, closed, pump, held, inbound, ended, current, reads>>
      BY <1>9 DEF ReadParks
    <2>2. held = 0
      <3>1. pump # "push"
        BY <1>0, <2>1 DEF PumpInv
      <3> QED BY <3>1 DEF PumpInv
    <2> QED BY <2>1, <2>2 DEF PumpInv
  <1>10. CASE \E abort \in BOOLEAN : ReadRejected(abort)
    BY <1>10 DEF ReadRejected, PumpInv
  <1>11. CASE Clear
    <2>1. current' = <<>> /\ UNCHANGED <<bound, closed, ended, reads, parked>>
      BY <1>11 DEF Clear
    <2>2. CASE pump = "push" /\ ~ended
      <3>1. pump' = "receive" /\ held' = 0
        BY <1>11, <2>2 DEF Clear
      <3> QED BY <2>1, <2>2, <3>1 DEF PumpInv
    <2>3. CASE ~(pump = "push" /\ ~ended)
      <3>1. inbound' = <<>> /\ UNCHANGED <<pump, held>>
        BY <1>11, <2>3 DEF Clear
      <3>2. pump = "push" => closed
        BY <2>3 DEF PumpInv
      <3> QED BY <2>1, <3>1, <3>2 DEF PumpInv
    <2> QED BY <2>2, <2>3
  <1>12. CASE Close
    BY <1>12 DEF Close, PumpInv
  <1>13. CASE (\E n \in 1 .. MaxWrite : Write(n)) \/ WriteBegins \/ WriteRefused \/ FrameWritten
    BY <1>1, <1>13 DEF Write, WriteBegins, WriteRefused, FrameWritten
  <1>14. CASE WriteFails \/ WriteReturns \/ ChannelClosed \/ CloseReturns \/ UNCHANGED vars
    BY <1>1, <1>14 DEF WriteFails, WriteReturns, ChannelClosed, CloseReturns
  <1> QED
    BY <1>2, <1>3, <1>4, <1>5, <1>6, <1>7, <1>8, <1>9, <1>10, <1>11, <1>12, <1>13, <1>14 DEF Next

-----------------------------------------------------------------------------
(* Writing *)

\* A call joins the chain with the next n bytes.
LEMMA CallWaits ==
    ASSUME NEW st, NEW ws \in Seq(Seq(Int)), NEW ref, NEW n \in Nat, NEW m \in Nat,
           Accounts(st, ws, ref, n)
    PROVE  Accounts(st, Append(ws, [i \in 1 .. m |-> n + i]), ref, n + m)
  <1> DEFINE w == [i \in 1 .. m |-> n + i]
             vs == Append(ws, w)
  <1>1. w \in Seq(Int) /\ Len(w) = m /\ \A i \in 1 .. m : w[i] = n + i
    OBVIOUS
  <1> HIDE DEF w
  <1>2. /\ Len(ws) \in Nat /\ Len(vs) = Len(ws) + 1
        /\ \A k \in 1 .. Len(ws) : vs[k] = ws[k]
        /\ vs[Len(ws) + 1] = w
    BY <1>1, AppendProperties, LenProperties
  <1> HIDE DEF vs
  <1>3. \A k \in 1 .. Len(vs) : (k \in 1 .. Len(ws) /\ vs[k] = ws[k]) \/ (k = Len(ws) + 1 /\ vs[k] = w)
    BY <1>2
  <1>4. IsOrdered(w)
    BY <1>1 DEF IsOrdered
  <1>5. Elems(w) = n + 1 .. n + m
    <2>1. \A x \in n + 1 .. n + m : x - n \in 1 .. m /\ n + (x - n) = x
      OBVIOUS
    <2>2. \A i \in 1 .. m : n + i \in n + 1 .. n + m
      OBVIOUS
    <2>3. Elems(w) \subseteq n + 1 .. n + m
      BY <1>1, <2>2 DEF Elems
    <2>4. n + 1 .. n + m \subseteq Elems(w)
      BY <1>1, <2>1 DEF Elems
    <2> QED BY <2>3, <2>4
  <1>6. All(vs) = All(ws) \cup Elems(w)
    <2>1. All(vs) \subseteq All(ws) \cup Elems(w)
      BY <1>3 DEF All
    <2>2. All(ws) \subseteq All(vs)
      <3>1. \A k \in 1 .. Len(ws) : k \in 1 .. Len(vs)
        BY <1>2
      <3> QED BY <1>2, <3>1 DEF All
    <2>3. Elems(w) \subseteq All(vs)
      <3>1. Len(ws) + 1 \in 1 .. Len(vs)
        BY <1>2
      <3> QED BY <1>2, <3>1 DEF All
    <2> QED BY <2>1, <2>2, <2>3
  <1>7. Elems(st) \cup ref \cup All(ws) = 1 .. n
    BY DEF Accounts
  <1>8. \A x \in 1 .. n, y \in n + 1 .. n + m : x < y
    OBVIOUS
  <1>9. Before(st, w) /\ \A k \in 1 .. Len(ws) : Before(ws[k], w)
    <2>1. \A k \in 1 .. Len(ws) : Elems(ws[k]) \subseteq 1 .. n
      BY <1>7 DEF All
    <2>2. Elems(st) \subseteq 1 .. n
      BY <1>7
    <2> QED BY <1>5, <1>8, <2>1, <2>2 DEF Before
  <1>10. \A k \in 1 .. Len(vs) : IsOrdered(vs[k]) /\ Before(st, vs[k])
    BY <1>3, <1>4, <1>9 DEF Accounts
  <1>11. ASSUME NEW k \in 1 .. Len(vs), NEW l \in 1 .. Len(vs), k < l PROVE Before(vs[k], vs[l])
    <2>1. k \in 1 .. Len(ws) /\ vs[k] = ws[k]
      BY <1>2, <1>3, <1>11
    <2>2. CASE l \in 1 .. Len(ws) /\ vs[l] = ws[l]
      BY <1>11, <2>1, <2>2 DEF Accounts
    <2>3. CASE vs[l] = w
      BY <1>9, <2>1, <2>3
    <2> QED BY <1>3, <2>2, <2>3
  <1>12. Elems(st) \cup ref \cup All(vs) = 1 .. n + m
    <2>1. (1 .. n) \cup (n + 1 .. n + m) = 1 .. n + m
      OBVIOUS
    <2> QED BY <1>5, <1>6, <1>7, <2>1
  <1>13. All(vs) \cap ref = {}
    <2>1. \A x \in ref : x \notin n + 1 .. n + m
      BY <1>7
    <2> QED BY <1>5, <1>6, <2>1 DEF Accounts
  <1> HIDE DEF Before, All
  <1>14. Accounts(st, vs, ref, n + m)
    BY <1>10, <1>11, <1>12, <1>13 DEF Accounts
  <1> QED BY <1>14 DEF vs, w

\* What the first call leaves behind when its turn comes.
LEMMA FirstCall ==
    ASSUME NEW ws \in Seq(Seq(Int)), ws # <<>>
    PROVE  /\ Head(ws) \in Seq(Int) /\ Head(ws) = ws[1] /\ 1 \in 1 .. Len(ws)
           /\ \A k \in 1 .. Len(Tail(ws)) : k + 1 \in 1 .. Len(ws) /\ Tail(ws)[k] = ws[k + 1] /\ ws[k + 1] \in Seq(Int)
           /\ All(ws) = Elems(Head(ws)) \cup All(Tail(ws))
  <1>1. /\ Len(ws) \in Nat /\ Len(ws) >= 1 /\ Head(ws) \in Seq(Int) /\ Head(ws) = ws[1]
        /\ Tail(ws) \in Seq(Seq(Int)) /\ Len(Tail(ws)) = Len(ws) - 1
        /\ \A i \in 1 .. Len(Tail(ws)) : Tail(ws)[i] = ws[i + 1]
    BY TailType
  <1>2. 1 \in 1 .. Len(ws) /\ \A k \in 1 .. Len(Tail(ws)) : k + 1 \in 1 .. Len(ws)
    BY <1>1
  <1>3. \A k \in 1 .. Len(ws) : k = 1 \/ (k - 1 \in 1 .. Len(Tail(ws)) /\ (k - 1) + 1 = k)
    BY <1>1
  <1>4. \A k \in 1 .. Len(ws) : ws[k] \in Seq(Int)
    BY ElementOfSeq
  <1>5. All(ws) \subseteq Elems(Head(ws)) \cup All(Tail(ws))
    <2> SUFFICES ASSUME NEW k \in 1 .. Len(ws), NEW x \in Elems(ws[k])
                 PROVE  x \in Elems(Head(ws)) \cup All(Tail(ws))
      BY DEF All
    <2>1. CASE k = 1
      BY <1>1, <2>1
    <2>2. CASE k - 1 \in 1 .. Len(Tail(ws)) /\ (k - 1) + 1 = k
      <3>1. Tail(ws)[k - 1] = ws[k]
        BY <1>1, <2>2
      <3> QED BY <2>2, <3>1 DEF All
    <2> QED BY <1>3, <2>1, <2>2
  <1>6. Elems(Head(ws)) \subseteq All(ws) /\ All(Tail(ws)) \subseteq All(ws)
    BY <1>1, <1>2 DEF All
  <1> QED BY <1>1, <1>2, <1>4, <1>5, <1>6

LEMMA CallBegins ==
    ASSUME NEW st \in Seq(Int), NEW ws \in Seq(Seq(Int)), NEW ref, NEW n \in Nat,
           ws # <<>>, Accounts(st, ws, ref, n)
    PROVE  Accounts(st \o Head(ws), Tail(ws), ref, n)
  <1> DEFINE h == Head(ws)
             tl == Tail(ws)
  <1>1. /\ h \in Seq(Int) /\ h = ws[1] /\ 1 \in 1 .. Len(ws)
        /\ \A k \in 1 .. Len(tl) : k + 1 \in 1 .. Len(ws) /\ tl[k] = ws[k + 1]
        /\ All(ws) = Elems(h) \cup All(tl)
    BY FirstCall
  <1> HIDE DEF h, tl
  <1>2. Elems(st \o h) = Elems(st) \cup Elems(h)
    BY <1>1, Joined
  <1>3. IsOrdered(st \o h)
    <2>1. IsOrdered(st) /\ IsOrdered(h) /\ Before(st, h)
      BY <1>1 DEF Accounts
    <2> QED BY <1>1, <2>1, Joined
  <1>4. \A k \in 1 .. Len(tl) : 1 < k + 1
    OBVIOUS
  <1>5. \A k \in 1 .. Len(tl) : IsOrdered(tl[k]) /\ Before(st, tl[k]) /\ Before(h, tl[k])
    BY <1>1, <1>4 DEF Accounts
  <1>6. \A k \in 1 .. Len(tl) : Before(st \o h, tl[k])
    BY <1>2, <1>5 DEF Before
  <1>7. \A k, l \in 1 .. Len(tl) : k < l => Before(tl[k], tl[l])
    <2>1. \A k, l \in 1 .. Len(tl) : k < l => k + 1 < l + 1
      OBVIOUS
    <2> QED BY <1>1, <2>1 DEF Accounts
  <1>8. Elems(st \o h) \cup ref \cup All(tl) = 1 .. n
    BY <1>1, <1>2 DEF Accounts
  <1>9. Elems(st \o h) \cap ref = {} /\ All(tl) \cap ref = {}
    BY <1>1, <1>2 DEF Accounts
  <1>10. Accounts(st \o h, tl, ref, n)
    BY <1>3, <1>5, <1>6, <1>7, <1>8, <1>9 DEF Accounts
  <1> QED BY <1>10 DEF h, tl

LEMMA CallRefused ==
    ASSUME NEW st \in Seq(Int), NEW ws \in Seq(Seq(Int)), NEW ref, NEW n \in Nat,
           ws # <<>>, Accounts(st, ws, ref, n)
    PROVE  Accounts(st, Tail(ws), ref \cup Elems(Head(ws)), n)
  <1> DEFINE h == Head(ws)
             tl == Tail(ws)
  <1>1. /\ h \in Seq(Int) /\ h = ws[1] /\ 1 \in 1 .. Len(ws)
        /\ \A k \in 1 .. Len(tl) : k + 1 \in 1 .. Len(ws) /\ tl[k] = ws[k + 1] /\ ws[k + 1] \in Seq(Int)
        /\ All(ws) = Elems(h) \cup All(tl)
    BY FirstCall
  <1> HIDE DEF h, tl
  <1>2. \A s \in Seq(Int) : \A x \in Elems(s) : x \in Int
    BY ElementOfSeq DEF Elems
  <1>3. \A s, t \in Seq(Int) : Before(s, t) => Elems(s) \cap Elems(t) = {}
    BY <1>2 DEF Before
  <1>4. \A k \in 1 .. Len(tl) : 1 < k + 1
    OBVIOUS
  <1>5. \A k \in 1 .. Len(tl) : IsOrdered(tl[k]) /\ Before(st, tl[k]) /\ Before(h, tl[k])
    BY <1>1, <1>4 DEF Accounts
  <1>6. \A k, l \in 1 .. Len(tl) : k < l => Before(tl[k], tl[l])
    <2>1. \A k, l \in 1 .. Len(tl) : k < l => k + 1 < l + 1
      OBVIOUS
    <2> QED BY <1>1, <2>1 DEF Accounts
  <1>7. Elems(st) \cap Elems(h) = {}
    BY <1>1, <1>3 DEF Accounts
  <1>8. All(tl) \cap Elems(h) = {}
    <2>1. \A k \in 1 .. Len(tl) : tl[k] \in Seq(Int)
      BY <1>1
    <2>2. \A k \in 1 .. Len(tl) : Elems(h) \cap Elems(tl[k]) = {}
      BY <1>1, <1>3, <1>5, <2>1
    <2> QED BY <2>2 DEF All
  <1>9. Elems(st) \cup (ref \cup Elems(h)) \cup All(tl) = 1 .. n
    BY <1>1 DEF Accounts
  <1>10. Elems(st) \cap (ref \cup Elems(h)) = {} /\ All(tl) \cap (ref \cup Elems(h)) = {}
    BY <1>1, <1>7, <1>8 DEF Accounts
  <1>11. IsOrdered(st)
    BY DEF Accounts
  <1>12. Accounts(st, tl, ref \cup Elems(h), n)
    BY <1>5, <1>6, <1>9, <1>10, <1>11 DEF Accounts
  <1> QED BY <1>12 DEF h, tl

LEMMA WriteInit == Init => WriteInv
  <1> SUFFICES ASSUME Init PROVE WriteInv
    OBVIOUS
  <1>1. Stream = <<>> /\ writes = <<>> /\ refused = {} /\ offered = 0
    BY Short, Neutral DEF Init, Stream
  <1>2. All(<<>>) = {}
    BY DEF All
  <1>3. Accounts(<<>>, <<>>, {}, 0)
    BY <1>2, Short DEF Accounts
  <1> QED BY <1>1, <1>3 DEF WriteInv, Init

LEMMA WriteStep == TypeOK /\ WriteInv /\ [Next]_vars => WriteInv'
  <1> SUFFICES ASSUME TypeOK, WriteInv, [Next]_vars PROVE WriteInv'
    OBVIOUS
  <1> USE DEF vars, writeVars, readVars
  <1>0. /\ wire \in Seq(Int) /\ active \in Seq(Int) /\ partial \in Seq(Int) /\ Stream \in Seq(Int)
        /\ writes \in Seq(Seq(Int)) /\ offered \in Nat
    <2>1. wire \in Seq(Int) /\ active \in Seq(Int) /\ partial \in Seq(Int) /\ offered \in Nat
      BY Typed DEF TypeOK
    <2>2. Stream \in Seq(Int)
      BY <2>1, Joined DEF Stream
    <2>3. writes \in Seq(Seq(Int))
      <3>1. Offered \subseteq Int
        BY DEF Offered
      <3>2. Seq(Offered) \subseteq Seq(Int)
        BY <3>1, SeqMonotonic
      <3> QED BY <3>2, SeqMonotonic DEF TypeOK, Offered
    <2> QED BY <2>1, <2>2, <2>3
  <1>1. ASSUME UNCHANGED <<closed, closing, writeVars>> PROVE WriteInv'
    BY <1>1 DEF WriteInv, Stream
  <1>2. ASSUME NEW n \in 1 .. MaxWrite, Write(n) PROVE WriteInv'
    <2>1. /\ writes' = Append(writes, [i \in 1 .. n |-> offered + i]) /\ offered' = offered + n
          /\ UNCHANGED <<closed, closing, active, writing, partial, wire, refused, torn>>
      BY <1>2 DEF Write
    <2>2. Stream' = Stream /\ n \in Nat
      BY <2>1 DEF Stream
    <2>3. ~torn /\ closing # "done" => Accounts(Stream', writes', refused', offered')
      BY <1>0, <2>1, <2>2, CallWaits DEF WriteInv
    <2> QED BY <2>1, <2>3 DEF WriteInv
  <1>3. CASE WriteBegins
    <2>1. /\ ~writing /\ writes # <<>> /\ writes' = Tail(writes) /\ writing' /\ active' = partial \o Head(writes)
          /\ UNCHANGED <<closed, closing, partial, offered, wire, refused, torn>>
      BY <1>3 DEF WriteBegins
    <2>2. Stream' = Stream \o Head(writes)
      <3>1. Head(writes) \in Seq(Int)
        BY <1>0, <2>1, FirstCall
      <3>2. Stream = wire \o partial /\ Stream' = wire \o (partial \o Head(writes))
        BY <2>1 DEF Stream
      <3>3. Three(wire, partial, Head(writes)) = OneTwo(wire, partial, Head(writes))
        BY <1>0, <3>1, Associative
      <3> QED BY <3>2, <3>3 DEF Three, OneTwo
    <2>3. ~torn /\ closing # "done" => Accounts(Stream', writes', refused', offered')
      BY <1>0, <2>1, <2>2, CallBegins DEF WriteInv
    <2> QED BY <2>1, <2>3 DEF WriteInv
  <1>4. CASE WriteRefused
    <2>1. /\ writes # <<>> /\ writes' = Tail(writes) /\ refused' = refused \cup Elems(Head(writes))
          /\ UNCHANGED <<closed, closing, active, writing, partial, offered, wire, torn>>
      BY <1>4 DEF WriteRefused, Elems
    <2>2. Stream' = Stream
      BY <2>1 DEF Stream
    <2>3. ~torn /\ closing # "done" => Accounts(Stream', writes', refused', offered')
      BY <1>0, <2>1, <2>2, CallRefused DEF WriteInv
    <2> QED BY <2>1, <2>3 DEF WriteInv
  <1>5. CASE FrameWritten
    <2>1. /\ writing /\ Len(active) >= FrameBytes
          /\ wire' = wire \o SubSeq(active, 1, FrameBytes)
          /\ active' = SubSeq(active, FrameBytes + 1, Len(active))
          /\ UNCHANGED <<closed, closing, writes, writing, partial, offered, refused, torn>>
      BY <1>5 DEF FrameWritten
    <2>2. Stream' = Stream
      <3>1. FrameBytes \in 0 .. Len(active)
        <4>1. Len(active) \in Nat /\ FrameBytes \in Nat
          BY <1>0, FormatAssumption, LenProperties
        <4> QED BY <2>1, <4>1
      <3>2. /\ SubSeq(active, 1, FrameBytes) \in Seq(Int) /\ SubSeq(active, FrameBytes + 1, Len(active)) \in Seq(Int)
            /\ SubSeq(active, 1, FrameBytes) \o SubSeq(active, FrameBytes + 1, Len(active)) = active
        BY <1>0, <3>1, Cut
      <3>3. Stream = wire \o active
            /\ Stream' = (wire \o SubSeq(active, 1, FrameBytes)) \o SubSeq(active, FrameBytes + 1, Len(active))
        BY <2>1 DEF Stream
      <3>4. Three(wire, SubSeq(active, 1, FrameBytes), SubSeq(active, FrameBytes + 1, Len(active))) = OneTwo(wire, SubSeq(active, 1, FrameBytes), SubSeq(active, FrameBytes + 1, Len(active)))
        BY <1>0, <3>2, Associative
      <3> QED BY <3>2, <3>3, <3>4 DEF Three, OneTwo
    <2> QED BY <2>1, <2>2 DEF WriteInv
  <1>6. CASE WriteFails
    BY <1>6 DEF WriteFails, WriteInv
  <1>7. CASE WriteReturns
    <2>1. /\ writing /\ partial' = active /\ writing' = FALSE
          /\ UNCHANGED <<closed, closing, writes, offered, wire, refused, torn>>
      BY <1>7 DEF WriteReturns
    <2>2. Stream' = Stream
      BY <2>1 DEF Stream
    <2> QED BY <2>1, <2>2 DEF WriteInv
  <1>8. CASE Close \/ ChannelClosed
    <2>1. /\ closed' /\ closing' # "done" /\ closing # "done"
          /\ UNCHANGED writeVars
      BY <1>8 DEF Close, ChannelClosed, WriteInv
    <2>2. Stream' = Stream
      BY <2>1 DEF Stream
    <2> QED BY <2>1, <2>2 DEF WriteInv
  <1>9. CASE CloseReturns
    BY <1>9 DEF CloseReturns, WriteInv
  <1>10. CASE (\E mode \in {"frames", "native"} : Bind(mode)) \/ FrameReceived \/ PumpReceives \/ PumpFails \/ PumpAborted
    BY <1>1, <1>10 DEF Bind, FrameReceived, PumpReceives, PumpFails, PumpAborted
  <1>11. CASE (\E n \in 1 .. FrameBytes : Read(n)) \/ (\E abort \in BOOLEAN : ReadRejected(abort))
    BY <1>1, <1>11 DEF Read, ReadRejected
  <1>12. CASE ReadTakes \/ ReadParks \/ Clear \/ UNCHANGED vars
    BY <1>1, <1>12 DEF ReadTakes, ReadParks, Clear
  <1> QED
    BY <1>2, <1>3, <1>4, <1>5, <1>6, <1>7, <1>8, <1>9, <1>10, <1>11, <1>12 DEF Next

-----------------------------------------------------------------------------
(* Reading *)

LEMMA AheadTyped ==
    ASSUME TypeOK
    PROVE  /\ inbound \in Seq(Int) /\ Hand \in Seq(Int) /\ channel \in Seq(Int)
           /\ Ahead \in Seq(Int) /\ Taken \in Seq(Int)
           /\ Ahead = inbound \o (Hand \o channel)
           /\ Len(Ahead) = Len(inbound) + Len(Hand) + Len(channel)
           /\ Len(Taken) = Len(delivered) + Len(current)
  <1>1. inbound \in Seq(Int) /\ Hand \in Seq(Int) /\ channel \in Seq(Int) /\ current \in Seq(Int) /\ delivered \in Seq(Int)
    BY Typed
  <1>2. inbound \o Hand \in Seq(Int) /\ Len(inbound \o Hand) = Len(inbound) + Len(Hand)
    BY <1>1, Joined
  <1>3. Ahead \in Seq(Int) /\ Len(Ahead) = Len(inbound \o Hand) + Len(channel)
    BY <1>1, <1>2, Joined DEF Ahead
  <1>4. Ahead = inbound \o (Hand \o channel)
    <2>1. Three(inbound, Hand, channel) = OneTwo(inbound, Hand, channel)
      BY <1>1, Associative
    <2> QED BY <2>1 DEF Ahead, Three, OneTwo
  <1>5. Taken \in Seq(Int) /\ Len(Taken) = Len(delivered) + Len(current)
    BY <1>1, Joined DEF Taken
  <1> QED BY <1>1, <1>2, <1>3, <1>4, <1>5

LEMMA AheadTypedNext == TypeOK' => (Ahead \in Seq(Int))'
  <1>1. TypeOK => Ahead \in Seq(Int)
    BY AheadTyped
  <1> QED BY <1>1, PTL

\* What a step may do to the frames ahead and the bytes taken.
Stays == UNCHANGED <<received, cleared, Ahead, Taken>>
Arrives ==
    /\ received' = received + 1 /\ UNCHANGED <<cleared, Taken>>
    /\ Ahead' = Ahead \o <<received + 1>>
Takes(k) ==
    /\ Ahead = <<k>> \o Ahead' /\ Taken' = Taken \o Bytes(k)
    /\ UNCHANGED <<received, cleared>>
Drops ==
    /\ closed' /\ Ahead' = inbound \o channel
    /\ UNCHANGED <<received, cleared, Taken>>
Clears ==
    /\ Ahead' = Hand /\ Taken' = delivered /\ UNCHANGED received
    /\ cleared' = cleared + (Len(current) + Len(inbound) * FrameBytes) + Len(channel) * FrameBytes

LEMMA ReadEffect ==
    ASSUME TypeOK, PumpInv, [Next]_vars
    PROVE  /\ closed => closed'
           /\ Stays \/ Arrives \/ (\E k \in FrameNos : Takes(k)) \/ Drops \/ Clears
  <1> DEFINE Goal ==
           /\ closed => closed'
           /\ Stays \/ Arrives \/ (\E k \in FrameNos : Takes(k)) \/ Drops \/ Clears
  <1> USE DEF vars, writeVars, readVars
  <1>0. /\ inbound \in Seq(Int) /\ Hand \in Seq(Int) /\ channel \in Seq(Int) /\ held \in Int
        /\ current \in Seq(Int) /\ delivered \in Seq(Int) /\ current \in Seq(Nat) /\ delivered \in Seq(Nat)
        /\ inbound \in Seq(FrameNos) /\ channel \in Seq(FrameNos)
        /\ Ahead = inbound \o (Hand \o channel) /\ Ahead = (inbound \o Hand) \o channel
    BY Typed, AheadTyped DEF TypeOK, FrameNos, Ahead
  <1>01. \A k \in FrameNos : /\ Bytes(k) \in Seq(Nat) /\ Len(Bytes(k)) <= FrameBytes /\ Bytes(k) # <<>>
    <2>1. \A k \in FrameNos : k \in Nat /\ k # 0
      BY DEF FrameNos
    <2>2. FrameBytes <= FrameBytes
      BY FormatAssumption
    <2> QED BY <2>1, <2>2, BytesOfFrame
  <1>02. \A s \in Seq(FrameNos) : s # <<>> => Head(s) \in FrameNos
    BY HeadTailProperties
  <1>1. ASSUME UNCHANGED <<received, cleared, inbound, held, channel, delivered, current>> PROVE Stays
    BY <1>1 DEF Stays, Ahead, Hand, Taken
  <1>2. CASE \E mode \in {"frames", "native"} : Bind(mode)
    BY <1>1, <1>2 DEF Bind
  <1>3. CASE FrameReceived
    <2>1. /\ channel' = Append(channel, received + 1) /\ received' = received + 1
          /\ UNCHANGED <<closed, cleared, inbound, held, delivered, current>>
      BY <1>3 DEF FrameReceived
    <2>2. received + 1 \in Int
      BY DEF TypeOK
    <2>3. channel' = channel \o <<received + 1>> /\ <<received + 1>> \in Seq(Int)
      BY <1>0, <2>1, <2>2, Appended, Short
    <2>4. Ahead' = (inbound \o Hand) \o (channel \o <<received + 1>>)
      BY <2>1, <2>3 DEF Ahead, Hand
    <2>5. inbound \o Hand \in Seq(Int)
      BY <1>0, Joined
    <2>6. Ahead' = ((inbound \o Hand) \o channel) \o <<received + 1>>
      <3>1. Three(inbound \o Hand, channel, <<received + 1>>) = OneTwo(inbound \o Hand, channel, <<received + 1>>)
        BY <1>0, <2>3, <2>5, Associative
      <3> QED BY <2>4, <3>1 DEF Three, OneTwo
    <2>7. Taken' = Taken
      BY <2>1 DEF Taken
    <2> QED BY <1>0, <2>1, <2>6, <2>7 DEF Arrives
  <1>4. CASE PumpReceives
    <2> DEFINE h == Head(channel)
               tl == Tail(channel)
    <2>1. /\ channel # <<>> /\ channel' = tl /\ UNCHANGED <<closed, received, cleared>>
          /\ pump = "receive" /\ held = 0
      BY <1>4 DEF PumpReceives, PumpInv
    <2>2. h \in FrameNos /\ h \in Int /\ h # 0 /\ tl \in Seq(Int) /\ channel = <<h>> \o tl /\ <<h>> \in Seq(Int)
      <3>1. h \in FrameNos
        BY <1>0, <1>02, <2>1
      <3>2. h \in Int /\ h # 0
        BY <3>1 DEF FrameNos
      <3>3. tl \in Seq(Int) /\ channel = <<h>> \o tl
        BY <1>0, <2>1, HeadThenTail
      <3> QED BY <3>1, <3>2, <3>3, Short
    <2>3. Hand = <<>>
      BY <2>1 DEF Hand
    <2>4. Ahead = inbound \o channel
      BY <1>0, <2>3, Neutral
    <2>5. CASE parked
      <3>1. Deliver(Bytes(h)) /\ UNCHANGED <<held, inbound>> /\ inbound = <<>> /\ current = <<>> /\ reads # <<>>
        BY <1>4, <2>5 DEF PumpReceives, PumpInv
      <3> HIDE DEF h, tl
      <3>2. Ahead = <<h>> \o tl
        BY <1>0, <2>2, <2>4, <3>1, Neutral
      <3>3. Ahead' = tl
        <4>1. Ahead' = (<<>> \o <<>>) \o tl
          BY <2>1, <3>1 DEF Ahead, Hand
        <4> QED BY <2>2, <4>1, Short, Neutral
      <3>4. Taken' = Taken \o Bytes(h)
        <4>1. delivered' \o current' = delivered \o Bytes(h)
          BY <1>01, <2>2, <3>1, DeliverEffect
        <4>2. Taken = delivered
          BY <1>0, <3>1, Neutral DEF Taken
        <4> QED BY <4>1, <4>2 DEF Taken
      <3>5. Takes(h)
        BY <2>1, <3>2, <3>3, <3>4 DEF Takes
      <3> QED BY <2>1, <2>2, <3>5
    <2>6. CASE ~parked /\ Len(inbound) < QueueFrames
      <3>1. inbound' = Append(inbound, h) /\ UNCHANGED <<held, current, delivered>>
        BY <1>4, <2>6 DEF PumpReceives
      <3> HIDE DEF h, tl
      <3>2. inbound' = inbound \o <<h>> /\ inbound \o <<h>> \in Seq(Int)
        BY <1>0, <2>2, <3>1, Appended, Joined
      <3>3. Ahead' = ((inbound \o <<h>>) \o <<>>) \o tl
        BY <2>1, <3>1, <3>2 DEF Ahead, Hand
      <3>4. Ahead' = (inbound \o <<h>>) \o tl
        BY <3>2, <3>3, Neutral
      <3>5. Ahead' = Ahead
        <4>1. Three(inbound, <<h>>, tl) = OneTwo(inbound, <<h>>, tl)
          BY <1>0, <2>2, Associative
        <4> QED BY <2>2, <2>4, <3>4, <4>1 DEF Three, OneTwo
      <3>6. Taken' = Taken
        BY <3>1 DEF Taken
      <3> QED BY <2>1, <3>5, <3>6 DEF Stays
    <2>7. CASE ~parked /\ ~(Len(inbound) < QueueFrames)
      <3>1. held' = h /\ UNCHANGED <<inbound, current, delivered>>
        BY <1>4, <2>7 DEF PumpReceives
      <3> HIDE DEF h, tl
      <3>2. Ahead' = (inbound \o <<h>>) \o tl
        BY <2>1, <2>2, <3>1 DEF Ahead, Hand
      <3>3. Ahead' = Ahead
        <4>1. Three(inbound, <<h>>, tl) = OneTwo(inbound, <<h>>, tl)
          BY <1>0, <2>2, Associative
        <4> QED BY <2>2, <2>4, <3>2, <4>1 DEF Three, OneTwo
      <3>4. Taken' = Taken
        BY <3>1 DEF Taken
      <3> QED BY <2>1, <3>3, <3>4 DEF Stays
    <2> QED BY <2>5, <2>6, <2>7
  <1>5. CASE PumpAborted
    <2>1. closed /\ held' = 0 /\ UNCHANGED <<closed, received, cleared, inbound, channel, delivered, current>>
      BY <1>5 DEF PumpAborted
    <2>2. Ahead' = (inbound \o <<>>) \o channel
      BY <2>1 DEF Ahead, Hand
    <2>3. Ahead' = inbound \o channel
      BY <1>0, <2>2, Neutral
    <2>4. Taken' = Taken
      BY <2>1 DEF Taken
    <2> QED BY <2>1, <2>3, <2>4 DEF Drops
  <1>6. CASE ReadTakes
    <2>1. reads # <<>> /\ UNCHANGED <<closed, received, channel, cleared>>
      BY <1>6 DEF ReadTakes
    <2>2. CASE current # <<>> /\ Deliver(current) /\ UNCHANGED <<inbound, pump, held>>
      <3>1. Len(current) <= FrameBytes
        <4>1. Len(current) \in Nat /\ FrameBytes \in Nat
          BY <1>0, FormatAssumption, LenProperties
        <4> QED BY <4>1 DEF TypeOK
      <3>2. delivered' \o current' = delivered \o current
        BY <1>0, <2>1, <2>2, <3>1, DeliverEffect
      <3>3. Ahead' = Ahead /\ Taken' = Taken
        BY <2>1, <2>2, <3>2 DEF Ahead, Hand, Taken
      <3> QED BY <2>1, <3>3 DEF Stays
    <2>3. CASE /\ current = <<>> /\ inbound # <<>> /\ Deliver(Bytes(Head(inbound)))
               /\ inbound' = IF pump = "push" THEN Append(Tail(inbound), held) ELSE Tail(inbound)
               /\ held' = 0
      <3> DEFINE h == Head(inbound)
                 tl == Tail(inbound)
      <3>1. h \in FrameNos /\ <<h>> \in Seq(Int) /\ tl \in Seq(Int) /\ inbound = <<h>> \o tl
        <4>1. h \in FrameNos
          BY <1>0, <1>02, <2>3
        <4>2. h \in Int
          BY <4>1 DEF FrameNos
        <4> QED BY <1>0, <2>3, <4>1, <4>2, HeadThenTail, Short
      <3>2. inbound' = tl \o Hand
        <4>1. CASE pump = "push"
          <5>1. Hand = <<held>>
            BY <4>1 DEF Hand, PumpInv
          <5>2. inbound' = Append(tl, held)
            BY <2>3, <4>1, Zenon
          <5> QED BY <1>0, <3>1, <5>1, <5>2, Appended
        <4>2. CASE pump # "push"
          <5>1. Hand = <<>>
            BY <4>2 DEF Hand, PumpInv
          <5>2. inbound' = tl
            BY <2>3, <4>2, Zenon
          <5> QED BY <3>1, <5>1, <5>2, Neutral
        <4> QED BY <4>1, <4>2, Zenon
      <3>3. Deliver(Bytes(h)) /\ current = <<>>
        BY <2>3
      <3> HIDE DEF h, tl
      <3>4. tl \o Hand \in Seq(Int)
        BY <1>0, <3>1, Joined
      <3>5. Ahead' = (tl \o Hand) \o channel
        <4>1. Ahead' = ((tl \o Hand) \o <<>>) \o channel
          BY <2>1, <2>3, <3>2 DEF Ahead, Hand
        <4> QED BY <3>4, <4>1, Neutral
      <3>6. Ahead = <<h>> \o ((tl \o Hand) \o channel)
        <4>1. Ahead = Three(First(h, tl), Hand, channel)
          BY <3>1 DEF Ahead, Three, First
        <4>2. h \in Int /\ tl \in Seq(Int) /\ Hand \in Seq(Int) /\ channel \in Seq(Int)
          BY <1>0, <3>1 DEF FrameNos
        <4>3. Three(First(h, tl), Hand, channel) = First(h, Three(tl, Hand, channel))
          BY <4>2, FirstOfThree
        <4> QED BY <4>1, <4>3 DEF Three, First
      <3>7. Taken' = Taken \o Bytes(h)
        <4>1. delivered' \o current' = delivered \o Bytes(h)
          BY <1>01, <2>1, <3>1, <3>3, DeliverEffect
        <4>2. Taken = delivered
          BY <1>0, <3>3, Neutral DEF Taken
        <4> QED BY <4>1, <4>2 DEF Taken
      <3>8. Takes(h)
        BY <2>1, <3>5, <3>6, <3>7 DEF Takes
      <3> QED BY <2>1, <3>1, <3>8
    <2> QED BY <1>6, <2>2, <2>3 DEF ReadTakes
  <1>7. CASE Clear
    <2>1. /\ cleared' = cleared + (Len(current) + Len(inbound) * FrameBytes) + Len(channel) * FrameBytes
          /\ current' = <<>> /\ channel' = <<>> /\ UNCHANGED <<closed, received, delivered>>
      BY <1>7 DEF Clear, Buffered
    <2>2. Ahead' = Hand
      <3>1. CASE pump = "push" /\ ~ended
        <4>1. inbound' = <<held>> /\ held' = 0 /\ Hand = <<held>>
          BY <1>7, <3>1 DEF Clear, Hand, PumpInv
        <4>2. Ahead' = (<<held>> \o <<>>) \o <<>>
          BY <2>1, <4>1 DEF Ahead, Hand
        <4> QED BY <1>0, <4>1, <4>2, Neutral
      <3>2. CASE ~(pump = "push" /\ ~ended)
        <4>1. inbound' = <<>> /\ UNCHANGED held
          BY <1>7, <3>2 DEF Clear
        <4>2. Ahead' = (<<>> \o Hand) \o <<>>
          BY <2>1, <4>1 DEF Ahead, Hand
        <4> QED BY <1>0, <4>2, Neutral
      <3> QED BY <3>1, <3>2
    <2>3. Taken' = delivered
      BY <1>0, <2>1, Neutral DEF Taken
    <2> QED BY <2>1, <2>2, <2>3 DEF Clears
  <1>8. CASE Close \/ ChannelClosed \/ CloseReturns
    BY <1>1, <1>8 DEF Close, ChannelClosed, CloseReturns
  <1>9. CASE PumpFails \/ ReadParks \/ UNCHANGED vars
    BY <1>1, <1>9 DEF PumpFails, ReadParks
  <1>10. CASE (\E n \in 1 .. FrameBytes : Read(n)) \/ (\E abort \in BOOLEAN : ReadRejected(abort))
    BY <1>1, <1>10 DEF Read, ReadRejected
  <1>11. CASE \E n \in 1 .. MaxWrite : Write(n)
    BY <1>1, <1>11 DEF Write
  <1>12. CASE WriteBegins \/ WriteRefused \/ FrameWritten \/ WriteFails \/ WriteReturns
    BY <1>1, <1>12 DEF WriteBegins, WriteRefused, FrameWritten, WriteFails, WriteReturns
  <1> QED
    BY <1>2, <1>3, <1>4, <1>5, <1>6, <1>7, <1>8, <1>9, <1>10, <1>11, <1>12 DEF Next

\* The place of a byte and of a frame: before the end of the frames received,
\* and before the start of a frame.
LEMMA OrderArrives ==
    ASSUME NEW n \in Nat, NEW fs \in Seq(Int), NEW bs \in Seq(Int), InOrder(n, fs, bs)
    PROVE  InOrder(n + 1, fs \o <<n + 1>>, bs)
  <1> DEFINE gs == fs \o <<n + 1>>
  <1>0. n + 1 \in Int
    OBVIOUS
  <1>1. <<n + 1>> \in Seq(Int) /\ Elems(<<n + 1>>) = {n + 1} /\ IsOrdered(<<n + 1>>)
    BY <1>0, Short
  <1>2. Elems(gs) = Elems(fs) \cup {n + 1}
    BY <1>1, Joined
  <1>3. Before(fs, <<n + 1>>)
    <2>1. \A x \in 1 .. n : x < n + 1
      OBVIOUS
    <2> QED BY <1>1, <2>1 DEF Before, InOrder
  <1>4. IsOrdered(gs)
    BY <1>1, <1>3, Joined DEF InOrder
  <1> HIDE DEF gs
  <1>5. Elems(gs) \subseteq 1 .. n + 1
    <2>1. (1 .. n) \subseteq 1 .. n + 1 /\ n + 1 \in 1 .. n + 1
      OBVIOUS
    <2> QED BY <1>2, <2>1 DEF InOrder
  <1>6. ASSUME NEW b \in Elems(bs)
        PROVE  b <= (n + 1) * FrameBytes /\ \A f \in Elems(gs) : b <= (f - 1) * FrameBytes
    <2>1. b \in Int /\ b <= n * FrameBytes /\ \A f \in Elems(fs) : b <= (f - 1) * FrameBytes
      BY ElementOfSeq DEF InOrder, Elems
    <2>2. FrameBytes \in Nat
      BY FormatAssumption
    <2>3. n * FrameBytes \in Int /\ (n + 1) * FrameBytes \in Int /\ n * FrameBytes <= (n + 1) * FrameBytes
      BY <2>2
    <2>4. b <= (n + 1) * FrameBytes
      BY <2>1, <2>3
    <2>5. (n + 1) - 1 = n
      OBVIOUS
    <2> QED BY <1>2, <2>1, <2>4, <2>5
  <1>7. InOrder(n + 1, gs, bs)
    BY <1>4, <1>5, <1>6 DEF InOrder
  <1> QED BY <1>7 DEF gs

LEMMA OrderTakes ==
    ASSUME NEW n \in Nat, NEW k \in Nat, k # 0, NEW fs \in Seq(Int), NEW bs \in Seq(Int),
           InOrder(n, <<k>> \o fs, bs)
    PROVE  InOrder(n, fs, bs \o Bytes(k))
  <1> DEFINE cs == bs \o Bytes(k)
  <1>0. FrameBytes \in Nat
    BY FormatAssumption
  <1>1. <<k>> \in Seq(Int) /\ Elems(<<k>>) = {k}
    BY Short
  <1>2. /\ Elems(<<k>> \o fs) = {k} \cup Elems(fs)
        /\ IsOrdered(fs) /\ Before(<<k>>, fs)
    BY <1>1, Joined DEF InOrder
  <1>3. k \in 1 .. n /\ Elems(fs) \subseteq 1 .. n /\ \A f \in Elems(fs) : k < f /\ f \in Int
    <2>1. k \in 1 .. n /\ Elems(fs) \subseteq 1 .. n
      BY <1>2 DEF InOrder
    <2>2. \A f \in Elems(fs) : k < f
      BY <1>1, <1>2 DEF Before
    <2> QED BY <2>1, <2>2
  <1>4. /\ Bytes(k) \in Seq(Int) /\ IsOrdered(Bytes(k))
        /\ \A b \in Elems(Bytes(k)) : (k - 1) * FrameBytes < b /\ b <= k * FrameBytes
    BY BytesOfFrame
  <1>5. \A s \in Seq(Int) : \A b \in Elems(s) : b \in Int
    BY ElementOfSeq DEF Elems
  <1>6. \A b \in Elems(bs) : b \in Int /\ b <= (k - 1) * FrameBytes /\ b <= n * FrameBytes
    BY <1>2, <1>5 DEF InOrder
  <1>7. IsOrdered(cs) /\ Elems(cs) = Elems(bs) \cup Elems(Bytes(k))
    <2>1. (k - 1) * FrameBytes \in Int
      BY <1>0
    <2>2. Before(bs, Bytes(k))
      BY <1>4, <1>5, <1>6, <2>1 DEF Before
    <2> QED BY <1>4, <2>2, Joined DEF InOrder
  <1>8. k * FrameBytes \in Int /\ n * FrameBytes \in Int /\ k * FrameBytes <= n * FrameBytes
    BY <1>0, <1>3
  <1>9. ASSUME NEW f \in Elems(fs)
        PROVE  k * FrameBytes <= (f - 1) * FrameBytes /\ (f - 1) * FrameBytes \in Int
    <2>1. f \in Int /\ k <= f - 1 /\ f - 1 \in Int
      BY <1>3
    <2>2. \A x, y \in Int : x <= y => x * FrameBytes <= y * FrameBytes /\ y * FrameBytes \in Int
      BY <1>0
    <2>3. k \in Int
      OBVIOUS
    <2> HIDE DEF cs
    <2>4. k * FrameBytes <= (f - 1) * FrameBytes
      BY <2>1, <2>2, <2>3
    <2>5. (f - 1) * FrameBytes \in Int
      BY <2>1, <2>2
    <2> QED BY <2>4, <2>5
  <1>10. \A b \in Elems(Bytes(k)) : b \in Int /\ b <= k * FrameBytes
    BY <1>4, <1>5
  <1> HIDE DEF cs
  <1>11. ASSUME NEW b \in Elems(cs)
         PROVE  b <= n * FrameBytes /\ \A f \in Elems(fs) : b <= (f - 1) * FrameBytes
    <2>1. CASE b \in Elems(bs)
      BY <1>2, <1>6, <2>1 DEF InOrder
    <2>2. CASE b \in Elems(Bytes(k))
      <3>1. b \in Int /\ b <= k * FrameBytes
        BY <1>10, <2>2
      <3>2. b <= n * FrameBytes
        BY <1>8, <3>1
      <3>3. ASSUME NEW f \in Elems(fs) PROVE b <= (f - 1) * FrameBytes
        BY <1>8, <1>9, <3>1
      <3> QED BY <3>2, <3>3
    <2> QED BY <1>7, <2>1, <2>2
  <1>12. InOrder(n, fs, cs)
    BY <1>2, <1>3, <1>7, <1>11 DEF InOrder
  <1> QED BY <1>12 DEF cs

\* Leaving frames or bytes out does no harm.
LEMMA OrderDrops ==
    ASSUME NEW n, NEW fs \in Seq(Int), NEW hs \in Seq(Int), NEW cs \in Seq(Int),
           NEW bs \in Seq(Int), NEW ds \in Seq(Int), InOrder(n, fs \o (hs \o cs), bs \o ds)
    PROVE  InOrder(n, fs \o cs, bs \o ds) /\ InOrder(n, hs, bs)
  <1>1. hs \o cs \in Seq(Int) /\ Elems(hs \o cs) = Elems(hs) \cup Elems(cs)
    BY Joined
  <1>2. Elems(fs \o (hs \o cs)) = Elems(fs) \cup (Elems(hs) \cup Elems(cs))
    <2>1. \A t \in Seq(Int) : Elems(fs \o t) = Elems(fs) \cup Elems(t)
      BY Joined
    <2> QED BY <1>1, <2>1
  <1>3. IsOrdered(fs) /\ IsOrdered(hs \o cs) /\ Before(fs, hs \o cs)
    BY <1>1, Joined DEF InOrder
  <1>4. IsOrdered(hs) /\ IsOrdered(cs)
    BY <1>3, Joined
  <1>5. Before(fs, cs)
    BY <1>1, <1>3 DEF Before
  <1>6. IsOrdered(fs \o cs) /\ Elems(fs \o cs) = Elems(fs) \cup Elems(cs)
    BY <1>3, <1>4, <1>5, Joined
  <1>7. IsOrdered(bs) /\ Elems(bs \o ds) = Elems(bs) \cup Elems(ds)
    BY Joined DEF InOrder
  <1> QED BY <1>2, <1>4, <1>6, <1>7 DEF InOrder

LEMMA OrderInit == Init => OrderInv /\ CountInv
  <1> SUFFICES ASSUME Init PROVE OrderInv /\ CountInv
    OBVIOUS
  <1>1. Ahead = <<>> /\ Taken = <<>> /\ received = 0 /\ cleared = 0
    BY Short, Neutral DEF Init, Ahead, Hand, Taken
  <1>2. InOrder(0, <<>>, <<>>)
    BY Short DEF InOrder
  <1>3. FrameBytes \in Nat /\ Len(<<>>) = 0
    BY FormatAssumption
  <1>4. Len(<<>>) + Len(<<>>) * FrameBytes + 0 = 0 * FrameBytes
    BY <1>3
  <1> QED BY <1>1, <1>2, <1>4 DEF OrderInv, CountInv

LEMMA OrderStep == TypeOK /\ TypeOK' /\ PumpInv /\ OrderInv /\ [Next]_vars => OrderInv'
  <1> SUFFICES ASSUME TypeOK, TypeOK', PumpInv, OrderInv, [Next]_vars PROVE OrderInv'
    OBVIOUS
  <1>0. /\ Ahead \in Seq(Int) /\ Taken \in Seq(Int) /\ received \in Nat
        /\ inbound \in Seq(Int) /\ Hand \in Seq(Int) /\ channel \in Seq(Int)
        /\ delivered \in Seq(Int) /\ current \in Seq(Int) /\ Ahead = inbound \o (Hand \o channel)
    <2>1. received \in Nat
      BY DEF TypeOK
    <2>2. delivered \in Seq(Int) /\ current \in Seq(Int)
      BY Typed
    <2> QED BY <2>1, <2>2, AheadTyped
  <1>00. Ahead' \in Seq(Int)
    BY AheadTypedNext
  <1>1. CASE Stays
    BY <1>1 DEF Stays, OrderInv
  <1>2. CASE Arrives
    BY <1>0, <1>2, OrderArrives DEF Arrives, OrderInv
  <1>3. ASSUME NEW k \in FrameNos, Takes(k) PROVE OrderInv'
    <2>1. k \in Nat /\ k # 0
      BY DEF FrameNos
    <2>2. InOrder(received, <<k>> \o Ahead', Taken)
      BY <1>3 DEF Takes, OrderInv
    <2>3. InOrder(received, Ahead', Taken \o Bytes(k))
      BY <1>0, <1>00, <2>1, <2>2, OrderTakes
    <2> QED BY <1>3, <2>3 DEF Takes, OrderInv
  <1>4. InOrder(received, inbound \o channel, Taken) /\ InOrder(received, Hand, delivered)
    BY <1>0, OrderDrops DEF OrderInv, Taken
  <1>5. CASE Drops
    BY <1>4, <1>5 DEF Drops, OrderInv
  <1>6. CASE Clears
    BY <1>4, <1>6 DEF Clears, OrderInv
  <1> QED BY <1>1, <1>2, <1>3, <1>5, <1>6, ReadEffect

LEMMA CountStep == TypeOK /\ TypeOK' /\ PumpInv /\ CountInv /\ [Next]_vars => CountInv'
  <1> SUFFICES ASSUME TypeOK, TypeOK', PumpInv, CountInv, [Next]_vars, ~closed' PROVE CountInv'
    BY DEF CountInv
  <1>0. ~closed /\ (Stays \/ Arrives \/ (\E k \in FrameNos : Takes(k)) \/ Clears)
    BY ReadEffect DEF Drops
  <1>1. Len(Taken) + Len(Ahead) * FrameBytes + cleared = received * FrameBytes
    BY <1>0 DEF CountInv
  <1>2. /\ Ahead \in Seq(Int) /\ Taken \in Seq(Int) /\ received \in Nat /\ cleared \in Nat
        /\ FrameBytes \in Nat /\ Len(Ahead) \in Nat /\ Len(Taken) \in Nat
        /\ Len(inbound) \in Nat /\ Len(Hand) \in Nat /\ Len(channel) \in Nat
        /\ Len(delivered) \in Nat /\ Len(current) \in Nat
        /\ Len(Ahead) = Len(inbound) + Len(Hand) + Len(channel)
        /\ Len(Taken) = Len(delivered) + Len(current)
    <2>1. received \in Nat /\ cleared \in Nat /\ FrameBytes \in Nat
      BY FormatAssumption DEF TypeOK
    <2>2. delivered \in Seq(Int) /\ current \in Seq(Int)
      BY Typed
    <2>3. \A s \in Seq(Int) : Len(s) \in Nat
      BY LenProperties
    <2> QED BY <2>1, <2>2, <2>3, AheadTyped
  <1>3. Ahead' \in Seq(Int) /\ Len(Ahead') \in Nat
    BY AheadTypedNext, LenProperties
  <1>4. CASE Stays
    BY <1>1, <1>4 DEF Stays, CountInv
  <1>5. CASE Arrives
    <2>1. Len(Ahead') = Len(Ahead) + 1
      <3>1. received + 1 \in Int
        BY <1>2
      <3>2. <<received + 1>> \in Seq(Int) /\ Len(<<received + 1>>) = 1
        BY <3>1, Short
      <3> QED BY <1>2, <1>5, <3>2, Joined DEF Arrives
    <2>2. received' = received + 1 /\ cleared' = cleared /\ Taken' = Taken
      BY <1>5 DEF Arrives
    <2>3. \A m, n, c, r, f \in Nat : m + n * f + c = r * f => m + (n + 1) * f + c = (r + 1) * f
      OBVIOUS
    <2>4. Len(Taken) + (Len(Ahead) + 1) * FrameBytes + cleared = (received + 1) * FrameBytes
      <3> DEFINE a == Len(Ahead)
                 t == Len(Taken)
                 F == FrameBytes
      <3>1. a \in Nat /\ t \in Nat /\ F \in Nat /\ cleared \in Nat /\ received \in Nat /\ t + a * F + cleared = received * F
        BY <1>1, <1>2
      <3> HIDE DEF a, t, F
      <3>2. t + (a + 1) * F + cleared = (received + 1) * F
        BY <2>3, <3>1
      <3> QED BY <3>2 DEF a, t, F
    <2> QED BY <2>1, <2>2, <2>4 DEF CountInv
  <1>6. ASSUME NEW k \in FrameNos, Takes(k) PROVE CountInv'
    <2>1. k \in Nat /\ k # 0 /\ k \in Int
      BY DEF FrameNos
    <2>2. Len(Ahead) = 1 + Len(Ahead')
      <3>1. <<k>> \in Seq(Int) /\ Len(<<k>>) = 1
        BY <2>1, Short
      <3> QED BY <1>3, <1>6, <3>1, Joined DEF Takes
    <2>3. Len(Taken') = Len(Taken) + FrameBytes
      <3>1. Bytes(k) \in Seq(Int) /\ Len(Bytes(k)) = FrameBytes
        BY <2>1, BytesOfFrame
      <3>2. \A s \in Seq(Int) : Len(Taken \o s) = Len(Taken) + Len(s)
        BY <1>2, Joined
      <3> QED BY <1>6, <3>1, <3>2 DEF Takes
    <2>4. UNCHANGED <<received, cleared>>
      BY <1>6 DEF Takes
    <2>5. \A m, n, c, r, f \in Nat : m + (1 + n) * f + c = r * f => (m + f) + n * f + c = r * f
      OBVIOUS
    <2>6. (Len(Taken) + FrameBytes) + Len(Ahead') * FrameBytes + cleared = received * FrameBytes
      <3> DEFINE b == Len(Ahead')
                 t == Len(Taken)
                 F == FrameBytes
      <3>1. b \in Nat /\ t \in Nat /\ F \in Nat /\ cleared \in Nat /\ received \in Nat
        BY <1>2, <1>3
      <3>2. t + (1 + b) * F + cleared = received * F
        BY <1>1, <2>2
      <3> HIDE DEF b, t, F
      <3>3. (t + F) + b * F + cleared = received * F
        BY <2>5, <3>1, <3>2
      <3> QED BY <3>3 DEF b, t, F
    <2> QED BY <2>3, <2>4, <2>6 DEF CountInv
  <1>7. CASE Clears
    <2>1. /\ Ahead' = Hand /\ Taken' = delivered /\ received' = received
          /\ cleared' = cleared + (Len(current) + Len(inbound) * FrameBytes) + Len(channel) * FrameBytes
      BY <1>7 DEF Clears
    <2>2. \A d, u, i, h, c, x, r, f \in Nat :
            (d + u) + (i + h + c) * f + x = r * f => d + h * f + (x + (u + i * f) + c * f) = r * f
      OBVIOUS
    <2>3. (Len(delivered) + Len(current)) + (Len(inbound) + Len(Hand) + Len(channel)) * FrameBytes + cleared
            = received * FrameBytes
      BY <1>1, <1>2
    <2>4. Len(delivered) + Len(Hand) * FrameBytes
             + (cleared + (Len(current) + Len(inbound) * FrameBytes) + Len(channel) * FrameBytes)
            = received * FrameBytes
      BY <1>2, <2>2, <2>3
    <2> QED BY <2>1, <2>4 DEF CountInv
  <1> QED BY <1>0, <1>4, <1>5, <1>6, <1>7

-----------------------------------------------------------------------------
(* The theorems *)

AudioInv == TypeOK /\ WriteInv /\ PumpInv /\ OrderInv /\ CountInv

\* The inductive invariant: every read(), write(), clear(), close() and pump
\* step of audio.ts keeps the stream typed, accounted for and in order.
THEOREM AudioInvariant == Spec => []AudioInv
  <1>1. Init => AudioInv
    BY TypeInit, WriteInit, OrderInit DEF AudioInv
  <1>2. AudioInv /\ [Next]_vars => AudioInv'
    <2> SUFFICES ASSUME AudioInv, [Next]_vars PROVE AudioInv'
      OBVIOUS
    <2>1. TypeOK /\ WriteInv /\ PumpInv /\ OrderInv /\ CountInv
      BY DEF AudioInv
    <2>2. TypeOK'
      BY <2>1, TypeStep
    <2>3. WriteInv' /\ PumpInv' /\ OrderInv' /\ CountInv'
      BY <2>1, <2>2, WriteStep, PumpStep, OrderStep, CountStep
    <2> QED BY <2>2, <2>3 DEF AudioInv
  <1> QED BY <1>1, <1>2, PTL DEF Spec

\* Concurrent write() calls of any sizes reach the wire as one byte stream in
\* the order of the calls: nothing accepted is missing, repeated or reordered,
\* for every frame size and any number of calls, as long as no write was cut
\* off in the middle (write() of audio.ts).
THEOREM WritesInOrderTheorem == Spec => []WritesInOrder
  <1>1. AudioInv => WritesInOrder
    BY DEF AudioInv, WriteInv, Accounts, Stream, All, WritesInOrder
  <1> QED BY <1>1, AudioInvariant, PTL

\* The bytes of a sequence of frames, byte by byte.
LEMMA DataOfFrames ==
    ASSUME NEW n \in Nat, NEW fs \in Seq(Int), NEW bs \in Seq(Int), InOrder(n, fs, bs)
    PROVE  /\ FrameData(fs) \in Seq(Int) /\ Len(FrameData(fs)) = Len(fs) * FrameBytes
           /\ IsOrdered(FrameData(fs)) /\ Before(bs, FrameData(fs))
  <1> DEFINE F == FrameBytes
             L == Len(fs) * F
             q(i) == (i - 1) \div F
             r(i) == (i - 1) % F
             d == FrameData(fs)
  <1>1. F \in Nat /\ F > 0 /\ Len(fs) \in Nat
    BY FormatAssumption, LenProperties
  <1>2. L \in Nat
    BY <1>1
  <1>3. ASSUME NEW i \in 1 .. L
        PROVE  /\ q(i) \in Nat /\ r(i) \in 0 .. F - 1 /\ i = q(i) * F + r(i) + 1
               /\ q(i) + 1 \in 1 .. Len(fs)
    <2> DEFINE m == i - 1
               x == m \div F
               y == m % F
    <2>1. m \in Nat /\ m < L
      BY <1>2
    <2> HIDE DEF m
    <2>2. x \in Int /\ y \in 0 .. F - 1 /\ m = F * x + y
      BY <1>1, <2>1
    <2> HIDE DEF x, y
    <2>3. x >= 0
      <3> SUFFICES ASSUME x <= -1 PROVE FALSE
        BY <2>2
      <3>1. F * x \in Int /\ F * x <= -F
        BY <1>1, <2>2
      <3>2. y \in Int /\ y <= F - 1
        BY <1>1, <2>2
      <3>3. ASSUME NEW u \in Int, NEW v \in Int, NEW f \in Int, u <= -f, v <= f - 1 PROVE ~(u + v >= 0)
        BY <3>3
      <3>4. F * x + y >= 0
        BY <2>1, <2>2
      <3> HIDE DEF F
      <3> QED BY <1>1, <3>1, <3>2, <3>3, <3>4
    <2>4. x < Len(fs)
      <3> SUFFICES ASSUME x >= Len(fs) PROVE FALSE
        BY <1>1, <2>2
      <3>1. \A u, v \in Int : u >= v => F * u >= v * F /\ F * u \in Int /\ v * F \in Int
        BY <1>1
      <3>2. F * x >= L /\ F * x \in Int
        <4>1. x \in Int /\ Len(fs) \in Int /\ x >= Len(fs)
          BY <1>1, <2>2
        <4> HIDE DEF F, x
        <4>2. F * x >= Len(fs) * F /\ F * x \in Int
          BY <3>1, <4>1
        <4> QED BY <4>2
      <3>3. \A u, v \in Int : v >= 0 => u + v >= u
        OBVIOUS
      <3>4. y \in Int /\ y >= 0
        BY <1>1, <2>2
      <3> HIDE DEF L, F
      <3> QED BY <1>2, <2>1, <2>2, <3>2, <3>3, <3>4
    <2>5. x \in Nat /\ x + 1 \in 1 .. Len(fs)
      BY <1>1, <2>2, <2>3, <2>4
    <2>6. i = x * F + y + 1
      <3>1. i = m + 1 /\ F * x = x * F
        BY <1>1, <2>2 DEF m
      <3> QED BY <1>1, <2>2, <3>1
    <2> QED BY <2>2, <2>5, <2>6 DEF x, y, m
  <1> HIDE DEF L
  <1>4. \A k \in 1 .. Len(fs) : fs[k] \in Nat /\ fs[k] # 0 /\ fs[k] \in Elems(fs)
    <2>1. \A k \in 1 .. Len(fs) : fs[k] \in Elems(fs)
      BY DEF Elems
    <2>2. \A f \in Elems(fs) : f \in Nat /\ f # 0
      BY DEF InOrder
    <2> QED BY <2>1, <2>2
  <1>5. ASSUME NEW k \in Nat, NEW j \in 1 .. F PROVE Bytes(k)[j] = (k - 1) * F + j
    BY DEF Bytes
  <1>6. d = [i \in 1 .. L |-> Bytes(fs[q(i) + 1])[r(i) + 1]]
    BY DEF FrameData, L
  <1> HIDE DEF d
  <1>7. ASSUME NEW i \in 1 .. L
        PROVE  d[i] = (fs[q(i) + 1] - 1) * F + (r(i) + 1)
    <2>1. r(i) + 1 \in 1 .. F /\ q(i) + 1 \in 1 .. Len(fs)
      BY <1>1, <1>3
    <2>2. d[i] = Bytes(fs[q(i) + 1])[r(i) + 1]
      BY <1>6
    <2>3. fs[q(i) + 1] \in Nat
      BY <1>4, <2>1
    <2> HIDE DEF q, r, F
    <2> QED BY <1>5, <2>1, <2>2, <2>3
  <1> HIDE DEF q, r, F
  <1>8. ASSUME NEW i \in 1 .. L PROVE d[i] \in Int
    <2>1. fs[q(i) + 1] \in Int /\ r(i) \in Int
      BY <1>3, <1>4
    <2>2. \A m, n1 \in Int : (m - 1) * F + (n1 + 1) \in Int
      BY <1>1
    <2> QED BY <1>7, <2>1, <2>2
  <1>9. d \in Seq(Int) /\ Len(d) = L
    <2>1. DOMAIN d = 1 .. L /\ d = [i \in 1 .. L |-> d[i]]
      BY <1>6
    <2>2. [i \in 1 .. L |-> d[i]] \in Seq(Int)
      BY <1>2, <1>8
    <2>3. d \in Seq(Int)
      BY <2>1, <2>2
    <2>4. Len(d) \in Nat /\ DOMAIN d = 1 .. Len(d)
      BY <2>3, LenProperties
    <2> QED BY <1>2, <2>1, <2>3, <2>4
  <1>10. ASSUME NEW i \in 1 .. L, NEW j \in 1 .. L, i < j PROVE d[i] < d[j]
    <2> DEFINE a == q(i)
               b == q(j)
               x == r(i)
               y == r(j)
               A == fs[a + 1]
               B == fs[b + 1]
    <2>1. /\ a \in Nat /\ b \in Nat /\ x \in 0 .. F - 1 /\ y \in 0 .. F - 1
          /\ i = a * F + x + 1 /\ j = b * F + y + 1
          /\ a + 1 \in 1 .. Len(fs) /\ b + 1 \in 1 .. Len(fs)
      BY <1>3
    <2>2. d[i] = (A - 1) * F + (x + 1) /\ d[j] = (B - 1) * F + (y + 1) /\ A \in Nat /\ B \in Nat
      BY <1>4, <1>7, <2>1
    <2>3. a < b => A < B
      <3>1. a < b => a + 1 < b + 1
        BY <2>1
      <3> QED BY <2>1, <3>1 DEF InOrder, IsOrdered
    <2>4. a = b => A = B
      OBVIOUS
    <2> HIDE DEF a, b, x, y, A, B
    <2>5. a <= b
      <3> SUFFICES ASSUME b + 1 <= a PROVE FALSE
        BY <2>1
      <3>1. (b + 1) * F <= a * F
        BY <1>1, <2>1
      <3>2. (b + 1) * F = b * F + F /\ a * F \in Int /\ b * F \in Int
        BY <1>1, <2>1
      <3>3. b * F + y + 1 <= a * F
        <4>1. \A u, v, w, f \in Int : u <= v /\ u = w + f /\ y <= f - 1 => w + y + 1 <= v
          BY <2>1
        <4>2. y <= F - 1 /\ F \in Int /\ (b + 1) * F \in Int
          BY <1>1, <2>1
        <4> QED BY <3>1, <3>2, <4>1, <4>2
      <3>4. ASSUME NEW u \in Int, NEW v \in Int, NEW w \in Int, NEW z \in Int, u + z + 1 <= v, w >= 0
            PROVE  ~(v + w + 1 < u + z + 1)
        BY <3>4
      <3>5. a * F + x + 1 < b * F + y + 1 /\ x \in Int /\ x >= 0 /\ y \in Int
        BY <1>1, <1>10, <2>1
      <3> QED BY <3>2, <3>3, <3>4, <3>5
    <2>6. CASE a = b
      <3>1. a * F \in Int /\ (A - 1) * F \in Int
        BY <1>1, <2>1, <2>2
      <3>2. x < y
        BY <1>10, <2>1, <2>6, <3>1
      <3> QED BY <2>1, <2>2, <2>4, <2>6, <3>1, <3>2
    <2>7. CASE a < b
      <3>1. A <= B - 1
        BY <2>2, <2>3, <2>7
      <3>2. A * F <= (B - 1) * F
        BY <1>1, <2>2, <3>1
      <3>3. (A - 1) * F + F = A * F /\ A * F \in Int /\ (A - 1) * F \in Int /\ (B - 1) * F \in Int
        BY <1>1, <2>2
      <3>4. (A - 1) * F + (x + 1) <= A * F
        BY <1>1, <2>1, <3>3
      <3>5. ASSUME NEW u \in Int, NEW v \in Int, NEW w \in Int, NEW k \in Nat, u <= v, v <= w PROVE u < w + (k + 1)
        BY <3>5
      <3>6. (A - 1) * F + (x + 1) \in Int /\ y \in Nat
        BY <1>1, <2>1, <3>3
      <3>7. (A - 1) * F + (x + 1) < (B - 1) * F + (y + 1)
        BY <3>2, <3>3, <3>4, <3>5, <3>6
      <3> QED BY <2>2, <3>7
    <2> QED BY <2>1, <2>5, <2>6, <2>7
  <1>11. IsOrdered(d)
    BY <1>9, <1>10 DEF IsOrdered
  <1>12. Before(bs, d)
    <2> SUFFICES ASSUME NEW b \in Elems(bs), NEW i \in 1 .. L PROVE b < d[i]
      BY <1>9 DEF Before, Elems
    <2>1. q(i) + 1 \in 1 .. Len(fs) /\ r(i) \in Nat
      BY <1>1, <1>3
    <2> DEFINE A == fs[q(i) + 1]
    <2>2. A \in Elems(fs) /\ A \in Nat
      BY <1>4, <2>1
    <2>3. b \in Int
      BY ElementOfSeq DEF Elems
    <2>4. b <= (A - 1) * F
      BY <2>2 DEF InOrder, F
    <2>5. d[i] = (A - 1) * F + (r(i) + 1)
      BY <1>7
    <2> HIDE DEF A
    <2>6. (A - 1) * F \in Int
      BY <1>1, <2>2
    <2> QED BY <2>1, <2>3, <2>4, <2>5, <2>6
  <1> QED BY <1>9, <1>11, <1>12 DEF d, L, F

\* Reads of any sizes, hand-overs to a parked read, the parked pump and clears
\* never repeat, lose or reorder bytes on their way to read(), for every frame
\* size and queue capacity (#readFrames, read() and clear() of audio.ts).
THEOREM ReadsExactTheorem == Spec => []ReadsExact
  <1>1. AudioInv => ReadsExact
    <2> SUFFICES ASSUME AudioInv PROVE ReadsExact
      OBVIOUS
    <2> DEFINE D == FrameData(Ahead)
    <2>1. TypeOK /\ PumpInv /\ InOrder(received, Ahead, Taken) /\ CountInv
      BY DEF AudioInv, OrderInv
    <2>2. /\ delivered \in Seq(Int) /\ current \in Seq(Int) /\ Ahead \in Seq(Int) /\ Taken \in Seq(Int)
          /\ received \in Nat /\ Len(Taken) = Len(delivered) + Len(current)
      <3>1. received \in Nat
        BY <2>1 DEF TypeOK
      <3>2. delivered \in Seq(Int) /\ current \in Seq(Int)
        BY <2>1, Typed
      <3> QED BY <2>1, <3>1, <3>2, AheadTyped
    <2>3. /\ D \in Seq(Int) /\ Len(D) = Len(Ahead) * FrameBytes
          /\ IsOrdered(D) /\ Before(Taken, D)
      BY <2>1, <2>2, DataOfFrames
    <2>4. Unread = current \o D
      BY DEF Unread, Ahead, Hand
    <2> HIDE DEF D
    <2>5. delivered \o Unread = Taken \o D
      <3>1. Three(delivered, current, D) = OneTwo(delivered, current, D)
        BY <2>2, <2>3, Associative
      <3> QED BY <2>4, <3>1 DEF Taken, Three, OneTwo
    <2>6. IsOrdered(delivered \o Unread)
      <3>1. IsOrdered(Taken)
        BY <2>1 DEF InOrder
      <3> QED BY <2>2, <2>3, <2>5, <3>1, Joined
    <2>7. ~closed => Len(delivered) + Len(Unread) + cleared = received * FrameBytes
      <3>1. Len(Unread) = Len(current) + Len(D)
        BY <2>2, <2>3, <2>4, Joined
      <3>2. /\ Len(delivered) \in Nat /\ Len(current) \in Nat /\ Len(D) \in Nat /\ cleared \in Nat
        BY <2>1, <2>2, <2>3, LenProperties DEF TypeOK
      <3>3. ~closed => Len(Taken) + Len(D) + cleared = received * FrameBytes
        BY <2>1, <2>3 DEF CountInv
      <3>4. \A m, n, k, c \in Nat : m + (n + k) + c = (m + n) + k + c
        OBVIOUS
      <3> QED BY <2>2, <3>1, <3>2, <3>3, <3>4
    <2>8. pump = "push" /\ ~closed => Len(inbound) = QueueFrames /\ held # 0
      BY <2>1 DEF PumpInv
    <2>9. parked => current = <<>> /\ inbound = <<>> /\ held = 0 /\ ~ended
      BY <2>1 DEF PumpInv
    <2> QED BY <2>1, <2>6, <2>7, <2>8, <2>9 DEF ReadsExact
  <1> QED BY <1>1, AudioInvariant, PTL

\* clear() leaves at most the frame in the hands of the pump behind, for every
\* frame size and queue capacity (clear() of audio.ts).
THEOREM ClearTheorem == Spec => ClearLeavesOneFrame
  <1> DEFINE A == cleared' # cleared => Len(inbound') <= 1 /\ current' = <<>> /\ channel' = <<>>
  <1>1. ASSUME [Next]_vars PROVE [A]_vars
    <2> USE DEF vars, writeVars, readVars
    <2>1. CASE Clear
      <3>1. Len(inbound') <= 1
        <4>1. Len(<<>>) = 0 /\ Len(<<held>>) = 1
          OBVIOUS
        <4>2. inbound' = <<>> \/ inbound' = <<held>>
          BY <2>1 DEF Clear
        <4>3. CASE inbound' = <<>>
          BY <4>1, <4>3
        <4>4. CASE inbound' = <<held>>
          BY <4>1, <4>4
        <4> QED BY <4>2, <4>3, <4>4
      <3> QED BY <2>1, <3>1 DEF Clear
    <2>2. CASE \E mode \in {"frames", "native"} : Bind(mode)
      BY <2>2 DEF Bind
    <2>3. CASE \E n \in 1 .. MaxWrite : Write(n)
      BY <2>3 DEF Write
    <2>4. CASE WriteBegins \/ WriteRefused \/ FrameWritten \/ WriteFails \/ WriteReturns
      BY <2>4 DEF WriteBegins, WriteRefused, FrameWritten, WriteFails, WriteReturns
    <2>5. CASE FrameReceived \/ PumpReceives \/ PumpFails \/ PumpAborted
      BY <2>5 DEF FrameReceived, PumpReceives, PumpFails, PumpAborted
    <2>6. CASE (\E n \in 1 .. FrameBytes : Read(n)) \/ (\E abort \in BOOLEAN : ReadRejected(abort))
      BY <2>6 DEF Read, ReadRejected
    <2>7. CASE ReadTakes \/ ReadParks \/ UNCHANGED vars
      BY <2>7 DEF ReadTakes, ReadParks
    <2>8. CASE Close \/ ChannelClosed \/ CloseReturns
      BY <2>8 DEF Close, ChannelClosed, CloseReturns
    <2> QED BY <1>1, <2>1, <2>2, <2>3, <2>4, <2>5, <2>6, <2>7, <2>8 DEF Next
  <1> QED BY <1>1, PTL DEF Spec, ClearLeavesOneFrame
=============================================================================
