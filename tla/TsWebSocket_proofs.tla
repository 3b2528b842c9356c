------------------------- MODULE TsWebSocket_proofs -------------------------
(***************************************************************************)
(* Proofs about TsWebSocket, for every queue capacity, every high-water     *)
(* mark, every number of allowed misses and any amount of traffic:          *)
(*   - the factory rejects, and close() resolves, only with the socket      *)
(*     closed (NoSocketLeak);                                               *)
(*   - at most maxMisses pongs are under way or queued                      *)
(*     (PongBacklogBounded);                                                *)
(*   - the write chain keeps order, loses nothing silently, and close()     *)
(*     flushes it (WriteOrder);                                             *)
(*   - readers see what arrived, without a gap (InboundExact).              *)
(***************************************************************************)
EXTENDS TsWebSocket, SequenceTheorems, TLAPS

-----------------------------------------------------------------------------
(* The inductive invariant *)

PongKinds == {"fresh", "stale"}

TypeOK ==
    /\ platform \in {"node", "browser"}
    /\ phase \in {"dial", "failing", "failed", "up"}
    /\ sock \in {"connecting", "open", "closing", "closed"}
    /\ adapter \in {"idle", "flush", "closing", "errored"}
    /\ downBy \in {"none", "peer", "finish", "close", "dial"}
    /\ shut \in BOOLEAN /\ live \in BOOLEAN /\ mending \in BOOLEAN
    /\ closer \in {"no", "tail", "socket", "done"}
    /\ tail \in Seq(Nat) /\ sent \in Nat /\ written \in Seq(Nat)
    /\ arrived \in [Kinds -> Nat] /\ cleared \in Nat
    /\ queue \in [Kinds -> Seq(Nat)] /\ got \in [Kinds -> Seq(Nat)]
    /\ ka \in {"off", "delay", "ping", "wait", "failed", "ended"}
    /\ misses \in Nat /\ pongs \in Seq(PongKinds) /\ owed \in Seq(PongKinds)
    /\ sess \in {"none", "running", "stopping", "ended"}

\* A close() resolved by an error is one of ws, and it leaves no open socket.
ErrorInv == adapter = "errored" => platform = "node" /\ sock \in {"closing", "closed"}

\* The factory, the transport and the session go through their phases
\* together; close() is called once, by a session that ran, and forbids
\* further writes before it waits for the chain.
LifeInv ==
    /\ ErrorInv
    /\ phase = "failed" => sock = "closed"
    /\ phase = "up" => sock # "connecting"
    /\ phase = "up" <=> sess # "none"
    /\ closer = "no" <=> sess \in {"none", "running"}
    /\ closer # "no" => shut
    /\ closer \in {"socket", "done"} => tail = <<>> /\ ~mending
    /\ closer = "done" => AdapterDone /\ ~live
    /\ phase # "up" => tail = <<>> /\ ka = "off" /\ ~live /\ ~shut
    /\ closer = "no" /\ phase = "up" => (live <=> ~shut)

\* At most one ping is chained, and only for a monitor that waits for it to be
\* written or has been ended meanwhile.  Of all the pongs under way only the
\* last can be fresh, so that when it is shifted no other one is left; until
\* then each ping that went unanswered has cost a miss.
PongInv ==
    /\ ka = "off" => misses = 0 /\ owed = <<>> /\ pongs = <<>>
    /\ ka \notin {"ping", "ended"} => \A i \in 1 .. Len(tail) : tail[i] # Ping
    /\ \A i, j \in 1 .. Len(tail) : tail[i] = Ping /\ tail[j] = Ping => i = j
    /\ ka \in {"delay", "ping", "wait"} => misses < MaxMisses
    /\ ka \in {"delay", "ping"} => Len(owed) + Len(pongs) <= misses
    /\ ka = "wait" => Len(owed) + Len(pongs) <= misses + 1
    /\ Len(owed) + Len(pongs) <= MaxMisses
    /\ (\E i \in 1 .. Len(tail) : tail[i] = Ping) => Len(owed) + Len(pongs) < MaxMisses
    /\ \A i \in 1 .. Len(pongs) : pongs[i] = "fresh" => i = Len(pongs) /\ owed = <<>>
    /\ \A i \in 1 .. Len(owed) : owed[i] = "fresh" => i = Len(owed)

\* Before close() has reached the socket, only the peer and #finish take it
\* down; a write that was rejected found it down.
DownInv ==
    /\ phase = "dial" => adapter = "idle"
    /\ phase = "up" /\ closer \in {"no", "tail"} /\ (sock # "open" \/ adapter = "flush") =>
         downBy \in {"peer", "finish"}
    /\ rejected # {} => phase = "up" /\ sock # "open" /\ downBy \in {"peer", "finish"}

\* The sends in the chain are in order, and together with the rejected ones
\* they are those the socket has not taken.
ChainInv ==
    /\ Len(written) <= sent
    /\ \A i \in 1 .. Len(written) : written[i] = i
    /\ \A i, j \in 1 .. Len(tail) : i < j /\ tail[i] # Ping /\ tail[j] # Ping => tail[i] < tail[j]
    /\ rejected \cup Chained = (Len(written) + 1) .. sent
    /\ rejected \cap Chained = {}

\* What readers have and what waits for them are numbered without a gap
\* (text) and increasingly (binary), up to the last arrival.
Increasing(s) == \A i, j \in 1 .. Len(s) : i < j => s[i] < s[j]
InboundInv ==
    /\ closer = "no" =>
         /\ \A i \in 1 .. Len(got["text"]) : got["text"][i] = i
         /\ \A i \in 1 .. Len(queue["text"]) : queue["text"][i] = Len(got["text"]) + i
         /\ ~shut => /\ Len(got["text"]) + Len(queue["text"]) = arrived["text"]
                     /\ Len(got["binary"]) + Len(queue["binary"]) + cleared = arrived["binary"]
    /\ Increasing(got["binary"]) /\ Increasing(queue["binary"])
    /\ \A i \in 1 .. Len(got["binary"]), j \in 1 .. Len(queue["binary"]) : got["binary"][i] < queue["binary"][j]
    /\ \A i \in 1 .. Len(got["binary"]) : got["binary"][i] <= arrived["binary"]
    /\ \A i \in 1 .. Len(queue["binary"]) : queue["binary"][i] <= arrived["binary"]

-----------------------------------------------------------------------------
(* Types *)

LEMMA AppendType ==
    ASSUME NEW S, NEW s \in Seq(S), NEW x \in S
    PROVE  /\ Append(s, x) \in Seq(S) /\ Len(Append(s, x)) = Len(s) + 1
           /\ \A i \in 1 .. Len(s) : Append(s, x)[i] = s[i]
           /\ Append(s, x)[Len(s) + 1] = x
  BY AppendProperties

LEMMA TailType ==
    ASSUME NEW S, NEW s \in Seq(S), s # <<>>
    PROVE  /\ Len(s) \in Nat /\ Len(s) >= 1
           /\ Head(s) \in S /\ Head(s) = s[1]
           /\ Tail(s) \in Seq(S) /\ Len(Tail(s)) = Len(s) - 1
           /\ \A i \in 1 .. Len(Tail(s)) : Tail(s)[i] = s[i + 1]
  <1>1. Len(s) \in Nat /\ Len(s) >= 1
    BY EmptySeq, LenProperties
  <1>2. Head(s) \in S /\ Tail(s) \in Seq(S)
    BY HeadTailProperties
  <1>3. Head(s) = s[1] /\ Len(Tail(s)) = Len(s) - 1 /\ \A i \in 1 .. Len(Tail(s)) : Tail(s)[i] = s[i + 1]
    BY <1>1, HeadTailProperties
  <1> QED BY <1>1, <1>2, <1>3

\* What AdapterClose does to the socket and the adapter, on either platform.
LEMMA AdapterCloseEffect ==
    ASSUME TypeOK, NEW by \in {"peer", "finish", "close", "dial"}, AdapterClose(by)
    PROVE  /\ sock' \in {sock, "closing"} /\ adapter' \in {"idle", "flush", "closing", "errored"}
           /\ sock = "closed" => sock' = "closed"
           /\ downBy' \in {downBy, by}
           /\ sock # "open" => downBy' = downBy /\ (adapter' = "flush" => adapter = "flush")
           /\ sock = "open" /\ adapter = "idle" => downBy' = by
           /\ adapter # "idle" => adapter' = adapter /\ sock' = sock /\ downBy' = downBy
  BY DEF TypeOK, AdapterClose, BrowserAdapterClose, NodeAdapterClose, Down

\* ... and Finish to the flags of the transport.
LEMMA FinishEffect ==
    ASSUME TypeOK, Finish
    PROVE  /\ shut' = TRUE /\ live' \in BOOLEAN
           /\ shut => live' = live /\ sock' = sock /\ downBy' = downBy /\ adapter' = adapter
           /\ ~shut => live' = FALSE /\ AdapterClose("finish")
  BY DEF TypeOK, Finish

LEMMA StaleType ==
    ASSUME NEW s \in Seq(PongKinds)
    PROVE  /\ [i \in DOMAIN s |-> "stale"] \in Seq(PongKinds)
           /\ Len([i \in DOMAIN s |-> "stale"]) = Len(s)
           /\ \A i \in 1 .. Len(s) : [j \in DOMAIN s |-> "stale"][i] = "stale"
  <1>1. DOMAIN s = 1 .. Len(s) /\ Len(s) \in Nat
    BY LenProperties
  <1>2. [i \in 1 .. Len(s) |-> "stale"] \in Seq(PongKinds)
    BY <1>1, IsASeq DEF PongKinds
  <1>3. Len([i \in 1 .. Len(s) |-> "stale"]) = Len(s)
    BY <1>1, <1>2, LenProperties
  <1> QED BY <1>1, <1>2, <1>3

LEMMA TypeInit == Init => TypeOK
  <1> SUFFICES ASSUME Init PROVE TypeOK
    OBVIOUS
  <1>1. tail \in Seq(Nat) /\ written \in Seq(Nat) /\ pongs \in Seq(PongKinds) /\ owed \in Seq(PongKinds)
    BY DEF Init
  <1>2. queue \in [Kinds -> Seq(Nat)] /\ got \in [Kinds -> Seq(Nat)] /\ arrived \in [Kinds -> Nat]
    BY DEF Init
  <1>3. shut \in BOOLEAN /\ live \in BOOLEAN /\ mending \in BOOLEAN
    BY DEF Init
  <1> QED BY <1>1, <1>2, <1>3 DEF Init, TypeOK

\* The type invariant is kept by every step, in three parts: the socket and
\* the phases, the chain and the monitor, the inbound queues.
LEMMA PhaseTypeStep ==
    ASSUME TypeOK, [Next]_vars
    PROVE  /\ platform' \in {"node", "browser"}
           /\ phase' \in {"dial", "failing", "failed", "up"}
           /\ sock' \in {"connecting", "open", "closing", "closed"}
           /\ adapter' \in {"idle", "flush", "closing", "errored"}
           /\ downBy' \in {"none", "peer", "finish", "close", "dial"}
           /\ shut' \in BOOLEAN /\ live' \in BOOLEAN
           /\ closer' \in {"no", "tail", "socket", "done"}
           /\ sess' \in {"none", "running", "stopping", "ended"}
  <1> USE DEF vars, socketVars, writeVars, readVars, kaVars
  <1> DEFINE Goal ==
           /\ platform' \in {"node", "browser"}
           /\ phase' \in {"dial", "failing", "failed", "up"}
           /\ sock' \in {"connecting", "open", "closing", "closed"}
           /\ adapter' \in {"idle", "flush", "closing", "errored"}
           /\ downBy' \in {"none", "peer", "finish", "close", "dial"}
           /\ shut' \in BOOLEAN /\ live' \in BOOLEAN
           /\ closer' \in {"no", "tail", "socket", "done"}
           /\ sess' \in {"none", "running", "stopping", "ended"}
  <1>1. ASSUME UNCHANGED <<platform, phase, sock, adapter, downBy, shut, live, closer, sess>> PROVE Goal
    BY <1>1 DEF TypeOK
  <1>2. CASE Opened
    BY <1>2 DEF TypeOK, Opened
  <1>3. CASE DialFails \/ DialRejects
    BY <1>3 DEF TypeOK, DialFails, DialRejects
  <1>4. CASE DialGivenUp
    <2>1. AdapterClose("dial") /\ phase' = "failing"
          /\ UNCHANGED <<platform, shut, live, closer, sess>>
      BY <1>4 DEF DialGivenUp
    <2> QED BY <2>1, AdapterCloseEffect DEF TypeOK
  <1>5. CASE AdapterFlushed \/ PeerCloses
    BY <1>5 DEF TypeOK, AdapterFlushed, PeerCloses, Down
  <1>6. CASE SocketClosed \/ SocketError
    BY <1>6 DEF TypeOK, SocketClosed, SocketError, Down
  <1>7. CASE CloseSocket
    <2>1. AdapterClose("close") /\ closer' = "socket" /\ UNCHANGED <<platform, phase, shut, live, sess>>
      BY <1>7 DEF CloseSocket
    <2> QED BY <2>1, AdapterCloseEffect DEF TypeOK
  <1>8. CASE CloseReturns
    BY <1>8 DEF TypeOK, CloseReturns
  <1>9. ASSUME Finish, UNCHANGED <<platform, phase, closer, sess>> PROVE Goal
    <2>1. CASE shut
      BY <1>9, <2>1, FinishEffect DEF TypeOK
    <2>2. CASE ~shut
      <3>1. AdapterClose("finish") /\ live' = FALSE /\ shut' = TRUE
        BY <1>9, <2>2, FinishEffect
      <3> QED BY <1>9, <3>1, AdapterCloseEffect DEF TypeOK
    <2> QED BY <2>1, <2>2
  <1>10. CASE WriteFails
    BY <1>10, <1>9 DEF WriteFails
  <1>11. ASSUME NEW k \in Kinds, Receive(k) PROVE Goal
    <2>1. CASE Len(queue[k]) < Capacity
      BY <1>11, <2>1, <1>1 DEF Receive
    <2>2. CASE ~(Len(queue[k]) < Capacity)
      BY <1>11, <2>2, <1>9 DEF Receive
    <2> QED BY <2>1, <2>2
  <1>12. ASSUME NEW why \in {"eof", "keepalive", "request"}, SessionStops(why) PROVE Goal
    BY <1>12 DEF TypeOK, SessionStops, CloseBegins
  <1>13. ASSUME NEW timeout \in BOOLEAN, SessionEnds(timeout) PROVE Goal
    BY <1>13 DEF TypeOK, SessionEnds
  <1>14. CASE BufferDrains \/ PeerDies \/ Send \/ Write \/ Mended
    BY <1>14, <1>1 DEF BufferDrains, PeerDies, Send, Write, Mended
  <1>15. CASE ClearBinary \/ KaPings \/ PongArrives \/ KaPong \/ KaMiss \/ KaQueueClosed
    BY <1>15, <1>1 DEF ClearBinary, KaPings, PongArrives, KaPong, KaMiss, KaQueueClosed
  <1>16. CASE \E k \in Kinds : Take(k)
    BY <1>16, <1>1 DEF Take
  <1>17. CASE Over \/ UNCHANGED vars
    BY <1>17, <1>1 DEF Over
  <1> QED
    BY <1>2, <1>3, <1>4, <1>5, <1>6, <1>7, <1>8, <1>10, <1>11, <1>12, <1>13, <1>14, <1>15, <1>16, <1>17 DEF Next

LEMMA ChainTypeStep ==
    ASSUME TypeOK, [Next]_vars
    PROVE  /\ mending' \in BOOLEAN
           /\ tail' \in Seq(Nat) /\ sent' \in Nat /\ written' \in Seq(Nat)
           /\ ka' \in {"off", "delay", "ping", "wait", "failed", "ended"}
           /\ misses' \in Nat /\ pongs' \in Seq(PongKinds) /\ owed' \in Seq(PongKinds)
  <1> USE DEF vars, socketVars, writeVars, readVars, kaVars
  <1> DEFINE Goal ==
           /\ mending' \in BOOLEAN
           /\ tail' \in Seq(Nat) /\ sent' \in Nat /\ written' \in Seq(Nat)
           /\ ka' \in {"off", "delay", "ping", "wait", "failed", "ended"}
           /\ misses' \in Nat /\ pongs' \in Seq(PongKinds) /\ owed' \in Seq(PongKinds)
  <1>1. ASSUME UNCHANGED <<writeVars, kaVars>> PROVE Goal
    BY <1>1 DEF TypeOK
  <1>2. CASE Opened
    BY <1>2 DEF TypeOK, Opened
  <1>3. CASE Send
    <2>1. sent + 1 \in Nat
      BY DEF TypeOK
    <2>2. Append(tail, sent + 1) \in Seq(Nat)
      BY <2>1, AppendType DEF TypeOK
    <2> QED BY <1>3, <2>1, <2>2 DEF TypeOK, Send
  <1>4. CASE Write
    <2>1. Tail(tail) \in Seq(Nat) /\ Head(tail) \in Nat
      BY <1>4, TailType DEF TypeOK, Write
    <2>2. Append(written, Head(tail)) \in Seq(Nat)
      BY <2>1, AppendType DEF TypeOK
    <2>3. [i \in DOMAIN pongs |-> "stale"] \in Seq(PongKinds) /\ [i \in DOMAIN owed |-> "stale"] \in Seq(PongKinds)
      BY StaleType DEF TypeOK
    <2>4. Append([i \in DOMAIN owed |-> "stale"], "fresh") \in Seq(PongKinds)
      <3>1. \A s \in Seq(PongKinds) : Append(s, "fresh") \in Seq(PongKinds)
        BY AppendType DEF PongKinds
      <3> QED BY <3>1, <2>3
    <2>5. pongs' \in Seq(PongKinds) /\ owed' \in Seq(PongKinds) /\ written' \in Seq(Nat)
      BY <1>4, <2>2, <2>3, <2>4 DEF TypeOK, Write
    <2>6. ka' \in {"off", "delay", "ping", "wait", "failed", "ended"} /\ tail' \in Seq(Nat)
          /\ UNCHANGED <<mending, sent, misses>>
      BY <1>4, <2>1 DEF TypeOK, Write
    <2> QED BY <2>5, <2>6 DEF TypeOK
  <1>5. CASE WriteFails
    <2>1. Tail(tail) \in Seq(Nat)
      BY <1>5, TailType DEF TypeOK, WriteFails
    <2>2. mending' \in BOOLEAN
      BY <1>5 DEF TypeOK, WriteFails
    <2> QED BY <1>5, <2>1, <2>2 DEF TypeOK, WriteFails
  <1>6. CASE Mended
    BY <1>6 DEF TypeOK, Mended
  <1>7. CASE KaPings
    <2>1. Append(tail, Ping) \in Seq(Nat)
      BY AppendType DEF TypeOK, Ping
    <2> QED BY <1>7, <2>1 DEF TypeOK, KaPings
  <1>8. CASE PongArrives
    <2>1. Tail(owed) \in Seq(PongKinds) /\ Head(owed) \in PongKinds
      BY <1>8, TailType DEF TypeOK, PongArrives
    <2>2. Append(pongs, Head(owed)) \in Seq(PongKinds)
      BY <2>1, AppendType DEF TypeOK
    <2> QED BY <1>8, <2>1, <2>2 DEF TypeOK, PongArrives
  <1>9. CASE KaPong
    <2>1. Tail(pongs) \in Seq(PongKinds)
      BY <1>9, TailType DEF TypeOK, KaPong
    <2> QED BY <1>9, <2>1 DEF TypeOK, KaPong
  <1>10. CASE KaMiss \/ KaQueueClosed
    BY <1>10 DEF TypeOK, KaMiss, KaQueueClosed
  <1>11. CASE \E why \in {"eof", "keepalive", "request"} : SessionStops(why)
    BY <1>11 DEF TypeOK, SessionStops
  <1>12. CASE DialFails \/ DialGivenUp \/ DialRejects \/ AdapterFlushed \/ BufferDrains \/ PeerCloses
    BY <1>12, <1>1 DEF DialFails, DialGivenUp, DialRejects, AdapterFlushed, BufferDrains, PeerCloses
  <1>13. CASE PeerDies \/ SocketClosed \/ SocketError \/ CloseSocket \/ CloseReturns \/ ClearBinary
    BY <1>13, <1>1 DEF PeerDies, SocketClosed, SocketError, CloseSocket, CloseReturns, ClearBinary
  <1>14. CASE (\E k \in Kinds : Receive(k) \/ Take(k)) \/ (\E timeout \in BOOLEAN : SessionEnds(timeout))
    BY <1>14, <1>1 DEF Receive, Take, SessionEnds
  <1>15. CASE Over \/ UNCHANGED vars
    BY <1>15, <1>1 DEF Over
  <1> QED
    BY <1>2, <1>3, <1>4, <1>5, <1>6, <1>7, <1>8, <1>9, <1>10, <1>11, <1>12, <1>13, <1>14, <1>15 DEF Next

LEMMA InboundTypeStep ==
    ASSUME TypeOK, [Next]_vars
    PROVE  /\ arrived' \in [Kinds -> Nat] /\ cleared' \in Nat
           /\ queue' \in [Kinds -> Seq(Nat)] /\ got' \in [Kinds -> Seq(Nat)]
  <1> USE DEF vars, socketVars, writeVars, readVars, kaVars
  <1>1. CASE UNCHANGED readVars
    BY <1>1 DEF TypeOK
  <1>2. ASSUME NEW k \in Kinds, Receive(k)
        PROVE  /\ arrived' \in [Kinds -> Nat] /\ queue' \in [Kinds -> Seq(Nat)]
               /\ UNCHANGED <<cleared, got>>
    <2>1. arrived[k] + 1 \in Nat
      BY DEF TypeOK
    <2>2. Append(queue[k], arrived[k] + 1) \in Seq(Nat)
      <3>1. queue[k] \in Seq(Nat)
        BY DEF TypeOK
      <3> QED BY <2>1, <3>1, AppendType
    <2>3. Arrival(k) \in [Kinds -> Nat]
      BY <2>1 DEF TypeOK, Arrival
    <2>4. Admit(k) \in [Kinds -> Seq(Nat)]
      BY <2>2 DEF TypeOK, Admit
    <2> QED BY <1>2, <2>3, <2>4 DEF TypeOK, Receive
  <1>3. ASSUME NEW k \in Kinds, Take(k)
        PROVE  /\ queue' \in [Kinds -> Seq(Nat)] /\ got' \in [Kinds -> Seq(Nat)]
               /\ UNCHANGED <<cleared, arrived>>
    <2>1. queue[k] \in Seq(Nat) /\ got[k] \in Seq(Nat) /\ queue[k] # <<>>
      BY <1>3 DEF TypeOK, Take
    <2>2. Head(queue[k]) \in Nat /\ Tail(queue[k]) \in Seq(Nat)
      BY <2>1, TailType
    <2>3. Append(got[k], Head(queue[k])) \in Seq(Nat)
      BY <2>1, <2>2, AppendType
    <2> QED BY <1>3, <2>2, <2>3 DEF TypeOK, Take
  <1>4. CASE ClearBinary
    <2>1. queue["binary"] \in Seq(Nat) /\ "binary" \in Kinds
      BY DEF TypeOK, Kinds
    <2>2. Len(queue["binary"]) \in Nat /\ <<>> \in Seq(Nat)
      BY <2>1, LenProperties
    <2>3. cleared' \in Nat
      BY <1>4, <2>2 DEF TypeOK, ClearBinary
    <2>4. queue' \in [Kinds -> Seq(Nat)] /\ UNCHANGED <<arrived, got>>
      BY <1>4, <2>1, <2>2 DEF TypeOK, ClearBinary
    <2> QED BY <2>3, <2>4 DEF TypeOK
  <1>5. CASE Opened \/ DialFails \/ DialGivenUp \/ DialRejects \/ AdapterFlushed \/ BufferDrains \/ PeerCloses
    BY <1>5, <1>1 DEF Opened, DialFails, DialGivenUp, DialRejects, AdapterFlushed, BufferDrains, PeerCloses
  <1>6. CASE PeerDies \/ SocketClosed \/ SocketError \/ CloseSocket \/ CloseReturns \/ Send \/ Write \/ WriteFails \/ Mended
    BY <1>6, <1>1 DEF PeerDies, SocketClosed, SocketError, CloseSocket, CloseReturns, Send, Write, WriteFails, Mended
  <1>7. CASE KaPings \/ PongArrives \/ KaPong \/ KaMiss \/ KaQueueClosed
    BY <1>7, <1>1 DEF KaPings, PongArrives, KaPong, KaMiss, KaQueueClosed
  <1>8. CASE (\E why \in {"eof", "keepalive", "request"} : SessionStops(why))
             \/ (\E timeout \in BOOLEAN : SessionEnds(timeout))
    BY <1>8, <1>1 DEF SessionStops, SessionEnds
  <1>9. CASE Over \/ UNCHANGED vars
    BY <1>9, <1>1 DEF Over
  <1> QED
    BY <1>2, <1>3, <1>4, <1>5, <1>6, <1>7, <1>8, <1>9 DEF Next, TypeOK

LEMMA TypeStep == TypeOK /\ [Next]_vars => TypeOK'
  <1> SUFFICES ASSUME TypeOK, [Next]_vars PROVE TypeOK'
    OBVIOUS
  <1> QED BY PhaseTypeStep, ChainTypeStep, InboundTypeStep DEF TypeOK

-----------------------------------------------------------------------------
(* The phases *)

LEMMA LifeInit == Init => LifeInv
  BY DEF Init, LifeInv, ErrorInv

\* Once closed, the socket stays closed.
LEMMA ClosedStays ==
    ASSUME TypeOK, [Next]_vars, sock = "closed"
    PROVE  sock' = "closed"
  <1> USE DEF vars, socketVars, writeVars, readVars, kaVars
  <1>1. CASE UNCHANGED sock
    BY <1>1
  <1>2. ASSUME Finish PROVE sock' = "closed"
    <2>1. CASE shut
      BY <1>2, <2>1, FinishEffect
    <2>2. CASE ~shut
      BY <1>2, <2>2, FinishEffect, AdapterCloseEffect
    <2> QED BY <2>1, <2>2
  <1>3. CASE DialGivenUp \/ CloseSocket
    BY <1>3, AdapterCloseEffect DEF DialGivenUp, CloseSocket
  <1>4. CASE WriteFails
    BY <1>4, <1>2 DEF WriteFails
  <1>5. CASE \E k \in Kinds : Receive(k)
    BY <1>5, <1>2 DEF Receive
  <1>6. CASE Opened \/ DialFails \/ DialRejects \/ AdapterFlushed \/ BufferDrains \/ PeerCloses
    BY <1>6 DEF Opened, DialFails, DialRejects, AdapterFlushed, BufferDrains, PeerCloses
  <1>7. CASE PeerDies \/ SocketClosed \/ SocketError \/ CloseReturns \/ ClearBinary
    BY <1>7 DEF PeerDies, SocketClosed, SocketError, CloseReturns, ClearBinary
  <1>8. CASE Send \/ Write \/ Mended
    BY <1>8 DEF Send, Write, Mended
  <1>9. CASE KaPings \/ PongArrives \/ KaPong \/ KaMiss \/ KaQueueClosed
    BY <1>9 DEF KaPings, PongArrives, KaPong, KaMiss, KaQueueClosed
  <1>10. CASE \/ \E k \in Kinds : Take(k)
              \/ \E why \in {"eof", "keepalive", "request"} : SessionStops(why)
              \/ \E timeout \in BOOLEAN : SessionEnds(timeout)
    BY <1>10 DEF Take, SessionStops, SessionEnds
  <1>11. CASE Over \/ UNCHANGED vars
    BY <1>11 DEF Over
  <1> QED
    BY <1>3, <1>4, <1>5, <1>6, <1>7, <1>8, <1>9, <1>10, <1>11 DEF Next

\* A close() that was resolved by an error stays so, and its socket goes on to
\* be closed.
LEMMA ErrorStays ==
    ASSUME TypeOK, ErrorInv, [Next]_vars
    PROVE  ErrorInv' /\ (adapter = "errored" => adapter' = "errored")
  <1> USE DEF vars, socketVars, writeVars, readVars, kaVars
  <1> DEFINE Goal == ErrorInv' /\ (adapter = "errored" => adapter' = "errored")
  <1>1. ASSUME UNCHANGED <<platform, adapter, sock>> PROVE Goal
    BY <1>1 DEF ErrorInv
  <1>2. ASSUME NEW by \in {"peer", "finish", "close", "dial"}, AdapterClose(by), UNCHANGED platform
        PROVE Goal
    BY <1>2 DEF AdapterClose, BrowserAdapterClose, NodeAdapterClose, ErrorInv
  <1>3. ASSUME Finish, UNCHANGED platform PROVE Goal
    BY <1>1, <1>2, <1>3 DEF Finish
  <1>4. CASE DialGivenUp \/ CloseSocket
    BY <1>2, <1>4 DEF DialGivenUp, CloseSocket
  <1>5. CASE WriteFails \/ \E k \in Kinds : Receive(k)
    BY <1>1, <1>3, <1>5 DEF WriteFails, Receive
  <1>6. CASE Opened \/ DialFails \/ DialRejects \/ AdapterFlushed \/ BufferDrains \/ PeerCloses
    BY <1>6 DEF Opened, DialFails, DialRejects, AdapterFlushed, BufferDrains, PeerCloses, Down, ErrorInv
  <1>7. CASE SocketClosed \/ SocketError
    BY <1>7 DEF SocketClosed, SocketError, Down, ErrorInv
  <1>8. CASE PeerDies \/ CloseReturns \/ ClearBinary \/ Send \/ Write \/ Mended
    BY <1>1, <1>8 DEF PeerDies, CloseReturns, ClearBinary, Send, Write, Mended
  <1>9. CASE KaPings \/ PongArrives \/ KaPong \/ KaMiss \/ KaQueueClosed
    BY <1>1, <1>9 DEF KaPings, PongArrives, KaPong, KaMiss, KaQueueClosed
  <1>10. CASE \/ \E k \in Kinds : Take(k)
              \/ \E why \in {"eof", "keepalive", "request"} : SessionStops(why)
              \/ \E timeout \in BOOLEAN : SessionEnds(timeout)
    BY <1>1, <1>10 DEF Take, SessionStops, SessionEnds
  <1>11. CASE Over \/ UNCHANGED vars
    BY <1>1, <1>11 DEF Over
  <1> QED
    BY <1>4, <1>5, <1>6, <1>7, <1>8, <1>9, <1>10, <1>11 DEF Next

LEMMA LifeStep == TypeOK /\ LifeInv /\ [Next]_vars => LifeInv'
  <1> SUFFICES ASSUME TypeOK, LifeInv, [Next]_vars PROVE LifeInv'
    OBVIOUS
  <1> USE DEF vars, socketVars, writeVars, readVars, kaVars
  <1>0. TypeOK' /\ (sock = "closed" => sock' = "closed")
        /\ ErrorInv' /\ (adapter = "errored" => adapter' = "errored")
    BY TypeStep, ClosedStays, ErrorStays DEF LifeInv
  <1> USE <1>0 DEF AdapterDone
  <1>1. ASSUME UNCHANGED <<phase, sess, closer, shut, live, tail, mending, ka>>,
               phase = "up" => sock' # "connecting"
        PROVE LifeInv'
    BY <1>0, <1>1 DEF LifeInv
  <1>2. CASE Opened
    BY <1>2 DEF LifeInv, Opened
  <1>3. CASE DialFails \/ DialGivenUp \/ DialRejects
    BY <1>3 DEF LifeInv, DialFails, DialGivenUp, DialRejects
  <1>4. CASE AdapterFlushed \/ BufferDrains \/ PeerCloses \/ PeerDies
    BY <1>4, <1>1 DEF LifeInv, AdapterFlushed, BufferDrains, PeerCloses, PeerDies, Down
  <1>5. CASE SocketClosed \/ SocketError
    BY <1>5 DEF LifeInv, SocketClosed, SocketError, Down, TypeOK
  <1>6. CASE CloseSocket
    <2>1. sock' \in {sock, "closing"}
      BY <1>6, AdapterCloseEffect DEF CloseSocket
    <2> QED BY <1>6, <2>1, <1>0 DEF LifeInv, CloseSocket
  <1>7. CASE CloseReturns
    BY <1>7 DEF LifeInv, CloseReturns
  <1>8. CASE Send
    BY <1>8 DEF LifeInv, Send
  <1>9. CASE Write
    <2>1. phase = "up" /\ tail # <<>> /\ closer \in {"no", "tail"}
      BY <1>9 DEF LifeInv, Write, TypeOK
    <2> QED BY <1>9, <2>1 DEF LifeInv, Write
  <1>10. ASSUME Finish, phase = "up", sock # "connecting", closer \in {"no", "tail"},
                UNCHANGED <<phase, sess, closer>>
         PROVE LifeInv'
    <2>1. shut' = TRUE
      BY <1>10, FinishEffect
    <2>2. sock' # "connecting"
      <3>1. CASE shut
        BY <1>10, <3>1, FinishEffect
      <3>2. CASE ~shut
        BY <1>10, <3>2, FinishEffect, AdapterCloseEffect
      <3> QED BY <3>1, <3>2
    <2>3. closer = "no" => live' = FALSE
      BY <1>10, FinishEffect DEF LifeInv, TypeOK
    <2> QED BY <1>10, <2>1, <2>2, <2>3 DEF LifeInv
  <1>11. CASE WriteFails
    <2>1. phase = "up" /\ sock # "connecting" /\ closer \in {"no", "tail"}
      BY <1>11 DEF LifeInv, WriteFails, TypeOK
    <2> QED BY <1>10, <1>11, <2>1 DEF WriteFails
  <1>12. CASE Mended
    BY <1>12 DEF LifeInv, Mended
  <1>13. ASSUME NEW k \in Kinds, Receive(k) PROVE LifeInv'
    <2>1. CASE Len(queue[k]) < Capacity
      BY <1>13, <2>1, <1>1 DEF LifeInv, Receive
    <2>2. CASE ~(Len(queue[k]) < Capacity)
      <3>1. phase = "up" /\ live /\ sock # "connecting" /\ closer \in {"no", "tail", "socket"}
        BY <1>13 DEF LifeInv, Receive, TypeOK
      <3>2. CASE closer \in {"no", "tail"}
        BY <1>13, <2>2, <3>1, <3>2, <1>10 DEF Receive
      <3>3. CASE closer = "socket"
        <4>1. shut /\ Finish
          BY <1>13, <2>2, <3>3 DEF LifeInv, Receive
        <4> QED BY <1>13, <3>1, <4>1, <1>1, FinishEffect DEF Receive, Finish
      <3> QED BY <3>1, <3>2, <3>3
    <2> QED BY <2>1, <2>2
  <1>14. CASE (\E k \in Kinds : Take(k)) \/ ClearBinary
    BY <1>14, <1>1 DEF LifeInv, Take, ClearBinary
  <1>15. CASE KaPings
    BY <1>15 DEF LifeInv, KaPings
  <1>16. CASE PongArrives
    BY <1>16, <1>1 DEF LifeInv, PongArrives
  <1>17. CASE KaPong \/ KaMiss \/ KaQueueClosed
    BY <1>17 DEF LifeInv, KaPong, KaMiss, KaQueueClosed
  <1>18. CASE \E why \in {"eof", "keepalive", "request"} : SessionStops(why)
    BY <1>18 DEF LifeInv, SessionStops, CloseBegins
  <1>19. CASE \E timeout \in BOOLEAN : SessionEnds(timeout)
    BY <1>19 DEF LifeInv, SessionEnds
  <1>20. CASE Over \/ UNCHANGED vars
    BY <1>20, <1>1 DEF LifeInv, Over
  <1> QED
    BY <1>2, <1>3, <1>4, <1>5, <1>6, <1>7, <1>8, <1>9, <1>11, <1>12, <1>13, <1>14, <1>15, <1>16, <1>17,
       <1>18, <1>19, <1>20 DEF Next

-----------------------------------------------------------------------------
(* Who takes the socket down *)

LEMMA DownInit == Init => DownInv
  BY DEF Init, DownInv

LEMMA DownStep == TypeOK /\ LifeInv /\ DownInv /\ [Next]_vars => DownInv'
  <1> SUFFICES ASSUME TypeOK, LifeInv, DownInv, [Next]_vars PROVE DownInv'
    OBVIOUS
  <1> USE DEF vars, socketVars, writeVars, readVars, kaVars
  <1>1. ASSUME UNCHANGED <<phase, sock, adapter, downBy, closer, rejected>> PROVE DownInv'
    BY <1>1 DEF DownInv
  <1>2. CASE Opened \/ DialFails \/ DialRejects
    BY <1>2 DEF DownInv, LifeInv, Opened, DialFails, DialRejects
  <1>3. CASE DialGivenUp
    BY <1>3 DEF DownInv, DialGivenUp
  <1>4. CASE AdapterFlushed \/ PeerCloses
    BY <1>4 DEF DownInv, AdapterFlushed, PeerCloses, Down
  <1>5. CASE SocketClosed \/ SocketError
    BY <1>5 DEF DownInv, SocketClosed, SocketError, Down
  <1>6. CASE CloseSocket
    <2>0. phase = "up"
      BY <1>6 DEF LifeInv, CloseSocket
    <2>1. /\ closer' = "socket" /\ UNCHANGED <<phase, rejected>>
          /\ sock # "open" => sock' # "open" /\ downBy' = downBy
      BY <1>6, AdapterCloseEffect DEF CloseSocket
    <2> QED BY <2>0, <2>1 DEF DownInv
  <1>7. CASE CloseReturns
    BY <1>7 DEF DownInv, CloseReturns
  <1>8. ASSUME Finish, phase = "up", UNCHANGED <<phase, closer>>,
               rejected' # {} => rejected # {} \/ (sock # "open" /\ closer \in {"no", "tail"})
        PROVE DownInv'
    <2>1. CASE shut
      BY <1>8, <2>1, FinishEffect DEF DownInv
    <2>2. CASE ~shut
      <3>1. AdapterClose("finish")
        BY <1>8, <2>2, FinishEffect
      <3>2. sock # "open" => sock' # "open" /\ downBy' = downBy /\ (adapter' = "flush" => adapter = "flush")
        BY <3>1, AdapterCloseEffect
      <3>3. sock = "open" /\ adapter = "idle" => downBy' = "finish"
        BY <3>1, AdapterCloseEffect
      <3>4. adapter # "idle" => adapter' = adapter /\ sock' = sock /\ downBy' = downBy
        BY <3>1, AdapterCloseEffect
      <3> QED BY <1>8, <3>2, <3>3, <3>4 DEF DownInv, TypeOK
    <2> QED BY <2>1, <2>2
  <1>9. CASE WriteFails
    <2>1. phase = "up" /\ sock # "open" /\ closer \in {"no", "tail"}
      BY <1>9 DEF LifeInv, TypeOK, WriteFails
    <2> QED BY <1>8, <1>9, <2>1 DEF WriteFails
  <1>10. ASSUME NEW k \in Kinds, Receive(k) PROVE DownInv'
    <2>1. CASE Len(queue[k]) < Capacity
      BY <1>10, <2>1, <1>1 DEF Receive
    <2>2. CASE ~(Len(queue[k]) < Capacity)
      BY <1>10, <2>2, <1>8 DEF LifeInv, Receive
    <2> QED BY <2>1, <2>2
  <1>11. CASE \E why \in {"eof", "keepalive", "request"} : SessionStops(why)
    <2>1. sess = "running" /\ closer' = "tail" /\ UNCHANGED <<phase, sock, adapter, downBy, rejected>>
      BY <1>11 DEF SessionStops, CloseBegins
    <2>2. closer = "no"
      BY <2>1 DEF LifeInv
    <2> QED BY <2>1, <2>2 DEF DownInv
  <1>12. CASE BufferDrains \/ PeerDies \/ Send \/ Write \/ Mended \/ ClearBinary
    BY <1>12, <1>1 DEF BufferDrains, PeerDies, Send, Write, Mended, ClearBinary
  <1>13. CASE KaPings \/ PongArrives \/ KaPong \/ KaMiss \/ KaQueueClosed
    BY <1>13, <1>1 DEF KaPings, PongArrives, KaPong, KaMiss, KaQueueClosed
  <1>14. CASE (\E k \in Kinds : Take(k)) \/ (\E timeout \in BOOLEAN : SessionEnds(timeout))
    BY <1>14, <1>1 DEF Take, SessionEnds
  <1>15. CASE Over \/ UNCHANGED vars
    BY <1>15, <1>1 DEF Over
  <1> QED
    BY <1>2, <1>3, <1>4, <1>5, <1>6, <1>7, <1>9, <1>10, <1>11, <1>12, <1>13, <1>14, <1>15 DEF Next

-----------------------------------------------------------------------------
(* The keepalive monitor *)

LEMMA PongInit == Init => PongInv
  BY WebSocketAssumption DEF Init, PongInv

\* The chain loses its head, or gains a send at its end: the pings in it are
\* the ones that were.
LEMMA PingsAfterTail ==
    ASSUME TypeOK, PongInv, tail # <<>>, tail' = Tail(tail)
    PROVE  /\ \A i, j \in 1 .. Len(tail') : tail'[i] = Ping /\ tail'[j] = Ping => i = j
           /\ (\E i \in 1 .. Len(tail') : tail'[i] = Ping) =>
                 Head(tail) # Ping /\ (\E i \in 1 .. Len(tail) : tail[i] = Ping)
           /\ Head(tail) = Ping => \E i \in 1 .. Len(tail) : tail[i] = Ping
  <1>1. /\ Len(tail) \in Nat /\ Len(tail) >= 1 /\ Head(tail) = tail[1]
        /\ Len(tail') = Len(tail) - 1
        /\ \A i \in 1 .. Len(tail') : tail'[i] = tail[i + 1]
    BY TailType DEF TypeOK
  <1>2. \A i, j \in 1 .. Len(tail) : tail[i] = Ping /\ tail[j] = Ping => i = j
    BY DEF PongInv
  <1>3. \A i \in 1 .. Len(tail') : i + 1 \in 1 .. Len(tail) /\ i + 1 # 1
    BY <1>1
  <1>4. 1 \in 1 .. Len(tail)
    BY <1>1
  <1>5. ASSUME NEW i \in 1 .. Len(tail'), NEW j \in 1 .. Len(tail'), tail'[i] = Ping, tail'[j] = Ping
        PROVE  i = j
    <2>1. i + 1 = j + 1
      BY <1>1, <1>2, <1>3, <1>5
    <2> QED BY <2>1
  <1>6. ASSUME NEW i \in 1 .. Len(tail'), tail'[i] = Ping
        PROVE  Head(tail) # Ping /\ (\E j \in 1 .. Len(tail) : tail[j] = Ping)
    <2>1. tail[i + 1] = Ping /\ i + 1 \in 1 .. Len(tail) /\ i + 1 # 1
      BY <1>1, <1>3, <1>6
    <2> QED BY <2>1, <1>1, <1>2, <1>4
  <1> QED BY <1>1, <1>4, <1>5, <1>6

LEMMA PingsAfterAppend ==
    ASSUME TypeOK, NEW x \in Nat, tail' = Append(tail, x)
    PROVE  /\ \A i \in 1 .. Len(tail') : tail'[i] = Ping => x = Ping \/ (i \in 1 .. Len(tail) /\ tail[i] = Ping)
           /\ \A i \in 1 .. Len(tail') : i \in 1 .. Len(tail) \/ i = Len(tail')
           /\ \A i \in 1 .. Len(tail) : tail'[i] = tail[i]
           /\ Len(tail) \in Nat /\ Len(tail') = Len(tail) + 1 /\ tail'[Len(tail')] = x
  BY AppendType, LenProperties DEF TypeOK

LEMMA PongStep == TypeOK /\ LifeInv /\ PongInv /\ [Next]_vars => PongInv'
  <1> SUFFICES ASSUME TypeOK, LifeInv, PongInv, [Next]_vars PROVE PongInv'
    OBVIOUS
  <1> USE DEF vars, socketVars, writeVars, readVars, kaVars
  <1>0. /\ TypeOK' /\ MaxMisses \in Nat /\ misses \in Nat
        /\ Len(owed) \in Nat /\ Len(pongs) \in Nat /\ Len(tail) \in Nat
    BY TypeStep, WebSocketAssumption, LenProperties DEF TypeOK
  <1>1. ASSUME UNCHANGED <<ka, misses, pongs, owed, tail>> PROVE PongInv'
    BY <1>1 DEF PongInv
  <1>2. CASE Opened
    <2>1. tail = <<>> /\ ka = "off"
      BY <1>2 DEF LifeInv, Opened
    <2>2. owed = <<>> /\ pongs = <<>> /\ misses = 0
      BY <2>1 DEF PongInv
    <2>3. UNCHANGED <<misses, pongs, owed, tail>> /\ ka' \in {"off", "delay"} /\ Len(<<>>) = 0
      BY <1>2 DEF Opened
    <2> QED BY <2>1, <2>2, <2>3, WebSocketAssumption DEF PongInv
  <1>3. CASE Send
    <2>1. sent + 1 \in Nat /\ sent + 1 # Ping /\ tail' = Append(tail, sent + 1)
          /\ UNCHANGED <<ka, misses, pongs, owed>>
      BY <1>3 DEF TypeOK, Send, Ping
    <2>2. \A i \in 1 .. Len(tail') : tail'[i] = Ping => i \in 1 .. Len(tail) /\ tail[i] = Ping
      BY <2>1, PingsAfterAppend
    <2> QED BY <2>1, <2>2 DEF PongInv
  <1>4. CASE Write
    <2>1. tail # <<>> /\ tail' = Tail(tail) /\ UNCHANGED misses
      BY <1>4 DEF Write
    <2>2. CASE Head(tail) # Ping
      <3>1. UNCHANGED <<owed, pongs, ka>>
        BY <1>4, <2>2 DEF Write
      <3>2. \A i \in 1 .. Len(tail') : tail'[i] = Ping => \E j \in 1 .. Len(tail) : tail[j] = Ping
        BY <2>1, PingsAfterTail
      <3>3. ka \notin {"ping", "ended"} => \A i \in 1 .. Len(tail') : tail'[i] # Ping
        BY <3>2 DEF PongInv
      <3>4. \A i, j \in 1 .. Len(tail') : tail'[i] = Ping /\ tail'[j] = Ping => i = j
        BY <2>1, PingsAfterTail
      <3> QED BY <2>1, <3>1, <3>2, <3>3, <3>4 DEF PongInv
    <2>3. CASE Head(tail) = Ping
      <3>1. /\ owed' = Append([i \in DOMAIN owed |-> "stale"], "fresh")
            /\ pongs' = [i \in DOMAIN pongs |-> "stale"]
            /\ ka' = IF ka = "ping" THEN "wait" ELSE ka
        BY <1>4, <2>3 DEF Write
      <3>2. /\ Len(pongs') = Len(pongs) /\ \A i \in 1 .. Len(pongs) : pongs'[i] = "stale"
        BY <3>1, StaleType DEF TypeOK
      <3>3. /\ Len(owed') = Len(owed) + 1
            /\ \A i \in 1 .. Len(owed) : owed'[i] = "stale"
        <4> DEFINE st == [i \in DOMAIN owed |-> "stale"]
        <4>1. /\ st \in Seq(PongKinds) /\ Len(st) = Len(owed)
              /\ \A i \in 1 .. Len(owed) : st[i] = "stale"
          BY StaleType DEF TypeOK
        <4>2. owed' = Append(st, "fresh") /\ "fresh" \in PongKinds
          BY <3>1 DEF PongKinds
        <4> HIDE DEF st
        <4>3. /\ Len(Append(st, "fresh")) = Len(st) + 1
              /\ \A i \in 1 .. Len(st) : Append(st, "fresh")[i] = st[i]
          BY <4>1, <4>2, AppendType
        <4> QED BY <4>1, <4>2, <4>3
      <3>4. ka \in {"ping", "ended"} /\ Len(owed) + Len(pongs) < MaxMisses
        BY <2>1, <2>3, PingsAfterTail DEF PongInv
      <3>5. \A i \in 1 .. Len(tail') : tail'[i] # Ping
        BY <2>1, <2>3, PingsAfterTail
      <3>6. ka' \in {"wait", "ended"} /\ (ka' = "wait" => ka = "ping")
        BY <3>1, <3>4
      <3>7. /\ Len(owed') + Len(pongs') <= MaxMisses
            /\ ka' = "wait" => misses' < MaxMisses /\ Len(owed') + Len(pongs') <= misses' + 1
        BY <1>0, <2>1, <3>2, <3>3, <3>4, <3>6 DEF PongInv
      <3>8. \A i \in 1 .. Len(owed') : owed'[i] = "fresh" => i = Len(owed')
        BY <1>0, <3>3
      <3>9. \A i \in 1 .. Len(pongs') : pongs'[i] # "fresh"
        BY <3>2
      <3> QED BY <3>5, <3>6, <3>7, <3>8, <3>9 DEF PongInv
    <2> QED BY <2>2, <2>3
  <1>5. CASE WriteFails
    <2>1. /\ tail # <<>> /\ tail' = Tail(tail) /\ UNCHANGED <<misses, pongs, owed>>
          /\ ka' = IF Head(tail) = Ping /\ ka = "ping" THEN "failed" ELSE ka
      BY <1>5 DEF WriteFails
    <2>2. \A i, j \in 1 .. Len(tail') : tail'[i] = Ping /\ tail'[j] = Ping => i = j
      BY <2>1, PingsAfterTail
    <2>3. (\E i \in 1 .. Len(tail') : tail'[i] = Ping) =>
             Head(tail) # Ping /\ (\E i \in 1 .. Len(tail) : tail[i] = Ping)
      BY <2>1, PingsAfterTail
    <2>4. ka' \notin {"ping", "ended"} => \A i \in 1 .. Len(tail') : tail'[i] # Ping
      BY <2>1, <2>3 DEF PongInv
    <2>5. ka' = ka \/ ka' = "failed"
      BY <2>1
    <2> QED BY <2>1, <2>2, <2>3, <2>4, <2>5 DEF PongInv
  <1>6. CASE KaPings
    <2>1. ka = "delay" /\ UNCHANGED <<misses, pongs, owed>>
      BY <1>6 DEF KaPings
    <2>2. CASE shut
      BY <1>6, <2>1, <2>2 DEF KaPings, PongInv
    <2>3. CASE ~shut
      <3>1. ka' = "ping" /\ tail' = Append(tail, Ping) /\ Ping \in Nat
        BY <1>6, <2>3 DEF KaPings, Ping
      <3>2. \A i \in 1 .. Len(tail) : tail[i] # Ping
        BY <2>1 DEF PongInv
      <3>3. \A i \in 1 .. Len(tail') : tail'[i] = Ping => i = Len(tail')
        BY <3>1, <3>2, PingsAfterAppend
      <3>4. Len(owed) + Len(pongs) <= misses /\ misses < MaxMisses
        BY <2>1 DEF PongInv
      <3>5. Len(owed) + Len(pongs) < MaxMisses
        BY <1>0, <3>4
      <3> QED BY <2>1, <3>1, <3>3, <3>4, <3>5 DEF PongInv
    <2> QED BY <2>2, <2>3
  <1>7. CASE PongArrives
    <2>1. /\ owed # <<>> /\ pongs' = Append(pongs, Head(owed)) /\ owed' = Tail(owed)
          /\ UNCHANGED <<ka, misses, tail>>
      BY <1>7 DEF PongArrives
    <2>2. /\ Len(owed) >= 1 /\ Head(owed) \in PongKinds /\ Head(owed) = owed[1]
          /\ Len(owed') = Len(owed) - 1 /\ \A i \in 1 .. Len(owed') : owed'[i] = owed[i + 1]
      BY <2>1, TailType, SMTT(30) DEF TypeOK
    <2>3. /\ Len(pongs') = Len(pongs) + 1 /\ pongs'[Len(pongs) + 1] = Head(owed)
          /\ \A i \in 1 .. Len(pongs) : pongs'[i] = pongs[i]
      <3>1. \A x \in PongKinds :
               /\ Len(Append(pongs, x)) = Len(pongs) + 1 /\ Append(pongs, x)[Len(pongs) + 1] = x
               /\ \A i \in 1 .. Len(pongs) : Append(pongs, x)[i] = pongs[i]
        BY AppendType DEF TypeOK
      <3> QED BY <2>1, <2>2, <3>1
    <2>4. Len(owed') + Len(pongs') = Len(owed) + Len(pongs)
      BY <1>0, <2>2, <2>3
    <2>5. \A i \in 1 .. Len(pongs) : pongs[i] # "fresh"
      BY <2>1 DEF PongInv
    <2>6. ASSUME NEW i \in 1 .. Len(pongs'), pongs'[i] = "fresh" PROVE i = Len(pongs') /\ owed' = <<>>
      <3>1. i = Len(pongs) + 1
        BY <1>0, <2>3, <2>5, <2>6
      <3>2. owed[1] = "fresh" /\ 1 \in 1 .. Len(owed)
        BY <1>0, <2>2, <2>3, <2>6, <3>1
      <3>3. Len(owed) = 1
        BY <3>2 DEF PongInv
      <3>4. Len(owed') = 0 /\ owed' \in Seq(PongKinds)
        BY <1>0, <2>2, <3>3 DEF TypeOK
      <3>5. owed' = <<>>
        BY <3>4, EmptySeq
      <3> QED BY <2>3, <3>1, <3>5
    <2>7. ASSUME NEW i \in 1 .. Len(owed'), owed'[i] = "fresh" PROVE i = Len(owed')
      <3>1. i + 1 \in 1 .. Len(owed) /\ owed[i + 1] = "fresh"
        BY <1>0, <2>2, <2>7
      <3>2. i + 1 = Len(owed)
        BY <3>1 DEF PongInv
      <3> QED BY <1>0, <2>2, <3>2
    <2>8. ka # "off"
      BY <2>1 DEF PongInv
    <2> QED BY <2>1, <2>4, <2>6, <2>7, <2>8 DEF PongInv
  <1>8. CASE KaPong
    <2>1. /\ ka = "wait" /\ pongs # <<>> /\ pongs' = Tail(pongs) /\ UNCHANGED <<owed, tail>>
          /\ IF Head(pongs) = "fresh" THEN ka' = "delay" /\ misses' = 0 ELSE UNCHANGED <<ka, misses>>
      BY <1>8 DEF KaPong
    <2>2. /\ Len(pongs) >= 1 /\ Head(pongs) = pongs[1]
          /\ Len(pongs') = Len(pongs) - 1 /\ \A i \in 1 .. Len(pongs') : pongs'[i] = pongs[i + 1]
      BY <2>1, TailType, SMTT(30) DEF TypeOK
    <2>3. \A i \in 1 .. Len(pongs') : pongs'[i] = "fresh" => i = Len(pongs') /\ owed' = <<>>
      <3> SUFFICES ASSUME NEW i \in 1 .. Len(pongs'), pongs'[i] = "fresh"
                   PROVE  i = Len(pongs') /\ owed' = <<>>
        OBVIOUS
      <3>1. i + 1 \in 1 .. Len(pongs) /\ pongs[i + 1] = "fresh"
        BY <1>0, <2>2
      <3>2. i + 1 = Len(pongs) /\ owed = <<>>
        BY <3>1 DEF PongInv
      <3>3. i = Len(pongs')
        BY <1>0, <2>2, <3>2, SMTT(30)
      <3> QED BY <2>1, <3>2, <3>3
    <2>4. Len(owed') + Len(pongs') = Len(owed) + Len(pongs) - 1
      BY <1>0, <2>1, <2>2
    <2>5. misses < MaxMisses /\ Len(owed) + Len(pongs) <= misses + 1 /\ \A i \in 1 .. Len(tail) : tail[i] # Ping
      BY <2>1 DEF PongInv
    <2>6. CASE Head(pongs) = "fresh"
      <3>1. 1 \in 1 .. Len(pongs) /\ pongs[1] = "fresh"
        BY <1>0, <2>2, <2>6
      <3>2. Len(pongs) = 1 /\ owed = <<>>
        BY <3>1 DEF PongInv
      <3>3. Len(owed') + Len(pongs') = 0
        BY <2>1, <2>2, <3>2
      <3>4. ka' = "delay" /\ misses' = 0 /\ 0 < MaxMisses
        BY <2>1, <2>6, WebSocketAssumption
      <3>5. Len(owed') + Len(pongs') <= misses' /\ misses' < MaxMisses /\ Len(owed') + Len(pongs') <= MaxMisses
        BY <1>0, <3>3, <3>4
      <3> QED BY <2>1, <2>3, <2>5, <3>4, <3>5 DEF PongInv
    <2>7. CASE Head(pongs) # "fresh"
      <3>1. UNCHANGED <<ka, misses>>
        BY <2>1, <2>7
      <3>2. Len(owed') + Len(pongs') <= misses' + 1 /\ Len(owed') + Len(pongs') <= MaxMisses
        BY <1>0, <2>4, <2>5, <3>1
      <3> QED BY <2>1, <2>3, <2>5, <3>1, <3>2 DEF PongInv
    <2> QED BY <2>6, <2>7
  <1>9. CASE KaMiss
    <2>1. /\ ka = "wait" /\ misses' = misses + 1 /\ UNCHANGED <<pongs, owed, tail>>
          /\ ka' = IF misses + 1 >= MaxMisses THEN "failed" ELSE "delay"
      BY <1>9 DEF KaMiss
    <2>2. ka' \in {"failed", "delay"} /\ (ka' = "delay" => misses' < MaxMisses)
      BY <1>0, <2>1
    <2> QED BY <1>0, <2>1, <2>2 DEF PongInv
  <1>10. CASE KaQueueClosed
    BY <1>10 DEF KaQueueClosed, PongInv
  <1>11. CASE \E why \in {"eof", "keepalive", "request"} : SessionStops(why)
    <2>1. UNCHANGED <<misses, pongs, owed, tail>> /\ ka' = IF ka = "off" THEN "off" ELSE "ended"
      BY <1>11 DEF SessionStops
    <2> QED BY <2>1 DEF PongInv
  <1>12. CASE DialFails \/ DialGivenUp \/ DialRejects \/ AdapterFlushed \/ BufferDrains \/ PeerCloses
    BY <1>12, <1>1 DEF DialFails, DialGivenUp, DialRejects, AdapterFlushed, BufferDrains, PeerCloses
  <1>13. CASE PeerDies \/ SocketClosed \/ SocketError \/ CloseSocket \/ CloseReturns \/ Mended \/ ClearBinary
    BY <1>13, <1>1 DEF PeerDies, SocketClosed, SocketError, CloseSocket, CloseReturns, Mended, ClearBinary
  <1>14. CASE (\E k \in Kinds : Receive(k) \/ Take(k)) \/ (\E timeout \in BOOLEAN : SessionEnds(timeout))
    BY <1>14, <1>1 DEF Receive, Take, SessionEnds
  <1>15. CASE Over \/ UNCHANGED vars
    BY <1>15, <1>1 DEF Over
  <1> QED
    BY <1>2, <1>3, <1>4, <1>5, <1>6, <1>7, <1>8, <1>9, <1>10, <1>11, <1>12, <1>13, <1>14, <1>15 DEF Next

-----------------------------------------------------------------------------
(* The write chain *)

LEMMA ChainInit == Init => ChainInv
  BY DEF Init, ChainInv, Chained, Elems, Ping

\* When the running write leaves the chain, exactly its send leaves it.
LEMMA ChainedAfterTail ==
    ASSUME TypeOK, ChainInv, tail # <<>>, tail' = Tail(tail)
    PROVE  /\ Chained' = Chained \ {Head(tail)}
           /\ \A i, j \in 1 .. Len(tail') :
                 i < j /\ tail'[i] # Ping /\ tail'[j] # Ping => tail'[i] < tail'[j]
           /\ Head(tail) # Ping => Head(tail) \in Chained /\ \A x \in Chained : Head(tail) <= x
  <1>1. /\ Len(tail) \in Nat /\ Len(tail) >= 1 /\ Head(tail) = tail[1] /\ Head(tail) \in Nat
        /\ Len(tail') = Len(tail) - 1
        /\ \A i \in 1 .. Len(tail') : tail'[i] = tail[i + 1]
    BY TailType DEF TypeOK
  <1>2. /\ 1 \in 1 .. Len(tail)
        /\ \A i \in 1 .. Len(tail') : i + 1 \in 1 .. Len(tail) /\ 1 < i + 1
        /\ \A i \in 1 .. Len(tail) : i # 1 => i - 1 \in 1 .. Len(tail') /\ (i - 1) + 1 = i /\ 1 < i
    BY <1>1
  <1>3. \A i, j \in 1 .. Len(tail) : i < j /\ tail[i] # Ping /\ tail[j] # Ping => tail[i] < tail[j]
    BY DEF ChainInv
  <1>4. \A i \in 1 .. Len(tail) : tail[i] \in Nat
    BY ElementOfSeq DEF TypeOK
  <1>5. Chained' \subseteq Chained \ {Head(tail)}
    <2> SUFFICES ASSUME NEW x \in Chained' PROVE x \in Chained \ {Head(tail)}
      OBVIOUS
    <2>1. PICK i \in 1 .. Len(tail') : x = tail'[i]
      BY DEF Chained, Elems
    <2>2. x = tail[i + 1] /\ i + 1 \in 1 .. Len(tail) /\ 1 < i + 1 /\ x # Ping
      BY <1>1, <1>2, <2>1 DEF Chained
    <2>3. x # Head(tail)
      <3>1. CASE Head(tail) = Ping
        BY <2>2, <3>1
      <3>2. CASE Head(tail) # Ping
        <4>1. tail[1] < tail[i + 1]
          BY <1>1, <1>2, <1>3, <2>2, <3>2
        <4> QED BY <1>1, <1>2, <1>4, <2>2, <4>1
      <3> QED BY <3>1, <3>2
    <2> QED BY <2>2, <2>3 DEF Chained, Elems
  <1>6. Chained \ {Head(tail)} \subseteq Chained'
    <2> SUFFICES ASSUME NEW x \in Chained, x # Head(tail) PROVE x \in Chained'
      OBVIOUS
    <2>1. PICK i \in 1 .. Len(tail) : x = tail[i]
      BY DEF Chained, Elems
    <2>2. i - 1 \in 1 .. Len(tail') /\ (i - 1) + 1 = i
      BY <1>1, <1>2, <2>1
    <2>3. tail'[i - 1] = x
      BY <1>1, <2>1, <2>2
    <2> QED BY <2>2, <2>3 DEF Chained, Elems
  <1>7. ASSUME NEW i \in 1 .. Len(tail'), NEW j \in 1 .. Len(tail'), i < j, tail'[i] # Ping, tail'[j] # Ping
        PROVE  tail'[i] < tail'[j]
    <2>1. i + 1 < j + 1 /\ i + 1 \in 1 .. Len(tail) /\ j + 1 \in 1 .. Len(tail)
      BY <1>2, <1>7
    <2>2. tail'[i] = tail[i + 1] /\ tail'[j] = tail[j + 1]
      BY <1>1
    <2> QED BY <1>3, <1>7, <2>1, <2>2
  <1>8. ASSUME Head(tail) # Ping
        PROVE  Head(tail) \in Chained /\ \A x \in Chained : Head(tail) <= x
    <2>1. Head(tail) \in Chained
      BY <1>1, <1>2, <1>8 DEF Chained, Elems
    <2>2. ASSUME NEW x \in Chained PROVE Head(tail) <= x
      <3>1. PICK i \in 1 .. Len(tail) : x = tail[i] /\ x # Ping
        BY <2>2 DEF Chained, Elems
      <3>2. CASE i = 1
        BY <1>1, <1>4, <3>1, <3>2
      <3>3. CASE i # 1
        <4>1. tail[1] < tail[i]
          BY <1>1, <1>2, <1>3, <1>8, <3>1, <3>3
        <4> QED BY <1>1, <1>2, <1>4, <3>1, <4>1
      <3> QED BY <3>2, <3>3
    <2> QED BY <2>1, <2>2
  <1> QED BY <1>5, <1>6, <1>7, <1>8

\* A write chained behind the others is the only one that joins them.
LEMMA ChainedAfterAppend ==
    ASSUME TypeOK, ChainInv, NEW x \in Nat, tail' = Append(tail, x), x = Ping \/ \A y \in Chained : y < x
    PROVE  /\ Chained' = Chained \cup ({x} \ {Ping})
           /\ \A i, j \in 1 .. Len(tail') :
                 i < j /\ tail'[i] # Ping /\ tail'[j] # Ping => tail'[i] < tail'[j]
  <1>1. /\ \A i \in 1 .. Len(tail') : i \in 1 .. Len(tail) \/ i = Len(tail')
        /\ \A i \in 1 .. Len(tail) : tail'[i] = tail[i]
        /\ Len(tail) \in Nat /\ Len(tail') = Len(tail) + 1 /\ tail'[Len(tail')] = x
    BY PingsAfterAppend
  <1>2. Len(tail') \in 1 .. Len(tail') /\ \A i \in 1 .. Len(tail) : i \in 1 .. Len(tail')
    BY <1>1
  <1>3. Elems(tail)' = Elems(tail) \cup {x}
    BY <1>1, <1>2 DEF Elems
  <1>4. ASSUME NEW i \in 1 .. Len(tail'), NEW j \in 1 .. Len(tail'), i < j, tail'[i] # Ping, tail'[j] # Ping
        PROVE  tail'[i] < tail'[j]
    <2>1. i \in 1 .. Len(tail)
      BY <1>1, <1>4
    <2>2. CASE j \in 1 .. Len(tail)
      BY <1>1, <1>4, <2>1, <2>2 DEF ChainInv
    <2>3. CASE j = Len(tail')
      <3>1. tail[i] \in Chained
        BY <1>1, <1>4, <2>1 DEF Chained, Elems
      <3> QED BY <1>1, <1>4, <2>1, <2>3, <3>1
    <2> QED BY <1>1, <2>2, <2>3
  <1> QED BY <1>3, <1>4 DEF Chained

LEMMA ChainStep == TypeOK /\ LifeInv /\ DownInv /\ ChainInv /\ [Next]_vars => ChainInv'
  <1> SUFFICES ASSUME TypeOK, LifeInv, DownInv, ChainInv, [Next]_vars PROVE ChainInv'
    OBVIOUS
  <1> USE DEF vars, socketVars, writeVars, readVars, kaVars
  <1>0. sent \in Nat /\ Len(written) \in Nat /\ tail \in Seq(Nat) /\ written \in Seq(Nat)
    BY LenProperties DEF TypeOK
  <1>1. ASSUME UNCHANGED <<tail, sent, written, rejected>> PROVE ChainInv'
    BY <1>1 DEF ChainInv, Chained, Elems
  <1>2. /\ Len(written) <= sent /\ rejected \cup Chained = (Len(written) + 1) .. sent
        /\ rejected \cap Chained = {}
    BY DEF ChainInv
  <1>3. CASE Send
    <2>1. /\ tail' = Append(tail, sent + 1) /\ sent' = sent + 1 /\ UNCHANGED <<written, rejected>>
          /\ sent + 1 \in Nat /\ sent + 1 # Ping
      BY <1>0, <1>3 DEF Send, Ping
    <2>2. \A y \in Chained : y < sent + 1
      BY <1>0, <1>2
    <2>3. Chained' = Chained \cup ({sent + 1} \ {Ping})
      BY <2>1, <2>2, ChainedAfterAppend
    <2>4. \A i, j \in 1 .. Len(tail') : i < j /\ tail'[i] # Ping /\ tail'[j] # Ping => tail'[i] < tail'[j]
      BY <2>1, <2>2, ChainedAfterAppend
    <2>5. Chained' = Chained \cup {sent + 1}
      BY <2>1, <2>3
    <2>6. (Len(written) + 1) .. (sent + 1) = ((Len(written) + 1) .. sent) \cup {sent + 1}
      BY <1>0, <1>2
    <2>7. sent + 1 \notin rejected
      BY <1>0, <1>2
    <2>8. rejected' \cup Chained' = (Len(written') + 1) .. sent' /\ rejected' \cap Chained' = {}
      BY <1>2, <2>1, <2>5, <2>6, <2>7
    <2>9. Len(written') <= sent'
      BY <1>0, <1>2, <2>1
    <2> QED BY <2>1, <2>4, <2>8, <2>9 DEF ChainInv
  <1>4. CASE KaPings
    <2>1. UNCHANGED <<sent, written, rejected>> /\ (tail' = tail \/ tail' = Append(tail, Ping)) /\ Ping \in Nat
      BY <1>4 DEF KaPings, Ping
    <2>2. CASE tail' = tail
      BY <2>1, <2>2, <1>1
    <2>3. CASE tail' = Append(tail, Ping)
      <3>1. Chained' = Chained \cup ({Ping} \ {Ping})
        BY <2>1, <2>3, ChainedAfterAppend
      <3>2. \A i, j \in 1 .. Len(tail') : i < j /\ tail'[i] # Ping /\ tail'[j] # Ping => tail'[i] < tail'[j]
        BY <2>1, <2>3, ChainedAfterAppend
      <3>3. Chained' = Chained
        BY <3>1
      <3> QED BY <2>1, <3>2, <3>3 DEF ChainInv
    <2> QED BY <2>1, <2>2, <2>3
  <1>5. CASE Write
    <2>1. tail # <<>> /\ tail' = Tail(tail) /\ sock = "open" /\ UNCHANGED <<sent, rejected>>
      BY <1>5 DEF Write
    <2>2. /\ Chained' = Chained \ {Head(tail)}
          /\ \A i, j \in 1 .. Len(tail') : i < j /\ tail'[i] # Ping /\ tail'[j] # Ping => tail'[i] < tail'[j]
      BY <2>1, ChainedAfterTail
    <2>3. CASE Head(tail) = Ping
      <3>1. written' = written /\ Chained' = Chained
        BY <1>5, <2>2, <2>3 DEF Write, Chained
      <3> QED BY <2>1, <2>2, <3>1 DEF ChainInv
    <2>4. CASE Head(tail) # Ping
      <3>1. rejected = {}
        BY <2>1 DEF DownInv
      <3>2. Head(tail) \in Chained /\ \A x \in Chained : Head(tail) <= x
        BY <2>1, <2>4, ChainedAfterTail
      <3>3. Chained = (Len(written) + 1) .. sent
        BY <1>2, <3>1
      <3>4. Head(tail) = Len(written) + 1 /\ Len(written) + 1 <= sent
        BY <1>0, <3>2, <3>3
      <3>5. written' = Append(written, Head(tail)) /\ Head(tail) \in Nat
        BY <1>0, <1>5, <2>4, <3>4 DEF Write
      <3>6. /\ Len(written') = Len(written) + 1 /\ written'[Len(written) + 1] = Len(written) + 1
            /\ \A i \in 1 .. Len(written) : written'[i] = written[i]
        BY <1>0, <3>4, <3>5, AppendType
      <3>7. \A i \in 1 .. Len(written') : written'[i] = i
        <4> SUFFICES ASSUME NEW i \in 1 .. Len(written') PROVE written'[i] = i
          OBVIOUS
        <4>1. i \in 1 .. Len(written) \/ i = Len(written) + 1
          BY <1>0, <3>6
        <4> QED BY <3>6, <4>1 DEF ChainInv
      <3>8. ((Len(written) + 1) .. sent) \ {Len(written) + 1} = (Len(written) + 2) .. sent
        BY <1>0
      <3>9. rejected' \cup Chained' = (Len(written') + 1) .. sent'
        <4>1. Len(written') + 1 = Len(written) + 2
          BY <1>0, <3>6
        <4> QED BY <2>1, <2>2, <3>1, <3>3, <3>4, <3>8, <4>1
      <3>10. Len(written') <= sent'
        BY <1>0, <2>1, <3>4, <3>6
      <3> QED BY <2>1, <2>2, <3>1, <3>7, <3>9, <3>10 DEF ChainInv
    <2> QED BY <2>3, <2>4
  <1>6. CASE WriteFails
    <2>1. /\ tail # <<>> /\ tail' = Tail(tail) /\ UNCHANGED <<sent, written>>
          /\ rejected' = IF Head(tail) = Ping THEN rejected ELSE rejected \cup {Head(tail)}
      BY <1>6 DEF WriteFails
    <2>2. /\ Chained' = Chained \ {Head(tail)}
          /\ \A i, j \in 1 .. Len(tail') : i < j /\ tail'[i] # Ping /\ tail'[j] # Ping => tail'[i] < tail'[j]
      BY <2>1, ChainedAfterTail
    <2>3. Head(tail) # Ping => Head(tail) \in Chained
      BY <2>1, ChainedAfterTail
    <2>4. Head(tail) = Ping => Chained' = Chained
      BY <2>2 DEF Chained
    <2>5. rejected' \cup Chained' = rejected \cup Chained /\ rejected' \cap Chained' = {}
      BY <1>2, <2>1, <2>2, <2>3, <2>4
    <2> QED BY <2>1, <2>2, <2>5 DEF ChainInv
  <1>7. CASE Opened \/ DialFails \/ DialGivenUp \/ DialRejects \/ AdapterFlushed \/ BufferDrains \/ PeerCloses
    BY <1>7, <1>1 DEF Opened, DialFails, DialGivenUp, DialRejects, AdapterFlushed, BufferDrains, PeerCloses
  <1>8. CASE PeerDies \/ SocketClosed \/ SocketError \/ CloseSocket \/ CloseReturns \/ Mended \/ ClearBinary
    BY <1>8, <1>1 DEF PeerDies, SocketClosed, SocketError, CloseSocket, CloseReturns, Mended, ClearBinary
  <1>9. CASE PongArrives \/ KaPong \/ KaMiss \/ KaQueueClosed
    BY <1>9, <1>1 DEF PongArrives, KaPong, KaMiss, KaQueueClosed
  <1>10. CASE \/ \E k \in Kinds : Receive(k) \/ Take(k)
              \/ \E why \in {"eof", "keepalive", "request"} : SessionStops(why)
              \/ \E timeout \in BOOLEAN : SessionEnds(timeout)
    BY <1>10, <1>1 DEF Receive, Take, SessionStops, SessionEnds
  <1>11. CASE Over \/ UNCHANGED vars
    BY <1>11, <1>1 DEF Over
  <1> QED
    BY <1>3, <1>4, <1>5, <1>6, <1>7, <1>8, <1>9, <1>10, <1>11 DEF Next

-----------------------------------------------------------------------------
(* The inbound queues *)

LEMMA InboundInit == Init => InboundInv
  BY DEF Init, InboundInv, Increasing, Kinds

\* A message numbered n + 1 joins a queue that holds nothing above n.
LEMMA IncreasingAppend ==
    ASSUME NEW s \in Seq(Nat), NEW n \in Nat, Increasing(s), \A i \in 1 .. Len(s) : s[i] <= n
    PROVE  /\ Increasing(Append(s, n + 1))
           /\ \A i \in 1 .. Len(Append(s, n + 1)) : Append(s, n + 1)[i] <= n + 1
  <1>1. n + 1 \in Nat /\ Len(s) \in Nat
    BY LenProperties
  <1>2. /\ Len(Append(s, n + 1)) = Len(s) + 1 /\ Append(s, n + 1)[Len(s) + 1] = n + 1
        /\ \A i \in 1 .. Len(s) : Append(s, n + 1)[i] = s[i]
    BY <1>1, AppendType
  <1>3. \A i \in 1 .. Len(s) : s[i] \in Nat
    BY ElementOfSeq
  <1>4. \A i \in 1 .. Len(s) + 1 : i \in 1 .. Len(s) \/ i = Len(s) + 1
    BY <1>1
  <1>5. ASSUME NEW i \in 1 .. Len(s) + 1, NEW j \in 1 .. Len(s) + 1, i < j
        PROVE  Append(s, n + 1)[i] < Append(s, n + 1)[j]
    <2>1. i \in 1 .. Len(s)
      BY <1>1, <1>5
    <2>2. CASE j \in 1 .. Len(s)
      BY <1>2, <1>5, <2>1, <2>2 DEF Increasing
    <2>3. CASE j = Len(s) + 1
      BY <1>1, <1>2, <1>3, <2>1, <2>3
    <2> QED BY <1>4, <2>2, <2>3
  <1>6. ASSUME NEW i \in 1 .. Len(s) + 1 PROVE Append(s, n + 1)[i] <= n + 1
    <2>1. CASE i \in 1 .. Len(s)
      BY <1>1, <1>2, <1>3, <2>1
    <2>2. CASE i = Len(s) + 1
      BY <1>1, <1>2, <2>2
    <2> QED BY <1>4, <2>1, <2>2
  <1> QED BY <1>2, <1>5, <1>6 DEF Increasing

\* Handing the head of the queue to the reader keeps the two in order.
LEMMA IncreasingTake ==
    ASSUME NEW g \in Seq(Nat), NEW q \in Seq(Nat), q # <<>>, Increasing(g), Increasing(q),
           \A i \in 1 .. Len(g), j \in 1 .. Len(q) : g[i] < q[j]
    PROVE  /\ Increasing(Append(g, Head(q))) /\ Increasing(Tail(q))
           /\ \A i \in 1 .. Len(Append(g, Head(q))), j \in 1 .. Len(Tail(q)) : Append(g, Head(q))[i] < Tail(q)[j]
           /\ \A i \in 1 .. Len(Append(g, Head(q))) :
                 Append(g, Head(q))[i] = q[1] \/ \E j \in 1 .. Len(g) : Append(g, Head(q))[i] = g[j]
           /\ \A i \in 1 .. Len(Tail(q)) : Tail(q)[i] = q[i + 1] /\ i + 1 \in 1 .. Len(q)
  <1> DEFINE h == Head(q)
             g2 == Append(g, h)
             q2 == Tail(q)
  <1>1. /\ Len(q) \in Nat /\ Len(q) >= 1 /\ h \in Nat /\ h = q[1] /\ Len(q2) = Len(q) - 1
        /\ \A i \in 1 .. Len(q2) : q2[i] = q[i + 1]
    BY TailType
  <1> HIDE DEF h, q2
  <1>2. Len(g) \in Nat /\ Len(g2) = Len(g) + 1 /\ g2[Len(g) + 1] = h /\ \A i \in 1 .. Len(g) : g2[i] = g[i]
    BY <1>1, AppendType, LenProperties
  <1> HIDE DEF g2
  <1>3. \A i \in 1 .. Len(g2) : i \in 1 .. Len(g) \/ i = Len(g) + 1
    BY <1>2
  <1>4. 1 \in 1 .. Len(q) /\ \A i \in 1 .. Len(q2) : i + 1 \in 1 .. Len(q) /\ 1 < i + 1
    BY <1>1
  <1>5. \A i \in 1 .. Len(g) : g[i] < h
    BY <1>1, <1>4
  <1>6. ASSUME NEW i \in 1 .. Len(g2), NEW j \in 1 .. Len(g2), i < j PROVE g2[i] < g2[j]
    <2>1. i \in 1 .. Len(g)
      BY <1>2, <1>6
    <2>2. CASE j \in 1 .. Len(g)
      BY <1>2, <1>6, <2>1, <2>2 DEF Increasing
    <2>3. CASE j = Len(g) + 1
      BY <1>2, <1>5, <2>1, <2>3
    <2> QED BY <1>3, <2>2, <2>3
  <1>7. ASSUME NEW i \in 1 .. Len(q2), NEW j \in 1 .. Len(q2), i < j PROVE q2[i] < q2[j]
    <2>1. i + 1 < j + 1
      BY <1>7
    <2> QED BY <1>1, <1>4, <2>1 DEF Increasing
  <1>8. ASSUME NEW i \in 1 .. Len(g2), NEW j \in 1 .. Len(q2) PROVE g2[i] < q2[j]
    <2>1. CASE i \in 1 .. Len(g)
      BY <1>1, <1>2, <1>4, <2>1
    <2>2. CASE i = Len(g) + 1
      <3>1. q[1] < q[j + 1]
        BY <1>4 DEF Increasing
      <3> QED BY <1>1, <1>2, <2>2, <3>1
    <2> QED BY <1>3, <2>1, <2>2
  <1>9. \A i \in 1 .. Len(g2) : g2[i] = q[1] \/ \E j \in 1 .. Len(g) : g2[i] = g[j]
    BY <1>1, <1>2, <1>3
  <1>10. Increasing(g2) /\ Increasing(q2)
    BY <1>6, <1>7 DEF Increasing
  <1> QED BY <1>1, <1>4, <1>8, <1>9, <1>10 DEF h, g2, q2

LEMMA InboundStep == TypeOK /\ LifeInv /\ InboundInv /\ [Next]_vars => InboundInv'
  <1> SUFFICES ASSUME TypeOK, LifeInv, InboundInv, [Next]_vars PROVE InboundInv'
    OBVIOUS
  <1> USE DEF vars, socketVars, writeVars, readVars, kaVars
  <1> DEFINE gt == got["text"]
             qt == queue["text"]
             gb == got["binary"]
             qb == queue["binary"]
  <1>0. /\ "text" \in Kinds /\ "binary" \in Kinds /\ Kinds = {"text", "binary"} /\ "text" # "binary"
        /\ gt \in Seq(Nat) /\ qt \in Seq(Nat) /\ gb \in Seq(Nat) /\ qb \in Seq(Nat)
        /\ arrived["text"] \in Nat /\ arrived["binary"] \in Nat /\ cleared \in Nat
        /\ DOMAIN arrived = Kinds /\ DOMAIN queue = Kinds /\ DOMAIN got = Kinds
    BY DEF TypeOK, Kinds
  <1>00. Len(gt) \in Nat /\ Len(qt) \in Nat /\ Len(gb) \in Nat /\ Len(qb) \in Nat
    BY <1>0, LenProperties
  <1>1. ASSUME UNCHANGED readVars, closer' = "no" => closer = "no", ~shut' => ~shut PROVE InboundInv'
    BY <1>1 DEF InboundInv
  <1>2. /\ closer = "no" =>
             /\ \A i \in 1 .. Len(gt) : gt[i] = i
             /\ \A i \in 1 .. Len(qt) : qt[i] = Len(gt) + i
             /\ ~shut => Len(gt) + Len(qt) = arrived["text"] /\ Len(gb) + Len(qb) + cleared = arrived["binary"]
        /\ Increasing(gb) /\ Increasing(qb)
        /\ \A i \in 1 .. Len(gb), j \in 1 .. Len(qb) : gb[i] < qb[j]
        /\ \A i \in 1 .. Len(gb) : gb[i] <= arrived["binary"]
        /\ \A i \in 1 .. Len(qb) : qb[i] <= arrived["binary"]
    BY DEF InboundInv
  <1>20. /\ \A i \in 1 .. Len(gb) : gb[i] \in Nat
         /\ \A i \in 1 .. Len(qb) : qb[i] \in Nat
    BY <1>0, ElementOfSeq
  <1>3. ASSUME Receive("text") PROVE InboundInv'
    <2>1. live /\ arrived' = [arrived EXCEPT !["text"] = @ + 1] /\ UNCHANGED <<got, cleared, closer>>
      BY <1>3 DEF Receive, Arrival
    <2>2. closer = "no" => ~shut
      BY <2>1 DEF LifeInv
    <2>3. arrived'["text"] = arrived["text"] + 1 /\ arrived'["binary"] = arrived["binary"]
      BY <1>0, <2>1
    <2>4. CASE Len(queue["text"]) < Capacity
      <3>1. queue' = [queue EXCEPT !["text"] = Append(@, arrived["text"] + 1)] /\ UNCHANGED shut
        BY <1>3, <2>4 DEF Receive, Admit
      <3>2. queue'["text"] = Append(qt, arrived["text"] + 1) /\ queue'["binary"] = qb
        BY <1>0, <3>1
      <3>3. /\ Len(queue'["text"]) = Len(qt) + 1 /\ queue'["text"][Len(qt) + 1] = arrived["text"] + 1
            /\ \A i \in 1 .. Len(qt) : queue'["text"][i] = qt[i]
        <4>1. arrived["text"] + 1 \in Nat
          BY <1>0
        <4> QED BY <1>0, <3>2, <4>1, AppendType
      <3>4. ASSUME closer = "no", NEW i \in 1 .. Len(queue'["text"])
            PROVE  queue'["text"][i] = Len(gt) + i
        <4>1. i \in 1 .. Len(qt) \/ i = Len(qt) + 1
          BY <1>00, <3>3
        <4>2. CASE i \in 1 .. Len(qt)
          BY <1>2, <3>3, <3>4, <4>2
        <4>3. CASE i = Len(qt) + 1
          BY <1>0, <1>00, <1>2, <2>2, <3>3, <3>4, <4>3
        <4> QED BY <4>1, <4>2, <4>3
      <3>5. closer = "no" => Len(gt) + Len(queue'["text"]) = arrived'["text"]
        BY <1>0, <1>00, <1>2, <2>2, <2>3, <3>3
      <3> QED BY <1>2, <2>1, <2>2, <2>3, <3>1, <3>2, <3>4, <3>5 DEF InboundInv
    <2>5. CASE ~(Len(queue["text"]) < Capacity)
      <3>1. queue' = queue /\ shut' = TRUE
        BY <1>3, <2>5, FinishEffect DEF Receive
      <3> QED BY <1>2, <2>1, <2>3, <3>1 DEF InboundInv
    <2> QED BY <2>4, <2>5
  <1>4. ASSUME Receive("binary") PROVE InboundInv'
    <2>1. live /\ arrived' = [arrived EXCEPT !["binary"] = @ + 1] /\ UNCHANGED <<got, cleared, closer>>
      BY <1>4 DEF Receive, Arrival
    <2>2. closer = "no" => ~shut
      BY <2>1 DEF LifeInv
    <2>3. arrived'["binary"] = arrived["binary"] + 1 /\ arrived'["text"] = arrived["text"]
      BY <1>0, <2>1
    <2>4. \A i \in 1 .. Len(gb) : gb[i] <= arrived'["binary"]
      BY <1>0, <1>2, <1>20, <2>3
    <2>5. CASE Len(queue["binary"]) < Capacity
      <3>1. queue' = [queue EXCEPT !["binary"] = Append(@, arrived["binary"] + 1)] /\ UNCHANGED shut
        BY <1>4, <2>5 DEF Receive, Admit
      <3>2. queue'["binary"] = Append(qb, arrived["binary"] + 1) /\ queue'["text"] = qt
        BY <1>0, <3>1
      <3>3. /\ Len(queue'["binary"]) = Len(qb) + 1 /\ queue'["binary"][Len(qb) + 1] = arrived["binary"] + 1
            /\ \A i \in 1 .. Len(qb) : queue'["binary"][i] = qb[i]
        <4>1. arrived["binary"] + 1 \in Nat
          BY <1>0
        <4> QED BY <1>0, <3>2, <4>1, AppendType
      <3>4. /\ Increasing(Append(qb, arrived["binary"] + 1))
            /\ \A i \in 1 .. Len(Append(qb, arrived["binary"] + 1)) :
                  Append(qb, arrived["binary"] + 1)[i] <= arrived["binary"] + 1
        <4>1. \A s \in Seq(Nat), n \in Nat : Increasing(s) /\ (\A i \in 1 .. Len(s) : s[i] <= n) =>
                 /\ Increasing(Append(s, n + 1))
                 /\ \A i \in 1 .. Len(Append(s, n + 1)) : Append(s, n + 1)[i] <= n + 1
          BY IncreasingAppend
        <4> QED BY <1>0, <1>2, <4>1
      <3>5. Increasing(queue'["binary"]) /\ \A i \in 1 .. Len(queue'["binary"]) : queue'["binary"][i] <= arrived'["binary"]
        BY <2>3, <3>2, <3>4
      <3>6. ASSUME NEW i \in 1 .. Len(gb), NEW j \in 1 .. Len(queue'["binary"])
            PROVE  gb[i] < queue'["binary"][j]
        <4>1. j \in 1 .. Len(qb) \/ j = Len(qb) + 1
          BY <1>00, <3>3
        <4>2. CASE j \in 1 .. Len(qb)
          BY <1>2, <3>3, <4>2
        <4>3. CASE j = Len(qb) + 1
          BY <1>0, <1>2, <1>20, <3>3, <4>3
        <4> QED BY <4>1, <4>2, <4>3
      <3>7. closer = "no" => Len(gb) + Len(queue'["binary"]) + cleared = arrived'["binary"]
        BY <1>0, <1>00, <1>2, <2>2, <2>3, <3>3
      <3> QED BY <1>2, <2>1, <2>2, <2>3, <2>4, <3>1, <3>2, <3>5, <3>6, <3>7 DEF InboundInv
    <2>6. CASE ~(Len(queue["binary"]) < Capacity)
      <3>1. queue' = queue /\ shut' = TRUE
        BY <1>4, <2>6, FinishEffect DEF Receive
      <3>2. \A i \in 1 .. Len(qb) : qb[i] <= arrived'["binary"]
        BY <1>0, <1>2, <1>20, <2>3
      <3> QED BY <1>2, <2>1, <2>3, <2>4, <3>1, <3>2 DEF InboundInv
    <2> QED BY <2>5, <2>6
  <1>5. ASSUME Take("text") PROVE InboundInv'
    <2>1. /\ qt # <<>> /\ got' = [got EXCEPT !["text"] = Append(@, Head(qt))]
          /\ queue' = [queue EXCEPT !["text"] = Tail(@)] /\ UNCHANGED <<arrived, cleared, closer, shut>>
      BY <1>5 DEF Take
    <2>2. /\ got'["text"] = Append(gt, Head(qt)) /\ queue'["text"] = Tail(qt)
          /\ got'["binary"] = gb /\ queue'["binary"] = qb
      BY <1>0, <2>1
    <2>3. /\ Len(qt) >= 1 /\ Head(qt) \in Nat /\ Head(qt) = qt[1] /\ Len(queue'["text"]) = Len(qt) - 1
          /\ \A i \in 1 .. Len(queue'["text"]) : queue'["text"][i] = qt[i + 1]
      BY <1>0, <2>1, <2>2, TailType
    <2>4. /\ Len(got'["text"]) = Len(gt) + 1 /\ got'["text"][Len(gt) + 1] = qt[1]
          /\ \A i \in 1 .. Len(gt) : got'["text"][i] = gt[i]
      <3>1. \A x \in Nat : /\ Len(Append(gt, x)) = Len(gt) + 1 /\ Append(gt, x)[Len(gt) + 1] = x
                           /\ \A i \in 1 .. Len(gt) : Append(gt, x)[i] = gt[i]
        BY <1>0, AppendType
      <3> QED BY <2>2, <2>3, <3>1
    <2>5. ASSUME closer = "no", NEW i \in 1 .. Len(got'["text"]) PROVE got'["text"][i] = i
      <3>1. i \in 1 .. Len(gt) \/ i = Len(gt) + 1
        BY <1>00, <2>4
      <3>2. qt[1] = Len(gt) + 1
        BY <1>00, <1>2, <2>3, <2>5
      <3> QED BY <1>2, <2>4, <2>5, <3>1, <3>2
    <2>6. ASSUME closer = "no", NEW i \in 1 .. Len(queue'["text"])
          PROVE  queue'["text"][i] = Len(got'["text"]) + i
      <3>1. i + 1 \in 1 .. Len(qt)
        BY <1>00, <2>3
      <3>2. qt[i + 1] = Len(gt) + (i + 1)
        BY <1>2, <2>6, <3>1
      <3>3. \A n \in Nat : n + (i + 1) = (n + 1) + i
        OBVIOUS
      <3>4. qt[i + 1] = (Len(gt) + 1) + i
        BY <1>00, <3>2, <3>3
      <3> QED BY <2>3, <2>4, <3>4
    <2>7. Len(got'["text"]) + Len(queue'["text"]) = Len(gt) + Len(qt)
      <3>1. \A m, n \in Nat : (m + 1) + (n - 1) = m + n
        OBVIOUS
      <3> QED BY <1>00, <2>3, <2>4, <3>1
    <2> QED BY <1>2, <2>1, <2>2, <2>5, <2>6, <2>7 DEF InboundInv
  <1>6. ASSUME Take("binary") PROVE InboundInv'
    <2>1. /\ qb # <<>> /\ got' = [got EXCEPT !["binary"] = Append(@, Head(qb))]
          /\ queue' = [queue EXCEPT !["binary"] = Tail(@)] /\ UNCHANGED <<arrived, cleared, closer, shut>>
      BY <1>6 DEF Take
    <2>2. /\ got'["binary"] = Append(gb, Head(qb)) /\ queue'["binary"] = Tail(qb)
          /\ got'["text"] = gt /\ queue'["text"] = qt
      BY <1>0, <2>1
    <2>3. \A g, q \in Seq(Nat) :
             /\ q # <<>> /\ Increasing(g) /\ Increasing(q)
             /\ \A i \in 1 .. Len(g), j \in 1 .. Len(q) : g[i] < q[j]
             => /\ Increasing(Append(g, Head(q))) /\ Increasing(Tail(q))
                /\ \A i \in 1 .. Len(Append(g, Head(q))), j \in 1 .. Len(Tail(q)) : Append(g, Head(q))[i] < Tail(q)[j]
                /\ \A i \in 1 .. Len(Append(g, Head(q))) :
                      Append(g, Head(q))[i] = q[1] \/ \E j \in 1 .. Len(g) : Append(g, Head(q))[i] = g[j]
                /\ \A i \in 1 .. Len(Tail(q)) : Tail(q)[i] = q[i + 1] /\ i + 1 \in 1 .. Len(q)
      BY IncreasingTake
    <2>4. /\ Increasing(got'["binary"]) /\ Increasing(queue'["binary"])
          /\ \A i \in 1 .. Len(got'["binary"]), j \in 1 .. Len(queue'["binary"]) :
                got'["binary"][i] < queue'["binary"][j]
          /\ \A i \in 1 .. Len(got'["binary"]) :
                got'["binary"][i] = qb[1] \/ \E j \in 1 .. Len(gb) : got'["binary"][i] = gb[j]
          /\ \A i \in 1 .. Len(queue'["binary"]) : queue'["binary"][i] = qb[i + 1] /\ i + 1 \in 1 .. Len(qb)
      BY <1>0, <1>2, <2>1, <2>2, <2>3, SMTT(30)
    <2>5. Len(qb) >= 1 /\ Head(qb) \in Nat /\ Len(queue'["binary"]) = Len(qb) - 1
      BY <1>0, <2>1, <2>2, TailType
    <2>6. Len(got'["binary"]) = Len(gb) + 1
      <3>1. \A x \in Nat : Len(Append(gb, x)) = Len(gb) + 1
        BY <1>0, AppendType
      <3> QED BY <2>2, <2>5, <3>1
    <2>7. 1 \in 1 .. Len(qb)
      BY <1>00, <2>5
    <2>8. \A i \in 1 .. Len(got'["binary"]) : got'["binary"][i] <= arrived["binary"]
      BY <1>2, <2>4, <2>7
    <2>9. \A i \in 1 .. Len(queue'["binary"]) : queue'["binary"][i] <= arrived["binary"]
      BY <1>2, <2>4
    <2>10. Len(got'["binary"]) + Len(queue'["binary"]) = Len(gb) + Len(qb)
      <3>1. \A m, n \in Nat : (m + 1) + (n - 1) = m + n
        OBVIOUS
      <3> QED BY <1>00, <2>5, <2>6, <3>1
    <2> QED BY <1>2, <2>1, <2>2, <2>4, <2>8, <2>9, <2>10 DEF InboundInv
  <1>7. CASE ClearBinary
    <2>1. /\ cleared' = cleared + Len(qb) /\ queue' = [queue EXCEPT !["binary"] = <<>>]
          /\ UNCHANGED <<arrived, got, closer, shut>>
      BY <1>7 DEF ClearBinary
    <2>2. queue'["binary"] = <<>> /\ queue'["text"] = qt /\ Len(<<>>) = 0
      BY <1>0, <2>1
    <2>3. \A i \in 1 .. Len(queue'["binary"]) : FALSE
      BY <2>2
    <2>4. closer = "no" /\ ~shut => Len(gb) + Len(queue'["binary"]) + cleared' = arrived["binary"]
      BY <1>0, <1>00, <1>2, <2>1, <2>2
    <2>5. Increasing(queue'["binary"])
      BY <2>3 DEF Increasing
    <2> QED BY <1>2, <2>1, <2>2, <2>3, <2>4, <2>5 DEF InboundInv
  <1>8. CASE SocketClosed \/ SocketError
    BY <1>8, <1>1 DEF SocketClosed, SocketError
  <1>9. CASE WriteFails
    BY <1>9, <1>1, FinishEffect DEF WriteFails
  <1>10. CASE CloseSocket \/ CloseReturns
    BY <1>10, <1>1 DEF CloseSocket, CloseReturns
  <1>11. CASE \E why \in {"eof", "keepalive", "request"} : SessionStops(why)
    BY <1>11, <1>1 DEF SessionStops, CloseBegins
  <1>12. CASE Opened \/ DialFails \/ DialGivenUp \/ DialRejects \/ AdapterFlushed \/ BufferDrains \/ PeerCloses
    BY <1>12, <1>1 DEF Opened, DialFails, DialGivenUp, DialRejects, AdapterFlushed, BufferDrains, PeerCloses
  <1>13. CASE PeerDies \/ Send \/ Write \/ Mended
    BY <1>13, <1>1 DEF PeerDies, Send, Write, Mended
  <1>14. CASE KaPings \/ PongArrives \/ KaPong \/ KaMiss \/ KaQueueClosed
    BY <1>14, <1>1 DEF KaPings, PongArrives, KaPong, KaMiss, KaQueueClosed
  <1>15. CASE (\E timeout \in BOOLEAN : SessionEnds(timeout)) \/ Over \/ UNCHANGED vars
    BY <1>15, <1>1 DEF SessionEnds, Over
  <1> QED
    BY <1>0, <1>3, <1>4, <1>5, <1>6, <1>7, <1>8, <1>9, <1>10, <1>11, <1>12, <1>13, <1>14, <1>15 DEF Next

-----------------------------------------------------------------------------
(* The theorems *)

ConnectionInv == TypeOK /\ LifeInv /\ PongInv /\ DownInv /\ ChainInv /\ InboundInv

\* Every reachable state of a connection satisfies the inductive invariant.
THEOREM ConnectionInvariant == Spec => []ConnectionInv
  <1>1. Init => ConnectionInv
    BY TypeInit, LifeInit, PongInit, DownInit, ChainInit, InboundInit DEF ConnectionInv
  <1>2. ConnectionInv /\ [Next]_vars => ConnectionInv'
    BY TypeStep, LifeStep, PongStep, DownStep, ChainStep, InboundStep DEF ConnectionInv
  <1> QED BY <1>1, <1>2, PTL DEF Spec

\* A rejected factory has closed its connection, and close() resolves with no
\* write outstanding and the socket closed or, after an error event of ws, being
\* closed, on either platform and whatever the peer does meanwhile.
THEOREM NoSocketLeakTheorem == Spec => []NoSocketLeak
  <1>1. ConnectionInv => NoSocketLeak
    BY DEF ConnectionInv, LifeInv, ErrorInv, AdapterDone, NoSocketLeak
  <1> QED BY <1>1, ConnectionInvariant, PTL

\* However late the pongs come and for every number of allowed misses, no more
\* than maxMisses of them are under way or in the monitor's queue.
THEOREM PongBacklogTheorem == Spec => []PongBacklogBounded
  <1>1. ConnectionInv => PongBacklogBounded
    BY DEF ConnectionInv, PongInv, PongBacklogBounded
  <1> QED BY <1>1, ConnectionInvariant, PTL

\* For any number of sends the socket takes them in order and without a gap,
\* each of the others is chained or was rejected to its caller, and one is
\* rejected only when the peer or an overflow took the socket down.
THEOREM WriteOrderTheorem == Spec => []WriteOrder
  <1>1. ConnectionInv => WriteOrder
    <2> SUFFICES ASSUME ConnectionInv PROVE WriteOrder
      OBVIOUS
    <2>1. written \in Seq(Nat) /\ \A i \in 1 .. Len(written) : written[i] = i
      BY DEF ConnectionInv, TypeOK, ChainInv
    <2>2. written = [i \in 1 .. Len(written) |-> written[i]]
      BY <2>1, LenProperties
    <2>3. written = Upto(Len(written))
      BY <2>1, <2>2 DEF Upto
    <2> QED BY <2>3 DEF ConnectionInv, DownInv, ChainInv, WriteOrder
  <1> QED BY <1>1, ConnectionInvariant, PTL

\* Two sequences whose elements follow on from each other are in order when
\* they are joined.
LEMMA JoinedInOrder ==
    ASSUME NEW g \in Seq(Nat), NEW q \in Seq(Nat)
    PROVE  /\ Len(g \o q) = Len(g) + Len(q)
           /\ (\A i \in 1 .. Len(g) : g[i] = i) /\ (\A i \in 1 .. Len(q) : q[i] = Len(g) + i)
              => g \o q = Upto(Len(g \o q))
           /\ Increasing(g) /\ Increasing(q) /\ (\A i \in 1 .. Len(g), j \in 1 .. Len(q) : g[i] < q[j])
              => \A i, j \in 1 .. Len(g \o q) : i < j => (g \o q)[i] < (g \o q)[j]
  <1> DEFINE s == g \o q
  <1>1. /\ s \in Seq(Nat) /\ Len(s) = Len(g) + Len(q) /\ Len(g) \in Nat /\ Len(q) \in Nat
        /\ \A i \in 1 .. Len(s) : s[i] = IF i <= Len(g) THEN g[i] ELSE q[i - Len(g)]
    BY ConcatProperties, LenProperties
  <1> HIDE DEF s
  <1>2. \A i \in 1 .. Len(s) : \/ i \in 1 .. Len(g) /\ s[i] = g[i]
                               \/ i > Len(g) /\ i - Len(g) \in 1 .. Len(q) /\ s[i] = q[i - Len(g)]
    BY <1>1
  <1>3. ASSUME \A i \in 1 .. Len(g) : g[i] = i, \A i \in 1 .. Len(q) : q[i] = Len(g) + i
        PROVE  s = Upto(Len(s))
    <2>1. \A i \in 1 .. Len(s) : s[i] = i
      <3> SUFFICES ASSUME NEW i \in 1 .. Len(s) PROVE s[i] = i
        OBVIOUS
      <3>1. CASE i \in 1 .. Len(g) /\ s[i] = g[i]
        BY <1>3, <3>1
      <3>2. CASE i - Len(g) \in 1 .. Len(q) /\ s[i] = q[i - Len(g)]
        <4>1. Len(g) + (i - Len(g)) = i
          BY <1>1
        <4> QED BY <1>3, <3>2, <4>1
      <3> QED BY <1>2, <3>1, <3>2
    <2>2. s = [i \in 1 .. Len(s) |-> s[i]]
      BY <1>1, LenProperties
    <2> QED BY <2>1, <2>2 DEF Upto
  <1>4. ASSUME Increasing(g), Increasing(q), \A i \in 1 .. Len(g), j \in 1 .. Len(q) : g[i] < q[j],
               NEW i \in 1 .. Len(s), NEW j \in 1 .. Len(s), i < j
        PROVE  s[i] < s[j]
    <2>1. CASE i \in 1 .. Len(g) /\ s[i] = g[i] /\ j \in 1 .. Len(g) /\ s[j] = g[j]
      BY <1>4, <2>1 DEF Increasing
    <2>2. CASE i \in 1 .. Len(g) /\ s[i] = g[i] /\ j - Len(g) \in 1 .. Len(q) /\ s[j] = q[j - Len(g)]
      BY <1>4, <2>2
    <2>3. CASE i > Len(g) /\ j \in 1 .. Len(g)
      BY <1>1, <1>4, <2>3
    <2>4. CASE i - Len(g) \in 1 .. Len(q) /\ s[i] = q[i - Len(g)] /\ j - Len(g) \in 1 .. Len(q) /\ s[j] = q[j - Len(g)]
      <3>1. i - Len(g) < j - Len(g)
        BY <1>1, <1>4
      <3> QED BY <1>4, <2>4, <3>1 DEF Increasing
    <2> QED BY <1>2, <2>1, <2>2, <2>3, <2>4
  <1> QED BY <1>1, <1>3, <1>4 DEF s

\* For every capacity and any amount of inbound traffic: until close() is
\* called, readers see every message, in order, and an overflow ends the
\* transport instead of leaving a gap.
THEOREM InboundExactTheorem == Spec => []InboundExact
  <1>1. ConnectionInv => InboundExact
    <2> SUFFICES ASSUME ConnectionInv, closer = "no" PROVE InboundExact
      BY DEF InboundExact
    <2> DEFINE gt == got["text"]
               qt == queue["text"]
               gb == got["binary"]
               qb == queue["binary"]
    <2>1. gt \in Seq(Nat) /\ qt \in Seq(Nat) /\ gb \in Seq(Nat) /\ qb \in Seq(Nat)
      BY DEF ConnectionInv, TypeOK, Kinds
    <2>2. /\ \A i \in 1 .. Len(gt) : gt[i] = i
          /\ \A i \in 1 .. Len(qt) : qt[i] = Len(gt) + i
          /\ ~shut => Len(gt) + Len(qt) = arrived["text"] /\ Len(gb) + Len(qb) + cleared = arrived["binary"]
          /\ Increasing(gb) /\ Increasing(qb)
          /\ \A i \in 1 .. Len(gb), j \in 1 .. Len(qb) : gb[i] < qb[j]
      BY DEF ConnectionInv, InboundInv
    <2> HIDE DEF gt, qt, gb, qb
    <2>3. gt \o qt = Upto(Len(gt \o qt)) /\ Len(gt \o qt) = Len(gt) + Len(qt)
      BY <2>1, <2>2, JoinedInOrder
    <2>4. \A i, j \in 1 .. Len(gb \o qb) : i < j => (gb \o qb)[i] < (gb \o qb)[j]
      BY <2>1, <2>2, JoinedInOrder
    <2>5. Len(gb \o qb) = Len(gb) + Len(qb)
      BY <2>1, JoinedInOrder
    <2>6. ~shut => Len(gt \o qt) = arrived["text"] /\ Len(gb \o qb) + cleared = arrived["binary"]
      BY <2>2, <2>3, <2>5
    <2> QED BY <2>3, <2>4, <2>6 DEF InboundExact, gt, qt, gb, qb
  <1> QED BY <1>1, ConnectionInvariant, PTL
=============================================================================
