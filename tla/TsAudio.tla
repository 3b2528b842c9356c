------------------------------- MODULE TsAudio -------------------------------
(***************************************************************************)
(* The session-owned audio byte stream of the TypeScript SDK                *)
(* (sdk/typescript/src/audio.ts) over one bound media channel.              *)
(*                                                                          *)
(* write() calls are serialised by a promise chain and cut into frames of   *)
(* FrameBytes bytes; an incomplete rest is kept for the next call.  A pump  *)
(* (#readFrames) moves frames from the channel into a bounded AsyncQueue,   *)
(* where it parks when the queue is full, and serialised read() calls drain *)
(* it.  clear(), close(), aborts and failures of the channel may come       *)
(* between any two awaits.                                                  *)
(*                                                                          *)
(* Bytes are numbered: outgoing ones in the order of the write() calls,     *)
(* incoming ones in the order in which the channel receives them.  The hand *)
(* over of a frame from the queue to a parked read is one step.             *)
(***************************************************************************)
EXTENDS Integers, Sequences, FiniteSets

CONSTANTS
    FrameBytes,    \* mediaFrameBytes of the negotiated format
    QueueFrames,   \* capacity of the inbound queue in frames
    MaxWrite,      \* bound: bytes of one write
    MaxOffered,    \* bound: bytes of all writes
    MaxFrames,     \* bound: frames the channel receives
    MaxReads       \* bound: read() calls outstanding at a time

ASSUME FormatAssumption == FrameBytes \in Nat \ {0} /\ QueueFrames \in Nat \ {0}
ASSUME AudioBoundsAssumption ==
    /\ MaxWrite \in Nat /\ MaxOffered \in Nat /\ MaxFrames \in Nat /\ MaxReads \in Nat

VARIABLES
    bound,      \* #channel: none, one with frames, or a native track
    closed,     \* #closed
    closing,    \* where close() is suspended
    \* outgoing
    writes,     \* data of the write() calls waiting in #writeTail
    active,     \* what the running write() has still to send
    writing,    \* a write() is past "await previous"
    partial,    \* #partial
    offered,    \* bytes of all write() calls so far
    wire,       \* bytes the channel has accepted, in frames of FrameBytes
    refused,    \* bytes of writes that were rejected before sending anything
    torn,       \* history: a running write was aborted or its channel failed
    \* incoming
    received,   \* frames the channel has received so far
    channel,    \* frames the channel holds
    pump, held, \* #readFrames and the frame it is pushing (0: none)
    inbound,    \* #inbound
    ended,      \* the inbound queue is closed
    current,    \* the unread bytes of #current
    reads,      \* sizes of the read() calls, in the order of #readTail
    parked,     \* the first of them waits in shift()
    delivered,  \* bytes handed to read() calls
    cleared     \* sum of the numbers clear() returned

writeVars == <<writes, active, writing, partial, offered, wire, refused, torn>>
readVars == <<received, channel, pump, held, inbound, ended, current, reads, parked,
              delivered, cleared>>
vars == <<bound, closed, closing, writeVars, readVars>>

Bytes(k) == [i \in 1 .. FrameBytes |-> (k - 1) * FrameBytes + i]

TypeOK ==
    /\ bound \in {"none", "frames", "native"}
    /\ closed \in BOOLEAN /\ closing \in {"no", "channel", "pump", "done"}
    /\ writes \in Seq(Seq(1 .. MaxOffered)) /\ active \in Seq(1 .. MaxOffered)
    /\ writing \in BOOLEAN /\ torn \in BOOLEAN
    /\ partial \in Seq(1 .. MaxOffered) /\ Len(partial) < FrameBytes
    /\ offered \in 0 .. MaxOffered
    /\ wire \in Seq(1 .. MaxOffered) /\ refused \subseteq 1 .. MaxOffered
    /\ received \in 0 .. MaxFrames /\ channel \in Seq(1 .. MaxFrames)
    /\ pump \in {"off", "receive", "push", "done"} /\ held \in 0 .. MaxFrames
    /\ inbound \in Seq(1 .. MaxFrames) /\ Len(inbound) <= QueueFrames
    /\ ended \in BOOLEAN /\ parked \in BOOLEAN
    /\ current \in Seq(Nat) /\ Len(current) < FrameBytes
    /\ reads \in Seq(1 .. FrameBytes)
    /\ delivered \in Seq(Nat) /\ cleared \in Nat

Init ==
    /\ bound = "none" /\ closed = FALSE /\ closing = "no"
    /\ writes = <<>> /\ active = <<>> /\ writing = FALSE /\ partial = <<>>
    /\ offered = 0 /\ wire = <<>> /\ refused = {} /\ torn = FALSE
    /\ received = 0 /\ channel = <<>> /\ pump = "off" /\ held = 0
    /\ inbound = <<>> /\ ended = FALSE /\ current = <<>>
    /\ reads = <<>> /\ parked = FALSE /\ delivered = <<>> /\ cleared = 0

-----------------------------------------------------------------------------
\* bind(): the first channel stays.  A native channel has no frames to pump.
Bind(mode) ==
    /\ bound = "none" /\ ~closed
    /\ bound' = mode
    /\ pump' = IF mode = "frames" THEN "receive" ELSE pump
    /\ UNCHANGED <<closed, closing, writeVars, received, channel, held, inbound, ended,
                   current, reads, parked, delivered, cleared>>

-----------------------------------------------------------------------------
(* Writing *)

\* write(): copy the data and join the chain.
Write(n) ==
    /\ n \in 1 .. MaxWrite /\ offered + n <= MaxOffered
    /\ writes' = Append(writes, [i \in 1 .. n |-> offered + i])
    /\ offered' = offered + n
    /\ UNCHANGED <<bound, closed, closing, active, writing, partial, wire, refused, torn,
                   readVars>>

\* Seeded fault: the rest of the previous call is not taken into account.
WriteBeginsWithoutPartial ==
    /\ ~writing /\ writes # <<>> /\ bound = "frames" /\ ~closed
    /\ writes' = Tail(writes)
    /\ writing' = TRUE /\ active' = Head(writes)
    /\ UNCHANGED <<bound, closed, closing, partial, offered, wire, refused, torn, readVars>>

\* The call's turn comes: put the rest of the previous call in front.
WriteBegins ==
    /\ ~writing /\ writes # <<>> /\ bound = "frames" /\ ~closed
    /\ writes' = Tail(writes)
    /\ writing' = TRUE /\ active' = partial \o Head(writes)
    /\ UNCHANGED <<bound, closed, closing, partial, offered, wire, refused, torn, readVars>>

\* The call's turn comes and its signal is aborted, or there is no channel
\* with frames any more: nothing of it is sent or kept.
WriteRefused ==
    /\ ~writing /\ writes # <<>>
    /\ writes' = Tail(writes)
    /\ refused' = refused \cup {Head(writes)[i] : i \in 1 .. Len(Head(writes))}
    /\ UNCHANGED <<bound, closed, closing, active, writing, partial, offered, wire, torn,
                   readVars>>

\* writeFrame resolves and the loop moves on.
FrameWritten ==
    /\ writing /\ Len(active) >= FrameBytes /\ closing \in {"no", "channel"}
    /\ wire' = wire \o SubSeq(active, 1, FrameBytes)
    /\ active' = SubSeq(active, FrameBytes + 1, Len(active))
    /\ UNCHANGED <<bound, closed, closing, writes, writing, partial, offered, refused, torn,
                   readVars>>

\* writeFrame rejects, or the signal is aborted between two frames: the call
\* throws and #partial keeps the value it had before the call.
WriteFails ==
    /\ writing /\ Len(active) >= FrameBytes
    /\ writing' = FALSE /\ active' = <<>> /\ torn' = TRUE
    /\ UNCHANGED <<bound, closed, closing, writes, partial, offered, wire, refused, readVars>>

\* Less than a frame is left: keep it and return.
WriteReturns ==
    /\ writing /\ Len(active) < FrameBytes
    /\ partial' = active
    /\ writing' = FALSE /\ active' = <<>>
    /\ UNCHANGED <<bound, closed, closing, writes, offered, wire, refused, torn, readVars>>

-----------------------------------------------------------------------------
(* Receiving *)

\* The channel receives a frame from the peer.
FrameReceived ==
    /\ bound = "frames" /\ closing \in {"no", "channel"}
    /\ received < MaxFrames
    /\ received' = received + 1
    /\ channel' = Append(channel, received + 1)
    /\ UNCHANGED <<bound, closed, closing, writeVars, pump, held, inbound, ended, current,
                   reads, parked, delivered, cleared>>

\* The first read() takes up to its size from bs and returns; the rest of bs
\* becomes #current.
Deliver(bs) ==
    LET n == IF Head(reads) <= Len(bs) THEN Head(reads) ELSE Len(bs) IN
    /\ delivered' = delivered \o SubSeq(bs, 1, n)
    /\ current' = SubSeq(bs, n + 1, Len(bs))
    /\ reads' = Tail(reads)
    /\ parked' = FALSE

\* readFrame resolves and the frame is pushed: to the parked read, into the
\* queue, or the pump parks with it.
PumpReceives ==
    /\ pump = "receive" /\ ~closed /\ channel # <<>>
    /\ channel' = Tail(channel)
    /\ CASE parked -> /\ Deliver(Bytes(Head(channel)))
                      /\ UNCHANGED <<pump, held, inbound>>
         [] ~parked /\ Len(inbound) < QueueFrames ->
                      /\ inbound' = Append(inbound, Head(channel))
                      /\ UNCHANGED <<pump, held, current, reads, parked, delivered>>
         [] OTHER ->  /\ pump' = "push" /\ held' = Head(channel)
                      /\ UNCHANGED <<inbound, current, reads, parked, delivered>>
    /\ UNCHANGED <<bound, closed, closing, writeVars, received, ended, cleared>>

\* readFrame rejects, or the frame has the wrong length: the queue is closed
\* and drains; onError stops the session.  A read parked on it is rejected.
PumpFails ==
    /\ pump = "receive" /\ ~closed
    /\ pump' = "done" /\ ended' = TRUE
    /\ reads' = IF parked THEN Tail(reads) ELSE reads
    /\ parked' = FALSE
    /\ UNCHANGED <<bound, closed, closing, writeVars, received, channel, held, inbound,
                   current, delivered, cleared>>

\* The pump ends with the abort signal of the stream; a held frame is lost.
PumpAborted ==
    /\ pump \in {"receive", "push"} /\ closed
    /\ pump' = "done" /\ held' = 0
    /\ UNCHANGED <<bound, closed, closing, writeVars, received, channel, inbound, ended,
                   current, reads, parked, delivered, cleared>>

-----------------------------------------------------------------------------
(* Reading *)

Read(n) ==
    /\ n \in 1 .. FrameBytes /\ Len(reads) < MaxReads
    /\ reads' = Append(reads, n)
    /\ UNCHANGED <<bound, closed, closing, writeVars, received, channel, pump, held, inbound,
                   ended, current, parked, delivered, cleared>>

\* Seeded fault: the slot a read frees does not admit the frame of the pump.
ReadTakesWithoutAdmit ==
    /\ reads # <<>> /\ ~parked /\ bound = "frames" /\ ~closed
    /\ \/ /\ current # <<>>
          /\ Deliver(current)
          /\ UNCHANGED inbound
       \/ /\ current = <<>> /\ inbound # <<>>
          /\ Deliver(Bytes(Head(inbound)))
          /\ inbound' = Tail(inbound)
    /\ UNCHANGED <<bound, closed, closing, writeVars, received, channel, pump, held, ended, cleared>>

\* The read's turn comes: the rest of the last frame, or the next frame.  The
\* slot that frees admits the frame the pump holds.
ReadTakes ==
    /\ reads # <<>> /\ ~parked /\ bound = "frames" /\ ~closed
    /\ \/ /\ current # <<>>
          /\ Deliver(current)
          /\ UNCHANGED <<inbound, pump, held>>
       \/ /\ current = <<>> /\ inbound # <<>>
          /\ Deliver(Bytes(Head(inbound)))
          /\ inbound' = IF pump = "push" THEN Append(Tail(inbound), held) ELSE Tail(inbound)
          /\ pump' = IF pump = "push" THEN "receive" ELSE pump
          /\ held' = 0
    /\ UNCHANGED <<bound, closed, closing, writeVars, received, channel, ended, cleared>>

ReadParks ==
    /\ reads # <<>> /\ ~parked /\ bound = "frames" /\ ~closed
    /\ current = <<>> /\ inbound = <<>> /\ ~ended
    /\ parked' = TRUE
    /\ UNCHANGED <<bound, closed, closing, writeVars, received, channel, pump, held, inbound,
                   ended, current, reads, delivered, cleared>>

\* Nothing can be read any more, or the caller's signal is aborted.
ReadRejected(abort) ==
    /\ reads # <<>>
    /\ \/ abort
       \/ /\ ~parked
          /\ bound # "frames" \/ closed \/ (ended /\ current = <<>> /\ inbound = <<>>)
    /\ reads' = Tail(reads) /\ parked' = FALSE
    /\ UNCHANGED <<bound, closed, closing, writeVars, received, channel, pump, held, inbound,
                   ended, current, delivered, cleared>>

-----------------------------------------------------------------------------
(* Clearing and closing *)

Buffered == Len(current) + Len(inbound) * FrameBytes       \* bufferedInboundBytes

\* Seeded fault: the rest of the frame being read survives.
ClearKeepsCurrent ==
    /\ bound = "frames"
    /\ cleared' = cleared + (Len(inbound) + Len(channel)) * FrameBytes
    /\ channel' = <<>>
    /\ inbound' = IF pump = "push" THEN <<held>> ELSE <<>>
    /\ pump' = IF pump = "push" THEN "receive" ELSE pump
    /\ held' = 0
    /\ UNCHANGED <<bound, closed, closing, writeVars, received, ended, current, reads, parked,
                   delivered>>

\* clear(): drop #current, the queue, and what the channel holds.  Clearing
\* the queue admits the frame the pump has parked with.
Clear ==
    /\ bound = "frames"
    /\ cleared' = cleared + Buffered + Len(channel) * FrameBytes
    /\ current' = <<>> /\ channel' = <<>>
    /\ IF pump = "push" /\ ~ended
       THEN inbound' = <<held>> /\ pump' = "receive" /\ held' = 0
       ELSE inbound' = <<>> /\ UNCHANGED <<pump, held>>
    /\ UNCHANGED <<bound, closed, closing, writeVars, received, ended, reads, parked, delivered>>

\* Seeded fault: the inbound queue is not closed.
CloseLeavingQueueOpen ==
    /\ ~closed
    /\ closed' = TRUE
    /\ closing' = "channel"
    /\ UNCHANGED <<bound, writeVars, readVars>>

\* close(): abort the pump and close the queue, which rejects a parked read;
\* then close the channel, join the pump and forget the partial frame.
Close ==
    /\ ~closed
    /\ closed' = TRUE
    /\ closing' = "channel"
    /\ ended' = (bound = "frames")
    /\ reads' = IF parked THEN Tail(reads) ELSE reads
    /\ parked' = FALSE
    /\ UNCHANGED <<bound, writeVars, received, channel, pump, held, inbound, current, delivered,
                   cleared>>

ChannelClosed ==
    /\ closing = "channel"
    /\ closing' = "pump"
    /\ UNCHANGED <<bound, closed, writeVars, readVars>>

CloseReturns ==
    /\ closing = "pump" /\ pump \in {"off", "done"}
    /\ closing' = "done"
    /\ partial' = <<>>
    /\ UNCHANGED <<bound, closed, writes, active, writing, offered, wire, refused, torn, readVars>>

-----------------------------------------------------------------------------
Next ==
    \/ \E mode \in {"frames", "native"} : Bind(mode)
    \/ \E n \in 1 .. MaxWrite : Write(n)
    \/ WriteBegins \/ WriteRefused \/ FrameWritten \/ WriteFails \/ WriteReturns
    \/ FrameReceived
    \/ PumpReceives \/ PumpFails \/ PumpAborted
    \/ \E n \in 1 .. FrameBytes : Read(n)
    \/ ReadTakes \/ ReadParks
    \/ \E abort \in BOOLEAN : ReadRejected(abort)
    \/ Clear
    \/ Close \/ ChannelClosed \/ CloseReturns

Spec == Init /\ [][Next]_vars

\* The promise chains and the pump run; the channel settles its close and
\* every writeFrame once it is closed, as its contract demands.
FairSpec ==
    /\ Spec
    /\ WF_vars(WriteBegins) /\ WF_vars(WriteRefused) /\ WF_vars(WriteReturns)
    /\ WF_vars(FrameWritten \/ WriteFails)
    /\ WF_vars(PumpReceives) /\ WF_vars(PumpAborted)
    /\ WF_vars(ReadTakes) /\ WF_vars(ReadParks) /\ WF_vars(ReadRejected(FALSE))
    /\ WF_vars(ChannelClosed) /\ WF_vars(CloseReturns)

-----------------------------------------------------------------------------
(* Properties *)

IsOrdered(s) == \A i, j \in 1 .. Len(s) : i < j => s[i] < s[j]
Elems(s) == {s[i] : i \in 1 .. Len(s)}

\* Concurrent write() calls of any sizes reach the wire as one byte stream in
\* the order of the calls, cut into whole frames: nothing accepted is missing,
\* repeated or reordered between the wire, the rest and the running call,
\* as long as no write was cut off in the middle.
WritesInOrder ==
    ~torn /\ closing # "done" =>
      LET stream == wire \o (IF writing THEN active ELSE partial) IN
      /\ IsOrdered(stream)
      /\ Elems(stream) \cup refused \cup UNION {Elems(writes[i]) : i \in 1 .. Len(writes)}
           = 1 .. offered
      /\ Elems(stream) \cap refused = {}

FrameData(fs) == [i \in 1 .. Len(fs) * FrameBytes |->
                    Bytes(fs[((i - 1) \div FrameBytes) + 1])[((i - 1) % FrameBytes) + 1]]
Unread == current \o FrameData(inbound \o (IF held = 0 THEN <<>> ELSE <<held>>) \o channel)

\* Reads of any sizes, hand-overs to a parked read, the parked pump and clears
\* never repeat or reorder bytes on their way from the channel to read();
\* every byte is read, still to be read, or counted by the number some clear()
\* returned; a read waits only when there is nothing to read, and the pump
\* only when the queue is full.
ReadsExact ==
    /\ TypeOK
    /\ IsOrdered(delivered \o Unread)
    /\ ~closed => Len(delivered) + Len(Unread) + cleared = received * FrameBytes
    /\ parked => current = <<>> /\ inbound = <<>> /\ held = 0 /\ ~ended
    /\ pump = "push" /\ ~closed => Len(inbound) = QueueFrames /\ held # 0

\* At most the one frame in the hands of the pump outlives a clear().
ClearLeavesOneFrame ==
    [][cleared' # cleared => Len(inbound') <= 1 /\ current' = <<>> /\ channel' = <<>>]_vars

\* After close() every write settles and close() returns, and reads settle as
\* long as there are any, however many more the application starts.
CloseSettlesAll ==
    /\ closed ~> (writes = <<>> /\ ~writing /\ closing = "done")
    /\ <>[]closed => \/ []<>(reads = <<>>)
                     \/ []<><<Len(reads') < Len(reads)>>_vars
=============================================================================
