----------------------------- MODULE AsyncQueue -----------------------------
(***************************************************************************)
(* The bounded asynchronous queue of the TypeScript SDK                     *)
(* (sdk/typescript/src/async.ts), which carries every control frame, media  *)
(* frame and pong of that SDK.                                              *)
(*                                                                          *)
(* JavaScript runs one call at a time, so every method of the class is one  *)
(* step.  A call of push or shift that cannot complete parks a promise with *)
(* its producer or consumer; it is settled later by the step of another     *)
(* caller, by close(), by clear(), or by its own AbortSignal.               *)
(*                                                                          *)
(* Values are numbered by the push call that offers them, so that the       *)
(* order of the numbers is the order of the calls.  "taken", "dropped" and  *)
(* "refused" are history variables: they only record what became of values. *)
(***************************************************************************)
EXTENDS Integers, Sequences, FiniteSets

CONSTANTS
    Capacity,     \* the constructor's capacity
    Producers,    \* callers of push and tryPush
    Consumers,    \* callers of shift
    MaxPush       \* bound on the number of push calls

\* The constructor refuses a capacity that is not a positive safe integer.
ASSUME CapacityAssumption == Capacity \in Nat \ {0}
ASSUME BoundAssumption == MaxPush \in Nat

VARIABLES
    items,        \* #items, the buffered values
    readers,      \* #readers, the consumers whose shift is parked
    writers,      \* #writers, the parked push calls with their values
    closed,       \* #closed
    offered,      \* number of values offered so far
    taken,        \* values handed to a consumer, in order
    dropped,      \* values discarded by clear()
    refused       \* values whose push was rejected, aborted or answered false

vars == <<items, readers, writers, closed, offered, taken, dropped, refused>>

Value == 1 .. MaxPush
Writer == [who : Producers, value : Value]

TypeOK ==
    /\ items \in Seq(Value)
    /\ readers \in Seq(Consumers)
    /\ writers \in Seq(Writer)
    /\ closed \in BOOLEAN
    /\ offered \in 0 .. MaxPush
    /\ taken \in Seq(Value)
    /\ dropped \subseteq Value
    /\ refused \subseteq Value

Elems(s) == {s[i] : i \in 1 .. Len(s)}
ValuesOf(ws) == [i \in 1 .. Len(ws) |-> ws[i].value]

\* A caller waits for the promise of its parked call before it calls again.
ParkedProducers == {writers[i].who : i \in 1 .. Len(writers)}
ParkedConsumers == Elems(readers)

Init ==
    /\ items = <<>> /\ readers = <<>> /\ writers = <<>>
    /\ closed = FALSE
    /\ offered = 0
    /\ taken = <<>> /\ dropped = {} /\ refused = {}

-----------------------------------------------------------------------------
\* Resolve the oldest parked reader with v.
HandToReader(v) ==
    /\ readers' = Tail(readers)
    /\ taken' = Append(taken, v)
    /\ UNCHANGED items

Buffer(v) ==
    /\ items' = Append(items, v)
    /\ UNCHANGED <<readers, taken>>

\* tryPush: admit at once or answer false, never park.
TryPush(p) ==
    LET v == offered + 1 IN
    /\ v <= MaxPush
    /\ p \notin ParkedProducers
    /\ offered' = v
    /\ IF closed \/ (readers = <<>> /\ Len(items) >= Capacity)
       THEN /\ refused' = refused \cup {v}
            /\ UNCHANGED <<items, readers, taken>>
       ELSE /\ IF readers # <<>> THEN HandToReader(v) ELSE Buffer(v)
            /\ UNCHANGED refused
    /\ UNCHANGED <<writers, closed, dropped>>

\* push: admit, or park the call behind the earlier ones.  A push whose signal
\* is already aborted throws before it touches the queue and is not a step.
Push(p) ==
    LET v == offered + 1 IN
    /\ v <= MaxPush
    /\ p \notin ParkedProducers
    /\ offered' = v
    /\ \/ /\ closed
          /\ refused' = refused \cup {v}
          /\ UNCHANGED <<items, readers, writers, taken>>
       \/ /\ ~closed /\ readers # <<>>
          /\ HandToReader(v)
          /\ UNCHANGED <<writers, refused>>
       \/ /\ ~closed /\ readers = <<>> /\ Len(items) < Capacity
          /\ Buffer(v)
          /\ UNCHANGED <<writers, refused>>
       \/ /\ ~closed /\ readers = <<>> /\ Len(items) >= Capacity
          /\ writers' = Append(writers, [who |-> p, value |-> v])
          /\ UNCHANGED <<items, readers, taken, refused>>
    /\ UNCHANGED <<closed, dropped>>

\* Seeded fault: an admitted value enters the buffer at the front.
AdmitWritersInFront(n, left, out) ==
    LET m == IF n <= Len(writers) THEN n ELSE Len(writers)
    IN  /\ items' = SubSeq(ValuesOf(writers), 1, m) \o left
        /\ taken' = out
        /\ writers' = SubSeq(writers, m + 1, Len(writers))
        /\ UNCHANGED readers

\* #admitWriter, applied n times to the buffer "left" and with "out" already
\* handed out: the first parked writers go to parked readers, one each, the
\* others into the buffer.
AdmitWriters(n, left, out) ==
    LET m == IF n <= Len(writers) THEN n ELSE Len(writers)
        k == IF m <= Len(readers) THEN m ELSE Len(readers)
        vs == ValuesOf(writers)
    IN  /\ items' = left \o SubSeq(vs, k + 1, m)
        /\ taken' = out \o SubSeq(vs, 1, k)
        /\ writers' = SubSeq(writers, m + 1, Len(writers))
        /\ readers' = IF closed /\ m = 0 /\ left = <<>>
                      THEN <<>>                       \* #closeReaders
                      ELSE SubSeq(readers, k + 1, Len(readers))

\* Seeded fault: the freed slot is not offered to a parked writer.
ShiftWithoutAdmit(c) ==
    /\ c \notin ParkedConsumers
    /\ items # <<>> \/ ~closed
    /\ IF items # <<>>
       THEN /\ items' = Tail(items) /\ taken' = Append(taken, Head(items))
            /\ UNCHANGED readers
       ELSE /\ readers' = Append(readers, c)
            /\ UNCHANGED <<items, taken>>
    /\ UNCHANGED <<writers, closed, offered, dropped, refused>>

\* shift: the oldest buffered value, else the value of the oldest parked
\* writer, else park.
Shift(c) ==
    /\ c \notin ParkedConsumers
    /\ \/ /\ items # <<>>
          /\ AdmitWriters(1, Tail(items), Append(taken, Head(items)))
       \/ /\ items = <<>> /\ writers # <<>>
          /\ taken' = Append(taken, writers[1].value)
          /\ writers' = Tail(writers)
          /\ UNCHANGED <<items, readers>>
       \/ /\ items = <<>> /\ writers = <<>> /\ ~closed
          /\ readers' = Append(readers, c)
          /\ UNCHANGED <<items, writers, taken>>
    /\ UNCHANGED <<closed, offered, dropped, refused>>

\* The onAbort listener of a parked push or shift.
Without(s, i) == SubSeq(s, 1, i - 1) \o SubSeq(s, i + 1, Len(s))

AbortWriter ==
    \E i \in 1 .. Len(writers) :
        /\ writers' = Without(writers, i)
        /\ refused' = refused \cup {writers[i].value}
        /\ UNCHANGED <<items, readers, closed, offered, taken, dropped>>

AbortReader ==
    \E i \in 1 .. Len(readers) :
        /\ readers' = Without(readers, i)
        /\ UNCHANGED <<items, writers, closed, offered, taken, dropped, refused>>

\* Seeded fault: close forgets the values of the writers it drops.
CloseSilently ==
    /\ ~closed
    /\ closed' = TRUE
    /\ writers' = <<>>
    /\ readers' = IF items = <<>> THEN <<>> ELSE readers
    /\ UNCHANGED <<items, offered, taken, dropped, refused>>

\* close: reject the parked writers; readers only when nothing is buffered.
Close ==
    /\ ~closed
    /\ closed' = TRUE
    /\ refused' = refused \cup Elems(ValuesOf(writers))
    /\ writers' = <<>>
    /\ readers' = IF items = <<>> THEN <<>> ELSE readers
    /\ UNCHANGED <<items, offered, taken, dropped>>

\* clear: discard the buffer, then admit every parked writer.
Clear ==
    /\ dropped' = dropped \cup Elems(items)
    /\ IF closed
       THEN /\ items' = <<>> /\ readers' = <<>>
            /\ UNCHANGED <<writers, taken>>
       ELSE AdmitWriters(Len(writers), <<>>, taken)
    /\ UNCHANGED <<closed, offered, refused>>

Next ==
    \/ \E p \in Producers : TryPush(p) \/ Push(p)
    \/ \E c \in Consumers : Shift(c)
    \/ AbortWriter
    \/ AbortReader
    \/ Close
    \/ Clear

Spec == Init /\ [][Next]_vars
-----------------------------------------------------------------------------
\* A call is parked only while it cannot proceed: a parked shift means that
\* the queue is open and holds nothing, neither buffered nor offered by a
\* parked push; a parked push means that the queue is open and full.  A lost
\* wake-up of any of the five methods that settle promises breaks this.
ParkedOnlyWhenBlocked ==
    /\ readers # <<>> => items = <<>> /\ writers = <<>> /\ ~closed
    /\ writers # <<>> => Len(items) >= Capacity /\ ~closed

\* Everything taken, buffered or still parked, in this order, is in the order
\* of the push calls: aborts, clears and direct hand-overs between them never
\* let a later call overtake an earlier one.
Pipeline == taken \o items \o ValuesOf(writers)
CallOrder ==
    \A i, j \in 1 .. Len(Pipeline) : i < j => Pipeline[i] < Pipeline[j]

\* No value is lost or both accepted and refused: every value offered is in
\* exactly one of the pipeline, the cleared values and the refused ones, and
\* nothing else is in any of them.
OneFate ==
    /\ Elems(Pipeline) \cup dropped \cup refused = 1 .. offered
    /\ Elems(Pipeline) \cap (dropped \cup refused) = {}
    /\ dropped \cap refused = {}
Accounted == TypeOK /\ OneFate
=============================================================================
