------------------------ MODULE BrowserWebRtc_proofs ------------------------
(***************************************************************************)
(* Proofs about the browser audio device and the browser WebRTC transport,  *)
(* for every playback limit, any number of frames, clears, starts and       *)
(* capture messages and any set of claimants: clears leave no stale audio   *)
(* (NoStalePlayback), the playback count is exact (PlaybackAccounted), and  *)
(* closing the device or the transport, or a factory that fails, releases   *)
(* what it owns and no more (CloseReleases, RtcReleases).                   *)
(***************************************************************************)
EXTENDS BrowserWebRtc, SequenceTheorems, TLAPS

-----------------------------------------------------------------------------
(* The inductive invariant *)

ClaimTypes == [Claimants -> {"idle", "waiting", "parked", "held"}]

\* The types that the arguments below rest on.
TypeOK ==
    /\ mode \in {"websocket", "webrtc"} /\ own \in SUBSET {"mic", "ctx"}
    /\ core \in {"none", "media", "resume", "ready", "cleaning"}
    /\ start \in {"idle", "core", "worklet", "done", "failed"}
    /\ closing \in {"no", "tails", "context", "done"}
    /\ remote \in BOOLEAN /\ raced \in BOOLEAN
    /\ play \in {"off", "halfway", "reading", "waiting", "done"}
    /\ gen \in Nat /\ playGen \in Nat /\ frame \in Nat
    /\ buffered \in Nat /\ consumed \in Nat
    /\ port \in Seq(Int) /\ worklet \in Seq(Int)
    /\ fac \in {"idle", "socket", "prepare", "negotiate", "up", "failing", "failed"}
    /\ base \in {"none", "open", "closing", "closed"}
    /\ peer \in {"none", "new", "connected", "failed", "closed"}
    /\ claimed \in BOOLEAN /\ claim \in ClaimTypes
    /\ tclose \in {"no", "base", "done"}

\* The frame the playback task waits with is of its generation, which is never
\* ahead of the device's; nothing is under way before the task exists.  What
\* follows the last clear on the port is of the current generation, and so is
\* what the worklet holds when no clear is on its way.
PlayInv ==
    /\ playGen <= gen
    /\ play \in {"off", "halfway"} => port = <<>> /\ worklet = <<>>
    /\ play = "waiting" /\ playGen = gen => frame = gen
    /\ \A i \in 1 .. Len(port) :
          port[i] # Clear /\ (\A j \in 1 .. Len(port) : port[j] = Clear => j < i) => port[i] = gen
    /\ (\A j \in 1 .. Len(port) : port[j] # Clear) => \A i \in 1 .. Len(worklet) : worklet[i] = gen
    /\ \A i \in 1 .. Len(worklet) : worklet[i] # Clear

\* Until the first clear nothing is forgotten: the device's count is exact and
\* within the limit.
CountInv ==
    gen = 0 => /\ \A j \in 1 .. Len(port) : port[j] # Clear
               /\ buffered = Len(port) + Len(worklet) + consumed
               /\ buffered <= PlaybackFrames

\* #corePromise is pending exactly while a start waits for it, and a start that
\* does not overlap close() leaves it nothing to miss.
CloseInv ==
    /\ core \in {"media", "resume", "cleaning"} <=> start = "core"
    /\ core = "media" => "mic" \in own
    /\ core = "cleaning" => "ctx" \in own
    /\ closing # "no" /\ ~raced => ~InFlight /\ ~remote
    /\ closing \in {"context", "done"} /\ ~raced => play \in {"off", "halfway", "done"} /\ ("mic" \in own => mic # "live")
    /\ closing = "done" /\ ~raced => dstate = "closed" /\ ("ctx" \in own => ctx # "open")
    /\ "mic" \notin own => mic # "stopped"
    /\ "ctx" \notin own => ctx # "closed"

\* The peer connection and the socket exist from Prepare on, a failing factory
\* and a closing transport have closed the one and are closing the other, and
\* an unclaimed channel has no claimant.
RtcInv ==
    /\ fac \in {"idle", "socket"} => base = "none" /\ peer = "none"
    /\ fac \in {"prepare", "negotiate", "up"} => base # "none"
    /\ fac \in {"failing", "failed"} => peer \in {"none", "closed"} /\ base # "open"
    /\ fac = "failed" => base \in {"none", "closed"}
    /\ tclose # "no" => fac = "up" /\ peer = "closed" /\ (remote => raced)
    /\ tclose = "done" => base = "closed"
    /\ ~claimed => \A k \in Claimants : claim[k] = "idle"
    /\ \A j, k \in Claimants : j # k => claim[j] = "idle" \/ claim[k] = "idle"

-----------------------------------------------------------------------------
(* Which steps touch what *)

\* The steps of the device that concern playback, and those that do not.
PlaybackStep ==
    \/ WorkletsStart \/ WorkletsFail(TRUE) \/ WorkletsFail(FALSE) \/ PlayReads \/ PlayPosts \/ PlayEnds
    \/ WorkletReceives \/ WorkletPlays \/ ConsumedArrives \/ AppClears \/ Close
LifecycleStep ==
    \/ MediaRefused(TRUE) \/ MediaRefused(FALSE) \/ CoreReady \/ CoreBlocked \/ CoreCleaned
    \/ CaptureMessage \/ CaptureWritten(TRUE) \/ CaptureWritten(FALSE) \/ CloseStops \/ CloseReturns
    \/ MediaGranted

\* The steps of the transport that leave the device alone.
FactoryStep ==
    \/ Dial \/ DialFails \/ ProfileRefused \/ PrepareFails \/ Negotiate
    \/ NegotiationStep \/ NegotiationFails \/ FactoryReturns \/ FactoryRejects
TransportStep ==
    \/ BaseCloses \/ Monitor \/ SessionStops \/ TransportClosed
    \/ \E state \in {"connected", "failed", "closed"} : PeerChanges(state)
    \/ \E fit \in BOOLEAN : Track(fit)
    \/ \E k \in Claimants : Claim(k) \/ ClaimLooks(k) \/ ClaimGivenUp(k)

LEMMA StepKinds ==
    ASSUME [Next]_vars
    PROVE  \/ PlaybackStep /\ UNCHANGED rtcVars
           \/ LifecycleStep /\ UNCHANGED rtcVars
           \/ Start /\ UNCHANGED rtcVars
           \/ Prepare
           \/ FactoryStep /\ UNCHANGED deviceVars
           \/ TransportStep /\ UNCHANGED deviceVars
           \/ \E rendered, ok \in BOOLEAN : TrackAttached(rendered, ok)
           \/ TransportCloses
           \/ UNCHANGED vars
  <1>1. FactoryStep => UNCHANGED deviceVars
    BY DEF FactoryStep, Dial, DialFails, ProfileRefused, PrepareFails, Negotiate,
           NegotiationStep, NegotiationFails, FactoryReturns, FactoryRejects
  <1>2. TransportStep => UNCHANGED deviceVars
    BY DEF TransportStep, BaseCloses, Monitor, SessionStops, TransportClosed, PeerChanges, Track,
           Claim, ClaimLooks, ClaimGivenUp
  <1>3. CASE Device /\ UNCHANGED rtcVars
    BY <1>3 DEF Device, DeviceNext, PlaybackStep, LifecycleStep
  <1>4. CASE ~(Device /\ UNCHANGED rtcVars)
    <2>1. \/ FactoryStep \/ TransportStep \/ Prepare \/ TransportCloses
          \/ \E rendered, ok \in BOOLEAN : TrackAttached(rendered, ok)
          \/ UNCHANGED vars
      BY <1>4 DEF Next, FactoryStep, TransportStep
    <2> QED BY <1>1, <1>2, <2>1
  <1> QED BY <1>3, <1>4

\* Every other step leaves playback alone.
LEMMA PlaybackFrame ==
    ASSUME [Next]_vars
    PROVE  PlaybackStep \/ UNCHANGED playVars
  <1>1. LifecycleStep => UNCHANGED playVars
    BY DEF LifecycleStep, MediaRefused, CoreReady, CoreBlocked, CoreCleaned,
           CaptureMessage, CaptureWritten, CloseStops, CloseReturns, MediaGranted
  <1>2. Start \/ Prepare => UNCHANGED playVars
    BY DEF Start, Prepare
  <1>3. (\E rendered, ok \in BOOLEAN : TrackAttached(rendered, ok)) \/ TransportCloses => UNCHANGED playVars
    BY DEF TrackAttached, TransportCloses
  <1>4. UNCHANGED deviceVars \/ UNCHANGED vars => UNCHANGED playVars
    BY DEF deviceVars, vars
  <1> QED BY <1>1, <1>2, <1>3, <1>4, StepKinds

\* ... and every other step than these leaves the transport alone.
LEMMA RtcFrame ==
    ASSUME [Next]_vars
    PROVE  \/ UNCHANGED rtcVars
           \/ Prepare \/ FactoryStep \/ TransportStep \/ TransportCloses
           \/ \E rendered, ok \in BOOLEAN : TrackAttached(rendered, ok)
  <1>1. UNCHANGED vars => UNCHANGED rtcVars
    BY DEF vars
  <1> QED BY <1>1, StepKinds

-----------------------------------------------------------------------------
(* Types *)

LEMMA AppendType ==
    ASSUME NEW S, NEW s \in Seq(S), NEW x \in S
    PROVE  /\ Append(s, x) \in Seq(S) /\ Len(Append(s, x)) = Len(s) + 1
           /\ \A i \in 1 .. Len(s) : Append(s, x)[i] = s[i]
           /\ Append(s, x)[Len(s) + 1] = x
  BY AppendProperties

LEMMA TailType ==
    ASSUME NEW S, NEW s \in Seq(S), s # <<>>
    PROVE  /\ Len(s) \in Nat /\ Len(s) >= 1
           /\ Head(s) \in S /\ Head(s) = s[1]
           /\ Tail(s) \in Seq(S) /\ Len(Tail(s)) = Len(s) - 1
           /\ \A i \in 1 .. Len(Tail(s)) : Tail(s)[i] = s[i + 1]
  <1>1. Len(s) \in Nat /\ Len(s) >= 1
    BY EmptySeq, LenProperties
  <1>2. Head(s) \in S /\ Tail(s) \in Seq(S)
    BY HeadTailProperties
  <1>3. Head(s) = s[1] /\ Len(Tail(s)) = Len(s) - 1 /\ \A i \in 1 .. Len(Tail(s)) : Tail(s)[i] = s[i + 1]
    BY <1>1, HeadTailProperties
  <1> QED BY <1>1, <1>2, <1>3

LEMMA TypeInit == Init => TypeOK
  <1> SUFFICES ASSUME Init PROVE TypeOK
    OBVIOUS
  <1>1. port \in Seq(Int) /\ worklet \in Seq(Int)
    BY DEF Init, DeviceInit
  <1>2. remote \in BOOLEAN /\ raced \in BOOLEAN /\ claimed \in BOOLEAN
    BY DEF Init, DeviceInit, RtcInit
  <1>3. claim \in ClaimTypes
    BY DEF Init, RtcInit, ClaimTypes
  <1> QED BY <1>1, <1>2, <1>3 DEF Init, DeviceInit, RtcInit, TypeOK

LEMMA PlayTypeStep ==
    ASSUME TypeOK, [Next]_vars
    PROVE  /\ play' \in {"off", "halfway", "reading", "waiting", "done"}
           /\ gen' \in Nat /\ playGen' \in Nat /\ frame' \in Nat
           /\ buffered' \in Nat /\ consumed' \in Nat
           /\ port' \in Seq(Int) /\ worklet' \in Seq(Int)
  <1>1. CASE UNCHANGED playVars
    BY <1>1 DEF TypeOK, playVars
  <1>2. CASE WorkletsStart \/ WorkletsFail(TRUE) \/ WorkletsFail(FALSE) \/ PlayReads \/ PlayEnds
    BY <1>2 DEF TypeOK, WorkletsStart, WorkletsFail, PlayReads, PlayEnds
  <1>3. CASE PlayPosts
    <2>1. frame \in Int /\ buffered + 1 \in Nat
      BY DEF TypeOK
    <2>2. Append(port, frame) \in Seq(Int)
      BY <2>1, AppendType DEF TypeOK
    <2> QED BY <1>3, <2>1, <2>2 DEF TypeOK, PlayPosts
  <1>4. CASE WorkletReceives
    <2>1. /\ port' = Tail(port) /\ port' \in Seq(Int) /\ Head(port) \in Int
          /\ UNCHANGED <<gen, play, playGen, frame, buffered>>
      BY <1>4, TailType DEF TypeOK, WorkletReceives
    <2>2. consumed' \in Nat
      BY <1>4 DEF TypeOK, WorkletReceives
    <2>3. \A s \in Seq(Int) : Append(s, Head(port)) \in Seq(Int)
      BY <2>1, AppendType
    <2>4. worklet # <<>> => Tail(worklet) \in Seq(Int)
      BY TailType DEF TypeOK
    <2>5. Len(worklet) = PlaybackFrames => worklet # <<>>
      BY PlaybackAssumption
    <2>6. <<>> \in Seq(Int) /\ worklet \in Seq(Int)
      BY DEF TypeOK
    <2>7. worklet' \in Seq(Int)
      BY <1>4, <2>3, <2>4, <2>5, <2>6 DEF WorkletReceives
    <2> QED BY <2>1, <2>2, <2>7 DEF TypeOK
  <1>5. CASE WorkletPlays
    <2>1. Tail(worklet) \in Seq(Int)
      BY <1>5, TailType DEF TypeOK, WorkletPlays
    <2> QED BY <1>5, <2>1 DEF TypeOK, WorkletPlays
  <1>6. CASE ConsumedArrives
    BY <1>6 DEF TypeOK, ConsumedArrives
  <1>7. CASE AppClears \/ Close
    <2>1. Clear \in Int /\ gen + 1 \in Nat
      BY DEF TypeOK, Clear
    <2>2. Append(port, Clear) \in Seq(Int)
      BY <2>1, AppendType DEF TypeOK
    <2>3. /\ gen' = gen + 1 /\ buffered' = 0 /\ port' \in {port, Append(port, Clear)}
          /\ UNCHANGED <<play, playGen, frame, worklet, consumed>>
      BY <1>7 DEF AppClears, Close, ClearPlayback
    <2> QED BY <2>1, <2>2, <2>3 DEF TypeOK
  <1> QED
    BY <1>1, <1>2, <1>3, <1>4, <1>5, <1>6, <1>7, PlaybackFrame DEF PlaybackStep

LEMMA DeviceTypeStep ==
    ASSUME TypeOK, [Next]_vars
    PROVE  /\ mode' = mode /\ own' = own
           /\ core' \in {"none", "media", "resume", "ready", "cleaning"}
           /\ start' \in {"idle", "core", "worklet", "done", "failed"}
           /\ closing' \in {"no", "tails", "context", "done"}
           /\ remote' \in BOOLEAN /\ raced' \in BOOLEAN
  <1> USE DEF coreVars
  <1>1. CASE UNCHANGED <<mode, own, core, start, closing, remote, raced>>
    BY <1>1 DEF TypeOK
  <1>2. CASE Start \/ Prepare
    <2>1. Start
      BY <1>2 DEF Prepare
    <2>2. raced' \in BOOLEAN /\ remote' \in BOOLEAN
      BY <2>1 DEF Start, TypeOK
    <2>3. start' \in {"failed", "worklet", "done", "core"} /\ core' \in {core, "media", "resume"}
          /\ UNCHANGED <<mode, own, closing>>
      BY <2>1 DEF Start
    <2> QED BY <2>2, <2>3 DEF TypeOK
  <1>3. CASE \E rendered, ok \in BOOLEAN : TrackAttached(rendered, ok)
    <2>1. remote' \in BOOLEAN /\ raced' \in BOOLEAN /\ UNCHANGED <<mode, own, core, start, closing>>
      BY <1>3 DEF TrackAttached, TypeOK
    <2> QED BY <2>1 DEF TypeOK
  <1>4. CASE TransportCloses
    BY <1>4 DEF TransportCloses, TypeOK
  <1>5. CASE Close
    <2>1. raced' \in BOOLEAN /\ remote' = FALSE
      BY <1>5 DEF Close, InFlight
    <2> QED BY <1>5, <2>1 DEF Close, TypeOK
  <1>6. CASE WorkletsStart \/ WorkletsFail(TRUE) \/ WorkletsFail(FALSE) \/ CoreReady \/ CoreCleaned \/ MediaGranted
    BY <1>6 DEF TypeOK, WorkletsStart, WorkletsFail, CoreReady, CoreCleaned, MediaGranted
  <1>7. CASE MediaRefused(TRUE) \/ MediaRefused(FALSE) \/ CoreBlocked
    BY <1>7 DEF TypeOK, MediaRefused, CoreBlocked, StartCleanup
  <1>8. CASE CloseStops \/ CloseReturns
    BY <1>8 DEF TypeOK, CloseStops, CloseReturns
  <1>9. CASE PlayReads \/ PlayPosts \/ PlayEnds \/ WorkletReceives \/ WorkletPlays \/ ConsumedArrives \/ AppClears
    BY <1>9, <1>1 DEF PlayReads, PlayPosts, PlayEnds, WorkletReceives, WorkletPlays, ConsumedArrives, AppClears
  <1>10. CASE CaptureMessage \/ CaptureWritten(TRUE) \/ CaptureWritten(FALSE)
    BY <1>10, <1>1 DEF CaptureMessage, CaptureWritten
  <1>11. CASE UNCHANGED deviceVars \/ UNCHANGED vars
    BY <1>11, <1>1 DEF deviceVars, vars
  <1> QED
    BY <1>2, <1>3, <1>4, <1>5, <1>6, <1>7, <1>8, <1>9, <1>10, <1>11, StepKinds DEF PlaybackStep, LifecycleStep

\* A wake-up moves waiters between waiting and parked only.
LEMMA WakeKeeps ==
    ASSUME claim \in ClaimTypes, Wake \/ UNCHANGED <<mon, claim>>
    PROVE  claim' \in ClaimTypes /\ \A k \in Claimants : claim'[k] = "idle" <=> claim[k] = "idle"
  BY DEF Wake, ClaimTypes

LEMMA RtcTypeStep ==
    ASSUME TypeOK, [Next]_vars
    PROVE  /\ fac' \in {"idle", "socket", "prepare", "negotiate", "up", "failing", "failed"}
           /\ base' \in {"none", "open", "closing", "closed"}
           /\ peer' \in {"none", "new", "connected", "failed", "closed"}
           /\ claimed' \in BOOLEAN /\ claim' \in ClaimTypes
           /\ tclose' \in {"no", "base", "done"}
  <1>1. CASE UNCHANGED <<fac, base, peer, claimed, claim, tclose>>
    BY <1>1 DEF TypeOK
  <1>2. CASE UNCHANGED rtcVars
    BY <1>2, <1>1 DEF rtcVars
  <1>3. CASE Prepare
    BY <1>3 DEF TypeOK, Prepare
  <1>4. CASE FactoryStep
    BY <1>4 DEF TypeOK, FactoryStep, Dial, DialFails, ProfileRefused, PrepareFails, Negotiate,
           NegotiationStep, NegotiationFails, FactoryReturns, FactoryRejects, FactoryFails
  <1>5. CASE \E k \in Claimants : Claim(k) \/ ClaimLooks(k) \/ ClaimGivenUp(k)
    <2>1. claimed' \in BOOLEAN
      BY <1>5 DEF TypeOK, Claim, ClaimLooks, ClaimGivenUp
    <2>2. claim' \in ClaimTypes
      BY <1>5 DEF TypeOK, ClaimTypes, Claim, ClaimLooks, ClaimGivenUp
    <2> QED BY <1>5, <2>1, <2>2 DEF TypeOK, Claim, ClaimLooks, ClaimGivenUp
  <1>6. CASE \E state \in {"connected", "failed", "closed"} : PeerChanges(state)
    <2>1. claim' \in ClaimTypes
      BY <1>6, WakeKeeps DEF TypeOK, PeerChanges
    <2> QED BY <1>6, <2>1 DEF TypeOK, PeerChanges
  <1>7. CASE BaseCloses \/ TransportClosed
    <2>1. claim' \in ClaimTypes
      BY <1>7, WakeKeeps DEF TypeOK, BaseCloses, TransportClosed
    <2> QED BY <1>7, <2>1 DEF TypeOK, BaseCloses, TransportClosed
  <1>8. CASE Monitor \/ SessionStops
    BY <1>8, <1>1 DEF Monitor, SessionStops
  <1>9. CASE \/ \E fit \in BOOLEAN : Track(fit)
             \/ \E rendered, ok \in BOOLEAN : TrackAttached(rendered, ok)
    <2>1. UNCHANGED <<fac, base, peer, claimed, tclose>> /\ (Wake \/ UNCHANGED <<mon, claim>>)
      BY <1>9 DEF Track, TrackAttached
    <2>2. claim' \in ClaimTypes
      BY <2>1, WakeKeeps DEF TypeOK
    <2> QED BY <2>1, <2>2 DEF TypeOK
  <1>10. CASE TransportCloses
    BY <1>10 DEF TypeOK, TransportCloses
  <1> QED
    BY <1>2, <1>3, <1>4, <1>5, <1>6, <1>7, <1>8, <1>9, <1>10, RtcFrame DEF TransportStep

LEMMA TypeStep == TypeOK /\ [Next]_vars => TypeOK'
  <1> SUFFICES ASSUME TypeOK, [Next]_vars PROVE TypeOK'
    OBVIOUS
  <1> QED BY PlayTypeStep, DeviceTypeStep, RtcTypeStep DEF TypeOK

-----------------------------------------------------------------------------
(* Playback *)

LEMMA PlayInit == Init => PlayInv /\ CountInv
  BY PlaybackAssumption DEF Init, DeviceInit, PlayInv, CountInv

LEMMA PlayStep == TypeOK /\ PlayInv /\ [Next]_vars => PlayInv'
  <1> SUFFICES ASSUME TypeOK, PlayInv, [Next]_vars PROVE PlayInv'
    OBVIOUS
  <1>0. /\ gen \in Nat /\ playGen \in Nat /\ frame \in Nat /\ port \in Seq(Int) /\ worklet \in Seq(Int)
        /\ Len(port) \in Nat /\ Len(worklet) \in Nat
        /\ \A n \in Nat : n # Clear
    BY LenProperties DEF TypeOK, Clear
  <1>1. CASE UNCHANGED playVars
    BY <1>1 DEF PlayInv, playVars
  <1>2. CASE WorkletsStart \/ WorkletsFail(TRUE) \/ WorkletsFail(FALSE)
    BY <1>0, <1>2 DEF PlayInv, WorkletsStart, WorkletsFail
  <1>3. CASE PlayReads
    BY <1>0, <1>3 DEF PlayInv, PlayReads
  <1>4. CASE PlayPosts
    <2>1. /\ play = "waiting" /\ play' = "reading" /\ playGen' = gen /\ UNCHANGED <<gen, worklet>>
          /\ IF playGen = gen THEN port' = Append(port, frame) ELSE port' = port
      BY <1>4 DEF PlayPosts
    <2>2. CASE playGen # gen
      BY <1>0, <2>1, <2>2 DEF PlayInv
    <2>3. CASE playGen = gen
      <3>1. port' = Append(port, gen) /\ gen \in Int
        BY <1>0, <2>1, <2>3 DEF PlayInv
      <3>2. /\ Len(port') = Len(port) + 1 /\ port'[Len(port) + 1] = gen
            /\ \A i \in 1 .. Len(port) : port'[i] = port[i]
        BY <1>0, <3>1, AppendType
      <3>3. /\ \A i \in 1 .. Len(port') : i \in 1 .. Len(port) \/ i = Len(port) + 1
            /\ \A i \in 1 .. Len(port) : i \in 1 .. Len(port')
        BY <1>0, <3>2
      <3>4. ASSUME NEW i \in 1 .. Len(port'), port'[i] # Clear,
                   \A j \in 1 .. Len(port') : port'[j] = Clear => j < i
            PROVE  port'[i] = gen
        <4>1. CASE i \in 1 .. Len(port)
          <5>1. \A j \in 1 .. Len(port) : port[j] = Clear => j < i
            BY <3>2, <3>3, <3>4
          <5> QED BY <3>2, <3>4, <4>1, <5>1 DEF PlayInv
        <4>2. CASE i = Len(port) + 1
          BY <3>2, <4>2
        <4> QED BY <3>3, <4>1, <4>2
      <3>5. (\A j \in 1 .. Len(port') : port'[j] # Clear) => \A i \in 1 .. Len(worklet) : worklet[i] = gen
        BY <3>2, <3>3 DEF PlayInv
      <3> QED BY <1>0, <2>1, <3>4, <3>5 DEF PlayInv
    <2> QED BY <2>2, <2>3
  <1>5. CASE PlayEnds
    BY <1>5 DEF PlayInv, PlayEnds
  <1>6. CASE WorkletReceives
    <2>1. /\ port # <<>> /\ port' = Tail(port) /\ UNCHANGED <<gen, play, playGen, frame>>
      BY <1>6 DEF WorkletReceives
    <2>2. /\ Len(port) >= 1 /\ Head(port) = port[1] /\ Head(port) \in Int /\ Len(port') = Len(port) - 1
          /\ \A i \in 1 .. Len(port') : port'[i] = port[i + 1]
      BY <1>0, <2>1, TailType
    <2>3. /\ \A i \in 1 .. Len(port') : i + 1 \in 1 .. Len(port)
          /\ \A j \in 1 .. Len(port) : j = 1 \/ (j - 1 \in 1 .. Len(port') /\ (j - 1) + 1 = j)
          /\ 1 \in 1 .. Len(port)
      BY <1>0, <2>2
    <2>4. ASSUME NEW i \in 1 .. Len(port'), port'[i] # Clear,
                 \A j \in 1 .. Len(port') : port'[j] = Clear => j < i
          PROVE  port'[i] = gen
      <3>1. \A j \in 1 .. Len(port) : port[j] = Clear => j < i + 1
        <4> SUFFICES ASSUME NEW j \in 1 .. Len(port), port[j] = Clear PROVE j < i + 1
          OBVIOUS
        <4>1. CASE j = 1
          BY <4>1
        <4>2. CASE j - 1 \in 1 .. Len(port') /\ (j - 1) + 1 = j
          <5>1. port'[j - 1] = Clear
            BY <2>2, <4>2
          <5>2. j - 1 < i
            BY <2>4, <4>2, <5>1
          <5> QED BY <5>2
        <4> QED BY <2>3, <4>1, <4>2
      <3> QED BY <2>2, <2>3, <2>4, <3>1 DEF PlayInv
    <2>5. play \notin {"off", "halfway"}
      BY <2>1 DEF PlayInv
    <2>6. CASE Head(port) = Clear
      <3>1. worklet' = <<>> /\ Len(worklet') = 0
        BY <1>6, <2>6 DEF WorkletReceives
      <3>2. \A i \in 1 .. Len(worklet') : FALSE
        BY <3>1
      <3> QED BY <2>1, <2>4, <2>5, <3>2 DEF PlayInv
    <2>7. CASE Head(port) # Clear
      <3>1. PICK s \in Seq(Int) :
               /\ worklet' = Append(s, Head(port))
               /\ \A i \in 1 .. Len(s) : \E j \in 1 .. Len(worklet) : s[i] = worklet[j]
        <4>1. CASE Len(worklet) = PlaybackFrames
          <5>1. worklet # <<>>
            BY <4>1, PlaybackAssumption
          <5>2. /\ Tail(worklet) \in Seq(Int) /\ Len(Tail(worklet)) = Len(worklet) - 1
                /\ \A i \in 1 .. Len(Tail(worklet)) : Tail(worklet)[i] = worklet[i + 1]
            BY <1>0, <5>1, TailType
          <5>3. \A i \in 1 .. Len(Tail(worklet)) : i + 1 \in 1 .. Len(worklet)
            BY <1>0, <5>2
          <5>4. worklet' = Append(Tail(worklet), Head(port))
            BY <1>6, <2>7, <4>1 DEF WorkletReceives
          <5> QED BY <5>2, <5>3, <5>4
        <4>2. CASE Len(worklet) # PlaybackFrames
          <5>1. worklet' = Append(worklet, Head(port))
            BY <1>6, <2>7, <4>2 DEF WorkletReceives
          <5> QED BY <1>0, <5>1
        <4> QED BY <4>1, <4>2
      <3>2. /\ Len(s) \in Nat /\ Len(worklet') = Len(s) + 1 /\ worklet'[Len(s) + 1] = Head(port)
            /\ \A i \in 1 .. Len(s) : worklet'[i] = s[i]
        <4>1. \A x \in Int : /\ Len(Append(s, x)) = Len(s) + 1 /\ Append(s, x)[Len(s) + 1] = x
                             /\ \A i \in 1 .. Len(s) : Append(s, x)[i] = s[i]
          BY AppendType
        <4> QED BY <2>2, <3>1, <4>1, LenProperties
      <3>3. \A i \in 1 .. Len(worklet') : i \in 1 .. Len(s) \/ i = Len(s) + 1
        BY <3>2
      <3>4. \A i \in 1 .. Len(worklet') : worklet'[i] = port[1] \/ \E j \in 1 .. Len(worklet) : worklet'[i] = worklet[j]
        BY <2>2, <3>1, <3>2, <3>3
      <3>5. \A i \in 1 .. Len(worklet') : worklet'[i] # Clear
        BY <2>2, <2>7, <3>4 DEF PlayInv
      <3>6. ASSUME \A j \in 1 .. Len(port') : port'[j] # Clear
            PROVE  \A i \in 1 .. Len(worklet') : worklet'[i] = gen
        <4>1. \A j \in 1 .. Len(port) : port[j] # Clear
          BY <2>2, <2>3, <2>7, <3>6
        <4>2. port[1] = gen /\ \A j \in 1 .. Len(worklet) : worklet[j] = gen
          BY <2>3, <4>1 DEF PlayInv
        <4> QED BY <3>4, <4>2
      <3> QED BY <2>1, <2>4, <2>5, <3>5, <3>6 DEF PlayInv
    <2> QED BY <2>6, <2>7
  <1>7. CASE WorkletPlays
    <2>1. worklet # <<>> /\ worklet' = Tail(worklet) /\ UNCHANGED <<gen, play, playGen, frame, port>>
      BY <1>7 DEF WorkletPlays
    <2>2. Len(worklet') = Len(worklet) - 1 /\ \A i \in 1 .. Len(worklet') : worklet'[i] = worklet[i + 1]
      BY <1>0, <2>1, TailType
    <2>3. \A i \in 1 .. Len(worklet') : i + 1 \in 1 .. Len(worklet)
      BY <1>0, <2>2
    <2>4. play \notin {"off", "halfway"}
      BY <2>1 DEF PlayInv
    <2> QED BY <2>1, <2>2, <2>3, <2>4 DEF PlayInv
  <1>8. CASE ConsumedArrives
    BY <1>8 DEF PlayInv, ConsumedArrives
  <1>9. CASE AppClears \/ Close
    <2>1. /\ gen' = gen + 1 /\ UNCHANGED <<play, playGen, frame, worklet>>
          /\ port' = IF play \in {"off", "halfway"} THEN port ELSE Append(port, Clear)
      BY <1>9 DEF AppClears, Close, ClearPlayback
    <2>2. playGen' <= gen' /\ playGen' # gen'
      BY <1>0, <2>1 DEF PlayInv
    <2>3. CASE play \in {"off", "halfway"}
      <3>1. port' = <<>> /\ worklet' = <<>> /\ Len(<<>>) = 0
        BY <2>1, <2>3 DEF PlayInv
      <3>2. \A i \in 1 .. Len(<<>>) : FALSE
        OBVIOUS
      <3> QED BY <2>2, <3>1, <3>2 DEF PlayInv
    <2>4. CASE play \notin {"off", "halfway"}
      <3>1. port' = Append(port, Clear) /\ Clear \in Int
        BY <2>1, <2>4 DEF Clear
      <3>2. Len(port') = Len(port) + 1 /\ port'[Len(port) + 1] = Clear
        BY <1>0, <3>1, AppendType
      <3>3. Len(port) + 1 \in 1 .. Len(port') /\ \A i \in 1 .. Len(port') : ~(Len(port) + 1 < i)
        BY <1>0, <3>2
      <3>4. ~(\A j \in 1 .. Len(port') : port'[j] # Clear)
        BY <3>2, <3>3
      <3>5. \A i \in 1 .. Len(port') : ~(\A j \in 1 .. Len(port') : port'[j] = Clear => j < i)
        BY <3>2, <3>3
      <3> QED BY <2>1, <2>2, <2>4, <3>4, <3>5 DEF PlayInv
    <2> QED BY <2>3, <2>4
  <1> QED
    BY <1>1, <1>2, <1>3, <1>4, <1>5, <1>6, <1>7, <1>8, <1>9, PlaybackFrame DEF PlaybackStep

LEMMA CountStep == TypeOK /\ PlayInv /\ CountInv /\ [Next]_vars => CountInv'
  <1> SUFFICES ASSUME TypeOK, PlayInv, CountInv, [Next]_vars, gen' = 0 PROVE CountInv'
    BY DEF CountInv
  <1>0. /\ gen \in Nat /\ frame \in Nat /\ port \in Seq(Int) /\ worklet \in Seq(Int)
        /\ Len(port) \in Nat /\ Len(worklet) \in Nat /\ buffered \in Nat /\ consumed \in Nat
        /\ PlaybackFrames \in Nat /\ \A n \in Nat : n # Clear
    BY PlaybackAssumption, LenProperties DEF TypeOK, Clear
  <1>1. CASE UNCHANGED <<gen, buffered, port, worklet, consumed>>
    BY <1>1 DEF CountInv
  <1>2. CASE UNCHANGED playVars
    BY <1>1, <1>2 DEF playVars
  <1>3. CASE WorkletsStart \/ WorkletsFail(TRUE) \/ WorkletsFail(FALSE) \/ PlayReads \/ PlayEnds
    BY <1>1, <1>3 DEF WorkletsStart, WorkletsFail, PlayReads, PlayEnds
  <1>4. CASE AppClears \/ Close
    <2>1. gen' = gen + 1
      BY <1>4 DEF AppClears, Close, ClearPlayback
    <2> QED BY <1>0, <2>1
  <1>5. CASE PlayPosts
    <2>1. /\ buffered < PlaybackFrames /\ UNCHANGED <<gen, worklet, consumed>>
          /\ IF playGen = gen THEN buffered' = buffered + 1 /\ port' = Append(port, frame)
                              ELSE buffered' = buffered /\ port' = port
      BY <1>5 DEF PlayPosts
    <2>2. CASE playGen # gen
      BY <2>1, <2>2 DEF CountInv
    <2>3. CASE playGen = gen
      <3>1. gen = 0 /\ buffered' = buffered + 1 /\ port' = Append(port, frame) /\ frame \in Int
        BY <1>0, <2>1, <2>3
      <3>2. /\ Len(port') = Len(port) + 1 /\ port'[Len(port) + 1] = frame
            /\ \A i \in 1 .. Len(port) : port'[i] = port[i]
        BY <1>0, <3>1, AppendType
      <3>3. \A i \in 1 .. Len(port') : i \in 1 .. Len(port) \/ i = Len(port) + 1
        BY <1>0, <3>2
      <3>4. \A i \in 1 .. Len(port') : port'[i] # Clear
        BY <1>0, <3>1, <3>2, <3>3 DEF CountInv
      <3>5. buffered = Len(port) + Len(worklet) + consumed
        BY <3>1 DEF CountInv
      <3>6. buffered' = Len(port') + Len(worklet') + consumed' /\ buffered' <= PlaybackFrames
        BY <1>0, <2>1, <3>1, <3>2, <3>5
      <3> QED BY <3>4, <3>6 DEF CountInv
    <2> QED BY <2>2, <2>3
  <1>6. CASE WorkletReceives
    <2>1. port # <<>> /\ port' = Tail(port) /\ UNCHANGED <<gen, buffered>>
      BY <1>6 DEF WorkletReceives
    <2>2. /\ Len(port) >= 1 /\ Head(port) = port[1] /\ Head(port) \in Int /\ Len(port') = Len(port) - 1
          /\ \A i \in 1 .. Len(port') : port'[i] = port[i + 1]
      BY <1>0, <2>1, TailType
    <2>3. \A i \in 1 .. Len(port') : i + 1 \in 1 .. Len(port)
      BY <1>0, <2>2
    <2>4. 1 \in 1 .. Len(port)
      BY <1>0, <2>2
    <2>5. /\ \A i \in 1 .. Len(port) : port[i] # Clear
          /\ buffered = Len(port) + Len(worklet) + consumed /\ buffered <= PlaybackFrames
      BY <2>1 DEF CountInv
    <2>6. \A i \in 1 .. Len(port') : port'[i] # Clear
      BY <2>2, <2>3, <2>5
    <2>7. Len(worklet) # PlaybackFrames
      BY <1>0, <2>2, <2>5
    <2>8. worklet' = Append(worklet, Head(port)) /\ consumed' = consumed
      BY <1>6, <2>2, <2>4, <2>5, <2>7 DEF WorkletReceives
    <2>9. Len(worklet') = Len(worklet) + 1
      <3>1. \A x \in Int : Len(Append(worklet, x)) = Len(worklet) + 1
        BY <1>0, AppendType
      <3> QED BY <2>2, <2>8, <3>1
    <2>10. buffered' = Len(port') + Len(worklet') + consumed' /\ buffered' <= PlaybackFrames
      BY <1>0, <2>1, <2>2, <2>5, <2>8, <2>9
    <2> QED BY <2>6, <2>10 DEF CountInv
  <1>7. CASE WorkletPlays
    <2>1. /\ worklet # <<>> /\ worklet' = Tail(worklet) /\ consumed' = consumed + 1
          /\ UNCHANGED <<gen, buffered, port>>
      BY <1>7 DEF WorkletPlays
    <2>2. Len(worklet') = Len(worklet) - 1
      BY <1>0, <2>1, TailType
    <2>3. buffered = Len(port) + Len(worklet) + consumed
      BY <2>1 DEF CountInv
    <2>4. buffered' = Len(port') + Len(worklet') + consumed'
      BY <1>0, <2>1, <2>2, <2>3
    <2> QED BY <2>1, <2>4 DEF CountInv
  <1>8. CASE ConsumedArrives
    <2>1. /\ consumed > 0 /\ consumed' = consumed - 1 /\ UNCHANGED <<gen, port, worklet>>
          /\ buffered' = IF buffered > 0 THEN buffered - 1 ELSE 0
      BY <1>8 DEF ConsumedArrives
    <2>2. buffered = Len(port) + Len(worklet) + consumed /\ buffered <= PlaybackFrames
      BY <2>1 DEF CountInv
    <2>3. buffered' = Len(port') + Len(worklet') + consumed' /\ buffered' <= PlaybackFrames
      BY <1>0, <2>1, <2>2
    <2> QED BY <2>1, <2>3 DEF CountInv
  <1> QED
    BY <1>2, <1>3, <1>4, <1>5, <1>6, <1>7, <1>8, PlaybackFrame DEF PlaybackStep

-----------------------------------------------------------------------------
(* Closing the device *)

LEMMA CloseInit == Init => CloseInv
  BY DEF Init, DeviceInit, CloseInv, InFlight

LEMMA CloseStep == TypeOK /\ CloseInv /\ [Next]_vars => CloseInv'
  <1> SUFFICES ASSUME TypeOK, CloseInv, [Next]_vars PROVE CloseInv'
    OBVIOUS
  <1> USE DEF coreVars, InFlight
  <1>1. ASSUME UNCHANGED <<own, core, start, mic, ctx, closing, remote, raced>>,
               dstate = "closed" => dstate' = "closed",
               play \in {"off", "halfway", "done"} => play' \in {"off", "halfway", "done"}
        PROVE  CloseInv'
    BY <1>1 DEF CloseInv
  <1>2. CASE Start \/ Prepare
    <2>1. /\ start \in {"idle", "failed"} /\ raced' = (raced \/ (closing # "no" /\ dstate # "closed"))
          /\ UNCHANGED <<own, remote, closing, play>>
      BY <1>2 DEF Prepare, Start, playVars
    <2>2. CASE dstate = "closed"
      BY <1>2, <2>1, <2>2 DEF CloseInv, Prepare, Start
    <2>3. CASE dstate # "closed" /\ core = "ready"
      BY <1>2, <2>1, <2>3 DEF CloseInv, Prepare, Start
    <2>4. CASE dstate # "closed" /\ core # "ready"
      BY <1>2, <2>1, <2>4 DEF CloseInv, Prepare, Start
    <2> QED BY <2>2, <2>3, <2>4
  <1>3. CASE MediaGranted
    BY <1>3 DEF CloseInv, MediaGranted, TypeOK
  <1>4. CASE MediaRefused(TRUE) \/ MediaRefused(FALSE)
    BY <1>4 DEF CloseInv, MediaRefused, TypeOK
  <1>5. CASE CoreReady
    BY <1>5 DEF CloseInv, CoreReady, TypeOK
  <1>6. CASE CoreBlocked
    <2>1. /\ core = "resume" /\ UNCHANGED <<own, ctx, remote, closing, raced>>
          /\ mic' = MicReleased /\ core' = IF "ctx" \in own /\ ctx = "open" THEN "cleaning" ELSE "none"
          /\ start' = IF core' = "none" THEN "failed" ELSE start
      BY <1>6 DEF CoreBlocked, StartCleanup
    <2>2. start = "core" /\ (closing # "no" => raced)
      BY <2>1 DEF CloseInv, TypeOK
    <2>3. "mic" \notin own => mic' # "stopped"
      BY <2>1 DEF CloseInv, MicReleased
    <2> QED BY <2>1, <2>2, <2>3 DEF CloseInv
  <1>7. CASE CoreCleaned
    BY <1>7 DEF CloseInv, CoreCleaned, TypeOK
  <1>8. CASE WorkletsStart \/ WorkletsFail(TRUE) \/ WorkletsFail(FALSE)
    <2>1. start = "worklet" /\ start' \in {"done", "failed"} /\ UNCHANGED <<own, core, mic, ctx, remote, closing, raced>>
      BY <1>8 DEF WorkletsStart, WorkletsFail
    <2>2. closing # "no" => raced
      BY <2>1 DEF CloseInv, TypeOK
    <2> QED BY <2>1, <2>2 DEF CloseInv
  <1>9. CASE CaptureMessage \/ CaptureWritten(TRUE) \/ CaptureWritten(FALSE)
    BY <1>9, <1>1 DEF CaptureMessage, CaptureWritten, Fail, playVars
  <1>10. CASE PlayReads \/ PlayPosts \/ PlayEnds
    BY <1>10, <1>1 DEF PlayReads, PlayPosts, PlayEnds, Fail
  <1>11. CASE WorkletReceives \/ WorkletPlays \/ ConsumedArrives \/ AppClears
    BY <1>11, <1>1 DEF WorkletReceives, WorkletPlays, ConsumedArrives, AppClears
  <1>12. CASE Close
    BY <1>12 DEF CloseInv, Close, TypeOK
  <1>13. CASE CloseStops
    <2>1. /\ closing = "tails" /\ closing' = "context" /\ mic' = MicReleased /\ play \in {"off", "halfway", "done"}
          /\ UNCHANGED <<own, core, start, ctx, dstate, remote, raced, play>>
      BY <1>13 DEF CloseStops, playVars
    <2> QED BY <2>1 DEF CloseInv, MicReleased
  <1>14. CASE CloseReturns
    <2>1. /\ closing = "context" /\ closing' = "done" /\ dstate' = "closed"
          /\ ctx' = IF "ctx" \in own /\ ctx = "open" THEN "closed" ELSE ctx
          /\ UNCHANGED <<own, core, start, mic, remote, raced, play>>
      BY <1>14 DEF CloseReturns, playVars
    <2> QED BY <2>1 DEF CloseInv
  <1>15. CASE \E rendered, ok \in BOOLEAN : TrackAttached(rendered, ok)
    <2>1. /\ raced' = (raced \/ closing # "no" \/ tclose # "no")
          /\ UNCHANGED <<own, core, start, mic, ctx, dstate, closing, play>>
      BY <1>15 DEF TrackAttached, playVars
    <2> QED BY <2>1 DEF CloseInv, TypeOK
  <1>16. CASE TransportCloses
    <2>1. remote' = FALSE /\ UNCHANGED <<own, core, start, mic, ctx, dstate, closing, raced, play>>
      BY <1>16 DEF TransportCloses, playVars
    <2> QED BY <2>1 DEF CloseInv
  <1>17. CASE UNCHANGED deviceVars \/ UNCHANGED vars
    BY <1>17, <1>1 DEF deviceVars, vars, playVars
  <1> QED
    BY <1>2, <1>3, <1>4, <1>5, <1>6, <1>7, <1>8, <1>9, <1>10, <1>11, <1>12, <1>13, <1>14, <1>15, <1>16, <1>17,
       StepKinds DEF PlaybackStep, LifecycleStep

-----------------------------------------------------------------------------
(* The transport *)

LEMMA RtcInitial == Init => RtcInv
  BY DEF Init, RtcInit, RtcInv

\* Only close() of the device resets the history of overlaps, and it takes the
\* remote track off the device in the same step.
LEMMA RemoteRaced ==
    ASSUME TypeOK, [Next]_vars, tclose # "no", remote => raced
    PROVE  remote' => raced'
  <1> USE DEF coreVars
  <1>1. CASE UNCHANGED <<remote, raced>>
    BY <1>1
  <1>2. CASE Start \/ Prepare
    BY <1>2 DEF Prepare, Start
  <1>3. CASE Close
    BY <1>3 DEF Close
  <1>4. CASE \E rendered, ok \in BOOLEAN : TrackAttached(rendered, ok)
    BY <1>4 DEF TrackAttached
  <1>5. CASE TransportCloses
    BY <1>5 DEF TransportCloses
  <1>6. CASE LifecycleStep
    BY <1>1, <1>6 DEF LifecycleStep, MediaRefused, CoreReady, CoreBlocked, CoreCleaned,
           CaptureMessage, CaptureWritten, CloseStops, CloseReturns, MediaGranted
  <1>7. CASE PlaybackStep /\ ~Close
    BY <1>1, <1>7 DEF PlaybackStep, WorkletsStart, WorkletsFail, PlayReads, PlayPosts, PlayEnds,
           WorkletReceives, WorkletPlays, ConsumedArrives, AppClears
  <1>8. CASE UNCHANGED deviceVars \/ UNCHANGED vars
    BY <1>1, <1>8 DEF deviceVars, vars
  <1> QED
    BY <1>2, <1>3, <1>4, <1>5, <1>6, <1>7, <1>8, StepKinds

LEMMA RtcStep == TypeOK /\ RtcInv /\ [Next]_vars => RtcInv'
  <1> SUFFICES ASSUME TypeOK, RtcInv, [Next]_vars PROVE RtcInv'
    OBVIOUS
  <1>0. tclose # "no" => (remote' => raced')
    BY RemoteRaced DEF RtcInv
  <1>1. ASSUME UNCHANGED <<fac, base, peer, claimed, tclose>>,
               \A k \in Claimants : claim'[k] = "idle" <=> claim[k] = "idle"
        PROVE  RtcInv'
    BY <1>0, <1>1 DEF RtcInv
  <1>2. CASE UNCHANGED rtcVars
    BY <1>1, <1>2 DEF rtcVars
  <1>3. CASE Prepare
    BY <1>3 DEF RtcInv, Prepare
  <1>4. CASE Dial \/ DialFails \/ ProfileRefused
    BY <1>4 DEF RtcInv, Dial, DialFails, ProfileRefused
  <1>5. CASE PrepareFails \/ NegotiationFails
    BY <1>5 DEF RtcInv, PrepareFails, NegotiationFails, FactoryFails, TypeOK
  <1>6. CASE Negotiate \/ FactoryReturns \/ FactoryRejects
    BY <1>6 DEF RtcInv, Negotiate, FactoryReturns, FactoryRejects
  <1>7. CASE NegotiationStep \/ Monitor \/ SessionStops
    BY <1>1, <1>7 DEF NegotiationStep, Monitor, SessionStops
  <1>8. CASE \E fit \in BOOLEAN : Track(fit)
    BY <1>1, <1>8, WakeKeeps DEF Track, TypeOK
  <1>9. CASE BaseCloses
    BY <1>0, <1>9 DEF RtcInv, BaseCloses
  <1>10. CASE TransportClosed
    <2>1. \A k \in Claimants : claim'[k] = "idle" <=> claim[k] = "idle"
      BY <1>10, WakeKeeps DEF TransportClosed, TypeOK
    <2> QED BY <1>0, <1>10, <2>1 DEF RtcInv, TransportClosed
  <1>11. CASE \E state \in {"connected", "failed", "closed"} : PeerChanges(state)
    <2>1. /\ fac \in {"negotiate", "up"} /\ tclose = "no"
          /\ UNCHANGED <<fac, base, claimed, tclose>>
          /\ \A k \in Claimants : claim'[k] = "idle" <=> claim[k] = "idle"
      BY <1>11, WakeKeeps DEF PeerChanges, Listening, TypeOK
    <2> QED BY <2>1 DEF RtcInv
  <1>12. ASSUME NEW k \in Claimants, Claim(k) \/ ClaimLooks(k) \/ ClaimGivenUp(k) PROVE RtcInv'
    <2>1. /\ UNCHANGED <<fac, base, peer, tclose>>
          /\ \A j \in Claimants : j # k => claim'[j] = claim[j]
      BY <1>12 DEF Claim, ClaimLooks, ClaimGivenUp, TypeOK, ClaimTypes
    <2>2. CASE Claim(k)
      <3>1. ~claimed /\ claimed'
        BY <2>2 DEF Claim
      <3>2. \A j \in Claimants : j # k => claim'[j] = "idle"
        BY <2>1, <3>1 DEF RtcInv
      <3> QED BY <1>0, <2>1, <3>1, <3>2 DEF RtcInv
    <2>3. CASE ClaimLooks(k) \/ ClaimGivenUp(k)
      <3>1. claim[k] # "idle"
        BY <2>3 DEF ClaimLooks, ClaimGivenUp
      <3>2. \A j \in Claimants : j # k => claim[j] = "idle" /\ claim'[j] = "idle"
        BY <2>1, <3>1 DEF RtcInv
      <3>3. claimed
        BY <3>1 DEF RtcInv
      <3>4. claimed' \/ claim'[k] = "idle"
        BY <2>3, <3>3 DEF ClaimLooks, ClaimGivenUp, TypeOK, ClaimTypes
      <3> QED BY <1>0, <2>1, <3>2, <3>4 DEF RtcInv
    <2> QED BY <1>12, <2>2, <2>3
  <1>13. CASE \E rendered, ok \in BOOLEAN : TrackAttached(rendered, ok)
    BY <1>1, <1>13, WakeKeeps DEF TrackAttached, TypeOK
  <1>14. CASE TransportCloses
    <2>1. /\ fac = "up" /\ tclose' = "base" /\ remote' = FALSE /\ peer' = "closed"
          /\ base' = IF base = "open" THEN "closing" ELSE base
          /\ UNCHANGED <<fac, claimed, claim>>
      BY <1>14 DEF TransportCloses
    <2> QED BY <2>1 DEF RtcInv
  <1> QED
    BY <1>2, <1>3, <1>4, <1>5, <1>6, <1>7, <1>8, <1>9, <1>10, <1>11, <1>12, <1>13, <1>14,
       RtcFrame DEF FactoryStep, TransportStep

-----------------------------------------------------------------------------
(* The theorems *)

BrowserInv == TypeOK /\ PlayInv /\ CountInv /\ CloseInv /\ RtcInv

\* Every reachable state of the device and its transport satisfies the
\* inductive invariant.
THEOREM BrowserInvariant == Spec => []BrowserInv
  <1>1. Init => BrowserInv
    BY TypeInit, PlayInit, CloseInit, RtcInitial DEF BrowserInv
  <1>2. BrowserInv /\ [Next]_vars => BrowserInv'
    BY TypeStep, PlayStep, CountStep, CloseStep, RtcStep DEF BrowserInv
  <1> QED BY <1>1, <1>2, PTL DEF Spec

\* clearPlayback silences what came before it, for any number of frames and
\* clears and wherever the playback task is when they come.
THEOREM NoStalePlaybackTheorem == Spec => []NoStalePlayback
  <1>1. BrowserInv => NoStalePlayback
    BY DEF BrowserInv, PlayInv, NoStalePlayback, Frames, Cleared
  <1> QED BY <1>1, BrowserInvariant, PTL

\* For every playback limit, until the first clear the device counts exactly
\* the frames between it and the loudspeaker and stays within the limit.
THEOREM PlaybackAccountedTheorem == Spec => []PlaybackAccounted
  <1>1. BrowserInv => PlaybackAccounted
    <2> SUFFICES ASSUME BrowserInv, gen = 0
                 PROVE  /\ buffered = Len(port) + Len(worklet) + consumed
                        /\ Len(port) + Len(worklet) <= PlaybackFrames
      BY DEF PlaybackAccounted
    <2>1. Len(port) \in Nat /\ Len(worklet) \in Nat /\ consumed \in Nat /\ PlaybackFrames \in Nat
      BY PlaybackAssumption, LenProperties DEF BrowserInv, TypeOK
    <2>2. buffered = Len(port) + Len(worklet) + consumed /\ buffered <= PlaybackFrames
      BY DEF BrowserInv, CountInv
    <2> QED BY <2>1, <2>2
  <1> QED BY <1>1, BrowserInvariant, PTL

\* close() of the device releases all that it owns, whatever failed before and
\* however often it was started, and nothing it was lent is ever touched.
THEOREM CloseReleasesTheorem == Spec => []CloseReleases
  <1>1. BrowserInv => CloseReleases
    BY DEF BrowserInv, CloseInv, CloseReleases
  <1> QED BY <1>1, BrowserInvariant, PTL

\* A factory that rejects and a transport that is closed leave no socket, peer
\* connection or remote track behind, and however many callers there are the
\* media channel is never shared.
THEOREM RtcReleasesTheorem == Spec => []RtcReleases
  <1>1. BrowserInv => RtcReleases
    <2> SUFFICES ASSUME BrowserInv PROVE RtcReleases
      OBVIOUS
    <2>1. \A j, k \in Claimants : j # k => "idle" \in {claim[j], claim[k]}
      BY DEF BrowserInv, RtcInv
    <2> QED BY <2>1 DEF BrowserInv, RtcInv, RtcReleases
  <1> QED BY <1>1, BrowserInvariant, PTL
=============================================================================
