---------------------------- MODULE GoMedia_proofs ----------------------------
(***************************************************************************)
(* Proofs about the media binding of the Go session, for any number of      *)
(* concurrent calls and any set of formats.                                 *)
(***************************************************************************)
EXTENDS GoMedia, TLAPS

USE DEF sessionVars, bindVars, vars

LEMMA MediaInit == Init => MediaInv
  BY NoneAssumption DEF Init, MediaInv, TypeOK, SoleOwner, Owners, NoChannelLeak

\* The steps of one call of OpenAudio or AcceptAudio.
LEMMA BinderStep ==
  ASSUME MediaInv, NEW b \in Binders,
         \/ \E f \in Formats \cup {None} : BeginAudioBind(b, f) \/ MediaOpened(b, f)
         \/ MediaRefused(b) \/ FinishChecks(b) \/ FinishBinds(b) \/ UnboundClosed(b)
  PROVE  MediaInv'
  <1> USE NoneAssumption
  <1>1. ASSUME NEW f \in Formats \cup {None}, BeginAudioBind(b, f) PROVE MediaInv'
    BY <1>1 DEF BeginAudioBind, MediaInv, TypeOK, SoleOwner, Owners, NoChannelLeak
  <1>2. ASSUME NEW f \in Formats \cup {None}, MediaOpened(b, f) PROVE MediaInv'
    BY <1>2 DEF MediaOpened, MediaInv, TypeOK, SoleOwner, Owners, NoChannelLeak
  <1>3. CASE MediaRefused(b)
    BY <1>3 DEF MediaRefused, Unbind, MediaInv, TypeOK, SoleOwner, Owners, NoChannelLeak
  <1>4. CASE FinishChecks(b)
    BY <1>4 DEF FinishChecks, Acceptable, Unbind, MediaInv, TypeOK, SoleOwner, Owners,
                NoChannelLeak
  <1>5. CASE FinishBinds(b)
    BY <1>5 DEF FinishBinds, Directions, MediaInv, TypeOK, SoleOwner, Owners, NoChannelLeak
  <1>6. CASE UnboundClosed(b)
    BY <1>6 DEF UnboundClosed, MediaInv, TypeOK, SoleOwner, Owners, NoChannelLeak
  <1> QED BY <1>1, <1>2, <1>3, <1>4, <1>5, <1>6

\* The steps of the pumps, of a stop and of the supervisor.
LEMMA ShutdownStep ==
  ASSUME MediaInv,
         \/ \E p \in pumps : \/ PumpReleased(p)
                             \/ \E orderly \in BOOLEAN : PumpFails(p, orderly)
         \/ StopRequested \/ BeginShutdown \/ CloseAudioMedia \/ CloseChannel \/ CloseTransport
         \/ Join
  PROVE  MediaInv'
  <1> USE NoneAssumption
  <1>1. ASSUME NEW p \in pumps, NEW orderly \in BOOLEAN, PumpFails(p, orderly) PROVE MediaInv'
    BY <1>1 DEF PumpFails, MediaInv, TypeOK, SoleOwner, Owners, NoChannelLeak
  <1>2. CASE StopRequested
    BY <1>2 DEF StopRequested, MediaInv, TypeOK, SoleOwner, Owners, NoChannelLeak
  <1>3. CASE BeginShutdown
    BY <1>3 DEF BeginShutdown, MediaInv, TypeOK, SoleOwner, Owners, NoChannelLeak
  <1>4. CASE CloseAudioMedia
    BY <1>4 DEF CloseAudioMedia, MediaInv, TypeOK, SoleOwner, Owners, NoChannelLeak
  <1>5. CASE CloseChannel
    BY <1>5 DEF CloseChannel, MediaInv, TypeOK, SoleOwner, Owners, NoChannelLeak
  <1>6. CASE CloseTransport
    BY <1>6 DEF CloseTransport, MediaInv, TypeOK, SoleOwner, Owners, NoChannelLeak
  <1>7. CASE Join
    BY <1>7 DEF Join, MediaInv, TypeOK, SoleOwner, Owners, NoChannelLeak
  <1> QED BY <1>1, <1>2, <1>3, <1>4, <1>5, <1>6, <1>7 DEF PumpReleased

LEMMA MediaStep == MediaInv /\ [Next]_vars => MediaInv'
  <1>1. ASSUME MediaInv, Next PROVE MediaInv'
    BY <1>1, BinderStep, ShutdownStep DEF Next
  <1>2. ASSUME MediaInv, UNCHANGED vars PROVE MediaInv'
    BY <1>2 DEF MediaInv, TypeOK, SoleOwner, Owners, NoChannelLeak, Directions
  <1> QED BY <1>1, <1>2

\* For any number of concurrent OpenAudio and AcceptAudio calls mediaState is
\* truthful: one call at a time owns the bind, and the bound channel has the
\* session's format.
THEOREM SoleOwnerTheorem == Spec => []SoleOwner
  <1>1. MediaInv => SoleOwner
    BY DEF MediaInv
  <1> QED BY MediaInit, MediaStep, <1>1, PTL DEF Spec

\* For any number of concurrent calls racing a stop, every channel the
\* transport opened is closed by the supervisor or by the call that lost.
THEOREM NoChannelLeakTheorem == Spec => []NoChannelLeak
  <1>1. MediaInv => NoChannelLeak
    BY DEF MediaInv
  <1> QED BY MediaInit, MediaStep, <1>1, PTL DEF Spec

\* No pump starts once the supervisor has read the bound channel, so mediaWG
\* is never added to while it is waited for.
THEOREM NoLatePumpTheorem == Spec => NoLatePump
  <1>1. ASSUME MediaInv, [Next]_vars
        PROVE  supervisor # "running" /\ supervisor # "closeMedia" => pumps' \subseteq pumps
    BY <1>1 DEF MediaInv, Next, BeginAudioBind, MediaOpened, MediaRefused, FinishChecks,
                FinishBinds, UnboundClosed, PumpFails, PumpReleased, StopRequested,
                BeginShutdown, CloseAudioMedia, CloseChannel, CloseTransport, Join
  <1>2. MediaInv /\ [Next]_vars
          => [supervisor # "running" /\ supervisor # "closeMedia" => pumps' \subseteq pumps]_vars
    BY <1>1
  <1> QED BY MediaInit, MediaStep, <1>2, PTL DEF Spec, NoLatePump
=============================================================================
