-------------------------- MODULE ClientViewProofs --------------------------
(***************************************************************************)
(* ClientView implements Tracker, so what is proved of Tracker holds of it, *)
(* and its own invariants, for any servers and anything they show.         *)
(***************************************************************************)
EXTENDS ClientView, TrackerProofs

\* A transfer with its animation is to the tracker what SendGameData is; all else
\* the animations do leaves it alone (TransferContext's callback).
THEOREM ViewImplementsTracker == ViewSpec => Spec
<1>1. ViewInit => Init
  BY DEF ViewInit
<1>2. [ViewNext]_<<vars, viewVars>> => [Next]_vars
  <2> SUFFICES ASSUME [ViewNext]_<<vars, viewVars>> PROVE [Next]_vars
    OBVIOUS
  <2>1. CASE Forwards
    BY <2>1 DEF Forwards, Next
  <2>2. CASE CallbackSendGameData
    BY <2>2 DEF CallbackSendGameData, Next
  <2>3. CASE ServerMoves
    <3>1. CASE clientUp
      BY <2>3, <3>1 DEF ServerMoves, Reading, vars
    <3>2. CASE ~clientUp
      <4> DEFINE ignored == [op |-> "add", items |-> {}]
      <4>1. ignored \in Packets
        BY DEF Packets
      <4>2. ForwardRaw(ignored)
        BY <2>3, <3>2 DEF ServerMoves, ForwardRaw
      <4> QED BY <4>1, <4>2 DEF Next
    <3> QED BY <3>1, <3>2
  <2>4. CASE SetAnimation \/ PlayGoesOn \/ SpawnFails
    BY <2>4 DEF SetAnimation, PlayGoesOn, SpawnFails
  <2>5. CASE NopPlay \/ DimensionPlay \/ FadePlay \/ SmoothPlay \/ EasePlay
    BY <2>5 DEF NopPlay, DimensionPlay, FadePlay, SmoothPlay, EasePlay, PlayBegins
  <2>6. CASE NopClear \/ DimensionClear \/ SmoothClear \/ EaseClear
    BY <2>6 DEF NopClear, DimensionClear, SmoothClear, EaseClear, Clearing
  <2>7. ASSUME NEW s \in Servers, Release(s) PROVE [Next]_vars
    BY <2>7 DEF Release
  <2>8. CASE NextServer \/ ClientLeaves
    BY <2>8 DEF Next
  <2>9. CASE UNCHANGED <<vars, viewVars>>
    BY <2>9
  <2> QED BY <2>1, <2>2, <2>3, <2>4, <2>5, <2>6, <2>7, <2>8, <2>9 DEF ViewNext
<1> QED BY <1>1, <1>2, PTL DEF ViewSpec, Spec

\* Old servers leave nothing behind, with the animations in between.
COROLLARY ViewSafe == ViewSpec => [](TypeOK /\ ShownIsTracked /\ OldServerGone)
  BY ViewImplementsTracker, TypeCorrect, ShownAlwaysTracked, NothingOldStays, PTL

-----------------------------------------------------------------------------
\* The three properties by induction.  A goroutine that clears, and a Play under
\* way, come after the presets; and while the callback of another animation runs
\* the client has not been sent to the dimension screen.
ViewInv ==
    /\ ViewTypeOK /\ HeldForAReason
    /\ stage = "play" => anim.kind \in {"smooth", "ease"}
    /\ \/ camera = "held" \/ anim.synced \/ (\E s \in Servers : release[s] > 0)
       \/ (stage # "off" /\ anim.kind \in {"smooth", "ease"})
       => presets
    /\ ~strayed /\ (stage = "off" \/ anim.kind # "dimension") => PlayDimension # dim

\* It holds when a session is new.
LEMMA ViewInvInit == ViewInit => ViewInv
<1> SUFFICES ASSUME ViewInit PROVE ViewInv
  OBVIOUS
<1>1. anim.kind = "dimension" /\ ~anim.synced /\ (\A s \in Servers : release[s] = 0)
  BY DEF ViewInit
<1>2. ViewTypeOK
  <2>1. release \in [Servers -> 0 .. 4] /\ left \in 0 .. 4
    BY DEF ViewInit
  <2>2. anim \in [kind : Animations, synced : BOOLEAN]
    BY DEF ViewInit, Animations
  <2> QED BY <2>1, <2>2 DEF ViewInit, ViewTypeOK
<1>3. PlayDimension # dim
  BY DEF ViewInit, PlayDimension, Dimensions
<1> QED BY <1>1, <1>2, <1>3 DEF ViewInit, ViewInv, HeldForAReason

\* Every step keeps it.
LEMMA ViewInvStep ==
  ASSUME ViewInv, TypeOK, [ViewNext]_<<vars, viewVars>>
  PROVE  ViewInv'
<1> USE DEF ViewInv, ViewTypeOK, HeldForAReason, PlayDimension, Dimensions, Animations
<1>s. server \in Servers
  BY DEF TypeOK
<1>p. ASSUME Sync
      PROVE  /\ presets' = TRUE /\ anim'.kind = anim.kind
             /\ anim' \in [kind : Animations, synced : BOOLEAN]
  BY <1>p DEF Sync
<1>1. CASE SetAnimation
  BY <1>1 DEF SetAnimation
<1>2. CASE NopPlay
  BY <1>2 DEF NopPlay, PlayBegins
<1>3. CASE DimensionPlay
  BY <1>3 DEF DimensionPlay, PlayBegins
<1>4. CASE FadePlay
  BY <1>4 DEF FadePlay, PlayBegins
<1>5. CASE SmoothPlay
  BY <1>5, <1>p DEF SmoothPlay, PlayBegins
<1>6. CASE EasePlay
  BY <1>6, <1>p DEF EasePlay, PlayBegins
<1>7. CASE PlayGoesOn
  <2>1. CASE left = 0
    BY <1>7, <2>1 DEF PlayGoesOn
  <2>2. CASE left # 0
    BY <1>7, <2>2 DEF PlayGoesOn
  <2> QED BY <2>1, <2>2
<1>8. CASE CallbackSendGameData
  BY <1>8 DEF CallbackSendGameData
<1>9. CASE SpawnFails
  BY <1>9 DEF SpawnFails
<1>10. CASE NopClear
  BY <1>10 DEF NopClear, Clearing
<1>11. CASE DimensionClear
  BY <1>11 DEF DimensionClear, Clearing
<1>12. CASE SmoothClear
  BY <1>12, <1>s DEF SmoothClear, Clearing
<1>13. CASE EaseClear
  BY <1>13, <1>s DEF EaseClear, Clearing
<1>14. ASSUME NEW s \in Servers, Release(s) PROVE ViewInv'
  BY <1>14 DEF Release
<1>15. CASE ServerMoves
  BY <1>15 DEF ServerMoves
<1>16. CASE Forwards \/ (NextServer /\ stage = "off" /\ UNCHANGED viewVars)
                     \/ (ClientLeaves /\ UNCHANGED viewVars)
  BY <1>16 DEF Forwards, viewVars
<1>17. CASE UNCHANGED <<vars, viewVars>>
  BY <1>17 DEF viewVars
<1> QED BY <1>1, <1>2, <1>3, <1>4, <1>5, <1>6, <1>7, <1>8, <1>9, <1>10, <1>11, <1>12,
           <1>13, <1>14, <1>15, <1>16, <1>17 DEF ViewNext

\* The invariant holds always.
LEMMA ViewInvAlways == ViewSpec => []ViewInv
  BY ViewInvInit, ViewInvStep, ViewSafe, PTL DEF ViewSpec

\* The state of the animations is well typed.
THEOREM ViewTyped == ViewSpec => []ViewTypeOK
  BY ViewInvAlways, PTL DEF ViewInv

\* No camera instruction is written before the presets it refers to.
THEOREM PresetsAlwaysFirst == ViewSpec => []PresetsFirst
<1>1. ViewInv => PresetsFirst
  BY DEF ViewInv, PresetsFirst
<1> QED BY <1>1, ViewInvAlways, PTL

\* A held camera is given back, unless a spawn failed.
THEOREM CameraGivenBack == ViewSpec => []HeldForAReason
<1>1. ViewInv => HeldForAReason
  BY DEF ViewInv
<1> QED BY <1>1, ViewInvAlways, PTL

\* The dimension screen is for a dimension the client is not in.
THEOREM ScreenAlwaysAppears == ViewSpec => []ScreenAppears
<1>1. ViewInv => ScreenAppears
  BY DEF ViewInv, ScreenAppears
<1> QED BY <1>1, ViewInvAlways, PTL
=============================================================================
