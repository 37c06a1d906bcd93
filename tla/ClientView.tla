----------------------------- MODULE ClientView -----------------------------
(***************************************************************************)
(* What a transfer does to the client's view: session/animation with its   *)
(* caller, the callback of TransferContext (session.go), on top of Tracker.*)
(* The callback plays the animation, sends the game data, spawns the       *)
(* player and clears the animation, in the goroutine of handleServer; the  *)
(* camera animations are cleared by a goroutine of their own, which may    *)
(* still be at work during the next transfer.                              *)
(*                                                                         *)
(* A camera instruction counts when it is written; positions, colours and  *)
(* times are left out.                                                     *)
(***************************************************************************)
EXTENDS Tracker

VARIABLES
    anim,      \* s.animation, and its synced
    home,      \* the dimension in the client's game data, that of its login
    dim,       \* the dimension the client was last sent to
    presets,   \* the client got the camera presets
    camera,    \* is the camera held by an instruction
    stage,     \* where the callback is
    left,      \* instructions Play still has to write
    release,   \* instructions the goroutine of each server's Clear has to write
    strayed,   \* ghost: a server or a failed spawn left the client elsewhere
    abandoned  \* ghost: a failed spawn left the camera held

viewVars == <<anim, home, dim, presets, camera, stage, left, release, strayed,
              abandoned>>

Dimensions == {"overworld", "nether", "end"}
Animations == {"nop", "dimension", "fade", "smooth", "ease"}

\* NewSession, and the login.
ViewInit ==
    /\ Init
    /\ anim = [kind |-> "dimension", synced |-> FALSE]
    /\ home \in Dimensions /\ dim = home
    /\ presets = FALSE /\ camera = "free" /\ stage = "off" /\ left = 0
    /\ release = [s \in Servers |-> 0]
    /\ strayed = FALSE /\ abandoned = FALSE

\* SetAnimation takes no lock, so a sound use is from the goroutine of handleServer,
\* as in a processor's methods.
SetAnimation ==
    /\ running /\ stage = "off"
    /\ \E k \in Animations : anim' = [kind |-> k, synced |-> FALSE]
    /\ UNCHANGED <<vars, home, dim, presets, camera, stage, left, release, strayed,
                   abandoned>>

-----------------------------------------------------------------------------
\* Play.

PlayBegins(kind) ==
    /\ running /\ phase = "sequence" /\ stage = "off" /\ anim.kind = kind
    /\ UNCHANGED <<vars, home, release, strayed, abandoned>>

NopPlay ==
    /\ PlayBegins("nop")
    /\ stage' = "data"
    /\ UNCHANGED <<anim, dim, presets, camera, left>>

\* Mutant: the dimension screen is always the Nether's.
PlayNether == "nether"
\* The dimension of the login is taken for the current one.
PlayDimension == IF home = "nether" THEN "end" ELSE "nether"

DimensionPlay ==
    /\ PlayBegins("dimension")
    /\ dim' = PlayDimension
    /\ stage' = "data"
    /\ UNCHANGED <<anim, presets, camera, left>>

FadePlay ==
    /\ PlayBegins("fade")
    /\ stage' = "data"
    /\ UNCHANGED <<anim, dim, presets, camera, left>>

\* Mutant: another animation's presets are taken for the client's.
SyncNothing == UNCHANGED <<anim, presets>>
\* An animation sends the presets when it is played for the first time.
Sync ==
    /\ anim' = [anim EXCEPT !.synced = TRUE]
    /\ presets' = (presets \/ ~anim.synced)

SmoothPlay ==
    /\ PlayBegins("smooth")
    /\ Sync
    /\ camera' = "held" /\ left' = 1
    /\ stage' = "play"
    /\ UNCHANGED dim

EasePlay ==
    /\ PlayBegins("ease")
    /\ Sync
    /\ camera' = "held" /\ left' = 4
    /\ stage' = "play"
    /\ UNCHANGED dim

\* The instructions after the first, each after a sleep.
PlayGoesOn ==
    /\ stage = "play"
    /\ IF left = 0 THEN stage' = "data" /\ UNCHANGED <<camera, left>>
       ELSE camera' = "held" /\ left' = left - 1 /\ UNCHANGED stage
    /\ UNCHANGED <<vars, anim, home, dim, presets, release, strayed, abandoned>>

-----------------------------------------------------------------------------
\* The rest of the callback.

CallbackSendGameData ==
    /\ stage = "data"
    /\ SendGameData
    /\ stage' = "spawn"
    /\ UNCHANGED <<anim, home, dim, presets, camera, left, release, strayed, abandoned>>

\* The callback returns without Clear.
SpawnFails ==
    /\ stage = "spawn"
    /\ stage' = "off"
    /\ strayed' = (strayed \/ anim.kind = "dimension")
    /\ abandoned' = (abandoned \/ camera = "held")
    /\ UNCHANGED <<vars, anim, home, dim, presets, camera, left, release>>

Clearing(kind) ==
    /\ stage = "spawn" /\ anim.kind = kind
    /\ stage' = "off"
    /\ UNCHANGED <<vars, anim, home, presets, camera, left, abandoned>>

\* Also of a Fade, which embeds it.
NopClear ==
    /\ Clearing("nop") \/ Clearing("fade")
    /\ UNCHANGED <<dim, release, strayed>>

DimensionClear ==
    /\ Clearing("dimension")
    /\ dim' = "overworld"
    /\ strayed' = FALSE
    /\ UNCHANGED release

\* Mutant: the goroutine is not started.
SmoothClearNothing ==
    /\ Clearing("smooth")
    /\ UNCHANGED <<dim, strayed, release>>

\* go func: three instructions that hold the camera, and one that frees it.
SmoothClear ==
    /\ Clearing("smooth")
    /\ release' = [release EXCEPT ![server] = 4]
    /\ UNCHANGED <<dim, strayed>>
EaseClear ==
    /\ Clearing("ease")
    /\ release' = [release EXCEPT ![server] = 4]
    /\ UNCHANGED <<dim, strayed>>

Release(s) ==
    /\ release[s] > 0
    /\ release' = [release EXCEPT ![s] = @ - 1]
    /\ camera' = IF release[s] = 1 THEN "free" ELSE "held"
    /\ abandoned' = (abandoned /\ release[s] > 1)
    /\ UNCHANGED <<vars, anim, home, dim, presets, stage, left, strayed>>

-----------------------------------------------------------------------------
\* handleServer outside the callback, and a server's own ChangeDimension.

ServerMoves ==
    /\ Reading /\ stage = "off"
    /\ dim' \in Dimensions /\ strayed' = TRUE
    /\ running' = clientUp
    /\ UNCHANGED <<tracked, shown, server, phase, clientUp>>
    /\ UNCHANGED <<anim, home, presets, camera, stage, left, release, abandoned>>

\* A packet of the game.
Forwards ==
    /\ \/ \E p \in Packets : ForwardPacket(p) \/ ForwardRaw(p)
       \/ \E e \in Effects, op \in {"add", "remove", "update"} : ForwardOtherEffect(e, op)
    /\ stage = "off" /\ UNCHANGED viewVars

ViewNext ==
    \/ SetAnimation
    \/ NopPlay \/ DimensionPlay \/ FadePlay \/ SmoothPlay \/ EasePlay \/ PlayGoesOn
    \/ CallbackSendGameData \/ SpawnFails
    \/ NopClear \/ DimensionClear \/ SmoothClear \/ EaseClear
    \/ \E s \in Servers : Release(s)
    \/ ServerMoves \/ Forwards
    \/ NextServer /\ stage = "off" /\ UNCHANGED viewVars
    \/ ClientLeaves /\ UNCHANGED viewVars

ViewSpec == ViewInit /\ [][ViewNext]_<<vars, viewVars>>

-----------------------------------------------------------------------------
ViewTypeOK ==
    /\ anim \in [kind : Animations, synced : BOOLEAN]
    /\ home \in Dimensions /\ dim \in Dimensions
    /\ presets \in BOOLEAN /\ camera \in {"free", "held"}
    /\ stage \in {"off", "play", "data", "spawn"} /\ left \in 0 .. 4
    /\ release \in [Servers -> 0 .. 4]
    /\ strayed \in BOOLEAN /\ abandoned \in BOOLEAN

\* Instructions refer to the presets, so the client gets them before any is sent,
\* whichever animations the session is given in between and whichever goroutine
\* sends the instruction (Sync, Play and Clear of Smooth and Ease).
PresetsFirst == camera = "held" => presets

\* A camera that is held will be given back: a callback is under way or a goroutine
\* that frees it at its end is at work, also when several overlap.  The exception is
\* a transfer whose spawn failed after Play (TransferContext, Smooth, Ease).
HeldForAReason ==
    camera = "held" =>
        \/ stage # "off" /\ anim.kind \in {"smooth", "ease"}
        \/ \E s \in Servers : release[s] > 0
        \/ abandoned

\* The dimension screen appears only for a dimension the client is not in.  Play
\* knows the login's dimension only, so this takes that no server moved the player
\* and no spawn failed since the last Clear (Dimension.Play, Dimension.Clear).
ScreenAppears == phase = "sequence" /\ stage = "off" /\ ~strayed => PlayDimension # dim
=============================================================================
