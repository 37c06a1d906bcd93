------------------------------ MODULE Tracker ------------------------------
(***************************************************************************)
(* session/tracker.go with its two uses, handleServer (handler.go) and     *)
(* sendGameData (session.go): what servers made the client show is noted,  *)
(* and taken back when the player is transferred.  The five Go sets are    *)
(* one set of items.  All steps are of the goroutine of handleServer, which *)
(* also runs a transfer's callback inside ReadPacket.                      *)
(***************************************************************************)
EXTENDS Naturals

CONSTANTS
    Entities, BossBars, Players, Effects, Scoreboards,  \* what may be shown
    MaxServers                                          \* bound: servers used

Items == Entities \cup BossBars \cup Players \cup Effects \cup Scoreboards

ASSUME MaxServersAssumption == MaxServers \in Nat \ {0}
ASSUME DistinctAssumption ==
    BossBars \cap (Entities \cup Players \cup Effects \cup Scoreboards) = {}

VARIABLES
    tracked,   \* the union of the tracker's sets
    shown,     \* item -> the server that made the client show it, and how
    server,    \* the conn handleServer reads from, counted
    phase,     \* "game", or "sequence" until the conn's sendGameData
    clientUp,  \* writes to the client succeed
    running    \* handleServer has not left its loop

vars == <<tracked, shown, server, phase, clientUp, running>>

Servers == 1 .. MaxServers
Nothing == [by |-> 0, how |-> "nothing"]
\* A packet is decoded, or passes by the tracker as raw bytes.  "forgotten": the
\* removal of another entity's effect of that type took it off the tracker.
Hows == {"decoded", "raw", "forgotten"}

\* The login's server needs no sendGameData: the client shows nothing yet.
Init ==
    /\ tracked = {} /\ shown = [i \in Items |-> Nothing]
    /\ server = 1 /\ phase = "game" /\ clientUp = TRUE /\ running = TRUE

-----------------------------------------------------------------------------
\* A packet about one item, or a PlayerList about several players.  "update" is
\* MobEffectModify, or a BossEvent that neither shows nor hides the bar.
Packets ==
    [op : {"add", "remove"}, items : {{i} : i \in Items} \cup SUBSET Players]
        \cup [op : {"update"}, items : {{i} : i \in BossBars \cup Effects}]

\* Mutant: a BossEvent is not noted.
HandlePacketNoBars(op, items) ==
    IF op = "remove" THEN tracked \ items
    ELSE tracked \cup (items \ BossBars)

\* handlePacket: every BossEvent is noted, also one that hides the bar.
handlePacket(op, items) ==
    IF op = "add" \/ items \cap BossBars # {} THEN tracked \cup items
    ELSE IF op = "remove" THEN tracked \ items ELSE tracked

\* What the client shows after a packet that arrived in the given way.
Shows(p, how) ==
    [i \in Items |->
        IF i \notin p.items \/ p.op = "update" THEN shown[i]
        ELSE IF p.op = "add" THEN [by |-> server, how |-> how] ELSE Nothing]

Reading == running /\ phase = "game"

\* case packet.Packet: the tracker is told, then the client; a failed write ends
\* the session.  A packet the processor cancels changes nothing.
ForwardPacket(p) ==
    /\ Reading
    /\ tracked' = handlePacket(p.op, p.items)
    /\ shown' = IF clientUp THEN Shows(p, "decoded") ELSE shown
    /\ running' = clientUp
    /\ UNCHANGED <<server, phase, clientUp>>

\* The same for a MobEffect of another entity: the tracker keeps effects by type
\* only, the player's own effects stay as they are.
ForwardOtherEffect(e, op) ==
    /\ Reading
    /\ tracked' = handlePacket(op, {e})
    /\ shown' = IF op = "remove" /\ shown[e].how = "decoded"
                   THEN [shown EXCEPT ![e] = [by |-> shown[e].by, how |-> "forgotten"]]
                   ELSE shown
    /\ running' = clientUp
    /\ UNCHANGED <<server, phase, clientUp>>

\* case []byte
ForwardRaw(p) ==
    /\ Reading
    /\ shown' = IF clientUp THEN Shows(p, "raw") ELSE shown
    /\ running' = clientUp
    /\ UNCHANGED <<tracked, server, phase, clientUp>>

-----------------------------------------------------------------------------
\* The conn was replaced or lost: handleServer goes on to the next one, also
\* when this one never finished its connection sequence.
NextServer ==
    /\ running /\ server < MaxServers
    /\ server' = server + 1
    /\ phase' = "sequence"
    /\ UNCHANGED <<tracked, shown, clientUp, running>>

\* Mutant: the boss bars are not cleared.
ClearsNoBars == Entities \cup Players \cup Effects \cup Scoreboards

\* The sets sendGameData clears.
Clears == Effects \cup Entities \cup BossBars \cup Players \cup Scoreboards

\* clearEffects and the others: the client is told of each noted item, an error
\* is ignored, and the set is emptied.
SendGameData ==
    /\ running /\ phase = "sequence"
    /\ shown' = [i \in Items |-> IF clientUp /\ i \in Clears \cap tracked
                                 THEN Nothing ELSE shown[i]]
    /\ tracked' = tracked \ Clears
    /\ phase' = "game"
    /\ UNCHANGED <<server, clientUp, running>>

ClientLeaves ==
    /\ clientUp
    /\ clientUp' = FALSE
    /\ UNCHANGED <<tracked, shown, server, phase, running>>

Next ==
    \/ \E p \in Packets : ForwardPacket(p) \/ ForwardRaw(p)
    \/ \E e \in Effects, op \in {"add", "remove", "update"} : ForwardOtherEffect(e, op)
    \/ NextServer \/ SendGameData \/ ClientLeaves

Spec == Init /\ [][Next]_vars

-----------------------------------------------------------------------------
TypeOK ==
    /\ tracked \subseteq Items
    /\ shown \in [Items -> {Nothing} \cup [by : Servers, how : Hows]]
    /\ server \in Servers /\ phase \in {"game", "sequence"}
    /\ clientUp \in BOOLEAN /\ running \in BOOLEAN

\* Whatever a decoded packet made the client show, and no later packet took
\* away, the tracker knows (handlePacket, called before the client is written).
ShownIsTracked == \A i \in Items : shown[i].how = "decoded" /\ clientUp => i \in tracked

\* Once a transfer has sent the new server's game data, nothing is left of the
\* servers before it, except what came as raw bytes and effects whose note was
\* lost to another entity's effect of the same type (sendGameData, tracker).
OldServerGone ==
    phase = "game" /\ clientUp =>
        \A i \in Items : shown[i].by # server => shown[i].how # "decoded"
=============================================================================
