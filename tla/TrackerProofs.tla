--------------------------- MODULE TrackerProofs ---------------------------
(* Proofs about Tracker, for any sets of items and any number of servers.   *)
EXTENDS Tracker, TLAPS

\* OldServerGone needs ShownIsTracked: what sendGameData takes back is what was
\* noted, so all that decoded packets showed must have been noted.
Inv == TypeOK /\ ShownIsTracked /\ OldServerGone

\* What a packet does to the notes stays within the items.
LEMMA HandleType ==
    ASSUME TypeOK, NEW op, NEW items, items \subseteq Items
    PROVE  handlePacket(op, items) \subseteq Items
    BY DEF TypeOK, handlePacket

\* What a packet does to the client's items is well typed.
LEMMA ShowsType ==
    ASSUME TypeOK, NEW p \in Packets, NEW how \in Hows
    PROVE  Shows(p, how) \in [Items -> {Nothing} \cup [by : Servers, how : Hows]]
    BY DEF TypeOK, Shows, Servers

\* A packet concerns items only.
LEMMA PacketItems == \A p \in Packets : p.items \subseteq Items
    BY DEF Packets, Items

\* The invariant holds before anything is shown.
LEMMA InitInv == Init => Inv
    BY MaxServersAssumption
    DEF Init, Inv, TypeOK, ShownIsTracked, OldServerGone, Servers, Nothing

\* Every step keeps the invariant.
LEMMA StepInv == Inv /\ [Next]_vars => Inv'
  <1> SUFFICES ASSUME Inv, [Next]_vars PROVE Inv'
    OBVIOUS
  <1>t. TypeOK /\ ShownIsTracked /\ OldServerGone
    BY DEF Inv
  <1>1. ASSUME NEW p \in Packets, ForwardPacket(p) PROVE Inv'
    <2>1. p.items \subseteq Items
      BY PacketItems
    <2>2. TypeOK'
      BY <1>1, <1>t, <2>1, HandleType, ShowsType DEF ForwardPacket, TypeOK, Hows
    <2>3. ShownIsTracked'
      BY <1>1, <1>t, <2>1
      DEF ForwardPacket, ShownIsTracked, Shows, handlePacket, Packets, Nothing
    <2>4. OldServerGone'
      BY <1>1, <1>t
      DEF ForwardPacket, Reading, OldServerGone, Shows, Nothing
    <2> QED BY <2>2, <2>3, <2>4 DEF Inv
  <1>2. ASSUME NEW p \in Packets, ForwardRaw(p) PROVE Inv'
    <2>1. TypeOK'
      BY <1>2, <1>t, ShowsType DEF ForwardRaw, TypeOK, Hows
    <2>2. ShownIsTracked'
      BY <1>2, <1>t DEF ForwardRaw, ShownIsTracked, Shows, Nothing
    <2>3. OldServerGone'
      BY <1>2, <1>t DEF ForwardRaw, Reading, OldServerGone, Shows, Nothing
    <2> QED BY <2>1, <2>2, <2>3 DEF Inv
  <1>3. ASSUME NEW e \in Effects, NEW op \in {"add", "remove", "update"},
               ForwardOtherEffect(e, op)
        PROVE  Inv'
    <2>1. {e} \subseteq Items
      BY DEF Items
    <2>2. shown' \in [Items -> {Nothing} \cup [by : Servers, how : Hows]]
      <3>1. CASE op = "remove" /\ shown[e].how = "decoded"
        <4>1. shown[e] \in [by : Servers, how : Hows]
          BY <1>t, <2>1, <3>1 DEF TypeOK, Nothing
        <4>2. [by |-> shown[e].by, how |-> "forgotten"] \in [by : Servers, how : Hows]
          BY <4>1 DEF Hows
        <4> QED BY <1>3, <1>t, <3>1, <4>2 DEF ForwardOtherEffect, TypeOK
      <3>2. CASE ~(op = "remove" /\ shown[e].how = "decoded")
        BY <1>3, <1>t, <3>2 DEF ForwardOtherEffect, TypeOK
      <3> QED BY <3>1, <3>2
    <2>3. TypeOK'
      BY <1>3, <1>t, <2>1, <2>2, HandleType DEF ForwardOtherEffect, TypeOK
    <2>4. \A i \in Items : shown'[i].by = shown[i].by
                           /\ (shown'[i].how = "decoded" =>
                                 shown[i].how = "decoded" /\ ~(i = e /\ op = "remove"))
      <3>1. CASE op = "remove" /\ shown[e].how = "decoded"
        <4> SUFFICES ASSUME NEW i \in Items
                     PROVE  shown'[i].by = shown[i].by
                            /\ (shown'[i].how = "decoded" =>
                                  shown[i].how = "decoded" /\ ~(i = e /\ op = "remove"))
          OBVIOUS
        <4>1. shown' = [shown EXCEPT ![e] = [by |-> shown[e].by, how |-> "forgotten"]]
          BY <1>3, <3>1 DEF ForwardOtherEffect
        <4>2. shown[e] \in [by : Servers, how : Hows]
          BY <1>t, <2>1, <3>1 DEF TypeOK, Nothing
        <4>3. CASE i = e
          BY <1>t, <4>1, <4>2, <4>3 DEF TypeOK
        <4>4. CASE i # e
          BY <1>t, <4>1, <4>4 DEF TypeOK
        <4> QED BY <4>3, <4>4
      <3>2. CASE ~(op = "remove" /\ shown[e].how = "decoded")
        BY <1>3, <3>2 DEF ForwardOtherEffect
      <3> QED BY <3>1, <3>2
    <2>5. ShownIsTracked'
      BY <1>3, <1>t, <2>4 DEF ForwardOtherEffect, ShownIsTracked, handlePacket
    <2>6. OldServerGone'
      BY <1>3, <1>t, <2>4 DEF ForwardOtherEffect, Reading, OldServerGone
    <2> QED BY <2>3, <2>5, <2>6 DEF Inv
  <1>4. CASE NextServer
    BY <1>4, <1>t, MaxServersAssumption
    DEF NextServer, Inv, TypeOK, ShownIsTracked, OldServerGone, Servers
  <1>5. CASE SendGameData
    <2>1. TypeOK'
      BY <1>5, <1>t DEF SendGameData, TypeOK
    <2>2. ASSUME NEW i \in Items, clientUp PROVE shown'[i].how # "decoded"
      BY <1>5, <1>t, <2>2 DEF SendGameData, ShownIsTracked, Clears, Items, Nothing
    <2>3. ShownIsTracked' /\ OldServerGone'
      BY <1>5, <2>2 DEF SendGameData, ShownIsTracked, OldServerGone
    <2> QED BY <2>1, <2>3 DEF Inv
  <1>6. CASE ClientLeaves
    BY <1>6, <1>t DEF ClientLeaves, Inv, TypeOK, ShownIsTracked, OldServerGone
  <1>7. CASE UNCHANGED vars
    BY <1>7, <1>t DEF vars, Inv, TypeOK, ShownIsTracked, OldServerGone
  <1> QED BY <1>1, <1>2, <1>3, <1>4, <1>5, <1>6, <1>7 DEF Next

\* The invariant holds in every state of handleServer and its tracker.
THEOREM Invariance == Spec => []Inv
  <1>1. Init => Inv
    BY InitInv
  <1>2. Inv /\ [Next]_vars => Inv'
    BY StepInv
  <1> QED BY <1>1, <1>2, PTL DEF Spec

\* The tracker and the client's items are well typed.
THEOREM TypeCorrect == Spec => []TypeOK
  <1>1. Inv => TypeOK
    BY DEF Inv
  <1> QED BY <1>1, Invariance, PTL

\* What decoded packets made the client show, the tracker knows.
THEOREM ShownAlwaysTracked == Spec => []ShownIsTracked
  <1>1. Inv => ShownIsTracked
    BY DEF Inv
  <1> QED BY <1>1, Invariance, PTL

\* After sendGameData nothing that decoded packets of an older server made the
\* client show is left.
THEOREM NothingOldStays == Spec => []OldServerGone
  <1>1. Inv => OldServerGone
    BY DEF Inv
  <1> QED BY <1>1, Invariance, PTL
=============================================================================
