-------------------------- MODULE TransportProofs --------------------------
(***************************************************************************)
(* Proofs about Transport, for every number of servers, callers and        *)
(* connections.                                                            *)
(***************************************************************************)
EXTENDS Transport, TLAPS

\* What the mutex protects: a caller past Lock holds it, and what it read from
\* the map is still there.
MutexInv ==
    \A t \in Callers :
        /\ pc[t] # "idle" => want[t] \in Addrs
        /\ pc[t] \in {"dial", "open"} => mu = t
        /\ pc[t] = "dial" => table[want[t]] = 0
        /\ pc[t] = "open" => conn[t] # 0 /\ table[want[t]] = conn[t]

Inv == TypeOK /\ EntriesWatched /\ MutexInv

\* The initial state satisfies the invariant.
LEMMA InitInv == Init => Inv
  BY MaxConnsAssumption
     DEF Init, Inv, TypeOK, EntriesWatched, MutexInv, Conns

\* Every step preserves it.
LEMMA StepInv == Inv /\ [Next]_vars => Inv'
<1>. SUFFICES ASSUME Inv, [Next]_vars PROVE Inv'
  OBVIOUS
<1>. USE MaxConnsAssumption, NamesAssumption
     DEF Inv, TypeOK, EntriesWatched, MutexInv, Conns, connVars
<1>1. ASSUME NEW t \in Callers, NEW a \in Addrs, Call(t, a) PROVE Inv'
  BY <1>1 DEF Call
<1>2. ASSUME NEW t \in Callers, Lock(t) PROVE Inv'
  BY <1>2 DEF Lock
<1>3. ASSUME NEW t \in Callers, Establish(t) PROVE Inv'
  <2>1. CASE Return(t) /\ UNCHANGED <<table, connVars>>
    BY <1>3, <2>1 DEF Establish, Return
  <2>2. CASE /\ opened + 1 \in Conns
             /\ opened' = opened + 1
             /\ addr' = [addr EXCEPT ![opened + 1] = want[t]]
             /\ alive' = [alive EXCEPT ![opened + 1] = TRUE]
             /\ watched' = [watched EXCEPT ![opened + 1] = TRUE]
             /\ table' = [table EXCEPT ![want[t]] = opened + 1]
             /\ conn' = [conn EXCEPT ![t] = opened + 1]
             /\ pc' = [pc EXCEPT ![t] = "open"]
             /\ UNCHANGED <<mu, want>>
    <3>0. pc[t] = "dial" /\ want[t] \in Addrs /\ mu = t
      BY <1>3 DEF Establish
    <3>1. TypeOK'
      BY <2>2, <3>0
    <3>2. EntriesWatched'
      BY <2>2, <3>0
    <3>3. MutexInv'
      BY <2>2, <3>0
    <3>. QED  BY <3>1, <3>2, <3>3
  <2>. QED  BY <1>3, <2>1, <2>2 DEF Establish
<1>4. ASSUME NEW t \in Callers, OpenStream(t) PROVE Inv'
  BY <1>4 DEF OpenStream, Return
<1>5. ASSUME NEW t \in Callers, OpenStreamFails(t) PROVE Inv'
  BY <1>5 DEF OpenStreamFails, Return
<1>6. ASSUME NEW c \in Conns, Watcher(c) PROVE Inv'
  <2>1. \A a \in Addrs : table'[a] = IF table[a] = c THEN 0 ELSE table[a]
    BY <1>6 DEF Watcher
  <2>2. TypeOK'
    <3>1. table' \in [Addrs -> 0 .. opened]
      <4>1. CASE table[addr[c]] = c
        <5>1. table' = [a \in Addrs |-> IF a = addr[c] THEN 0 ELSE table[a]]
          BY <1>6, <4>1 DEF Watcher
        <5>2. \A a \in Addrs :
                 (IF a = addr[c] THEN 0 ELSE table[a]) \in 0 .. opened
          OBVIOUS
        <5>. QED  BY <5>1, <5>2
      <4>2. CASE table[addr[c]] # c
        BY <1>6, <4>2 DEF Watcher
      <4>. QED  BY <4>1, <4>2
    <3>. QED  BY <1>6, <3>1 DEF Watcher
  <2>3. EntriesWatched'
    BY <1>6, <2>1 DEF Watcher
  <2>4. \A t \in Callers : pc[t] \notin {"dial", "open"}
    BY <1>6 DEF Watcher
  <2>5. MutexInv'
    BY <1>6, <2>4 DEF Watcher
  <2>. QED  BY <2>2, <2>3, <2>5
<1>7. ASSUME NEW c \in Conns, Ends(c) PROVE Inv'
  BY <1>7 DEF Ends
<1>8. CASE UNCHANGED vars
  BY <1>8 DEF vars
<1>. QED
  BY <1>1, <1>2, <1>3, <1>4, <1>5, <1>6, <1>7, <1>8 DEF Next, Dial

\* The inductive invariant holds throughout.
THEOREM Invariance == Spec => []Inv
BY InitInv, StepInv, PTL DEF Spec

\* Every variable keeps its type (Dial and the goroutine it starts).
THEOREM TypeCorrect == Spec => []TypeOK
<1>1. Inv => TypeOK
  BY DEF Inv
<1>. QED  BY <1>1, Invariance, PTL

\* No dead connection stays in the map unwatched, for any interleaving of dials
\* and ending connections.
THEOREM EntriesAreWatched == Spec => []EntriesWatched
<1>1. Inv => EntriesWatched
  BY DEF Inv
<1>. QED  BY <1>1, Invariance, PTL

\* A stream is opened on the connection the map holds for its address.
THEOREM DialsCurrentEntry == Spec => []DialsEntry
<1>1. Inv => DialsEntry
  BY DEF Inv, MutexInv, DialsEntry
<1>. QED  BY <1>1, Invariance, PTL

\* The goroutine of an ended connection never removes a live one.
THEOREM LiveEntriesKept == Spec => LiveEntryKept
<1>. DEFINE Kept == \A a \in Addrs :
          table[a] # 0 /\ alive[table[a]] /\ table'[a] # table[a]
          => \E t \in Callers : pc[t] = "open" /\ conn[t] = table[a]
<1>1. Inv /\ [Next]_vars => [Kept]_vars
  <2>. SUFFICES ASSUME Inv, [Next]_vars, NEW a \in Addrs,
                       table[a] # 0, alive[table[a]], table'[a] # table[a]
                PROVE  \E t \in Callers : pc[t] = "open" /\ conn[t] = table[a]
    OBVIOUS
  <2>. USE DEF Inv, TypeOK, MutexInv, connVars
  <2>1. ASSUME NEW t \in Callers, Establish(t) PROVE FALSE
    BY <2>1 DEF Establish
  <2>2. ASSUME NEW t \in Callers, OpenStreamFails(t)
        PROVE  pc[t] = "open" /\ conn[t] = table[a]
    BY <2>2 DEF OpenStreamFails
  <2>3. ASSUME NEW c \in Conns, Watcher(c) PROVE FALSE
    BY <2>3 DEF Watcher
  <2>4. ASSUME NEW t \in Callers, \/ Lock(t) \/ OpenStream(t)
                                  \/ \E b \in Addrs : Call(t, b)
        PROVE  FALSE
    BY <2>4 DEF Lock, OpenStream, Call
  <2>5. ASSUME NEW c \in Conns, Ends(c) PROVE FALSE
    BY <2>5 DEF Ends
  <2>. QED  BY <2>1, <2>2, <2>3, <2>4, <2>5 DEF Next, Dial, vars
<1>. QED  BY <1>1, Invariance, PTL DEF Spec, LiveEntryKept
=============================================================================
