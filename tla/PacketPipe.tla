----------------------------- MODULE PacketPipe -----------------------------
(***************************************************************************)
(* What a server connection promises to the goroutine that reads it: the   *)
(* packets put in come out in order, each at most once, and only after the *)
(* pipe was opened; until then packets may be withdrawn for good.          *)
(***************************************************************************)
EXTENDS Naturals, Sequences

VARIABLES
    count,   \* packets put in, numbered from 1
    open,    \* packets may come out
    kept,    \* packets withdrawn
    output   \* packets that came out

vars == <<count, open, kept, output>>

\* The packets that are still inside.
Inside == (1 .. count) \ (kept \cup {output[i] : i \in DOMAIN output})

Init == count = 0 /\ open = FALSE /\ kept = {} /\ output = <<>>

Put == count' = count + 1 /\ UNCHANGED <<open, kept, output>>

Withdraw ==
    /\ ~open
    /\ \E n \in Inside : kept' = kept \cup {n}
    /\ UNCHANGED <<count, open, output>>

Open == open' = TRUE /\ UNCHANGED <<count, kept, output>>

\* The oldest packet comes out.
Deliver ==
    /\ open
    /\ \E n \in Inside :
          /\ \A m \in Inside : n <= m
          /\ output' = Append(output, n)
    /\ UNCHANGED <<count, open, kept>>

Next == Put \/ Withdraw \/ Open \/ Deliver

Spec == Init /\ [][Next]_vars
=============================================================================
