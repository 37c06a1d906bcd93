------------------------------ MODULE MCProxy ------------------------------
(* Proxy with interchangeable sets and who turns up.                         *)
EXTENDS Proxy, TLC

Interchangeable ==
    Permutations(Sessions) \cup Permutations(Players)
        \cup Permutations(Peers) \cup Permutations(Closers)

\* Two sessions and one API connection, or two connections to the API.
PlayersOrServers == {<<2, 1>>, <<0, 2>>}
One == {<<1, 1>>}
=============================================================================
