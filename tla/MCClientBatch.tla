--------------------------- MODULE MCClientBatch ---------------------------
(* Constants for model checking ClientBatch.                                *)
EXTENDS ClientBatch, TLC

\* "move" need not be decoded and has no upgrade; "use" must be decoded and its
\* upgrade gives two packets; "bad" has a header, but cannot be decoded.
Sample ==
    {[id |-> "move", size |-> 2, header |-> TRUE, body |-> TRUE, listed |-> FALSE, upgrades |-> 0],
     [id |-> "use", size |-> 1, header |-> TRUE, body |-> TRUE, listed |-> TRUE, upgrades |-> 2],
     [id |-> "bad", size |-> 1, header |-> TRUE, body |-> FALSE, listed |-> FALSE, upgrades |-> 1]}

\* Contexts are interchangeable.
CtxSymmetry == Permutations(Ctxs)
=============================================================================
