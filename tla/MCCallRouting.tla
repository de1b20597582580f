--------------------------- MODULE MCCallRouting ---------------------------
(* Instances of CallRouting for TLC.  See README.md for what each run asks. *)
EXTENDS CallRouting, TLC

CONSTANTS b1, b2

\* b1 is called before b2, whom a second link may put before b1.
MCOneLink == {[buyer |-> b1, priority |-> 1]}
MCTwoLinks == MCOneLink \cup {[buyer |-> b2, priority |-> 2]}

HandlerSymmetry == Permutations(Workers)
=============================================================================
