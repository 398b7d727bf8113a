--------------------------- MODULE MCSessionState ---------------------------
(***************************************************************************)
(* Small instances of SessionState.                                        *)
(***************************************************************************)
EXTENDS SessionState

CONSTANTS a, b, c, d, x

OneSession == [r \in Requests |-> x]

=============================================================================
