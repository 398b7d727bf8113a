-------------------------- MODULE MCGameBoardQueue --------------------------
(***************************************************************************)
(* Small game trees for the model checker.  As in the program, all boards  *)
(* without an empty cell are equally far from the puzzle: two moves.       *)
(***************************************************************************)
EXTENDS GameBoardQueue, TLC

CONSTANTS s1, s2, h1, h2

\* Two moves: the first is a dead end; the second, which is on top of the
\* stack, leads to the solution.  With MaxParallelBranches = 2 the search is
\* linear and then branches out, with the dead end in two messages at once.
Boards4 == 1..4
Moves4 == <<<<2, 3>>, <<>>, <<4>>, <<>>>>
Below4 == <<1..4, {2}, {3, 4}, {4}>>
Complete4 == {4}

OneServer == [h \in Handlers |-> s1]
TwoServers == [h \in Handlers |-> IF h = h1 THEN s1 ELSE s2]
=============================================================================
