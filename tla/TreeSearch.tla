----------------------------- MODULE TreeSearch -----------------------------
(***************************************************************************)
(* What the Sudokumb solver promises of one solve request, without         *)
(* messages, handlers and servers: there is a region of the game tree that *)
(* somebody may still explore.  It only ever shrinks, no solution leaves   *)
(* it while the puzzle is unsolved, and what is stored was found in it.    *)
(***************************************************************************)
CONSTANTS
    Boards,
    Puzzle,
    Complete,  \* boards without an empty cell
    Below,     \* Below[b]: b and the boards reached from it
    NoBoard

VARIABLES
    asked,     \* the puzzle has been submitted
    region,    \* boards still to be explored
    solution   \* the stored solution, or NoBoard

searchVars == <<asked, region, solution>>

Init == asked = FALSE /\ region = {} /\ solution = NoBoard

Ask ==
    /\ ~asked
    /\ asked' = TRUE
    /\ region' = Below[Puzzle]
    /\ UNCHANGED solution

\* Boards without a solution are done with; once a solution is stored
\* nobody needs the others.
Explore ==
    /\ region' \subseteq region
    /\ solution = NoBoard => region \cap Complete \subseteq region'
    /\ UNCHANGED <<asked, solution>>

\* A solution of the region is stored, also when there is one already.
Solve ==
    /\ solution' \in region \cap Complete
    /\ region' \subseteq region
    /\ UNCHANGED asked

Next == Ask \/ Explore \/ Solve

Spec == Init /\ [][Next]_searchVars

=============================================================================
