--------------------------- MODULE CountReadings ---------------------------
(***************************************************************************)
(* What a reading of Sudokumb's ShardedCounter promises: for each thread,  *)
(* what it had counted at some moment of the reading; or, when readings    *)
(* overlap, nothing at all of a thread that has ended.                     *)
(***************************************************************************)
EXTENDS Naturals

CONSTANTS Threads, Readers

VARIABLES
    count,    \* what each thread has counted
    alive,    \* the threads that have not ended
    reading,  \* the readings under way
    began,    \* began[r]: the counts when the reading began
    alone,    \* alone[r]: no other reading has overlapped it
    result    \* what the last reading saw of each thread

readingVars == <<count, alive, reading, began, alone, result>>

Nothing == [t \in Threads |-> 0]

Init ==
    /\ count = Nothing /\ alive = Threads
    /\ reading = {}
    /\ began = [r \in Readers |-> Nothing]
    /\ alone = [r \in Readers |-> TRUE]
    /\ result = Nothing

\* A thread counts, or ends.
Work ==
    /\ alive' \subseteq alive
    /\ \A t \in Threads :
         /\ count'[t] >= count[t]
         /\ t \notin alive => count'[t] = count[t]
    /\ UNCHANGED <<reading, began, alone, result>>

\* The readings under way and the one that begins overlap each other.
Begin(r) ==
    /\ r \notin reading
    /\ reading' = reading \cup {r}
    /\ began' = [began EXCEPT ![r] = count]
    /\ alone' = [q \in Readers |->
                   IF q = r THEN reading = {} ELSE q \notin reading]
    /\ UNCHANGED <<count, alive, result>>

Sees(r, t, n) ==
    \/ n \in began[r][t]..count[t]
    \/ n = 0 /\ ~alone[r] /\ t \notin alive

Return(r) ==
    /\ r \in reading
    /\ reading' = reading \ {r}
    /\ result' \in [Threads -> Nat]
    /\ \A t \in Threads : Sees(r, t, result'[t])
    /\ began' = [began EXCEPT ![r] = Nothing]
    /\ alone' = [alone EXCEPT ![r] = TRUE]
    /\ UNCHANGED <<count, alive>>

Next == Work \/ \E r \in Readers : Begin(r) \/ Return(r)

Spec == Init /\ [][Next]_readingVars

=============================================================================
