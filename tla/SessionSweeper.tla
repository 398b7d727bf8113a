--------------------------- MODULE SessionSweeper ---------------------------
(***************************************************************************)
(* SweepTaskMain: every web server process runs one task that now and then *)
(* takes the SweepLock entity, which is meant to let one of them sweep per *)
(* interval, and then deletes the sessions that have expired.              *)
(***************************************************************************)
EXTENDS SessionDatastore

CONSTANT SweepInterval  \* one hour

ASSUME SweepAssumption == SweepInterval \in Nat

VARIABLES
    sweepLock,  \* the SweepLock entity's beginDate, or NoEntity
    sweepTx,    \* the tasks whose transaction on SweepLock can still commit
    task,       \* task[w]: where sweep task w is
    begun,      \* begun[w]: the UtcNow task w read last
    todo,       \* todo[w]: the rest of the query's result
    target      \* target[w]: the session task w is about to delete

sweepVars == <<sweepLock, sweepTx, task, begun, todo, target>>

TaskPC == {"off", "delay", "acquire", "query", "sweep", "delete"}

SweepTypeOK ==
    /\ sweepLock \in Nat \cup {NoEntity}
    /\ sweepTx \subseteq SweepTasks
    /\ task \in [SweepTasks -> TaskPC]
    /\ begun \in [SweepTasks -> Nat]
    /\ todo \in [SweepTasks -> SUBSET Ids]
    /\ target \in [SweepTasks -> Ids \cup {NoEntity}]

TaskGoto(w, to) == task' = [task EXCEPT ![w] = to]

\* Initialize: the first provider of a process starts its sweep task.
Initialize(w) ==
    /\ task[w] = "off"
    /\ TaskGoto(w, "delay")
    /\ UNCHANGED <<storeVars, tx, now, sweepLock, sweepTx, begun, todo, target>>

\* A SweepLock entity that is missing, or holds no date, lets the task sweep.
TimeToSweep == sweepLock # NoEntity => now - sweepLock > SweepInterval

\* The lookup of the SweepLock; a task that comes too early delays again.
CheckSweepLock(w) ==
    /\ task[w] = "delay"
    /\ TimeToSweep
    /\ begun' = [begun EXCEPT ![w] = now]
    /\ sweepTx' = sweepTx \cup {w}
    /\ TaskGoto(w, "acquire")
    /\ UNCHANGED <<storeVars, tx, now, sweepLock, todo, target>>

\* Variant with a defect: the SweepLock is written outside a transaction.
WriteSweepLock_Blind(w) ==
    /\ sweepLock' = begun[w]
    /\ sweepTx' = {}

WriteSweepLock(w) ==
    /\ w \in sweepTx
    /\ sweepLock' = begun[w]
    /\ sweepTx' = {}

AcquireSweepLock(w) ==
    /\ task[w] = "acquire"
    /\ WriteSweepLock(w)
    /\ TaskGoto(w, "query")
    /\ UNCHANGED <<storeVars, tx, now, begun, todo, target>>

\* The commit fails, and the task delays again; or it is applied, its answer
\* is lost, and the task delays again all the same.
AcquireFails(w) ==
    /\ task[w] = "acquire"
    /\ \/ sweepTx' = sweepTx \ {w} /\ UNCHANGED sweepLock
       \/ WriteSweepLock(w)
    /\ TaskGoto(w, "delay")
    /\ UNCHANGED <<storeVars, tx, now, begun, todo, target>>

QueryExpired(w) ==
    /\ task[w] = "query"
    /\ begun' = [begun EXCEPT ![w] = now]
    /\ todo' = [todo EXCEPT ![w] =
                  {id \in Ids : lock[id] # NoEntity
                                /\ lock[id].expirationDate < now}]
    /\ TaskGoto(w, "sweep")
    /\ UNCHANGED <<storeVars, tx, now, sweepLock, sweepTx, target>>

\* Variant with a defect: the session is not looked up again.
SweepLookup_Trusting(w, id) ==
    /\ task[w] = "sweep"
    /\ id \in todo[w]
    /\ todo' = [todo EXCEPT ![w] = @ \ {id}]
    /\ Lookup(w, id, {})
    /\ target' = [target EXCEPT ![w] = id]
    /\ TaskGoto(w, "delete")
    /\ UNCHANGED <<storeVars, now, sweepLock, sweepTx, begun>>

\* The session is looked up again; one that is gone or was locked since the
\* query is skipped.
SweepLookup(w, id) ==
    LET l == lock[id] IN
    /\ task[w] = "sweep"
    /\ id \in todo[w]
    /\ todo' = [todo EXCEPT ![w] = @ \ {id}]
    /\ \/ /\ l # NoEntity => l.expirationDate > begun[w]
          /\ UNCHANGED <<tx, task, target>>
       \/ /\ l # NoEntity /\ l.expirationDate <= begun[w]
          /\ Lookup(w, id, {"SessionLock"})
          /\ target' = [target EXCEPT ![w] = id]
          /\ TaskGoto(w, "delete")
    /\ UNCHANGED <<storeVars, now, sweepLock, sweepTx, begun>>

SweepDelete(w) ==
    /\ task[w] = "delete"
    /\ CanCommit(w)
    /\ PutLock(target[w], NoEntity)
    /\ PutSession(target[w], NoEntity)
    /\ Committed(w, target[w], Kinds)
    /\ target' = [target EXCEPT ![w] = NoEntity]
    /\ TaskGoto(w, "sweep")
    /\ UNCHANGED <<now, sweepLock, sweepTx, begun, todo>>

\* Failed to delete session: the next one is tried.
SweepDeleteFails(w) ==
    /\ task[w] = "delete"
    /\ Rollback(w)
    /\ target' = [target EXCEPT ![w] = NoEntity]
    /\ TaskGoto(w, "sweep")
    /\ UNCHANGED <<storeVars, now, sweepLock, sweepTx, begun, todo>>

\* Done sweep, or the query failed half way.
SweepDone(w) ==
    /\ task[w] = "sweep"
    /\ todo' = [todo EXCEPT ![w] = {}]
    /\ TaskGoto(w, "delay")
    /\ UNCHANGED <<storeVars, tx, now, sweepLock, sweepTx, begun, target>>

\* The server process dies with its task.
SweepCrash(w) ==
    /\ task[w] # "off"
    /\ TaskGoto(w, "off")
    /\ sweepTx' = sweepTx \ {w}
    /\ Rollback(w)
    /\ todo' = [todo EXCEPT ![w] = {}]
    /\ target' = [target EXCEPT ![w] = NoEntity]
    /\ UNCHANGED <<storeVars, now, sweepLock, begun>>

SweepStep(w) ==
    \/ Initialize(w) \/ CheckSweepLock(w) \/ AcquireSweepLock(w)
    \/ AcquireFails(w) \/ QueryExpired(w)
    \/ \E id \in Ids : SweepLookup(w, id)
    \/ SweepDelete(w) \/ SweepDeleteFails(w) \/ SweepDone(w) \/ SweepCrash(w)

SweepInit ==
    /\ sweepLock = NoEntity
    /\ sweepTx = {}
    /\ task = [w \in SweepTasks |-> "off"]
    /\ begun = [w \in SweepTasks |-> 0]
    /\ todo = [w \in SweepTasks |-> {}]
    /\ target = [w \in SweepTasks |-> NoEntity]

=============================================================================
