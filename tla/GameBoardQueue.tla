--------------------------- MODULE GameBoardQueue ---------------------------
(***************************************************************************)
(* The Sudokumb solver: one solve request whose game tree is searched by   *)
(* handlers of Pub/Sub messages (PubsubGameBoardQueueSolver).  A message   *)
(* carries a stack of boards still to be explored; a handler examines the  *)
(* top board, publishes messages for what remains, and only then           *)
(* acknowledges.  Servers die, calls fail, and messages are delivered more *)
(* than once.  The counting of examined boards is left to DatastoreCounter.*)
(***************************************************************************)
EXTENDS Naturals, Sequences, FiniteSets, Bags

CONSTANTS
    Boards,               \* the game boards
    Puzzle,               \* the board the user submitted
    NextMoves,            \* NextMoves[b]: what FillNextEmptyCell returns
    Complete,             \* boards without an empty cell
    Below,                \* Below[b]: b and the boards reached from it
    MaxParallelBranches,  \* PubsubGameBoardQueueOptions
    Servers, Handlers,    \* solver processes and their message callbacks
    ServerOf,             \* the process a handler runs in
    Modes,                \* what IsDumbAsync may answer
    FailingCalls,         \* the remote calls that may fail
    MaxFailures,          \* bound: calls that fail and servers that crash
    MaxRedeliveries,      \* bound: messages delivered once too often
    NoBoard

Moves(b) == {NextMoves[b][i] : i \in DOMAIN NextMoves[b]}

\* FillNextEmptyCell puts another digit in the same cell for each move, so
\* the boards reachable from a puzzle form a tree.
ASSUME TreeAssumption ==
    /\ Puzzle \in Boards /\ Complete \subseteq Boards /\ NoBoard \notin Boards
    /\ NextMoves \in [Boards -> Seq(Boards)]
    /\ Below \in [Boards -> SUBSET Boards]
    /\ \A b \in Boards :
         /\ Below[b] = {b} \cup UNION {Below[c] : c \in Moves(b)}
         /\ \A i, j \in DOMAIN NextMoves[b] :
              /\ b \notin Below[NextMoves[b][i]]
              /\ i # j => Below[NextMoves[b][i]] \cap Below[NextMoves[b][j]] = {}

ASSUME SolverAssumption ==
    /\ MaxParallelBranches \in Nat \ {0}
    /\ IsFiniteSet(Handlers) /\ ServerOf \in [Handlers -> Servers]
    /\ Modes \subseteq BOOLEAN
    /\ FailingCalls \subseteq {"lookup", "settings", "set", "publish"}
    /\ MaxFailures \in Nat /\ MaxRedeliveries \in Nat

VARIABLES
    requested,     \* the web application has published the puzzle
    topic,         \* bag of the messages to be delivered
    solution,      \* the Solution entity of the request
    cache,         \* per server: the SolveState task in its memory cache
    handler,       \* per handler: where ProcessOneMessage is
    failures, redeliveries

vars == <<requested, topic, solution, cache, handler, failures, redeliveries>>

BoardAndWidth == [board : Boards, parallelBranches : 1..MaxParallelBranches]
Stacks == Seq(BoardAndWidth)

Idle == [pc |-> "idle", stack |-> <<>>, leased |-> FALSE,
         outbox |-> {}, found |-> NoBoard]

With(bag, message) == bag (+) SetToBag({message})
Without(bag, message) == bag (-) SetToBag({message})

Top(stack) == stack[Len(stack)]
Popped(stack) == SubSeq(stack, 1, Len(stack) - 1)

\* The boards a stack leads to.
Reach(stack) == UNION {Below[stack[i].board] : i \in DOMAIN stack}

\* SolveStateStore.GetAsync: what the Solution entity says now.
Stored == IF solution = NoBoard THEN "unsolved" ELSE "solved"

Init ==
    /\ requested = FALSE
    /\ topic = EmptyBag
    /\ solution = NoBoard
    /\ cache = [s \in Servers |-> "none"]
    /\ handler = [h \in Handlers |-> Idle]
    /\ failures = 0 /\ redeliveries = 0

\* The web application: StartSolving and PubsubGameBoardQueue.Publish.
StartSolving ==
    /\ ~requested
    /\ requested' = TRUE
    /\ topic' = With(topic, <<[board |-> Puzzle, parallelBranches |-> 1]>>)
    /\ UNCHANGED <<solution, cache, handler, failures, redeliveries>>

Fail(call) ==
    /\ call \in FailingCalls
    /\ failures < MaxFailures
    /\ failures' = failures + 1

\* How a handler ends.  Acknowledging ends its lease on the message, unless
\* the acknowledgement comes too late; an exception gives the message back.
Ack(h) ==
    /\ handler' = [handler EXCEPT ![h] = Idle]
    /\ \/ UNCHANGED <<topic, redeliveries>>
       \/ /\ handler[h].leased
          /\ redeliveries < MaxRedeliveries
          /\ redeliveries' = redeliveries + 1
          /\ topic' = With(topic, handler[h].stack)

Returned(h) ==
    IF handler[h].leased THEN With(topic, handler[h].stack) ELSE topic

Nack(h) ==
    /\ handler' = [handler EXCEPT ![h] = Idle]
    /\ topic' = Returned(h)
    /\ UNCHANGED redeliveries

\* A message arrives.  One with an empty stack is "bad" and acknowledged.
Receive(h) ==
    /\ handler[h].pc = "idle"
    /\ \E message \in BagToSet(topic) :
         /\ topic' = Without(topic, message)
         /\ handler' =
              IF message = <<>> THEN handler
              ELSE [handler EXCEPT ![h].pc = "read", ![h].leased = TRUE,
                                   ![h].stack = message]
    /\ UNCHANGED <<requested, solution, cache, failures, redeliveries>>

Unsolved(h) ==
    /\ handler' = [handler EXCEPT ![h].pc = "solve"]
    /\ UNCHANGED <<topic, redeliveries>>

\* Variant with a defect: a message of a solved puzzle is given back.
AfterLookup_NacksSolved(h, answer) ==
    \/ answer \in {"solved", "failed"} /\ Nack(h)
    \/ answer = "unsolved" /\ Unsolved(h)

AfterLookup(h, answer) ==
    \/ answer = "solved" /\ Ack(h)
    \/ answer = "failed" /\ Nack(h)
    \/ answer = "unsolved" /\ Unsolved(h)

\* GetCachedAsync caches the task, whatever becomes of it: a lookup that
\* failed is found, and fails, again.
GetCached(h) ==
    /\ handler[h].pc = "read"
    /\ UNCHANGED <<requested, solution>>
    /\ LET s == ServerOf[h] IN
       \E answer \in {"unsolved", "solved", "failed"} :
         /\ cache' = [cache EXCEPT ![s] = answer]
         /\ \/ cache[s] = answer /\ UNCHANGED failures
            \/ cache[s] = "none" /\ answer = Stored /\ UNCHANGED failures
            \/ cache[s] = "none" /\ answer = "failed" /\ Fail("lookup")
         /\ AfterLookup(h, answer)

\* IsDumbAsync fails when it cannot look the admin settings up.
SettingsFail(h) ==
    /\ handler[h].pc = "solve"
    /\ Fail("settings")
    /\ Nack(h)
    /\ UNCHANGED <<requested, solution, cache>>

Found(h, board) ==
    /\ handler' = [handler EXCEPT ![h].pc = "save", ![h].found = board]
    /\ UNCHANGED <<topic, redeliveries>>

\* The smart way: InMemoryGameBoardStackImpl explores everything the stack
\* leads to, in an order left open here, until it meets a complete board.
SolveInMemory(h) ==
    /\ handler[h].pc = "solve" /\ FALSE \in Modes
    /\ LET solutions == Reach(handler[h].stack) \cap Complete IN
         \/ solutions = {} /\ Ack(h)
         \/ \E board \in solutions : Found(h, board)
    /\ UNCHANGED <<requested, solution, cache, failures>>

\* Too many branches already: one message, with the moves in the place of
\* the top board.
\* Variant with a defect: the last move is left out.
AsMoves_OneLess(stack) ==
    [i \in 1..(Len(NextMoves[Top(stack).board]) - 1) |->
       [board |-> NextMoves[Top(stack).board][i],
        parallelBranches |-> Top(stack).parallelBranches]]

AsMoves(stack) ==
    [i \in DOMAIN NextMoves[Top(stack).board] |->
       [board |-> NextMoves[Top(stack).board][i],
        parallelBranches |-> Top(stack).parallelBranches]]

\* Variant with a defect: the top board stays on the stack.
Linear_KeepsTop(stack) == {stack \o AsMoves(stack)}

Linear(stack) == {Popped(stack) \o AsMoves(stack)}

\* Branch out: a message for each move on top of the rest of the stack, and
\* one for the rest of the stack.
WithEachMove(stack, width) ==
    {Append(Popped(stack), [board |-> move, parallelBranches |-> width]) :
        move \in Moves(Top(stack).board)}

\* Variant with a defect: the rest keeps the top.
BranchOut_KeepsTop(stack, width) == WithEachMove(stack, width) \cup {stack}

BranchOut(stack, width) ==
    WithEachMove(stack, width)
    \cup IF Len(stack) > 1 THEN {Popped(stack)} ELSE {}

NextLevelWidth(top) ==
    (1 + Len(NextMoves[top.board])) * top.parallelBranches

\* Variant with a defect: a branch that is too wide branches out all the same.
NextStacks_NeverLinear(stack) == BranchOut(stack, NextLevelWidth(Top(stack)))

\* The messages that replace a stack whose top board is not complete.
NextStacks(stack) ==
    LET width == NextLevelWidth(Top(stack)) IN
    IF width > MaxParallelBranches THEN Linear(stack)
    ELSE BranchOut(stack, width)

\* Solver.ExamineGameBoard: not HasEmptyCell.
\* Variant with a defect: a board without next moves counts as solved.
IsSolved_DeadEnd(board) == NextMoves[board] = <<>>
IsSolved(board) == board \in Complete

\* The dumb way: ExamineGameBoard on the top board.
Examine(h) ==
    /\ handler[h].pc = "solve" /\ TRUE \in Modes
    /\ LET stack == handler[h].stack IN
       \/ /\ IsSolved(Top(stack).board)
          /\ Found(h, Top(stack).board)
       \/ /\ ~IsSolved(Top(stack).board)
          /\ handler' = [handler EXCEPT ![h].pc = "publish",
                                        ![h].outbox = NextStacks(stack)]
          /\ UNCHANGED <<topic, redeliveries>>
    /\ UNCHANGED <<requested, solution, cache, failures>>

\* SolveStateStore.SetAsync upserts the entity, whatever it holds.
Save(h) ==
    /\ handler[h].pc = "save"
    /\ solution' = handler[h].found
    /\ Ack(h)
    /\ UNCHANGED <<requested, cache, failures>>

\* Variant with a defect: the exception is caught, the message acknowledged.
SaveFails_Acks(h) ==
    /\ handler[h].pc = "save"
    /\ Fail("set")
    /\ solution' \in {solution, handler[h].found}
    /\ Ack(h)
    /\ UNCHANGED <<requested, cache>>

SaveFails(h) ==
    /\ handler[h].pc = "save"
    /\ Fail("set")
    /\ solution' \in {solution, handler[h].found}
    /\ Nack(h)
    /\ UNCHANGED <<requested, cache>>

\* PublishAsync has been called for every message; the calls end in any
\* order, and an exception of one is thrown when the others run or have run.
PublishOne(h) ==
    /\ \E message \in handler[h].outbox :
         /\ topic' = With(topic, message)
         /\ handler' = [handler EXCEPT ![h].outbox = @ \ {message}]
    /\ UNCHANGED <<requested, solution, cache, failures, redeliveries>>

\* Variant with a defect: the exception is caught, the message acknowledged.
PublishFails_Acks(h) ==
    /\ handler[h].outbox # {}
    /\ Fail("publish")
    /\ \E sent \in SUBSET handler[h].outbox : topic' = topic (+) SetToBag(sent)
    /\ handler' = [handler EXCEPT ![h] = Idle]
    /\ UNCHANGED <<requested, solution, cache, redeliveries>>

PublishFails(h) ==
    /\ handler[h].outbox # {}
    /\ Fail("publish")
    /\ \E sent \in SUBSET handler[h].outbox :
         topic' = Returned(h) (+) SetToBag(sent)
    /\ handler' = [handler EXCEPT ![h] = Idle]
    /\ UNCHANGED <<requested, solution, cache, redeliveries>>

AllPublished(h) ==
    /\ handler[h].pc = "publish" /\ handler[h].outbox = {}
    /\ Ack(h)
    /\ UNCHANGED <<requested, solution, cache, failures>>

\* Pub/Sub delivers a message again whose lease was not extended in time.
Redeliver(h) ==
    /\ handler[h].leased
    /\ redeliveries < MaxRedeliveries
    /\ redeliveries' = redeliveries + 1
    /\ topic' = Returned(h)
    /\ handler' = [handler EXCEPT ![h].leased = FALSE]
    /\ UNCHANGED <<requested, solution, cache, failures>>

\* A solver process ends: its leases run out and its cache is gone.
Crash(s) ==
    LET leased == {h \in Handlers : ServerOf[h] = s /\ handler[h].leased} IN
    /\ failures < MaxFailures
    /\ failures' = failures + 1
    /\ topic' = topic (+)
         [message \in {handler[h].stack : h \in leased} |->
            Cardinality({h \in leased : handler[h].stack = message})]
    /\ handler' = [h \in Handlers |->
                     IF ServerOf[h] = s THEN Idle ELSE handler[h]]
    /\ cache' = [cache EXCEPT ![s] = "none"]
    /\ UNCHANGED <<requested, solution, redeliveries>>

\* Five seconds have passed without a reading of the cached state.
Expire(s) ==
    /\ cache[s] # "none"
    /\ cache' = [cache EXCEPT ![s] = "none"]
    /\ UNCHANGED <<requested, topic, solution, handler, failures, redeliveries>>

ProcessOneMessage(h) ==
    \/ GetCached(h) \/ SettingsFail(h) \/ SolveInMemory(h) \/ Examine(h)
    \/ Save(h) \/ SaveFails(h)
    \/ PublishOne(h) \/ PublishFails(h) \/ AllPublished(h)

Next ==
    \/ StartSolving
    \/ \E h \in Handlers : Receive(h) \/ ProcessOneMessage(h) \/ Redeliver(h)
    \/ \E s \in Servers : Crash(s) \/ Expire(s)

Spec == Init /\ [][Next]_vars

\* Messages are delivered while a handler is free and handlers run.  Nothing
\* is promised about Expire: each reading of a cached state puts it off.
Fairness ==
    /\ WF_vars(\E h \in Handlers : Receive(h))
    /\ \A h \in Handlers : WF_vars(ProcessOneMessage(h))

FairSpec == Spec /\ Fairness

-----------------------------------------------------------------------------
HandlerType ==
    [pc : {"idle", "read", "solve", "save", "publish"}, stack : Stacks,
     leased : BOOLEAN, outbox : SUBSET Stacks, found : Boards \cup {NoBoard}]

TypeOK ==
    /\ requested \in BOOLEAN
    /\ IsABag(topic) /\ BagToSet(topic) \subseteq Stacks
    /\ solution \in Boards \cup {NoBoard}
    /\ cache \in [Servers -> {"none", "unsolved", "solved", "failed"}]
    /\ handler \in [Handlers -> HandlerType]
    /\ failures \in 0..MaxFailures /\ redeliveries \in 0..MaxRedeliveries

Leased == {h \in Handlers : handler[h].leased}

\* The messages Pub/Sub still has to deliver or to have acknowledged.
Outstanding == BagToSet(topic) \cup {handler[h].stack : h \in Leased}

\* Until the puzzle is solved, every solution of it is below a board of an
\* outstanding message: whichever calls fail, servers crash and messages come
\* twice, no handler acknowledges a message before what it stands for is
\* stored or published again.
NothingLost ==
    requested /\ solution = NoBoard =>
        Below[Puzzle] \cap Complete \subseteq UNION {Reach(m) : m \in Outstanding}

\* The boards of one message lead to different boards: within a message no
\* part of the game tree is searched twice.
StackIsDisjoint(stack) ==
    \A i, j \in DOMAIN stack :
        i # j => Below[stack[i].board] \cap Below[stack[j].board] = {}

StacksDisjoint == \A m \in Outstanding : StackIsDisjoint(m)

\* A message is answered by messages that lead to less: the search of each
\* branch makes progress even though nobody remembers what was examined.
SearchAdvances ==
    [][\A h \in Handlers :
         handler[h].pc = "solve" /\ handler'[h].pc = "publish" =>
           \A m \in handler'[h].outbox :
               /\ Reach(m) \subseteq Reach(handler[h].stack)
               /\ Reach(m) # Reach(handler[h].stack)]_vars

\* Only a solution of the puzzle is stored, and a server that stopped
\* working on the request did so because one is.
SolutionsAreReal ==
    /\ solution # NoBoard => solution \in Below[Puzzle] \cap Complete
    /\ \A s \in Servers : cache[s] = "solved" => solution # NoBoard

\* No server goes on finding a failed lookup in its cache for ever.
LookupsRecover == <>[](\A s \in Servers : cache[s] # "failed")

\* A puzzle that can be solved is solved, whichever call fails, server dies
\* or message comes twice, if a failed lookup leaves the cache again.
PuzzleIsSolved ==
    LookupsRecover =>
        (requested /\ Below[Puzzle] \cap Complete # {} ~> solution # NoBoard)

\* The search ends, solved or not, and leaves no message behind.
SearchEnds ==
    LookupsRecover =>
        (requested ~> [](topic = EmptyBag /\ \A h \in Handlers : handler[h] = Idle))

-----------------------------------------------------------------------------
(* The messages and handlers implement a search of one region.             *)

\* What waits to be explored: the messages of the topic, and what a handler,
\* whether Pub/Sub still counts on it or not, explores or publishes.
Waiting ==
    BagToSet(topic) \cup {handler[h].stack : h \in Handlers}
    \cup UNION {handler[h].outbox : h \in Handlers}

Region == UNION {Reach(m) : m \in Waiting}

Search == INSTANCE TreeSearch WITH asked <- requested, region <- Region

\* No board comes back that nobody had to explore any more, although nobody
\* remembers what was examined and messages come twice; no handler lets go
\* of a solution before one is stored; and what is stored comes from there.
ImplementsSearch == Search!Spec

-----------------------------------------------------------------------------
(* What a test says and the code does not keep.                            *)

\* The test of the web application: "it should eventually find a solution".
EventuallyFindsASolution ==
    requested /\ Below[Puzzle] \cap Complete # {} ~> solution # NoBoard

=============================================================================
