---------------------------- MODULE PlanetAuction ----------------------------
(***************************************************************************)
(* The planet auction: tasks of the console application that buy a share   *)
(* of a random planet for a random player, and visitors of the web         *)
(* application who buy one for themselves.  Each looks up a planet and a   *)
(* player, and writes both and a row of Transactions in one Spanner        *)
(* transaction.  The two lookups are not part of that transaction, so it   *)
(* never conflicts with another one.                                       *)
(***************************************************************************)
EXTENDS Integers, FiniteSets

CONSTANTS
    Planets, Players,
    Value,           \* PlanetValue
    InitialShares,   \* SharesAvailable of a planet when it is inserted
    InitialDollars,  \* PlanetDollars of a player who is inserted
    Auctions,        \* numberOfShares tasks of RunPlanetAuction
    Visits,          \* forms that visitors of the web application send
    PlayerOf,        \* the player of a visit
    Arrivals,        \* visits whose form has no player id yet
    MaxFailures,     \* bound: calls that fail
    None

Newcomers == {PlayerOf[v] : v \in Arrivals}

ASSUME AuctionAssumption ==
    /\ Value \in [Planets -> Nat]
    /\ InitialShares \in Nat /\ InitialDollars \in Nat
    /\ PlayerOf \in [Visits -> Players] /\ Arrivals \subseteq Visits
    /\ \A v \in Arrivals : \A w \in Visits :
         v # w => PlayerOf[v] # PlayerOf[w]
    /\ Auctions \cap Visits = {} /\ IsFiniteSet(Auctions)
    /\ None \notin Planets \cup Players /\ None \notin Int
    /\ MaxFailures \in Nat

Buyers == Auctions \cup Visits

VARIABLES
    shares,              \* Planets.SharesAvailable
    dollars,             \* Players.PlanetDollars, None before the player is inserted
    sold,                \* Transactions: the number of rows of a planet
    paid,                \* Transactions: the sum of the amounts of a player
    buyer,               \* per task or visit: its place and its local variables
    failedTransactions,  \* _failedTransactions
    failures,
    bought,              \* auxiliary: auctions with a row in Transactions
    overwritten          \* auxiliary: planets and players that were written over
                         \* a value other than the one their buyer had read

tables == <<shares, dollars, sold, paid, bought, overwritten>>
vars == <<tables, buyer, failedTransactions, failures>>

Init ==
    /\ shares = [p \in Planets |-> InitialShares]
    /\ dollars = [u \in Players |->
                    IF u \in Newcomers THEN None ELSE InitialDollars]
    /\ sold = [p \in Planets |-> 0]
    /\ paid = [u \in Players |-> 0]
    /\ buyer = [b \in Buyers |->
                  [pc |-> IF b \in Arrivals THEN "insert" ELSE "planet",
                   planet |-> None, shares |-> 0, cost |-> 0,
                   player |-> None, dollars |-> 0, count |-> 0]]
    /\ failedTransactions = 0
    /\ failures = 0
    /\ bought = {} /\ overwritten = {}

Goto(b, place) == buyer' = [buyer EXCEPT ![b].pc = place]

\* The web application: a visitor without a player id becomes a player.
Insert(v) ==
    /\ dollars' = [dollars EXCEPT ![PlayerOf[v]] = InitialDollars]
    /\ UNCHANGED <<shares, sold, paid, bought, overwritten>>

InsertPlayer(v) ==
    /\ buyer[v].pc = "insert"
    /\ Insert(v)
    /\ Goto(v, "planet")
    /\ UNCHANGED <<failedTransactions, failures>>

\* DIV(PlanetValue, SharesAvailable)
ShareCost(p) == Value[p] \div shares[p]

\* A random planet with shares; the sample may have none.
SelectPlanet(b) ==
    /\ buyer[b].pc = "planet"
    /\ \/ \E p \in Planets :
            /\ shares[p] > 0
            /\ buyer' = [buyer EXCEPT ![b].pc = "player", ![b].planet = p,
                                      ![b].shares = shares[p],
                                      ![b].cost = ShareCost(p)]
       \/ Goto(b, "player")
    /\ UNCHANGED <<tables, failedTransactions, failures>>

\* Variant with a defect: no WHERE PlanetDollars >= @costPerShare.
CanPay_Any(b, u) == dollars[u] # None
CanPay(b, u) == dollars[u] # None /\ dollars[u] >= buyer[b].cost

\* The player is selected; with a planet the share can be bought.
Selected(b, u, otherwise) ==
    buyer' = [buyer EXCEPT
        ![b].player = u, ![b].dollars = dollars[u],
        ![b].pc = IF buyer[b].planet = None THEN otherwise ELSE "buy"]

\* An auction: a random player who can pay; the sample may have none.
SelectPlayer(b) ==
    /\ b \in Auctions /\ buyer[b].pc = "player"
    /\ \/ \E u \in Players : CanPay(b, u) /\ Selected(b, u, "fail")
       \/ Goto(b, "fail")
    /\ UNCHANGED <<tables, failedTransactions, failures>>

\* A visit: the visitor, who may not be able to pay.
SelectVisitor(v) ==
    /\ v \in Visits /\ buyer[v].pc = "player"
    /\ \/ CanPay(v, PlayerOf[v]) /\ Selected(v, PlayerOf[v], "done")
       \/ ~CanPay(v, PlayerOf[v]) /\ Goto(v, "done")
    /\ UNCHANGED <<tables, failedTransactions, failures>>

\* Variant with a defect: the cost at the time of the commit is paid.
Purchase_PriceNow(b) ==
    LET p == buyer[b].planet
        u == buyer[b].player IN
    /\ shares' = [shares EXCEPT ![p] = buyer[b].shares - 1]
    /\ dollars' = [dollars EXCEPT ![u] = buyer[b].dollars - buyer[b].cost]
    /\ sold' = [sold EXCEPT ![p] = @ + 1]
    /\ paid' = [paid EXCEPT ![u] = @ + (IF shares[p] = 0 THEN 0 ELSE ShareCost(p))]
    /\ bought' = bought \cup ({b} \cap Auctions)
    /\ overwritten' = overwritten
         \cup {o \in {p} : shares[p] # buyer[b].shares}
         \cup {o \in {u} : dollars[u] # buyer[b].dollars}

\* The three commands of the transaction: both rows are written with what
\* was computed from the lookups, whatever they hold by now.
Purchase(b) ==
    LET p == buyer[b].planet
        u == buyer[b].player IN
    /\ shares' = [shares EXCEPT ![p] = buyer[b].shares - 1]
    /\ dollars' = [dollars EXCEPT ![u] = buyer[b].dollars - buyer[b].cost]
    /\ sold' = [sold EXCEPT ![p] = @ + 1]
    /\ paid' = [paid EXCEPT ![u] = @ + buyer[b].cost]
    /\ bought' = bought \cup ({b} \cap Auctions)
    /\ overwritten' = overwritten
         \cup {o \in {p} : shares[p] # buyer[b].shares}
         \cup {o \in {u} : dollars[u] # buyer[b].dollars}

Commit(b) ==
    /\ buyer[b].pc = "buy"
    /\ Purchase(b)
    /\ Goto(b, "done")
    /\ UNCHANGED <<failedTransactions, failures>>

\* What a failing call may have done all the same.
Done(b) ==
    \/ buyer[b].pc = "insert" /\ Insert(b)
    \/ buyer[b].pc = "buy" /\ Purchase(b)

\* Variant with a defect: the command that updates the planet is not part of
\* the transaction.
CallFails_Partly(b) ==
    /\ buyer[b].pc \in {"insert", "planet", "player", "buy"}
    /\ failures < MaxFailures
    /\ failures' = failures + 1
    /\ Goto(b, "done")
    /\ UNCHANGED failedTransactions
    /\ IF buyer[b].pc = "buy"
       THEN /\ shares' = [shares EXCEPT ![buyer[b].planet] = buyer[b].shares - 1]
            /\ UNCHANGED <<dollars, sold, paid, bought, overwritten>>
       ELSE UNCHANGED tables

\* Variant with a defect: the catch block counts a failed transaction.
CallFails_Counted(b) ==
    /\ buyer[b].pc \in {"insert", "planet", "player", "buy"}
    /\ failures < MaxFailures
    /\ failures' = failures + 1
    /\ Goto(b, "done")
    /\ failedTransactions' = failedTransactions + 1
    /\ \/ UNCHANGED tables
       \/ Done(b)

\* A call fails, done or not, and the exception ends the task or the visit:
\* RetryRobot, with MaxTryCount = 0, tries nothing again, and the catch block
\* counts nothing.
CallFails(b) ==
    /\ buyer[b].pc \in {"insert", "planet", "player", "buy"}
    /\ failures < MaxFailures
    /\ failures' = failures + 1
    /\ Goto(b, "done")
    /\ UNCHANGED failedTransactions
    /\ \/ UNCHANGED tables
       \/ Done(b)

\* _failedTransactions++ by tasks that run in parallel.
ReadFailedTransactions(b) ==
    /\ buyer[b].pc = "fail"
    /\ buyer' = [buyer EXCEPT ![b].pc = "count", ![b].count = failedTransactions]
    /\ UNCHANGED <<tables, failedTransactions, failures>>

WriteFailedTransactions(b) ==
    /\ buyer[b].pc = "count"
    /\ failedTransactions' = buyer[b].count + 1
    /\ Goto(b, "done")
    /\ UNCHANGED <<tables, failures>>

Next ==
    \E b \in Buyers :
        \/ InsertPlayer(b) \/ SelectPlanet(b)
        \/ SelectPlayer(b) \/ SelectVisitor(b)
        \/ Commit(b) \/ CallFails(b)
        \/ ReadFailedTransactions(b) \/ WriteFailedTransactions(b)

Spec == Init /\ [][Next]_vars

-----------------------------------------------------------------------------
BuyerType ==
    [pc : {"insert", "planet", "player", "buy", "fail", "count", "done"},
     planet : Planets \cup {None}, shares : Nat, cost : Nat,
     player : Players \cup {None}, dollars : Nat, count : Nat]

\* No planet has less than no shares, and nobody less than no dollars.
TypeOK ==
    /\ shares \in [Planets -> Nat]
    /\ dollars \in [Players -> Nat \cup {None}]
    /\ sold \in [Planets -> Nat] /\ paid \in [Players -> Nat]
    /\ buyer \in [Buyers -> BuyerType]
    /\ failedTransactions \in Nat
    /\ failures \in 0..MaxFailures
    /\ bought \subseteq Auctions
    /\ overwritten \subseteq Planets \cup Players

\* Whatever buyers write over each other: no share and no dollar disappears
\* without a row of Transactions that says where it went.
NothingDisappears ==
    /\ \A p \in Planets : shares[p] + sold[p] >= InitialShares
    /\ \A u \in Players :
         dollars[u] # None => dollars[u] + paid[u] >= InitialDollars

\* The books balance for every planet and player whom no buyer has written
\* over another's purchase.
BooksBalance ==
    /\ \A p \in Planets \ overwritten : shares[p] + sold[p] = InitialShares
    /\ \A u \in Players \ overwritten :
         dollars[u] # None => dollars[u] + paid[u] = InitialDollars

\* "Players purchased {numberOfShares - _failedTransactions} planet shares":
\* although increments of _failedTransactions get lost and exceptions are not
\* counted, that is never less than the shares the auctions have sold.
ReportIsAnUpperBound ==
    (\A b \in Auctions : buyer[b].pc = "done")
        => Cardinality(bought) <= Cardinality(Auctions) - failedTransactions

-----------------------------------------------------------------------------
(* What a comment says and the code does not keep.                         *)

\* "Subtract 1 from planet's shares available."
SubtractsOneShare ==
    [][\A p \in Planets : sold'[p] # sold[p] => shares'[p] = shares[p] - 1]_vars

=============================================================================
