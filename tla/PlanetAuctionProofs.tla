------------------------ MODULE PlanetAuctionProofs ------------------------
(***************************************************************************)
(* Proofs about PlanetAuction for any planets, players, prices, auctions   *)
(* and visits, and any number of failures.                                 *)
(***************************************************************************)
EXTENDS PlanetAuction, FiniteSetTheorems, TLAPS

\* What a buyer remembers of a planet and a player.  Either has not sold or
\* paid less since, so both are enough for the rows of Transactions there are.
BuyerRemembers(b) ==
    /\ buyer[b].planet # None =>
         /\ buyer[b].shares > 0
         /\ buyer[b].shares + sold[buyer[b].planet] >= InitialShares
    /\ buyer[b].player # None =>
         /\ dollars[buyer[b].player] # None
         /\ buyer[b].dollars >= buyer[b].cost
         /\ buyer[b].dollars + paid[buyer[b].player] >= InitialDollars
    /\ buyer[b].pc \in {"insert", "planet", "player"} => buyer[b].player = None
    /\ buyer[b].pc \in {"insert", "planet"} => buyer[b].planet = None
    /\ buyer[b].pc = "buy" => buyer[b].planet # None /\ buyer[b].player # None

\* Who has no row in Players has paid nothing, and only one visit inserts it.
NewcomersAreNew ==
    /\ \A u \in Players : dollars[u] = None => paid[u] = 0
    /\ \A v \in Buyers : buyer[v].pc = "insert" =>
         v \in Arrivals /\ dollars[PlayerOf[v]] = None

BooksInv ==
    /\ TypeOK
    /\ \A b \in Buyers : BuyerRemembers(b)
    /\ NewcomersAreNew
    /\ NothingDisappears
    /\ BooksBalance

USE AuctionAssumption DEF Buyers

-----------------------------------------------------------------------------
(* The books.                                                              *)

\* The price of a share of a planet that has some is a natural number.
LEMMA CostType ==
    ASSUME TypeOK, NEW p \in Planets, shares[p] > 0
    PROVE  ShareCost(p) \in Nat
<1>1. Value[p] \in Nat /\ shares[p] \in Nat /\ shares[p] > 0
  BY DEF TypeOK
<1>2. \A m, n \in Nat : n > 0 => m \div n \in Nat
  OBVIOUS
<1>3. QED
  BY <1>1, <1>2 DEF ShareCost

LEMMA InitBooks == Init => BooksInv
BY DEF Init, BooksInv, TypeOK, BuyerType, BuyerRemembers, NewcomersAreNew,
       NothingDisappears, BooksBalance, Newcomers

\* A visitor becomes a player with InitialDollars.
LEMMA InsertKeepsBooks ==
    ASSUME BooksInv, NEW v \in Buyers, buyer[v].pc = "insert", Insert(v),
           NEW place \in {"planet", "done"}, Goto(v, place),
           UNCHANGED failedTransactions, failures' \in 0..MaxFailures
    PROVE  BooksInv'
<1>1. v \in Arrivals /\ v \in Visits /\ PlayerOf[v] \in Players
      /\ dollars[PlayerOf[v]] = None /\ paid[PlayerOf[v]] = 0
  BY DEF BooksInv, NewcomersAreNew
<1>2. TypeOK'
  BY <1>1 DEF BooksInv, TypeOK, BuyerType, Insert, Goto
<1>3. \A b \in Buyers : BuyerRemembers(b)'
  BY <1>1 DEF BooksInv, TypeOK, BuyerType, Insert, Goto, BuyerRemembers
<1>4. NewcomersAreNew'
  BY <1>1 DEF BooksInv, TypeOK, BuyerType, Insert, Goto, NewcomersAreNew
<1>5. NothingDisappears' /\ BooksBalance'
  BY <1>1 DEF BooksInv, TypeOK, Insert, NothingDisappears, BooksBalance
<1>6. QED
  BY <1>2, <1>3, <1>4, <1>5 DEF BooksInv

\* Whatever has been written since its lookups, a purchase writes no less
\* than the rows of Transactions explain.
LEMMA PurchaseKeepsBooks ==
    ASSUME BooksInv, NEW b \in Buyers, buyer[b].pc = "buy", Purchase(b),
           Goto(b, "done"), UNCHANGED failedTransactions,
           failures' \in 0..MaxFailures
    PROVE  BooksInv'
<1> DEFINE p == buyer[b].planet
           u == buyer[b].player
           s == buyer[b].shares
           d == buyer[b].dollars
           c == buyer[b].cost
<1>1. p \in Planets /\ u \in Players /\ s \in Nat /\ d \in Nat /\ c \in Nat
      /\ s > 0 /\ s + sold[p] >= InitialShares
      /\ dollars[u] # None /\ d >= c /\ d + paid[u] >= InitialDollars
  BY DEF BooksInv, TypeOK, BuyerType, BuyerRemembers
<1>2. s - 1 \in Nat /\ d - c \in Nat
  BY <1>1
<1>3. /\ shares' = [shares EXCEPT ![p] = s - 1]
      /\ dollars' = [dollars EXCEPT ![u] = d - c]
      /\ sold' = [sold EXCEPT ![p] = @ + 1]
      /\ paid' = [paid EXCEPT ![u] = @ + c]
  BY DEF Purchase
<1>4. TypeOK'
  BY <1>1, <1>2 DEF BooksInv, TypeOK, BuyerType, Purchase, Goto
<1>5. \A a \in Buyers : BuyerRemembers(a)'
  <2> SUFFICES ASSUME NEW a \in Buyers PROVE BuyerRemembers(a)'
    OBVIOUS
  <2>1. \A q \in Planets : sold'[q] >= sold[q] /\ sold'[q] \in Nat /\ sold[q] \in Nat
    BY <1>1, <1>3 DEF BooksInv, TypeOK
  <2>2. \A w \in Players :
          /\ paid'[w] >= paid[w] /\ paid'[w] \in Nat /\ paid[w] \in Nat
          /\ dollars[w] # None => dollars'[w] # None
    BY <1>1, <1>2, <1>3 DEF BooksInv, TypeOK
  <2>3. buyer'[a] = [buyer[a] EXCEPT !.pc = buyer'[a].pc]
        /\ (buyer'[a].pc = buyer[a].pc \/ buyer'[a].pc = "done")
    BY DEF BooksInv, TypeOK, BuyerType, Goto
  <2>4. buyer[a] \in BuyerType /\ BuyerRemembers(a)
    BY DEF BooksInv, TypeOK
  <2>5. QED
    BY <2>1, <2>2, <2>3, <2>4 DEF BuyerRemembers, BuyerType
<1>6. NewcomersAreNew'
  BY <1>1, <1>2, <1>3 DEF BooksInv, TypeOK, BuyerType, Goto, NewcomersAreNew
<1>7. NothingDisappears'
  BY <1>1, <1>2, <1>3 DEF BooksInv, TypeOK, NothingDisappears
<1>8. BooksBalance'
  <2>1. \A o \in (Planets \cup Players) \ overwritten' :
          /\ o \notin overwritten
          /\ o = p => shares[p] = s
          /\ o = u => dollars[u] = d
    BY DEF Purchase
  <2>2. QED
    BY <1>1, <1>2, <1>3, <2>1 DEF BooksInv, TypeOK, BooksBalance
<1>9. QED
  BY <1>4, <1>5, <1>6, <1>7, <1>8 DEF BooksInv

\* A step that writes no table and remembers what is there now.
LEMMA LookupKeepsBooks ==
    ASSUME BooksInv, UNCHANGED tables, TypeOK', NEW b \in Buyers,
           \A a \in Buyers \ {b} : buyer'[a] = buyer[a],
           BuyerRemembers(b)', buyer'[b].pc # "insert"
    PROVE  BooksInv'
<1>1. \A a \in Buyers : BuyerRemembers(a)'
  BY DEF BooksInv, tables, BuyerRemembers
<1>2. NewcomersAreNew'
  BY DEF BooksInv, tables, NewcomersAreNew
<1>3. NothingDisappears' /\ BooksBalance'
  BY DEF BooksInv, tables, NothingDisappears, BooksBalance
<1>4. QED
  BY <1>1, <1>2, <1>3 DEF BooksInv

\* The two lookups.
LEMMA SelectKeepsBooks ==
    ASSUME BooksInv, NEW b \in Buyers,
           SelectPlanet(b) \/ SelectPlayer(b) \/ SelectVisitor(b)
    PROVE  BooksInv'
<1> USE DEF BooksInv, TypeOK, BuyerType, Goto
<1>1. UNCHANGED tables /\ UNCHANGED <<failedTransactions, failures>>
  BY DEF SelectPlanet, SelectPlayer, SelectVisitor
<1>t. ASSUME buyer' \in [Buyers -> BuyerType] PROVE TypeOK'
  BY <1>1, <1>t DEF tables
<1>2. BuyerRemembers(b) /\ NewcomersAreNew /\ NothingDisappears
  OBVIOUS
<1>3. CASE SelectPlanet(b)
  <2>1. CASE Goto(b, "player")
    <3>1. TypeOK'
      BY <1>t, <2>1, SMTT(30)
    <3>2. BuyerRemembers(b)'
      BY <1>1, <1>2, <1>3, <2>1 DEF tables, BuyerRemembers, SelectPlanet
    <3>3. QED
      BY <1>1, <2>1, <3>1, <3>2, LookupKeepsBooks
  <2>2. ASSUME NEW p \in Planets, shares[p] > 0,
               buyer' = [buyer EXCEPT ![b].pc = "player", ![b].planet = p,
                                      ![b].shares = shares[p],
                                      ![b].cost = ShareCost(p)]
        PROVE  BooksInv'
    <3>1. ShareCost(p) \in Nat
      BY <2>2, CostType
    <3>2. TypeOK'
      <4>1. shares[p] \in Nat /\ p \in Planets \cup {None}
        OBVIOUS
      <4>2. buyer' \in [Buyers -> BuyerType]
        BY <2>2, <3>1, <4>1, SMTT(30)
      <4>3. QED
        BY <1>t, <4>2
    <3>3. BuyerRemembers(b)'
      <4>1. /\ buyer'[b].pc = "player" /\ buyer'[b].planet = p
            /\ buyer'[b].shares = shares[p] /\ buyer'[b].player = buyer[b].player
        BY <2>2
      <4>2. buyer[b].player = None
        BY <1>2, <1>3 DEF BuyerRemembers, SelectPlanet
      <4>3. sold' = sold /\ shares[p] + sold[p] >= InitialShares
        BY <1>1, <1>2 DEF tables, NothingDisappears
      <4>4. QED
        BY <2>2, <4>1, <4>2, <4>3 DEF BuyerRemembers
    <3>4. QED
      BY <1>1, <2>2, <3>2, <3>3, LookupKeepsBooks
  <2>3. QED
    BY <1>3, <2>1, <2>2 DEF SelectPlanet
<1>4. ASSUME NEW u \in Players, NEW place \in {"fail", "done"},
             CanPay(b, u), Selected(b, u, place), buyer[b].pc = "player"
      PROVE  BooksInv'
  <2>1. dollars[u] # None /\ dollars[u] \in Nat /\ dollars[u] >= buyer[b].cost
        /\ dollars[u] + paid[u] >= InitialDollars
    BY <1>2, <1>4 DEF CanPay, NothingDisappears
  <2>2. TypeOK'
    <3>1. buyer' \in [Buyers -> BuyerType]
      BY <1>4, <2>1, SMTT(30) DEF Selected
    <3>2. QED
      BY <1>t, <3>1
  <2>3. BuyerRemembers(b)'
    BY <1>1, <1>2, <1>4, <2>1 DEF tables, BuyerRemembers, Selected
  <2>4. buyer'[b].pc # "insert"
    BY <1>4 DEF Selected
  <2>5. \A a \in Buyers \ {b} : buyer'[a] = buyer[a]
    BY <1>4 DEF Selected
  <2>6. QED
    BY <1>1, <2>2, <2>3, <2>4, <2>5, LookupKeepsBooks
<1>5. ASSUME NEW place \in {"fail", "done"}, Goto(b, place), buyer[b].pc = "player"
      PROVE  BooksInv'
  <2>1. TypeOK'
    BY <1>t, <1>5, SMTT(30)
  <2>2. BuyerRemembers(b)'
    BY <1>1, <1>2, <1>5 DEF tables, BuyerRemembers
  <2>3. QED
    BY <1>1, <1>5, <2>1, <2>2, LookupKeepsBooks
<1>6. CASE SelectPlayer(b)
  BY <1>4, <1>5, <1>6 DEF SelectPlayer
<1>7. CASE SelectVisitor(b)
  <2>1. b \in Visits /\ PlayerOf[b] \in Players
    BY <1>7 DEF SelectVisitor
  <2>2. QED
    BY <1>4, <1>5, <1>7, <2>1 DEF SelectVisitor
<1>8. QED
  BY <1>3, <1>6, <1>7

\* The tasks that end without a purchase.
LEMMA EndKeepsBooks ==
    ASSUME BooksInv, NEW b \in Buyers,
           \/ ReadFailedTransactions(b) \/ WriteFailedTransactions(b)
           \/ CallFails(b) /\ UNCHANGED tables
    PROVE  BooksInv'
<1> USE DEF BooksInv, TypeOK, BuyerType, Goto
<1>1. UNCHANGED tables
  BY DEF ReadFailedTransactions, WriteFailedTransactions
<1>2. TypeOK'
  <2>1. CASE ReadFailedTransactions(b)
    BY <2>1, <1>1 DEF ReadFailedTransactions, tables
  <2>2. CASE WriteFailedTransactions(b)
    BY <2>2, <1>1 DEF WriteFailedTransactions, tables
  <2>3. CASE CallFails(b)
    <3>1. failures' \in 0..MaxFailures /\ failedTransactions' = failedTransactions
      BY <2>3 DEF CallFails
    <3>2. buyer' \in [Buyers -> BuyerType]
      BY <2>3 DEF CallFails
    <3>3. QED
      BY <1>1, <3>1, <3>2 DEF tables
  <2>4. QED
    BY <2>1, <2>2, <2>3
<1>3. /\ \A a \in Buyers \ {b} : buyer'[a] = buyer[a]
      /\ buyer'[b].planet = buyer[b].planet /\ buyer'[b].shares = buyer[b].shares
      /\ buyer'[b].player = buyer[b].player /\ buyer'[b].dollars = buyer[b].dollars
      /\ buyer'[b].cost = buyer[b].cost
      /\ buyer'[b].pc \in {"count", "done"}
  BY DEF ReadFailedTransactions, WriteFailedTransactions, CallFails
<1>4. BuyerRemembers(b)'
  <2>1. BuyerRemembers(b)
    OBVIOUS
  <2>2. QED
    BY <1>1, <1>3, <2>1 DEF BuyerRemembers, tables
<1>5. QED
  BY <1>1, <1>2, <1>3, <1>4, LookupKeepsBooks

LEMMA NextBooks == BooksInv /\ [Next]_vars => BooksInv'
<1> SUFFICES ASSUME BooksInv, [Next]_vars PROVE BooksInv'
  OBVIOUS
<1>1. ASSUME NEW v \in Buyers, InsertPlayer(v) PROVE BooksInv'
  <2>1. failures' \in 0..MaxFailures
    BY <1>1 DEF InsertPlayer, BooksInv, TypeOK
  <2>2. QED
    BY <1>1, <2>1, InsertKeepsBooks DEF InsertPlayer
<1>2. ASSUME NEW b \in Buyers, Commit(b) PROVE BooksInv'
  <2>1. failures' \in 0..MaxFailures
    BY <1>2 DEF Commit, BooksInv, TypeOK
  <2>2. QED
    BY <1>2, <2>1, PurchaseKeepsBooks DEF Commit
<1>3. ASSUME NEW b \in Buyers, CallFails(b) PROVE BooksInv'
  <2>1. failures' \in 0..MaxFailures
    BY <1>3 DEF CallFails, BooksInv, TypeOK
  <2>2. CASE UNCHANGED tables
    BY <1>3, <2>2, EndKeepsBooks
  <2>3. CASE buyer[b].pc = "insert" /\ Insert(b)
    BY <1>3, <2>1, <2>3, InsertKeepsBooks DEF CallFails
  <2>4. CASE buyer[b].pc = "buy" /\ Purchase(b)
    BY <1>3, <2>1, <2>4, PurchaseKeepsBooks DEF CallFails
  <2>5. QED
    BY <1>3, <2>2, <2>3, <2>4 DEF CallFails, Done
<1>4. CASE UNCHANGED vars
  BY <1>4 DEF vars, tables, BooksInv, TypeOK, BuyerRemembers, NewcomersAreNew,
              NothingDisappears, BooksBalance
<1>5. QED
  BY <1>1, <1>2, <1>3, <1>4, SelectKeepsBooks, EndKeepsBooks DEF Next

\* The inductive invariant of the books.
THEOREM BooksAreSafe == Spec => []BooksInv
<1>1. QED
  BY InitBooks, NextBooks, PTL DEF Spec

\* The tables and the local variables of buyers stay within their types: no
\* purchase makes SharesAvailable or PlanetDollars negative.
THEOREM AuctionTypeCorrect == Spec => []TypeOK
<1>1. BooksInv => TypeOK
  BY DEF BooksInv
<1>2. QED
  BY <1>1, BooksAreSafe, PTL

\* Purchases may overwrite each other, but no share and no dollar goes
\* without a row of Transactions.
THEOREM NothingEverDisappears == Spec => []NothingDisappears
<1>1. BooksInv => NothingDisappears
  BY DEF BooksInv
<1>2. QED
  BY <1>1, BooksAreSafe, PTL

\* Planets and players whom no purchase has overwritten add up with the rows
\* of Transactions.
THEOREM BooksAlwaysBalance == Spec => []BooksBalance
<1>1. BooksInv => BooksBalance
  BY DEF BooksInv
<1>2. QED
  BY <1>1, BooksAreSafe, PTL

-----------------------------------------------------------------------------
(* The report.                                                             *)

\* Auctions that are done and have bought nothing.
Failed == {b \in Auctions : buyer[b].pc = "done" /\ b \notin bought}

\* Lost increments can only make _failedTransactions smaller.
ReportInv ==
    /\ failedTransactions <= Cardinality(Failed)
    /\ \A b \in Auctions :
         /\ buyer[b].pc = "count" =>
              b \notin bought /\ buyer[b].count <= Cardinality(Failed)
         /\ b \in bought => buyer[b].pc = "done"
    /\ \A v \in Visits : buyer[v].pc \notin {"fail", "count"}

LEMMA FailedCardinality ==
    /\ IsFiniteSet(Failed) /\ Cardinality(Failed) \in Nat
    /\ IsFiniteSet(Failed') /\ Cardinality(Failed') \in Nat
    /\ Failed \subseteq Failed' => Cardinality(Failed) <= Cardinality(Failed')
<1>1. Failed \subseteq Auctions /\ Failed' \subseteq Auctions
  BY DEF Failed
<1>2. IsFiniteSet(Failed) /\ IsFiniteSet(Failed')
  BY <1>1, FS_Subset
<1>3. QED
  BY <1>2, FS_CardinalityType, FS_Subset

LEMMA InitReport == Init => ReportInv
<1> SUFFICES ASSUME Init PROVE ReportInv
  OBVIOUS
<1>1. \A b \in Buyers : buyer[b].pc \in {"insert", "planet"}
  BY DEF Init
<1>2. Failed = {}
  BY <1>1 DEF Failed
<1>3. Cardinality(Failed) = 0
  BY <1>2, FS_EmptySet
<1>4. failedTransactions = 0 /\ bought = {}
  BY DEF Init
<1>5. QED
  BY <1>1, <1>3, <1>4 DEF ReportInv

LEMMA NextReport == BooksInv /\ ReportInv /\ [Next]_vars => ReportInv'
<1> SUFFICES ASSUME BooksInv, ReportInv, [Next]_vars PROVE ReportInv'
  OBVIOUS
<1> USE DEF BooksInv, TypeOK, BuyerType, Goto
<1>f. Cardinality(Failed) \in Nat /\ Cardinality(Failed') \in Nat
      /\ (Failed \subseteq Failed' => Cardinality(Failed) <= Cardinality(Failed'))
  BY FailedCardinality
<1>1. ASSUME NEW b \in Buyers, buyer[b].pc \in {"insert", "planet", "player", "buy"},
             \A a \in Buyers \ {b} : buyer'[a] = buyer[a],
             \/ bought' = bought
             \/ buyer'[b].pc = "done" /\ bought' = bought \cup ({b} \cap Auctions),
             buyer'[b].pc # "count", buyer'[b].pc = "fail" => b \in Auctions,
             UNCHANGED failedTransactions
      PROVE  ReportInv'
  <2>1. b \notin bought
    BY <1>1 DEF ReportInv
  <2>2. Failed \subseteq Failed'
    BY <1>1, <2>1 DEF Failed
  <2>3. QED
    BY <1>f, <1>1, <2>1, <2>2 DEF ReportInv
<1>2. ASSUME NEW b \in Buyers, ReadFailedTransactions(b) PROVE ReportInv'
  <2>1. b \in Auctions /\ b \notin bought /\ UNCHANGED <<bought, failedTransactions>>
    BY <1>2 DEF ReadFailedTransactions, ReportInv, tables
  <2>2. Failed' = Failed
    BY <1>2, <2>1 DEF ReadFailedTransactions, Failed
  <2>3. QED
    BY <1>2, <2>1, <2>2 DEF ReadFailedTransactions, ReportInv
<1>3. ASSUME NEW b \in Buyers, WriteFailedTransactions(b) PROVE ReportInv'
  <2>1. b \in Auctions /\ b \notin bought /\ buyer[b].count <= Cardinality(Failed)
        /\ UNCHANGED bought /\ failedTransactions' = buyer[b].count + 1
    BY <1>3 DEF WriteFailedTransactions, ReportInv, tables
  <2>2. Failed' = Failed \cup {b} /\ b \notin Failed
    BY <1>3, <2>1 DEF WriteFailedTransactions, Failed
  <2>3. Cardinality(Failed') = Cardinality(Failed) + 1
    BY <2>2, FailedCardinality, FS_AddElement
  <2>4. QED
    <3>1. /\ \A a \in Buyers \ {b} : buyer'[a] = buyer[a]
          /\ buyer'[b].pc = "done"
      BY <1>3 DEF WriteFailedTransactions
    <3>2. failedTransactions' <= Cardinality(Failed')
      BY <1>f, <2>1, <2>3
    <3>3. QED
      BY <1>f, <2>1, <2>3, <3>1, <3>2 DEF ReportInv
<1>4. CASE UNCHANGED vars
  <2>1. Failed' = Failed
    BY <1>4 DEF vars, tables, Failed
  <2>2. QED
    BY <1>4, <2>1 DEF vars, tables, ReportInv
<1>5. ASSUME NEW b \in Buyers,
             \/ InsertPlayer(b) \/ SelectPlanet(b) \/ SelectPlayer(b)
             \/ SelectVisitor(b) \/ Commit(b) \/ CallFails(b)
      PROVE  ReportInv'
  <2>1. /\ buyer[b].pc \in {"insert", "planet", "player", "buy"}
        /\ \A a \in Buyers \ {b} : buyer'[a] = buyer[a]
        /\ UNCHANGED failedTransactions
    BY <1>5 DEF InsertPlayer, SelectPlanet, SelectPlayer, SelectVisitor,
                Selected, Commit, CallFails
  <2>2. buyer'[b].pc # "count" /\ (buyer'[b].pc = "fail" => b \in Auctions)
    <3>1. CASE SelectPlayer(b)
      <4>1. b \in Auctions
        BY <3>1 DEF SelectPlayer
      <4>2. \A u \in Players : Selected(b, u, "fail") => buyer'[b].pc \in {"fail", "buy"}
        BY DEF Selected
      <4>3. Goto(b, "fail") => buyer'[b].pc = "fail"
        OBVIOUS
      <4>4. QED
        BY <3>1, <4>1, <4>2, <4>3 DEF SelectPlayer
    <3>2. CASE SelectVisitor(b)
      BY <3>2 DEF SelectVisitor, Selected
    <3>3. CASE SelectPlanet(b)
      <4>1. ASSUME NEW p \in Planets,
                   buyer' = [buyer EXCEPT ![b].pc = "player", ![b].planet = p,
                                          ![b].shares = shares[p],
                                          ![b].cost = ShareCost(p)]
            PROVE  buyer'[b].pc = "player"
        BY <4>1
      <4>2. Goto(b, "player") => buyer'[b].pc = "player"
        OBVIOUS
      <4>3. buyer'[b].pc = "player"
        BY <3>3, <4>1, <4>2 DEF SelectPlanet
      <4>4. QED
        BY <4>3
    <3>4. CASE InsertPlayer(b) \/ Commit(b) \/ CallFails(b)
      <4>1. Goto(b, "planet") \/ Goto(b, "done")
        BY <3>4 DEF InsertPlayer, Commit, CallFails
      <4>2. buyer'[b].pc \in {"planet", "done"}
        BY <4>1
      <4>3. QED
        BY <4>2
    <3>5. QED
      BY <1>5, <3>1, <3>2, <3>3, <3>4
  <2>3. \/ bought' = bought
        \/ buyer'[b].pc = "done" /\ bought' = bought \cup ({b} \cap Auctions)
    <3>1. CASE InsertPlayer(b) \/ SelectPlanet(b) \/ SelectPlayer(b) \/ SelectVisitor(b)
      BY <3>1 DEF InsertPlayer, Insert, SelectPlanet, SelectPlayer,
                  SelectVisitor, tables
    <3>2. CASE Commit(b)
      BY <3>2 DEF Commit, Purchase
    <3>3. CASE CallFails(b)
      <4>1. buyer'[b].pc = "done" /\ (UNCHANGED tables \/ Done(b))
        BY <3>3 DEF CallFails
      <4>2. UNCHANGED tables => bought' = bought
        BY DEF tables
      <4>3. Done(b) => bought' = bought \/ bought' = bought \cup ({b} \cap Auctions)
        BY DEF Done, Insert, Purchase
      <4>4. QED
        BY <4>1, <4>2, <4>3
    <3>4. QED
      BY <1>5, <3>1, <3>2, <3>3
  <2>4. QED
    BY <1>1, <2>1, <2>2, <2>3
<1>6. QED
  BY <1>2, <1>3, <1>4, <1>5 DEF Next

\* What RunPlanetAuction prints as the number of shares the players purchased
\* is never less than what its auctions have sold.
THEOREM ReportNeverUnderstates == Spec => []ReportIsAnUpperBound
<1>1. TypeOK /\ ReportInv => ReportIsAnUpperBound
  <2> SUFFICES ASSUME TypeOK, ReportInv, \A b \in Auctions : buyer[b].pc = "done"
               PROVE  Cardinality(bought) <= Cardinality(Auctions) - failedTransactions
    BY DEF ReportIsAnUpperBound
  <2>1. bought \subseteq Auctions /\ failedTransactions \in Nat
        /\ failedTransactions <= Cardinality(Failed)
    BY DEF TypeOK, ReportInv
  <2>2. Failed = Auctions \ bought
    BY DEF Failed
  <2>3. IsFiniteSet(bought) /\ Auctions \cap bought = bought
    BY <2>1, FS_Subset
  <2>4. Cardinality(Failed) = Cardinality(Auctions) - Cardinality(bought)
    BY <2>2, <2>3, FS_Difference
  <2>5. Cardinality(bought) \in Nat /\ Cardinality(Auctions) \in Nat
    BY <2>3, FS_CardinalityType
  <2>6. QED
    BY <2>1, <2>4, <2>5
<1>2. BooksInv => TypeOK
  BY DEF BooksInv
<1>3. QED
  BY <1>1, <1>2, BooksAreSafe, InitReport, NextReport, PTL DEF Spec

=============================================================================
