------------------------ MODULE GameBoardQueueProofs ------------------------
(***************************************************************************)
(* Proofs about GameBoardQueue, for every game tree, every number of       *)
(* servers and handlers, and every bound.                                  *)
(***************************************************************************)
EXTENDS GameBoardQueue, FiniteSetTheorems, SequenceTheorems, TLAPS

-----------------------------------------------------------------------------
(* The bag of messages.                                                    *)

\* A published message is in the topic, next to those that were there.
LEMMA WithBag ==
    ASSUME NEW t, IsABag(t), NEW m
    PROVE  IsABag(With(t, m)) /\ BagToSet(With(t, m)) = BagToSet(t) \cup {m}
BY DEF IsABag, BagToSet, With, SetToBag, (+)

\* A delivered message leaves the topic; other messages stay.
LEMMA WithoutBag ==
    ASSUME NEW t, IsABag(t), NEW m, m \in BagToSet(t)
    PROVE  /\ IsABag(Without(t, m))
           /\ BagToSet(Without(t, m)) \subseteq BagToSet(t)
           /\ BagToSet(t) \ {m} \subseteq BagToSet(Without(t, m))
BY DEF IsABag, BagToSet, Without, SetToBag, (-)

\* Several messages come back, or are published, at once.
LEMMA UnionBag ==
    ASSUME NEW t, IsABag(t), NEW u, IsABag(u)
    PROVE  IsABag(t (+) u) /\ BagToSet(t (+) u) = BagToSet(t) \cup BagToSet(u)
BY DEF IsABag, BagToSet, (+)

LEMMA SetBag ==
    ASSUME NEW S
    PROVE  IsABag(SetToBag(S)) /\ BagToSet(SetToBag(S)) = S
BY DEF IsABag, BagToSet, SetToBag

-----------------------------------------------------------------------------
(* Stacks and what they lead to.                                           *)

Strictly(m, s) == Reach(m) \subseteq Reach(s) /\ Reach(m) # Reach(s)

LEMMA ReachMember ==
    \A s, b : b \in Reach(s) <=> \E i \in DOMAIN s : b \in Below[s[i].board]
BY DEF Reach

LEMMA TopAndPopped ==
    ASSUME NEW s \in Stacks, s # <<>>
    PROVE  /\ Len(s) \in Nat \ {0} /\ Len(s) \in DOMAIN s
           /\ Top(s) \in BoardAndWidth
           /\ Popped(s) \in Stacks /\ Len(Popped(s)) = Len(s) - 1
           /\ \A i \in 1..(Len(s) - 1) : Popped(s)[i] = s[i]
<1>1. s \in Seq(BoardAndWidth) /\ Len(s) \in Nat /\ DOMAIN s = 1..Len(s)
      /\ s \in [1..Len(s) -> BoardAndWidth]
    BY LenProperties DEF Stacks
<1>2. Len(s) # 0
    BY <1>1, EmptySeq
<1>3. \A i \in 1..(Len(s) - 1) : s[i] \in BoardAndWidth
    BY <1>1
<1>4. /\ Popped(s) \in Seq(BoardAndWidth)
      /\ Len(Popped(s)) = IF 1 <= Len(s) - 1 THEN Len(s) - 1 - 1 + 1 ELSE 0
      /\ \A i \in 1..(Len(s) - 1 - 1 + 1) : Popped(s)[i] = s[1 + i - 1]
  <2>1. 1 \in Int /\ Len(s) - 1 \in Int
      BY <1>1
  <2> QED  BY <1>3, <2>1, SubSeqProperties DEF Popped
<1>5. /\ Len(Popped(s)) = Len(s) - 1
      /\ \A i \in 1..(Len(s) - 1) : Popped(s)[i] = s[i]
  <2>1. \A n \in Nat : n # 0 => (IF 1 <= n - 1 THEN n - 1 - 1 + 1 ELSE 0) = n - 1
      OBVIOUS
  <2>2. \A n \in Nat : n - 1 - 1 + 1 = n - 1
      OBVIOUS
  <2>3. \A i \in 1..(Len(s) - 1) : 1 + i - 1 = i
      BY <1>1
  <2> QED  BY <1>1, <1>2, <1>4, <2>1, <2>2, <2>3
<1>6. Len(s) \in DOMAIN s /\ Top(s) \in BoardAndWidth
    BY <1>1, <1>2 DEF Top
<1> QED  BY <1>1, <1>2, <1>4, <1>5, <1>6 DEF Stacks

\* A stack leads to what its top leads to and what the rest leads to.
LEMMA ReachSplit ==
    ASSUME NEW s \in Stacks, s # <<>>
    PROVE  Reach(s) = Reach(Popped(s)) \cup Below[Top(s).board]
<1>1. DOMAIN s = 1..Len(s) /\ DOMAIN Popped(s) = 1..(Len(s) - 1)
    BY TopAndPopped, LenProperties DEF Stacks
<1>2. DOMAIN s = DOMAIN Popped(s) \cup {Len(s)}
    BY <1>1, TopAndPopped
<1>3. \A i \in DOMAIN Popped(s) : Popped(s)[i] = s[i]
    BY <1>1, TopAndPopped
<1>4. \A b : b \in Reach(s) <=> b \in Reach(Popped(s)) \cup Below[Top(s).board]
    BY <1>2, <1>3, ReachMember DEF Top
<1> QED  BY <1>4

LEMMA ReachAppend ==
    ASSUME NEW s \in Stacks, NEW e \in BoardAndWidth
    PROVE  /\ Append(s, e) \in Stacks
           /\ Reach(Append(s, e)) = Reach(s) \cup Below[e.board]
<1> DEFINE a == Append(s, e)
<1>1. a \in Stacks /\ DOMAIN a = DOMAIN s \cup {Len(s) + 1}
      /\ (\A i \in DOMAIN s : a[i] = s[i]) /\ a[Len(s) + 1] = e
    BY AppendProperties, LenProperties DEF Stacks
<1> HIDE DEF a
<1>2. \A b : b \in Reach(a) <=> b \in Reach(s) \cup Below[e.board]
    BY <1>1, ReachMember
<1>3. Reach(a) = Reach(s) \cup Below[e.board]
    BY <1>2
<1> QED  BY <1>1, <1>3 DEF a

LEMMA ReachConcat ==
    ASSUME NEW s \in Stacks, NEW t \in Stacks
    PROVE  s \o t \in Stacks /\ Reach(s \o t) = Reach(s) \cup Reach(t)
<1> DEFINE c == s \o t
<1>1. c \in Stacks /\ DOMAIN c = 1..(Len(s) + Len(t))
      /\ (\A i \in DOMAIN s : c[i] = s[i])
      /\ (\A i \in DOMAIN t : c[Len(s) + i] = t[i])
    BY ConcatProperties, LenProperties DEF Stacks
<1>2. DOMAIN s = 1..Len(s) /\ DOMAIN t = 1..Len(t) /\ Len(s) \in Nat /\ Len(t) \in Nat
    BY LenProperties DEF Stacks
<1> HIDE DEF c
<1>3. \A i \in DOMAIN c : (i \in DOMAIN s) \/ (i - Len(s) \in DOMAIN t /\ c[i] = t[i - Len(s)])
    BY <1>1, <1>2
<1>4. DOMAIN s \subseteq DOMAIN c /\ \A i \in DOMAIN t : Len(s) + i \in DOMAIN c
    BY <1>1, <1>2
<1>5. ASSUME NEW b PROVE b \in Reach(c) <=> b \in Reach(s) \cup Reach(t)
  <2>1. ASSUME b \in Reach(c) PROVE b \in Reach(s) \cup Reach(t)
    <3>1. PICK i \in DOMAIN c : b \in Below[c[i].board]
        BY <2>1 DEF Reach
    <3>2. CASE i \in DOMAIN s
        BY <3>1, <3>2, <1>1 DEF Reach
    <3>3. CASE i - Len(s) \in DOMAIN t /\ c[i] = t[i - Len(s)]
        BY <3>1, <3>3 DEF Reach
    <3> QED  BY <3>2, <3>3, <1>3
  <2>2. ASSUME b \in Reach(s) PROVE b \in Reach(c)
    <3>1. PICK i \in DOMAIN s : b \in Below[s[i].board]
        BY <2>2 DEF Reach
    <3> QED  BY <3>1, <1>1, <1>4, Zenon DEF Reach
  <2>3. ASSUME b \in Reach(t) PROVE b \in Reach(c)
    <3>1. PICK i \in DOMAIN t : b \in Below[t[i].board]
        BY <2>3 DEF Reach
    <3>2. b \in Below[c[Len(s) + i].board] /\ Len(s) + i \in DOMAIN c
        BY <3>1, <1>1, <1>4
    <3> QED  BY <3>2, Zenon DEF Reach
  <2> QED  BY <2>1, <2>2, <2>3
<1> QED  BY <1>1, <1>5, Zenon DEF c

LEMMA TreeFacts ==
    ASSUME NEW b \in Boards
    PROVE  /\ b \in Below[b]
           /\ \A x \in Below[b] : x = b \/ \E c \in Moves(b) : x \in Below[c]
           /\ \A c \in Moves(b) : /\ c \in Boards /\ Below[c] \subseteq Below[b]
                                  /\ b \notin Below[c]
           /\ NextMoves[b] \in Seq(Boards)
           /\ \A i, j \in DOMAIN NextMoves[b] :
                i # j => Below[NextMoves[b][i]] \cap Below[NextMoves[b][j]] = {}
<1>1. Below[b] = {b} \cup UNION {Below[c] : c \in Moves(b)}
    BY TreeAssumption
<1>2. NextMoves[b] \in Seq(Boards)
    BY TreeAssumption
<1>3. \A c \in Moves(b) : c \in Boards /\ b \notin Below[c]
  <2> SUFFICES ASSUME NEW i \in DOMAIN NextMoves[b]
               PROVE  NextMoves[b][i] \in Boards /\ b \notin Below[NextMoves[b][i]]
      BY DEF Moves
  <2> QED  BY <1>2, LenProperties, TreeAssumption
<1>4. \A i, j \in DOMAIN NextMoves[b] :
        i # j => Below[NextMoves[b][i]] \cap Below[NextMoves[b][j]] = {}
    BY TreeAssumption
<1> QED  BY <1>1, <1>2, <1>3, <1>4

\* What a handler has in its hands: part of the puzzle's tree, no part twice.
Good(m) ==
    m \in Stacks /\ StackIsDisjoint(m) /\ Reach(m) \subseteq Below[Puzzle]

LEMMA EmptyIsGood == Good(<<>>) /\ Reach(<<>>) = {}
<1>1. <<>> \in Stacks
    BY EmptySeq DEF Stacks
<1>2. DOMAIN <<>> = {}
    BY EmptySeq, LenProperties
<1> QED  BY <1>1, <1>2 DEF Good, StackIsDisjoint, Reach

LEMMA GoodPopped ==
    ASSUME NEW s, Good(s), s # <<>>
    PROVE  /\ Good(Popped(s))
           /\ Reach(Popped(s)) \cap Below[Top(s).board] = {}
<1>1. s \in Stacks /\ Popped(s) \in Stacks
    BY TopAndPopped DEF Good
<1>2. DOMAIN s = 1..Len(s) /\ DOMAIN Popped(s) = 1..(Len(s) - 1) /\ Len(s) \in Nat \ {0}
    BY <1>1, TopAndPopped, LenProperties DEF Stacks
<1>3. \A i \in DOMAIN Popped(s) : i \in DOMAIN s /\ i # Len(s) /\ Popped(s)[i] = s[i]
  <2>1. \A i \in DOMAIN Popped(s) : i \in DOMAIN s /\ i # Len(s)
      BY <1>2
  <2>2. \A i \in 1..(Len(s) - 1) : Popped(s)[i] = s[i]
      BY <1>1, TopAndPopped
  <2>3. \A i \in DOMAIN Popped(s) : Popped(s)[i] = s[i]
      BY <1>2, <2>2, Zenon
  <2> QED  BY <2>1, <2>3
<1>4. StackIsDisjoint(Popped(s))
    BY <1>3 DEF StackIsDisjoint, Good
<1>5. Reach(Popped(s)) \cap Below[Top(s).board] = {}
  <2> SUFFICES ASSUME NEW b, b \in Reach(Popped(s)), b \in Below[Top(s).board]
               PROVE  FALSE
      OBVIOUS
  <2>1. PICK i \in DOMAIN Popped(s) : b \in Below[s[i].board]
      BY <1>3, ReachMember
  <2>2. Len(s) \in DOMAIN s
      BY <1>2
  <2> QED  BY <1>3, <2>1, <2>2 DEF Good, StackIsDisjoint, Top
<1> QED  BY <1>1, <1>4, <1>5, ReachSplit DEF Good

LEMMA DisjointAppend ==
    ASSUME NEW s \in Stacks, StackIsDisjoint(s), NEW e \in BoardAndWidth,
           Reach(s) \cap Below[e.board] = {}
    PROVE  StackIsDisjoint(Append(s, e))
<1> DEFINE a == Append(s, e)
<1>1. DOMAIN a = DOMAIN s \cup {Len(s) + 1}
      /\ (\A i \in DOMAIN s : a[i] = s[i]) /\ a[Len(s) + 1] = e
    BY AppendProperties, LenProperties DEF Stacks
<1>2. \A i \in DOMAIN s : Below[s[i].board] \cap Below[e.board] = {}
    BY ReachMember
<1> HIDE DEF a
<1>3. StackIsDisjoint(a)
    BY <1>1, <1>2 DEF StackIsDisjoint
<1> QED  BY <1>3 DEF a

LEMMA DisjointConcat ==
    ASSUME NEW s \in Stacks, StackIsDisjoint(s), NEW t \in Stacks,
           StackIsDisjoint(t), Reach(s) \cap Reach(t) = {}
    PROVE  StackIsDisjoint(s \o t)
<1> DEFINE c == s \o t
           n == Len(s)
<1>1. /\ n \in Nat /\ Len(t) \in Nat /\ DOMAIN s = 1..n /\ DOMAIN t = 1..Len(t)
      /\ DOMAIN c = 1..(n + Len(t))
      /\ (\A i \in DOMAIN s : c[i] = s[i])
      /\ (\A i \in DOMAIN c : i \notin DOMAIN s => c[i] = t[i - n])
    BY ConcatProperties, LenProperties DEF Stacks
<1> HIDE DEF c, n
<1>2. \A i \in DOMAIN c : i \in DOMAIN s \/ i - n \in DOMAIN t
    BY <1>1
<1>3. ASSUME NEW i \in DOMAIN c, NEW j \in DOMAIN c, i # j,
             NEW b, b \in Below[c[i].board], b \in Below[c[j].board]
      PROVE  FALSE
  <2>1. CASE i \in DOMAIN s /\ j \in DOMAIN s
      BY <1>1, <1>3, <2>1 DEF StackIsDisjoint
  <2>2. CASE i \in DOMAIN s /\ j \notin DOMAIN s
    <3>1. b \in Below[s[i].board]
        BY <1>1, <1>3, <2>2
    <3>2. b \in Below[t[j - n].board] /\ j - n \in DOMAIN t
        BY <1>1, <1>2, <1>3, <2>2
    <3>3. b \in Reach(s) /\ b \in Reach(t)
        BY <2>2, <3>1, <3>2, ReachMember, Zenon
    <3> QED  BY <3>3
  <2>3. CASE i \notin DOMAIN s /\ j \in DOMAIN s
    <3>1. b \in Below[s[j].board]
        BY <1>1, <1>3, <2>3
    <3>2. b \in Below[t[i - n].board] /\ i - n \in DOMAIN t
        BY <1>1, <1>2, <1>3, <2>3
    <3>3. b \in Reach(s) /\ b \in Reach(t)
        BY <2>3, <3>1, <3>2, ReachMember, Zenon
    <3> QED  BY <3>3
  <2>4. CASE i \notin DOMAIN s /\ j \notin DOMAIN s
    <3>1. i - n # j - n /\ i - n \in DOMAIN t /\ j - n \in DOMAIN t
        BY <1>1, <1>2, <1>3, <2>4
    <3>2. b \in Below[t[i - n].board] /\ b \in Below[t[j - n].board]
        BY <1>1, <1>3, <2>4
    <3> QED  BY <3>1, <3>2 DEF StackIsDisjoint
  <2> QED  BY <2>1, <2>2, <2>3, <2>4
<1>4. StackIsDisjoint(c)
    BY <1>3 DEF StackIsDisjoint
<1> QED  BY <1>4 DEF c

\* The moves as a stack: all that is below the top board, and nothing twice.
LEMMA MovesStack ==
    ASSUME NEW s \in Stacks, s # <<>>
    PROVE  /\ AsMoves(s) \in Stacks /\ StackIsDisjoint(AsMoves(s))
           /\ \A b : b \in Reach(AsMoves(s)) <=>
                       \E c \in Moves(Top(s).board) : b \in Below[c]
<1> DEFINE top == Top(s)
           next == NextMoves[top.board]
           t == AsMoves(s)
<1>1. top.board \in Boards /\ top.parallelBranches \in 1..MaxParallelBranches
    BY TopAndPopped DEF BoardAndWidth
<1>2. next \in Seq(Boards) /\ DOMAIN next = 1..Len(next) /\ Len(next) \in Nat
      /\ \A i \in DOMAIN next : next[i] \in Boards
    BY <1>1, TreeFacts, LenProperties
<1>3. t = [i \in 1..Len(next) |->
             [board |-> next[i], parallelBranches |-> top.parallelBranches]]
    BY <1>2 DEF AsMoves
<1>4. DOMAIN t = DOMAIN next /\ \A i \in DOMAIN next : t[i].board = next[i]
    BY <1>2, <1>3
<1>5. t \in Stacks
  <2>1. \A i \in 1..Len(next) :
          [board |-> next[i], parallelBranches |-> top.parallelBranches] \in BoardAndWidth
      BY <1>1, <1>2 DEF BoardAndWidth
  <2>2. t \in [1..Len(next) -> BoardAndWidth]
      BY <2>1, <1>3
  <2> QED  BY <2>2, <1>2 DEF Stacks
<1>6. StackIsDisjoint(t)
  <2>1. \A i, j \in DOMAIN next : i # j => Below[next[i]] \cap Below[next[j]] = {}
      BY <1>1, TreeFacts
  <2> HIDE DEF t, next
  <2> QED  BY <1>4, <2>1 DEF StackIsDisjoint
<1>7. \A b : b \in Reach(t) <=> \E c \in Moves(top.board) : b \in Below[c]
    BY <1>4, ReachMember DEF Moves
<1> QED  BY <1>5, <1>6, <1>7

-----------------------------------------------------------------------------
(* The messages that answer a message.                                     *)

\* One more board on top of what is left of the stack.
LEMMA PushedMove ==
    ASSUME NEW s, Good(s), s # <<>>, NEW c \in Moves(Top(s).board),
           NEW w \in 1..MaxParallelBranches
    PROVE  LET m == Append(Popped(s), [board |-> c, parallelBranches |-> w])
           IN  Good(m) /\ Strictly(m, s) /\ Below[c] \subseteq Reach(m)
<1> DEFINE e == [board |-> c, parallelBranches |-> w]
           m == Append(Popped(s), e)
           b == Top(s).board
<1>1. s \in Stacks /\ Popped(s) \in Stacks /\ b \in Boards
    BY TopAndPopped DEF Good, BoardAndWidth
<1>2. c \in Boards /\ Below[c] \subseteq Below[b] /\ b \notin Below[c] /\ b \in Below[b]
    BY <1>1, TreeFacts
<1>3. e \in BoardAndWidth /\ e.board = c
    BY <1>2 DEF BoardAndWidth
<1>4. /\ Reach(s) = Reach(Popped(s)) \cup Below[b]
      /\ Reach(Popped(s)) \cap Below[b] = {}
      /\ StackIsDisjoint(Popped(s))
    BY <1>1, GoodPopped, ReachSplit DEF Good
<1> HIDE DEF e, b
<1>5. m \in Stacks /\ Reach(m) = Reach(Popped(s)) \cup Below[c]
    BY <1>1, <1>3, ReachAppend
<1>6. StackIsDisjoint(m)
    BY <1>1, <1>2, <1>3, <1>4, DisjointAppend
<1> HIDE DEF m
<1>7. Reach(m) \subseteq Reach(s) /\ b \in Reach(s) /\ b \notin Reach(m)
    BY <1>2, <1>4, <1>5
<1>8. Good(m) /\ Strictly(m, s) /\ Below[c] \subseteq Reach(m)
    BY <1>5, <1>6, <1>7 DEF Good, Strictly
<1> QED  BY <1>8 DEF m, e

\* What remains when the top is dropped.
LEMMA DroppedTop ==
    ASSUME NEW s, Good(s), s # <<>>
    PROVE  Good(Popped(s)) /\ Strictly(Popped(s), s)
<1> DEFINE b == Top(s).board
<1>1. b \in Below[b]
    BY TopAndPopped, TreeFacts DEF Good, BoardAndWidth
<1>2. /\ Reach(s) = Reach(Popped(s)) \cup Below[b]
      /\ Reach(Popped(s)) \cap Below[b] = {}
      /\ Good(Popped(s))
    BY GoodPopped, ReachSplit DEF Good
<1> QED  BY <1>1, <1>2 DEF Strictly

\* The moves in the place of the top.
LEMMA LinearIsGood ==
    ASSUME NEW s, Good(s), s # <<>>
    PROVE  LET m == Popped(s) \o AsMoves(s)
           IN  /\ Good(m) /\ Strictly(m, s)
               /\ Reach(s) \ {Top(s).board} \subseteq Reach(m)
<1> DEFINE m == Popped(s) \o AsMoves(s)
           b == Top(s).board
<1>1. s \in Stacks /\ Popped(s) \in Stacks /\ b \in Boards
    BY TopAndPopped DEF Good, BoardAndWidth
<1>2. AsMoves(s) \in Stacks /\ StackIsDisjoint(AsMoves(s))
      /\ \A x : x \in Reach(AsMoves(s)) <=> \E c \in Moves(b) : x \in Below[c]
    BY <1>1, MovesStack
<1>3. /\ \A x \in Below[b] : x = b \/ \E c \in Moves(b) : x \in Below[c]
      /\ \A c \in Moves(b) : Below[c] \subseteq Below[b] /\ b \notin Below[c]
      /\ b \in Below[b]
    BY <1>1, TreeFacts
<1>4. /\ Reach(s) = Reach(Popped(s)) \cup Below[b]
      /\ Reach(Popped(s)) \cap Below[b] = {}
      /\ StackIsDisjoint(Popped(s))
    BY <1>1, GoodPopped, ReachSplit DEF Good
<1> HIDE DEF b
<1>5. /\ Reach(AsMoves(s)) \subseteq Below[b] /\ b \notin Reach(AsMoves(s))
      /\ Below[b] \ {b} \subseteq Reach(AsMoves(s))
    BY <1>2, <1>3
<1>6. m \in Stacks /\ Reach(m) = Reach(Popped(s)) \cup Reach(AsMoves(s))
    BY <1>1, <1>2, ReachConcat
<1>7. StackIsDisjoint(m)
    BY <1>1, <1>2, <1>4, <1>5, DisjointConcat
<1> HIDE DEF m
<1>8. /\ Reach(m) \subseteq Reach(s) /\ b \in Reach(s) /\ b \notin Reach(m)
      /\ Reach(s) \ {b} \subseteq Reach(m)
    BY <1>3, <1>4, <1>5, <1>6
<1>9. Good(m) /\ Strictly(m, s)
    BY <1>6, <1>7, <1>8 DEF Good, Strictly
<1> QED  BY <1>8, <1>9 DEF m, b

\* Every answer is part of the tree and leads to less, and together the
\* answers lead to everything but the board that was examined.
LEMMA AnswersAreGood ==
    ASSUME NEW s, Good(s), s # <<>>
    PROVE  /\ \A m \in NextStacks(s) : Good(m) /\ Strictly(m, s)
           /\ \A g \in Reach(s) :
                g # Top(s).board => \E m \in NextStacks(s) : g \in Reach(m)
<1> DEFINE top == Top(s)
           width == NextLevelWidth(top)
<1>1. s \in Stacks /\ top \in BoardAndWidth /\ top.board \in Boards
    BY TopAndPopped DEF Good, BoardAndWidth
<1>2. width \in Nat \ {0}
  <2>1. \A n, w \in Nat : w # 0 => (1 + n) * w \in Nat \ {0}
    <3>1. \A n, w \in Nat : (1 + n) * w = w + n * w /\ n * w \in Nat
        OBVIOUS
    <3> QED  BY <3>1
  <2>2. Len(NextMoves[top.board]) \in Nat /\ top.parallelBranches \in Nat \ {0}
      BY <1>1, TreeAssumption, SolverAssumption, LenProperties DEF BoardAndWidth
  <2> QED  BY <2>1, <2>2 DEF NextLevelWidth
<1>3. CASE width > MaxParallelBranches
  <2>1. NextStacks(s) = {Popped(s) \o AsMoves(s)}
      BY <1>3 DEF NextStacks, Linear
  <2> QED  BY <2>1, LinearIsGood
<1>4. CASE ~(width > MaxParallelBranches)
  <2>1. width \in 1..MaxParallelBranches
      BY <1>2, <1>4, SolverAssumption
  <2>2. NextStacks(s) = WithEachMove(s, width) \cup
                          IF Len(s) > 1 THEN {Popped(s)} ELSE {}
      BY <1>4 DEF NextStacks, BranchOut
  <2> HIDE DEF width
  <2>3. ASSUME NEW m \in NextStacks(s) PROVE Good(m) /\ Strictly(m, s)
    <3>1. CASE m \in WithEachMove(s, width)
        BY <2>1, <3>1, PushedMove DEF WithEachMove
    <3>2. CASE m = Popped(s)
        BY <3>2, DroppedTop
    <3> QED  BY <2>2, <3>1, <3>2
  <2>4. ASSUME NEW g \in Reach(s), g # top.board
        PROVE  \E m \in NextStacks(s) : g \in Reach(m)
    <3>1. g \in Reach(Popped(s)) \/ \E c \in Moves(top.board) : g \in Below[c]
        BY <1>1, <2>4, ReachSplit, TreeFacts
    <3>2. CASE g \in Reach(Popped(s))
      <4>1. PICK i \in DOMAIN Popped(s) : g \in Below[Popped(s)[i].board]
          BY <3>2, ReachMember
      <4>2. DOMAIN Popped(s) = 1..(Len(s) - 1) /\ Len(s) \in Nat
          BY <1>1, TopAndPopped, LenProperties DEF Stacks
      <4>3. Len(s) > 1
          BY <4>1, <4>2
      <4> QED  BY <2>2, <3>2, <4>3
    <3>3. CASE \E c \in Moves(top.board) : g \in Below[c]
      <4>1. PICK c \in Moves(top.board) : g \in Below[c]
          BY <3>3
      <4> DEFINE m == Append(Popped(s), [board |-> c, parallelBranches |-> width])
      <4>2. g \in Reach(m)
          BY <2>1, <4>1, PushedMove
      <4>3. m \in NextStacks(s)
          BY <2>2, <4>1 DEF WithEachMove
      <4> QED  BY <4>2, <4>3, Zenon
    <3> QED  BY <3>1, <3>2, <3>3
  <2> QED  BY <2>3, <2>4
<1> QED  BY <1>3, <1>4

-----------------------------------------------------------------------------
(* The inductive invariant.                                                *)

\* What a handler in each state of ProcessOneMessage has in its hands.
HandlerOK(r) ==
    /\ r \in HandlerType
    /\ r.pc = "idle" => r = Idle
    /\ r.pc # "idle" => r.stack # <<>>
    /\ r.pc = "save" => r.found \in Complete \cap Reach(r.stack)
    /\ r.outbox # {} => r.pc = "publish"
    /\ Good(r.stack)
    /\ \A m \in r.outbox : Good(m) /\ Strictly(m, r.stack)

HandlersOK == \A h \in Handlers : HandlerOK(handler[h])

TopicGood == \A m \in BagToSet(topic) : Good(m)

\* A solution below a message whose answers are being published is below one
\* that is not published yet, or below an outstanding message that leads to
\* less: acknowledging the message then loses nothing.
Answered(h) ==
    handler[h].leased /\ handler[h].pc = "publish" =>
        \A g \in Reach(handler[h].stack) \cap Complete :
            \/ \E m \in handler[h].outbox : g \in Reach(m)
            \/ \E m \in Outstanding : g \in Reach(m) /\ Strictly(m, handler[h].stack)

AnswersPublished == solution = NoBoard => \A h \in Handlers : Answered(h)

SearchInv ==
    /\ TypeOK /\ HandlersOK /\ TopicGood /\ SolutionsAreReal
    /\ NothingLost /\ AnswersPublished

LEMMA IdleIsOK == HandlerOK(Idle)
BY EmptyIsGood DEF HandlerOK, Idle, HandlerType, Good

LEMMA InitSearch == Init => SearchInv
<1> SUFFICES ASSUME Init PROVE SearchInv
    OBVIOUS
<1> USE DEF Init
<1>1. IsABag(topic) /\ BagToSet(topic) = {}
    BY DEF EmptyBag, SetToBag, IsABag, BagToSet
<1>2. HandlersOK /\ \A h \in Handlers : handler[h] = Idle /\ handler[h] \in HandlerType
    BY IdleIsOK DEF HandlersOK, HandlerOK
<1>3. TypeOK
  <2>1. handler \in [Handlers -> HandlerType]
      BY <1>2
  <2>2. failures \in 0..MaxFailures /\ redeliveries \in 0..MaxRedeliveries
      BY SolverAssumption
  <2> QED  BY <1>1, <2>1, <2>2 DEF TypeOK
<1>4. TopicGood
    BY <1>1 DEF TopicGood
<1>5. SolutionsAreReal
    BY DEF SolutionsAreReal
<1>6. NothingLost
    BY DEF NothingLost
<1>7. AnswersPublished
    BY <1>2 DEF AnswersPublished, Answered, Idle
<1> QED  BY <1>2, <1>3, <1>4, <1>5, <1>6, <1>7 DEF SearchInv

\* One handler changes and the others do not.
LEMMA OneHandler ==
    ASSUME SearchInv, NEW h \in Handlers, NEW r, HandlerOK(r),
           handler' = [handler EXCEPT ![h] = r]
    PROVE  HandlersOK' /\ handler' \in [Handlers -> HandlerType]
<1>1. handler \in [Handlers -> HandlerType]
    BY DEF SearchInv, TypeOK
<1>2. \A k \in Handlers : HandlerOK(handler[k])
    BY DEF SearchInv, HandlersOK
<1>3. \A k \in Handlers : handler'[k] = IF k = h THEN r ELSE handler[k]
    BY <1>1
<1>4. \A k \in Handlers : HandlerOK(handler'[k])
    BY <1>2, <1>3
<1>5. handler' \in [Handlers -> HandlerType]
    BY <1>1 DEF HandlerOK
<1> QED  BY <1>4, <1>5 DEF HandlersOK, HandlerOK

\* A good message comes into the topic.
LEMMA GoodMessage ==
    ASSUME TypeOK, TopicGood, NEW m, Good(m), topic' = With(topic, m)
    PROVE  IsABag(topic') /\ BagToSet(topic') \subseteq Stacks /\ TopicGood'
<1>1. IsABag(topic') /\ BagToSet(topic') = BagToSet(topic) \cup {m}
    BY WithBag DEF TypeOK
<1>2. \A x \in BagToSet(topic') : Good(x)
    BY <1>1 DEF TopicGood
<1> QED  BY <1>1, <1>2 DEF TopicGood, Good

\* Ending a handler, one way or the other.
LEMMA EndingType ==
    ASSUME SearchInv, NEW h \in Handlers, Ack(h) \/ Nack(h)
    PROVE  /\ HandlersOK' /\ handler' \in [Handlers -> HandlerType]
           /\ IsABag(topic') /\ BagToSet(topic') \subseteq Stacks /\ TopicGood'
           /\ redeliveries' \in 0..MaxRedeliveries
<1>1. HandlersOK' /\ handler' \in [Handlers -> HandlerType]
    BY IdleIsOK, OneHandler DEF Ack, Nack
<1>2. TypeOK /\ TopicGood /\ Good(handler[h].stack)
    BY DEF SearchInv, HandlersOK, HandlerOK
<1>3. topic' = topic \/ topic' = With(topic, handler[h].stack)
    BY DEF Ack, Nack, Returned
<1>4. IsABag(topic') /\ BagToSet(topic') \subseteq Stacks /\ TopicGood'
  <2>1. CASE topic' = topic
      BY <1>2, <2>1 DEF TypeOK, TopicGood
  <2>2. CASE topic' = With(topic, handler[h].stack)
      BY <1>2, <2>2, GoodMessage
  <2> QED  BY <1>3, <2>1, <2>2
<1>5. redeliveries' \in 0..MaxRedeliveries
  <2>1. redeliveries \in 0..MaxRedeliveries /\ MaxRedeliveries \in Nat
      BY <1>2, SolverAssumption DEF TypeOK
  <2>2. \/ redeliveries' = redeliveries
        \/ redeliveries < MaxRedeliveries /\ redeliveries' = redeliveries + 1
      BY DEF Ack, Nack
  <2> QED  BY <2>1, <2>2
<1> QED  BY <1>1, <1>4, <1>5

LEMMA FailType ==
    ASSUME TypeOK, NEW call, Fail(call)
    PROVE  failures' \in 0..MaxFailures
<1>1. failures \in 0..MaxFailures /\ MaxFailures \in Nat
    BY SolverAssumption DEF TypeOK
<1> QED  BY <1>1 DEF Fail

-----------------------------------------------------------------------------
(* What every step keeps of the types, the messages and the solution.      *)

\* The part of the invariant that says what is there, not what is missing.
Holds == TypeOK /\ HandlersOK /\ TopicGood /\ SolutionsAreReal

LEMMA StartHolds == SearchInv /\ StartSolving => Holds'
<1> SUFFICES ASSUME SearchInv, StartSolving PROVE Holds'
    OBVIOUS
<1> DEFINE e == [board |-> Puzzle, parallelBranches |-> 1]
           m == <<e>>
<1>1. e \in BoardAndWidth /\ e.board = Puzzle
    BY TreeAssumption, SolverAssumption DEF BoardAndWidth
<1> HIDE DEF e
<1>2. Good(m)
  <2>1. m \in Stacks /\ DOMAIN m = {1} /\ m[1] = e
      BY <1>1 DEF Stacks
  <2> HIDE DEF m
  <2>2. StackIsDisjoint(m)
      BY <2>1 DEF StackIsDisjoint
  <2>3. Reach(m) \subseteq Below[Puzzle]
      BY <1>1, <2>1, ReachMember
  <2> QED  BY <2>1, <2>2, <2>3 DEF Good
<1> HIDE DEF m
<1>3. topic' = With(topic, m)
    BY DEF StartSolving, m, e
<1>4. TypeOK'
    BY <1>2, <1>3, GoodMessage DEF SearchInv, TypeOK, StartSolving
<1>5. TopicGood'
    BY <1>2, <1>3, GoodMessage DEF SearchInv
<1>6. HandlersOK' /\ SolutionsAreReal'
    BY DEF SearchInv, HandlersOK, SolutionsAreReal, StartSolving
<1> QED  BY <1>4, <1>5, <1>6 DEF Holds

LEMMA ReceiveHolds ==
    SearchInv => \A h \in Handlers : Receive(h) => Holds'
<1> SUFFICES ASSUME SearchInv, NEW h \in Handlers, Receive(h) PROVE Holds'
    OBVIOUS
<1>1. PICK m \in BagToSet(topic) :
        /\ topic' = Without(topic, m)
        /\ handler' = IF m = <<>> THEN handler
                      ELSE [handler EXCEPT ![h].pc = "read", ![h].leased = TRUE,
                                           ![h].stack = m]
    BY DEF Receive
<1> DEFINE r == [Idle EXCEPT !.pc = "read", !.leased = TRUE, !.stack = m]
<1>2. Good(m) /\ m \in Stacks
    BY DEF SearchInv, TopicGood, Good
<1>3. handler[h] = Idle /\ handler \in [Handlers -> HandlerType] /\ HandlersOK
    BY DEF SearchInv, HandlersOK, HandlerOK, Receive, TypeOK
<1>4. HandlersOK' /\ handler' \in [Handlers -> HandlerType]
  <2>1. CASE m = <<>>
      BY <1>1, <1>3, <2>1 DEF HandlersOK
  <2>2. CASE m # <<>>
    <3>1. HandlerOK(r)
        BY <1>2, <2>2 DEF HandlerOK, HandlerType, Idle
    <3>2. handler' = [handler EXCEPT ![h] = r]
        BY <1>1, <1>3, <2>2
    <3> HIDE DEF r
    <3> QED  BY <3>1, <3>2, OneHandler
  <2> QED  BY <2>1, <2>2
<1>5. IsABag(topic') /\ BagToSet(topic') \subseteq BagToSet(topic)
    BY <1>1, WithoutBag DEF SearchInv, TypeOK
<1>6. TypeOK'
    BY <1>4, <1>5 DEF SearchInv, TypeOK, Receive
<1>7. TopicGood'
    BY <1>5 DEF SearchInv, TopicGood
<1>8. SolutionsAreReal'
    BY DEF SearchInv, SolutionsAreReal, Receive
<1> QED  BY <1>4, <1>6, <1>7, <1>8 DEF Holds

LEMMA GetCachedHolds ==
    SearchInv => \A h \in Handlers : GetCached(h) => Holds'
<1> SUFFICES ASSUME SearchInv, NEW h \in Handlers, GetCached(h) PROVE Holds'
    OBVIOUS
<1> DEFINE s == ServerOf[h]
<1>1. PICK answer \in {"unsolved", "solved", "failed"} :
        /\ cache' = [cache EXCEPT ![s] = answer]
        /\ \/ cache[s] = answer /\ UNCHANGED failures
           \/ cache[s] = "none" /\ answer = Stored /\ UNCHANGED failures
           \/ cache[s] = "none" /\ answer = "failed" /\ Fail("lookup")
        /\ AfterLookup(h, answer)
    BY DEF GetCached
<1>2. s \in Servers
    BY SolverAssumption
<1> HIDE DEF s
<1>3. TypeOK /\ TopicGood /\ SolutionsAreReal /\ HandlersOK
    BY DEF SearchInv
<1>4. cache' \in [Servers -> {"none", "unsolved", "solved", "failed"}]
    BY <1>1, <1>3 DEF TypeOK
<1>5. failures' \in 0..MaxFailures
    BY <1>1, <1>3, FailType DEF TypeOK
<1>6. SolutionsAreReal'
  <2>1. solution' = solution
      BY DEF GetCached
  <2>2. answer = "solved" => solution # NoBoard
      BY <1>1, <1>2, <1>3 DEF SolutionsAreReal, Stored
  <2> QED  BY <1>1, <1>2, <1>3, <2>1, <2>2 DEF SolutionsAreReal, TypeOK
<1>7. /\ HandlersOK' /\ handler' \in [Handlers -> HandlerType]
      /\ IsABag(topic') /\ BagToSet(topic') \subseteq Stacks /\ TopicGood'
      /\ redeliveries' \in 0..MaxRedeliveries
  <2>1. CASE Ack(h) \/ Nack(h)
      BY <2>1, EndingType
  <2>2. CASE Unsolved(h)
    <3> DEFINE r == [handler[h] EXCEPT !.pc = "solve"]
    <3>1. HandlerOK(handler[h]) /\ handler[h].pc = "read" /\ handler[h] \in HandlerType
        BY <1>3 DEF HandlersOK, HandlerOK, GetCached
    <3>2. HandlerOK(r)
        BY <3>1 DEF HandlerOK, HandlerType
    <3>3. handler' = [handler EXCEPT ![h] = r]
        BY <1>3, <2>2 DEF Unsolved, TypeOK
    <3> HIDE DEF r
    <3>4. topic' = topic /\ redeliveries' = redeliveries
        BY <2>2 DEF Unsolved
    <3> QED  BY <1>3, <3>2, <3>3, <3>4, OneHandler DEF TypeOK, TopicGood
  <2> QED  BY <1>1, <2>1, <2>2 DEF AfterLookup
<1>8. requested' \in BOOLEAN /\ solution' \in Boards \cup {NoBoard}
    BY <1>3 DEF TypeOK, GetCached
<1>9. TypeOK'
    BY <1>4, <1>5, <1>7, <1>8 DEF TypeOK
<1> QED  BY <1>6, <1>7, <1>9 DEF Holds

LEMMA FoundHolds ==
    ASSUME SearchInv, NEW h \in Handlers, handler[h].pc = "solve",
           NEW b \in Complete \cap Reach(handler[h].stack), Found(h, b)
    PROVE  HandlersOK' /\ handler' \in [Handlers -> HandlerType]
<1> DEFINE r == [handler[h] EXCEPT !.pc = "save", !.found = b]
<1>1. HandlerOK(handler[h]) /\ handler[h] \in HandlerType /\ b \in Boards
    BY TreeAssumption DEF SearchInv, HandlersOK, HandlerOK
<1>2. HandlerOK(r)
    BY <1>1 DEF HandlerOK, HandlerType
<1>3. handler' = [handler EXCEPT ![h] = r]
    BY DEF Found, SearchInv, TypeOK
<1> HIDE DEF r
<1> QED  BY <1>2, <1>3, OneHandler

LEMMA SolveHolds ==
    SearchInv => \A h \in Handlers : SolveInMemory(h) \/ Examine(h) => Holds'
<1> SUFFICES ASSUME SearchInv, NEW h \in Handlers, SolveInMemory(h) \/ Examine(h)
             PROVE  Holds'
    OBVIOUS
<1>1. TypeOK /\ TopicGood /\ SolutionsAreReal /\ HandlersOK
    BY DEF SearchInv
<1>2. UNCHANGED <<requested, solution, cache, failures>> /\ handler[h].pc = "solve"
    BY DEF SolveInMemory, Examine
<1>3. SolutionsAreReal'
    BY <1>1, <1>2 DEF SolutionsAreReal
<1>4. HandlerOK(handler[h]) /\ handler[h].stack # <<>> /\ handler[h] \in HandlerType
      /\ Good(handler[h].stack)
    BY <1>1, <1>2 DEF HandlersOK, HandlerOK
<1>5. /\ HandlersOK' /\ handler' \in [Handlers -> HandlerType]
      /\ IsABag(topic') /\ BagToSet(topic') \subseteq Stacks /\ TopicGood'
      /\ redeliveries' \in 0..MaxRedeliveries
  <2>1. CASE Ack(h)
      BY <2>1, EndingType
  <2>2. CASE \E b \in Complete \cap Reach(handler[h].stack) : Found(h, b)
      BY <1>1, <1>2, <2>2, FoundHolds DEF Found, TypeOK, TopicGood
  <2>3. CASE /\ handler' = [handler EXCEPT ![h].pc = "publish",
                                           ![h].outbox = NextStacks(handler[h].stack)]
             /\ UNCHANGED <<topic, redeliveries>>
    <3> DEFINE r == [handler[h] EXCEPT !.pc = "publish",
                                       !.outbox = NextStacks(handler[h].stack)]
    <3>1. \A m \in NextStacks(handler[h].stack) :
            Good(m) /\ Strictly(m, handler[h].stack) /\ m \in Stacks
        BY <1>4, AnswersAreGood DEF Good
    <3>2. r \in HandlerType
        BY <1>4, <3>1 DEF HandlerType
    <3>3. HandlerOK(r)
        BY <1>2, <1>4, <3>1, <3>2 DEF HandlerOK, HandlerType
    <3>4. handler' = [handler EXCEPT ![h] = r]
        BY <1>1, <2>3 DEF TypeOK
    <3> HIDE DEF r
    <3> QED  BY <1>1, <2>3, <3>3, <3>4, OneHandler DEF TypeOK, TopicGood
  <2>4. Top(handler[h].stack).board \in Reach(handler[h].stack)
    <3>1. handler[h].stack \in Stacks
        BY <1>4 DEF Good
    <3>2. Top(handler[h].stack).board \in Boards
        BY <1>4, <3>1, TopAndPopped DEF BoardAndWidth
    <3> QED  BY <1>4, <3>1, <3>2, ReachSplit, TreeFacts
  <2> QED  BY <2>1, <2>2, <2>3, <2>4 DEF SolveInMemory, Examine, IsSolved
<1>6. TypeOK'
    BY <1>1, <1>2, <1>5 DEF TypeOK
<1> QED  BY <1>3, <1>5, <1>6 DEF Holds

LEMMA SettingsFailHolds ==
    SearchInv => \A h \in Handlers : SettingsFail(h) => Holds'
<1> SUFFICES ASSUME SearchInv, NEW h \in Handlers, SettingsFail(h) PROVE Holds'
    OBVIOUS
<1>1. /\ HandlersOK' /\ handler' \in [Handlers -> HandlerType]
      /\ IsABag(topic') /\ BagToSet(topic') \subseteq Stacks /\ TopicGood'
      /\ redeliveries' \in 0..MaxRedeliveries
    BY EndingType DEF SettingsFail
<1>2. failures' \in 0..MaxFailures
    BY FailType DEF SettingsFail, SearchInv
<1>3. TypeOK' /\ SolutionsAreReal'
    BY <1>1, <1>2 DEF SearchInv, TypeOK, SolutionsAreReal, SettingsFail
<1> QED  BY <1>1, <1>3 DEF Holds

LEMMA SaveHolds ==
    SearchInv => \A h \in Handlers : Save(h) \/ SaveFails(h) => Holds'
<1> SUFFICES ASSUME SearchInv, NEW h \in Handlers, Save(h) \/ SaveFails(h)
             PROVE  Holds'
    OBVIOUS
<1>1. TypeOK /\ SolutionsAreReal
    BY DEF SearchInv
<1>2. handler[h].found \in Complete \cap Below[Puzzle]
    BY DEF SearchInv, HandlersOK, HandlerOK, Good, Save, SaveFails
<1>3. solution' = solution \/ solution' = handler[h].found
    BY DEF Save, SaveFails
<1>4. SolutionsAreReal' /\ solution' \in Boards \cup {NoBoard}
    BY <1>1, <1>2, <1>3, TreeAssumption DEF SolutionsAreReal, TypeOK, Save, SaveFails
<1>5. /\ HandlersOK' /\ handler' \in [Handlers -> HandlerType]
      /\ IsABag(topic') /\ BagToSet(topic') \subseteq Stacks /\ TopicGood'
      /\ redeliveries' \in 0..MaxRedeliveries
    BY EndingType DEF Save, SaveFails
<1>6. failures' \in 0..MaxFailures
    BY <1>1, FailType DEF Save, SaveFails, TypeOK
<1>7. TypeOK'
    BY <1>1, <1>4, <1>5, <1>6 DEF TypeOK, Save, SaveFails
<1> QED  BY <1>4, <1>5, <1>7 DEF Holds

LEMMA PublishOneHolds ==
    SearchInv => \A h \in Handlers : PublishOne(h) => Holds'
<1> SUFFICES ASSUME SearchInv, NEW h \in Handlers, PublishOne(h) PROVE Holds'
    OBVIOUS
<1>1. PICK m \in handler[h].outbox :
        /\ topic' = With(topic, m)
        /\ handler' = [handler EXCEPT ![h].outbox = @ \ {m}]
    BY DEF PublishOne
<1>2. TypeOK /\ TopicGood /\ SolutionsAreReal /\ HandlerOK(handler[h])
    BY DEF SearchInv, HandlersOK
<1>3. IsABag(topic') /\ BagToSet(topic') \subseteq Stacks /\ TopicGood'
    BY <1>1, <1>2, GoodMessage DEF HandlerOK
<1>4. HandlersOK' /\ handler' \in [Handlers -> HandlerType]
  <2> DEFINE r == [handler[h] EXCEPT !.outbox = @ \ {m}]
  <2>1. handler[h] \in HandlerType
      BY <1>2 DEF HandlerOK
  <2>2. r \in HandlerType
      BY <2>1 DEF HandlerType
  <2>3. /\ r.pc = handler[h].pc /\ r.stack = handler[h].stack
        /\ r.found = handler[h].found /\ r.outbox = handler[h].outbox \ {m}
      BY <2>1 DEF HandlerType
  <2>4. handler[h].pc = "publish"
      BY <1>2 DEF HandlerOK
  <2>5. handler' = [handler EXCEPT ![h] = r]
      BY <1>1, <1>2 DEF TypeOK
  <2> HIDE DEF r
  <2>6. HandlerOK(r)
      BY <1>2, <2>2, <2>3, <2>4 DEF HandlerOK
  <2> QED  BY <2>5, <2>6, OneHandler
<1>5. TypeOK' /\ SolutionsAreReal'
    BY <1>2, <1>3, <1>4 DEF TypeOK, SolutionsAreReal, PublishOne
<1> QED  BY <1>3, <1>4, <1>5 DEF Holds

\* What comes back when a handler gives up, or its lease ends.
LEMMA ReturnedBag ==
    ASSUME SearchInv, NEW h \in Handlers
    PROVE  /\ IsABag(Returned(h))
           /\ BagToSet(Returned(h)) = BagToSet(topic) \cup
                (IF handler[h].leased THEN {handler[h].stack} ELSE {})
           /\ \A m \in BagToSet(Returned(h)) : Good(m)
<1>1. IsABag(topic) /\ Good(handler[h].stack) /\ \A m \in BagToSet(topic) : Good(m)
    BY DEF SearchInv, TypeOK, TopicGood, HandlersOK, HandlerOK
<1>2. IsABag(With(topic, handler[h].stack))
      /\ BagToSet(With(topic, handler[h].stack)) = BagToSet(topic) \cup {handler[h].stack}
    BY <1>1, WithBag
<1> QED  BY <1>1, <1>2 DEF Returned

LEMMA PublishFailsHolds ==
    SearchInv => \A h \in Handlers : PublishFails(h) => Holds'
<1> SUFFICES ASSUME SearchInv, NEW h \in Handlers, PublishFails(h) PROVE Holds'
    OBVIOUS
<1>1. PICK sent \in SUBSET handler[h].outbox :
        topic' = Returned(h) (+) SetToBag(sent)
    BY DEF PublishFails
<1>2. TypeOK /\ SolutionsAreReal /\ HandlerOK(handler[h])
    BY DEF SearchInv, HandlersOK
<1>3. IsABag(topic') /\ BagToSet(topic') = BagToSet(Returned(h)) \cup sent
    BY <1>1, ReturnedBag, SetBag, UnionBag
<1>4. \A m \in BagToSet(topic') : Good(m)
    BY <1>2, <1>3, ReturnedBag DEF HandlerOK
<1>5. HandlersOK' /\ handler' \in [Handlers -> HandlerType]
    BY IdleIsOK, OneHandler DEF PublishFails
<1>6. failures' \in 0..MaxFailures
    BY <1>2, FailType DEF PublishFails
<1>7. TypeOK' /\ SolutionsAreReal'
    BY <1>2, <1>3, <1>4, <1>5, <1>6 DEF TypeOK, SolutionsAreReal, PublishFails, Good
<1> QED  BY <1>4, <1>5, <1>7 DEF Holds, TopicGood

LEMMA AllPublishedHolds ==
    SearchInv => \A h \in Handlers : AllPublished(h) => Holds'
<1> SUFFICES ASSUME SearchInv, NEW h \in Handlers, AllPublished(h) PROVE Holds'
    OBVIOUS
<1>1. /\ HandlersOK' /\ handler' \in [Handlers -> HandlerType]
      /\ IsABag(topic') /\ BagToSet(topic') \subseteq Stacks /\ TopicGood'
      /\ redeliveries' \in 0..MaxRedeliveries
    BY EndingType DEF AllPublished
<1>2. TypeOK' /\ SolutionsAreReal'
    BY <1>1 DEF SearchInv, TypeOK, SolutionsAreReal, AllPublished
<1> QED  BY <1>1, <1>2 DEF Holds

LEMMA RedeliverHolds ==
    SearchInv => \A h \in Handlers : Redeliver(h) => Holds'
<1> SUFFICES ASSUME SearchInv, NEW h \in Handlers, Redeliver(h) PROVE Holds'
    OBVIOUS
<1>1. TypeOK /\ SolutionsAreReal /\ HandlerOK(handler[h]) /\ handler[h] \in HandlerType
    BY DEF SearchInv, HandlersOK, HandlerOK
<1>2. IsABag(topic') /\ \A m \in BagToSet(topic') : Good(m)
    BY ReturnedBag DEF Redeliver
<1>3. HandlersOK' /\ handler' \in [Handlers -> HandlerType]
  <2> DEFINE r == [handler[h] EXCEPT !.leased = FALSE]
  <2>1. HandlerOK(r)
    <3>1. handler[h].pc # "idle"
      <4>1. Idle.leased = FALSE
          BY DEF Idle
      <4>2. handler[h].leased
          BY DEF Redeliver
      <4> QED  BY <1>1, <4>1, <4>2, Zenon DEF HandlerOK
    <3>2. r \in HandlerType
        BY <1>1 DEF HandlerType
    <3>3. /\ r.pc = handler[h].pc /\ r.stack = handler[h].stack
          /\ r.found = handler[h].found /\ r.outbox = handler[h].outbox
        BY <1>1 DEF HandlerType
    <3> HIDE DEF r
    <3> QED  BY <1>1, <3>1, <3>2, <3>3 DEF HandlerOK
  <2>2. handler' = [handler EXCEPT ![h] = r]
      BY <1>1 DEF TypeOK, Redeliver
  <2> HIDE DEF r
  <2> QED  BY <2>1, <2>2, OneHandler
<1>4. redeliveries' \in 0..MaxRedeliveries
  <2>1. redeliveries \in 0..MaxRedeliveries /\ MaxRedeliveries \in Nat
      BY <1>1, SolverAssumption DEF TypeOK
  <2> QED  BY <2>1 DEF Redeliver
<1>5. TypeOK' /\ SolutionsAreReal'
    BY <1>1, <1>2, <1>3, <1>4 DEF TypeOK, SolutionsAreReal, Redeliver, Good
<1> QED  BY <1>2, <1>3, <1>5 DEF Holds, TopicGood

\* The messages a dead server held.
LeasedBy(s) == {h \in Handlers : ServerOf[h] = s /\ handler[h].leased}

LEMMA CrashBag ==
    ASSUME SearchInv, NEW s \in Servers, Crash(s)
    PROVE  /\ IsABag(topic')
           /\ BagToSet(topic') =
                BagToSet(topic) \cup {handler[h].stack : h \in LeasedBy(s)}
<1> DEFINE messages == {handler[h].stack : h \in LeasedBy(s)}
           holders(m) == {h \in LeasedBy(s) : handler[h].stack = m}
           back == [m \in messages |-> Cardinality(holders(m))]
<1>1. topic' = topic (+) back
    BY DEF Crash, LeasedBy
<1>2. ASSUME NEW m \in messages PROVE Cardinality(holders(m)) \in {n \in Nat : n > 0}
  <2>1. holders(m) \subseteq Handlers /\ holders(m) # {}
      BY <1>2 DEF LeasedBy
  <2> HIDE DEF holders
  <2>2. IsFiniteSet(holders(m))
      BY <2>1, SolverAssumption, FS_Subset
  <2>3. Cardinality(holders(m)) \in Nat /\ Cardinality(holders(m)) # 0
      BY <2>1, <2>2, FS_CardinalityType, FS_EmptySet
  <2> QED  BY <2>3
<1> HIDE DEF holders, messages
<1>3. IsABag(back) /\ BagToSet(back) = messages
    BY <1>2 DEF IsABag, BagToSet
<1>4. IsABag(topic') /\ BagToSet(topic') = BagToSet(topic) \cup messages
    BY <1>1, <1>3, UnionBag DEF SearchInv, TypeOK
<1> QED  BY <1>4 DEF messages

LEMMA CrashHolds == SearchInv => \A s \in Servers : Crash(s) => Holds'
<1> SUFFICES ASSUME SearchInv, NEW s \in Servers, Crash(s) PROVE Holds'
    OBVIOUS
<1>1. TypeOK /\ TopicGood /\ SolutionsAreReal /\ HandlersOK
    BY DEF SearchInv
<1>2. \A h \in Handlers : Good(handler[h].stack)
    BY <1>1 DEF HandlersOK, HandlerOK
<1>3. IsABag(topic') /\ \A m \in BagToSet(topic') : Good(m)
    BY <1>1, <1>2, CrashBag DEF TopicGood, LeasedBy
<1>4. handler' = [h \in Handlers |-> IF ServerOf[h] = s THEN Idle ELSE handler[h]]
    BY DEF Crash
<1>5. \A h \in Handlers : HandlerOK(handler'[h]) /\ handler'[h] \in HandlerType
    BY <1>1, <1>4, IdleIsOK DEF HandlersOK, HandlerOK
<1>6. handler' \in [Handlers -> HandlerType]
    BY <1>4, <1>5
<1>7. failures' \in 0..MaxFailures
  <2>1. failures \in 0..MaxFailures /\ MaxFailures \in Nat
      BY <1>1, SolverAssumption DEF TypeOK
  <2> QED  BY <2>1 DEF Crash
<1>8. cache' = [cache EXCEPT ![s] = "none"] /\ UNCHANGED <<requested, solution, redeliveries>>
    BY DEF Crash
<1>9. TypeOK'
    BY <1>1, <1>3, <1>6, <1>7, <1>8 DEF TypeOK, Good
<1>10. SolutionsAreReal'
    BY <1>1, <1>8 DEF SolutionsAreReal, TypeOK
<1> QED  BY <1>3, <1>5, <1>9, <1>10 DEF Holds, HandlersOK, TopicGood

LEMMA ExpireHolds == SearchInv => \A s \in Servers : Expire(s) => Holds'
BY DEF SearchInv, Expire, TypeOK, HandlersOK, TopicGood, SolutionsAreReal, Holds

LEMMA NextHolds == SearchInv /\ [Next]_vars => Holds'
<1> SUFFICES ASSUME SearchInv, [Next]_vars PROVE Holds'
    OBVIOUS
<1>1. CASE StartSolving
    BY <1>1, StartHolds
<1>2. CASE \E h \in Handlers : Receive(h)
    BY <1>2, ReceiveHolds
<1>3. CASE \E h \in Handlers : ProcessOneMessage(h)
    BY <1>3, GetCachedHolds, SettingsFailHolds, SolveHolds, SaveHolds, PublishOneHolds,
       PublishFailsHolds, AllPublishedHolds DEF ProcessOneMessage
<1>4. CASE \E h \in Handlers : Redeliver(h)
    BY <1>4, RedeliverHolds
<1>5. CASE \E s \in Servers : Crash(s) \/ Expire(s)
    BY <1>5, CrashHolds, ExpireHolds
<1>6. CASE UNCHANGED vars
    BY <1>6 DEF vars, SearchInv, TypeOK, HandlersOK, TopicGood, SolutionsAreReal, Holds
<1> QED  BY <1>1, <1>2, <1>3, <1>4, <1>5, <1>6 DEF Next

-----------------------------------------------------------------------------
(* Nothing is lost.                                                        *)

LEMMA OutstandingIs ==
    /\ \A m : m \in Outstanding <=>
         \/ m \in BagToSet(topic)
         \/ \E h \in Handlers : handler[h].leased /\ handler[h].stack = m
    /\ \A m : m \in Outstanding' <=>
         \/ m \in BagToSet(topic')
         \/ \E h \in Handlers : handler'[h].leased /\ handler'[h].stack = m
BY DEF Outstanding, Leased

LEMMA StrictlyTrans ==
    ASSUME NEW a, NEW b, NEW c, Strictly(a, b), Strictly(b, c)
    PROVE  Strictly(a, c)
BY DEF Strictly

\* A handler goes on publishing: what left its outbox is outstanding.
Kept(h) ==
    /\ handler[h].leased /\ handler[h].pc = "publish"
    /\ handler'[h].stack = handler[h].stack
    /\ \A m \in handler[h].outbox :
         m \in handler'[h].outbox \/ m \in Outstanding'

\* A message may go if what it leads to is below messages that stay.
Replaced(m) ==
    \A g \in Reach(m) \cap Complete :
        \E n \in Outstanding' : g \in Reach(n) /\ Strictly(n, m)

LEMMA StillCovered ==
    ASSUME SearchInv, requested' = requested,
           solution = NoBoard, solution' = NoBoard,
           \A m \in Outstanding : m \in Outstanding' \/ Replaced(m),
           \A h \in Handlers : Answered(h)' \/ Kept(h)
    PROVE  NothingLost' /\ AnswersPublished'
<1>1. NothingLost'
  <2> SUFFICES ASSUME requested', NEW g \in Below[Puzzle] \cap Complete
               PROVE  \E m \in Outstanding' : g \in Reach(m)
      BY DEF NothingLost
  <2>1. PICK m \in Outstanding : g \in Reach(m)
      BY DEF SearchInv, NothingLost
  <2> QED  BY <2>1 DEF Replaced
<1>2. ASSUME NEW h \in Handlers, Kept(h), handler'[h].leased, handler'[h].pc = "publish"
      PROVE  Answered(h)'
  <2> DEFINE s == handler[h].stack
  <2>1. Answered(h) /\ HandlerOK(handler[h])
      BY DEF SearchInv, AnswersPublished, HandlersOK
  <2>2. ASSUME NEW g \in Reach(s) \cap Complete
        PROVE  \/ \E m \in handler'[h].outbox : g \in Reach(m)
               \/ \E m \in Outstanding' : g \in Reach(m) /\ Strictly(m, s)
    <3>1. CASE \E m \in handler[h].outbox : g \in Reach(m)
      <4>1. PICK m \in handler[h].outbox : g \in Reach(m)
          BY <3>1
      <4>2. Strictly(m, s)
          BY <2>1 DEF HandlerOK
      <4> QED  BY <1>2, <4>1, <4>2 DEF Kept
    <3>2. CASE \E m \in Outstanding : g \in Reach(m) /\ Strictly(m, s)
      <4>1. PICK m \in Outstanding : g \in Reach(m) /\ Strictly(m, s)
          BY <3>2
      <4>2. CASE m \in Outstanding'
          BY <4>1, <4>2
      <4>3. CASE Replaced(m)
        <5>1. PICK n \in Outstanding' : g \in Reach(n) /\ Strictly(n, m)
            BY <4>1, <4>3 DEF Replaced
        <5> QED  BY <4>1, <5>1, StrictlyTrans
      <4> QED  BY <4>2, <4>3
    <3>3. handler[h].leased /\ handler[h].pc = "publish"
        BY <1>2 DEF Kept
    <3> QED  BY <2>1, <2>2, <3>1, <3>2, <3>3 DEF Answered
  <2>3. handler'[h].stack = s
      BY <1>2 DEF Kept
  <2> QED  BY <2>2, <2>3 DEF Answered
<1>3. ASSUME NEW h \in Handlers, ~(handler'[h].leased /\ handler'[h].pc = "publish")
      PROVE  Answered(h)'
    BY <1>3 DEF Answered
<1> QED  BY <1>1, <1>2, <1>3 DEF AnswersPublished

\* Handlers that do not change go on as before.
LEMMA SameHandler ==
    ASSUME NEW h \in Handlers, handler'[h] = handler[h]
    PROVE  Answered(h)' \/ Kept(h)
BY DEF Answered, Kept

LEMMA NotPublishing ==
    ASSUME NEW h \in Handlers, handler'[h].pc # "publish" \/ ~handler'[h].leased
    PROVE  Answered(h)'
BY DEF Answered

\* Acknowledging is safe when smaller messages have taken over; giving a
\* message back is always safe.
LEMMA EndingCovers ==
    ASSUME SearchInv, NEW h \in Handlers, Ack(h) \/ Nack(h),
           requested' = requested, solution = NoBoard, solution' = NoBoard,
           ~Nack(h) /\ handler[h].leased =>
             \A g \in Reach(handler[h].stack) \cap Complete :
               \E n \in Outstanding : g \in Reach(n) /\ Strictly(n, handler[h].stack)
    PROVE  NothingLost' /\ AnswersPublished'
<1> DEFINE s == handler[h].stack
<1>1. handler \in [Handlers -> HandlerType] /\ IsABag(topic)
    BY DEF SearchInv, TypeOK
<1>2. handler' = [handler EXCEPT ![h] = Idle]
    BY DEF Ack, Nack
<1>3. handler'[h].pc = "idle" /\ \A k \in Handlers : k # h => handler'[k] = handler[k]
    BY <1>1, <1>2 DEF Idle
<1>4. BagToSet(topic) \subseteq BagToSet(topic')
  <2>1. topic' = topic \/ topic' = With(topic, s)
      BY DEF Ack, Nack, Returned
  <2> QED  BY <1>1, <2>1, WithBag
<1>5. \A m \in Outstanding : m # s \/ ~handler[h].leased => m \in Outstanding'
    BY <1>3, <1>4, OutstandingIs
<1>6. Nack(h) /\ handler[h].leased => s \in Outstanding'
  <2> SUFFICES ASSUME Nack(h), handler[h].leased PROVE s \in Outstanding'
      OBVIOUS
  <2>1. s \in BagToSet(topic')
      BY <1>1, WithBag DEF Nack, Returned
  <2> QED  BY <2>1, OutstandingIs
<1>7. ~Nack(h) /\ handler[h].leased => Replaced(s)
  <2> SUFFICES ASSUME ~Nack(h), handler[h].leased,
                      NEW g \in Reach(s) \cap Complete
               PROVE  \E n \in Outstanding' : g \in Reach(n) /\ Strictly(n, s)
      BY DEF Replaced
  <2>1. PICK n \in Outstanding : g \in Reach(n) /\ Strictly(n, s)
      OBVIOUS
  <2>2. n # s
      BY <2>1 DEF Strictly
  <2> QED  BY <1>5, <2>1, <2>2
<1>8. \A m \in Outstanding : m \in Outstanding' \/ Replaced(m)
    BY <1>5, <1>6, <1>7
<1>9. \A k \in Handlers : Answered(k)' \/ Kept(k)
  <2> SUFFICES ASSUME NEW k \in Handlers PROVE Answered(k)' \/ Kept(k)
      OBVIOUS
  <2>1. CASE k = h
      BY <1>3, <2>1, NotPublishing
  <2>2. CASE k # h
      BY <1>3, <2>2, SameHandler
  <2> QED  BY <2>1, <2>2
<1> QED  BY <1>8, <1>9, StillCovered

\* The missing half of the invariant.
Covers == NothingLost /\ AnswersPublished

LEMMA SolvedCovers ==
    ASSUME solution' # NoBoard
    PROVE  Covers'
BY DEF Covers, NothingLost, AnswersPublished

LEMMA StartCovers == SearchInv /\ StartSolving /\ solution = NoBoard => Covers'
<1> SUFFICES ASSUME SearchInv, StartSolving, solution = NoBoard PROVE Covers'
    OBVIOUS
<1> DEFINE e == [board |-> Puzzle, parallelBranches |-> 1]
           m == <<e>>
<1>1. BagToSet(topic') = BagToSet(topic) \cup {m}
    BY WithBag DEF SearchInv, TypeOK, StartSolving
<1>2. Reach(m) = Below[Puzzle]
  <2>1. DOMAIN m = {1} /\ m[1] = e /\ e.board = Puzzle
      OBVIOUS
  <2> HIDE DEF m, e
  <2>2. \A b : b \in Reach(m) <=> b \in Below[Puzzle]
      BY <2>1, ReachMember
  <2> QED  BY <2>2
<1> HIDE DEF m
<1>3. m \in Outstanding' /\ \A x \in Outstanding : x \in Outstanding'
    BY <1>1, OutstandingIs DEF StartSolving
<1>4. NothingLost'
    BY <1>2, <1>3 DEF NothingLost
<1>5. AnswersPublished'
  <2> SUFFICES ASSUME NEW h \in Handlers PROVE Answered(h)'
      BY DEF AnswersPublished
  <2>1. Answered(h) /\ handler' = handler
      BY DEF SearchInv, AnswersPublished, StartSolving
  <2> QED  BY <1>3, <2>1 DEF Answered
<1> QED  BY <1>4, <1>5 DEF Covers

LEMMA ReceiveCovers ==
    SearchInv /\ solution = NoBoard => \A h \in Handlers : Receive(h) => Covers'
<1> SUFFICES ASSUME SearchInv, solution = NoBoard, NEW h \in Handlers, Receive(h)
             PROVE  Covers'
    OBVIOUS
<1>1. PICK m \in BagToSet(topic) :
        /\ topic' = Without(topic, m)
        /\ handler' = IF m = <<>> THEN handler
                      ELSE [handler EXCEPT ![h].pc = "read", ![h].leased = TRUE,
                                           ![h].stack = m]
    BY DEF Receive
<1>2. handler[h] = Idle /\ handler \in [Handlers -> HandlerType] /\ IsABag(topic)
    BY DEF SearchInv, HandlersOK, HandlerOK, Receive, TypeOK
<1>3. \A k \in Handlers : k # h => handler'[k] = handler[k]
    BY <1>1, <1>2
<1>4. m # <<>> => /\ handler'[h].leased /\ handler'[h].stack = m
                  /\ handler'[h].pc = "read"
  <2>1. m # <<>> => handler'[h] = [Idle EXCEPT !.pc = "read", !.leased = TRUE, !.stack = m]
      BY <1>1, <1>2
  <2> QED  BY <2>1 DEF Idle
<1>5. m = <<>> => handler'[h] = handler[h] /\ Replaced(m)
    BY <1>1, EmptyIsGood DEF Replaced
<1>6. BagToSet(topic) \ {m} \subseteq BagToSet(topic')
    BY <1>1, <1>2, WithoutBag
<1>7. ~handler[h].leased
    BY <1>2 DEF Idle
<1>8. \A x \in Outstanding : x \in Outstanding' \/ Replaced(x)
  <2> SUFFICES ASSUME NEW x \in Outstanding, x # <<>> \/ m # <<>>
               PROVE  x \in Outstanding'
      BY <1>5
  <2>1. CASE x \in BagToSet(topic) /\ x # m
      BY <1>6, <2>1, OutstandingIs
  <2>2. CASE x = m
      BY <1>4, <2>2, OutstandingIs
  <2>3. CASE \E k \in Handlers : handler[k].leased /\ handler[k].stack = x
      BY <1>3, <1>7, <2>3, OutstandingIs
  <2> QED  BY <2>1, <2>2, <2>3, OutstandingIs
<1>9. \A k \in Handlers : Answered(k)' \/ Kept(k)
  <2> SUFFICES ASSUME NEW k \in Handlers PROVE Answered(k)' \/ Kept(k)
      OBVIOUS
  <2>1. CASE k = h /\ m # <<>>
      BY <1>4, <2>1, NotPublishing
  <2>2. CASE k # h \/ m = <<>>
      BY <1>3, <1>5, <2>2, SameHandler
  <2> QED  BY <2>1, <2>2
<1> QED  BY <1>8, <1>9, StillCovered DEF Receive, Covers

\* A handler changes while its message stays what it is.
LEMMA BusyCovers ==
    ASSUME SearchInv, solution = NoBoard, solution' = NoBoard,
           requested' = requested, NEW h \in Handlers,
           handler'[h].leased = handler[h].leased,
           handler'[h].stack = handler[h].stack,
           \A k \in Handlers : k # h => handler'[k] = handler[k],
           BagToSet(topic) \subseteq BagToSet(topic'),
           Answered(h)' \/ Kept(h)
    PROVE  Covers'
<1>1. \A m \in Outstanding : m \in Outstanding'
    BY OutstandingIs
<1>2. \A k \in Handlers : Answered(k)' \/ Kept(k)
    BY SameHandler
<1> QED  BY <1>1, <1>2, StillCovered DEF Covers

LEMMA GetCachedCovers ==
    SearchInv /\ solution = NoBoard => \A h \in Handlers : GetCached(h) => Covers'
<1> SUFFICES ASSUME SearchInv, solution = NoBoard, NEW h \in Handlers, GetCached(h)
             PROVE  Covers'
    OBVIOUS
<1>1. requested' = requested /\ solution' = NoBoard
    BY DEF GetCached
<1>2. PICK answer \in {"unsolved", "solved", "failed"} :
        /\ answer = "solved" => cache[ServerOf[h]] = "solved" \/ Stored = "solved"
        /\ AfterLookup(h, answer)
    BY DEF GetCached
<1>3. answer # "solved"
    BY <1>2, SolverAssumption DEF SearchInv, SolutionsAreReal, Stored
<1>4. Nack(h) \/ Unsolved(h)
    BY <1>2, <1>3 DEF AfterLookup
<1>5. CASE Nack(h)
    BY <1>1, <1>5, EndingCovers DEF Covers
<1>6. CASE Unsolved(h)
  <2>1. handler \in [Handlers -> HandlerType]
      BY DEF SearchInv, TypeOK
  <2>2. /\ handler'[h].leased = handler[h].leased
        /\ handler'[h].stack = handler[h].stack
        /\ handler'[h].pc = "solve"
        /\ \A k \in Handlers : k # h => handler'[k] = handler[k]
      BY <1>6, <2>1 DEF Unsolved, HandlerType
  <2>3. Answered(h)'
      BY <2>2, NotPublishing
  <2>4. BagToSet(topic) \subseteq BagToSet(topic')
      BY <1>6 DEF Unsolved
  <2> QED  BY <1>1, <2>2, <2>3, <2>4, BusyCovers
<1> QED  BY <1>4, <1>5, <1>6

LEMMA FoundCovers ==
    ASSUME SearchInv, NEW h \in Handlers, NEW b, Found(h, b), solution = NoBoard,
           UNCHANGED <<requested, solution>>
    PROVE  Covers'
<1>1. handler \in [Handlers -> HandlerType]
    BY DEF SearchInv, TypeOK
<1>2. /\ handler'[h].leased = handler[h].leased
      /\ handler'[h].stack = handler[h].stack
      /\ handler'[h].pc = "save"
      /\ \A k \in Handlers : k # h => handler'[k] = handler[k]
    BY <1>1 DEF Found, HandlerType
<1>3. Answered(h)'
    BY <1>2, NotPublishing
<1>4. BagToSet(topic) \subseteq BagToSet(topic')
    BY DEF Found
<1> QED  BY <1>2, <1>3, <1>4, BusyCovers

LEMMA SolveInMemoryCovers ==
    SearchInv /\ solution = NoBoard => \A h \in Handlers : SolveInMemory(h) => Covers'
<1> SUFFICES ASSUME SearchInv, solution = NoBoard, NEW h \in Handlers, SolveInMemory(h)
             PROVE  Covers'
    OBVIOUS
<1>1. UNCHANGED <<requested, solution>>
    BY DEF SolveInMemory
<1>2. CASE Reach(handler[h].stack) \cap Complete = {} /\ Ack(h)
    BY <1>1, <1>2, EndingCovers DEF Covers
<1>3. CASE \E b \in Reach(handler[h].stack) \cap Complete : Found(h, b)
    BY <1>1, <1>3, FoundCovers
<1> QED  BY <1>2, <1>3 DEF SolveInMemory

LEMMA ExamineCovers ==
    SearchInv /\ solution = NoBoard => \A h \in Handlers : Examine(h) => Covers'
<1> SUFFICES ASSUME SearchInv, solution = NoBoard, NEW h \in Handlers, Examine(h)
             PROVE  Covers'
    OBVIOUS
<1> DEFINE s == handler[h].stack
<1>1. UNCHANGED <<requested, solution>>
    BY DEF Examine
<1>2. CASE Found(h, Top(s).board)
    BY <1>1, <1>2, FoundCovers
<1>3. CASE /\ Top(s).board \notin Complete
           /\ handler' = [handler EXCEPT ![h].pc = "publish", ![h].outbox = NextStacks(s)]
           /\ UNCHANGED <<topic, redeliveries>>
  <2>1. handler \in [Handlers -> HandlerType]
      BY DEF SearchInv, TypeOK
  <2>2. /\ handler'[h].leased = handler[h].leased
        /\ handler'[h].stack = s
        /\ handler'[h].outbox = NextStacks(s)
        /\ \A k \in Handlers : k # h => handler'[k] = handler[k]
      BY <1>3, <2>1 DEF HandlerType
  <2>3. Good(s) /\ s # <<>>
      BY DEF SearchInv, HandlersOK, HandlerOK, Examine
  <2>4. \A g \in Reach(s) \cap Complete : \E m \in NextStacks(s) : g \in Reach(m)
      BY <1>3, <2>3, AnswersAreGood
  <2>5. Answered(h)'
      BY <2>2, <2>4 DEF Answered
  <2>6. BagToSet(topic) \subseteq BagToSet(topic')
      BY <1>3
  <2> QED  BY <1>1, <2>2, <2>5, <2>6, BusyCovers
<1> QED  BY <1>2, <1>3 DEF Examine, IsSolved

LEMMA SettingsFailCovers ==
    SearchInv /\ solution = NoBoard => \A h \in Handlers : SettingsFail(h) => Covers'
BY EndingCovers DEF SettingsFail, Covers

LEMMA SaveCovers ==
    SearchInv /\ solution = NoBoard =>
        \A h \in Handlers : Save(h) \/ SaveFails(h) => Covers'
<1> SUFFICES ASSUME SearchInv, solution = NoBoard, NEW h \in Handlers,
                    Save(h) \/ SaveFails(h), solution' = NoBoard
             PROVE  Covers'
    BY SolvedCovers
<1>1. ~Save(h)
    BY TreeAssumption DEF Save, SearchInv, HandlersOK, HandlerOK
<1>2. Nack(h) /\ requested' = requested
    BY <1>1 DEF SaveFails
<1> QED  BY <1>2, EndingCovers DEF Covers

LEMMA PublishOneCovers ==
    SearchInv /\ solution = NoBoard => \A h \in Handlers : PublishOne(h) => Covers'
<1> SUFFICES ASSUME SearchInv, solution = NoBoard, NEW h \in Handlers, PublishOne(h)
             PROVE  Covers'
    OBVIOUS
<1>1. PICK m \in handler[h].outbox :
        /\ topic' = With(topic, m)
        /\ handler' = [handler EXCEPT ![h].outbox = @ \ {m}]
    BY DEF PublishOne
<1>2. handler \in [Handlers -> HandlerType] /\ IsABag(topic) /\ HandlerOK(handler[h])
    BY DEF SearchInv, TypeOK, HandlersOK
<1>3. /\ handler'[h].leased = handler[h].leased
      /\ handler'[h].stack = handler[h].stack
      /\ handler'[h].pc = handler[h].pc
      /\ handler'[h].outbox = handler[h].outbox \ {m}
      /\ \A k \in Handlers : k # h => handler'[k] = handler[k]
    BY <1>1, <1>2 DEF HandlerType
<1>4. BagToSet(topic') = BagToSet(topic) \cup {m}
    BY <1>1, <1>2, WithBag
<1>5. m \in Outstanding'
    BY <1>4, OutstandingIs
<1>6. handler[h].pc = "publish"
    BY <1>1, <1>2 DEF HandlerOK
<1>7. Answered(h)' \/ Kept(h)
  <2>1. CASE handler[h].leased
      BY <1>3, <1>5, <1>6, <2>1 DEF Kept
  <2>2. CASE ~handler[h].leased
      BY <1>3, <2>2, NotPublishing
  <2> QED  BY <2>1, <2>2
<1>8. UNCHANGED <<requested, solution>>
    BY DEF PublishOne
<1> QED  BY <1>3, <1>4, <1>7, <1>8, BusyCovers

LEMMA AllPublishedCovers ==
    SearchInv /\ solution = NoBoard => \A h \in Handlers : AllPublished(h) => Covers'
<1> SUFFICES ASSUME SearchInv, solution = NoBoard, NEW h \in Handlers, AllPublished(h)
             PROVE  Covers'
    OBVIOUS
<1>1. handler[h].pc = "publish" /\ handler[h].outbox = {} /\ Ack(h)
      /\ UNCHANGED <<requested, solution>>
    BY DEF AllPublished
<1>2. Answered(h)
    BY DEF SearchInv, AnswersPublished
<1>3. handler[h].leased =>
        \A g \in Reach(handler[h].stack) \cap Complete :
          \E n \in Outstanding : g \in Reach(n) /\ Strictly(n, handler[h].stack)
    BY <1>1, <1>2 DEF Answered
<1> QED  BY <1>1, <1>3, EndingCovers DEF Covers

\* Every message stays, and the handlers that change publish no more.
LEMMA AllStayCovers ==
    ASSUME SearchInv, solution = NoBoard, UNCHANGED <<requested, solution>>,
           \A m \in Outstanding : m \in Outstanding',
           \A h \in Handlers : \/ handler'[h] = handler[h]
                               \/ handler'[h].pc # "publish"
                               \/ ~handler'[h].leased
    PROVE  Covers'
<1>1. \A h \in Handlers : Answered(h)' \/ Kept(h)
    BY SameHandler, NotPublishing
<1> QED  BY <1>1, StillCovered DEF Covers

LEMMA PublishFailsCovers ==
    SearchInv /\ solution = NoBoard => \A h \in Handlers : PublishFails(h) => Covers'
<1> SUFFICES ASSUME SearchInv, solution = NoBoard, NEW h \in Handlers, PublishFails(h)
             PROVE  Covers'
    OBVIOUS
<1>1. PICK sent \in SUBSET handler[h].outbox :
        topic' = Returned(h) (+) SetToBag(sent)
    BY DEF PublishFails
<1>2. BagToSet(topic') = BagToSet(Returned(h)) \cup sent
    BY <1>1, ReturnedBag, SetBag, UnionBag
<1>3. handler \in [Handlers -> HandlerType] /\ handler' = [handler EXCEPT ![h] = Idle]
    BY DEF SearchInv, TypeOK, PublishFails
<1>4. handler'[h].pc = "idle" /\ \A k \in Handlers : k # h => handler'[k] = handler[k]
    BY <1>3 DEF Idle
<1>5. \A m \in Outstanding : m \in Outstanding'
    BY <1>2, <1>4, ReturnedBag, OutstandingIs
<1>6. UNCHANGED <<requested, solution>>
    BY DEF PublishFails
<1> QED  BY <1>4, <1>5, <1>6, AllStayCovers

LEMMA RedeliverCovers ==
    SearchInv /\ solution = NoBoard => \A h \in Handlers : Redeliver(h) => Covers'
<1> SUFFICES ASSUME SearchInv, solution = NoBoard, NEW h \in Handlers, Redeliver(h)
             PROVE  Covers'
    OBVIOUS
<1>1. handler \in [Handlers -> HandlerType]
      /\ handler' = [handler EXCEPT ![h].leased = FALSE]
    BY DEF SearchInv, TypeOK, Redeliver
<1>2. handler'[h].leased = FALSE /\ \A k \in Handlers : k # h => handler'[k] = handler[k]
    BY <1>1 DEF HandlerType
<1>3. topic' = Returned(h)
    BY DEF Redeliver
<1>4. \A m \in Outstanding : m \in Outstanding'
    BY <1>2, <1>3, ReturnedBag, OutstandingIs
<1>5. UNCHANGED <<requested, solution>>
    BY DEF Redeliver
<1> QED  BY <1>2, <1>4, <1>5, AllStayCovers

LEMMA CrashCovers ==
    SearchInv /\ solution = NoBoard => \A s \in Servers : Crash(s) => Covers'
<1> SUFFICES ASSUME SearchInv, solution = NoBoard, NEW s \in Servers, Crash(s)
             PROVE  Covers'
    OBVIOUS
<1>1. BagToSet(topic') =
        BagToSet(topic) \cup {handler[h].stack : h \in LeasedBy(s)}
    BY CrashBag
<1>2. \A h \in Handlers : handler'[h] = IF ServerOf[h] = s THEN Idle ELSE handler[h]
    BY DEF Crash
<1>3. Idle.pc = "idle"
    BY DEF Idle
<1>4. \A m \in Outstanding : m \in Outstanding'
    BY <1>1, <1>2, OutstandingIs DEF LeasedBy
<1>5. UNCHANGED <<requested, solution>>
    BY DEF Crash
<1> QED  BY <1>2, <1>3, <1>4, <1>5, AllStayCovers

LEMMA ExpireCovers ==
    SearchInv /\ solution = NoBoard => \A s \in Servers : Expire(s) => Covers'
<1> SUFFICES ASSUME SearchInv, solution = NoBoard, NEW s \in Servers, Expire(s)
             PROVE  Covers'
    OBVIOUS
<1>1. UNCHANGED <<requested, solution, topic, handler>>
    BY DEF Expire
<1>2. \A m \in Outstanding : m \in Outstanding'
    BY <1>1, OutstandingIs
<1> QED  BY <1>1, <1>2, AllStayCovers

\* The puzzle stays solved.
LEMMA SolvedStaysSolved ==
    SearchInv /\ [Next]_vars /\ solution # NoBoard => solution' # NoBoard
<1> SUFFICES ASSUME SearchInv, [Next]_vars, solution # NoBoard PROVE solution' # NoBoard
    OBVIOUS
<1>1. CASE UNCHANGED solution
    BY <1>1
<1>2. CASE \E h \in Handlers : Save(h) \/ SaveFails(h)
    BY <1>2, TreeAssumption DEF Save, SaveFails, SearchInv, HandlersOK, HandlerOK
<1> QED  BY <1>1, <1>2 DEF Next, vars, StartSolving, Receive, ProcessOneMessage,
            GetCached, SettingsFail, SolveInMemory, Examine, PublishOne, PublishFails, AllPublished,
            Redeliver, Crash, Expire

LEMMA NextCovers == SearchInv /\ [Next]_vars => Covers'
<1> SUFFICES ASSUME SearchInv, [Next]_vars, solution = NoBoard PROVE Covers'
    BY SolvedStaysSolved, SolvedCovers
<1>1. CASE StartSolving
    BY <1>1, StartCovers
<1>2. CASE \E h \in Handlers : Receive(h)
    BY <1>2, ReceiveCovers
<1>3. CASE \E h \in Handlers : ProcessOneMessage(h)
    BY <1>3, GetCachedCovers, SettingsFailCovers, SolveInMemoryCovers, ExamineCovers, SaveCovers,
       PublishOneCovers, PublishFailsCovers, AllPublishedCovers DEF ProcessOneMessage
<1>4. CASE \E h \in Handlers : Redeliver(h)
    BY <1>4, RedeliverCovers
<1>5. CASE \E s \in Servers : Crash(s) \/ Expire(s)
    BY <1>5, CrashCovers, ExpireCovers
<1>6. CASE UNCHANGED vars
  <2>1. \A m \in Outstanding : m \in Outstanding'
      BY <1>6, OutstandingIs DEF vars
  <2> QED  BY <1>6, <2>1, AllStayCovers DEF vars
<1> QED  BY <1>1, <1>2, <1>3, <1>4, <1>5, <1>6 DEF Next

-----------------------------------------------------------------------------
(* The theorems.                                                           *)

\* The inductive invariant holds in every reachable state: what handlers have
\* in their hands, and that nothing is missing from what is outstanding.
THEOREM SearchIsSafe == Spec => []SearchInv
<1>1. SearchInv /\ [Next]_vars => SearchInv'
    BY NextHolds, NextCovers DEF SearchInv, Holds, Covers
<1> QED  BY InitSearch, <1>1, PTL DEF Spec

\* Every reachable state is well typed; in particular NextLevelWidth never
\* leaves 1..MaxParallelBranches on a message.
THEOREM QueueTypeCorrect == Spec => []TypeOK
<1>1. SearchInv => TypeOK
    BY DEF SearchInv
<1> QED  BY SearchIsSafe, <1>1, PTL

\* Until the puzzle is solved every solution is below an outstanding message,
\* for every game tree, any number of servers and handlers, and any number of
\* failures, crashes and redeliveries.
THEOREM NothingIsLost == Spec => []NothingLost
<1>1. SearchInv => NothingLost
    BY DEF SearchInv
<1> QED  BY SearchIsSafe, <1>1, PTL

\* No message leads to a board twice.
THEOREM NoStackRepeats == Spec => []StacksDisjoint
<1>1. SearchInv => StacksDisjoint
  <2> SUFFICES ASSUME SearchInv, NEW m \in Outstanding PROVE StackIsDisjoint(m)
      BY DEF StacksDisjoint
  <2>1. Good(m)
      BY OutstandingIs DEF SearchInv, TopicGood, HandlersOK, HandlerOK
  <2> QED  BY <2>1 DEF Good
<1> QED  BY SearchIsSafe, <1>1, PTL

\* Only a solution of the puzzle is stored, and a server believes in one only
\* when it is.
THEOREM OnlyRealSolutions == Spec => []SolutionsAreReal
<1>1. SearchInv => SolutionsAreReal
    BY DEF SearchInv
<1> QED  BY SearchIsSafe, <1>1, PTL

-----------------------------------------------------------------------------
(* The search advances.                                                    *)

\* Only Examine begins to publish, and it does so for the message it has.
LEMMA OnlyExaminePublishes ==
    ASSUME SearchInv, [Next]_vars, NEW h \in Handlers,
           handler[h].pc = "solve", handler'[h].pc = "publish"
    PROVE  handler'[h].stack = handler[h].stack
<1>1. handler \in [Handlers -> HandlerType]
    BY DEF SearchInv, TypeOK
<1>2. CASE UNCHANGED handler
    BY <1>2
<1>3. ASSUME NEW k \in Handlers, Receive(k) \/ ProcessOneMessage(k) \/ Redeliver(k)
      PROVE  handler'[h].stack = handler[h].stack
  <2>1. CASE k # h
    <3>1. handler'[h] = handler[h]
        BY <1>1, <1>3, <2>1 DEF Receive, ProcessOneMessage, Redeliver, GetCached,
           AfterLookup, SettingsFail, SolveInMemory, Examine, Save, SaveFails, PublishOne,
           PublishFails, AllPublished, Ack, Nack, Unsolved, Found
    <3> QED  BY <3>1
  <2>2. CASE Ack(k) \/ Nack(k) \/ PublishFails(k)
    <3>1. handler' = [handler EXCEPT ![k] = Idle]
        BY <2>2 DEF Ack, Nack, PublishFails
    <3> QED  BY <1>1, <3>1 DEF Idle
  <2>3. CASE k = h /\ Receive(h)
      BY <2>3 DEF Receive
  <2>4. CASE k = h /\ (GetCached(h) \/ Save(h) \/ SaveFails(h) \/ AllPublished(h))
      BY <2>4 DEF GetCached, Save, SaveFails, AllPublished
  <2>5. CASE k = h /\ \E b : Found(h, b)
      BY <1>1, <2>5 DEF Found, HandlerType
  <2>6. CASE k = h /\ handler' = [handler EXCEPT ![h].pc = "publish",
                                       ![h].outbox = NextStacks(handler[h].stack)]
      BY <1>1, <2>6 DEF HandlerType
  <2>7. CASE k = h /\ (PublishOne(h) \/ Redeliver(h))
      BY <1>1, <2>7 DEF PublishOne, Redeliver, HandlerType
  <2> QED  BY <1>3, <2>1, <2>2, <2>3, <2>4, <2>5, <2>6, <2>7
           DEF ProcessOneMessage, SettingsFail, SolveInMemory, Examine
<1>4. ASSUME NEW s \in Servers, Crash(s) PROVE handler'[h].stack = handler[h].stack
    BY <1>4 DEF Crash, Idle
<1> QED  BY <1>2, <1>3, <1>4 DEF Next, vars, StartSolving, Expire

\* Each message that answers another leads to a proper part of what that one
\* led to, so that no branch of the search goes on for ever.
THEOREM SearchAlwaysAdvances == Spec => SearchAdvances
<1> DEFINE Advance ==
             \A h \in Handlers :
               handler[h].pc = "solve" /\ handler'[h].pc = "publish" =>
                 \A m \in handler'[h].outbox :
                     /\ Reach(m) \subseteq Reach(handler[h].stack)
                     /\ Reach(m) # Reach(handler[h].stack)
<1>1. SearchInv /\ [Next]_vars => Advance
  <2> SUFFICES ASSUME SearchInv, [Next]_vars, NEW h \in Handlers,
                      handler[h].pc = "solve", handler'[h].pc = "publish",
                      NEW m \in handler'[h].outbox
               PROVE  Strictly(m, handler[h].stack)
      BY DEF Strictly
  <2>1. Strictly(m, handler'[h].stack)
      BY NextHolds DEF Holds, HandlersOK, HandlerOK
  <2> QED  BY <2>1, OnlyExaminePublishes
<1>2. SearchInv /\ [Next]_vars => [Advance]_vars
    BY <1>1
<1> HIDE DEF Advance
<1>3. Spec => [][Advance]_vars
    BY SearchIsSafe, <1>2, PTL DEF Spec
<1> QED  BY <1>3 DEF SearchAdvances, Advance

-----------------------------------------------------------------------------
(* The messages and handlers implement a search of one region.             *)

\* Before the puzzle is submitted there is nothing to explore.
Quiet ==
    ~requested => BagToSet(topic) = {} /\ \A h \in Handlers : handler[h] = Idle

LEMMA RegionMember ==
    /\ \A b : b \in Region <=>
         \/ \E m \in BagToSet(topic) : b \in Reach(m)
         \/ \E h \in Handlers : b \in Reach(handler[h].stack)
         \/ \E h \in Handlers : \E m \in handler[h].outbox : b \in Reach(m)
    /\ \A b : b \in Region' <=>
         \/ \E m \in BagToSet(topic') : b \in Reach(m)
         \/ \E h \in Handlers : b \in Reach(handler'[h].stack)
         \/ \E h \in Handlers : \E m \in handler'[h].outbox : b \in Reach(m)
<1>1. /\ \A b : b \in Region <=> \E m \in Waiting : b \in Reach(m)
      /\ \A b : b \in Region' <=> \E m \in Waiting' : b \in Reach(m)
    BY DEF Region
<1>2. /\ \A m : m \in Waiting <=>
           \/ m \in BagToSet(topic)
           \/ \E h \in Handlers : m = handler[h].stack \/ m \in handler[h].outbox
      /\ \A m : m \in Waiting' <=>
           \/ m \in BagToSet(topic')
           \/ \E h \in Handlers : m = handler'[h].stack \/ m \in handler'[h].outbox
    BY DEF Waiting
<1> QED  BY <1>1, <1>2, Zenon

LEMMA QuietRegion == Quiet /\ ~requested => Region = {}
<1> SUFFICES ASSUME Quiet, ~requested, NEW b, b \in Region PROVE FALSE
    OBVIOUS
<1>1. BagToSet(topic) = {} /\ \A h \in Handlers : handler[h] = Idle
    BY DEF Quiet
<1>2. Reach(Idle.stack) = {} /\ Idle.outbox = {}
    BY EmptyIsGood DEF Idle
<1> QED  BY <1>1, <1>2, RegionMember

\* Everything somebody may explore is part of the puzzle's tree.
LEMMA RegionInTree == SearchInv => Region \subseteq Below[Puzzle]
<1> SUFFICES ASSUME SearchInv, NEW b, b \in Region PROVE b \in Below[Puzzle]
    OBVIOUS
<1>1. /\ \A m \in BagToSet(topic) : Good(m)
      /\ \A h \in Handlers : Good(handler[h].stack)
                             /\ \A m \in handler[h].outbox : Good(m)
    BY DEF SearchInv, TopicGood, HandlersOK, HandlerOK
<1> QED  BY <1>1, RegionMember DEF Good

\* What is outstanding is part of what somebody may explore.
LEMMA OutstandingInRegion ==
    UNION {Reach(m) : m \in Outstanding'} \subseteq Region'
<1> SUFFICES ASSUME NEW m \in Outstanding', NEW b \in Reach(m) PROVE b \in Region'
    OBVIOUS
<1>1. CASE m \in BagToSet(topic')
    BY <1>1, RegionMember
<1>2. CASE \E h \in Handlers : handler'[h].stack = m
    BY <1>2, RegionMember
<1> QED  BY <1>1, <1>2, OutstandingIs

\* What a step brings into the topic or into a handler's hands leads to
\* nothing that was not in somebody's hands before.
Within(m) == Reach(m) \subseteq Region

LEMMA WithinRegion ==
    /\ \A m \in BagToSet(topic) : Within(m)
    /\ \A h \in Handlers : Within(handler[h].stack)
                           /\ \A m \in handler[h].outbox : Within(m)
    /\ Within(Idle.stack) /\ Idle.outbox = {}
BY RegionMember, EmptyIsGood DEF Within, Idle

LEMMA RegionShrinks ==
    ASSUME \A m \in BagToSet(topic') : Within(m),
           \A h \in Handlers : Within(handler'[h].stack),
           \A h \in Handlers : \A m \in handler'[h].outbox : Within(m)
    PROVE  Region' \subseteq Region
BY RegionMember DEF Within

\* One handler goes on, or ends, with what it had.
LEMMA OneShrinks ==
    ASSUME SearchInv, NEW h \in Handlers,
           \A m \in BagToSet(topic') : Within(m),
           \A k \in Handlers : k # h => handler'[k] = handler[k],
           Within(handler'[h].stack),
           \A m \in handler'[h].outbox : Within(m)
    PROVE  Region' \subseteq Region
<1>1. ASSUME NEW k \in Handlers
      PROVE  /\ Within(handler'[k].stack)
             /\ \A m \in handler'[k].outbox : Within(m)
    BY WithinRegion
<1> QED  BY <1>1, RegionShrinks

LEMMA EndingShrinks ==
    ASSUME SearchInv, NEW h \in Handlers, Ack(h) \/ Nack(h)
    PROVE  Region' \subseteq Region
<1>1. handler \in [Handlers -> HandlerType] /\ IsABag(topic)
    BY DEF SearchInv, TypeOK
<1>2. handler' = [handler EXCEPT ![h] = Idle]
    BY DEF Ack, Nack
<1>3. handler'[h] = Idle /\ \A k \in Handlers : k # h => handler'[k] = handler[k]
    BY <1>1, <1>2
<1>4. \A m \in BagToSet(topic') : m \in BagToSet(topic) \/ m = handler[h].stack
  <2>1. topic' = topic \/ topic' = With(topic, handler[h].stack)
      BY DEF Ack, Nack, Returned
  <2> QED  BY <1>1, <2>1, WithBag
<1>5. \A m \in BagToSet(topic') : Within(m)
    BY <1>4, WithinRegion
<1>6. Within(handler'[h].stack) /\ \A m \in handler'[h].outbox : Within(m)
    BY <1>3, WithinRegion
<1> QED  BY <1>3, <1>5, <1>6, OneShrinks

LEMMA ReceiveShrinks ==
    SearchInv => \A h \in Handlers : Receive(h) => Region' \subseteq Region
<1> SUFFICES ASSUME SearchInv, NEW h \in Handlers, Receive(h)
             PROVE  Region' \subseteq Region
    OBVIOUS
<1>1. PICK m \in BagToSet(topic) :
        /\ topic' = Without(topic, m)
        /\ handler' = IF m = <<>> THEN handler
                      ELSE [handler EXCEPT ![h].pc = "read", ![h].leased = TRUE,
                                           ![h].stack = m]
    BY DEF Receive
<1>2. handler[h] = Idle /\ handler \in [Handlers -> HandlerType] /\ IsABag(topic)
    BY DEF SearchInv, HandlersOK, HandlerOK, Receive, TypeOK
<1>3. \A k \in Handlers : k # h => handler'[k] = handler[k]
    BY <1>1, <1>2
<1>4. /\ handler'[h].stack = m \/ handler'[h] = handler[h]
      /\ handler'[h].outbox = {}
  <2>1. CASE m = <<>>
      BY <1>1, <1>2, <2>1 DEF Idle
  <2>2. CASE m # <<>>
    <3>1. handler'[h] = [Idle EXCEPT !.pc = "read", !.leased = TRUE, !.stack = m]
        BY <1>1, <1>2, <2>2
    <3> QED  BY <3>1 DEF Idle
  <2> QED  BY <2>1, <2>2
<1>5. \A x \in BagToSet(topic') : Within(x)
    BY <1>1, <1>2, WithoutBag, WithinRegion
<1>6. Within(handler'[h].stack) /\ \A x \in handler'[h].outbox : Within(x)
    BY <1>4, WithinRegion
<1> QED  BY <1>3, <1>5, <1>6, OneShrinks

\* A handler that goes on without publishing keeps what it has.
LEMMA GoesOnShrinks ==
    ASSUME SearchInv, NEW h \in Handlers,
           Unsolved(h) \/ (\E b : Found(h, b)) \/ Redeliver(h)
    PROVE  Region' \subseteq Region
<1>1. handler \in [Handlers -> HandlerType]
    BY DEF SearchInv, TypeOK
<1>2. /\ handler'[h].stack = handler[h].stack
      /\ handler'[h].outbox = handler[h].outbox
      /\ \A k \in Handlers : k # h => handler'[k] = handler[k]
  <2>1. CASE Unsolved(h)
      BY <1>1, <2>1 DEF Unsolved, HandlerType
  <2>2. CASE \E b : Found(h, b)
      BY <1>1, <2>2 DEF Found, HandlerType
  <2>3. CASE Redeliver(h)
      BY <1>1, <2>3 DEF Redeliver, HandlerType
  <2> QED  BY <2>1, <2>2, <2>3
<1>3. topic' = topic \/ topic' = Returned(h)
    BY DEF Unsolved, Found, Redeliver
<1>4. \A m \in BagToSet(topic') : Within(m)
    BY <1>3, ReturnedBag, WithinRegion
<1>5. Within(handler'[h].stack) /\ \A m \in handler'[h].outbox : Within(m)
    BY <1>2, WithinRegion
<1> QED  BY <1>2, <1>4, <1>5, OneShrinks

LEMMA GetCachedShrinks ==
    SearchInv => \A h \in Handlers : GetCached(h) => Region' \subseteq Region
<1> SUFFICES ASSUME SearchInv, NEW h \in Handlers, GetCached(h)
             PROVE  Region' \subseteq Region
    OBVIOUS
<1>1. Ack(h) \/ Nack(h) \/ Unsolved(h)
    BY DEF GetCached, AfterLookup
<1> QED  BY <1>1, EndingShrinks, GoesOnShrinks

LEMMA SolveShrinks ==
    SearchInv => \A h \in Handlers :
        SolveInMemory(h) \/ Examine(h) => Region' \subseteq Region
<1> SUFFICES ASSUME SearchInv, NEW h \in Handlers, SolveInMemory(h) \/ Examine(h)
             PROVE  Region' \subseteq Region
    OBVIOUS
<1> DEFINE s == handler[h].stack
<1>1. CASE Ack(h)
    BY <1>1, EndingShrinks
<1>2. CASE \E b : Found(h, b)
    BY <1>2, GoesOnShrinks
<1>3. CASE /\ handler' = [handler EXCEPT ![h].pc = "publish", ![h].outbox = NextStacks(s)]
           /\ UNCHANGED <<topic, redeliveries>>
  <2>1. handler \in [Handlers -> HandlerType]
      BY DEF SearchInv, TypeOK
  <2>2. /\ handler'[h].stack = s /\ handler'[h].outbox = NextStacks(s)
        /\ \A k \in Handlers : k # h => handler'[k] = handler[k]
      BY <1>3, <2>1 DEF HandlerType
  <2>3. Good(s) /\ s # <<>>
      BY DEF SearchInv, HandlersOK, HandlerOK, SolveInMemory, Examine
  <2>4. \A m \in NextStacks(s) : Reach(m) \subseteq Reach(s)
      BY <2>3, AnswersAreGood DEF Strictly
  <2>5. \A m \in NextStacks(s) : Within(m)
      BY <2>4, WithinRegion DEF Within
  <2>6. Within(handler'[h].stack) /\ \A m \in BagToSet(topic') : Within(m)
      BY <1>3, <2>2, WithinRegion
  <2> QED  BY <2>2, <2>5, <2>6, OneShrinks
<1> QED  BY <1>1, <1>2, <1>3 DEF SolveInMemory, Examine

LEMMA PublishOneShrinks ==
    SearchInv => \A h \in Handlers : PublishOne(h) => Region' \subseteq Region
<1> SUFFICES ASSUME SearchInv, NEW h \in Handlers, PublishOne(h)
             PROVE  Region' \subseteq Region
    OBVIOUS
<1>1. PICK m \in handler[h].outbox :
        /\ topic' = With(topic, m)
        /\ handler' = [handler EXCEPT ![h].outbox = @ \ {m}]
    BY DEF PublishOne
<1>2. handler \in [Handlers -> HandlerType] /\ IsABag(topic)
    BY DEF SearchInv, TypeOK
<1>3. /\ handler'[h].stack = handler[h].stack
      /\ handler'[h].outbox = handler[h].outbox \ {m}
      /\ \A k \in Handlers : k # h => handler'[k] = handler[k]
    BY <1>1, <1>2 DEF HandlerType
<1>4. \A x \in BagToSet(topic') : Within(x)
    BY <1>1, <1>2, WithBag, WithinRegion
<1>5. Within(handler'[h].stack) /\ \A x \in handler'[h].outbox : Within(x)
    BY <1>3, WithinRegion
<1> QED  BY <1>3, <1>4, <1>5, OneShrinks

LEMMA PublishFailsShrinks ==
    SearchInv => \A h \in Handlers : PublishFails(h) => Region' \subseteq Region
<1> SUFFICES ASSUME SearchInv, NEW h \in Handlers, PublishFails(h)
             PROVE  Region' \subseteq Region
    OBVIOUS
<1>1. PICK sent \in SUBSET handler[h].outbox :
        topic' = Returned(h) (+) SetToBag(sent)
    BY DEF PublishFails
<1>2. BagToSet(topic') = BagToSet(Returned(h)) \cup sent
    BY <1>1, ReturnedBag, SetBag, UnionBag
<1>3. handler \in [Handlers -> HandlerType] /\ handler' = [handler EXCEPT ![h] = Idle]
    BY DEF SearchInv, TypeOK, PublishFails
<1>4. handler'[h] = Idle /\ \A k \in Handlers : k # h => handler'[k] = handler[k]
    BY <1>3
<1>5. \A m \in BagToSet(topic') : Within(m)
    BY <1>2, ReturnedBag, WithinRegion
<1>6. Within(handler'[h].stack) /\ \A m \in handler'[h].outbox : Within(m)
    BY <1>4, WithinRegion
<1> QED  BY <1>4, <1>5, <1>6, OneShrinks

LEMMA CrashShrinks ==
    SearchInv => \A s \in Servers : Crash(s) => Region' \subseteq Region
<1> SUFFICES ASSUME SearchInv, NEW s \in Servers, Crash(s)
             PROVE  Region' \subseteq Region
    OBVIOUS
<1>1. \A m \in BagToSet(topic') : Within(m)
    BY CrashBag, WithinRegion DEF LeasedBy
<1>2. \A h \in Handlers : handler'[h] = IF ServerOf[h] = s THEN Idle ELSE handler[h]
    BY DEF Crash
<1>3. ASSUME NEW h \in Handlers
      PROVE  /\ Within(handler'[h].stack)
             /\ \A m \in handler'[h].outbox : Within(m)
    BY <1>2, WithinRegion
<1> QED  BY <1>1, <1>3, RegionShrinks

\* Only the submission of the puzzle makes the region larger.
LEMMA StepShrinks ==
    SearchInv /\ [Next]_vars => StartSolving \/ Region' \subseteq Region
<1> SUFFICES ASSUME SearchInv, [Next]_vars, ~StartSolving
             PROVE  Region' \subseteq Region
    OBVIOUS
<1>1. CASE \E h \in Handlers : Receive(h) \/ Redeliver(h)
    BY <1>1, ReceiveShrinks, GoesOnShrinks
<1>2. CASE \E h \in Handlers : ProcessOneMessage(h)
  <2>1. ASSUME NEW h \in Handlers,
               SettingsFail(h) \/ Save(h) \/ SaveFails(h) \/ AllPublished(h)
        PROVE  Region' \subseteq Region
      BY <2>1, EndingShrinks DEF SettingsFail, Save, SaveFails, AllPublished
  <2> QED  BY <1>2, <2>1, GetCachedShrinks, SolveShrinks, PublishOneShrinks,
           PublishFailsShrinks DEF ProcessOneMessage
<1>3. CASE \E s \in Servers : Crash(s)
    BY <1>3, CrashShrinks
<1>4. CASE (\E s \in Servers : Expire(s)) \/ UNCHANGED vars
  <2>1. topic' = topic /\ handler' = handler
      BY <1>4 DEF Expire, vars
  <2> QED  BY <2>1 DEF Region, Waiting
<1> QED  BY <1>1, <1>2, <1>3, <1>4 DEF Next

\* The puzzle is submitted once, and what it leads to is the region.
LEMMA StartIsAsk == SearchInv /\ Quiet /\ StartSolving => Search!Ask
<1> SUFFICES ASSUME SearchInv, Quiet, StartSolving PROVE Search!Ask
    OBVIOUS
<1> DEFINE e == [board |-> Puzzle, parallelBranches |-> 1]
           m == <<e>>
<1>1. BagToSet(topic') = {m}
    BY WithBag DEF SearchInv, TypeOK, StartSolving, Quiet
<1>2. Reach(m) = Below[Puzzle]
  <2>1. DOMAIN m = {1} /\ m[1] = e /\ e.board = Puzzle
      OBVIOUS
  <2> HIDE DEF m, e
  <2>2. \A b : b \in Reach(m) <=> b \in Below[Puzzle]
      BY <2>1, ReachMember
  <2> QED  BY <2>2
<1> HIDE DEF m
<1>3. \A h \in Handlers : handler'[h] = Idle
    BY DEF Quiet, StartSolving
<1>4. Reach(Idle.stack) = {} /\ Idle.outbox = {}
    BY EmptyIsGood DEF Idle
<1>5. \A b : b \in Region' <=> b \in Below[Puzzle]
    BY <1>1, <1>2, <1>3, <1>4, RegionMember
<1>6. Region' = Below[Puzzle]
    BY <1>5
<1> QED  BY <1>6 DEF Search!Ask, StartSolving

\* No solution of an unsolved puzzle leaves the region.
LEMMA NoneLeaves ==
    SearchInv /\ Quiet /\ [Next]_vars /\ solution = NoBoard /\ solution' = NoBoard
    /\ requested' = requested
        => Region \cap Complete \subseteq Region'
<1> SUFFICES ASSUME SearchInv, Quiet, [Next]_vars, solution = NoBoard,
                    solution' = NoBoard, requested' = requested
             PROVE  Region \cap Complete \subseteq Region'
    OBVIOUS
<1>1. CASE ~requested
    BY <1>1, QuietRegion
<1>2. CASE requested
  <2>1. Below[Puzzle] \cap Complete \subseteq UNION {Reach(m) : m \in Outstanding'}
      BY <1>2, NextCovers DEF Covers, NothingLost
  <2> QED  BY <2>1, RegionInTree, OutstandingInRegion
<1> QED  BY <1>1, <1>2

LEMMA OnlyTheseChange ==
    [Next]_vars =>
        \/ StartSolving
        \/ UNCHANGED <<requested, solution>>
        \/ UNCHANGED requested /\ \E h \in Handlers : Save(h) \/ SaveFails(h)
BY DEF Next, vars, Receive, ProcessOneMessage, GetCached, SettingsFail, SolveInMemory,
   Examine, Save, SaveFails, PublishOne, PublishFails, AllPublished, Redeliver, Crash,
   Expire

\* Every step is one of the abstract search.
LEMMA StepIsSearch ==
    SearchInv /\ Quiet /\ [Next]_vars => [Search!Next]_Search!searchVars
<1> SUFFICES ASSUME SearchInv, Quiet, [Next]_vars PROVE Search!Next
    OBVIOUS
<1>1. CASE StartSolving
    BY <1>1, StartIsAsk DEF Search!Next
<1>2. CASE ~StartSolving /\ UNCHANGED <<requested, solution>>
  <2>1. Region' \subseteq Region
      BY <1>2, StepShrinks
  <2>2. solution = NoBoard => Region \cap Complete \subseteq Region'
      BY <1>2, NoneLeaves
  <2> QED  BY <1>2, <2>1, <2>2 DEF Search!Next, Search!Explore
<1>3. CASE /\ ~StartSolving /\ ~UNCHANGED solution /\ UNCHANGED requested
           /\ \E h \in Handlers : Save(h) \/ SaveFails(h)
  <2>1. PICK h \in Handlers : Save(h) \/ SaveFails(h)
      BY <1>3
  <2>2. handler[h].pc = "save" /\ solution' = handler[h].found
      BY <1>3, <2>1 DEF Save, SaveFails
  <2>3. solution' \in Complete \cap Reach(handler[h].stack)
      BY <2>2 DEF SearchInv, HandlersOK, HandlerOK
  <2>4. solution' \in Region \cap Complete
      BY <2>3, WithinRegion DEF Within
  <2>5. Region' \subseteq Region
      BY <1>3, StepShrinks
  <2> QED  BY <1>3, <2>4, <2>5 DEF Search!Next, Search!Solve
<1> QED  BY <1>1, <1>2, <1>3, OnlyTheseChange

LEMMA StaysQuiet == SearchInv /\ Quiet /\ [Next]_vars => Quiet'
<1> SUFFICES ASSUME SearchInv, Quiet, [Next]_vars, ~requested' PROVE Quiet'
    BY DEF Quiet
<1>1. ~requested /\ ~StartSolving
  <2>1. ~StartSolving
      BY DEF StartSolving
  <2>2. requested' = requested
      BY <2>1, OnlyTheseChange
  <2> QED  BY <2>1, <2>2
<1>2. BagToSet(topic) = {} /\ \A h \in Handlers : handler[h] = Idle
    BY <1>1 DEF Quiet
<1>3. Idle.pc = "idle" /\ Idle.outbox = {} /\ Idle.leased = FALSE
    BY DEF Idle
<1>4. \A h \in Handlers : ~(Receive(h) \/ ProcessOneMessage(h) \/ Redeliver(h))
    BY <1>2, <1>3 DEF Receive, ProcessOneMessage, GetCached, SettingsFail, SolveInMemory,
       Examine, Save, SaveFails, PublishOne, PublishFails, AllPublished, Redeliver
<1>5. CASE \E s \in Servers : Crash(s)
  <2>1. PICK s \in Servers : Crash(s)
      BY <1>5
  <2>2. \A h \in Handlers : handler'[h] = Idle
      BY <1>2, <2>1 DEF Crash
  <2>3. BagToSet(topic') = {}
      BY <1>2, <1>3, <2>1, CrashBag DEF LeasedBy
  <2> QED  BY <2>2, <2>3 DEF Quiet
<1>6. CASE (\E s \in Servers : Expire(s)) \/ UNCHANGED vars
    BY <1>2, <1>6 DEF Quiet, Expire, vars
<1> QED  BY <1>1, <1>4, <1>5, <1>6 DEF Next

LEMMA InitQuiet == Init => Quiet /\ Search!Init
<1> SUFFICES ASSUME Init PROVE Quiet /\ Search!Init
    OBVIOUS
<1>1. BagToSet(topic) = {}
    BY DEF Init, EmptyBag, SetToBag, BagToSet
<1>2. Quiet
    BY <1>1 DEF Init, Quiet
<1> QED  BY <1>2, QuietRegion DEF Init, Search!Init

\* For every game tree, any number of servers, handlers, failures, crashes
\* and redeliveries, the messages and the handlers that have them do what
\* TreeSearch says of one region: no board comes back that nobody had to
\* explore any more, no solution leaves while none is stored, and what is
\* stored comes from there.
THEOREM QueueImplementsSearch == Spec => ImplementsSearch
<1>1. Init => Search!Init
    BY InitQuiet
<1>2. Spec => []Quiet
  <2>1. Init => Quiet
      BY InitQuiet
  <2> QED  BY <2>1, SearchIsSafe, StaysQuiet, PTL DEF Spec
<1>3. Spec => [][Search!Next]_Search!searchVars
    BY <1>2, SearchIsSafe, StepIsSearch, PTL DEF Spec
<1>4. Spec => Search!Spec
    BY <1>1, <1>3, PTL DEF Spec, Search!Spec
<1> QED  BY <1>4 DEF ImplementsSearch

=============================================================================
