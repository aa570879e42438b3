-------------------------- MODULE DropItemsProofs --------------------------
(* Proofs about DropItems and the tables of GameConfig below it, for any tables, kinds,
   players and time steps. *)
EXTENDS DropItems, FiniteSetTheorems, SequenceTheorems, TLAPS

-----------------------------------------------------------------------------
(* Coins *)

\* CoinsEarned, and what its proof needs to know of the types.
CoinInv ==
    /\ coinCount \in [Players -> Int]
    /\ gained \in [Players -> Int]
    /\ starters \subseteq Players
    /\ CoinsEarned

\* Whatever a player runs into, it is not left in debt, and gets a coin for a coin only.
LEMMA PaidFairly ==
    ASSUME NEW p \in Players, NEW k, coinCount[p] \in Int, coinCount[p] >= 0
    PROVE  /\ Paid(p, k) \in Int /\ Paid(p, k) >= 0
           /\ Paid(p, k) <= coinCount[p] + (IF TypeOf[k] = Icon THEN 1 ELSE 0)
  BY DEF Paid

LEMMA StepCoins == CoinInv /\ [Next]_vars => CoinInv'
  <1> SUFFICES ASSUME CoinInv, [Next]_vars PROVE CoinInv'
    OBVIOUS
  <1> USE DEF CoinInv, CoinsEarned
  <1>1. CASE UNCHANGED <<coinCount, history>>
    BY <1>1 DEF history
  <1>2. CASE Script
    BY <1>1, <1>2 DEF Script
  <1>3. ASSUME NEW S \in SUBSET Players, StartGame(S) PROVE CoinInv'
    BY <1>3 DEF StartGame, CoinsAtStart
  <1>4. ASSUME NEW t \in Steps, Update(t) PROVE CoinInv'
    BY <1>1, <1>4 DEF Update
  <1>5. ASSUME NEW p \in Players, NEW id, OnPlayerGetDropItem(p, id) PROVE CoinInv'
    <2>1. PICK k :
              /\ coinCount' = [coinCount EXCEPT ![p] = Paid(p, k)]
              /\ gained' = [gained EXCEPT ![p] = IF TypeOf[k] = Icon THEN @ + 1 ELSE @]
              /\ UNCHANGED starters
      BY <1>5 DEF OnPlayerGetDropItem
    <2>2. /\ coinCount'[p] = Paid(p, k)
          /\ gained'[p] = gained[p] + (IF TypeOf[k] = Icon THEN 1 ELSE 0)
          /\ \A q \in Players \ {p} : coinCount'[q] = coinCount[q] /\ gained'[q] = gained[q]
      BY <2>1
    <2>3. coinCount' \in [Players -> Int] /\ gained' \in [Players -> Int]
      BY <2>1, PaidFairly
    <2>4. coinCount'[p] >= 0 /\ (coinCount[p] <= gained[p] => coinCount'[p] <= gained'[p])
      BY <2>2, PaidFairly
    <2> QED
      BY <2>1, <2>2, <2>3, <2>4
  <1>6. CASE Stop
    BY <1>1, <1>6 DEF Stop
  <1>7. ASSUME NEW p \in Players, ChangeHands(p) PROVE CoinInv'
    BY <1>7 DEF ChangeHands
  <1>8. CASE UNCHANGED vars
    BY <1>1, <1>8 DEF vars, history
  <1> QED
    BY <1>2, <1>3, <1>4, <1>5, <1>6, <1>7, <1>8 DEF Next

\* Whoever is there from the start is never credited more coins than it collected in
\* this match, and nobody is in debt, whatever items there are and whoever comes and
\* goes.
THEOREM CoinsInvariant == Spec => []CoinsEarned
  <1>1. Init => CoinInv
    BY DEF Init, CoinInv, CoinsEarned
  <1>2. CoinInv => CoinsEarned
    BY DEF CoinInv
  <1> QED
    BY <1>1, <1>2, StepCoins, PTL DEF Spec

-----------------------------------------------------------------------------
(* Positions *)

\* The row of a type holds what was given for it, in order, as long as no row has run
\* over into the next.
TableInv ==
    /\ cell \in [Cells -> Positions \cup {NONE}]
    /\ count \in [Rows -> Nat]
    /\ given \in [Rows -> Seq(Positions)]
    /\ \A k \in Rows : count[k] = Len(given[k])
    /\ WithinRows => \A k \in DropRows : \A n \in 1..count[k] :
                         cell[Cell(k, n - 1)] = given[k][n]

\* Two places within their rows are one cell only if they are one place.
LEMMA CellsApart ==
    ASSUME NEW j \in Rows, NEW k \in Rows,
           NEW m \in 0..(RowLength - 1), NEW n \in 0..(RowLength - 1),
           Cell(j, m) = Cell(k, n)
    PROVE  j = k /\ m = n
  <1>1. j \in Int /\ k \in Int /\ m \in Int /\ n \in Int /\ RowLength \in Int
    BY ConfigAssumption DEF Rows
  <1>2. \A a, b, r, x, y \in Int : a < b /\ 0 <= x /\ x < r /\ 0 <= y /\ y < r
            => a * r + x # b * r + y
    <2> SUFFICES ASSUME NEW a \in Int, NEW b \in Int, NEW r \in Int,
                        NEW x \in Int, NEW y \in Int,
                        a < b, 0 <= x, x < r, 0 <= y, y < r
                 PROVE  a * r + x < b * r + y
      OBVIOUS
    <2>1. PICK d \in Int : b = a + 1 + d /\ d >= 0
      <3>1. b - a - 1 \in Int /\ b = a + 1 + (b - a - 1) /\ b - a - 1 >= 0
        OBVIOUS
      <3> QED
        BY <3>1
    <2>2. d * r \in Int /\ a * r \in Int /\ d * r >= 0
      BY <2>1
    <2>3. b * r = a * r + r + d * r
      BY <2>1
    <2> QED
      BY <2>2, <2>3
  <1>3. ~(j < k) /\ ~(k < j)
    BY <1>1, <1>2 DEF Cell
  <1> QED
    BY <1>1, <1>3 DEF Cell

LEMMA StepTable == TableInv /\ [Next]_vars => TableInv'
  <1> SUFFICES ASSUME TableInv, [Next]_vars PROVE TableInv'
    OBVIOUS
  <1>1. CASE UNCHANGED configVars
    BY <1>1 DEF configVars, TableInv, WithinRows
  <1>2. ASSUME NEW i \in 0..MaxIndex, AddCheckPoint(i) PROVE TableInv'
    BY <1>2 DEF AddCheckPoint, TableInv, WithinRows
  <1>3. ASSUME NEW k \in DropRows, NEW p \in Positions, AddDropItemPosition(k, p)
        PROVE  TableInv'
    <2>1. /\ cell'  = [cell EXCEPT ![Cell(k, count[k])] = p]
          /\ count' = [count EXCEPT ![k] = @ + 1]
          /\ given' = [given EXCEPT ![k] = Append(@, p)]
          /\ k \in Rows /\ DropRows \subseteq Rows /\ Cell(k, count[k]) \in Cells
      BY <1>3, ConfigAssumption DEF AddDropItemPosition, Slot, Rows, DropRows
    <2>2. /\ cell' \in [Cells -> Positions \cup {NONE}]
          /\ count' \in [Rows -> Nat]
          /\ given' \in [Rows -> Seq(Positions)]
          /\ \A j \in Rows : count'[j] = Len(given'[j])
      BY <2>1 DEF TableInv
    <2>3. ASSUME WithinRows', NEW j \in DropRows, NEW n \in 1..count'[j]
          PROVE  cell'[Cell(j, n - 1)] = given'[j][n]
      <3>1. /\ \A i \in DropRows : count[i] <= RowLength /\ count[i] \in Nat
            /\ count[k] + 1 <= RowLength /\ RowLength \in Nat
            /\ WithinRows
        BY <2>1, <2>3, ConfigAssumption DEF TableInv, WithinRows
      <3>2. Cell(j, n - 1) \in Cells
        <4>1. j \in 1..(Types - 1) /\ n - 1 \in 0..(RowLength - 1) /\ Types \in Nat
          BY <2>1, <2>2, <2>3, <3>1, ConfigAssumption DEF DropRows, WithinRows
        <4>2. \A a, b, r, x \in Int : 0 <= a /\ a <= b - 1 /\ 0 <= x /\ x < r
                  => 0 <= a * r + x /\ a * r + x <= b * r - 1
          <5> SUFFICES ASSUME NEW a \in Int, NEW b \in Int, NEW r \in Int, NEW x \in Int,
                              0 <= a, a <= b - 1, 0 <= x, x < r
                       PROVE  0 <= a * r + x /\ a * r + x <= b * r - 1
            OBVIOUS
          <5>1. a * r \in Int /\ a * r >= 0
            OBVIOUS
          <5>2. (b - 1 - a) * r >= 0 /\ (b - 1 - a) * r = b * r - r - a * r
            OBVIOUS
          <5>3. b * r \in Int
            OBVIOUS
          <5> QED
            BY <5>1, <5>2, <5>3
        <4>3. j * RowLength + (n - 1) \in Int /\ Types * RowLength \in Int
          BY <4>1, <3>1
        <4> QED
          BY <4>1, <4>2, <4>3, <3>1 DEF Cell, Cells
      <3>3. CASE j = k /\ n = count[k] + 1
        <4>1. Cell(j, n - 1) = Cell(k, count[k])
          BY <3>3, <3>1
        <4>2. given'[j][n] = p
          BY <2>1, <3>3 DEF TableInv
        <4> QED
          BY <2>1, <4>1, <4>2 DEF TableInv
      <3>4. CASE ~(j = k /\ n = count[k] + 1)
        <4>1. n \in 1..count[j]
          BY <2>1, <2>3, <3>1, <3>4 DEF TableInv
        <4>2. given'[j][n] = given[j][n]
          BY <2>1, <4>1 DEF TableInv
        <4>3. Cell(j, n - 1) # Cell(k, count[k])
          <5>1. /\ n - 1 \in 0..(RowLength - 1) /\ count[k] \in 0..(RowLength - 1)
                /\ j \in Rows /\ (j = k => n - 1 # count[k])
            BY <2>1, <3>1, <3>4, <4>1
          <5> QED
            BY <2>1, <5>1, CellsApart
        <4>4. cell'[Cell(j, n - 1)] = cell[Cell(j, n - 1)]
          BY <2>1, <3>2, <4>3 DEF TableInv
        <4> QED
          BY <3>1, <4>1, <4>2, <4>4 DEF TableInv
      <3> QED
        BY <3>3, <3>4
    <2> QED
      BY <2>2, <2>3 DEF TableInv
  <1>4. CASE Script
    BY <1>1, <1>2, <1>3, <1>4 DEF Script, ConfigNext
  <1>5. CASE ~Script
    BY <1>1, <1>5 DEF Next, StartGame, Update, OnPlayerGetDropItem, Stop, ChangeHands, vars
  <1> QED
    BY <1>4, <1>5

\* As long as no type is given more positions than its row holds, the items are created
\* where the script put them, in its order: that an overrun is the only thing that can
\* go wrong with the table, which the shipped script then does.
THEOREM TableInvariant == Spec => [](WithinRows => PositionsAsGiven)
  <1>1. Init => TableInv
    <2> SUFFICES ASSUME Init PROVE TableInv
      OBVIOUS
    <2> QED
      BY ConfigAssumption DEF Init, ConfigInit, TableInv, Rows, DropRows
  <1>2. TableInv => (WithinRows => PositionsAsGiven)
    <2> SUFFICES ASSUME TableInv, WithinRows, NEW k \in DropRows, NEW n \in 1..Len(given[k])
                 PROVE  CopyDropItemPosition(k, n - 1) = given[k][n]
      BY DEF PositionsAsGiven
    <2>1. k \in Rows /\ n \in 1..count[k] /\ count[k] \in Nat
      BY DEF TableInv, Rows, DropRows
    <2>2. (n - 1) % count[k] = n - 1
      BY <2>1
    <2> QED
      BY <2>1, <2>2 DEF TableInv, CopyDropItemPosition, Index
  <1> QED
    BY <1>1, <1>2, StepTable, PTL DEF Spec

-----------------------------------------------------------------------------
(* Induction over a set of naturals: the library's theorems about it take an operator. *)

LEMMA NatSetLeast ==
    ASSUME NEW S \in SUBSET Nat, S # {}
    PROVE  \E m \in S : \A n \in S : m <= n
  <1>1. PICK m \in S : \A n \in S : ~ (<<n, m>> \in OpToRel(<, Nat))
    BY WFMin, NatLessThanWellFounded, Zenon
  <1>2. \A n \in S : ~ (n < m)
    BY <1>1 DEF OpToRel
  <1> QED
    BY <1>2

LEMMA NatSetInduction ==
    ASSUME NEW S \in SUBSET Nat, 0 \in S, \A n \in S : n + 1 \in S
    PROVE  S = Nat
  <1> SUFFICES ASSUME Nat \ S # {} PROVE FALSE
    OBVIOUS
  <1>1. PICK m \in Nat \ S : \A n \in Nat \ S : m <= n
    BY NatSetLeast
  <1>2. m # 0 /\ m - 1 \in Nat
    BY <1>1
  <1>3. m - 1 \in S
    BY <1>1, <1>2
  <1> QED
    BY <1>1, <1>2, <1>3

-----------------------------------------------------------------------------
(* An item taken out of a sequence *)

LEMMA Removed ==
    ASSUME NEW T, NEW s \in Seq(T), NEW i \in 1..Len(s)
    PROVE  /\ RemoveAt(s, i) \in Seq(T)
           /\ Len(RemoveAt(s, i)) = Len(s) - 1
           /\ \A j \in 1..(Len(s) - 1) : RemoveAt(s, i)[j] = IF j < i THEN s[j] ELSE s[j + 1]
  <1> DEFINE a == SubSeq(s, 1, i - 1)
             b == SubSeq(s, i + 1, Len(s))
  <1>1. Len(s) \in Nat /\ i \in Nat /\ 1 <= i /\ i <= Len(s)
    OBVIOUS
  <1>2. /\ a \in Seq(T) /\ Len(a) = i - 1 /\ \A j \in 1..(i - 1) : a[j] = s[j]
    BY <1>1
  <1>3. /\ b \in Seq(T) /\ Len(b) = Len(s) - i /\ \A j \in 1..(Len(s) - i) : b[j] = s[i + j]
    BY <1>1
  <1>4. RemoveAt(s, i) = a \o b
    BY DEF RemoveAt
  <1> HIDE DEF a, b
  <1>5. a \o b \in Seq(T) /\ Len(a \o b) = Len(s) - 1
    <2>1. ASSUME NEW x \in Seq(T), NEW y \in Seq(T)
          PROVE  x \o y \in Seq(T) /\ Len(x \o y) = Len(x) + Len(y)
      OBVIOUS
    <2>2. a \o b \in Seq(T) /\ Len(a \o b) = Len(a) + Len(b)
      BY <1>2, <1>3, <2>1, Zenon
    <2>3. Len(a) = i - 1 /\ Len(b) = Len(s) - i
      BY <1>2, <1>3
    <2> QED
      BY <1>1, <2>2, <2>3
  <1>6. ASSUME NEW j \in 1..(Len(s) - 1)
        PROVE  (a \o b)[j] = IF j < i THEN s[j] ELSE s[j + 1]
    <2>1. CASE j < i
      BY <1>1, <1>2, <1>3, <2>1
    <2>2. CASE ~(j < i)
      <3>1. j - (i - 1) \in 1..(Len(s) - i) /\ i + (j - (i - 1)) = j + 1
        BY <1>1, <2>2
      <3>2. (a \o b)[j] = b[j - (i - 1)]
        BY <1>1, <1>2, <1>3, <2>2
      <3> QED
        BY <1>3, <2>2, <3>1, <3>2
    <2> QED
      BY <2>1, <2>2
  <1> QED
    BY <1>4, <1>5, <1>6

\* A sequence without two neighbours that differ between a and b is the same at both.
LEMMA NeighboursEqual ==
    ASSUME NEW s, NEW a \in Nat, NEW b \in Nat, a <= b,
           \A k \in a..(b - 1) : s[k] = s[k + 1]
    PROVE  s[a] = s[b]
  <1> DEFINE S == {n \in Nat : a + n <= b => s[a] = s[a + n]}
  <1>1. S \in SUBSET Nat /\ 0 \in S
    OBVIOUS
  <1>2. ASSUME NEW n \in S PROVE n + 1 \in S
    <2> SUFFICES ASSUME a + (n + 1) <= b PROVE s[a] = s[a + (n + 1)]
      OBVIOUS
    <2>1. s[a] = s[a + n] /\ a + n \in a..(b - 1) /\ (a + n) + 1 = a + (n + 1)
      OBVIOUS
    <2> QED
      BY <2>1
  <1> HIDE DEF S
  <1>3. b - a \in S
    BY <1>1, <1>2, NatSetInduction
  <1> QED
    BY <1>3 DEF S

\* Only equal items in a row can be taken out with the same effect.
LEMMA RemovedEqual ==
    ASSUME NEW T, NEW s \in Seq(T), NEW i \in 1..Len(s), NEW f \in 1..Len(s), i <= f,
           RemoveAt(s, i) = RemoveAt(s, f)
    PROVE  s[i] = s[f]
  <1>1. Len(s) \in Nat /\ i \in Nat /\ f \in Nat
    OBVIOUS
  <1>2. ASSUME NEW k \in i..(f - 1) PROVE s[k] = s[k + 1]
    <2>1. k \in 1..(Len(s) - 1) /\ k < f /\ ~(k < i)
      BY <1>1
    <2> QED
      BY <2>1, Removed
  <1> QED
    BY <1>1, <1>2, NeighboursEqual

-----------------------------------------------------------------------------
(* The invariant of the items *)

Item == [id : Nat, kind : Kinds, pos : Positions \cup {NONE}, nth : Nat, round : Nat]

\* The script has given every kind a position, inside the block, before an item is made.
Loading ==
    /\ TableInv
    /\ \A k \in Rows : \A n \in 0..(count[k] - 1) : Cell(k, n) \in Cells
    /\ loaded => \A k \in Kinds : count[TypeOf[k]] > 0
    /\ ~loaded => alive = <<>> /\ ~playing

\* How many items of a kind have been made is the number of the next one, and never more
\* than the kind allows.
Tally ==
    /\ refreshIndex = made
    /\ \A k \in Kinds : /\ made[k] <= Largest(InitCount[k], MaxCount[k])
                        /\ k \notin initialised => made[k] = 0

\* What an earlier match left over lies before the items of this one.
Ordered ==
    \A i, j \in DOMAIN alive :
        i <= j => alive[i].round <= alive[j].round /\ alive[j].round <= round

\* The items of this match were numbered below gID, and those of a kind below its count,
Numbered ==
    \A i \in DOMAIN alive : ThisRound(i) => /\ alive[i].id < gID
                                            /\ alive[i].nth < made[alive[i].kind]

\* no two of them alike.
NthDistinct ==
    \A i, j \in DOMAIN alive :
        ThisRound(i) /\ ThisRound(j) /\ alive[i].kind = alive[j].kind
            /\ alive[i].nth = alive[j].nth => i = j

Track == Ordered /\ Numbered /\ NthDistinct /\ IdsDistinct /\ ItemsWhereGiven

DropInv == TypeOK /\ Loading /\ Tally /\ Track

-----------------------------------------------------------------------------
(* What Update creates *)

\* The items new were created in a row, of kinds up to k, each with the next id and the
\* next number of its kind.
CreatedUpto(k, t, new) ==
    /\ new \in Seq(Item)
    /\ \A j \in 1..Len(new) :
           /\ new[j].id = gID + j - 1 /\ new[j].round = round /\ new[j].kind <= k
           /\ made[new[j].kind] <= new[j].nth
           /\ new[j].nth < made[new[j].kind] + New(new[j].kind, t)
           /\ new[j].pos = Position(new[j].kind, new[j].nth)
    /\ \A i, j \in 1..Len(new) :
           new[i].kind = new[j].kind /\ new[i].nth = new[j].nth => i = j

\* The loop of Update over the first n kinds
Loop(f, t, n) ==
    f = [k \in 0..n |-> IF k = 0 THEN <<>>
                        ELSE f[k - 1] \o Created(k, New(k, t), NextId(f[k - 1]))]

LEMMA KindsFinite == Cardinality(Kinds) \in Nat /\ Kinds = 1..Cardinality(Kinds)
  BY DropAssumption, FS_CardinalityType

LEMMA LoopExists ==
    ASSUME NEW t, NEW n \in Nat
    PROVE  \E f : Loop(f, t, n)
  <1> DEFINE S == {m \in Nat : \E f : Loop(f, t, m)}
  <1>1. 0 \in S
    <2>1. Loop([k \in 0..0 |-> <<>>], t, 0)
      BY DEF Loop
    <2> QED
      BY <2>1
  <1>2. ASSUME NEW m \in S PROVE m + 1 \in S
    <2>1. PICK f : Loop(f, t, m)
      OBVIOUS
    <2> DEFINE g == [k \in 0..(m + 1) |->
                        IF k <= m THEN f[k]
                        ELSE f[m] \o Created(k, New(k, t), NextId(f[m]))]
    <2>2. ASSUME NEW k \in 0..(m + 1)
          PROVE  g[k] = IF k = 0 THEN <<>>
                        ELSE g[k - 1] \o Created(k, New(k, t), NextId(g[k - 1]))
      <3>1. CASE k = m + 1
        <4>1. g[k - 1] = f[m] /\ g[k] = f[m] \o Created(k, New(k, t), NextId(f[m])) /\ k # 0
          BY <3>1
        <4> QED
          BY <4>1
      <3>2. CASE k <= m
        <4>1. /\ g[k] = f[k] /\ k \in 0..m
              /\ k # 0 => g[k - 1] = f[k - 1]
          BY <3>2
        <4>2. f[k] = IF k = 0 THEN <<>>
                     ELSE f[k - 1] \o Created(k, New(k, t), NextId(f[k - 1]))
          BY <2>1, <4>1 DEF Loop
        <4> QED
          BY <4>1, <4>2
      <3> QED
        BY <3>1, <3>2
    <2>3. Loop(g, t, m + 1)
      BY <2>2 DEF Loop
    <2> QED
      BY <2>3
  <1> HIDE DEF S
  <1>3. S \in SUBSET Nat
    BY DEF S
  <1>4. n \in S
    BY <1>1, <1>2, <1>3, NatSetInduction
  <1> QED
    BY <1>4 DEF S

LEMMA NewItemsLoop ==
    ASSUME NEW t
    PROVE  \E f : Loop(f, t, Cardinality(Kinds)) /\ NewItems(t) = f[Cardinality(Kinds)]
  <1> DEFINE D(g) == Loop(g, t, Cardinality(Kinds))
             f == CHOOSE g : D(g)
  <1>1. \E g : D(g)
    BY LoopExists, KindsFinite
  <1>2. D(f)
    <2> HIDE DEF D
    <2> QED
      BY <1>1, Zenon
  <1>3. NewItems(t) = f[Cardinality(Kinds)]
    BY DEF NewItems, Loop
  <1> QED
    BY <1>2, <1>3

\* The positions that are copied lie in the block.
LEMMA PositionGiven ==
    ASSUME Loading, loaded, NEW k \in Kinds, NEW n \in Nat
    PROVE  /\ Position(k, n) \in Positions \cup {NONE}
           /\ WithinRows => LET places == given[TypeOf[k]]
                            IN  Position(k, n) = places[(n % Len(places)) + 1]
  <1> DEFINE r == TypeOf[k]
             i == n % count[r]
  <1>1. r \in DropRows /\ r \in Rows /\ count[r] \in Nat \ {0} /\ count[r] = Len(given[r])
    BY DropAssumption DEF Loading, TableInv, DropRows, Rows
  <1>2. i \in 0..(count[r] - 1)
    <2>1. \A a \in Nat, c \in Nat \ {0} : a % c \in 0..(c - 1)
      OBVIOUS
    <2> QED
      BY <1>1, <2>1
  <1>3. Position(k, n) = cell[Cell(r, i)]
    BY DEF Position, CopyDropItemPosition, Index
  <1> HIDE DEF r, i
  <1>4. Cell(r, i) \in Cells
    BY <1>1, <1>2 DEF Loading
  <1>5. i + 1 \in 1..count[r] /\ (i + 1) - 1 = i
    BY <1>1, <1>2
  <1>6. WithinRows => cell[Cell(r, i)] = given[r][i + 1]
    BY <1>1, <1>5 DEF Loading, TableInv
  <1> QED
    BY <1>1, <1>3, <1>4, <1>6 DEF Loading, TableInv, r, i

LEMMA NewBounds ==
    ASSUME DropInv, NEW t, NEW k \in Kinds
    PROVE  /\ New(k, t) \in Nat
           /\ made[k] + New(k, t) <= Largest(InitCount[k], MaxCount[k])
  <1>1. made[k] \in Nat /\ InitCount[k] \in Nat /\ MaxCount[k] \in Nat
    BY DropAssumption DEF DropInv, TypeOK
  <1>2. /\ made[k] <= Largest(InitCount[k], MaxCount[k])
        /\ k \notin initialised => made[k] = 0
    BY DEF DropInv, Tally
  <1>3. Initial(k) \in Nat /\ made[k] + Initial(k) <= Largest(InitCount[k], MaxCount[k])
    BY <1>1, <1>2 DEF Initial, Largest
  <1>4. Due(k, t) => made[k] + Initial(k) < MaxCount[k]
    BY DEF Due, Refreshing
  <1> QED
    BY <1>1, <1>3, <1>4 DEF New, Largest

LEMMA CreatedKind ==
    ASSUME DropInv, loaded, NEW t, NEW k \in Kinds, NEW first \in Nat,
           NEW c, c = Created(k, New(k, t), first)
    PROVE  /\ c \in Seq(Item) /\ Len(c) = New(k, t)
           /\ \A j \in 1..Len(c) :
                  /\ c[j].id = first + j - 1 /\ c[j].kind = k /\ c[j].round = round
                  /\ c[j].nth = made[k] + j - 1 /\ c[j].pos = Position(k, c[j].nth)
  <1>1. New(k, t) \in Nat /\ made[k] \in Nat /\ refreshIndex = made /\ round \in Nat
    BY NewBounds DEF DropInv, TypeOK, Tally
  <1>2. ASSUME NEW j \in 1..New(k, t)
        PROVE  [id |-> first + j - 1, kind |-> k, pos |-> Position(k, made[k] + j - 1),
                nth |-> made[k] + j - 1, round |-> round] \in Item
    <2>1. first + j - 1 \in Nat /\ made[k] + j - 1 \in Nat
      BY <1>1
    <2>2. Position(k, made[k] + j - 1) \in Positions \cup {NONE}
      BY <2>1, PositionGiven DEF DropInv
    <2> QED
      BY <1>1, <2>1, <2>2 DEF Item
  <1>3. c \in [1..New(k, t) -> Item]
    BY <1>1, <1>2 DEF Created
  <1>4. c \in Seq(Item) /\ Len(c) = New(k, t)
    BY <1>1, <1>3
  <1>5. \A j \in 1..New(k, t) :
            c[j] = [id |-> first + j - 1, kind |-> k, pos |-> Position(k, made[k] + j - 1),
                    nth |-> made[k] + j - 1, round |-> round]
    BY <1>1 DEF Created
  <1> QED
    BY <1>4, <1>5

LEMMA CreatedNext ==
    ASSUME DropInv, loaded, NEW t, NEW k \in Nat, k + 1 \in Kinds,
           NEW new, CreatedUpto(k, t, new)
    PROVE  CreatedUpto(k + 1, t, new \o Created(k + 1, New(k + 1, t), NextId(new)))
  <1> DEFINE c == Created(k + 1, New(k + 1, t), NextId(new))
             d == new \o c
  <1>1. new \in Seq(Item) /\ Len(new) \in Nat /\ gID \in Nat /\ NextId(new) \in Nat
    BY DEF CreatedUpto, NextId, DropInv, TypeOK
  <1>2. /\ c \in Seq(Item) /\ Len(c) = New(k + 1, t)
        /\ \A j \in 1..Len(c) :
               /\ c[j].id = gID + Len(new) + j - 1 /\ c[j].kind = k + 1 /\ c[j].round = round
               /\ c[j].nth = made[k + 1] + j - 1 /\ c[j].pos = Position(k + 1, c[j].nth)
    <2>1. NextId(new) = gID + Len(new)
      BY DEF NextId
    <2> QED
      BY <1>1, <2>1, CreatedKind
  <1>3. New(k + 1, t) \in Nat /\ made \in [Kinds -> Nat] /\ Kinds \subseteq Nat
    <2>1. New(k + 1, t) \in Nat
      BY NewBounds
    <2>2. Kinds \subseteq Nat
      BY KindsFinite
    <2> QED
      BY <2>1, <2>2 DEF DropInv, TypeOK
  <1> HIDE DEF c
  <1>4. /\ d \in Seq(Item) /\ Len(d) = Len(new) + Len(c)
        /\ \A j \in 1..(Len(new) + Len(c)) :
               d[j] = IF j <= Len(new) THEN new[j] ELSE c[j - Len(new)]
    <2>1. c \in Seq(Item)
      BY <1>2
    <2> QED
      BY <1>1, <2>1, ConcatProperties
  <1> HIDE DEF d
  <1>0. \A j \in 1..Len(new) : new[j].kind \in Kinds /\ new[j].nth \in Nat
    <2>1. \A j \in 1..Len(new) : new[j] \in Item
      BY <1>1
    <2> QED
      BY <2>1 DEF Item
  <1>5. ASSUME NEW j \in 1..Len(d)
        PROVE  \/ j \in 1..Len(new) /\ d[j] = new[j]
               \/ \E i \in 1..Len(c) : j = Len(new) + i /\ d[j] = c[i]
    <2>1. CASE j <= Len(new)
      BY <1>1, <1>4, <2>1
    <2>2. CASE ~(j <= Len(new))
      <3>1. j - Len(new) \in 1..Len(c) /\ j = Len(new) + (j - Len(new))
        BY <1>1, <1>2, <1>3, <1>4, <2>2
      <3>2. d[j] = c[j - Len(new)]
        BY <1>4, <2>2
      <3> QED
        BY <3>1, <3>2
    <2> QED
      BY <2>1, <2>2
  <1>6. ASSUME NEW j \in 1..Len(d)
        PROVE  /\ d[j].id = gID + j - 1 /\ d[j].round = round /\ d[j].kind <= k + 1
               /\ made[d[j].kind] <= d[j].nth
               /\ d[j].nth < made[d[j].kind] + New(d[j].kind, t)
               /\ d[j].pos = Position(d[j].kind, d[j].nth)
    <2>1. CASE j \in 1..Len(new) /\ d[j] = new[j]
      <3>1. new[j].kind \in Nat
        BY <1>0, <1>3, <2>1
      <3> QED
        BY <2>1, <3>1 DEF CreatedUpto
    <2>2. ASSUME NEW i \in 1..Len(c), j = Len(new) + i, d[j] = c[i]
          PROVE  /\ d[j].id = gID + j - 1 /\ d[j].round = round /\ d[j].kind = k + 1
                 /\ made[d[j].kind] <= d[j].nth
                 /\ d[j].nth < made[d[j].kind] + New(d[j].kind, t)
                 /\ d[j].pos = Position(d[j].kind, d[j].nth)
      <3>1. made[k + 1] \in Nat
        BY <1>3
      <3> QED
        BY <1>1, <1>2, <1>3, <2>2, <3>1
    <2> QED
      BY <1>5, <2>1, <2>2
  <1>7. ASSUME NEW i \in 1..Len(d), NEW j \in 1..Len(d),
               d[i].kind = d[j].kind, d[i].nth = d[j].nth
        PROVE  i = j
    <2>1. \A m \in 1..Len(new), n \in 1..Len(c) : new[m].kind # c[n].kind
      <3>1. \A m \in 1..Len(new) : new[m].kind \in Nat /\ new[m].kind <= k
        BY <1>0, <1>3 DEF CreatedUpto
      <3> QED
        BY <1>2, <3>1
    <2>2. \A m, n \in 1..Len(c) : c[m].nth = c[n].nth => m = n
      <3>1. made[k + 1] \in Nat
        BY <1>3
      <3> QED
        BY <1>2, <1>3, <3>1
    <2>3. \A m, n \in 1..Len(new) :
              new[m].kind = new[n].kind /\ new[m].nth = new[n].nth => m = n
      BY DEF CreatedUpto
    <2>4. CASE i \in 1..Len(new) /\ d[i] = new[i]
      BY <1>5, <1>7, <2>1, <2>3, <2>4
    <2>5. ASSUME NEW m \in 1..Len(c), i = Len(new) + m, d[i] = c[m]
          PROVE  i = j
      <3>1. PICK n \in 1..Len(c) : j = Len(new) + n /\ d[j] = c[n]
        BY <1>5, <1>7, <2>1, <2>5
      <3>2. m = n
        BY <1>7, <2>2, <2>5, <3>1
      <3> QED
        BY <2>5, <3>1, <3>2
    <2> QED
      BY <1>5, <2>4, <2>5
  <1>8. CreatedUpto(k + 1, t, d)
    BY <1>4, <1>6, <1>7 DEF CreatedUpto
  <1> QED
    BY <1>8 DEF d, c

LEMMA UpdateCreates ==
    ASSUME DropInv, loaded, NEW t
    PROVE  CreatedUpto(Cardinality(Kinds), t, NewItems(t))
  <1> DEFINE n == Cardinality(Kinds)
  <1>1. PICK f : Loop(f, t, n) /\ NewItems(t) = f[n]
    BY NewItemsLoop
  <1>2. n \in Nat /\ Kinds = 1..n
    BY KindsFinite
  <1> HIDE DEF n
  <1> DEFINE S == {m \in Nat : m <= n => CreatedUpto(m, t, f[m])}
  <1>3. 0 \in S
    <2>1. f[0] = <<>>
      BY <1>1, <1>2 DEF Loop
    <2>2. CreatedUpto(0, t, <<>>)
      BY DEF CreatedUpto
    <2> QED
      BY <2>1, <2>2
  <1>4. ASSUME NEW m \in S PROVE m + 1 \in S
    <2> SUFFICES ASSUME m + 1 <= n PROVE CreatedUpto(m + 1, t, f[m + 1])
      OBVIOUS
    <2>1. m + 1 \in Kinds /\ CreatedUpto(m, t, f[m])
      BY <1>2
    <2>2. m + 1 \in 0..n /\ m + 1 # 0 /\ (m + 1) - 1 = m
      BY <1>2
    <2>3. f[m + 1] = f[m] \o Created(m + 1, New(m + 1, t), NextId(f[m]))
      BY <1>1, <2>2 DEF Loop
    <2> QED
      BY <2>1, <2>3, CreatedNext
  <1> HIDE DEF S
  <1>5. S \in SUBSET Nat
    BY DEF S
  <1>6. n \in S
    BY <1>2, <1>3, <1>4, <1>5, NatSetInduction
  <1>7. CreatedUpto(n, t, f[n])
    BY <1>2, <1>6 DEF S
  <1> QED
    BY <1>1, <1>7 DEF n

-----------------------------------------------------------------------------
(* The steps *)

LEMMA TrackSame ==
    ASSUME DropInv, UNCHANGED <<alive, round, gID, made>>,
           UNCHANGED configVars \/ alive = <<>>
    PROVE  Track'
  <1> USE DEF DropInv, Track
  <1>1. Ordered' /\ Numbered' /\ NthDistinct' /\ IdsDistinct'
    BY DEF Ordered, Numbered, NthDistinct, IdsDistinct, ThisRound
  <1>2. ItemsWhereGiven'
    BY DEF ItemsWhereGiven, WithinRows, configVars
  <1> QED
    BY <1>1, <1>2

LEMMA ScriptStep ==
    ASSUME DropInv, Script, TableInv'
    PROVE  DropInv'
  <1>1. /\ ~loaded /\ alive = <<>> /\ ~playing
        /\ UNCHANGED <<playing, items, coinCount, history>>
    BY DEF Script, DropInv, Loading
  <1>2. Track'
    BY <1>1, TrackSame DEF items, history
  <1>3. Tally'
    BY <1>1 DEF DropInv, Tally, items
  <1>4. points' \in Seq(0..MaxIndex) /\ Len(points') <= MaxPoints /\ loaded' \in BOOLEAN
    <2>1. points \in Seq(0..MaxIndex) /\ Len(points) <= MaxPoints /\ loaded \in BOOLEAN
      BY DEF DropInv, TypeOK, ConfigTypeOK
    <2>2. CASE UNCHANGED points
      BY <2>1, <2>2 DEF Script
    <2>3. ASSUME NEW i \in 0..MaxIndex, AddCheckPoint(i)
          PROVE  points' \in Seq(0..MaxIndex) /\ Len(points') <= MaxPoints
      BY <2>1, <2>3, ConfigAssumption DEF AddCheckPoint, PointFits
    <2> QED
      BY <2>1, <2>2, <2>3 DEF Script, ConfigNext, AddDropItemPosition, configVars
  <1>5. TypeOK'
    BY <1>1, <1>4 DEF DropInv, TypeOK, ConfigTypeOK, TableInv, items, history
  <1>6. \A k \in Rows : \A n \in 0..(count'[k] - 1) : Cell(k, n) \in Cells
    <2>1. count \in [Rows -> Nat] /\ \A k \in Rows : \A n \in 0..(count[k] - 1) : Cell(k, n) \in Cells
      BY DEF DropInv, Loading, TableInv
    <2>2. CASE UNCHANGED count
      BY <2>1, <2>2
    <2>3. ASSUME NEW r \in DropRows, Slot(r) \in Cells, count' = [count EXCEPT ![r] = @ + 1],
                 NEW k \in Rows, NEW n \in 0..(count'[k] - 1)
          PROVE  Cell(k, n) \in Cells
      <3>1. CASE k = r /\ n = count[r]
        BY <2>3, <3>1 DEF Slot
      <3>2. CASE ~(k = r /\ n = count[r])
        <4>1. n \in 0..(count[k] - 1)
          BY <2>1, <2>3, <3>2
        <4> QED
          BY <2>1, <4>1
      <3> QED
        BY <3>1, <3>2
    <2> QED
      BY <2>2, <2>3 DEF Script, ConfigNext, AddCheckPoint, AddDropItemPosition, configVars
  <1>7. loaded' => \A k \in Kinds : count'[TypeOf[k]] > 0
    BY <1>1 DEF Script, configVars
  <1>8. Loading'
    BY <1>1, <1>6, <1>7 DEF Loading, items, Cell, Cells
  <1> QED
    BY <1>2, <1>3, <1>5, <1>8 DEF DropInv

LEMMA StartStep ==
    ASSUME DropInv, TableInv', NEW P \in SUBSET Players, StartGame(P)
    PROVE  DropInv'
  <1>1. /\ loaded /\ UNCHANGED <<configVars, loaded, alive>> /\ round' = round + 1
        /\ gID' = 0 /\ made' = [k \in Kinds |-> 0] /\ refreshIndex' = made' /\ initialised' = {}
    BY DEF StartGame
  <1>2. TypeOK'
    BY DEF DropInv, TypeOK, ConfigTypeOK, StartGame, configVars, CoinsAtStart
  <1>3. Loading'
    BY <1>1 DEF DropInv, Loading, configVars
  <1>4. Tally'
    <2>1. \A k \in Kinds : Largest(InitCount[k], MaxCount[k]) >= 0
      BY DropAssumption DEF Largest
    <2> QED
      BY <1>1, <2>1 DEF Tally
  <1>5. \A i \in DOMAIN alive : alive[i].round \in Nat /\ alive[i].round <= round
    <2>1. alive \in Seq(Item)
      BY DEF DropInv, TypeOK, Item
    <2>2. \A i \in DOMAIN alive : alive[i] \in Item /\ i \in Int
      BY <2>1
    <2> QED
      BY <2>2 DEF DropInv, Track, Ordered, Item
  <1>6. round \in Nat
    BY DEF DropInv, TypeOK
  <1>7. Ordered'
    BY <1>1, <1>5, <1>6 DEF DropInv, Track, Ordered
  <1>8. \A i \in DOMAIN alive' : ~ThisRound(i)'
    BY <1>1, <1>5, <1>6 DEF ThisRound
  <1>9. Numbered' /\ NthDistinct' /\ IdsDistinct'
    BY <1>8 DEF Numbered, NthDistinct, IdsDistinct
  <1>10. ItemsWhereGiven'
    BY <1>1 DEF DropInv, Track, ItemsWhereGiven, WithinRows, configVars
  <1> QED
    BY <1>2, <1>3, <1>4, <1>7, <1>9, <1>10 DEF DropInv, Track

LEMMA UpdateStep ==
    ASSUME DropInv, TableInv', NEW t \in Steps, Update(t)
    PROVE  DropInv'
  <1> DEFINE new == NewItems(t)
  <1>0. loaded /\ Kinds = 1..Cardinality(Kinds)
    BY KindsFinite DEF Update, DropInv, Loading
  <1>1. /\ alive' = alive \o new /\ gID' = gID + Len(new)
        /\ made' = [k \in Kinds |-> made[k] + New(k, t)] /\ refreshIndex' = made'
        /\ initialised' = Kinds /\ UNCHANGED <<configVars, loaded, coinCount, history>>
    BY DEF Update, NextId, DropInv, Tally
  <1>2. CreatedUpto(Cardinality(Kinds), t, new)
    BY <1>0, UpdateCreates
  <1> HIDE DEF new
  <1>3. alive \in Seq(Item) /\ new \in Seq(Item) /\ Len(alive) \in Nat /\ Len(new) \in Nat
    BY <1>2 DEF CreatedUpto, DropInv, TypeOK, Item
  <1>4. /\ alive' \in Seq(Item) /\ Len(alive') = Len(alive) + Len(new)
        /\ \A j \in 1..(Len(alive) + Len(new)) :
               alive'[j] = IF j <= Len(alive) THEN alive[j] ELSE new[j - Len(alive)]
    BY <1>1, <1>3, ConcatProperties
  <1>5. /\ gID \in Nat /\ round \in Nat /\ made \in [Kinds -> Nat]
        /\ \A k \in Kinds : New(k, t) \in Nat
                            /\ made[k] + New(k, t) <= Largest(InitCount[k], MaxCount[k])
    BY NewBounds DEF DropInv, TypeOK
  <1>6. TypeOK'
    <2>1. made' \in [Kinds -> Nat] /\ gID' \in Nat
      BY <1>1, <1>3, <1>5
    <2>2. timer' \in [Kinds -> Nat]
      <3>1. timer \in [Kinds -> Nat] /\ RefreshTime \in [Kinds -> Nat] /\ t \in Nat
        BY DropAssumption DEF DropInv, TypeOK
      <3>2. \A k \in Kinds : Due(k, t) => timer[k] + t - RefreshTime[k] \in Nat
        BY <3>1 DEF Due
      <3> QED
        BY <3>1, <3>2 DEF Update
    <2>3. playing' \in BOOLEAN
      BY DEF Update
    <2> QED
      BY <1>1, <1>4, <2>1, <2>2, <2>3
      DEF DropInv, TypeOK, ConfigTypeOK, configVars, history, Item
  <1>7. Loading'
    BY <1>0, <1>1 DEF DropInv, Loading, configVars
  <1>8. Tally'
    BY <1>1, <1>5 DEF Tally
  <1>9. ASSUME NEW j \in DOMAIN alive'
        PROVE  \/ j \in DOMAIN alive /\ alive'[j] = alive[j]
               \/ \E m \in 1..Len(new) : j = Len(alive) + m /\ alive'[j] = new[m]
    <2>1. j \in 1..(Len(alive) + Len(new))
      BY <1>4
    <2>2. CASE j <= Len(alive)
      BY <1>3, <1>4, <2>1, <2>2
    <2>3. CASE ~(j <= Len(alive))
      <3>1. j - Len(alive) \in 1..Len(new) /\ j = Len(alive) + (j - Len(alive))
        BY <1>3, <2>1, <2>3
      <3>2. alive'[j] = new[j - Len(alive)]
        BY <1>4, <2>1, <2>3
      <3> QED
        BY <3>1, <3>2
    <2> QED
      BY <2>2, <2>3
  \* What is known of the items there were, and of the new ones.
  <1>10. \A j \in DOMAIN alive :
             /\ j \in 1..Len(alive) /\ alive[j] \in Item
             /\ alive[j].kind \in Kinds /\ alive[j].nth \in Nat /\ alive[j].id \in Nat
             /\ alive[j].round \in Nat /\ alive[j].round <= round
    <2>1. \A j \in DOMAIN alive : j \in 1..Len(alive) /\ alive[j] \in Item
      BY <1>3
    <2>2. \A j \in DOMAIN alive : alive[j].round <= round
      BY <2>1 DEF DropInv, Track, Ordered
    <2> QED
      BY <2>1, <2>2 DEF Item
  <1>11. \A m \in 1..Len(new) :
             /\ new[m].kind \in Kinds /\ new[m].nth \in Nat /\ new[m].round = round
             /\ new[m].id = gID + m - 1
             /\ made[new[m].kind] <= new[m].nth
             /\ new[m].nth < made[new[m].kind] + New(new[m].kind, t)
             /\ new[m].pos = Position(new[m].kind, new[m].nth)
    <2>1. \A m \in 1..Len(new) : new[m] \in Item
      BY <1>3
    <2> QED
      BY <1>2, <2>1 DEF CreatedUpto, Item
  <1>12. \A m, n \in 1..Len(new) :
             new[m].kind = new[n].kind /\ new[m].nth = new[n].nth => m = n
    BY <1>2 DEF CreatedUpto
  <1>13. round' = round
    BY <1>1 DEF history
  <1>14. \A j \in DOMAIN alive : ThisRound(j) => alive[j].id < gID /\ alive[j].nth < made[alive[j].kind]
    BY DEF DropInv, Track, Numbered
  <1>15. Ordered'
    <2> SUFFICES ASSUME NEW i \in DOMAIN alive', NEW j \in DOMAIN alive', i <= j
                 PROVE  alive'[i].round <= alive'[j].round /\ alive'[j].round <= round
      BY <1>13 DEF Ordered
    <2>1. CASE j \in DOMAIN alive /\ alive'[j] = alive[j]
      <3>1. i \in DOMAIN alive /\ alive'[i] = alive[i]
        BY <1>3, <1>9, <1>10, <2>1
      <3> QED
        BY <2>1, <3>1 DEF DropInv, Track, Ordered
    <2>2. ASSUME NEW n \in 1..Len(new), j = Len(alive) + n, alive'[j] = new[n]
          PROVE  alive'[i].round <= alive'[j].round /\ alive'[j].round <= round
      <3>1. alive'[j].round = round
        BY <1>11, <2>2
      <3>2. alive'[i].round <= round
        BY <1>5, <1>9, <1>10, <1>11
      <3> QED
        BY <1>5, <3>1, <3>2
    <2> QED
      BY <1>9, <2>1, <2>2
  <1>16. Numbered'
    <2> SUFFICES ASSUME NEW i \in DOMAIN alive', ThisRound(i)'
                 PROVE  alive'[i].id < gID' /\ alive'[i].nth < made'[alive'[i].kind]
      BY DEF Numbered
    <2>1. CASE i \in DOMAIN alive /\ alive'[i] = alive[i]
      <3>1. /\ alive[i].id < gID /\ alive[i].nth < made[alive[i].kind]
            /\ alive[i].kind \in Kinds /\ alive[i].nth \in Nat /\ alive[i].id \in Nat
        BY <1>10, <1>13, <1>14, <2>1 DEF ThisRound
      <3>2. /\ made'[alive[i].kind] = made[alive[i].kind] + New(alive[i].kind, t)
            /\ made[alive[i].kind] \in Nat /\ New(alive[i].kind, t) \in Nat
        BY <1>1, <1>5, <3>1
      <3> QED
        BY <1>1, <1>3, <1>5, <2>1, <3>1, <3>2
    <2>2. ASSUME NEW m \in 1..Len(new), alive'[i] = new[m]
          PROVE  alive'[i].id < gID' /\ alive'[i].nth < made'[alive'[i].kind]
      BY <1>1, <1>3, <1>5, <1>11, <2>2
    <2> QED
      BY <1>9, <2>1, <2>2
  <1>17. NthDistinct'
    <2> SUFFICES ASSUME NEW i \in DOMAIN alive', NEW j \in DOMAIN alive',
                        ThisRound(i)', ThisRound(j)',
                        alive'[i].kind = alive'[j].kind, alive'[i].nth = alive'[j].nth
                 PROVE  i = j
      BY DEF NthDistinct
    <2>1. ASSUME NEW a \in DOMAIN alive, NEW m \in 1..Len(new), ThisRound(a),
                 alive[a].kind = new[m].kind
          PROVE  alive[a].nth # new[m].nth
      <3>1. alive[a].nth \in Nat /\ alive[a].nth < made[alive[a].kind]
        BY <1>10, <1>14, <2>1
      <3>2. /\ new[m].kind \in Kinds /\ new[m].nth \in Nat
            /\ made[new[m].kind] <= new[m].nth /\ made[new[m].kind] \in Nat
        BY <1>5, <1>11
      <3> QED
        BY <2>1, <3>1, <3>2
    <2>2. CASE i \in DOMAIN alive /\ alive'[i] = alive[i]
      <3>1. ThisRound(i)
        BY <1>13, <2>2 DEF ThisRound
      <3>2. ASSUME NEW m \in 1..Len(new), alive'[j] = new[m] PROVE FALSE
        BY <2>1, <2>2, <3>1, <3>2
      <3>3. j \in DOMAIN alive /\ alive'[j] = alive[j] /\ ThisRound(j)
        BY <1>9, <1>13, <3>2 DEF ThisRound
      <3> QED
        BY <2>2, <3>1, <3>3 DEF DropInv, Track, NthDistinct
    <2>3. ASSUME NEW m \in 1..Len(new), i = Len(alive) + m, alive'[i] = new[m]
          PROVE  i = j
      BY <1>9, <1>12, <1>13, <2>1, <2>3 DEF ThisRound
    <2> QED
      BY <1>9, <2>2, <2>3
  <1>18. IdsDistinct'
    <2> SUFFICES ASSUME NEW i \in DOMAIN alive', NEW j \in DOMAIN alive',
                        ThisRound(i)', ThisRound(j)', alive'[i].id = alive'[j].id
                 PROVE  i = j
      BY DEF IdsDistinct
    <2>1. \A a \in DOMAIN alive, m \in 1..Len(new) : ThisRound(a) => alive[a].id # new[m].id
      BY <1>5, <1>10, <1>11, <1>14
    <2>2. \A a, b \in DOMAIN alive : ThisRound(a) /\ ThisRound(b) /\ alive[a].id = alive[b].id
                                         => a = b
      BY DEF DropInv, Track, IdsDistinct
    <2>3. \A m, n \in 1..Len(new) : new[m].id = new[n].id => m = n
      BY <1>5, <1>11
    <2>4. CASE i \in DOMAIN alive /\ alive'[i] = alive[i]
      BY <1>9, <1>13, <2>1, <2>2, <2>4 DEF ThisRound
    <2>5. ASSUME NEW m \in 1..Len(new), i = Len(alive) + m, alive'[i] = new[m]
          PROVE  i = j
      BY <1>9, <1>13, <2>1, <2>3, <2>5 DEF ThisRound
    <2> QED
      BY <1>9, <2>4, <2>5
  <1>19. ItemsWhereGiven'
    <2> SUFFICES ASSUME WithinRows, NEW i \in DOMAIN alive'
                 PROVE  LET places == given[TypeOf[alive'[i].kind]]
                        IN  alive'[i].pos = places[(alive'[i].nth % Len(places)) + 1]
      BY <1>1 DEF ItemsWhereGiven, WithinRows, configVars
    <2>1. CASE i \in DOMAIN alive /\ alive'[i] = alive[i]
      BY <2>1 DEF DropInv, Track, ItemsWhereGiven
    <2>2. ASSUME NEW m \in 1..Len(new), alive'[i] = new[m]
          PROVE  LET places == given[TypeOf[alive'[i].kind]]
                 IN  alive'[i].pos = places[(alive'[i].nth % Len(places)) + 1]
      BY <1>0, <1>11, <2>2, PositionGiven DEF DropInv
    <2> QED
      BY <1>9, <2>1, <2>2
  <1> QED
    BY <1>6, <1>7, <1>8, <1>15, <1>16, <1>17, <1>18, <1>19 DEF DropInv, Track

\* An item that is asked for is found, and it is the last one of its id.
LEMMA FoundLast ==
    ASSUME TypeOK, NEW id, \E i \in DOMAIN alive : alive[i].id = id
    PROVE  /\ Found(id) \in DOMAIN alive /\ alive[Found(id)].id = id
           /\ \A j \in DOMAIN alive : alive[j].id = id => j <= Found(id)
  <1>1. DOMAIN alive = 1..Len(alive) /\ Len(alive) \in Nat
    BY DEF TypeOK
  <1> DEFINE S == {n \in Nat : Len(alive) - n \in DOMAIN alive /\ alive[Len(alive) - n].id = id}
  <1>2. S # {}
    <2>1. PICK i \in DOMAIN alive : alive[i].id = id
      OBVIOUS
    <2>2. Len(alive) - i \in Nat /\ Len(alive) - (Len(alive) - i) = i
      BY <1>1
    <2> QED
      BY <2>1, <2>2
  <1>3. PICK m \in S : \A n \in S : m <= n
    BY <1>2, NatSetLeast
  <1>4. ASSUME NEW j \in DOMAIN alive, alive[j].id = id PROVE j <= Len(alive) - m
    <2>1. Len(alive) - j \in Nat /\ Len(alive) - (Len(alive) - j) = j
      BY <1>1
    <2>2. Len(alive) - j \in S
      BY <1>4, <2>1
    <2> QED
      BY <1>1, <1>3, <2>2
  <1>5. \E i \in DOMAIN alive :
            alive[i].id = id /\ \A j \in DOMAIN alive : alive[j].id = id => j <= i
    BY <1>3, <1>4
  <1> HIDE DEF S
  <1> QED
    BY <1>5, Zenon DEF Found

LEMMA GetStep ==
    ASSUME DropInv, TableInv', NEW p \in Players, NEW id, OnPlayerGetDropItem(p, id)
    PROVE  DropInv'
  <1> DEFINE f == Found(id)
  <1>1. /\ \E i \in DOMAIN alive : alive[i].id = id
        /\ alive' = RemoveAt(alive, f)
        /\ coinCount' = [coinCount EXCEPT ![p] = Paid(p, alive[f].kind)]
        /\ gained' = [gained EXCEPT ![p] = IF TypeOf[alive[f].kind] = Icon THEN @ + 1 ELSE @]
        /\ UNCHANGED <<configVars, loaded, playing, gID, made, refreshIndex, timer,
                       initialised, round, starters>>
    BY DEF OnPlayerGetDropItem
  <1>2. alive \in Seq(Item) /\ Len(alive) \in Nat /\ f \in 1..Len(alive)
    <2>1. alive \in Seq(Item)
      BY DEF DropInv, TypeOK, Item
    <2>2. f \in DOMAIN alive
      BY <1>1, FoundLast DEF DropInv
    <2> HIDE DEF f
    <2> QED
      BY <2>1, <2>2
  <1> HIDE DEF f
  <1> DEFINE src(j) == IF j < f THEN j ELSE j + 1
  <1>3. /\ alive' \in Seq(Item) /\ Len(alive') = Len(alive) - 1
        /\ \A j \in 1..(Len(alive) - 1) : alive'[j] = IF j < f THEN alive[j] ELSE alive[j + 1]
    BY <1>1, <1>2, Removed
  <1>4. /\ DOMAIN alive' = 1..(Len(alive) - 1) /\ DOMAIN alive = 1..Len(alive)
        /\ f \in Nat
    BY <1>2, <1>3
  <1>5. ASSUME NEW j \in DOMAIN alive'
        PROVE  src(j) \in DOMAIN alive /\ alive'[j] = alive[src(j)]
    BY <1>2, <1>3, <1>4
  <1>6. ASSUME NEW i \in DOMAIN alive', NEW j \in DOMAIN alive'
        PROVE  (i <= j => src(i) <= src(j)) /\ (src(i) = src(j) => i = j)
    BY <1>2, <1>4
  <1> HIDE DEF src
  <1>7. TypeOK'
    <2>1. coinCount' \in [Players -> Nat] /\ gained' \in [Players -> Nat]
      <3>1. coinCount \in [Players -> Nat] /\ gained \in [Players -> Nat]
        BY DEF DropInv, TypeOK
      <3>2. \A k : Paid(p, k) \in Nat
        BY <3>1 DEF Paid
      <3>3. gained[p] + 1 \in Nat
        BY <3>1
      <3> QED
        BY <1>1, <3>1, <3>2, <3>3
    <2> QED
      BY <1>1, <1>3, <2>1 DEF DropInv, TypeOK, ConfigTypeOK, configVars, Item
  <1>8. Loading'
    <2>1. loaded
      BY <1>1 DEF DropInv, Loading
    <2> QED
      BY <1>1, <2>1 DEF DropInv, Loading, configVars
  <1>9. Tally'
    BY <1>1 DEF DropInv, Tally
  <1>10. \A j \in DOMAIN alive' : ThisRound(j)' <=> ThisRound(src(j))
    BY <1>1, <1>5 DEF ThisRound
  <1>11. Ordered'
    BY <1>1, <1>5, <1>6 DEF DropInv, Track, Ordered
  <1>12. Numbered'
    BY <1>1, <1>5, <1>10 DEF DropInv, Track, Numbered
  <1>13. NthDistinct'
    BY <1>5, <1>6, <1>10 DEF DropInv, Track, NthDistinct
  <1>14. IdsDistinct'
    BY <1>5, <1>6, <1>10 DEF DropInv, Track, IdsDistinct
  <1>15. ItemsWhereGiven'
    BY <1>1, <1>5 DEF DropInv, Track, ItemsWhereGiven, WithinRows, configVars
  <1> QED
    BY <1>7, <1>8, <1>9, <1>11, <1>12, <1>13, <1>14, <1>15 DEF DropInv, Track

LEMMA StepTrack ==
    ASSUME DropInv, [Next]_vars
    PROVE  DropInv'
  <1>0. TableInv'
    BY StepTable DEF DropInv, Loading
  <1>1. CASE Script
    BY <1>0, <1>1, ScriptStep
  <1>2. ASSUME NEW S \in SUBSET Players, StartGame(S) PROVE DropInv'
    BY <1>0, <1>2, StartStep
  <1>3. ASSUME NEW t \in Steps, Update(t) PROVE DropInv'
    BY <1>0, <1>3, UpdateStep
  <1>4. ASSUME NEW p \in Players, NEW i \in DOMAIN alive, OnPlayerGetDropItem(p, alive[i].id)
        PROVE  DropInv'
    BY <1>0, <1>4, GetStep
  <1>5. ASSUME UNCHANGED <<configVars, loaded, items, coinCount, round, gained>>,
               playing' \in BOOLEAN, playing' => playing, starters' \subseteq Players
        PROVE  DropInv'
    <2>1. Track'
      BY <1>5, TrackSame DEF items
    <2>2. TypeOK'
      BY <1>5 DEF DropInv, TypeOK, ConfigTypeOK, configVars, items
    <2>3. Loading' /\ Tally'
      BY <1>0, <1>5 DEF DropInv, Loading, Tally, configVars, items
    <2> QED
      BY <2>1, <2>2, <2>3 DEF DropInv
  <1>6. CASE Stop
    BY <1>5, <1>6 DEF Stop, history, DropInv, TypeOK
  <1>7. ASSUME NEW p \in Players, ChangeHands(p) PROVE DropInv'
    BY <1>5, <1>7 DEF ChangeHands, DropInv, TypeOK
  <1>8. CASE UNCHANGED vars
    BY <1>5, <1>8 DEF vars, history, DropInv, TypeOK
  <1> QED
    BY <1>1, <1>2, <1>3, <1>4, <1>6, <1>7, <1>8 DEF Next

LEMMA InitTrack == Init => DropInv
  <1> SUFFICES ASSUME Init PROVE DropInv
    OBVIOUS
  <1> USE DEF Init, ConfigInit
  <1>1. TableInv
    BY ConfigAssumption DEF TableInv, Rows, DropRows
  <1>2. TypeOK
    <2>1. points \in Seq(0..MaxIndex) /\ Len(points) <= MaxPoints
      BY ConfigAssumption
    <2>2. ConfigTypeOK
      BY <1>1, <2>1 DEF ConfigTypeOK, TableInv
    <2>3. alive \in Seq([id : Nat, kind : Kinds, pos : Positions \cup {NONE},
                        nth : Nat, round : Nat])
      OBVIOUS
    <2>4. /\ gID \in Nat /\ round \in Nat /\ initialised \subseteq Kinds
          /\ made \in [Kinds -> Nat] /\ refreshIndex \in [Kinds -> Nat]
          /\ timer \in [Kinds -> Nat] /\ coinCount \in [Players -> Nat]
          /\ gained \in [Players -> Nat] /\ starters \subseteq Players
      OBVIOUS
    <2>5. loaded \in BOOLEAN /\ playing \in BOOLEAN
      OBVIOUS
    <2> QED
      BY <2>2, <2>3, <2>4, <2>5 DEF TypeOK
  <1>3. Loading
    BY <1>1 DEF Loading
  <1>4. Tally
    <2>1. \A k \in Kinds : Largest(InitCount[k], MaxCount[k]) >= 0
      BY DropAssumption DEF Largest
    <2> QED
      BY <2>1 DEF Tally
  <1>5. Track
    BY DEF Track, Ordered, Numbered, NthDistinct, IdsDistinct, ItemsWhereGiven
  <1> QED
    BY <1>2, <1>3, <1>4, <1>5 DEF DropInv

LEMMA DropInvariant == Spec => []DropInv
  BY InitTrack, StepTrack, PTL DEF Spec

\* The types: among them that nobody's coins go below 0, and that no position is read from
\* outside the block.
THEOREM DropTypes == Spec => []TypeOK
  <1>1. DropInv => TypeOK
    BY DEF DropInv
  <1> QED
    BY <1>1, DropInvariant, PTL

\* In every match each announced item has its own id, with any kinds and any number of
\* items and matches, though the ids start from 0 again each time.
THEOREM DistinctIds == Spec => []IdsDistinct
  <1>1. DropInv => IdsDistinct
    BY DEF DropInv, Track
  <1> QED
    BY <1>1, DropInvariant, PTL

\* Every item on the track lies where the script put the n-th one of its type, unless a
\* type was given more positions than its row holds.
THEOREM ItemsWherePut == Spec => []ItemsWhereGiven
  <1>1. DropInv => ItemsWhereGiven
    BY DEF DropInv, Track
  <1> QED
    BY <1>1, DropInvariant, PTL

\* The items of a kind have different numbers below its count, so there are no more of
\* them than the kind allows.
LEMMA FewEnough ==
    ASSUME DropInv
    PROVE  NeverOverfull
  <1> SUFFICES ASSUME NEW k \in Kinds
               PROVE  Cardinality({i \in DOMAIN alive : ThisRound(i) /\ alive[i].kind = k})
                          <= Largest(InitCount[k], MaxCount[k])
    BY DEF NeverOverfull
  <1> DEFINE I == {i \in DOMAIN alive : ThisRound(i) /\ alive[i].kind = k}
             N == 0..(made[k] - 1)
             f == [i \in I |-> alive[i].nth]
  <1>1. made[k] \in Nat /\ made[k] <= Largest(InitCount[k], MaxCount[k])
    BY DEF DropInv, TypeOK, Tally
  <1>2. \A i \in I : alive[i].nth \in N
    <2>1. \A i \in DOMAIN alive : alive[i].nth \in Nat
      <3>1. alive \in Seq(Item)
        BY DEF DropInv, TypeOK, Item
      <3>2. \A i \in DOMAIN alive : alive[i] \in Item
        BY <3>1
      <3> QED
        BY <3>2 DEF Item
    <2>2. \A i \in I : alive[i].nth < made[k]
      BY DEF DropInv, Track, Numbered
    <2> QED
      BY <1>1, <2>1, <2>2
  <1>3. f \in Injection(I, N)
    <2>1. \A i, j \in I : alive[i].nth = alive[j].nth => i = j
      BY DEF DropInv, Track, NthDistinct
    <2> QED
      BY <1>2, <2>1 DEF Injection, IsInjective
  <1>4. IsFiniteSet(N) /\ Cardinality(N) = made[k]
    <2>1. /\ IsFiniteSet(N)
          /\ Cardinality(N) = IF 0 > made[k] - 1 THEN 0 ELSE made[k] - 1 - 0 + 1
      BY <1>1, FS_Interval
    <2> QED
      BY <1>1, <2>1
  <1> HIDE DEF I, N, f
  <1>5. Cardinality(I) <= made[k] /\ Cardinality(I) \in Nat
    BY <1>3, <1>4, FS_Injection, FS_CardinalityType
  <1>6. Largest(InitCount[k], MaxCount[k]) \in Nat
    BY DropAssumption DEF Largest
  <1> QED
    BY <1>1, <1>5, <1>6 DEF I

\* However often the timers run out, there are never more items of a kind on the track
\* than the larger of its initial and its maximal number.
THEOREM TrackNeverOverfull == Spec => []NeverOverfull
  BY DropInvariant, FewEnough, PTL

\* A step that takes a leftover, or one that cannot be told from taking it, takes it because
\* this match has no item with that id: its items all lie behind, and the last one is taken.
LEMMA StepLeftovers ==
    ASSUME DropInv, [Next]_vars, NEW i \in DOMAIN alive,
           alive' = RemoveAt(alive, i), ~ThisRound(i),
           NEW j \in DOMAIN alive, ThisRound(j)
    PROVE  alive[j].id # alive[i].id
  <1> SUFFICES ASSUME alive[j].id = alive[i].id PROVE FALSE
    OBVIOUS
  <1>1. alive \in Seq(Item) /\ DOMAIN alive = 1..Len(alive) /\ Len(alive) \in Nat
    BY DEF DropInv, TypeOK, Item
  <1>2. \A k \in DOMAIN alive : alive[k].round \in Nat /\ alive[k].round <= round
    <2>1. \A k \in DOMAIN alive : alive[k] \in Item /\ k <= k
      BY <1>1
    <2> QED
      BY <2>1 DEF DropInv, Track, Ordered, Item
  <1>3. round \in Nat
    BY DEF DropInv, TypeOK
  \* i lies before every item of this match.
  <1>4. \A k, m \in DOMAIN alive : ThisRound(m) /\ ~ThisRound(k) => k < m
    <2> SUFFICES ASSUME NEW k \in DOMAIN alive, NEW m \in DOMAIN alive,
                        ThisRound(m), ~ThisRound(k), m <= k
                 PROVE  FALSE
      BY <1>1
    <2>1. alive[m].round <= alive[k].round
      BY DEF DropInv, Track, Ordered
    <2> QED
      BY <1>2, <1>3, <2>1 DEF ThisRound
  <1>5. Len(alive') = Len(alive) - 1
    BY <1>1, Removed
  <1>6. PICK p \in Players, n \in DOMAIN alive : OnPlayerGetDropItem(p, alive[n].id)
    <2>1. alive' # alive
      BY <1>1, <1>5
    <2>2. ASSUME NEW t \in Steps, Update(t) PROVE FALSE
      <3>1. loaded /\ alive' = alive \o NewItems(t)
        BY <2>2 DEF Update, DropInv, Loading
      <3>2. NewItems(t) \in Seq(Item)
        BY <3>1, UpdateCreates DEF CreatedUpto
      <3>3. Len(alive') = Len(alive) + Len(NewItems(t)) /\ Len(NewItems(t)) \in Nat
        BY <1>1, <3>1, <3>2, ConcatProperties
      <3> QED
        BY <1>1, <1>5, <3>3
    <2>3. ~Script /\ ~Stop /\ ~UNCHANGED vars
      BY <2>1 DEF Script, Stop, vars, items, DropInv, Loading
    <2>4. ~(\E S \in SUBSET Players : StartGame(S)) /\ ~(\E p \in Players : ChangeHands(p))
      BY <2>1 DEF StartGame, ChangeHands, items
    <2> QED
      BY <2>2, <2>3, <2>4 DEF Next
  <1> DEFINE id == alive[n].id
             f  == Found(id)
  <1>7. /\ f \in DOMAIN alive /\ alive[f].id = id
        /\ \A k \in DOMAIN alive : alive[k].id = id => k <= f
    BY FoundLast DEF DropInv
  <1>8. RemoveAt(alive, f) = RemoveAt(alive, i)
    BY <1>6 DEF OnPlayerGetDropItem
  <1> HIDE DEF id, f
  <1>9. alive[i] = alive[f]
    <2>1. i <= f \/ f <= i
      BY <1>1, <1>7
    <2> QED
      BY <1>1, <1>7, <1>8, <2>1, RemovedEqual
  <1>10. ~ThisRound(f) /\ j <= f
    BY <1>7, <1>9 DEF ThisRound
  <1>11. f < j
    BY <1>4, <1>7, <1>10
  <1> QED
    BY <1>1, <1>7, <1>10, <1>11

\* What an earlier match left on the track, of whose ids the new match has some again, is
\* never taken in place of an item of the match, for any number of matches.
THEOREM LeftoversNeverFirst == Spec => LeftoversLast
  <1>1. DropInv /\ [Next]_vars =>
            [\A i \in DOMAIN alive :
                alive' = RemoveAt(alive, i) /\ ~ThisRound(i)
                  => \A j \in DOMAIN alive : ThisRound(j) => alive[j].id # alive[i].id]_vars
    BY StepLeftovers
  <1> QED
    BY <1>1, DropInvariant, PTL DEF Spec, LeftoversLast
=============================================================================
