---------------------------- MODULE PruningProofs ----------------------------
(***************************************************************************)
(* The pruning point UTXO set of Pruning fits the commitment of the        *)
(* pruning point, the pruning points advance along the chain, and every    *)
(* transfer of PruningSync that ends with all chunks has exactly that set, *)
(* for any DAG, any depths, any number of crashes and any chunk size.      *)
(*                                                                         *)
(* First what is stored for the blocks of the DAG; then the inductive      *)
(* invariant of the node with one lemma per action; then the transfer.     *)
(***************************************************************************)
EXTENDS PruningSync, NumberLemmas, FiniteSetTheorems, TLAPS

-----------------------------------------------------------------------------
(* Messages in a sequence *)

(* Where the elements of a sequence are once its first is taken.           *)
LEMMA TailElements ==
  ASSUME NEW S, NEW w \in Seq(S), w # <<>>
  PROVE  /\ 1 \in DOMAIN w /\ Head(w) = w[1] /\ Tail(w) \in Seq(S)
         /\ \A k \in DOMAIN Tail(w) : /\ k + 1 \in DOMAIN w /\ k + 1 # 1
                                      /\ Tail(w)[k] = w[k + 1]
                                      /\ k + 1 = Len(w) => k = Len(Tail(w))
         /\ \A j, k \in DOMAIN Tail(w) : j # k => j + 1 # k + 1
         /\ \A k \in DOMAIN w : k # 1 => k - 1 \in DOMAIN Tail(w) /\ Tail(w)[k - 1] = w[k]
<1> DEFINE v == Tail(w)
<1>1. /\ Len(w) \in Nat \ {0} /\ DOMAIN w = 1..Len(w) /\ Len(v) = Len(w) - 1
      /\ DOMAIN v = 1..Len(w) - 1 /\ v \in Seq(S) /\ \A k \in DOMAIN v : v[k] = w[k + 1]
      /\ Head(w) = w[1]
  OBVIOUS
<1> HIDE DEF v
<1>2. \A k \in DOMAIN w : k # 1 => k - 1 \in DOMAIN v /\ v[k - 1] = w[k]
  BY <1>1
<1> QED BY <1>1, <1>2 DEF v

(* Where the elements of a sequence are once another is put behind them.   *)
LEMMA AppendElements ==
  ASSUME NEW S, NEW w \in Seq(S), NEW m
  PROVE  /\ \A k \in DOMAIN w : k \in DOMAIN Append(w, m) /\ Append(w, m)[k] = w[k]
         /\ Len(Append(w, m)) \in DOMAIN Append(w, m) /\ Append(w, m)[Len(Append(w, m))] = m
         /\ \A k \in DOMAIN Append(w, m) : k = Len(Append(w, m)) \/ k \in DOMAIN w
         /\ Len(Append(w, m)) \notin DOMAIN w
<1> DEFINE v == Append(w, m)
<1>1. /\ DOMAIN v = 1..Len(w) + 1 /\ DOMAIN w = 1..Len(w) /\ Len(w) \in Nat /\ Len(v) = Len(w) + 1
      /\ v[Len(w) + 1] = m /\ \A k \in DOMAIN w : v[k] = w[k]
  OBVIOUS
<1> HIDE DEF v
<1> QED BY <1>1 DEF v

-----------------------------------------------------------------------------
(* What is stored for a block *)

(* The blocks are finitely many naturals, and a parent comes earlier in    *)
(* Order than its child.                                                   *)
LEMMA BlockFacts ==
  /\ IsFiniteSet(Block) /\ Block \subseteq Nat /\ Genesis \in Block
  /\ \A k \in DOMAIN Order : Order[k] \in Block
  /\ \A b \in Block : \E k \in DOMAIN Order : b = Order[k]
  /\ DOMAIN Order \subseteq Nat
<1>1. Order \in Seq(Nat) /\ DOMAIN Order = 1..Len(Order) /\ Len(Order) \in Nat
  BY PruningAssumption
<1>2. IsFiniteSet(1..Len(Order))
  BY <1>1, FS_Interval
<1>3. Order \in Surjection(1..Len(Order), Block)
  BY <1>1 DEF Surjection, Block, Range
<1>4. IsFiniteSet(Block)
  BY <1>2, <1>3, FS_Surjection
<1>5. Block \subseteq Nat
  BY <1>1 DEF Block, Range
<1>6. /\ \A k \in DOMAIN Order : Order[k] \in Block
      /\ \A b \in Block : \E k \in DOMAIN Order : b = Order[k]
  BY DEF Block, Range
<1> QED BY <1>1, <1>4, <1>5, <1>6, PruningAssumption

(* The entry of a block in the table, field by field (BlockData).          *)
LEMMA Stored ==
  ASSUME NEW b \in Block, graph = Graph
  PROVE  /\ Past(b) = UNION {{p} \cup Past(p) : p \in Parents[b]}
         /\ PastUTXO(b) \subseteq Past(b)
         /\ Rank(b) = BlueScore(b) * (1 + Max(Block)) + b
         /\ b = Genesis => BlueScore(b) = 0 /\ Chain(b) = {b} /\ PastUTXO(b) = {}
         /\ b # Genesis =>
              /\ SelectedParent(b) = CHOOSE p \in Parents[b] : \A q \in Parents[b] : Rank(q) <= Rank(p)
              /\ Chain(b) = {b} \cup Chain(SelectedParent(b))
              /\ \E S \in SUBSET Past(b) :
                   BlueScore(b) = BlueScore(SelectedParent(b)) + 1 + Cardinality(S)
<1> DEFINE past == UNION {{p} \cup graph[p].past : p \in Parents[b]}
           s == IF b = Genesis THEN VirtualGenesis
                ELSE CHOOSE p \in Parents[b] : \A q \in Parents[b] : graph[q].rank <= graph[p].rank
           merged == IF b = Genesis THEN {} ELSE past \ (graph[s].past \cup {s})
           anticone(x) == {y \in past \ {x} : x \notin graph[y].past /\ y \notin graph[x].past}
           blues == {x \in merged : Cardinality(anticone(x)) <= K}
           score == IF b = Genesis THEN 0 ELSE graph[s].score + 1 + Cardinality(blues)
           rank == score * (1 + Max(Block)) + b
           chain == {b} \cup (IF b = Genesis THEN {} ELSE graph[s].chain)
           utxo == past \ UNION {Spends[x] : x \in past}
<1>1. graph[b] = [past |-> past, selectedParent |-> s, score |-> score, rank |-> rank,
                  chain |-> chain, utxo |-> utxo]
  <2>1. graph[b] = BlockData(graph, b)
    BY GraphAssumption
  <2> QED BY <2>1, Zenon DEF BlockData
<1>a. /\ graph[b].past = past /\ graph[b].selectedParent = s /\ graph[b].score = score
      /\ graph[b].rank = rank /\ graph[b].chain = chain /\ graph[b].utxo = utxo
  <2> HIDE DEF past, s, score, rank, chain, utxo
  <2> QED BY <1>1
<1>2. Past(b) = UNION {{p} \cup Past(p) : p \in Parents[b]}
  BY <1>a DEF Past
<1>3. PastUTXO(b) = Past(b) \ UNION {Spends[x] : x \in Past(b)}
  BY <1>a DEF Past, PastUTXO
<1>4. Rank(b) = BlueScore(b) * (1 + Max(Block)) + b
  <2> HIDE DEF score
  <2> QED BY <1>a, Zenon DEF Rank, BlueScore
<1>5. ASSUME b = Genesis
      PROVE  BlueScore(b) = 0 /\ Chain(b) = {b} /\ PastUTXO(b) = {}
  <2>1. BlueScore(b) = 0 /\ Chain(b) = {b}
    BY <1>a, <1>5 DEF BlueScore, Chain
  <2>2. Past(b) = {}
    BY <1>2, <1>5, PruningAssumption
  <2> QED BY <2>1, <2>2, <1>3
<1>6. ASSUME b # Genesis
      PROVE  /\ SelectedParent(b) = CHOOSE p \in Parents[b] : \A q \in Parents[b] : Rank(q) <= Rank(p)
             /\ Chain(b) = {b} \cup Chain(SelectedParent(b))
             /\ \E S \in SUBSET Past(b) :
                  BlueScore(b) = BlueScore(SelectedParent(b)) + 1 + Cardinality(S)
  <2>1. SelectedParent(b) = s /\ Past(b) = past
    BY <1>a DEF SelectedParent, Past
  <2>2. s = CHOOSE p \in Parents[b] : \A q \in Parents[b] : Rank(q) <= Rank(p)
    BY <1>6, Zenon DEF Rank
  <2>3. Chain(b) = {b} \cup Chain(s)
    <3> HIDE DEF s
    <3> QED BY <1>a, <1>6 DEF Chain
  <2>4. blues \subseteq past
    BY <1>6
  <2>5. BlueScore(b) = BlueScore(s) + 1 + Cardinality(blues)
    <3> HIDE DEF s, blues
    <3> QED BY <1>a, <1>6 DEF BlueScore
  <2> HIDE DEF s, blues, past
  <2> QED BY <2>1, <2>2, <2>3, <2>4, <2>5, Zenon
<1> QED BY <1>2, <1>3, <1>4, <1>5, <1>6

(* Block numbers are bounded, and a rank is a natural when the score is.   *)
LEMMA RankType ==
  ASSUME NEW b \in Block, graph = Graph, BlueScore(b) \in Nat
  PROVE  /\ Max(Block) \in Nat /\ b \in Nat /\ b <= Max(Block)
         /\ Rank(b) \in Nat
<1>1. Max(Block) \in Nat /\ b \in Nat /\ b <= Max(Block)
  BY BlockFacts, MaxProps, Zenon
<1>2. \A x, y \in Nat : x * y \in Nat
  OBVIOUS
<1>3. BlueScore(b) * (1 + Max(Block)) \in Nat
  BY <1>1, <1>2
<1>4. Rank(b) = BlueScore(b) * (1 + Max(Block)) + b
  BY Stored
<1> HIDE DEF Rank, BlueScore
<1>5. BlueScore(b) * (1 + Max(Block)) + b \in Nat
  BY <1>1, <1>3
<1> QED BY <1>1, <1>4, <1>5

(* Highest and Lowest find a block of every non-empty set of blocks.       *)
LEMMA Extremes ==
  ASSUME NEW S, S \subseteq Block, S # {}, \A b \in S : Rank(b) \in Nat
  PROVE  /\ Highest(S) \in S /\ \A a \in S : Rank(a) <= Rank(Highest(S))
         /\ Lowest(S) \in S /\ \A a \in S : Rank(Lowest(S)) <= Rank(a)
<1> DEFINE R == {Rank(b) : b \in S}
<1>1. IsFiniteSet(S)
  BY BlockFacts, FS_Subset, Zenon
<1>2. [b \in S |-> Rank(b)] \in Surjection(S, R)
  BY DEF Surjection
<1>3. IsFiniteSet(R)
  BY <1>1, <1>2, FS_Surjection
<1>4. R \subseteq Nat /\ R # {}
  OBVIOUS
<1>5. Max(R) \in R /\ \A y \in R : y <= Max(R)
  BY <1>3, <1>4, MaxProps, Zenon
<1>6. \E b \in S : \A a \in S : Rank(a) <= Rank(b)
  <2>1. PICK b \in S : Rank(b) = Max(R)
    BY <1>5, Zenon
  <2> QED BY <1>5, <2>1
<1>7. PICK m \in R : \A y \in R : m <= y
  BY <1>4, LeastNat, Zenon
<1>8. \E b \in S : \A a \in S : Rank(b) <= Rank(a)
  <2>1. PICK b \in S : Rank(b) = m
    OBVIOUS
  <2> QED BY <1>7, <2>1
<1>9. Highest(S) \in S /\ \A a \in S : Rank(a) <= Rank(Highest(S))
  BY <1>6 DEF Highest
<1>10. Lowest(S) \in S /\ \A a \in S : Rank(Lowest(S)) <= Rank(a)
  BY <1>8 DEF Lowest
<1> QED BY <1>9, <1>10

(* The higher score has the higher rank, whatever the hashes.              *)
LEMMA ScoreDecides ==
  ASSUME NEW x \in Nat, NEW y \in Nat, NEW m \in Nat, x < y,
         NEW a \in Nat, NEW b \in Nat, a <= m
  PROVE  x * (1 + m) + a < y * (1 + m) + b
<1>1. PICK d \in Nat : y = x + 1 + d
  <2>1. y - x - 1 \in Nat /\ y = x + 1 + (y - x - 1)
    OBVIOUS
  <2> QED BY <2>1
<1>2. (x + 1 + d) * (1 + m) = x * (1 + m) + (1 + m) + d * (1 + m)
  OBVIOUS
<1>3. d * (1 + m) \in Nat /\ x * (1 + m) \in Nat
  <2>1. \A u, v \in Nat : u * v \in Nat
    OBVIOUS
  <2> QED BY <2>1
<1> QED BY <1>1, <1>2, <1>3

(* What the table holds for a block on top of its parents.                 *)
Sound(b) ==
  /\ Past(b) \subseteq Block /\ Parents[b] \subseteq Past(b)
  /\ \A p \in Parents[b] : Past(p) \subseteq Past(b)
  /\ BlueScore(b) \in Nat /\ Rank(b) \in Nat
  /\ b \in Chain(b) /\ Chain(b) \subseteq {b} \cup Past(b)
  /\ b # Genesis => /\ SelectedParent(b) \in Parents[b]
                    /\ BlueScore(SelectedParent(b)) < BlueScore(b)
                    /\ Rank(SelectedParent(b)) < Rank(b)
                    /\ Chain(b) = {b} \cup Chain(SelectedParent(b))

(* One block is sound when the blocks before it in Order are.              *)
LEMMA SoundStep ==
  ASSUME graph = Graph, NEW b \in Block,
         b # Genesis => Parents[b] # {} /\ Parents[b] \subseteq Block,
         \A p \in Parents[b] : Sound(p)
  PROVE  Sound(b)
<1>1. CASE b = Genesis
  <2>1. Parents[b] = {} /\ Past(b) = {}
    BY <1>1, PruningAssumption, Stored
  <2>2. BlueScore(b) = 0 /\ Chain(b) = {b}
    BY <1>1, Stored
  <2>3. Rank(b) \in Nat
    BY <2>2, RankType
  <2> QED BY <1>1, <2>1, <2>2, <2>3 DEF Sound
<1>2. CASE b # Genesis
  <2> DEFINE s == SelectedParent(b)
  <2>1. Parents[b] # {} /\ Parents[b] \subseteq Block
    BY <1>2
  <2>2. \A p \in Parents[b] : Rank(p) \in Nat /\ Past(p) \subseteq Block
    BY DEF Sound
  <2>3. Highest(Parents[b]) \in Parents[b]
    BY <2>1, <2>2, Extremes
  <2>4. s = Highest(Parents[b])
    BY <1>2, Stored DEF Highest
  <2>5. Past(b) = UNION {{p} \cup Past(p) : p \in Parents[b]}
    BY Stored
  <2>6. Past(b) \subseteq Block /\ Parents[b] \subseteq Past(b)
    BY <2>1, <2>2, <2>5
  <2>7. \A p \in Parents[b] : Past(p) \subseteq Past(b)
    BY <2>5
  <2>8. Sound(s) /\ s \in Parents[b] /\ s \in Block
    BY <2>1, <2>3, <2>4
  <2>9. PICK S \in SUBSET Past(b) : BlueScore(b) = BlueScore(s) + 1 + Cardinality(S)
    BY <1>2, Stored
  <2>10. IsFiniteSet(S) /\ Cardinality(S) \in Nat
    BY <2>6, BlockFacts, FS_Subset, FS_CardinalityType
  <2>11. BlueScore(s) \in Nat /\ Rank(s) \in Nat /\ Chain(s) \subseteq {s} \cup Past(s)
    BY <2>8 DEF Sound
  <2>12. BlueScore(b) \in Nat /\ BlueScore(s) < BlueScore(b)
    BY <2>9, <2>10, <2>11
  <2>13. Rank(b) \in Nat /\ b \in Nat /\ Max(Block) \in Nat
    BY <2>12, RankType
  <2>14. s \in Nat /\ s <= Max(Block)
    BY <2>8, <2>11, RankType
  <2>15. Rank(s) < Rank(b)
    <3>1. Rank(b) = BlueScore(b) * (1 + Max(Block)) + b
      BY Stored
    <3>2. Rank(s) = BlueScore(s) * (1 + Max(Block)) + s
      BY <2>8, Stored
    <3>3. BlueScore(s) * (1 + Max(Block)) + s < BlueScore(b) * (1 + Max(Block)) + b
      BY <2>11, <2>12, <2>13, <2>14, ScoreDecides
    <3> QED BY <3>1, <3>2, <3>3
  <2>16. Chain(b) = {b} \cup Chain(s)
    BY <1>2, Stored
  <2>17. b \in Chain(b) /\ Chain(b) \subseteq {b} \cup Past(b)
    BY <2>6, <2>7, <2>8, <2>11, <2>16
  <2> QED BY <2>6, <2>7, <2>8, <2>12, <2>13, <2>15, <2>16, <2>17 DEF Sound
<1> QED BY <1>1, <1>2

(* The parents of a block are blocks that come before it in Order.         *)
LEMMA ParentsBefore ==
  ASSUME NEW k \in DOMAIN Order, Order[k] # Genesis
  PROVE  /\ Parents[Order[k]] # {} /\ Parents[Order[k]] \subseteq Block
         /\ \A p \in Parents[Order[k]] : \E j \in DOMAIN Order : j < k /\ p = Order[j]
<1>1. DOMAIN Order = 1..Len(Order) /\ Len(Order) \in Nat
  BY PruningAssumption
<1>2. /\ Parents[Order[k]] # {}
      /\ Parents[Order[k]] \subseteq {Order[j] : j \in 1..k - 1}
  BY PruningAssumption
<1>3. \A j \in 1..k - 1 : j \in DOMAIN Order /\ j < k
  BY <1>1
<1> QED BY <1>2, <1>3, BlockFacts

(* Every block of the table is sound.                                      *)
LEMMA TableSound ==
  ASSUME graph = Graph
  PROVE  \A b \in Block : Sound(b) /\ (b # Genesis => Parents[b] # {}) /\ Parents[b] \subseteq Block
<1> DEFINE H == {n \in Nat : n \in DOMAIN Order => Sound(Order[n])}
<1>1. ASSUME NEW n \in Nat, \A m \in 0..(n - 1) : m \in H
      PROVE  n \in H
  <2> SUFFICES ASSUME n \in DOMAIN Order PROVE Sound(Order[n])
    OBVIOUS
  <2>1. Order[n] \in Block /\ DOMAIN Order \subseteq Nat
    BY BlockFacts
  <2>2. CASE Order[n] = Genesis
    <3>1. Parents[Order[n]] = {}
      BY <2>2, PruningAssumption
    <3> QED BY <2>1, <2>2, <3>1, SoundStep
  <2>3. CASE Order[n] # Genesis
    <3>1. ASSUME NEW p \in Parents[Order[n]]
          PROVE  Sound(p)
      <4>1. PICK j \in DOMAIN Order : j < n /\ p = Order[j]
        BY <2>3, ParentsBefore
      <4>2. j \in H
        BY <1>1, <2>1, <4>1
      <4> QED BY <4>1, <4>2
    <3>2. Parents[Order[n]] # {} /\ Parents[Order[n]] \subseteq Block
      BY <2>3, ParentsBefore
    <3> QED BY <2>1, <3>1, <3>2, SoundStep
  <2> QED BY <2>2, <2>3
<1>2. Nat \subseteq H
  <2> HIDE DEF H
  <2> QED BY <1>1, NoLeastCounterexample
<1>3. ASSUME NEW b \in Block
      PROVE  Sound(b) /\ (b # Genesis => Parents[b] # {}) /\ Parents[b] \subseteq Block
  <2>1. PICK k \in DOMAIN Order : b = Order[k]
    BY BlockFacts
  <2>2. Sound(b)
    BY <1>2, <2>1, BlockFacts
  <2> QED BY <2>1, <2>2, ParentsBefore, PruningAssumption
<1> QED BY <1>3

(* A selected chain is a line: the chain of a block on it is a part of it, *)
(* below it in rank, and everything on it of lower rank is on that part.   *)
Linear(b) ==
  \A c \in Chain(b) :
    /\ Chain(c) \subseteq Chain(b) /\ Rank(c) <= Rank(b)
    /\ \A a \in Chain(b) : Rank(a) <= Rank(c) => a \in Chain(c)

(* One chain is a line when the chain of its selected parent is.           *)
LEMMA LinearStep ==
  ASSUME graph = Graph, NEW b \in Block,
         b # Genesis => Linear(SelectedParent(b))
  PROVE  Linear(b)
<1>1. Sound(b) /\ Rank(b) \in Nat /\ b \in Chain(b)
  BY TableSound DEF Sound
<1>2. CASE b = Genesis
  <2>1. Chain(b) = {b}
    BY <1>2, Stored
  <2> QED BY <1>1, <2>1 DEF Linear
<1>3. CASE b # Genesis
  <2> DEFINE s == SelectedParent(b)
  <2>1. s \in Block /\ Sound(s) /\ Rank(s) < Rank(b) /\ Chain(b) = {b} \cup Chain(s)
    BY <1>1, <1>3, TableSound DEF Sound
  <2>2. \A c \in Chain(s) : c \in Block /\ Rank(c) \in Nat /\ Rank(s) \in Nat
    BY <2>1, TableSound DEF Sound
  <2> HIDE DEF s
  <2>3. ASSUME NEW c \in Chain(b)
        PROVE  /\ Chain(c) \subseteq Chain(b) /\ Rank(c) <= Rank(b)
               /\ \A a \in Chain(b) : Rank(a) <= Rank(c) => a \in Chain(c)
    <3>1. CASE c = b
      BY <1>1, <3>1
    <3>2. CASE c \in Chain(s)
      <4>1. /\ Chain(c) \subseteq Chain(s) /\ Rank(c) <= Rank(s)
            /\ \A a \in Chain(s) : Rank(a) <= Rank(c) => a \in Chain(c)
        BY <1>3, <3>2 DEF Linear, s
      <4>2. Rank(c) < Rank(b)
        BY <1>1, <2>1, <2>2, <3>2, <4>1
      <4>3. ~(Rank(b) <= Rank(c)) /\ Rank(c) <= Rank(b)
        BY <1>1, <2>2, <3>2, <4>2
      <4> QED BY <2>1, <4>1, <4>3
    <3> QED BY <2>1, <3>1, <3>2
  <2> QED BY <2>3 DEF Linear
<1> QED BY <1>2, <1>3

(* Every selected chain is a line.                                         *)
LEMMA ChainsAreLinear ==
  ASSUME graph = Graph
  PROVE  \A b \in Block : Linear(b)
<1> DEFINE H == {n \in Nat : n \in DOMAIN Order => Linear(Order[n])}
<1>1. ASSUME NEW n \in Nat, \A m \in 0..(n - 1) : m \in H
      PROVE  n \in H
  <2> SUFFICES ASSUME n \in DOMAIN Order PROVE Linear(Order[n])
    OBVIOUS
  <2>1. Order[n] \in Block /\ DOMAIN Order \subseteq Nat
    BY BlockFacts
  <2>2. ASSUME Order[n] # Genesis
        PROVE  Linear(SelectedParent(Order[n]))
    <3>1. SelectedParent(Order[n]) \in Parents[Order[n]]
      BY <2>1, <2>2, TableSound DEF Sound
    <3>2. PICK j \in DOMAIN Order : j < n /\ SelectedParent(Order[n]) = Order[j]
      BY <2>2, <3>1, ParentsBefore
    <3>3. j \in H
      BY <1>1, <2>1, <3>2
    <3> QED BY <3>2, <3>3
  <2> QED BY <2>1, <2>2, LinearStep
<1>2. Nat \subseteq H
  <2> HIDE DEF H
  <2> QED BY <1>1, NoLeastCounterexample
<1>3. ASSUME NEW b \in Block
      PROVE  Linear(b)
  <2>1. PICK k \in DOMAIN Order : b = Order[k]
    BY BlockFacts
  <2> QED BY <1>2, <2>1, BlockFacts
<1> QED BY <1>3

-----------------------------------------------------------------------------
(* What the operations of the node return *)

(* Highest and Lowest of blocks of the table.                              *)
LEMMA ExtremeBlocks ==
  ASSUME graph = Graph, NEW S, S \subseteq Block, S # {}
  PROVE  /\ Highest(S) \in S /\ \A a \in S : Rank(a) <= Rank(Highest(S))
         /\ Lowest(S) \in S /\ \A a \in S : Rank(Lowest(S)) <= Rank(a)
<1>1. \A b \in S : Rank(b) \in Nat
  BY TableSound DEF Sound
<1> QED BY <1>1, Extremes

(* Finality scores are naturals.                                           *)
LEMMA FinalityScoreType ==
  ASSUME graph = Graph, NEW b \in Block
  PROVE  FinalityScore(b) \in Nat
<1>1. BlueScore(b) \in Nat
  BY TableSound DEF Sound
<1>2. \A x \in Nat, y \in Nat \ {0} : x \div y \in Nat
  OBVIOUS
<1> QED BY <1>1, <1>2, PruningAssumption DEF FinalityScore

(* A set of blocks with all their ancestors, such as the stored headers.   *)
Closed(D) == D \subseteq Block /\ \A b \in D : Past(b) \subseteq D

(* It contains the selected chains of its blocks.                          *)
LEMMA ClosedChains ==
  ASSUME graph = Graph, NEW D, Closed(D), NEW b \in D
  PROVE  /\ Chain(b) \subseteq D /\ b \in Chain(b)
         /\ b # Genesis => /\ SelectedParent(b) \in D
                           /\ Chain(SelectedParent(b)) \subseteq Chain(b)
<1>1. b \in Block /\ Past(b) \subseteq D
  BY DEF Closed
<1>2. Sound(b)
  BY <1>1, TableSound
<1> QED BY <1>1, <1>2 DEF Sound

(* The point stays on the chain of the candidate; a point that moves does  *)
(* so along the chain of top, to a higher finality score.                  *)
Advances(next, top) ==
  /\ next.point \in Chain(next.candidate)
  /\ next.point # PruningPoint => /\ next.point \in Chain(top)
                                 /\ PruningPoint \in Chain(next.point)
                                 /\ FinalityScore(next.point) > FinalityScore(PruningPoint)

(* The walk of nextPruningPointAndCandidateByBlockHash ends on the chain   *)
(* it walks, and moves the point only up in finality score.                *)
LEMMA NextPoint ==
  ASSUME graph = Graph, NEW D, Closed(D), NEW score, NEW top \in D, NEW low,
         PruningPoint \in D, candidate \in D
  PROVE  /\ NextPruningPointAndCandidate(score, top, low).point \in D
         /\ NextPruningPointAndCandidate(score, top, low).candidate \in D
         /\ low = candidate /\ PruningPoint \in Chain(candidate) =>
              Advances(NextPruningPointAndCandidate(score, top, low), top)
<1> DEFINE next == NextPruningPointAndCandidate(score, top, low)
           deep == {c \in Chain(top) : low \in Chain(c) /\ DeepEnough(score, c)}
           F == {FinalityScore(c) : c \in deep}
           first == {c \in deep : FinalityScore(c) = Max(F)}
<1>1. CASE deep = {}
  <2>1. next = NoMove
    BY <1>1 DEF NextPruningPointAndCandidate
  <2> QED BY <2>1 DEF NoMove, Advances
<1>2. CASE deep # {}
  <2>1. deep \subseteq D /\ D \subseteq Block
    BY ClosedChains DEF Closed
  <2>2. next = [candidate |-> Highest(deep),
                point |-> IF Max(F) > FinalityScore(PruningPoint) THEN Lowest(first)
                          ELSE PruningPoint]
    BY <1>2, Zenon DEF NextPruningPointAndCandidate
  <2>3. Highest(deep) \in deep
    <3> HIDE DEF deep
    <3> QED BY <1>2, <2>1, ExtremeBlocks
  <2>4. Max(F) \in F
    <3>1. IsFiniteSet(deep)
      BY <2>1, BlockFacts, FS_Subset, Zenon
    <3>2. [c \in deep |-> FinalityScore(c)] \in Surjection(deep, F)
      BY DEF Surjection
    <3>3. IsFiniteSet(F)
      BY <3>1, <3>2, FS_Surjection
    <3>4. F \subseteq Nat /\ F # {}
      <4> HIDE DEF deep
      <4> QED BY <1>2, <2>1, FinalityScoreType
    <3> QED BY <3>3, <3>4, MaxProps, Zenon
  <2>5. first # {} /\ first \subseteq deep
    BY <2>4, Zenon
  <2>6. Lowest(first) \in first
    <3> HIDE DEF deep, first
    <3> QED BY <2>1, <2>5, ExtremeBlocks
  <2>a. ASSUME low = candidate, PruningPoint \in Chain(candidate),
               NEW c \in deep
        PROVE  PruningPoint \in Chain(c)
    <3>1. candidate \in Chain(c) /\ c \in Block
      BY <2>a, <2>1
    <3>2. Chain(candidate) \subseteq Chain(c)
      BY <3>1, ChainsAreLinear DEF Linear
    <3> QED BY <2>a, <3>2
  <2>b. ASSUME NEW c \in deep
        PROVE  c \in Chain(top) /\ c \in Chain(Highest(deep))
    <3>1. Rank(c) <= Rank(Highest(deep))
      <4> HIDE DEF deep
      <4> QED BY <1>2, <2>1, ExtremeBlocks
    <3>2. c \in Chain(top) /\ Highest(deep) \in Chain(top) /\ top \in Block
      BY <2>3, <2>1
    <3> QED BY <3>1, <3>2, ChainsAreLinear DEF Linear
  <2>c. \A c \in first : FinalityScore(c) = Max(F)
    OBVIOUS
  <2> HIDE DEF next, deep, first, F
  <2>7. Lowest(first) \in D /\ Highest(deep) \in D
    BY <2>1, <2>3, <2>5, <2>6
  <2>8. next.candidate \in D /\ next.point \in D
    BY <2>2, <2>7
  <2>9. ASSUME low = candidate, PruningPoint \in Chain(candidate)
        PROVE  Advances(next, top)
    <3>1. CASE Max(F) > FinalityScore(PruningPoint)
      <4>1. next.point = Lowest(first) /\ next.candidate = Highest(deep)
        BY <2>2, <3>1
      <4>2. Lowest(first) \in deep /\ FinalityScore(Lowest(first)) = Max(F)
        BY <2>5, <2>6, <2>c
      <4> QED BY <2>9, <2>a, <2>b, <3>1, <4>1, <4>2 DEF Advances
    <3>2. CASE ~(Max(F) > FinalityScore(PruningPoint))
      <4>1. next.point = PruningPoint /\ next.candidate = Highest(deep)
        BY <2>2, <3>2
      <4> QED BY <2>9, <2>3, <2>a, <4>1 DEF Advances
    <3> QED BY <3>1, <3>2
  <2> QED BY <2>8, <2>9 DEF next
<1> QED BY <1>1, <1>2

(* A merge depth root or finality point is a stored block or the virtual   *)
(* genesis.                                                                *)
LEMMA ChainPointType ==
  ASSUME graph = Graph, NEW D, Closed(D), NEW parents, parents \subseteq D, parents # {},
         NEW depth, NEW field, Genesis \in D, PruningPoint \in D,
         \A b \in D : roots[b][field] \in D \cup {VirtualGenesis}
  PROVE  ChainPointBelow(parents, depth, field) \in D \cup {VirtualGenesis}
<1> DEFINE s == Highest(parents)
           start == IF roots[s][field] = VirtualGenesis THEN PruningPoint ELSE roots[s][field]
           up == {start} \cup {c \in Chain(s) : Less(start, c) /\ BlueScore(c) < ScoreOf(parents) - depth}
<1>1. s \in D
  BY ExtremeBlocks DEF Closed
<1>2. start \in D
  BY <1>1
<1>3. up \subseteq D /\ up # {} /\ D \subseteq Block
  BY <1>1, <1>2, ClosedChains, Zenon DEF Closed
<1>4. Highest(up) \in D
  <2> HIDE DEF up
  <2> QED BY <1>3, ExtremeBlocks
<1>5. ChainPointBelow(parents, depth, field) \in {Genesis, VirtualGenesis, Highest(up)}
  BY Zenon DEF ChainPointBelow
<1> HIDE DEF up
<1> QED BY <1>4, <1>5

(* The point below which the virtual is final is never disqualified, so    *)
(* there is always a block the virtual can select.                         *)
LEMMA SomeBlockAllowed ==
  ASSUME graph = Graph, NEW D, Closed(D), virtual \subseteq D, virtual # {},
         Genesis \in D, PruningPoint \in D,
         \A b \in D : roots[b].finalityPoint \in D \cup {VirtualGenesis}
  PROVE  \E b \in D : ~ IsViolatingFinality(b)
<1> DEFINE final == FinalityPoint(virtual)
           point == IF IsAncestorOf(final, PruningPoint) THEN PruningPoint ELSE final
<1>1. \A b \in D : roots[b]["finalityPoint"] \in D \cup {VirtualGenesis}
  OBVIOUS
<1>2. final \in D \cup {VirtualGenesis}
  BY <1>1, ChainPointType DEF FinalityPoint
<1>3. final = VirtualGenesis => IsAncestorOf(final, PruningPoint)
  BY DEF IsAncestorOf
<1>4. point \in D
  <2> HIDE DEF final
  <2> QED BY <1>2, <1>3
<1>5. point \in Chain(point)
  BY <1>4, ClosedChains
<1>6. ~ IsViolatingFinality(point)
  BY <1>5 DEF IsViolatingFinality, IsInSelectedParentChainOf
<1> QED BY <1>4, <1>6

(* pickVirtualParents keeps the block it selects.                          *)
LEMMA VirtualParents ==
  ASSUME graph = Graph, NEW D, D \subseteq Block, NEW T, NEW Q, D \ Q # {}
  PROVE  /\ PickVirtualParents(T, D, Q) \subseteq D
         /\ PickVirtualParents(T, D, Q) # {}
<1> DEFINE s == Highest(D \ Q)
           parents == {s} \cup ParentCandidates(T, D, Q, s)
           h == Highest(parents)
<1>1. s \in D
  BY ExtremeBlocks
<1>2. parents \subseteq D /\ parents # {}
  BY <1>1 DEF ParentCandidates
<1>3. h \in parents
  <2> HIDE DEF parents
  <2> QED BY <1>2, ExtremeBlocks
<1>4. PickVirtualParents(T, D, Q) = {p \in parents : \A r \in BadReds(parents) : ~ IsAncestorOf(r, p)}
  BY DEF PickVirtualParents
<1> HIDE DEF parents
<1>5. ASSUME NEW r \in BadReds(parents)
      PROVE  ~ IsAncestorOf(r, h)
  <2>1. r \in PastOf(parents) /\ r \notin PastOf({h})
    BY DEF BadReds, Reds, MergeSet
  <2>2. r # h /\ r \notin Past(h)
    BY <2>1 DEF PastOf
  <2>3. \A p \in parents : p \in Block /\ Past(p) \subseteq Block
    BY <1>2, TableSound DEF Sound
  <2>4. r \in Block
    BY <2>1, <2>3 DEF PastOf
  <2>5. r # VirtualGenesis
    BY <2>4, PruningAssumption
  <2> QED BY <2>2, <2>5 DEF IsAncestorOf
<1> QED BY <1>2, <1>3, <1>4, <1>5

(* The diff children stay blocks.                                          *)
LEMMA ResolveType ==
  ASSUME diffChild \in [Block -> Block \cup {NoBlock}], NEW old, NEW new \in Block,
         Chain(new) \subseteq Block
  PROVE  Resolve(old, new) \in [Block -> Block \cup {NoBlock}]
<1> DEFINE pending == Chain(new) \ valid
           linked == IF Cardinality(pending) > 1 THEN pending ELSE {}
           toOld == [diffChild EXCEPT ![old] = new, ![new] = NoBlock]
           child(b) == CHOOSE c \in linked : SelectedParent(c) = b
           link(b) == IF \E c \in linked : SelectedParent(c) = b THEN child(b) ELSE toOld[b]
<1>1. CASE old = new
  BY <1>1 DEF Resolve
<1>2. CASE old # new
  <2>1. Resolve(old, new) = [b \in Block |-> link(b)]
    BY <1>2, Zenon DEF Resolve
  <2>2. linked \subseteq Block
    OBVIOUS
  <2>3. toOld \in [Block -> Block \cup {NoBlock}]
    OBVIOUS
  <2>4. ASSUME NEW b \in Block
        PROVE  link(b) \in Block \cup {NoBlock}
    <3>1. CASE \E c \in linked : SelectedParent(c) = b
      <4>1. child(b) \in linked
        <5> HIDE DEF linked
        <5> QED BY <3>1
      <4> HIDE DEF linked, toOld, child
      <4> QED BY <2>2, <3>1, <4>1
    <3>2. CASE ~ \E c \in linked : SelectedParent(c) = b
      <4> HIDE DEF linked, toOld, child
      <4> QED BY <2>3, <3>2
    <3> QED BY <3>1, <3>2
  <2> HIDE DEF link
  <2> QED BY <2>1, <2>4
<1> QED BY <1>1, <1>2

(* The pruning point a header has to name is a block.                      *)
LEMMA HeaderPointType ==
  ASSUME graph = Graph, NEW parents, parents \subseteq Block, parents # {},
         header \in [Block -> Block \cup {NoBlock}],
         points \in Seq(Block), points # <<>>, candidate \in Block
  PROVE  ExpectedHeaderPruningPoint(parents) \in Block \cup {NoBlock}
<1> DEFINE s == Highest(parents)
           score == ScoreOf(parents)
           low == LowHash(SuggestedLow(s))
           moved == NextPruningPointAndCandidate(score, s, low).point
           next == IF MayMovePruningPoint(s, score) THEN moved ELSE header[s]
           deepPoints == {k \in DOMAIN points : DeepEnough(score, points[k])}
<1>1. s \in Block
  BY ExtremeBlocks
<1>2. Closed(Block)
  BY TableSound DEF Closed, Sound
<1>3. PruningPoint \in Block
  BY DEF PruningPoint
<1>4. moved \in Block
  BY <1>1, <1>2, <1>3, NextPoint
<1>5. next \in Block \cup {NoBlock}
  <2> HIDE DEF moved
  <2> QED BY <1>1, <1>4
<1>6. ASSUME deepPoints # {}
      PROVE  points[Max(deepPoints)] \in Block
  <2>1. deepPoints \subseteq 1..Len(points) /\ Len(points) \in Nat
    OBVIOUS
  <2>2. IsFiniteSet(deepPoints) /\ deepPoints \subseteq Nat
    <3>1. IsFiniteSet(1..Len(points))
      BY <2>1, FS_Interval
    <3> HIDE DEF deepPoints
    <3>2. IsFiniteSet(deepPoints)
      BY <2>1, <3>1, FS_Subset, Zenon
    <3> QED BY <2>1, <3>2
  <2>3. Max(deepPoints) \in deepPoints
    <3> HIDE DEF deepPoints
    <3> QED BY <1>6, <2>2, MaxProps, Zenon
  <2>4. Max(deepPoints) \in 1..Len(points)
    BY <2>1, <2>3
  <2> HIDE DEF deepPoints
  <2> QED BY <2>4
<1>7. ExpectedHeaderPruningPoint(parents) =
        IF s = Genesis THEN Genesis
        ELSE IF DeepEnough(score, next) THEN next
        ELSE IF deepPoints # {} THEN points[Max(deepPoints)]
        ELSE Genesis
  BY Zenon DEF ExpectedHeaderPruningPoint
<1> HIDE DEF next, deepPoints, s, score
<1> QED BY <1>5, <1>6, <1>7, BlockFacts

-----------------------------------------------------------------------------
(* The inductive invariant of the node *)

(* The UTXO set is that of the pruning point.                              *)
Settled == utxos = PastUTXO(PruningPoint)

(* While an update is pending the UTXO set lies between the sets of the    *)
(* two points, wherever a crash interrupted the writing: what both have is *)
(* there, and nothing neither has.  The flag is up exactly while the steps *)
(* of updatePruningPoint run, and after the second of them the set is      *)
(* written.                                                                *)
Phase ==
  /\ pc \in {"ready", "start"} => ~ updating
  /\ pc \in {"utxo", "delete", "finish"} => updating
  /\ pc \in {"delete", "finish"} => Settled
  /\ ~ updating => Settled
  /\ updating => /\ Len(points) > 1
                 /\ PastUTXO(PreviousPoint) \cap PastUTXO(PruningPoint) \subseteq utxos
                 /\ utxos \subseteq PastUTXO(PreviousPoint) \cup PastUTXO(PruningPoint)

(* The stored headers with what is stored for them: the headers are closed *)
(* under ancestors, finality points are among them, and the pruning point  *)
(* is on the chain of the candidate.                                       *)
Stores ==
  /\ graph = Graph
  /\ Genesis \in dag /\ Closed(dag)
  /\ virtual # {}
  /\ \A b \in dag : roots[b].finalityPoint \in dag \cup {VirtualGenesis}
  /\ PruningPoint \in Chain(candidate)

PruningIInv == TypeOK /\ Stores /\ Phase

(* The pruning point is a stored block.                                    *)
LEMMA PointStored ==
  ASSUME TypeOK
  PROVE  PruningPoint \in dag /\ PruningPoint \in Block /\ Len(points) \in Nat \ {0}
<1>1. points \in Seq(dag) /\ points # <<>> /\ dag \subseteq Block
  BY DEF TypeOK
<1> QED BY <1>1 DEF PruningPoint

(* Initially genesis is all there is, and its past leaves no coin.         *)
LEMMA InitPruningIInv ==
  ASSUME Init
  PROVE  PruningIInv
<1>0. graph = Graph /\ Genesis \in Block /\ Parents[Genesis] = {}
  BY BlockFacts, PruningAssumption DEF Init
<1>1. Past(Genesis) = {} /\ PastUTXO(Genesis) = {} /\ Chain(Genesis) = {Genesis}
  BY <1>0, Stored
<1>2. PruningPoint = Genesis
  BY DEF Init, PruningPoint
<1>3. TypeOK
  <2>1. /\ dag \subseteq Block /\ headerOnly \subseteq dag /\ data \subseteq dag
        /\ tips \subseteq dag /\ virtual \subseteq dag /\ valid \subseteq dag
        /\ candidate \in dag /\ updating \in BOOLEAN /\ utxos \subseteq Block
    BY <1>0, Zenon DEF Init
  <2>2. /\ diffChild \in [Block -> Block \cup {NoBlock}]
        /\ header \in [Block -> Block \cup {NoBlock}]
    BY DEF Init
  <2>3. roots \in [Block -> [mergeDepthRoot : Block \cup {VirtualGenesis},
                            finalityPoint  : Block \cup {VirtualGenesis}]]
    BY DEF Init
  <2>4. cache \in [point : Block \cup {NoBlock}, anticone : SUBSET Block]
    BY DEF Init
  <2>5. points \in Seq(dag) /\ points # <<>>
    BY DEF Init
  <2>6. /\ pc \in {"ready", "utxo", "delete", "finish", "down", "start", "failed"}
        /\ starting \in BOOLEAN /\ torn \in BOOLEAN /\ archival \in BOOLEAN
    BY Zenon DEF Init
  <2>7. crashes \in 0..MaxCrashes
    BY PruningAssumption DEF Init
  <2> QED BY <2>1, <2>2, <2>3, <2>4, <2>5, <2>6, <2>7 DEF TypeOK
<1>4. Stores
  BY <1>0, <1>1, <1>2 DEF Init, Stores, Closed
<1>5. Phase
  BY <1>1, <1>2 DEF Init, Phase, Settled
<1> QED BY <1>3, <1>4, <1>5 DEF PruningIInv

(* A step that keeps the table, the points and the written set keeps the   *)
(* set settled.                                                            *)
LEMMA SameSets ==
  ASSUME UNCHANGED <<graph, points>>
  PROVE  /\ PruningPoint' = PruningPoint /\ PreviousPoint' = PreviousPoint
         /\ \A b : PastUTXO(b)' = PastUTXO(b) /\ Chain(b)' = Chain(b) /\ Past(b)' = Past(b)
<1> QED BY DEF PruningPoint, PreviousPoint, PastUTXO, Chain, Past

(* A step that keeps what Stores is about keeps Stores.                    *)
LEMMA SameStores ==
  ASSUME Stores, UNCHANGED <<graph, points, dag, virtual, roots, candidate>>
  PROVE  Stores'
<1> QED BY DEF Stores, Closed, PruningPoint, Chain, Past

(* updateUTXOSet: entries written before a crash are written again.        *)
LEMMA UpdateUTXOSetStep ==
  ASSUME PruningIInv, UpdateUTXOSet
  PROVE  PruningIInv'
<1>1. UNCHANGED <<graph, points, dag, virtual, roots, candidate, updating>>
  BY DEF UpdateUTXOSet, dagVars
<1>2. Stores'
  BY <1>1, SameStores DEF PruningIInv
<1>3. updating /\ Phase /\ TypeOK /\ graph = Graph
  BY DEF UpdateUTXOSet, PruningIInv, Phase, Stores
<1>4. /\ PruningPoint' = PruningPoint /\ PreviousPoint' = PreviousPoint
      /\ \A b : PastUTXO(b)' = PastUTXO(b)
  BY <1>1, SameSets
<1>5. PastUTXO(PruningPoint) \subseteq Block
  BY <1>3, PointStored, Stored, TableSound DEF Sound
<1>6. CASE CalculateDiffSucceeds \/ CalculateDiffUsingAcceptanceDataSucceeds
  <2>1. utxos' = UpdatePruningPointUTXOSet /\ pc' = "delete"
    BY <1>6 DEF UpdateUTXOSet
  <2>2. utxos' = PastUTXO(PruningPoint)
    BY <1>3, <2>1 DEF Phase, UpdatePruningPointUTXOSet, DiffToRemove, DiffToAdd
  <2>3. Settled'
    BY <1>4, <2>2 DEF Settled
  <2>4. Phase'
    BY <1>1, <1>3, <1>4, <2>1, <2>2, <2>3 DEF Phase
  <2>5. TypeOK'
    BY <1>3, <1>5, <2>1, <2>2 DEF UpdateUTXOSet, TypeOK, dagVars
  <2> QED BY <1>2, <2>4, <2>5 DEF PruningIInv
<1>7. CASE ~(CalculateDiffSucceeds \/ CalculateDiffUsingAcceptanceDataSucceeds)
  <2>1. utxos' = utxos /\ pc' = "failed"
    BY <1>7 DEF UpdateUTXOSet
  <2>2. Phase'
    BY <1>1, <1>3, <1>4, <2>1 DEF Phase
  <2>3. TypeOK'
    BY <1>3, <2>1 DEF UpdateUTXOSet, TypeOK, dagVars
  <2> QED BY <1>2, <2>2, <2>3 DEF PruningIInv
<1> QED BY <1>6, <1>7

(* deletePastBlocks: block data goes, the headers and the UTXO set stay.   *)
LEMMA DeletePastBlocksStep ==
  ASSUME PruningIInv, DeletePastBlocks
  PROVE  PruningIInv'
<1>1. UNCHANGED <<graph, points, dag, virtual, roots, candidate, updating, utxos>>
  BY DEF DeletePastBlocks
<1>2. Stores'
  BY <1>1, SameStores DEF PruningIInv
<1>3. Phase /\ TypeOK /\ pc = "delete" /\ pc' = "finish"
  BY DEF DeletePastBlocks, PruningIInv
<1>4. /\ PruningPoint' = PruningPoint /\ PreviousPoint' = PreviousPoint
      /\ \A b : PastUTXO(b)' = PastUTXO(b)
  BY <1>1, SameSets
<1>5. Phase'
  BY <1>1, <1>3, <1>4 DEF Phase, Settled
<1>6. DeletedBlocks \subseteq dag
  BY DEF DeletedBlocks, DeleteBlocksDownward
<1>7. headerOnly' \subseteq dag /\ data' \subseteq dag /\ tips' \subseteq dag
  <2> HIDE DEF DeletedBlocks
  <2> QED BY <1>3, <1>6 DEF DeletePastBlocks, TypeOK
<1>8. TypeOK'
  BY <1>1, <1>3, <1>7 DEF DeletePastBlocks, TypeOK
<1> QED BY <1>2, <1>5, <1>8 DEF PruningIInv

(* finishUpdatingPruningPointUTXOSet: the flag goes when the set is        *)
(* written.                                                                *)
LEMMA FinishUpdatingStep ==
  ASSUME PruningIInv, FinishUpdatingPruningPointUTXOSet
  PROVE  PruningIInv'
<1>1. UNCHANGED <<graph, points, dag, virtual, roots, candidate, utxos>>
  BY DEF FinishUpdatingPruningPointUTXOSet, dagVars
<1>2. Stores'
  BY <1>1, SameStores DEF PruningIInv
<1>3. Phase /\ TypeOK /\ pc = "finish" /\ pc' \in {"start", "ready"} /\ updating' = FALSE
  BY DEF FinishUpdatingPruningPointUTXOSet, PruningIInv
<1>4. /\ PruningPoint' = PruningPoint
      /\ \A b : PastUTXO(b)' = PastUTXO(b)
  BY <1>1, SameSets
<1>5. Phase'
  BY <1>1, <1>3, <1>4 DEF Phase, Settled
<1>6. TypeOK'
  BY <1>3, Zenon DEF FinishUpdatingPruningPointUTXOSet, TypeOK, dagVars
<1> QED BY <1>2, <1>5, <1>6 DEF PruningIInv

(* The process ends, with any part of the update written.                  *)
LEMMA CrashStep ==
  ASSUME PruningIInv, Crash
  PROVE  PruningIInv'
<1>1. UNCHANGED <<graph, points, dag, virtual, roots, candidate, updating>>
  BY DEF Crash, dagVars
<1>2. Stores'
  BY <1>1, SameStores DEF PruningIInv
<1>3. Phase /\ TypeOK /\ graph = Graph /\ pc' = "down"
  BY DEF Crash, PruningIInv, Stores
<1>4. /\ PruningPoint' = PruningPoint /\ PreviousPoint' = PreviousPoint
      /\ \A b : PastUTXO(b)' = PastUTXO(b)
  BY <1>1, SameSets
<1>5. /\ ~ updating => utxos' = utxos
      /\ updating => /\ PastUTXO(PreviousPoint) \cap PastUTXO(PruningPoint) \subseteq utxos'
                     /\ utxos' \subseteq PastUTXO(PreviousPoint) \cup PastUTXO(PruningPoint)
      /\ utxos' \subseteq utxos \cup PastUTXO(PruningPoint)
  <2>1. CASE pc = "utxo" /\ CalculateDiffSucceeds
    <3>1. PICK removed \in SUBSET DiffToRemove, added \in SUBSET DiffToAdd :
            utxos' = (utxos \ removed) \cup added
      BY <2>1, Zenon DEF Crash
    <3>2. updating
      BY <1>3, <2>1 DEF Phase
    <3> QED BY <1>3, <3>1, <3>2 DEF Phase, DiffToRemove, DiffToAdd
  <2>2. CASE ~(pc = "utxo" /\ CalculateDiffSucceeds)
    <3>1. utxos' = utxos
      BY <2>2 DEF Crash
    <3> QED BY <1>3, <3>1 DEF Phase
  <2> QED BY <2>1, <2>2
<1>6. Phase'
  BY <1>1, <1>3, <1>4, <1>5 DEF Phase, Settled
<1>7. PastUTXO(PruningPoint) \subseteq Block
  BY <1>3, PointStored, Stored, TableSound DEF Sound
<1>8. TypeOK'
  <2>1. utxos' \subseteq Block
    BY <1>3, <1>5, <1>7, SMTT(30) DEF TypeOK
  <2>2. cache' \in [point : Block \cup {NoBlock}, anticone : SUBSET Block]
    BY DEF Crash
  <2>3. torn' \in BOOLEAN /\ starting' \in BOOLEAN
    BY <1>3, Zenon DEF Crash, TypeOK
  <2>4. crashes' \in 0..MaxCrashes
    <3>1. crashes \in 0..MaxCrashes
      BY <1>3 DEF TypeOK
    <3>2. crashes < MaxCrashes /\ crashes' = crashes + 1
      BY DEF Crash
    <3> QED BY <3>1, <3>2, PruningAssumption
  <2> QED BY <1>3, <2>1, <2>2, <2>3, <2>4 DEF Crash, TypeOK, dagVars
<1> QED BY <1>2, <1>6, <1>8 DEF PruningIInv

(* NewConsensus goes on where the flag says.                               *)
LEMMA StartStep ==
  ASSUME PruningIInv, Start
  PROVE  PruningIInv'
<1>1. UNCHANGED <<graph, points, dag, virtual, roots, candidate, updating, utxos>>
  BY DEF Start, dagVars, storeVars
<1>2. Stores'
  BY <1>1, SameStores DEF PruningIInv
<1>3. Phase /\ TypeOK /\ pc' = IF updating THEN "utxo" ELSE "start"
  BY DEF Start, PruningIInv
<1>4. /\ PruningPoint' = PruningPoint /\ PreviousPoint' = PreviousPoint
      /\ \A b : PastUTXO(b)' = PastUTXO(b)
  BY <1>1, SameSets
<1>5. Phase'
  BY <1>1, <1>3, <1>4 DEF Phase, Settled, TypeOK
<1>6. TypeOK'
  BY <1>3 DEF Start, TypeOK, dagVars, storeVars
<1> QED BY <1>2, <1>5, <1>6 DEF PruningIInv

(* A request for the anticone of the pruning point fills the cache.        *)
LEMMA AnticoneStep ==
  ASSUME PruningIInv, PruningPointAndItsAnticone
  PROVE  PruningIInv'
<1>1. UNCHANGED <<graph, points, dag, virtual, roots, candidate, updating, utxos, pc>>
  BY DEF PruningPointAndItsAnticone, dagVars, storeVars
<1>2. Stores'
  BY <1>1, SameStores DEF PruningIInv
<1>3. Phase /\ TypeOK /\ graph = Graph
  BY DEF PruningIInv, Stores
<1>4. /\ PruningPoint' = PruningPoint /\ PreviousPoint' = PreviousPoint
      /\ \A b : PastUTXO(b)' = PastUTXO(b)
  BY <1>1, SameSets
<1>5. Phase'
  BY <1>1, <1>3, <1>4 DEF Phase, Settled
<1>6. AnticoneFromVirtualPOV(PruningPoint) \subseteq Block
  <2>1. \A v \in virtual : v \in Block /\ Past(v) \subseteq Block
    BY <1>3, TableSound, Zenon DEF TypeOK, Sound
  <2>2. PastOf(virtual) \subseteq Block
    BY <2>1 DEF PastOf
  <2> QED BY <2>2 DEF AnticoneFromVirtualPOV, AnticoneIn
<1>7. cache' \in [point : Block \cup {NoBlock}, anticone : SUBSET Block]
  <2> HIDE DEF AnticoneFromVirtualPOV
  <2> QED BY <1>3, <1>6, PointStored DEF PruningPointAndItsAnticone
<1>8. TypeOK'
  BY <1>3, <1>7 DEF PruningPointAndItsAnticone, TypeOK, dagVars, storeVars
<1> QED BY <1>2, <1>5, <1>8 DEF PruningIInv

(* A step of the pruning point over the headers D: what may be staged.     *)
Staged(next, D, s) ==
  /\ next.point \in D /\ next.candidate \in D
  /\ next.point \in Chain(next.candidate)
  /\ next.point # PruningPoint =>
       /\ next.point \in Chain(s) /\ PruningPoint \in Chain(next.point)
       /\ FinalityScore(next.point) = FinalityScore(PruningPoint) + 1

(* updatePruningPointByVirtual stages a point one finality interval up the *)
(* chain of the virtual, or none.                                          *)
LEMMA ByVirtualStages ==
  ASSUME graph = Graph, NEW D, Closed(D), NEW s \in D, PruningPoint \in D, candidate \in D,
         PruningPoint \in Chain(candidate)
  PROVE  Staged(IF ByVirtualFails(s, ByVirtual(s)) THEN NoMove ELSE ByVirtual(s), D, s)
<1>0. Staged(NoMove, D, s)
  BY DEF Staged, NoMove
<1>1. CASE ByVirtualFails(s, ByVirtual(s))
  BY <1>0, <1>1
<1>2. CASE s = Genesis
  <2>1. ByVirtual(s) = NoMove
    BY <1>2 DEF ByVirtual
  <2> QED BY <1>0, <2>1
<1>3. CASE s # Genesis /\ ~ ByVirtualFails(s, ByVirtual(s))
  <2> DEFINE top == TopOfWalk(s)
             next == NextPruningPointAndCandidate(BlueScore(s), top, candidate)
  <2>1. top \in D /\ Chain(top) \subseteq Chain(s)
    BY <1>3, ClosedChains DEF TopOfWalk
  <2>2. ByVirtual(s) = next
    BY <1>3 DEF ByVirtual
  <2>3. next.point \in D /\ next.candidate \in D /\ Advances(next, top)
    <3> HIDE DEF top
    <3> QED BY <2>1, NextPoint
  <2> HIDE DEF top, next
  <2>4. ~(FinalityScore(next.point) > FinalityScore(PruningPoint) + 1)
    BY <1>3, <2>2 DEF ByVirtualFails
  <2>5. FinalityScore(next.point) \in Nat /\ FinalityScore(PruningPoint) \in Nat
    BY <2>3, FinalityScoreType DEF Closed
  <2>6. Staged(next, D, s)
    BY <2>1, <2>3, <2>4, <2>5 DEF Staged, Advances
  <2> QED BY <1>3, <2>2, <2>6
<1> QED BY <1>1, <1>2, <1>3

(* savePruningPoint raises the flag exactly when it appends a point, whose *)
(* set is then yet to be written.                                          *)
LEMMA SaveStep ==
  ASSUME PruningIInv, ~ updating, NEW D, dag \subseteq D, NEW s, NEW next, NEW failed,
         Staged(IF failed THEN NoMove ELSE next, D, s),
         SavePruningPoint(next, failed), UNCHANGED <<graph, utxos>>
  PROVE  /\ points' \in Seq(D) /\ points' # <<>> /\ candidate' \in D /\ updating' \in BOOLEAN
         /\ PruningPoint' \in Chain(candidate')
         /\ ~ updating' => utxos' = PastUTXO(PruningPoint)'
         /\ updating' => /\ Len(points') > 1
                         /\ PastUTXO(PreviousPoint)' = utxos'
         /\ points' # points =>
              /\ points' = Append(points, PruningPoint')
              /\ PruningPoint \in Chain(PruningPoint') /\ PruningPoint' \in Chain(s)
              /\ FinalityScore(PruningPoint') = FinalityScore(PruningPoint) + 1
<1> DEFINE staged == IF failed THEN NoMove ELSE next
<1>1. /\ candidate' = staged.candidate
      /\ points' = IF staged.point = PruningPoint THEN points ELSE Append(points, staged.point)
      /\ updating' = (updating \/ staged.point # PruningPoint)
  BY DEF SavePruningPoint
<1> HIDE DEF staged
<1>2. /\ points \in Seq(D) /\ points # <<>> /\ Len(points) \in Nat \ {0}
      /\ PruningPoint \in D
  <2>1. points \in Seq(dag) /\ points # <<>>
    BY DEF PruningIInv, TypeOK
  <2>2. Len(points) \in Nat \ {0} /\ PruningPoint \in D
    BY PointStored DEF PruningIInv
  <2> QED BY <2>1, <2>2
<1>3. utxos = PastUTXO(PruningPoint)
  BY DEF PruningIInv, Phase, Settled
<1>4. staged.candidate \in D /\ staged.point \in D /\ staged.point \in Chain(staged.candidate)
  BY DEF Staged, staged
<1>5. CASE staged.point = PruningPoint
  <2>1. points' = points /\ updating' = FALSE
    BY <1>1, <1>5, Zenon
  <2>2. PruningPoint' = PruningPoint
    BY <2>1 DEF PruningPoint
  <2>3. utxos' = PastUTXO(PruningPoint)'
    BY <1>3, <2>2 DEF PastUTXO
  <2> QED BY <1>1, <1>2, <1>4, <1>5, <2>1, <2>2, <2>3
<1>6. CASE staged.point # PruningPoint
  <2>1. points' = Append(points, staged.point) /\ updating' = TRUE
    BY <1>1, <1>6, Zenon
  <2>2. /\ points' \in Seq(D) /\ Len(points') = Len(points) + 1 /\ points' # <<>>
        /\ points'[Len(points')] = staged.point
        /\ points'[Len(points') - 1] = points[Len(points)]
    BY <1>2, <1>4, <2>1
  <2>3. PruningPoint' = staged.point /\ PreviousPoint' = PruningPoint
    BY <2>2 DEF PruningPoint, PreviousPoint
  <2>4. PastUTXO(PreviousPoint)' = utxos'
    BY <1>3, <2>3 DEF PastUTXO
  <2>5. /\ PruningPoint \in Chain(staged.point) /\ staged.point \in Chain(s)
        /\ FinalityScore(staged.point) = FinalityScore(PruningPoint) + 1
    BY <1>6 DEF Staged, staged
  <2> QED BY <1>1, <1>2, <1>4, <2>1, <2>2, <2>3, <2>4, <2>5
<1> QED BY <1>5, <1>6

(* Phase after a step that saved the pruning point.                        *)
LEMMA PhaseAfterSave ==
  ASSUME ~ updating' => utxos' = PastUTXO(PruningPoint)',
         updating' => Len(points') > 1 /\ PastUTXO(PreviousPoint)' = utxos',
         pc' \in {"failed", IF updating' THEN "utxo" ELSE "ready"}
  PROVE  Phase'
<1>1. ~ updating' => Settled'
  BY DEF Settled
<1> QED BY <1>1 DEF Phase

(* The header of a new block extends the closed set of headers.            *)
LEMMA DagGrows ==
  ASSUME PruningIInv, NEW b \in Block, b \notin dag, Parents[b] \subseteq dag
  PROVE  Closed(dag \cup {b}) /\ Parents[b] # {} /\ graph = Graph
<1>1. graph = Graph /\ Closed(dag) /\ Genesis \in dag
  BY DEF PruningIInv, Stores
<1>2. Past(b) = UNION {{p} \cup Past(p) : p \in Parents[b]} /\ Parents[b] # {}
  BY <1>1, Stored, TableSound
<1>3. Past(b) \subseteq dag
  BY <1>1, <1>2 DEF Closed
<1> QED BY <1>1, <1>2, <1>3 DEF Closed

(* What is stored for a new block: a header pruning point, a merge depth   *)
(* root and a finality point, which is a stored block.                     *)
LEMMA NewBlockTypes ==
  ASSUME PruningIInv, NEW b \in Block, b \notin dag, Parents[b] \subseteq dag
  PROVE  /\ ExpectedHeaderPruningPoint(Parents[b]) \in Block \cup {NoBlock}
         /\ MergeDepthRoot(Parents[b]) \in Block \cup {VirtualGenesis}
         /\ FinalityPoint(Parents[b]) \in dag \cup {VirtualGenesis}
<1>1. Closed(dag) /\ Parents[b] # {} /\ graph = Graph
  BY DagGrows, Zenon DEF PruningIInv, Stores
<1>2. /\ dag \subseteq Block /\ points \in Seq(dag) /\ points # <<>> /\ candidate \in dag
      /\ header \in [Block -> Block \cup {NoBlock}]
      /\ roots \in [Block -> [mergeDepthRoot : Block \cup {VirtualGenesis},
                             finalityPoint  : Block \cup {VirtualGenesis}]]
  BY DEF PruningIInv, TypeOK
<1>3. points \in Seq(Block) /\ candidate \in Block /\ Parents[b] \subseteq Block
  BY <1>2
<1>4. ExpectedHeaderPruningPoint(Parents[b]) \in Block \cup {NoBlock}
  BY <1>1, <1>2, <1>3, HeaderPointType
<1>5. Closed(Block)
  BY <1>1, TableSound, SMTT(30) DEF Closed, Sound
<1>6. PruningPoint \in dag /\ PruningPoint \in Block /\ Genesis \in Block /\ Genesis \in dag
  BY PointStored, BlockFacts DEF PruningIInv, Stores
<1>7. \A c \in Block : roots[c]["mergeDepthRoot"] \in Block \cup {VirtualGenesis}
  BY <1>2
<1>8. MergeDepthRoot(Parents[b]) \in Block \cup {VirtualGenesis}
  BY <1>1, <1>3, <1>5, <1>6, <1>7, ChainPointType DEF MergeDepthRoot
<1>9. \A c \in dag : roots[c]["finalityPoint"] \in dag \cup {VirtualGenesis}
  BY DEF PruningIInv, Stores
<1>10. FinalityPoint(Parents[b]) \in dag \cup {VirtualGenesis}
  BY <1>1, <1>6, <1>9, ChainPointType DEF FinalityPoint
<1> QED BY <1>4, <1>8, <1>10

(* The virtual picked after a block is inserted has parents among the      *)
(* stored blocks.                                                          *)
LEMMA VirtualAfterInsert ==
  ASSUME PruningIInv, NEW b \in Block, ValidateAndInsertBlock(b)
  PROVE  virtual' \subseteq dag' /\ virtual' # {}
<1>1. dag' = dag \cup {b} /\ b \notin dag /\ Parents[b] \subseteq dag
  BY ZenonT(30) DEF ValidateAndInsertBlock
<1>2. Closed(dag') /\ Closed(dag) /\ graph = Graph
  BY <1>1, DagGrows, SMTT(30) DEF PruningIInv, Stores
<1>3. virtual' = PickVirtualParents(tips', dag', {x \in dag' : IsViolatingFinality(x)})
  BY Zenon DEF ValidateAndInsertBlock
<1>4. \E c \in dag : ~ IsViolatingFinality(c)
  <2>1. /\ Genesis \in dag /\ virtual \subseteq dag /\ virtual # {}
        /\ \A c \in dag : roots[c].finalityPoint \in dag \cup {VirtualGenesis}
        /\ PruningPoint \in dag
    BY PointStored DEF PruningIInv, Stores, TypeOK
  <2> QED BY <1>2, <2>1, SomeBlockAllowed
<1> DEFINE Q == {x \in dag' : IsViolatingFinality(x)}
<1>5. dag' \ Q # {} /\ dag' \subseteq Block
  BY <1>1, <1>2, <1>4 DEF Closed
<1> HIDE DEF Q
<1>6. PickVirtualParents(tips', dag', Q) \subseteq dag' /\ PickVirtualParents(tips', dag', Q) # {}
  BY <1>2, <1>5, VirtualParents
<1> QED BY <1>3, <1>6, SMTT(30) DEF Q

(* What a step may do to the pruning points: append one, one finality      *)
(* interval up the chain of the virtual.                                   *)
PointMoves ==
  points' # points =>
    /\ points' = Append(points, PruningPoint')
    /\ PruningPoint \in Chain(PruningPoint')
    /\ PruningPoint' \in Chain(Highest(virtual'))
    /\ FinalityScore(PruningPoint') = FinalityScore(PruningPoint) + 1

(* validateAndInsertBlock: the block, the virtual and the pruning point    *)
(* change in one commit.                                                   *)
LEMMA ValidateAndInsertBlockStep ==
  ASSUME PruningIInv, NEW b \in Block, ValidateAndInsertBlock(b)
  PROVE  PruningIInv' /\ PointMoves
<1> DEFINE new == Highest(virtual')
           next == ByVirtual(new)
           failed == ByVirtualFails(new, next)
<1>1. /\ dag' = dag \cup {b} /\ data' = data \cup {b} /\ tips' = (tips \ Parents[b]) \cup {b}
      /\ b \notin dag /\ Parents[b] \subseteq dag /\ pc = "ready"
      /\ UNCHANGED <<headerOnly, utxos, cache, starting, torn, crashes, graph, archival>>
  BY Zenon DEF ValidateAndInsertBlock
<1>2. /\ valid' = valid \cup Chain(new) /\ diffChild' = Resolve(Highest(virtual), new)
      /\ SavePruningPoint(next, failed)
      /\ pc' = IF HeaderLookupFails(Parents[b]) \/ failed THEN "failed"
               ELSE IF updating' THEN "utxo" ELSE "ready"
  BY ZenonT(30) DEF ValidateAndInsertBlock
<1>3. /\ header' = [header EXCEPT ![b] = ExpectedHeaderPruningPoint(Parents[b])]
      /\ roots' = [roots EXCEPT ![b] = [mergeDepthRoot |-> MergeDepthRoot(Parents[b]),
                                        finalityPoint  |-> FinalityPoint(Parents[b])]]
  BY ZenonT(30) DEF ValidateAndInsertBlock
<1>4. TypeOK /\ Stores /\ Phase /\ graph = Graph
  BY DEF PruningIInv, Stores
<1>5. Closed(dag')
  BY <1>1, DagGrows
<1>6. virtual' \subseteq dag' /\ virtual' # {}
  BY VirtualAfterInsert
<1>7. new \in dag' /\ Chain(new) \subseteq dag' /\ dag' \subseteq Block
  <2>1. dag' \subseteq Block
    BY <1>5 DEF Closed
  <2>2. new \in dag'
    BY <1>4, <1>6, <2>1, ExtremeBlocks
  <2> HIDE DEF new
  <2> QED BY <1>4, <1>5, <2>1, <2>2, ClosedChains
<1>8. ~ updating
  BY <1>1, <1>4 DEF Phase
<1>9. Staged(IF failed THEN NoMove ELSE next, dag', new)
  <2>1. PruningPoint \in dag' /\ candidate \in dag' /\ PruningPoint \in Chain(candidate)
    BY <1>1, <1>4, PointStored, SMTT(30) DEF TypeOK, Stores
  <2> HIDE DEF new
  <2> QED BY <1>4, <1>5, <1>7, <2>1, ByVirtualStages, Zenon
<1> HIDE DEF new, next, failed
<1>10. /\ points' \in Seq(dag') /\ points' # <<>> /\ candidate' \in dag' /\ updating' \in BOOLEAN
       /\ PruningPoint' \in Chain(candidate')
       /\ ~ updating' => utxos' = PastUTXO(PruningPoint)'
       /\ updating' => Len(points') > 1 /\ PastUTXO(PreviousPoint)' = utxos'
       /\ points' # points =>
            /\ points' = Append(points, PruningPoint')
            /\ PruningPoint \in Chain(PruningPoint') /\ PruningPoint' \in Chain(new)
            /\ FinalityScore(PruningPoint') = FinalityScore(PruningPoint) + 1
  BY <1>1, <1>2, <1>8, <1>9, SaveStep, Zenon
<1>11. Phase'
  BY <1>2, <1>10, PhaseAfterSave
<1>12. roots' \in [Block -> [mergeDepthRoot : Block \cup {VirtualGenesis},
                            finalityPoint  : Block \cup {VirtualGenesis}]]
  <2>1. /\ MergeDepthRoot(Parents[b]) \in Block \cup {VirtualGenesis}
        /\ FinalityPoint(Parents[b]) \in Block \cup {VirtualGenesis}
    BY <1>1, <1>7, NewBlockTypes, Zenon
  <2> QED BY <1>3, <1>4, <2>1, Zenon DEF TypeOK
<1>13. \A c \in dag' : roots'[c].finalityPoint \in dag' \cup {VirtualGenesis}
  <2>1. FinalityPoint(Parents[b]) \in dag \cup {VirtualGenesis}
    BY <1>1, NewBlockTypes
  <2>2. DOMAIN roots = Block
    BY <1>4 DEF TypeOK
  <2>3. roots'[b].finalityPoint = FinalityPoint(Parents[b])
    BY <1>3, <2>2, Zenon
  <2>4. \A c \in dag : roots'[c] = roots[c]
    BY <1>1, <1>3, <1>7, <2>2
  <2>5. \A c \in dag : roots[c].finalityPoint \in dag \cup {VirtualGenesis}
    BY <1>4, SMTT(30) DEF Stores
  <2> QED BY <1>1, <2>1, <2>3, <2>4, <2>5, Zenon
<1>14. Stores'
  <2>1. Closed(dag)'
    BY <1>1, <1>5, SMTT(30) DEF Closed, Past
  <2>2. (PruningPoint \in Chain(candidate))'
    BY <1>1, <1>10, Zenon DEF Chain
  <2> QED BY <1>1, <1>4, <1>6, <1>13, <2>1, <2>2, Zenon DEF Stores
<1>15. TypeOK'
  <2>1. header' \in [Block -> Block \cup {NoBlock}]
    <3>1. ExpectedHeaderPruningPoint(Parents[b]) \in Block \cup {NoBlock}
      BY <1>1, NewBlockTypes
    <3> QED BY <1>3, <1>4, <3>1, Zenon DEF TypeOK
  <2>2. diffChild' \in [Block -> Block \cup {NoBlock}]
    BY <1>2, <1>4, <1>7, ResolveType, Zenon DEF TypeOK
  <2>3. /\ dag' \subseteq Block /\ headerOnly' \subseteq dag' /\ data' \subseteq dag'
        /\ tips' \subseteq dag' /\ virtual' \subseteq dag' /\ valid' \subseteq dag'
        /\ utxos' \subseteq Block
    BY <1>1, <1>2, <1>4, <1>6, <1>7 DEF TypeOK
  <2>4. pc' \in {"ready", "utxo", "delete", "finish", "down", "start", "failed"}
    BY <1>2
  <2>5. /\ cache' \in [point : Block \cup {NoBlock}, anticone : SUBSET Block]
        /\ starting' \in BOOLEAN /\ torn' \in BOOLEAN /\ archival' \in BOOLEAN
        /\ crashes' \in 0..MaxCrashes
    BY <1>1, <1>4, Zenon DEF TypeOK
  <2> QED BY <1>10, <1>12, <2>1, <2>2, <2>3, <2>4, <2>5, ZenonT(30) DEF TypeOK
<1>16. PointMoves
  BY <1>10 DEF PointMoves, PruningPoint, new
<1> QED BY <1>11, <1>14, <1>15, <1>16, SMTT(30) DEF PruningIInv

(* completing NewConsensus: the same move of the pruning point, for a      *)
(* virtual that had moved without it.                                      *)
LEMMA CompleteStartStep ==
  ASSUME PruningIInv, CompleteStart
  PROVE  PruningIInv' /\ PointMoves
<1> DEFINE s == Highest(virtual)
           next == ByVirtual(s)
           failed == ByVirtualFails(s, next)
<1>1. /\ pc = "start" /\ starting' = FALSE
      /\ UNCHANGED <<dagVars, headerOnly, data, utxos, cache, torn, crashes, graph, archival>>
  BY DEF CompleteStart
<1>2. /\ SavePruningPoint(next, failed)
      /\ pc' = IF failed THEN "failed" ELSE IF updating' THEN "utxo" ELSE "ready"
  BY Zenon DEF CompleteStart
<1>3. TypeOK /\ Stores /\ Phase /\ graph = Graph /\ Closed(dag)
  BY DEF PruningIInv, Stores
<1>4. s \in dag
  BY <1>3, ExtremeBlocks DEF TypeOK, Stores
<1>5. ~ updating
  BY <1>1, <1>3 DEF Phase
<1>6. Staged(IF failed THEN NoMove ELSE next, dag, s)
  <2>1. PruningPoint \in dag /\ candidate \in dag /\ PruningPoint \in Chain(candidate)
    BY <1>3, PointStored DEF TypeOK, Stores
  <2> HIDE DEF s
  <2> QED BY <1>3, <1>4, <2>1, ByVirtualStages
<1> HIDE DEF s, next, failed
<1>7. /\ points' \in Seq(dag) /\ points' # <<>> /\ candidate' \in dag /\ updating' \in BOOLEAN
      /\ PruningPoint' \in Chain(candidate')
      /\ ~ updating' => utxos' = PastUTXO(PruningPoint)'
      /\ updating' => Len(points') > 1 /\ PastUTXO(PreviousPoint)' = utxos'
      /\ points' # points =>
           /\ points' = Append(points, PruningPoint')
           /\ PruningPoint \in Chain(PruningPoint') /\ PruningPoint' \in Chain(s)
           /\ FinalityScore(PruningPoint') = FinalityScore(PruningPoint) + 1
  BY <1>1, <1>2, <1>5, <1>6, SaveStep, ZenonT(30)
<1>8. Phase'
  BY <1>2, <1>7, PhaseAfterSave
<1>9. UNCHANGED <<dag, tips, virtual, valid, diffChild, header, roots>>
  BY <1>1, Zenon DEF dagVars
<1>10. Stores'
  <2>1. Closed(dag)'
    BY <1>1, <1>3, <1>9 DEF Closed, Past
  <2>2. (PruningPoint \in Chain(candidate))'
    BY <1>1, <1>7 DEF Chain
  <2> QED BY <1>1, <1>3, <1>9, <2>1, <2>2, Zenon DEF Stores
<1>11. TypeOK'
  <2>1. pc' \in {"ready", "utxo", "delete", "finish", "down", "start", "failed"}
    BY <1>2
  <2>2. starting' \in BOOLEAN
    BY <1>1, Zenon
  <2> QED BY <1>1, <1>3, <1>7, <1>9, <2>1, <2>2 DEF TypeOK
<1>12. PointMoves
  BY <1>7, <1>9 DEF PointMoves, PruningPoint, s
<1> QED BY <1>8, <1>10, <1>11, <1>12 DEF PruningIInv

(* No other step touches the pruning points.                               *)
LEMMA NodeStepKeeps ==
  ASSUME PruningIInv, Next \/ UNCHANGED vars
  PROVE  PruningIInv' /\ PointMoves
<1>1. ASSUME UNCHANGED points PROVE PointMoves
  BY <1>1 DEF PointMoves
<1>2. CASE \E b \in Block : ValidateAndInsertBlock(b)
  BY <1>2, ValidateAndInsertBlockStep
<1>3. CASE UpdateUTXOSet
  <2>1. UNCHANGED points
    BY <1>3 DEF UpdateUTXOSet
  <2> QED BY <1>1, <1>3, <2>1, UpdateUTXOSetStep
<1>4. CASE DeletePastBlocks
  <2>1. UNCHANGED points
    BY <1>4 DEF DeletePastBlocks
  <2> QED BY <1>1, <1>4, <2>1, DeletePastBlocksStep
<1>5. CASE FinishUpdatingPruningPointUTXOSet
  <2>1. UNCHANGED points
    BY <1>5 DEF FinishUpdatingPruningPointUTXOSet
  <2> QED BY <1>1, <1>5, <2>1, FinishUpdatingStep
<1>6. CASE Crash
  <2>1. UNCHANGED points
    BY <1>6 DEF Crash
  <2> QED BY <1>1, <1>6, <2>1, CrashStep
<1>7. CASE Start
  <2>1. UNCHANGED points
    BY <1>7 DEF Start, storeVars
  <2> QED BY <1>1, <1>7, <2>1, StartStep
<1>8. CASE CompleteStart
  BY <1>8, CompleteStartStep, SMTT(30)
<1>9. CASE PruningPointAndItsAnticone
  <2>1. UNCHANGED points
    BY <1>9 DEF PruningPointAndItsAnticone, storeVars
  <2> QED BY <1>1, <1>9, <2>1, AnticoneStep
<1>10. CASE UNCHANGED vars
  <2>1. UNCHANGED <<dagVars, storeVars, procVars, graph, archival>>
    BY <1>10 DEF vars
  <2>2. UNCHANGED <<graph, points, dag, virtual, roots, candidate, updating, utxos, pc>>
    BY <2>1 DEF dagVars, storeVars, procVars
  <2>3. Stores'
    BY <2>2, SameStores DEF PruningIInv
  <2>4. Phase'
    BY <2>2, SameSets DEF PruningIInv, Phase, Settled
  <2>5. TypeOK'
    BY <2>1 DEF PruningIInv, TypeOK, dagVars, storeVars, procVars
  <2> QED BY <1>1, <2>2, <2>3, <2>4, <2>5 DEF PruningIInv
<1> QED BY <1>2, <1>3, <1>4, <1>5, <1>6, <1>7, <1>8, <1>9, <1>10 DEF Next, Update

(* A step of the node with its transfers is a step of the node or leaves   *)
(* it alone.                                                               *)
LEMMA SyncStepIsNodeStep ==
  ASSUME SyncNext \/ UNCHANGED allVars
  PROVE  Next \/ UNCHANGED vars
<1>1. CASE NodeStep /\ UNCHANGED syncVars
  BY <1>1 DEF NodeStep, Next
<1>2. CASE Crash /\ Disconnected
  BY <1>2 DEF Next
<1>3. CASE RequestPruningPointUTXOSet
  BY <1>3 DEF RequestPruningPointUTXOSet
<1>4. CASE Transfer
  BY <1>4 DEF Transfer, SendChunk, HandleRequestNext, ReceiveMessage
<1>5. CASE UNCHANGED allVars
  BY <1>5 DEF allVars
<1> QED BY <1>1, <1>2, <1>3, <1>4, <1>5 DEF SyncNext

(* The invariant holds of the node alone and of the node with a transfer.  *)
LEMMA PruningIInvHolds == (Spec => []PruningIInv) /\ (SyncSpec => []PruningIInv)
<1>1. Init => PruningIInv
  BY InitPruningIInv
<1>2. PruningIInv /\ [Next]_vars => PruningIInv'
  BY NodeStepKeeps
<1>3. Spec => []PruningIInv
  BY <1>1, <1>2, PTL DEF Spec
<1>4. SyncInit => PruningIInv
  BY <1>1 DEF SyncInit
<1>5. PruningIInv /\ [SyncNext]_allVars => PruningIInv'
  BY NodeStepKeeps, SyncStepIsNodeStep
<1>6. SyncSpec => []PruningIInv
  BY <1>4, <1>5, PTL DEF SyncSpec
<1> QED BY <1>3, <1>6

(* Whatever crashes interrupt updateUTXOSet, deletePastBlocks and          *)
(* finishUpdatingPruningPointUTXOSet, the UTXO set a node serves when no   *)
(* update is pending is the one its pruning point commits to.              *)
THEOREM ServedUTXOSetFits == SyncSpec => []UTXOSetFitsCommitment
<1>1. PruningIInv => UTXOSetFitsCommitment
  BY DEF PruningIInv, Phase, Settled, UTXOSetFitsCommitment
<1> QED BY <1>1, PruningIInvHolds, PTL

(* updatePruningPointByVirtual and savePruningPoint move the pruning point *)
(* only up the selected chain of the virtual, by one finality interval.    *)
THEOREM PointsAdvance == SyncSpec => PointsAdvanceOnTheChain
<1>1. PruningIInv /\ [SyncNext]_allVars =>
        [points' # points =>
           /\ points' = Append(points, PruningPoint')
           /\ PruningPoint \in Chain(PruningPoint')
           /\ PruningPoint' \in Chain(Highest(virtual'))
           /\ FinalityScore(PruningPoint') = FinalityScore(PruningPoint) + 1]_vars
  BY NodeStepKeeps, SyncStepIsNodeStep DEF PointMoves
<1> QED BY <1>1, PruningIInvHolds, PTL DEF SyncSpec, PointsAdvanceOnTheChain

-----------------------------------------------------------------------------
(* The transfer of the UTXO set *)

(* A chunk is the first Step coins above the last one sent: it leaves out  *)
(* none below its highest, and a short one leaves out none at all          *)
(* (PruningPointUTXOs, GetPruningPointUTXOs).                              *)
LEMMA ChunkIsNext ==
  ASSUME IsFiniteSet(utxos), utxos \subseteq Nat, NEW from \in Int
  PROVE  LET chunk == PruningPointUTXOs(from)
             last == IF chunk = {} THEN from ELSE Max(chunk)
         IN  /\ last \in Int
             /\ chunk \subseteq {c \in utxos : c > from}
             /\ {c \in utxos : c <= last} = {c \in utxos : c <= from} \cup chunk
             /\ Cardinality(chunk) < Step => utxos \subseteq {c \in utxos : c <= last}
<1> DEFINE rest == {c \in utxos : c > from}
           below(c) == {d \in rest : d < c}
           chunk == {c \in rest : Cardinality(below(c)) < Step}
           last == IF chunk = {} THEN from ELSE Max(chunk)
<1>1. PruningPointUTXOs(from) = chunk
  BY DEF PruningPointUTXOs
<1>2. /\ rest \subseteq utxos /\ rest \subseteq Nat /\ chunk \subseteq rest
      /\ \A c \in rest : below(c) \subseteq rest
  BY Zenon
<1>3. /\ IsFiniteSet(rest) /\ IsFiniteSet(chunk) /\ Cardinality(chunk) \in Nat
      /\ \A c \in rest : IsFiniteSet(below(c)) /\ Cardinality(below(c)) \in Nat
  <2> HIDE DEF rest, chunk, below
  <2> QED BY <1>2, FS_Subset, FS_CardinalityType, Zenon
<1>4. Step \in Nat \ {0}
  BY SyncAssumption
<1>5. ASSUME NEW c \in chunk, NEW d \in rest, d < c
      PROVE  d \in chunk
  <2>1. below(d) \subseteq below(c)
    BY <1>2, <1>5
  <2>2. Cardinality(below(d)) <= Cardinality(below(c))
    <3> HIDE DEF rest, chunk, below
    <3> QED BY <1>2, <1>3, <2>1, FS_Subset
  <2>3. Cardinality(below(c)) < Step
    OBVIOUS
  <2>4. Cardinality(below(d)) < Step
    <3> HIDE DEF rest, chunk, below
    <3> QED BY <1>2, <1>3, <1>4, <2>2, <2>3
  <2> QED BY <2>4
<1>6. ASSUME Cardinality(chunk) < Step
      PROVE  rest \subseteq chunk
  <2> SUFFICES ASSUME rest \ chunk # {} PROVE FALSE
    OBVIOUS
  <2>1. PICK m \in rest \ chunk : \A y \in rest \ chunk : m <= y
    <3>1. rest \ chunk \subseteq Nat
      BY <1>2
    <3> HIDE DEF rest, chunk
    <3> QED BY <3>1, LeastNat, Zenon
  <2>2. below(m) \subseteq chunk
    <3>1. ASSUME NEW d \in below(m) PROVE d \in chunk
      <4>1. d \in rest /\ d < m /\ d \in Nat /\ m \in Nat
        BY <1>2, <2>1
      <4> HIDE DEF rest, chunk
      <4> QED BY <2>1, <4>1
    <3> QED BY <3>1, Zenon
  <2>3. Cardinality(below(m)) <= Cardinality(chunk)
    <3> HIDE DEF rest, chunk, below
    <3> QED BY <1>3, <2>2, FS_Subset
  <2>4. ~(Cardinality(below(m)) < Step)
    BY <2>1
  <2>5. Cardinality(below(m)) \in Nat
    BY <1>3, <2>1, SMTT(30)
  <2> HIDE DEF rest, chunk, below
  <2> QED BY <1>3, <1>4, <1>6, <2>3, <2>4, <2>5
<1>7. chunk # {} => Max(chunk) \in chunk /\ \A y \in chunk : y <= Max(chunk)
  <2> HIDE DEF rest, chunk
  <2> QED BY <1>2, <1>3, MaxProps, Zenon
<1>8. chunk = {} => rest = {}
  <2>1. ASSUME chunk = {} PROVE Cardinality(chunk) = 0
    <3> HIDE DEF chunk
    <3> QED BY <2>1, FS_EmptySet
  <2>2. 0 < Step
    BY <1>4
  <2> HIDE DEF rest, chunk
  <2> QED BY <1>6, <2>1, <2>2
<1>9. \A c \in utxos : c \in rest <=> c > from
  OBVIOUS
<1>10. \A c \in utxos : c \in Nat
  OBVIOUS
<1> HIDE DEF rest, below, chunk
<1>11. last \in Int
  <2>1. CASE chunk = {}
    BY <2>1
  <2>2. CASE chunk # {}
    <3>1. Max(chunk) \in Nat
      BY <1>2, <1>7, <2>2, Zenon
    <3>2. last = Max(chunk)
      BY <2>2
    <3> QED BY <3>1, <3>2
  <2> QED BY <2>1, <2>2
<1>12. ASSUME NEW c \in utxos
       PROVE  c <= last <=> c <= from \/ c \in chunk
  <2>1. CASE chunk = {}
    BY <2>1
  <2>2. CASE chunk # {}
    <3>1. last = Max(chunk) /\ last \in chunk /\ last > from /\ last \in Nat
      BY <1>2, <1>7, <1>9, <2>2, Zenon
    <3>2. ASSUME c <= last, ~(c <= from) PROVE c \in chunk
      <4>1. c \in rest
        BY <1>9, <1>10, <3>2
      <4>2. c = last \/ c < last
        BY <1>10, <3>1, <3>2
      <4> QED BY <1>5, <3>1, <4>1, <4>2
    <3>3. ASSUME c <= from PROVE c <= last
      BY <1>10, <3>1, <3>3
    <3>4. ASSUME c \in chunk PROVE c <= last
      BY <1>7, <2>2, <3>1, <3>4, SMTT(30)
    <3> QED BY <3>2, <3>3, <3>4
  <2> QED BY <2>1, <2>2
<1>13. ASSUME Cardinality(chunk) < Step, NEW c \in utxos
       PROVE  c <= last
  <2>1. c <= from \/ c \in rest
    BY <1>9, <1>10
  <2> QED BY <1>6, <1>12, <1>13, <2>1
<1>14. chunk \subseteq {c \in utxos : c > from}
  BY <1>2, <1>9
<1>15. {c \in utxos : c <= last} = {c \in utxos : c <= from} \cup chunk
  BY <1>12, <1>14, Zenon
<1>16. Cardinality(chunk) < Step => utxos \subseteq {c \in utxos : c <= last}
  BY <1>13
<1> QED BY <1>1, <1>11, <1>14, <1>15, <1>16

(* The coins of the requested set up to the last one sent.                 *)
Sent(s) == {c \in PastUTXO(s.point) : c <= s.from}

(* While the flow of sender s and the flow of receiver r exchange messages *)
(* w, every coin sent is received once or in one message on its way, and   *)
(* the message that ends the transfer is last and follows all coins.       *)
Transferring(s, w, r) ==
  /\ s.state # "idle" /\ s.point = r.point /\ r.point \in Block
  /\ s.finished => PastUTXO(s.point) \subseteq Sent(s)
  /\ \A k \in DOMAIN w :
       /\ w[k].coins \subseteq Sent(s)
       /\ \A c \in w[k].coins : r.coins[c] = 0
       /\ w[k].type = "done" => /\ k = Len(w) /\ w[k].coins = {}
                                /\ s.finished /\ s.state = "done"
  /\ \A j, k \in DOMAIN w : j # k => w[j].coins \cap w[k].coins = {}
  /\ \A c \in Block : r.coins[c] \in {0, 1} /\ (r.coins[c] = 1 => c \in Sent(s))
  /\ \A c \in Sent(s) : r.coins[c] = 1 \/ \E k \in DOMAIN w : c \in w[k].coins

WireMessage == [type : {"chunk", "done", "unexpected"}, coins : SUBSET Block]

TransferTypes ==
  /\ sender \in [state : {"idle", "sending", "waiting", "done"}, point : Block \cup {NoBlock},
                 from : Int, sent : Nat, finished : BOOLEAN]
  /\ wire \in Seq(WireMessage)
  /\ receiver \in [state : {"idle", "receiving", "imported", "rejected", "stopped"},
                   point : Block \cup {NoBlock}, coins : [Block -> Nat], chunks : Nat]

(* The invariant of the transfer: nothing is on its way before the request *)
(* of the receiver, a running transfer has lost and repeated nothing, and  *)
(* none was rejected.                                                      *)
TransferIInv ==
  /\ TransferTypes
  /\ receiver.state = "idle" =>
       /\ sender.state \in {"idle", "done"} /\ wire = <<>>
       /\ \A c \in Block : receiver.coins[c] = 0
  /\ receiver.state = "receiving" => Transferring(sender, wire, receiver)
  /\ receiver.state # "rejected"

(* Before the first request both flows are idle.                           *)
LEMMA InitTransferIInv ==
  ASSUME SyncInit
  PROVE  TransferIInv
<1>1. sender \in [state : {"idle", "sending", "waiting", "done"}, point : Block \cup {NoBlock},
                  from : Int, sent : Nat, finished : BOOLEAN]
  BY DEF SyncInit
<1>2. receiver \in [state : {"idle", "receiving", "imported", "rejected", "stopped"},
                    point : Block \cup {NoBlock}, coins : [Block -> Nat], chunks : Nat]
  BY DEF SyncInit
<1>3. wire \in Seq(WireMessage)
  BY DEF SyncInit
<1> QED BY <1>1, <1>2, <1>3 DEF SyncInit, TransferIInv, TransferTypes

(* What the transfer says of the node: its table of blocks, and while it   *)
(* serves, its UTXO set.                                                   *)
LEMMA ServedSet ==
  ASSUME PruningIInv
  PROVE  /\ \A b \in Block : PastUTXO(b) \subseteq Block
         /\ Serving => utxos = PastUTXO(PruningPoint)
         /\ IsFiniteSet(utxos) /\ utxos \subseteq Nat /\ PruningPoint \in Block
<1>1. graph = Graph /\ TypeOK /\ Phase
  BY DEF PruningIInv, Stores
<1>2. \A b \in Block : PastUTXO(b) \subseteq Block
  BY <1>1, Stored, TableSound DEF Sound
<1>3. Serving => utxos = PastUTXO(PruningPoint)
  BY <1>1 DEF Serving, Phase, Settled
<1>4. utxos \subseteq Block
  BY <1>1 DEF TypeOK
<1>5. IsFiniteSet(utxos)
  BY <1>4, BlockFacts, FS_Subset, ZenonT(30)
<1> QED BY <1>1, <1>2, <1>3, <1>4, <1>5, PointStored, BlockFacts

(* A step of the node does not touch a transfer: the sets of the blocks    *)
(* never change.                                                           *)
LEMMA TransferKept ==
  ASSUME TransferIInv, UNCHANGED <<syncVars, graph>>
  PROVE  TransferIInv'
<1>1. UNCHANGED <<sender, wire, wanted, receiver>>
  BY DEF syncVars
<1>2. PastUTXO(sender.point)' = PastUTXO(sender.point)
  BY <1>1 DEF PastUTXO
<1>3. Sent(sender)' = Sent(sender)
  BY <1>1, <1>2, Zenon DEF Sent
<1>4. Transferring(sender, wire, receiver)' <=> Transferring(sender, wire, receiver)
  BY <1>1, <1>2, <1>3 DEF Transferring
<1> QED BY <1>1, <1>4 DEF TransferIInv, TransferTypes

(* requestPruningPointUTXOSet starts both flows at the same point.         *)
LEMMA RequestStep ==
  ASSUME PruningIInv, TransferIInv, RequestPruningPointUTXOSet
  PROVE  TransferIInv'
<1>1. /\ receiver.state = "idle" /\ wire' = wire /\ UNCHANGED vars
      /\ sender' = [state |-> "sending", point |-> PruningPoint, from |-> -1, sent |-> 0,
                    finished |-> FALSE]
      /\ receiver' = [receiver EXCEPT !.state = "receiving", !.point = PruningPoint]
  BY DEF RequestPruningPointUTXOSet
<1>2. PruningPoint \in Block /\ PastUTXO(PruningPoint) \subseteq Nat
  BY ServedSet, BlockFacts, Zenon
<1>3. wire = <<>> /\ \A c \in Block : receiver.coins[c] = 0
  BY <1>1 DEF TransferIInv
<1>4. TransferTypes'
  <2>1. sender' \in [state : {"idle", "sending", "waiting", "done"}, point : Block \cup {NoBlock},
                     from : Int, sent : Nat, finished : BOOLEAN]
    BY <1>1, <1>2
  <2>2. receiver' \in [state : {"idle", "receiving", "imported", "rejected", "stopped"},
                       point : Block \cup {NoBlock}, coins : [Block -> Nat], chunks : Nat]
    BY <1>1, <1>2, Zenon DEF TransferIInv, TransferTypes
  <2> QED BY <1>1, <2>1, <2>2 DEF TransferIInv, TransferTypes
<1>5. /\ sender'.state = "sending" /\ sender'.point = PruningPoint /\ sender'.from = -1
      /\ sender'.finished = FALSE /\ receiver'.state = "receiving"
      /\ receiver'.point = PruningPoint /\ receiver'.coins = receiver.coins
  BY <1>1 DEF TransferIInv, TransferTypes
<1>6. Sent(sender') = {}
  BY <1>2, <1>5 DEF Sent
<1>7. Transferring(sender', wire', receiver')
  <2>1. DOMAIN wire' = {}
    BY <1>1, <1>3
  <2>2. \A c \in Block : receiver'.coins[c] = 0
    BY <1>3, <1>5
  <2> QED BY <1>2, <1>5, <1>6, <2>1, <2>2 DEF Transferring
<1>8. Transferring(sender, wire, receiver)'
  BY <1>1, <1>7, Zenon DEF Transferring, Sent, PastUTXO, vars
<1> QED BY <1>4, <1>5, <1>8, Zenon DEF TransferIInv

(* A sender that is not done has not sent the end: another state of it     *)
(* leaves the transfer as it is.                                           *)
LEMMA SenderState ==
  ASSUME NEW s, NEW t, NEW w, NEW r, Transferring(s, w, r), s.state # "done",
         t.state # "idle", t.point = s.point, t.from = s.from, t.finished = s.finished
  PROVE  Transferring(t, w, r) /\ \A k \in DOMAIN w : w[k].type # "done"
<1>1. Sent(t) = Sent(s)
  BY Zenon DEF Sent
<1>2. \A k \in DOMAIN w : w[k].type # "done"
  BY SMTT(30) DEF Transferring
<1> QED BY <1>1, <1>2, Zenon DEF Transferring

(* A message without coins ends the transfer.                              *)
LEMMA AppendEnd ==
  ASSUME NEW s, NEW t, NEW w \in Seq(WireMessage), NEW r, Transferring(s, w, r),
         \A k \in DOMAIN w : w[k].type # "done",
         t.state = "done", t.point = s.point, t.from = s.from, t.finished = s.finished,
         NEW m, m.coins = {}, m.type = "done" => s.finished
  PROVE  Transferring(t, Append(w, m), r)
<1> DEFINE v == Append(w, m)
<1>1. Sent(t) = Sent(s)
  BY DEF Sent
<1>2. /\ \A k \in DOMAIN w : k \in DOMAIN v /\ v[k] = w[k]
      /\ Len(v) \in DOMAIN v /\ v[Len(v)] = m
  BY AppendElements, Zenon
<1>3. \A k \in DOMAIN v : k = Len(v) \/ k \in DOMAIN w
  BY AppendElements, Zenon
<1> HIDE DEF v
<1>4. ASSUME NEW k \in DOMAIN v
      PROVE  /\ v[k].coins \subseteq Sent(t)
             /\ \A c \in v[k].coins : r.coins[c] = 0
             /\ v[k].type = "done" => k = Len(v) /\ v[k].coins = {} /\ t.finished /\ t.state = "done"
  <2>1. CASE k = Len(v)
    BY <1>2, <2>1, Zenon
  <2>2. CASE k \in DOMAIN w
    BY <1>1, <1>2, <2>2, Zenon DEF Transferring
  <2> QED BY <1>3, <2>1, <2>2, Zenon
<1>5. \A j, k \in DOMAIN v : j # k => v[j].coins \cap v[k].coins = {}
  BY <1>2, <1>3, SMTT(30) DEF Transferring
<1>6. \A c \in Sent(t) : r.coins[c] = 1 \/ \E k \in DOMAIN v : c \in v[k].coins
  BY <1>1, <1>2, Zenon DEF Transferring
<1>7. /\ t.state # "idle" /\ t.point = r.point /\ r.point \in Block
      /\ t.finished => PastUTXO(t.point) \subseteq Sent(t)
      /\ \A c \in Block : r.coins[c] \in {0, 1} /\ (r.coins[c] = 1 => c \in Sent(t))
  BY <1>1, SMTT(30) DEF Transferring
<1> QED BY <1>4, <1>5, <1>6, <1>7, ZenonT(30) DEF Transferring, v

(* A chunk takes the next coins of the requested set.                      *)
LEMMA AppendChunk ==
  ASSUME NEW s, NEW t, NEW w \in Seq(WireMessage), NEW r, Transferring(s, w, r),
         \A k \in DOMAIN w : w[k].type # "done",
         s.from \in Int, IsFiniteSet(utxos), utxos \subseteq Nat, utxos \subseteq Block,
         utxos = PastUTXO(s.point), NEW chunk, chunk = PruningPointUTXOs(s.from),
         t.state # "idle", t.point = s.point,
         t.from = IF chunk = {} THEN s.from ELSE Max(chunk),
         t.finished => Cardinality(chunk) < Step
  PROVE  /\ Transferring(t, Append(w, Message("chunk", chunk)), r)
         /\ \A k \in DOMAIN Append(w, Message("chunk", chunk)) :
              Append(w, Message("chunk", chunk))[k].type # "done"
<1> DEFINE m == Message("chunk", chunk)
           v == Append(w, m)
<1>1. /\ chunk \subseteq {c \in utxos : c > s.from}
      /\ {c \in utxos : c <= t.from} = {c \in utxos : c <= s.from} \cup chunk
      /\ Cardinality(chunk) < Step => utxos \subseteq {c \in utxos : c <= t.from}
  BY ChunkIsNext, Zenon
<1>2. Sent(t) = Sent(s) \cup chunk /\ Sent(s) \cap chunk = {} /\ Sent(t) \subseteq Block
  <2>1. Sent(t) = {c \in utxos : c <= t.from} /\ Sent(s) = {c \in utxos : c <= s.from}
    BY DEF Sent
  <2>2. \A c \in utxos : c > s.from => ~(c <= s.from)
    BY SMTT(30)
  <2> QED BY <1>1, <2>1, <2>2, Zenon
<1>3. /\ \A k \in DOMAIN w : k \in DOMAIN v /\ v[k] = w[k]
      /\ Len(v) \in DOMAIN v /\ v[Len(v)] = m
  BY AppendElements, Zenon
<1>4. \A k \in DOMAIN v : k = Len(v) \/ k \in DOMAIN w
  BY AppendElements, Zenon
<1>5. m.coins = chunk /\ m.type = "chunk"
  BY SMTT(30) DEF Message
<1> HIDE DEF v, m
<1>6. \A c \in chunk : r.coins[c] = 0
  <2>1. ASSUME NEW c \in chunk PROVE r.coins[c] = 0
    <3>1. c \in Block /\ c \notin Sent(s)
      BY <1>2, SMTT(30)
    <3> QED BY <3>1, Zenon DEF Transferring
  <2> QED BY <2>1, Zenon
<1>7. ASSUME NEW k \in DOMAIN v
      PROVE  /\ v[k].coins \subseteq Sent(t)
             /\ \A c \in v[k].coins : r.coins[c] = 0
             /\ v[k].type # "done"
  <2>1. CASE k = Len(v)
    BY <1>2, <1>3, <1>5, <1>6, <2>1, SMTT(30)
  <2>2. CASE k \in DOMAIN w
    BY <1>2, <1>3, <2>2, Zenon DEF Transferring
  <2> QED BY <1>4, <2>1, <2>2, Zenon
<1>8. ASSUME NEW j \in DOMAIN v, NEW k \in DOMAIN v, j # k
      PROVE  v[j].coins \cap v[k].coins = {}
  <2>1. \A i \in DOMAIN w : w[i].coins \cap chunk = {}
    BY <1>2, SMTT(30) DEF Transferring
  <2>2. CASE j \in DOMAIN w /\ k \in DOMAIN w
    <3>1. w[j].coins \cap w[k].coins = {}
      BY <1>8, <2>2, Zenon DEF Transferring
    <3> QED BY <1>3, <2>2, <3>1, Zenon
  <2>3. CASE j = Len(v) /\ k \in DOMAIN w
    BY <1>3, <1>5, <2>1, <2>3, Zenon
  <2>4. CASE j \in DOMAIN w /\ k = Len(v)
    BY <1>3, <1>5, <2>1, <2>4
  <2> QED BY <1>4, <1>8, <2>2, <2>3, <2>4, Zenon
<1>9. ASSUME NEW c \in Sent(t)
      PROVE  r.coins[c] = 1 \/ \E k \in DOMAIN v : c \in v[k].coins
  <2>1. CASE c \in chunk
    BY <1>3, <1>5, <2>1, Zenon
  <2>2. CASE c \in Sent(s)
    BY <1>3, <2>2, Zenon DEF Transferring
  <2> QED BY <1>2, <2>1, <2>2, Zenon
<1>10. /\ t.point = r.point /\ r.point \in Block
       /\ \A c \in Block : r.coins[c] \in {0, 1} /\ (r.coins[c] = 1 => c \in Sent(t))
  BY <1>2 DEF Transferring
<1>11. t.finished => PastUTXO(t.point) \subseteq Sent(t)
  BY <1>1, Zenon DEF Sent
<1> QED BY <1>7, <1>8, <1>9, <1>10, <1>11, ZenonT(30) DEF Transferring, v, m

(* What holds of the flows holds of them after the step.                   *)
LEMMA StillTransferring ==
  ASSUME UNCHANGED graph, Transferring(sender', wire', receiver')
  PROVE  Transferring(sender, wire, receiver)'
<1> QED BY DEF Transferring, Sent, PastUTXO

(* SendPruningPointUTXOSet, one chunk: while the point is the expected one *)
(* the next coins go out, and the end after a chunk that is short.         *)
LEMMA SendChunkStep ==
  ASSUME PruningIInv, TransferIInv, SendChunk
  PROVE  TransferIInv'
<1>1. /\ Serving /\ sender.state = "sending" /\ UNCHANGED <<vars, wanted, receiver>>
  BY DEF SendChunk
<1>2. UNCHANGED graph /\ receiver' = receiver
  BY <1>1 DEF vars
<1>3. /\ sender \in [state : {"idle", "sending", "waiting", "done"}, point : Block \cup {NoBlock},
                     from : Int, sent : Nat, finished : BOOLEAN]
      /\ wire \in Seq(WireMessage) /\ receiver.state # "idle" /\ receiver.state # "rejected"
  BY <1>1, Zenon DEF TransferIInv, TransferTypes
<1>4. receiver.state = "receiving" =>
        Transferring(sender, wire, receiver) /\ \A k \in DOMAIN wire : wire[k].type # "done"
  BY <1>1 DEF TransferIInv, Transferring
<1>5. SUFFICES /\ sender' \in [state : {"idle", "sending", "waiting", "done"},
                              point : Block \cup {NoBlock}, from : Int, sent : Nat,
                              finished : BOOLEAN]
               /\ wire' \in Seq(WireMessage)
               /\ receiver.state = "receiving" => Transferring(sender', wire', receiver')
  BY <1>2, <1>3, StillTransferring DEF TransferIInv, TransferTypes
<1>6. CASE ~ IsExpectedPruningPoint(sender.point)
  <2>1. /\ wire' = Append(wire, Message("unexpected", {}))
        /\ sender' = [sender EXCEPT !.state = "done"]
    BY <1>6, Zenon DEF SendChunk
  <2>2. Message("unexpected", {}) \in WireMessage
    BY DEF Message, WireMessage
  <2>3. /\ sender'.state = "done" /\ sender'.point = sender.point
        /\ sender'.from = sender.from /\ sender'.finished = sender.finished
    BY <1>3, <2>1
  <2>4. Message("unexpected", {}).coins = {} /\ Message("unexpected", {}).type # "done"
    BY DEF Message
  <2>5. receiver.state = "receiving" => Transferring(sender', wire', receiver')
    BY <1>2, <1>3, <1>4, <2>1, <2>3, <2>4, AppendEnd
  <2> QED BY <1>3, <2>1, <2>2, <2>5
<1>7. CASE IsExpectedPruningPoint(sender.point)
  <2> DEFINE chunk == PruningPointUTXOs(sender.from)
             finished == Cardinality(chunk) < Step
             done == finished /\ sender.sent % BatchSize # 0
             sent == sender.sent + 1
             last == IF chunk = {} THEN sender.from ELSE Max(chunk)
             mid == [sender EXCEPT !.state = "sending", !.from = last, !.sent = sent,
                                   !.finished = finished]
             first == Append(wire, Message("chunk", chunk))
  <2>1. /\ wire' = wire \o <<Message("chunk", chunk)>>
                        \o (IF done THEN <<Message("done", {})>> ELSE <<>>)
        /\ sender' = [sender EXCEPT
              !.state = IF done THEN "done"
                        ELSE IF sent % BatchSize = 0 THEN "waiting" ELSE "sending",
              !.from = last, !.sent = sent, !.finished = finished]
    BY <1>7, Zenon DEF SendChunk
  <2>2. /\ utxos = PastUTXO(sender.point) /\ IsFiniteSet(utxos) /\ utxos \subseteq Nat
        /\ utxos \subseteq Block
    BY <1>1, <1>7, ServedSet DEF IsExpectedPruningPoint
  <2>3. chunk \subseteq utxos /\ last \in Int
    BY <1>3, <2>2, ChunkIsNext
  <2>4. finished \in BOOLEAN /\ done \in BOOLEAN /\ sent \in Nat
    BY <1>3, SMTT(30)
  <2>5. Message("chunk", chunk) \in WireMessage /\ Message("done", {}) \in WireMessage
    <3> HIDE DEF chunk
    <3> QED BY <2>2, <2>3 DEF Message, WireMessage
  <2> HIDE DEF chunk, last, sent, done, finished
  <2>6. wire' = IF done THEN Append(first, Message("done", {})) ELSE first
    BY <1>3, <2>1, <2>5
  <2>7. first \in Seq(WireMessage) /\ wire' \in Seq(WireMessage)
    BY <1>3, <2>5, <2>6
  <2>8. sender' \in [state : {"idle", "sending", "waiting", "done"},
                     point : Block \cup {NoBlock}, from : Int, sent : Nat, finished : BOOLEAN]
    BY <1>3, <2>1, <2>3, <2>4, ZenonT(30)
  <2>9. /\ mid.state # "idle" /\ mid.point = sender.point /\ mid.from = last
        /\ mid.finished = finished
    BY <1>3
  <2>10. /\ sender'.state # "idle" /\ sender'.point = sender.point /\ sender'.from = last
         /\ sender'.finished = finished /\ (done => sender'.state = "done")
    BY <1>3, <2>1
  <2> HIDE DEF mid
  <2>11. ASSUME receiver.state = "receiving"
         PROVE  Transferring(sender', wire', receiver')
    <3>1. /\ Transferring(sender, wire, receiver) /\ \A k \in DOMAIN wire : wire[k].type # "done"
          /\ sender.from \in Int
      BY <1>3, <1>4, <2>11
    <3>2. CASE ~ done
      <4>1. wire' = first
        BY <2>6, <3>2
      <4> QED BY <1>2, <1>3, <2>2, <2>10, <3>1, <4>1, AppendChunk, Zenon DEF chunk, last, finished
    <3>3. CASE done
      <4>1. /\ Transferring(mid, first, receiver)
            /\ \A k \in DOMAIN first : first[k].type # "done"
        <5>1. mid.finished => Cardinality(chunk) < Step
          BY <2>9, Zenon DEF finished
        <5>2. /\ chunk = PruningPointUTXOs(sender.from)
              /\ mid.from = IF chunk = {} THEN sender.from ELSE Max(chunk)
          BY <2>9 DEF chunk, last
        <5>3. wire \in Seq(WireMessage)
          BY <1>3
        <5> QED BY <2>2, <2>9, <3>1, <5>1, <5>2, <5>3, AppendChunk, ZenonT(30)
      <4>2. wire' = Append(first, Message("done", {})) /\ finished
        BY <2>6, <3>3 DEF done
      <4>3. Message("done", {}).coins = {}
        BY DEF Message
      <4> HIDE DEF first
      <4> QED BY <1>2, <2>7, <2>9, <2>10, <3>3, <4>1, <4>2, <4>3, AppendEnd, Zenon
    <3> QED BY <3>2, <3>3, Zenon
  <2> QED BY <2>7, <2>8, <2>11
<1> QED BY <1>6, <1>7

(* A request for more wakes the sender, which ends or goes on.             *)
LEMMA HandleRequestNextStep ==
  ASSUME PruningIInv, TransferIInv, HandleRequestNext
  PROVE  TransferIInv'
<1>1. /\ sender.state = "waiting" /\ UNCHANGED <<vars, receiver>>
      /\ IF sender.finished
         THEN wire' = Append(wire, Message("done", {})) /\ sender' = [sender EXCEPT !.state = "done"]
         ELSE wire' = wire /\ sender' = [sender EXCEPT !.state = "sending"]
  BY DEF HandleRequestNext
<1>2. UNCHANGED graph /\ receiver' = receiver
  BY <1>1 DEF vars
<1>3. /\ sender \in [state : {"idle", "sending", "waiting", "done"}, point : Block \cup {NoBlock},
                     from : Int, sent : Nat, finished : BOOLEAN]
      /\ wire \in Seq(WireMessage) /\ receiver.state # "idle" /\ receiver.state # "rejected"
  BY <1>1 DEF TransferIInv, TransferTypes
<1>4. receiver.state = "receiving" =>
        Transferring(sender, wire, receiver) /\ \A k \in DOMAIN wire : wire[k].type # "done"
  BY <1>1 DEF TransferIInv, Transferring
<1>5. SUFFICES /\ sender' \in [state : {"idle", "sending", "waiting", "done"},
                              point : Block \cup {NoBlock}, from : Int, sent : Nat,
                              finished : BOOLEAN]
               /\ wire' \in Seq(WireMessage)
               /\ receiver.state = "receiving" => Transferring(sender', wire', receiver')
  BY <1>2, <1>3, StillTransferring DEF TransferIInv, TransferTypes
<1>6. /\ sender'.state \in {"done", "sending"} /\ sender'.point = sender.point
      /\ sender'.from = sender.from /\ sender'.finished = sender.finished
      /\ sender.finished => sender'.state = "done"
  BY <1>1, <1>3
<1>7. sender' \in [state : {"idle", "sending", "waiting", "done"},
                   point : Block \cup {NoBlock}, from : Int, sent : Nat, finished : BOOLEAN]
  BY <1>1, <1>3
<1>8. Message("done", {}) \in WireMessage /\ Message("done", {}).coins = {}
  BY DEF Message, WireMessage
<1>10. CASE sender.finished
  <2>1. wire' = Append(wire, Message("done", {})) /\ sender'.state = "done"
    BY <1>1, <1>6, <1>10
  <2>2. wire' \in Seq(WireMessage)
    BY <1>3, <1>8, <2>1, SMTT(30)
  <2>3. receiver.state = "receiving" => Transferring(sender', wire', receiver')
    BY <1>2, <1>3, <1>4, <1>6, <1>8, <1>10, <2>1, AppendEnd, ZenonT(30)
  <2> QED BY <1>7, <2>2, <2>3
<1>11. CASE ~ sender.finished
  <2>1. receiver.state = "receiving" => Transferring(sender', wire', receiver')
    BY <1>1, <1>2, <1>4, <1>6, <1>11, SenderState
  <2> QED BY <1>1, <1>3, <1>7, <1>11, <2>1
<1> QED BY <1>10, <1>11

(* A received chunk adds coins the receiver did not have.                  *)
LEMMA ReceiveChunk ==
  ASSUME NEW s, NEW w \in Seq(WireMessage), w # <<>>, NEW r, NEW t, Transferring(s, w, r),
         Sent(s) \subseteq Block, t.point = r.point,
         t.coins = AppendImported(r.coins, Head(w).coins)
  PROVE  Transferring(s, Tail(w), t)
<1> DEFINE v == Tail(w)
           got == w[1].coins
<1>1. 1 \in DOMAIN w /\ Head(w) = w[1]
  BY TailElements, Zenon
<1>2. \A k \in DOMAIN v : /\ k + 1 \in DOMAIN w /\ k + 1 # 1 /\ v[k] = w[k + 1]
                          /\ k + 1 = Len(w) => k = Len(v)
  BY TailElements, Zenon
<1>3. /\ \A j, k \in DOMAIN v : j # k => j + 1 # k + 1
      /\ \A k \in DOMAIN w : k # 1 => k - 1 \in DOMAIN v /\ v[k - 1] = w[k]
  BY TailElements, Zenon
<1> HIDE DEF v
<1>4. \A c \in Block : t.coins[c] = r.coins[c] + (IF c \in got THEN 1 ELSE 0)
  BY <1>1 DEF AppendImported
<1>5. got \subseteq Sent(s) /\ \A c \in got : r.coins[c] = 0
  BY <1>1, Zenon DEF Transferring
<1>6. ASSUME NEW c \in Block
      PROVE  /\ r.coins[c] \in {0, 1}
             /\ c \in got => t.coins[c] = 1
             /\ c \notin got => t.coins[c] = r.coins[c]
  <2>1. r.coins[c] \in {0, 1}
    BY Zenon DEF Transferring
  <2>2. c \in got => r.coins[c] = 0
    BY <1>5, Zenon
  <2> HIDE DEF got
  <2> QED BY <1>4, <2>1, <2>2, SMTT(30)
<1>7. ASSUME NEW k \in DOMAIN v
      PROVE  /\ v[k].coins \subseteq Sent(s)
             /\ \A c \in v[k].coins : t.coins[c] = 0
             /\ v[k].type = "done" => k = Len(v) /\ v[k].coins = {} /\ s.finished /\ s.state = "done"
  <2>1. /\ v[k] = w[k + 1] /\ k + 1 \in DOMAIN w /\ k + 1 # 1
        /\ k + 1 = Len(w) => k = Len(v)
    BY <1>2, Zenon
  <2>2. /\ w[k + 1].coins \subseteq Sent(s) /\ w[k + 1].coins \cap got = {}
        /\ \A c \in w[k + 1].coins : r.coins[c] = 0
        /\ w[k + 1].type = "done" => /\ k + 1 = Len(w) /\ w[k + 1].coins = {}
                                     /\ s.finished /\ s.state = "done"
    BY <1>1, <2>1, Zenon DEF Transferring
  <2> HIDE DEF got
  <2> QED BY <1>6, <2>1, <2>2, SMTT(30)
<1>8. ASSUME NEW j \in DOMAIN v, NEW k \in DOMAIN v, j # k
      PROVE  v[j].coins \cap v[k].coins = {}
  <2>1. /\ v[j] = w[j + 1] /\ j + 1 \in DOMAIN w
        /\ v[k] = w[k + 1] /\ k + 1 \in DOMAIN w
    BY <1>2, Zenon
  <2>2. j + 1 # k + 1
    BY <1>3, <1>8, Zenon
  <2>3. w[j + 1].coins \cap w[k + 1].coins = {}
    BY <2>1, <2>2, Zenon DEF Transferring
  <2> QED BY <2>1, <2>3, Zenon
<1>9. ASSUME NEW c \in Sent(s)
      PROVE  t.coins[c] = 1 \/ \E k \in DOMAIN v : c \in v[k].coins
  <2>1. CASE r.coins[c] = 1 \/ c \in got
    <3> HIDE DEF got
    <3> QED BY <1>5, <1>6, <2>1
  <2>2. CASE r.coins[c] # 1 /\ c \notin got
    <3>1. PICK k \in DOMAIN w : c \in w[k].coins
      BY <2>2, Zenon DEF Transferring
    <3>2. k # 1
      BY <2>2, <3>1, SMTT(30)
    <3>3. k - 1 \in DOMAIN v /\ v[k - 1] = w[k]
      BY <1>3, <3>2, Zenon
    <3> QED BY <3>1, <3>3, Zenon
  <2> QED BY <2>1, <2>2, Zenon
<1>10. \A c \in Block : t.coins[c] \in {0, 1} /\ (t.coins[c] = 1 => c \in Sent(s))
  <2> HIDE DEF got
  <2> QED BY <1>5, <1>6, Zenon DEF Transferring
<1>11. /\ s.state # "idle" /\ s.point = t.point /\ t.point \in Block
       /\ s.finished => PastUTXO(s.point) \subseteq Sent(s)
  BY DEF Transferring
<1> QED BY <1>7, <1>8, <1>9, <1>10, <1>11, ZenonT(30) DEF Transferring, v

(* receiveAndInsertPruningPointUTXOSet: at the end the multiset is that of *)
(* the commitment.                                                         *)
LEMMA ReceiveMessageStep ==
  ASSUME PruningIInv, TransferIInv, ReceiveMessage
  PROVE  TransferIInv'
<1>1. /\ receiver.state = "receiving" /\ wire # <<>> /\ wire' = Tail(wire)
      /\ UNCHANGED <<vars, sender>>
  BY DEF ReceiveMessage
<1>2. UNCHANGED graph /\ sender' = sender
  BY <1>1 DEF vars
<1>3. /\ receiver \in [state : {"idle", "receiving", "imported", "rejected", "stopped"},
                       point : Block \cup {NoBlock}, coins : [Block -> Nat], chunks : Nat]
      /\ wire \in Seq(WireMessage) /\ TransferTypes /\ Transferring(sender, wire, receiver)
  BY <1>1 DEF TransferIInv, TransferTypes
<1>4. wire' \in Seq(WireMessage)
  BY <1>1, <1>3, SMTT(30)
<1>5. Sent(sender) \subseteq Block /\ Sent(sender) \subseteq PastUTXO(sender.point)
  BY <1>3, ServedSet DEF Sent, Transferring
<1>6. CASE Head(wire).type = "done"
  <2> DEFINE fits == \A c \in Block :
                receiver.coins[c] = (IF c \in PastUTXO(receiver.point) THEN 1 ELSE 0)
  <2>1. receiver' = [receiver EXCEPT !.state = IF fits THEN "imported" ELSE "rejected"]
    BY <1>6 DEF ReceiveMessage
  <2>2. Head(wire) = wire[1] /\ 1 \in DOMAIN wire /\ DOMAIN wire = 1..Len(wire)
    BY <1>1, <1>3, SMTT(30)
  <2>3. wire[1].coins = {} /\ sender.finished /\ Len(wire) = 1
    BY <1>3, <1>6, <2>2 DEF Transferring
  <2>4. \A k \in DOMAIN wire : k = 1
    BY <2>2, <2>3, SMTT(30)
  <2>5. sender.point = receiver.point /\ PastUTXO(sender.point) \subseteq Sent(sender)
    BY <1>3, <2>3 DEF Transferring
  <2>6. ASSUME NEW c \in Block
        PROVE  receiver.coins[c] = (IF c \in PastUTXO(receiver.point) THEN 1 ELSE 0)
    <3>1. CASE c \in Sent(sender)
      BY <1>3, <1>5, <2>3, <2>4, <2>5, <3>1, ZenonT(30) DEF Transferring
    <3>2. CASE c \notin Sent(sender)
      BY <1>3, <2>5, <3>2, SMTT(30) DEF Transferring
    <3> QED BY <3>1, <3>2, Zenon
  <2>7. fits
    BY <2>6
  <2> HIDE DEF fits
  <2>8. receiver' = [receiver EXCEPT !.state = "imported"]
    BY <2>1, <2>7
  <2>9. /\ receiver' \in [state : {"idle", "receiving", "imported", "rejected", "stopped"},
                          point : Block \cup {NoBlock}, coins : [Block -> Nat], chunks : Nat]
        /\ receiver'.state = "imported"
    BY <1>3, <2>8
  <2> QED BY <1>2, <1>3, <1>4, <2>9 DEF TransferIInv, TransferTypes
<1>7. CASE Head(wire).type = "unexpected"
  <2>1. receiver' = [receiver EXCEPT !.state = "stopped"]
    BY <1>7 DEF ReceiveMessage
  <2>2. /\ receiver' \in [state : {"idle", "receiving", "imported", "rejected", "stopped"},
                          point : Block \cup {NoBlock}, coins : [Block -> Nat], chunks : Nat]
        /\ receiver'.state = "stopped"
    BY <1>3, <2>1
  <2> QED BY <1>2, <1>3, <1>4, <2>2 DEF TransferIInv, TransferTypes
<1>8. CASE Head(wire).type = "chunk"
  <2>1. receiver' = [receiver EXCEPT !.coins = AppendImported(receiver.coins, Head(wire).coins),
                                     !.chunks = receiver.chunks + 1]
    BY <1>8 DEF ReceiveMessage
  <2>2. AppendImported(receiver.coins, Head(wire).coins) \in [Block -> Nat]
    BY <1>3 DEF AppendImported
  <2>3. /\ receiver' \in [state : {"idle", "receiving", "imported", "rejected", "stopped"},
                          point : Block \cup {NoBlock}, coins : [Block -> Nat], chunks : Nat]
        /\ receiver'.state = "receiving" /\ receiver'.point = receiver.point
        /\ receiver'.coins = AppendImported(receiver.coins, Head(wire).coins)
    <3> DEFINE coins == AppendImported(receiver.coins, Head(wire).coins)
    <3>1. coins \in [Block -> Nat] /\ receiver.chunks + 1 \in Nat
      BY <1>3, <2>2
    <3>2. receiver' = [receiver EXCEPT !.coins = coins, !.chunks = receiver.chunks + 1]
      BY <2>1
    <3> HIDE DEF coins
    <3>3. /\ receiver' \in [state : {"idle", "receiving", "imported", "rejected", "stopped"},
                            point : Block \cup {NoBlock}, coins : [Block -> Nat], chunks : Nat]
          /\ receiver'.state = "receiving" /\ receiver'.point = receiver.point
          /\ receiver'.coins = coins
      BY <1>1, <1>3, <3>1, <3>2, Zenon
    <3> QED BY <3>3 DEF coins
  <2>4. Transferring(sender', wire', receiver')
    BY <1>1, <1>2, <1>3, <1>5, <2>3, ReceiveChunk, Zenon
  <2>5. Transferring(sender, wire, receiver)'
    BY <1>2, <2>4, StillTransferring
  <2> QED BY <1>2, <1>3, <1>4, <2>3, <2>5 DEF TransferIInv, TransferTypes
<1> QED BY <1>6, <1>7, <1>8 DEF ReceiveMessage

(* When the process of the sender stops, the receiver stops as well.       *)
LEMMA DisconnectedStep ==
  ASSUME TransferIInv, Disconnected
  PROVE  TransferIInv'
<1>1. /\ sender' = [sender EXCEPT !.state = "done"] /\ wire' = <<>>
      /\ receiver' = [receiver EXCEPT !.state = IF @ = "receiving" THEN "stopped" ELSE @]
  BY DEF Disconnected
<1>2. /\ sender' \in [state : {"idle", "sending", "waiting", "done"}, point : Block \cup {NoBlock},
                      from : Int, sent : Nat, finished : BOOLEAN]
      /\ sender'.state = "done"
  BY <1>1, Zenon DEF TransferIInv, TransferTypes
<1>3. /\ receiver' \in [state : {"idle", "receiving", "imported", "rejected", "stopped"},
                        point : Block \cup {NoBlock}, coins : [Block -> Nat], chunks : Nat]
      /\ receiver'.state = IF receiver.state = "receiving" THEN "stopped" ELSE receiver.state
      /\ receiver'.coins = receiver.coins
  BY <1>1, ZenonT(30) DEF TransferIInv, TransferTypes
<1>4. wire' \in Seq(WireMessage)
  BY <1>1
<1> QED BY <1>1, <1>2, <1>3, <1>4, Zenon DEF TransferIInv, TransferTypes

(* Every step of the node with its transfer preserves both invariants.     *)
LEMMA SyncStepKeeps ==
  ASSUME PruningIInv, TransferIInv, SyncNext \/ UNCHANGED allVars
  PROVE  TransferIInv'
<1>1. UNCHANGED graph
  <2>1. PruningIInv'
    BY SyncStepIsNodeStep, NodeStepKeeps, SMTT(30)
  <2>2. graph' = Graph
    BY <2>1 DEF PruningIInv, Stores
  <2> QED BY <2>2 DEF PruningIInv, Stores
<1>2. CASE NodeStep /\ UNCHANGED syncVars
  BY <1>1, <1>2, TransferKept
<1>3. CASE Crash /\ Disconnected
  BY <1>3, DisconnectedStep
<1>4. CASE RequestPruningPointUTXOSet
  BY <1>4, RequestStep
<1>5. CASE Transfer
  BY <1>5, SendChunkStep, HandleRequestNextStep, ReceiveMessageStep DEF Transfer
<1>6. CASE UNCHANGED allVars
  BY <1>1, <1>6, TransferKept DEF allVars
<1> QED BY <1>2, <1>3, <1>4, <1>5, <1>6 DEF SyncNext

(* A transfer of the pruning point UTXO set that ends with all chunks is   *)
(* never rejected, whatever blocks the sender inserts and however far it   *)
(* prunes between two chunks: fetchMissingUTXOSet never bans the sender.   *)
THEOREM CompleteTransfersFit == SyncSpec => []CompleteTransferFitsCommitment
<1>1. SyncInit => TransferIInv
  BY InitTransferIInv
<1>2. PruningIInv /\ TransferIInv /\ [SyncNext]_allVars => TransferIInv'
  BY SyncStepKeeps
<1>3. TransferIInv => CompleteTransferFitsCommitment
  BY DEF TransferIInv, CompleteTransferFitsCommitment
<1> QED BY <1>1, <1>2, <1>3, PruningIInvHolds, PTL DEF SyncSpec
==============================================================================
