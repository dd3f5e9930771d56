------------------------ MODULE ConsensusStateProofs ------------------------
(***************************************************************************)
(* Proofs that IInv is an inductive invariant of the specification of      *)
(* ConsensusState, for every DAG of blocks that verify.  The argument has  *)
(* three layers: facts that mention no step (the parent selection order,   *)
(* the selected chains, the diff forests); one lemma per action; and the   *)
(* theorems.                                                               *)
(***************************************************************************)
EXTENDS ConsensusStateInv, NumberLemmas

-----------------------------------------------------------------------------
(* The parent selection order, the selected chains and the diff forests *)

\* Positions in the GHOSTDAG order are naturals below the number of blocks.
LEMMA OrderNat == \A b \in Block : Order[b] \in Nat /\ Order[b] < Cardinality(Block)
<1>1. Cardinality(Block) \in Nat
  BY FS_CardinalityType, BlockAssumption
<1> QED BY <1>1, OrderAssumption

\* A selected parent that stays, or gives way to a higher block, does not fall.
LEMMA OrderAtLeast ==
  ASSUME NEW b \in Block, NEW c \in Block, Order[c] > Order[b] \/ c = b
  PROVE  Order[c] >= Order[b]
  BY OrderNat

\* MinOrder returns a lowest element of a non-empty set of blocks.
LEMMA MinOrderProps ==
  ASSUME NEW S, S \subseteq Block, S # {}
  PROVE  MinOrder(S) \in S /\ \A c \in S : Order[MinOrder(S)] <= Order[c]
<1> DEFINE T == {Order[c] : c \in S}
<1>1. T \subseteq Nat /\ T # {}
  BY OrderNat
<1>2. PICK n \in T : \A m \in T : n <= m
  BY <1>1, LeastNat, Zenon
<1>3. \E b \in S : \A c \in S : Order[b] <= Order[c]
  BY <1>2
<1> QED BY <1>3 DEF MinOrder

\* MaxOrder returns a highest element of a non-empty set of blocks, as the
\* selected parent is among the parents (ChooseSelectedParent).
LEMMA MaxOrderProps ==
  ASSUME NEW S, S \subseteq Block, S # {}
  PROVE  MaxOrder(S) \in S /\ \A c \in S : Order[c] <= Order[MaxOrder(S)]
<1> DEFINE N == Cardinality(Block)
           T == {N - Order[c] : c \in S}
<1>0. N \in Nat
  BY FS_CardinalityType, BlockAssumption
<1> HIDE DEF N
<1>a. \A c \in S : Order[c] \in Nat /\ Order[c] < N
  BY OrderNat DEF N
<1>1. T \subseteq Nat /\ T # {}
  BY <1>0, <1>a
<1>2. PICK n \in T : \A m \in T : n <= m
  BY <1>1, LeastNat, Zenon
<1>3. \E b \in S : \A c \in S : Order[c] <= Order[b]
  <2>1. PICK b \in S : n = N - Order[b]
    BY <1>2
  <2>2. \A c \in S : N - Order[b] <= N - Order[c]
    BY <2>1, <1>2
  <2> QED BY <2>2, <1>0, <1>a
<1> QED BY <1>3 DEF MaxOrder

\* The order is total: there is one highest block.
LEMMA MaxOrderUnique ==
  ASSUME NEW S, S \subseteq Block, NEW b \in S, \A c \in S : Order[c] <= Order[b]
  PROVE  MaxOrder(S) = b
<1>1. MaxOrder(S) \in S /\ Order[b] <= Order[MaxOrder(S)]
  BY MaxOrderProps
<1>2. Order[b] \in Nat /\ Order[MaxOrder(S)] \in Nat
  BY <1>1, OrderNat
<1>3. Order[MaxOrder(S)] = Order[b]
  BY <1>1, <1>2
<1> QED BY <1>1, <1>3, OrderAssumption

\* The order is total: there is one lowest block.
LEMMA MinOrderUnique ==
  ASSUME NEW S, S \subseteq Block, NEW b \in S, \A c \in S : Order[b] <= Order[c]
  PROVE  MinOrder(S) = b
<1>1. MinOrder(S) \in S /\ Order[MinOrder(S)] <= Order[b]
  BY MinOrderProps
<1>2. Order[b] \in Nat /\ Order[MinOrder(S)] \in Nat
  BY <1>1, OrderNat
<1>3. Order[MinOrder(S)] = Order[b]
  BY <1>1, <1>2
<1> QED BY <1>1, <1>3, OrderAssumption

-----------------------------------------------------------------------------
(* The DAG *)

\* The selected parent is a parent, below its child.
LEMMA SelectedParentProps ==
  ASSUME NEW b \in Block, b # Genesis
  PROVE  /\ SelectedParent(b) \in Parents[b]
         /\ SelectedParent(b) \in Block
         /\ Order[SelectedParent(b)] < Order[b]
<1>1. Parents[b] \subseteq Block /\ Parents[b] # {}
  BY ParentsAssumption
<1>2. SelectedParent(b) \in Parents[b]
  BY <1>1, MaxOrderProps DEF SelectedParent
<1> QED BY <1>1, <1>2, OrderAssumption

\* The past of a block is below it in the order.
LEMMA PastBelow ==
  ASSUME NEW b \in Block
  PROVE  Past[b] \subseteq {p \in Block : Order[p] < Order[b]}
<1> DEFINE S == {p \in Block : Order[p] < Order[b]}
<1>1. ASSUME NEW c \in S \cup {b}, NEW q \in Parents[c]
      PROVE  q \in S
  <2>1. q \in Block /\ Order[q] < Order[c] /\ c \in Block
    BY <1>1, ParentsAssumption, OrderAssumption
  <2>2. Order[q] \in Nat /\ Order[c] \in Nat /\ Order[b] \in Nat
    BY <2>1, OrderNat
  <2>3. Order[c] <= Order[b]
    BY <1>1, <2>2
  <2> QED BY <2>1, <2>2, <2>3
<1>2. \A c \in S \cup {b} : Parents[c] \subseteq S
  BY <1>1
<1>3. S \in SUBSET Block
  OBVIOUS
<1> HIDE DEF S
<1>4. Past[b] \subseteq S
  BY <1>2, <1>3 DEF Past
<1> QED BY <1>4 DEF S

\* Past cones are sets of blocks.
LEMMA PastOfBlocks ==
  ASSUME NEW ps, ps \subseteq Block
  PROVE  PastOf(ps) \subseteq Block
  BY PastBelow DEF PastOf

\* A block is on its own selected chain.
LEMMA ChainSelf ==
  ASSUME NEW b \in Block
  PROVE  b \in SelectedChain[b] /\ SelectedChain[b] \subseteq Block
  BY DEF SelectedChain

\* The selected chain descends to the selected parent.
LEMMA ChainStep ==
  ASSUME NEW b \in Block, NEW c \in SelectedChain[b], c # Genesis
  PROVE  SelectedParent(c) \in SelectedChain[b]
<1>1. c \in Block /\ SelectedParent(c) \in Block
  BY ChainSelf, SelectedParentProps
<1>2. ASSUME NEW S \in SUBSET Block,
             b \in S, \A x \in S \ {Genesis} : SelectedParent(x) \in S
      PROVE  SelectedParent(c) \in S
  BY <1>2 DEF SelectedChain
<1> QED BY <1>1, <1>2 DEF SelectedChain

\* The selected chain is inside every set closed under selected parents.
LEMMA ChainClosed ==
  ASSUME NEW b \in Block, NEW S \in SUBSET Block, b \in S,
         \A x \in S \ {Genesis} : SelectedParent(x) \in S
  PROVE  SelectedChain[b] \subseteq S
  BY DEF SelectedChain

\* No block of a selected chain is above its tip.
LEMMA ChainOrder ==
  ASSUME NEW b \in Block, NEW c \in SelectedChain[b]
  PROVE  Order[c] <= Order[b]
<1> DEFINE S == {x \in Block : Order[x] <= Order[b]}
<1>1. b \in S
  BY OrderNat
<1>2. ASSUME NEW x \in S \ {Genesis}
      PROVE  SelectedParent(x) \in S
  <2>1. SelectedParent(x) \in Block /\ Order[SelectedParent(x)] < Order[x]
    BY SelectedParentProps
  <2>2. Order[SelectedParent(x)] \in Nat /\ Order[x] \in Nat /\ Order[b] \in Nat
    BY <2>1, OrderNat
  <2> QED BY <2>1, <2>2
<1>3. SelectedChain[b] \subseteq S
  BY <1>1, <1>2, ChainClosed, Zenon
<1> QED BY <1>3

\* The selected chain of a block is the block and the chain of its selected parent.
LEMMA ChainUnfold ==
  ASSUME NEW b \in Block, b # Genesis
  PROVE  SelectedChain[b] \subseteq {b} \cup SelectedChain[SelectedParent(b)]
<1> DEFINE S == {b} \cup SelectedChain[SelectedParent(b)]
<1>1. SelectedParent(b) \in Block
  BY SelectedParentProps
<1>2. S \in SUBSET Block /\ SelectedParent(b) \in S
  BY <1>1, ChainSelf
<1>3. \A x \in S \ {Genesis} : SelectedParent(x) \in S
  BY <1>1, <1>2, ChainStep
<1> QED BY <1>2, <1>3, ChainClosed, Zenon

\* Of two blocks of a selected chain one is on the chain of the other.
LEMMA ChainLinear ==
  ASSUME NEW b \in Block
  PROVE  \A c, e \in SelectedChain[b] : e \in SelectedChain[c] \/ c \in SelectedChain[e]
<1> DEFINE S == {c \in SelectedChain[b] : \A e \in SelectedChain[b] :
                   e \in SelectedChain[c] \/ c \in SelectedChain[e]}
<1>1. b \in S /\ S \in SUBSET Block
  BY ChainSelf
<1>2. ASSUME NEW c \in S \ {Genesis}
      PROVE  SelectedParent(c) \in S
  <2>1. c \in Block /\ SelectedParent(c) \in Block /\ SelectedParent(c) \in SelectedChain[b]
    BY <1>1, ChainStep, SelectedParentProps
  <2>2. ASSUME NEW e \in SelectedChain[b]
        PROVE  e \in SelectedChain[SelectedParent(c)] \/ SelectedParent(c) \in SelectedChain[e]
    <3>0. e \in Block
      BY ChainSelf
    <3>1. CASE c \in SelectedChain[e]
      BY <3>0, <3>1, ChainStep
    <3>2. CASE e \in SelectedChain[c] /\ e # c
      BY <2>1, <3>2, ChainUnfold
    <3>3. CASE e = c
      BY <2>1, <3>3, ChainSelf, ChainStep
    <3> QED BY <3>1, <3>2, <3>3
  <2> QED BY <2>1, <2>2
<1>3. SelectedChain[b] \subseteq S
  BY <1>1, <1>2, ChainClosed, Zenon
<1> QED BY <1>3

\* Nothing on a selected chain lies strictly between a block and its parent.
LEMMA ChainGap ==
  ASSUME NEW b \in Block, NEW c \in SelectedChain[b], NEW e \in SelectedChain[b],
         Order[e] < Order[c]
  PROVE  c # Genesis /\ Order[e] <= Order[SelectedParent(c)]
<1>0. c \in Block /\ e \in Block
  BY ChainSelf
<1>n. Order[c] \in Nat /\ Order[e] \in Nat
  BY <1>0, OrderNat
<1>1. c \notin SelectedChain[e]
  BY <1>0, <1>n, ChainOrder
<1>2. e \in SelectedChain[c] /\ e # c
  BY <1>1, <1>n, ChainLinear
<1>3. c # Genesis
  <2>1. SelectedChain[Genesis] \subseteq {Genesis}
    BY ChainClosed, BlockAssumption, Zenon
  <2> QED BY <1>2, <2>1
<1>4. e \in SelectedChain[SelectedParent(c)]
  BY <1>0, <1>2, <1>3, ChainUnfold
<1> QED BY <1>0, <1>3, <1>4, SelectedParentProps, ChainOrder

\* Every selected chain ends in the genesis.
LEMMA GenesisInChain ==
  ASSUME NEW b \in Block
  PROVE  Genesis \in SelectedChain[b]
<1> DEFINE m == MinOrder(SelectedChain[b])
<1>1. m \in SelectedChain[b] /\ \A c \in SelectedChain[b] : Order[m] <= Order[c]
  BY ChainSelf, MinOrderProps
<1>2. SUFFICES ASSUME m # Genesis PROVE FALSE
  BY <1>1
<1> HIDE DEF m
<1>3. m \in Block
  BY <1>1, ChainSelf
<1>4. SelectedParent(m) \in SelectedChain[b] /\ Order[SelectedParent(m)] < Order[m]
  BY <1>1, <1>2, <1>3, ChainStep, SelectedParentProps
<1>5. Order[m] \in Nat /\ Order[SelectedParent(m)] \in Nat
  BY <1>3, <1>4, ChainSelf, OrderNat
<1> QED BY <1>1, <1>4, <1>5

-----------------------------------------------------------------------------
(* Diff forests *)

\* Over a forest of diff children, restorePastUTXO follows the stored diffs to
\* the virtual: Restored satisfies its recursive equation.
LEMMA RestoredProps ==
  ASSUME NEW v, NEW df, NEW ch,
         \A b \in v : ch[b] \in v \cup {None},
         None \notin v,
         \A b \in v : WithDiff(IF ch[b] = None THEN virtualUTXO ELSE PastUTXO[ch[b]], df[b])
                        = PastUTXO[b],
         \A S \in SUBSET v : S # {} => \E b \in S : ch[b] \notin S
  PROVE  \A b \in v : Restored(v, df, ch)[b] = PastUTXO[b]
<1> DEFINE F(r) == [b \in v |-> WithDiff(IF ch[b] = None THEN virtualUTXO ELSE r[ch[b]], df[b])]
           g == [b \in v |-> PastUTXO[b]]
           R == Restored(v, df, ch)
<1>1. g = F(g)
  OBVIOUS
<1>2. R = F(R)
  BY <1>1 DEF Restored
<1> DEFINE S == {b \in v : R[b] # PastUTXO[b]}
<1> HIDE DEF R
<1>3. SUFFICES ASSUME S # {} PROVE FALSE
  BY DEF R
<1>4. PICK b \in S : ch[b] \notin S
  BY <1>3, Zenon
<1>5. R[b] = WithDiff(IF ch[b] = None THEN virtualUTXO ELSE R[ch[b]], df[b])
  BY <1>2
<1>6. ch[b] = None \/ R[ch[b]] = PastUTXO[ch[b]]
  BY <1>4
<1> QED BY <1>4, <1>5, <1>6

\* diffFrom is inverted by withDiff, and reversing a diff swaps its ends.
LEMMA DiffAlgebra ==
  ASSUME NEW a, NEW c
  PROVE  /\ WithDiff(a, DiffFrom(a, c)) = c
         /\ Reversed(DiffFrom(a, c)) = DiffFrom(c, a)
  BY DEF WithDiff, DiffFrom, Reversed

\* Over a forest of exact edges restorePastUTXO is correct for every block.
LEMMA ForestRestored ==
  ASSUME NEW v \in SUBSET Block, NEW df, NEW ch, NEW h,
         Forest(v, df, ch, virtualUTXO, h)
  PROVE  \A b \in v : Restored(v, df, ch)[b] = PastUTXO[b]
<1>1. \A b \in v : ch[b] \in v \cup {None}
  BY DEF Forest, Children
<1>2. None \notin v
  BY BlockAssumption
<1>3. \A b \in v : WithDiff(IF ch[b] = None THEN virtualUTXO ELSE PastUTXO[ch[b]], df[b])
                     = PastUTXO[b]
  BY DiffAlgebra DEF Forest, ExactEdges
<1>4. \A S \in SUBSET v : S # {} => \E b \in S : ch[b] \notin S
  BY DEF Forest, Acyclic
<1> QED BY <1>1, <1>2, <1>3, <1>4, RestoredProps

\* A valid block b is committed above the old root, which now hangs from b.
LEMMA ForestCommitTip ==
  ASSUME NEW v \in SUBSET Block, NEW df, DOMAIN df = Block,
         NEW ch \in [Block -> Block \cup {None}], NEW u, NEW old, NEW b \in Block \ v,
         Forest(v, df, ch, u, old)
  PROVE  Forest(v \cup {b},
                [df EXCEPT ![old] = DiffFrom(PastUTXO[b], PastUTXO[old]),
                           ![b] = DiffFrom(u, PastUTXO[b])],
                [ch EXCEPT ![old] = b], u, b)
<1> DEFINE df2 == [df EXCEPT ![old] = DiffFrom(PastUTXO[b], PastUTXO[old]),
                             ![b] = DiffFrom(u, PastUTXO[b])]
           ch2 == [ch EXCEPT ![old] = b]
           v2 == v \cup {b}
<1>1. old \in v /\ old \in Block /\ b # old /\ b # None
  BY BlockAssumption DEF Forest, OnlyRoot
<1>2. /\ \A x \in Block : ch2[x] = IF x = old THEN b ELSE ch[x]
      /\ \A x \in Block \ {old, b} : df2[x] = df[x]
      /\ df2[b] = DiffFrom(u, PastUTXO[b])
      /\ df2[old] = DiffFrom(PastUTXO[b], PastUTXO[old])
  BY <1>1
<1>3. ch[b] = None
  BY DEF Forest, Children
<1> HIDE DEF df2, ch2
<1>4. Children(v2, ch2)
  BY <1>1, <1>2, <1>3 DEF Forest, Children
<1>5. ExactEdges(v2, df2, ch2, u)
  BY <1>1, <1>2, <1>3 DEF Forest, ExactEdges
<1>6. OnlyRoot(v2, ch2, b)
  BY <1>1, <1>2, <1>3 DEF Forest, OnlyRoot
<1>7. Acyclic(v2, ch2)
  <2> SUFFICES ASSUME NEW S \in SUBSET v2, S # {}
               PROVE  \E x \in S : ch2[x] \notin S
    BY DEF Acyclic
  <2>1. CASE b \in S
    BY <2>1, <1>1, <1>2, <1>3, BlockAssumption
  <2>2. CASE b \notin S /\ old \in S
    BY <2>2, <1>1, <1>2
  <2>3. CASE b \notin S /\ old \notin S
    <3>1. S \in SUBSET v
      BY <2>3
    <3>2. PICK x \in S : ch[x] \notin S
      BY <3>1 DEF Forest, Acyclic
    <3> QED BY <3>1, <3>2, <2>3, <1>2
  <2> QED BY <2>1, <2>2, <2>3
<1> QED BY <1>4, <1>5, <1>6, <1>7 DEF Forest, df2, ch2

\* A valid block b is committed below the tip, hanging from a valid block q.
LEMMA ForestCommitChain ==
  ASSUME NEW v \in SUBSET Block, NEW df, DOMAIN df = Block,
         NEW ch \in [Block -> Block \cup {None}], NEW u, NEW h,
         NEW b \in Block \ v, NEW q \in v,
         Forest(v, df, ch, u, h)
  PROVE  Forest(v \cup {b}, [df EXCEPT ![b] = DiffFrom(PastUTXO[q], PastUTXO[b])],
                [ch EXCEPT ![b] = q], u, h)
<1> DEFINE df2 == [df EXCEPT ![b] = DiffFrom(PastUTXO[q], PastUTXO[b])]
           ch2 == [ch EXCEPT ![b] = q]
           v2 == v \cup {b}
<1>1. h \in v /\ b # h /\ q # None
  BY BlockAssumption DEF Forest, OnlyRoot
<1>2. /\ \A x \in Block : ch2[x] = IF x = b THEN q ELSE ch[x]
      /\ \A x \in Block \ {b} : df2[x] = df[x]
      /\ df2[b] = DiffFrom(PastUTXO[q], PastUTXO[b])
  OBVIOUS
<1> HIDE DEF df2, ch2
<1>4. Children(v2, ch2)
  BY <1>2 DEF Forest, Children
<1>5. ExactEdges(v2, df2, ch2, u)
  BY <1>1, <1>2 DEF Forest, ExactEdges
<1>6. OnlyRoot(v2, ch2, h)
  BY <1>1, <1>2 DEF Forest, OnlyRoot
<1>7. Acyclic(v2, ch2)
  <2> SUFFICES ASSUME NEW S \in SUBSET v2, S # {}
               PROVE  \E x \in S : ch2[x] \notin S
    BY DEF Acyclic
  <2>1. CASE S = {b}
    BY <2>1, <1>2
  <2>2. CASE S \ {b} # {}
    <3>1. PICK x \in S \ {b} : ch[x] \notin S \ {b}
      BY <2>2, Zenon DEF Forest, Acyclic
    <3>2. x \in v /\ ch[x] \in v \cup {None}
      BY DEF Forest, Children
    <3>3. ch[x] # b
      BY <3>2, BlockAssumption
    <3> QED BY <3>1, <3>2, <3>3, <1>2
  <2> QED BY <2>1, <2>2
<1> QED BY <1>4, <1>5, <1>6, <1>7 DEF Forest, df2, ch2

\* The virtual moves to UTXO set w; the root's diff is recomputed.
LEMMA ForestMoveVirtual ==
  ASSUME NEW v \in SUBSET Block, NEW df, DOMAIN df = Block, NEW ch, NEW u, NEW h, NEW w,
         Forest(v, df, ch, u, h)
  PROVE  Forest(v, [df EXCEPT ![h] = DiffFrom(w, WithDiff(u, df[h]))], ch, w, h)
<1> DEFINE df2 == [df EXCEPT ![h] = DiffFrom(w, WithDiff(u, df[h]))]
<1>1. h \in v /\ h \in Block /\ ch[h] = None /\ \A x \in v : ch[x] = None <=> x = h
  BY DEF Forest, OnlyRoot
<1>2. df[h] = DiffFrom(u, PastUTXO[h])
  BY <1>1 DEF Forest, ExactEdges
<1>3. WithDiff(u, df[h]) = PastUTXO[h]
  BY <1>2, DiffAlgebra
<1>4. \A x \in v : df2[x] = IF x = h THEN DiffFrom(w, PastUTXO[h]) ELSE df[x]
  BY <1>1, <1>3
<1> HIDE DEF df2
<1>5. ExactEdges(v, df2, ch, w)
  BY <1>1, <1>4 DEF Forest, ExactEdges
<1> QED BY <1>5 DEF Forest, df2

\* The edge of b is reversed: it now leads to r, from which the chain up
\* reaches the root without meeting b.
LEMMA ForestReverse ==
  ASSUME NEW v \in SUBSET Block, NEW df, DOMAIN df = Block,
         NEW ch \in [Block -> Block \cup {None}], NEW u, NEW h,
         Forest(v, df, ch, u, h),
         NEW b \in v, NEW r \in v, b # h,
         NEW up \in SUBSET v, r \in up, b \notin up, \A x \in up : ch[x] \in up \cup {None}
  PROVE  Forest(v, [df EXCEPT ![b] = DiffFrom(PastUTXO[r], PastUTXO[b])],
                [ch EXCEPT ![b] = r], u, h)
<1> DEFINE df2 == [df EXCEPT ![b] = DiffFrom(PastUTXO[r], PastUTXO[b])]
           ch2 == [ch EXCEPT ![b] = r]
<1>1. r # None /\ None \notin v
  BY BlockAssumption
<1>2. /\ \A x \in Block : ch2[x] = IF x = b THEN r ELSE ch[x]
      /\ \A x \in v \ {b} : df2[x] = df[x]
      /\ df2[b] = DiffFrom(PastUTXO[r], PastUTXO[b])
  OBVIOUS
<1> HIDE DEF df2, ch2
<1>4. Children(v, ch2)
  BY <1>2 DEF Forest, Children
<1>5. ExactEdges(v, df2, ch2, u)
  BY <1>1, <1>2 DEF Forest, ExactEdges
<1>6. OnlyRoot(v, ch2, h)
  BY <1>1, <1>2 DEF Forest, OnlyRoot
<1>7. Acyclic(v, ch2)
  <2> SUFFICES ASSUME NEW S \in SUBSET v, S # {}
               PROVE  \E x \in S : ch2[x] \notin S
    BY DEF Acyclic
  <2>1. CASE b \in S /\ r \in S
    <3>1. PICK x \in S \cap up : ch[x] \notin S \cap up
      BY <2>1, Zenon DEF Forest, Acyclic
    <3>2. ch[x] \notin S
      BY <3>1, <1>1
    <3> QED BY <3>1, <3>2, <1>2
  <2>2. CASE b \in S /\ r \notin S
    BY <2>2, <1>2
  <2>3. CASE b \notin S
    <3>1. PICK x \in S : ch[x] \notin S
      BY DEF Forest, Acyclic
    <3> QED BY <3>1, <2>3, <1>2
  <2> QED BY <2>1, <2>2, <2>3
<1> QED BY <1>4, <1>5, <1>6, <1>7 DEF Forest, df2, ch2
-----------------------------------------------------------------------------
(* Facts about the operations *)

\* In a DAG no deeper than the finality depth nothing violates finality
\* (isViolatingFinality).
LEMMA NoFinalityViolation ==
  ASSUME ShallowDAG, virtualParents \in SUBSET Block, virtualParents # {}, NEW b \in Block
  PROVE  ~IsViolatingFinality(b)
<1>1. \A ps \in SUBSET Block : BlueScore(ps) \in Nat /\ BlueScore(ps) <= Cardinality(Block)
  <2>1. \A ps \in SUBSET Block : PastOf(ps) \in SUBSET Block
    BY PastOfBlocks
  <2> QED BY <2>1, FS_Subset, FS_CardinalityType, BlockAssumption DEF BlueScore
<1>2. Cardinality(Block) \in Nat
  BY FS_CardinalityType, BlockAssumption
<1>3. VirtualSelectedParent \in Block
  BY MaxOrderProps DEF VirtualSelectedParent
<1>4. \A c \in Block : ~(BlueScore(Parents[c]) + FinalityDepth < BlueScore(virtualParents))
  <2> SUFFICES ASSUME NEW c \in Block
               PROVE  ~(BlueScore(Parents[c]) + FinalityDepth < BlueScore(virtualParents))
    OBVIOUS
  <2>1. Parents[c] \in SUBSET Block
    BY ParentsAssumption
  <2> QED BY <2>1, <1>1, <1>2, DepthAssumption DEF ShallowDAG
<1>5. ASSUME NEW vp \in Block
      PROVE  {c \in SelectedChain[vp] :
                BlueScore(Parents[c]) + FinalityDepth < BlueScore(virtualParents)} = {}
  BY <1>4, <1>5, ChainSelf
<1>6. VirtualFinalityPoint = Genesis
  BY <1>3, <1>5 DEF VirtualFinalityPoint
<1> QED BY <1>6, GenesisInChain DEF IsViolatingFinality

\* The selected parent wins over whatever pickVirtualParents adds to it.
LEMMA VirtualParentSetsProps ==
  ASSUME NEW sp \in Block, NEW cs \in SUBSET Block,
         \A c \in cs : Order[c] < Order[sp],
         NEW ps \in VirtualParentSets(sp, cs)
  PROVE  ps \in SUBSET Block /\ sp \in ps /\ MaxOrder(ps) = sp
<1>1. PICK others \in SUBSET PastOf(cs) : ps = {sp} \cup others
  BY DEF VirtualParentSets
<1>2. \A c \in PastOf(cs) : c \in Block /\ Order[c] < Order[sp]
  <2> SUFFICES ASSUME NEW c \in PastOf(cs)
               PROVE  c \in Block /\ Order[c] < Order[sp]
    OBVIOUS
  <2>1. CASE c \in cs
    BY <2>1
  <2>2. ASSUME NEW d \in cs, c \in Past[d]
        PROVE  c \in Block /\ Order[c] < Order[sp]
    <3>1. c \in Block /\ Order[c] < Order[d] /\ d \in Block
      BY <2>2, PastBelow
    <3>2. Order[c] \in Nat /\ Order[d] \in Nat /\ Order[sp] \in Nat
      BY <3>1, OrderNat
    <3> QED BY <3>1, <3>2
  <2> QED BY <2>1, <2>2 DEF PastOf
<1>3. ps \in SUBSET Block /\ sp \in ps
  BY <1>1, <1>2
<1>4. \A c \in ps : Order[c] <= Order[sp]
  BY <1>1, <1>2, OrderNat
<1> QED BY <1>3, <1>4, MaxOrderUnique

\* The next unverified block of an honest DAG is valid.
LEMMA NextBlockValid ==
  ASSUME AllBlocksVerify, IInv, phase = "resolving"
  PROVE  LET b == MinOrder(unverified)
         IN /\ b \in unverified /\ b \in Block \ Valid /\ b # Genesis
            /\ SelectedParent(b) \in Valid
            /\ pastUTXO = PastUTXO[SelectedParent(b)]
            /\ NextPastUTXO(b) = PastUTXO[b]
            /\ ResolvedStatus(b) = "valid"
<1> DEFINE b == MinOrder(unverified)
<1>1. b \in unverified /\ b \in Block
  BY MinOrderProps DEF IInv, StateType, ResolvingInv
<1> HIDE DEF b
<1>2. b \notin Valid /\ b # Genesis
  BY <1>1 DEF IInv, ResolvingInv, DagInv
<1>3. SelectedParent(b) \in Valid /\ pastUTXO = PastUTXO[SelectedParent(b)]
  BY DEF b, IInv, ResolvingInv
<1>4. NextPastUTXO(b) = PastUTXO[b]
  BY <1>1, <1>2, <1>3, PastUTXOAssumption DEF NextPastUTXO
<1>5. ResolvedStatus(b) = "valid"
  BY <1>1, <1>2, <1>3, <1>4 DEF ResolvedStatus, Valid, AllBlocksVerify
<1> QED BY <1>1, <1>2, <1>3, <1>4, <1>5 DEF b

\* Moving the virtual over a diff forest whose root is the selected parent.
LEMMA UpdateVirtualForest ==
  ASSUME NEW v \in SUBSET Block, NEW df, DOMAIN df = Block, NEW ch, NEW sp,
         NEW ps \in SUBSET Block, MaxOrder(ps) = sp,
         Forest(v, df, ch, virtualUTXO, sp),
         UpdateVirtualWithParents(ps, v, df, ch)
  PROVE  /\ virtualParents' = ps
         /\ VirtualSelectedParent' = sp
         /\ VirtualUTXOCorrect'
         /\ diffChild' = ch
         /\ DOMAIN diff' = Block
         /\ Forest(v, diff', diffChild', virtualUTXO', sp)
<1>1. sp \in v
  BY DEF Forest, OnlyRoot
<1>2. Restored(v, df, ch)[sp] = PastUTXO[sp]
  BY <1>1, ForestRestored
<1>3. /\ virtualParents' = ps
      /\ virtualUTXO' = ApplyMergeSetBlocks(ps, PastUTXO[sp])
      /\ diff' = [df EXCEPT ![sp] = DiffFrom(virtualUTXO', WithDiff(virtualUTXO, df[sp]))]
      /\ diffChild' = ch
  BY <1>2 DEF UpdateVirtualWithParents
<1>4. VirtualSelectedParent' = sp
  BY <1>3 DEF VirtualSelectedParent
<1>5. VirtualUTXOCorrect'
  BY <1>3, <1>4 DEF VirtualUTXOCorrect
<1>6. Forest(v, diff', diffChild', virtualUTXO', sp)
  BY <1>3, ForestMoveVirtual, Zenon
<1> QED BY <1>3, <1>4, <1>5, <1>6

-----------------------------------------------------------------------------
(* The invariant is inductive *)

\* The inserted genesis establishes the invariant (consensus.Init).
LEMMA InitIInv == Init => IInv
<1> SUFFICES ASSUME Init PROVE IInv
  OBVIOUS
<1>1. Genesis \in Block /\ None \notin Block /\ Parents[Genesis] = {}
  BY BlockAssumption, ParentsAssumption
<1>2. Known = {Genesis} /\ Valid = {Genesis}
  BY <1>1 DEF Init, Known, Valid
<1>3. VirtualSelectedParent = Genesis
  BY <1>1, MaxOrderProps DEF Init, VirtualSelectedParent
<1>4. Root = Genesis
  BY <1>3 DEF Init, Root
<1>5. StateType
  BY <1>1, Zenon DEF Init, StateType
<1>6. DagInv
  BY <1>1, <1>2, OrderNat DEF Init, DagInv
<1>7. VirtualInv
  BY <1>1, <1>2, <1>3, OrderNat, PastUTXOAssumption DEF Init, VirtualInv, VirtualUTXOCorrect
<1>8. ForestInv
  <2>1. Children(Valid, diffChild)
    BY <1>1 DEF Init, Children
  <2>2. ExactEdges(Valid, diff, diffChild, virtualUTXO)
    BY <1>1, <1>2, PastUTXOAssumption DEF Init, ExactEdges
  <2>3. OnlyRoot(Valid, diffChild, Root)
    BY <1>1, <1>2, <1>4 DEF Init, OnlyRoot
  <2>4. Acyclic(Valid, diffChild)
    BY <1>1, <1>2 DEF Init, Acyclic
  <2> QED BY <2>1, <2>2, <2>3, <2>4 DEF ForestInv, Forest
<1>9. ResolvingInv /\ ReversingInv
  BY DEF Init, ResolvingInv, ReversingInv
<1> QED BY <1>5, <1>6, <1>7, <1>8, <1>9 DEF IInv

\* What every step preserves.
Preserved == IInv' /\ Order[VirtualSelectedParent'] >= Order[VirtualSelectedParent]

\* Typing and restoring facts that every step uses.
LEMMA VirtualFacts ==
  ASSUME IInv
  PROVE  /\ VirtualSelectedParent \in Block
         /\ Order[VirtualSelectedParent] \in Nat
         /\ Valid \in SUBSET Block /\ Known \in SUBSET Block /\ Valid \subseteq Known
         /\ \A b \in Valid : RestorePastUTXO(b) = PastUTXO[b]
<1>1. Valid \in SUBSET Block /\ Known \in SUBSET Block /\ Valid \subseteq Known
  BY DEF Valid, Known
<1>2. VirtualSelectedParent \in Block
  BY <1>1 DEF IInv, VirtualInv
<1>3. \A b \in Valid : RestorePastUTXO(b) = PastUTXO[b]
  BY <1>1, ForestRestored DEF IInv, ForestInv, RestorePastUTXO
<1> QED BY <1>1, <1>2, <1>3, OrderNat

\* calculateNewTips keeps the tips the childless blocks that cover the DAG.
LEMMA NewTipsDag ==
  ASSUME IInv, NEW b \in Block \ Known, Parents[b] \subseteq Known,
         Known' = Known \cup {b}, tips' = NewTips(b),
         Valid' \subseteq Valid \cup {b}, Valid \subseteq Valid',
         b \in Valid' => SelectedParent(b) \in Valid
  PROVE  DagInv'
<1>1. Known \subseteq Block /\ b \in Block /\ tips \subseteq Known
  BY DEF Known, IInv, DagInv
<1>2. b \notin Parents[b] /\ \A q \in Parents[b] : q \in Block /\ Order[q] < Order[b]
  BY OrderAssumption, ParentsAssumption, OrderNat
<1>3. \A x \in Known : Parents[x] \subseteq Known /\ Parents[x] \cap tips = {}
  BY DEF IInv, DagInv
<1>4. tips' = {b} \cup (tips \ Parents[b])
  BY DEF NewTips
<1>5. \A x \in Known' : Parents[x] \subseteq Known' /\ Parents[x] \cap tips' = {}
  BY <1>1, <1>2, <1>3, <1>4
<1>6. ASSUME NEW x \in Known'
      PROVE  \E t \in tips' : Order[x] <= Order[t]
  <2>1. CASE x = b
    BY <2>1, <1>4, OrderNat
  <2>2. CASE x \in Known
    <3>1. PICK t \in tips : Order[x] <= Order[t]
      BY <2>2 DEF IInv, DagInv
    <3>2. Order[x] \in Nat /\ Order[t] \in Nat /\ Order[b] \in Nat
      BY <1>1, <2>2, OrderNat
    <3>3. CASE t \in Parents[b]
      BY <3>1, <3>2, <3>3, <1>2, <1>4
    <3>4. CASE t \notin Parents[b]
      BY <3>1, <3>4, <1>4
    <3> QED BY <3>3, <3>4
  <2> QED BY <2>1, <2>2
<1>7. Genesis \in Valid' /\ \A x \in Valid' \ {Genesis} : SelectedParent(x) \in Valid'
  BY DEF IInv, DagInv
<1>8. tips' \subseteq Known' /\ tips' # {}
  BY <1>1, <1>4
<1> QED BY <1>5, <1>6, <1>7, <1>8 DEF DagInv

\* Insertion during IBD without touching the virtual preserves the invariant.
LEMMA InsertStep ==
  ASSUME IInv, NEW b \in Block, InsertBlockWithoutVirtual(b)
  PROVE  Preserved
<1>1. /\ b \in Block \ Known /\ b \notin Valid /\ Parents[b] \subseteq Known
      /\ status' = [status EXCEPT ![b] = "pending"]
      /\ phase = "idle" /\ caller = "none"
  BY DEF InsertBlockWithoutVirtual, CanInsert, Known, Valid, IInv, StateType
<1>2. Known' = Known \cup {b} /\ Valid' = Valid
  BY <1>1 DEF Known, Valid, IInv, StateType
<1>3. VirtualSelectedParent' = VirtualSelectedParent /\ Root' = Root
  BY DEF InsertBlockWithoutVirtual, VirtualSelectedParent, Root, opVars
<1>4. StateType'
  BY <1>1 DEF InsertBlockWithoutVirtual, IInv, StateType, opVars, NewTips
<1>5. DagInv'
  BY <1>1, <1>2, NewTipsDag DEF InsertBlockWithoutVirtual
<1>6. VirtualInv'
  <2>1. VirtualUTXOCorrect'
    BY <1>3 DEF InsertBlockWithoutVirtual, IInv, VirtualInv, VirtualUTXOCorrect
  <2>2. tips' \cap Valid' \subseteq tips \cap Valid
    BY <1>1, <1>2 DEF InsertBlockWithoutVirtual, NewTips
  <2> QED BY <1>1, <1>2, <1>3, <2>1, <2>2
          DEF InsertBlockWithoutVirtual, IInv, VirtualInv, opVars
<1>7. ForestInv'
  BY <1>2, <1>3 DEF InsertBlockWithoutVirtual, IInv, ForestInv
<1>8. ResolvingInv' /\ ReversingInv'
  BY <1>1, Zenon DEF InsertBlockWithoutVirtual, ResolvingInv, ReversingInv, opVars
<1> QED BY <1>3, <1>4, <1>5, <1>6, <1>7, <1>8, VirtualFacts DEF IInv, Preserved

\* Insertion of a block that does not win over the virtual preserves the
\* invariant (AddBlock).
LEMMA AddSideBlockStep ==
  ASSUME ShallowDAG, IInv, NEW b \in Block, AddSideBlock(b)
  PROVE  Preserved
<1> DEFINE st == [status EXCEPT ![b] = "pending"]
           vsp == VirtualSelectedParent
<1>1. /\ b \in Block \ Known /\ b \notin Valid /\ Parents[b] \subseteq Known
      /\ status' = st /\ tips' = NewTips(b)
      /\ phase = "idle" /\ caller = "none" /\ ~virtualNotUpdated
      /\ UNCHANGED <<virtualNotUpdated, opVars>>
  BY DEF AddSideBlock, CommitBlock, CanInsert, Known, Valid, IInv, StateType
<1>2. Known' = Known \cup {b} /\ Valid' = Valid /\ {c \in Block : st[c] = "valid"} = Valid
  BY <1>1 DEF Known, Valid, IInv, StateType
<1>3. vsp \in Valid /\ \A c \in Known : Order[c] <= Order[vsp]
  BY <1>1 DEF IInv, VirtualInv
<1>4. Order[b] <= Order[vsp]
  <2>1. ~IsNewSelectedTip(b)
    BY NoFinalityViolation DEF AddSideBlock, IInv, StateType
  <2> QED BY <2>1, VirtualFacts, OrderNat DEF IsNewSelectedTip
<1>5. SelectVirtualSelectedParent(st) = vsp
  BY <1>2, <1>3, VirtualFacts, MaxOrderUnique DEF SelectVirtualSelectedParent
<1>6. PICK ps \in VirtualParentSets(vsp, ParentCandidates(st, vsp)) :
        UpdateVirtualWithParents(ps, Valid, diff, diffChild)
  BY <1>2, <1>5 DEF AddSideBlock, CommitBlock
<1>7. ps \in SUBSET Block /\ vsp \in ps /\ MaxOrder(ps) = vsp
  <2>1. ParentCandidates(st, vsp) \in SUBSET Block
        /\ \A c \in ParentCandidates(st, vsp) : Order[c] < Order[vsp]
    BY DEF ParentCandidates
  <2> QED BY <2>1, VirtualFacts, VirtualParentSetsProps, ZenonT(30)
<1>8. Root = vsp
  BY <1>1 DEF Root
<1>9. /\ virtualParents' = ps /\ VirtualSelectedParent' = vsp
      /\ VirtualUTXOCorrect' /\ diffChild' = diffChild /\ DOMAIN diff' = Block
      /\ Forest(Valid, diff', diffChild', virtualUTXO', vsp)
  BY <1>6, <1>7, <1>8, VirtualFacts, UpdateVirtualForest, Zenon DEF IInv, StateType, ForestInv
<1>10. Root' = vsp
  BY <1>1, <1>9, Zenon DEF Root, opVars
<1>11. StateType'
  BY <1>1, <1>7, <1>9, Zenon DEF IInv, StateType, opVars, NewTips
<1>12. DagInv'
  BY <1>1, <1>2, NewTipsDag, SMTT(30)
<1>13. VirtualInv'
  <2>1. tips' \cap Valid' \subseteq tips \cap Valid
    BY <1>1, <1>2 DEF NewTips
  <2> QED BY <1>1, <1>2, <1>3, <1>4, <1>9, <1>10, <2>1, VirtualFacts, Zenon DEF VirtualInv, opVars
<1>14. ForestInv'
  BY <1>2, <1>9, <1>10 DEF ForestInv
<1>15. ResolvingInv' /\ ReversingInv'
  BY <1>1 DEF ResolvingInv, ReversingInv, opVars
<1> QED BY <1>9, <1>11, <1>12, <1>13, <1>14, <1>15, VirtualFacts DEF IInv, Preserved

\* getUnverifiedChainBlocks returns a segment of the selected chain right
\* above a block with a verdict; so does its part up to a processing point q.
LEMMA ChainSegment ==
  ASSUME status \in [Block -> {"none", "pending", "valid", "disqualified"}],
         Genesis \in Valid, NEW b \in Block, NEW q \in UnverifiedChainBlocks(b),
         NEW unv, unv = {c \in UnverifiedChainBlocks(b) : Order[c] <= Order[q]}
  PROVE  /\ q \in unv /\ unv \in SUBSET Block
         /\ unv \cap (Valid \cup Disqualified) = {}
         /\ unv \subseteq SelectedChain[q]
         /\ MinOrder(unv) \in unv /\ MinOrder(unv) # Genesis
         /\ \A c \in unv : /\ Order[c] <= Order[q]
                           /\ SelectedParent(c) \in unv \/ c = MinOrder(unv)
         /\ SelectedParent(MinOrder(unv)) \in Valid \cup Disqualified
<1>0. SelectedChain[b] \subseteq Block /\ q \in SelectedChain[b]
  BY ChainSelf DEF UnverifiedChainBlocks
<1>o. \A c \in SelectedChain[b] : Order[c] \in Nat
  BY <1>0, OrderNat
<1>1. /\ unv \subseteq SelectedChain[b]
      /\ \A c \in SelectedChain[b] :
           c \in unv <=> /\ Order[c] <= Order[q]
                         /\ \A d \in SelectedChain[b] :
                              Order[d] >= Order[c] => status[d] \in {"none", "pending"}
  BY DEF UnverifiedChainBlocks
<1>2. q \in unv
  BY <1>0, <1>o
<1>3. \A c \in unv : status[c] \in {"none", "pending"} /\ c # Genesis
  BY <1>1, <1>o DEF Valid
<1>4. unv \cap (Valid \cup Disqualified) = {}
  BY <1>3 DEF Valid, Disqualified
<1>5. MinOrder(unv) \in unv /\ \A c \in unv : Order[MinOrder(unv)] <= Order[c]
  BY <1>0, <1>1, <1>2, MinOrderProps
<1>6. ASSUME NEW c \in unv
      PROVE  c \in SelectedChain[q]
  <2>1. c \in SelectedChain[q] \/ q \in SelectedChain[c]
    BY <1>0, <1>1, ChainLinear
  <2>2. CASE q \in SelectedChain[c]
    <3>1. Order[q] <= Order[c]
      BY <2>2, <1>0, <1>1, ChainOrder
    <3>2. Order[q] = Order[c]
      BY <3>1, <1>0, <1>1, <1>o
    <3>3. q = c
      BY <3>2, <1>0, <1>1, OrderAssumption
    <3> QED BY <3>3, <1>0, ChainSelf
  <2> QED BY <2>1, <2>2
<1>7. ASSUME NEW c \in unv, c # MinOrder(unv)
      PROVE  SelectedParent(c) \in unv
  <2> DEFINE e == MinOrder(unv)
  <2>1. c \in SelectedChain[b] /\ e \in SelectedChain[b] /\ c # Genesis /\ c \in Block /\ e \in Block
    BY <1>0, <1>1, <1>3, <1>5
  <2>2. Order[e] # Order[c]
    BY <1>7, <2>1, OrderAssumption
  <2>3. Order[e] < Order[c]
    BY <1>5, <2>1, <2>2, <1>o
  <2>4. Order[e] <= Order[SelectedParent(c)]
    BY <2>1, <2>3, ChainGap
  <2>5. SelectedParent(c) \in SelectedChain[b] /\ Order[SelectedParent(c)] < Order[c]
    BY <2>1, ChainStep, SelectedParentProps
  <2>6. \A d \in SelectedChain[b] :
          Order[d] >= Order[SelectedParent(c)] => status[d] \in {"none", "pending"}
    <3> SUFFICES ASSUME NEW d \in SelectedChain[b], Order[d] >= Order[SelectedParent(c)]
                 PROVE  status[d] \in {"none", "pending"}
      OBVIOUS
    <3>1. Order[d] >= Order[e]
      BY <2>1, <2>4, <2>5, <1>o
    <3> QED BY <3>1, <1>1, <1>5
  <2>7. Order[SelectedParent(c)] <= Order[q]
    BY <2>1, <2>5, <1>0, <1>1, <1>o
  <2> QED BY <2>5, <2>6, <2>7, <1>1
<1>8. SelectedParent(MinOrder(unv)) \in Valid \cup Disqualified
  <2> DEFINE m == MinOrder(unv)
  <2>1. m \in SelectedChain[b] /\ m # Genesis /\ m \in Block
    BY <1>0, <1>1, <1>3, <1>5
  <2> HIDE DEF m
  <2>2. SelectedParent(m) \in SelectedChain[b] /\ Order[SelectedParent(m)] < Order[m]
    BY <2>1, ChainStep, SelectedParentProps
  <2>3. SelectedParent(m) \notin unv
    <3>1. SUFFICES ASSUME SelectedParent(m) \in unv PROVE FALSE
      OBVIOUS
    <3>2. Order[m] <= Order[SelectedParent(m)]
      BY <3>1, <1>5 DEF m
    <3> QED BY <3>2, <2>1, <2>2, <1>o
  <2>4. Order[SelectedParent(m)] <= Order[q]
    <3>1. Order[m] <= Order[q]
      BY <1>1, <1>5 DEF m
    <3> QED BY <3>1, <2>1, <2>2, <1>0, <1>o
  <2>5. PICK d \in SelectedChain[b] : /\ Order[d] >= Order[SelectedParent(m)]
                                      /\ status[d] \notin {"none", "pending"}
    BY <2>2, <2>3, <2>4, <1>1
  <2>6. ~(Order[d] >= Order[m])
    BY <2>5, <1>1, <1>5 DEF m
  <2>7. Order[d] <= Order[SelectedParent(m)]
    BY <2>1, <2>6, <1>o, ChainGap
  <2>8. Order[d] = Order[SelectedParent(m)]
    BY <2>2, <2>5, <2>7, <1>o
  <2>9. d = SelectedParent(m)
    BY <2>2, <2>8, <1>0, OrderAssumption
  <2>10. status[d] \in {"valid", "disqualified"}
    BY <2>5, <1>0
  <2> QED BY <2>9, <2>10, <1>0 DEF Valid, Disqualified, m
<1> QED BY <1>0, <1>1, <1>2, <1>3, <1>4, <1>5, <1>6, <1>7, <1>8

\* In an honest DAG the block below the segment is valid.
LEMMA UnverifiedSegment ==
  ASSUME IInv, NEW b \in Block, NEW q \in UnverifiedChainBlocks(b),
         NEW unv, unv = {c \in UnverifiedChainBlocks(b) : Order[c] <= Order[q]}
  PROVE  /\ q \in unv /\ unv \in SUBSET Block /\ unv \cap Valid = {}
         /\ unv \subseteq SelectedChain[q]
         /\ MinOrder(unv) \in unv /\ MinOrder(unv) # Genesis
         /\ \A c \in unv : /\ Order[c] <= Order[q]
                           /\ SelectedParent(c) \in unv \/ c = MinOrder(unv)
         /\ SelectedParent(MinOrder(unv)) \in Valid
<1>1. Disqualified = {} /\ Genesis \in Valid
      /\ status \in [Block -> {"none", "pending", "valid", "disqualified"}]
  BY DEF IInv, StateType, DagInv, Disqualified
<1> QED BY <1>1, ChainSegment

\* getUnverifiedChainBlocks of an unverified tip contains the tip.
LEMMA TipUnverified ==
  ASSUME NEW b \in Block, status[b] \in {"none", "pending"}
  PROVE  /\ b \in UnverifiedChainBlocks(b)
         /\ UnverifiedChainBlocks(b) = {c \in UnverifiedChainBlocks(b) : Order[c] <= Order[b]}
<1>1. \A c \in SelectedChain[b] : c \in Block /\ Order[c] <= Order[b]
  BY ChainSelf, ChainOrder
<1>2. ASSUME NEW d \in SelectedChain[b], Order[d] >= Order[b]
      PROVE  d = b
  BY <1>1, <1>2, OrderNat, OrderAssumption
<1> QED BY <1>1, <1>2, ChainSelf DEF UnverifiedChainBlocks

\* The selected chain below a block whose parents are known is known.
LEMMA KnownChain ==
  ASSUME \A c \in Known : Parents[c] \subseteq Known,
         NEW b \in Block, Parents[b] \subseteq Known
  PROVE  SelectedChain[b] \subseteq Known \cup {b}
<1>1. Known \cup {b} \in SUBSET Block
  BY DEF Known
<1>2. ASSUME NEW x \in (Known \cup {b}) \ {Genesis}
      PROVE  SelectedParent(x) \in Known \cup {b}
  <2>1. SelectedParent(x) \in Parents[x]
    BY <1>1, SelectedParentProps, Zenon
  <2> QED BY <2>1
<1> QED BY <1>1, <1>2, ChainClosed, Zenon

\* A step that leaves the database and the virtual alone.
LEMMA DatabaseUnchanged ==
  ASSUME IInv, UNCHANGED dbVars
  PROVE  /\ Known' = Known /\ Valid' = Valid
         /\ VirtualSelectedParent' = VirtualSelectedParent
         /\ DagInv' /\ VirtualUTXOCorrect'
         /\ Root' = Root => ForestInv'
  BY DEF dbVars, Known, Valid, VirtualSelectedParent, IInv, DagInv, VirtualInv,
         VirtualUTXOCorrect, ForestInv

\* Starting to resolve a new selected tip preserves the invariant (AddBlock).
LEMMA BeginAddBlockStep ==
  ASSUME IInv, NEW b \in Block, BeginAddBlock(b)
  PROVE  Preserved
<1> DEFINE unv == UnverifiedChainBlocks(b)
           m == MinOrder(unv)
<1>1. /\ b \notin Known /\ b \notin Valid /\ Parents[b] \subseteq Known
      /\ phase = "idle" /\ caller = "none" /\ ~virtualNotUpdated
      /\ IsNewSelectedTip(b) /\ UNCHANGED <<dbVars, virtualNotUpdated>>
  BY DEF BeginAddBlock, CanInsert, Known, Valid, IInv, StateType
<1>2. /\ phase' = "resolving" /\ caller' = "AddBlock" /\ resolveTip' = b /\ pendingTip' = b
      /\ unverified' = unv /\ reversal' = (unv # {b})
      /\ pastUTXO' = IF status[SelectedParent(m)] = "valid"
                     THEN RestorePastUTXO(SelectedParent(m)) ELSE {}
      /\ UNCHANGED <<reversedBlock, reversedDiff>>
  BY DEF BeginAddBlock, StartResolving
<1>3. b \in unv /\ unv = {c \in UnverifiedChainBlocks(b) : Order[c] <= Order[b]}
  BY <1>1, TipUnverified DEF Known
<1>4. /\ unv \in SUBSET Block /\ unv \cap Valid = {} /\ unv \subseteq SelectedChain[b]
      /\ \A c \in unv : Order[c] <= Order[b] /\ (SelectedParent(c) \in unv \/ c = m)
      /\ SelectedParent(m) \in Valid
  BY <1>3, UnverifiedSegment
<1>5. pastUTXO' = PastUTXO[SelectedParent(m)]
  BY <1>2, <1>4, VirtualFacts DEF Valid
<1>6. unv \ {b} \subseteq Known
  BY <1>1, <1>4, KnownChain DEF IInv, DagInv
<1> HIDE DEF unv, m
<1>7. Root' = Root
  BY <1>1, <1>2, DatabaseUnchanged DEF Root
<1>8. StateType'
  BY <1>1, <1>2, <1>4 DEF IInv, StateType, dbVars
<1>9. VirtualInv'
  BY <1>1, <1>2, <1>7, DatabaseUnchanged, Zenon DEF IInv, VirtualInv, dbVars
<1>10. ResolvingInv'
  BY <1>1, <1>2, <1>3, <1>4, <1>5, <1>6, DatabaseUnchanged, Zenon
  DEF ResolvingInv, IsNewSelectedTip, m
<1>11. ReversingInv'
  BY <1>2 DEF ReversingInv
<1> QED BY <1>1, <1>7, <1>8, <1>9, <1>10, <1>11, DatabaseUnchanged, VirtualFacts,
        OrderAtLeast, Zenon DEF IInv, Preserved

\* Without disqualified blocks and finality conflicts every tip is pending.
LEMMA AllTipsPending ==
  ASSUME ShallowDAG, IInv
  PROVE  PendingTips = tips
<1>1. \A t \in tips : t \in Block /\ status[t] \in {"valid", "pending"}
  BY DEF IInv, DagInv, StateType, Known
<1>2. \A t \in tips : ~IsViolatingFinality(t)
  BY <1>1, NoFinalityViolation DEF IInv, StateType
<1> QED BY <1>1, <1>2, SMTT(30) DEF PendingTips

\* ResolveVirtual without a pending tip above the virtual preserves the invariant.
LEMMA DoneStep ==
  ASSUME ShallowDAG, IInv, ResolveVirtualDone
  PROVE  Preserved
<1> DEFINE vsp == VirtualSelectedParent
<1>1. phase = "idle" /\ caller = "none" /\ virtualNotUpdated' = FALSE /\ UNCHANGED <<dbVars, opVars>>
  BY DEF ResolveVirtualDone, ResolveVirtualCalled, IInv, StateType
<1>2. \A t \in tips : Order[t] <= Order[vsp]
  <2>1. tips # {}
    BY DEF IInv, DagInv
  <2> QED BY <2>1, AllTipsPending DEF ResolveVirtualDone
<1>3. ASSUME NEW c \in Known PROVE Order[c] <= Order[vsp]
  <2>1. PICK t \in tips : Order[c] <= Order[t]
    BY DEF IInv, DagInv
  <2>2. t \in Block /\ c \in Block /\ vsp \in Block
    BY VirtualFacts DEF IInv, StateType
  <2> QED BY <2>1, <2>2, <1>2, OrderNat
<1>4. Root' = Root
  BY <1>1, DatabaseUnchanged DEF Root, opVars
<1>5. StateType'
  BY <1>1, ZenonT(30) DEF IInv, StateType, dbVars, opVars
<1>6. VirtualInv'
  BY <1>1, <1>3, <1>4, DatabaseUnchanged DEF IInv, VirtualInv, dbVars, opVars
<1>7. ResolvingInv' /\ ReversingInv'
  BY <1>1 DEF ResolvingInv, ReversingInv, opVars
<1> QED BY <1>1, <1>4, <1>5, <1>6, <1>7, DatabaseUnchanged, VirtualFacts DEF IInv, Preserved

\* Choosing a pending tip and a processing point preserves the invariant
\* (ResolveVirtual).
LEMMA BeginResolveStep ==
  ASSUME ShallowDAG, IInv, BeginResolveVirtual
  PROVE  Preserved
<1> DEFINE tip == MaxOrder(tips)
           vsp == VirtualSelectedParent
           all == UnverifiedChainBlocks(tip)
           point == IF Cardinality(all) <= VirtualResolveChunk THEN tip
                    ELSE MinOrder(ProcessingPoints(all))
           unv == {c \in all : Order[c] <= Order[point]}
           m == MinOrder(unv)
<1>1. phase = "idle" /\ caller = "none" /\ UNCHANGED <<dbVars, virtualNotUpdated>>
  BY DEF BeginResolveVirtual, ResolveVirtualCalled, IInv, StateType
<1>2. PendingTips = tips
  BY AllTipsPending
<1>3. tip \in tips /\ tip \in Block /\ tip \in Known /\ \A t \in tips : Order[t] <= Order[tip]
  BY MaxOrderProps DEF IInv, StateType, DagInv
<1>4. Order[vsp] <= Order[tip]
  <2>1. vsp \in Known
    BY VirtualFacts DEF IInv, VirtualInv
  <2>2. PICK t \in tips : Order[vsp] <= Order[t]
    BY <2>1 DEF IInv, DagInv
  <2>3. t \in Block /\ Order[t] <= Order[tip]
    BY <1>3 DEF IInv, StateType
  <2> QED BY <2>2, <2>3, <1>3, VirtualFacts, OrderNat
<1>5. tip # vsp /\ tip \notin Valid
  <2>1. CASE tip \in Valid
    <3>1. Root = vsp
      BY <1>1 DEF Root
    <3>2. Order[tip] <= Order[vsp]
      BY <2>1, <3>1, <1>3, VirtualFacts DEF IInv, VirtualInv
    <3>3. tip = vsp
      BY <3>2, <1>3, <1>4, VirtualFacts, OrderNat, OrderAssumption
    <3> QED BY <2>1, <3>3, <1>2 DEF BeginResolveVirtual, Valid
  <2>2. CASE tip \notin Valid
    BY <2>2 DEF IInv, VirtualInv
  <2> QED BY <2>1, <2>2
<1>6. Order[tip] > Order[vsp]
  BY <1>3, <1>4, <1>5, VirtualFacts, OrderNat, OrderAssumption
<1>7. status[tip] # "valid"
  BY <1>3, <1>5, Zenon DEF Valid
<1>8. /\ Cardinality(all) > VirtualResolveChunk => ProcessingPoints(all) # {}
      /\ StartResolving("ResolveVirtual", point, tip, unv)
  BY <1>2, <1>7 DEF BeginResolveVirtual
<1>9. tip \in all /\ all \in SUBSET Block
  <2>1. status[tip] \in {"none", "pending"}
    BY <1>3, <1>7 DEF IInv, StateType
  <2> QED BY <1>3, <2>1, TipUnverified, ChainSelf DEF UnverifiedChainBlocks
<1>10. point \in all /\ Order[point] > Order[vsp]
  <2>1. CASE Cardinality(all) <= VirtualResolveChunk
    BY <2>1, <1>6, <1>9
  <2>2. CASE ~(Cardinality(all) <= VirtualResolveChunk)
    <3>1. Cardinality(all) \in Nat
      BY <1>9, FS_Subset, FS_CardinalityType, BlockAssumption
    <3>a. Cardinality(all) > VirtualResolveChunk
      <4> HIDE DEF all
      <4> QED BY <2>2, <3>1, DepthAssumption
    <3>b. ProcessingPoints(all) \subseteq Block
      <4> HIDE DEF all
      <4> QED BY <1>9 DEF ProcessingPoints
    <3>2. ProcessingPoints(all) # {} /\ ProcessingPoints(all) \subseteq Block
      <4>1. ProcessingPoints(all) # {}
        BY <3>a, <1>8
      <4> QED BY <4>1, <3>b
    <3>3. point \in ProcessingPoints(all)
      BY <2>2, <3>2, MinOrderProps, Zenon
    <3> QED BY <3>3 DEF ProcessingPoints
  <2> QED BY <2>1, <2>2
<1>11. /\ phase' = "resolving" /\ caller' = "ResolveVirtual"
       /\ resolveTip' = point /\ pendingTip' = tip
       /\ unverified' = unv /\ reversal' = (unv # {point})
       /\ pastUTXO' = IF status[SelectedParent(m)] = "valid"
                      THEN RestorePastUTXO(SelectedParent(m)) ELSE {}
       /\ UNCHANGED <<reversedBlock, reversedDiff>>
  BY <1>8, Zenon DEF StartResolving
<1> HIDE DEF point
<1>12. /\ point \in unv /\ unv \in SUBSET Block /\ unv \cap Valid = {}
       /\ unv \subseteq SelectedChain[point]
       /\ \A c \in unv : Order[c] <= Order[point] /\ (SelectedParent(c) \in unv \/ c = m)
       /\ SelectedParent(m) \in Valid
  <2>1. unv = {c \in UnverifiedChainBlocks(tip) : Order[c] <= Order[point]}
    OBVIOUS
  <2>2. point \in UnverifiedChainBlocks(tip) /\ tip \in Block
    BY <1>3, <1>10, Zenon
  <2> HIDE DEF unv, tip
  <2> QED BY <2>1, <2>2, UnverifiedSegment
<1>13. pastUTXO' = PastUTXO[SelectedParent(m)]
  BY <1>11, <1>12, VirtualFacts DEF Valid
<1>14. unv \subseteq Known
  <2>1. SelectedChain[tip] \subseteq Known
    BY <1>3, KnownChain DEF IInv, DagInv
  <2> QED BY <2>1 DEF UnverifiedChainBlocks
<1> HIDE DEF unv, m, tip
<1>15. Root' = Root
  BY <1>1, <1>11, DatabaseUnchanged DEF Root
<1>16. StateType'
  BY <1>1, <1>3, <1>11, <1>12, Zenon DEF IInv, StateType, dbVars
<1>17. VirtualInv'
  BY <1>1, <1>3, <1>10, <1>11, <1>12, <1>14, <1>15, DatabaseUnchanged, ZenonT(30)
  DEF IInv, VirtualInv, dbVars
<1>18. ResolvingInv'
  BY <1>1, <1>11, <1>12, <1>13, <1>14, DatabaseUnchanged, Zenon DEF ResolvingInv, m
<1>19. ReversingInv'
  BY <1>11 DEF ReversingInv
<1> QED BY <1>1, <1>15, <1>16, <1>17, <1>18, <1>19, DatabaseUnchanged, VirtualFacts,
        OrderAtLeast, Zenon DEF IInv, Preserved

\* Without its lowest block a segment of a selected chain is one right above it.
LEMMA SegmentRest ==
  ASSUME NEW tip \in Block, NEW u \in SUBSET Block, tip \in u, u # {tip}, Genesis \notin u,
         u \subseteq SelectedChain[tip],
         \A c \in u : SelectedParent(c) \in u \/ c = MinOrder(u),
         NEW b, b = MinOrder(u), NEW rest, rest = u \ {b}
  PROVE  /\ b \in u /\ b # tip /\ tip \in rest /\ MinOrder(rest) \in rest
         /\ SelectedParent(MinOrder(rest)) = b
         /\ \A c \in rest : SelectedParent(c) \in rest \/ c = MinOrder(rest)
<1> DEFINE m == MinOrder(rest)
<1>1. b \in u /\ \A c \in u : c \in Block /\ Order[c] \in Nat /\ Order[b] <= Order[c]
  BY MinOrderProps, OrderNat
<1>2. \A c \in u : Order[c] <= Order[tip]
  BY ChainOrder
<1>3. b # tip
  <2>1. ASSUME b = tip, NEW c \in u PROVE c = tip
    BY <2>1, <1>1, <1>2, OrderAssumption
  <2> QED BY <2>1
<1>4. m \in rest /\ \A c \in rest : Order[m] <= Order[c]
  BY <1>3, MinOrderProps
<1> HIDE DEF m
<1>5. SelectedParent(m) = b
  <2>1. m \in Block /\ m # Genesis /\ SelectedParent(m) \in u
    BY <1>1, <1>4
  <2>2. Order[SelectedParent(m)] < Order[m]
    BY <2>1, SelectedParentProps
  <2> QED BY <2>1, <2>2, <1>1, <1>4
<1>6. ASSUME NEW c \in rest PROVE SelectedParent(c) \in rest \/ c = m
  <2>1. SelectedParent(c) \in u
    OBVIOUS
  <2>2. ASSUME SelectedParent(c) = b, c # m
        PROVE  FALSE
    <3>1. c \in Block /\ m \in Block /\ Order[c] # Order[m]
      BY <1>1, <1>4, <2>2, OrderAssumption
    <3>2. Order[m] < Order[c]
      BY <3>1, <1>1, <1>4
    <3>3. Order[m] <= Order[b]
      BY <3>2, <2>2, <1>4, ChainGap
    <3>4. Order[b] < Order[m]
      BY <1>5, <3>1, <1>4, SelectedParentProps
    <3> QED BY <3>3, <3>4, <1>1, <1>4
  <2> QED BY <2>1, <2>2
<1> QED BY <1>1, <1>3, <1>4, <1>5, <1>6 DEF m

\* A committed chain block hangs from its selected parent, and the rest of
\* the unverified segment is right above it.
LEMMA ResolveChainBlockStep ==
  ASSUME AllBlocksVerify, IInv, ResolveChainBlock
  PROVE  Preserved
<1> DEFINE b == MinOrder(unverified)
           unv == unverified \ {b}
           m == MinOrder(unv)
           sp == SelectedParent(b)
<1>0. phase = "resolving" /\ unverified # {resolveTip} /\ unverified \in SUBSET Block
      /\ resolveTip \in unverified /\ unverified \subseteq SelectedChain[resolveTip]
      /\ resolveTip \in Block
  BY DEF ResolveChainBlock, IInv, ResolvingInv, StateType
<1>1. /\ b \in unverified /\ b \in Block \ Valid /\ b # Genesis /\ sp \in Valid
      /\ pastUTXO = PastUTXO[sp] /\ NextPastUTXO(b) = PastUTXO[b]
      /\ ResolvedStatus(b) = "valid"
  BY <1>0, NextBlockValid
<1>2. /\ status' = [status EXCEPT ![b] = "valid"]
      /\ unverified' = unv
      /\ diff' = [diff EXCEPT ![b] = DiffFrom(PastUTXO[sp], PastUTXO[b])]
      /\ diffChild' = [diffChild EXCEPT ![b] = sp]
      /\ pastUTXO' = PastUTXO[b]
      /\ UNCHANGED <<tips, virtualParents, virtualUTXO, virtualNotUpdated, phase, caller,
                     resolveTip, pendingTip, reversal, reversedBlock, reversedDiff>>
  BY <1>1, Zenon DEF ResolveChainBlock
<1>g. Genesis \notin unverified
  BY <1>0 DEF IInv, ResolvingInv, DagInv
<1>3. \A c \in unverified : SelectedParent(c) \in unverified \/ c = MinOrder(unverified)
  BY <1>0 DEF IInv, ResolvingInv
<1>4. /\ b # resolveTip /\ resolveTip \in unv /\ m \in unv /\ SelectedParent(m) = b
      /\ \A c \in unv : SelectedParent(c) \in unv \/ c = m
  <2>1. unv = unverified \ {b} /\ b = MinOrder(unverified)
    OBVIOUS
  <2> HIDE DEF b, unv
  <2> QED BY <1>0, <1>g, <1>3, <2>1, SegmentRest
<1> HIDE DEF b, m
<1>6. b \in Known
  BY <1>0, <1>1, <1>4 DEF IInv, ResolvingInv
<1>7. unv \in SUBSET Block /\ \A c \in unv : Order[c] <= Order[resolveTip]
  BY <1>0 DEF IInv, ResolvingInv
<1>11. Known' = Known /\ Valid' = Valid \cup {b}
  BY <1>1, <1>2, <1>6 DEF Known, Valid, IInv, StateType
<1>12. VirtualSelectedParent' = VirtualSelectedParent /\ Root' = Root
  BY <1>2 DEF VirtualSelectedParent, Root
<1>13. b \in tips => Order[b] <= Order[VirtualSelectedParent]
  <2>1. CASE caller = "AddBlock"
    BY <2>1, <1>6 DEF IInv, VirtualInv
  <2>2. CASE caller = "ResolveVirtual"
    <3>1. m \in Known /\ m \in Block /\ m # Genesis
      BY <2>2, <1>0, <1>4, <1>g DEF IInv, ResolvingInv, VirtualInv
    <3>2. b \in Parents[m]
      BY <3>1, <1>4, SelectedParentProps, Zenon
    <3> QED BY <3>1, <3>2 DEF IInv, DagInv
  <2> QED BY <2>1, <2>2, <1>0 DEF IInv, StateType
<1>14. StateType'
  BY <1>0, <1>1, <1>2, <1>7, VirtualFacts, Zenon DEF IInv, StateType
<1>15. DagInv'
  BY <1>1, <1>2, <1>11, Zenon DEF IInv, DagInv
<1>16. VirtualInv'
  <2>1. VirtualUTXOCorrect'
    BY <1>2, <1>12, Zenon DEF IInv, VirtualInv, VirtualUTXOCorrect
  <2> QED BY <1>2, <1>11, <1>12, <1>13, <2>1, SMTT(30) DEF IInv, VirtualInv
<1>17. ForestInv'
  <2>1. /\ DOMAIN diff = Block /\ diffChild \in [Block -> Block \cup {None}]
        /\ Valid \in SUBSET Block
    BY VirtualFacts DEF IInv, StateType
  <2>2. Forest(Valid, diff, diffChild, virtualUTXO, Root)
    BY DEF IInv, ForestInv
  <2>3. Forest(Valid \cup {b}, diff', diffChild', virtualUTXO, Root)
    BY <1>1, <1>2, <2>1, <2>2, ForestCommitChain, Zenon
  <2> QED BY <2>3, <1>2, <1>11, <1>12, Zenon DEF ForestInv
<1>18. ResolvingInv'
  <2>1. unv \cap (Valid \cup {b}) = {} /\ unv \ {resolveTip} \subseteq Known
    BY <1>0 DEF IInv, ResolvingInv
  <2> QED BY <1>0, <1>2, <1>4, <1>7, <1>11, <1>12, <2>1, Zenon DEF IInv, ResolvingInv, m
<1>19. ReversingInv'
  BY <1>0, <1>2, Zenon DEF ReversingInv
<1> QED BY <1>12, <1>14, <1>15, <1>16, <1>17, <1>18, <1>19, VirtualFacts, OrderAtLeast, Zenon
        DEF IInv, Preserved

\* What resolveSingleBlockStatus stages for a new selected tip: the tip
\* becomes the root of the diff forest and the old root hangs from it.
LEMMA StagedForest ==
  ASSUME NEW b \in Block \ Valid, Order[b] > Order[VirtualSelectedParent],
         pastUTXO = PastUTXO[SelectedParent(b)], NextPastUTXO(b) = PastUTXO[b],
         Forest(Valid, diff, diffChild, virtualUTXO, VirtualSelectedParent),
         DOMAIN diff = Block, diffChild \in [Block -> Block \cup {None}]
  PROVE  /\ DOMAIN StagedDiff(b) = Block
         /\ StagedDiffChild(b) \in [Block -> Block \cup {None}]
         /\ StagedDiffChild(b)[b] = None
         /\ Forest(Valid \cup {b}, StagedDiff(b), StagedDiffChild(b), virtualUTXO, b)
         /\ Reversed(DiffFrom(NextPastUTXO(b), pastUTXO))
              = DiffFrom(PastUTXO[SelectedParent(b)], PastUTXO[b])
<1> DEFINE old == VirtualSelectedParent
<1>1. Valid \in SUBSET Block /\ old \in Valid
  BY DEF Valid, Forest, OnlyRoot
<1>2. RestorePastUTXO(old) = PastUTXO[old]
  BY <1>1, ForestRestored, SMTT(30) DEF RestorePastUTXO
<1>3. /\ StagedDiff(b) = [diff EXCEPT ![old] = DiffFrom(PastUTXO[b], PastUTXO[old]),
                                      ![b] = DiffFrom(virtualUTXO, PastUTXO[b])]
      /\ StagedDiffChild(b) = [diffChild EXCEPT ![old] = b]
  BY <1>2, SMTT(30) DEF StagedDiff, StagedDiffChild, IsNewSelectedTip
<1> HIDE DEF old
<1>4. Forest(Valid \cup {b}, StagedDiff(b), StagedDiffChild(b), virtualUTXO, b)
  <2>1. Forest(Valid \cup {b},
               [diff EXCEPT ![old] = DiffFrom(PastUTXO[b], PastUTXO[old]),
                            ![b] = DiffFrom(virtualUTXO, PastUTXO[b])],
               [diffChild EXCEPT ![old] = b], virtualUTXO, b)
    BY <1>1, ForestCommitTip, ZenonT(30) DEF old
  <2> QED BY <2>1, <1>3, SMTT(30)
<1>5. DOMAIN StagedDiff(b) = Block
  BY <1>3, Zenon
<1>6. StagedDiffChild(b) \in [Block -> Block \cup {None}]
  BY <1>1, <1>3, Zenon
<1>7. StagedDiffChild(b)[b] = None
  BY <1>4 DEF Forest, OnlyRoot
<1> QED BY <1>4, <1>5, <1>6, <1>7, DiffAlgebra, Zenon

\* The resolved tip of an honest DAG is staged so.
LEMMA StagedTip ==
  ASSUME AllBlocksVerify, IInv, phase = "resolving", unverified = {resolveTip},
         Order[resolveTip] > Order[VirtualSelectedParent],
         NEW b, b = resolveTip
  PROVE  /\ b \in Block \ Valid /\ b # Genesis /\ SelectedParent(b) \in Valid
         /\ ResolvedStatus(b) = "valid"
         /\ DOMAIN StagedDiff(b) = Block
         /\ StagedDiffChild(b) \in [Block -> Block \cup {None}]
         /\ StagedDiffChild(b)[b] = None
         /\ Forest(Valid \cup {b}, StagedDiff(b), StagedDiffChild(b), virtualUTXO, b)
         /\ Reversed(DiffFrom(NextPastUTXO(b), pastUTXO))
              = DiffFrom(PastUTXO[SelectedParent(b)], PastUTXO[b])
<1>1. b = MinOrder(unverified)
  BY MinOrderProps DEF IInv, StateType
<1>2. /\ b \in Block \ Valid /\ b # Genesis /\ SelectedParent(b) \in Valid
      /\ pastUTXO = PastUTXO[SelectedParent(b)] /\ NextPastUTXO(b) = PastUTXO[b]
      /\ ResolvedStatus(b) = "valid"
  BY <1>1, NextBlockValid
<1>3. Root = VirtualSelectedParent
  BY DEF Root
<1> QED BY <1>2, <1>3, StagedForest, Zenon DEF IInv, StateType, ForestInv

\* At the tip of a chain the blocks at or above it are the tip itself.
LEMMA ChainTop ==
  ASSUME NEW b \in Block
  PROVE  {x \in SelectedChain[b] : Order[x] >= Order[b]} = {b}
<1>1. \A x \in SelectedChain[b] : x \in Block /\ Order[x] <= Order[b]
  BY ChainSelf, ChainOrder
<1>2. ASSUME NEW x \in SelectedChain[b], Order[x] >= Order[b] PROVE x = b
  BY <1>1, <1>2, OrderNat, OrderAssumption, SMTT(30)
<1> QED BY <1>2, ChainSelf, OrderNat

\* When ReverseUTXODiffs starts, the chain above the reversed block is the tip alone.
LEMMA ReversingBegins ==
  ASSUME NEW b \in Block \ {Genesis}, Root' = b, diffChild'[b] = None,
         phase' = "reversing" =>
           /\ reversedBlock' = b /\ resolveTip' = b
           /\ reversedDiff' = DiffFrom(PastUTXO[SelectedParent(b)], PastUTXO[b])
  PROVE  ReversingInv'
<1>1. {x \in SelectedChain[b] : Order[x] >= Order[b]} = {b} /\ b \in SelectedChain[b]
  BY ChainTop, ChainSelf, Zenon
<1> QED BY <1>1, SMTT(30) DEF ReversingInv

\* The committed processing point is the root of the diff forest until the
\* virtual moves to it.
LEMMA CommitProcessingPointStep ==
  ASSUME AllBlocksVerify, IInv, CommitProcessingPoint
  PROVE  Preserved
<1> DEFINE b == resolveTip
<1>1. phase = "resolving" /\ caller = "ResolveVirtual" /\ unverified = {b} /\ b \in Block
      /\ Order[b] > Order[VirtualSelectedParent] /\ b \in Known
  BY Zenon DEF CommitProcessingPoint, IInv, VirtualInv, StateType
<1>2. /\ b \in Block \ Valid /\ b # Genesis /\ SelectedParent(b) \in Valid
      /\ ResolvedStatus(b) = "valid"
      /\ DOMAIN StagedDiff(b) = Block
      /\ StagedDiffChild(b) \in [Block -> Block \cup {None}]
      /\ StagedDiffChild(b)[b] = None
      /\ Forest(Valid \cup {b}, StagedDiff(b), StagedDiffChild(b), virtualUTXO, b)
      /\ Reversed(DiffFrom(NextPastUTXO(b), pastUTXO))
           = DiffFrom(PastUTXO[SelectedParent(b)], PastUTXO[b])
  BY <1>1, StagedTip, Zenon
<1>3. /\ status' = [status EXCEPT ![b] = "valid"]
      /\ diff' = StagedDiff(b) /\ diffChild' = StagedDiffChild(b)
      /\ \/ /\ phase' = "reversing" /\ reversedBlock' = b
            /\ reversedDiff' = DiffFrom(PastUTXO[SelectedParent(b)], PastUTXO[b])
            /\ unverified' = {} /\ reversal' = FALSE
         \/ /\ phase' = "updating" /\ unverified' = {}
            /\ UNCHANGED <<reversal, reversedBlock, reversedDiff>>
      /\ UNCHANGED <<caller, resolveTip, pendingTip, tips, virtualParents, virtualUTXO,
                     virtualNotUpdated>>
  BY <1>2, Zenon DEF CommitProcessingPoint, StartReversing
<1>4. Known' = Known /\ Valid' = Valid \cup {b}
  BY <1>1, <1>2, <1>3, Zenon DEF Known, Valid, IInv, StateType
<1>5. VirtualSelectedParent' = VirtualSelectedParent /\ Root' = b
      /\ Root = VirtualSelectedParent
  BY <1>1, <1>3, SMTT(30) DEF VirtualSelectedParent, Root
<1>6. StateType'
  BY <1>1, <1>2, <1>3, ZenonT(30) DEF IInv, StateType
<1>7. DagInv'
  BY <1>2, <1>3, <1>4, Zenon DEF IInv, DagInv
<1>8. VirtualInv'
  <2>1. VirtualUTXOCorrect'
    BY <1>3, <1>5, SMTT(30) DEF IInv, VirtualInv, VirtualUTXOCorrect
  <2>2. \A t \in tips \cap (Valid \cup {b}) : Order[t] <= Order[VirtualSelectedParent] \/ t = b
    BY <1>5, VirtualFacts DEF IInv, VirtualInv
  <2> QED BY <1>1, <1>3, <1>4, <1>5, <2>1, <2>2, ZenonT(30) DEF IInv, VirtualInv
<1>9. ForestInv'
  BY <1>2, <1>3, <1>4, <1>5, Zenon DEF ForestInv
<1>10. ResolvingInv'
  BY <1>3, SMTT(30) DEF ResolvingInv
<1>11. ReversingInv'
  <2>1. b \in Block \ {Genesis} /\ diffChild'[b] = None
    BY <1>1, <1>2, <1>3, Zenon
  <2> QED BY <1>3, <1>5, <2>1, ReversingBegins, Zenon
<1>12. Order[VirtualSelectedParent'] >= Order[VirtualSelectedParent]
  BY <1>5, VirtualFacts
<1> QED BY <1>6, <1>7, <1>8, <1>9, <1>10, <1>11, <1>12, Zenon DEF IInv, Preserved

\* The new selected tip and the virtual above it are committed together.
LEMMA CommitAddBlockStep ==
  ASSUME AllBlocksVerify, IInv, CommitAddBlock
  PROVE  Preserved
<1> DEFINE b == resolveTip
           st == [status EXCEPT ![b] = "valid"]
           df == StagedDiff(b)
           ch == StagedDiffChild(b)
<1>1. /\ phase = "resolving" /\ caller = "AddBlock" /\ unverified = {b} /\ b \in Block
      /\ Order[b] > Order[VirtualSelectedParent]
      /\ b \notin Known /\ Parents[b] \subseteq Known
      /\ ~virtualNotUpdated /\ virtualNotUpdated' = virtualNotUpdated
  BY ZenonT(30) DEF CommitAddBlock, IInv, VirtualInv, StateType, ResolvingInv
<1>2. /\ b \in Block \ Valid /\ b # Genesis /\ SelectedParent(b) \in Valid
      /\ ResolvedStatus(b) = "valid"
      /\ DOMAIN df = Block
      /\ ch \in [Block -> Block \cup {None}]
      /\ ch[b] = None
      /\ Forest(Valid \cup {b}, df, ch, virtualUTXO, b)
      /\ Reversed(DiffFrom(NextPastUTXO(b), pastUTXO))
           = DiffFrom(PastUTXO[SelectedParent(b)], PastUTXO[b])
  BY <1>1, StagedTip, ZenonT(30)
<1>3. /\ CommitBlock(b, st, df, ch)
      /\ \/ /\ phase' = "reversing" /\ reversedBlock' = b
            /\ reversedDiff' = DiffFrom(PastUTXO[SelectedParent(b)], PastUTXO[b])
            /\ unverified' = {} /\ reversal' = FALSE
            /\ UNCHANGED <<caller, resolveTip, pendingTip>>
         \/ Release
  <2>1. /\ CommitBlock(b, [status EXCEPT ![b] = ResolvedStatus(b)], df, ch)
        /\ \/ StartReversing(b) /\ UNCHANGED <<caller, resolveTip, pendingTip>>
           \/ Release
    BY <1>2, Zenon DEF CommitAddBlock
  <2> QED BY <1>2, <2>1, Zenon DEF StartReversing
<1> HIDE DEF df, ch
<1>4. status' = st /\ tips' = NewTips(b)
  BY <1>3, ZenonT(30) DEF CommitBlock
<1>5. Known' = Known \cup {b} /\ Valid' = Valid \cup {b}
      /\ {c \in Block : st[c] = "valid"} = Valid \cup {b}
  BY <1>1, <1>2, <1>4 DEF Known, Valid, IInv, StateType
<1>6. \A c \in Known : Order[c] <= Order[b]
  <2> SUFFICES ASSUME NEW c \in Known PROVE Order[c] <= Order[b]
    OBVIOUS
  <2>1. Order[c] <= Order[VirtualSelectedParent]
    BY <1>1 DEF IInv, VirtualInv
  <2> QED BY <2>1, <1>1, VirtualFacts, OrderNat
<1>7. SelectVirtualSelectedParent(st) = b
  <2>1. Valid \cup {b} \in SUBSET Block /\ \A c \in Valid \cup {b} : Order[c] <= Order[b]
    BY <1>1, <1>6, VirtualFacts, OrderNat
  <2>2. b \in Valid \cup {b}
    BY Zenon
  <2> HIDE DEF b
  <2> QED BY <1>5, <2>1, <2>2, MaxOrderUnique DEF SelectVirtualSelectedParent
<1>8. PICK ps \in VirtualParentSets(b, ParentCandidates(st, b)) :
        UpdateVirtualWithParents(ps, Valid \cup {b}, df, ch)
  BY <1>3, <1>5, <1>7 DEF CommitBlock
<1>9. ps \in SUBSET Block /\ b \in ps /\ MaxOrder(ps) = b
  <2>1. ParentCandidates(st, b) \in SUBSET Block
        /\ \A c \in ParentCandidates(st, b) : Order[c] < Order[b]
    BY DEF ParentCandidates
  <2> QED BY <2>1, <1>1, VirtualParentSetsProps, Zenon
<1>10. /\ virtualParents' = ps /\ VirtualSelectedParent' = b
       /\ VirtualUTXOCorrect' /\ diffChild' = ch /\ DOMAIN diff' = Block
       /\ Forest(Valid \cup {b}, diff', diffChild', virtualUTXO', b)
  <2>1. Valid \cup {b} \in SUBSET Block
    BY <1>1, VirtualFacts, SMTT(30)
  <2> QED BY <2>1, <1>2, <1>8, <1>9, UpdateVirtualForest, ZenonT(30)
<1>11. Root' = b
  BY <1>1, <1>3, <1>10, ZenonT(30) DEF Root, Release
<1>12. StateType'
  BY <1>1, <1>2, <1>3, <1>4, <1>9, <1>10, BlockAssumption, ZenonT(30)
  DEF IInv, StateType, NewTips, Release
<1>13. DagInv'
  BY <1>1, <1>2, <1>4, <1>5, NewTipsDag, ZenonT(30)
<1>14. VirtualInv'
  <2>1. caller' \in {"AddBlock", "none"}
    BY <1>1, <1>3 DEF Release
  <2>2. \A c \in Known \cup {b} : Order[c] <= Order[b]
    BY <1>1, <1>6, OrderNat
  <2>3. tips' \cap Valid' \subseteq Known \cup {b} /\ b \in Valid'
    BY <1>5, VirtualFacts
  <2> QED BY <1>1, <1>5, <1>10, <1>11, <2>1, <2>2, <2>3, ZenonT(30) DEF VirtualInv
<1>15. ForestInv'
  BY <1>5, <1>10, <1>11, Zenon DEF ForestInv
<1>16. ResolvingInv'
  BY <1>3, SMTT(30) DEF ResolvingInv, Release
<1>17. ReversingInv'
  <2>1. phase' = "reversing" =>
          /\ reversedBlock' = b /\ resolveTip' = b
          /\ reversedDiff' = DiffFrom(PastUTXO[SelectedParent(b)], PastUTXO[b])
    BY <1>3, Zenon DEF Release
  <2>2. b \in Block \ {Genesis} /\ diffChild'[b] = None
    BY <1>1, <1>2, <1>10, Zenon
  <2> QED BY <1>11, <2>1, <2>2, ReversingBegins, Zenon
<1>18. Order[VirtualSelectedParent'] >= Order[VirtualSelectedParent]
  BY <1>1, <1>10, VirtualFacts, OrderAtLeast, Zenon
<1> QED BY <1>12, <1>13, <1>14, <1>15, <1>16, <1>17, <1>18, Zenon DEF IInv, Preserved

\* The blocks of the selected chain of a valid block are valid.
LEMMA ValidChain ==
  ASSUME IInv, NEW b \in Valid
  PROVE  SelectedChain[b] \subseteq Valid
  BY VirtualFacts, ChainClosed DEF IInv, DagInv

\* One commit of ReverseUTXODiffs turns the next edge of the selected chain
\* around without touching what any block is restored to.
LEMMA ReverseEdge ==
  ASSUME ForestInv, ReversingInv, ReverseUTXODiff,
         resolveTip \in Block, SelectedChain[resolveTip] \subseteq Valid,
         caller \in {"AddBlock", "ResolveVirtual"},
         DOMAIN diff = Block, diffChild \in [Block -> Block \cup {None}]
  PROVE  /\ ForestInv' /\ ReversingInv' /\ Root' = Root
         /\ DOMAIN diff' = Block /\ diffChild' \in [Block -> Block \cup {None}]
         /\ UNCHANGED <<status, tips, virtualParents, virtualUTXO, virtualNotUpdated>>
         /\ \/ /\ reversedBlock' = SelectedParent(reversedBlock) /\ reversedBlock' \in Block
               /\ UNCHANGED <<phase, caller, resolveTip, pendingTip, unverified, reversal, pastUTXO>>
            \/ caller = "AddBlock" /\ Release
            \/ /\ caller # "AddBlock" /\ phase' = "updating" /\ reversedBlock' = Genesis
               /\ UNCHANGED <<caller, resolveTip, pendingTip, unverified, reversal, pastUTXO>>
<1> DEFINE r == reversedBlock
           b == SelectedParent(r)
           tip == resolveTip
           chain == SelectedChain[tip]
           up == {x \in chain : Order[x] >= Order[r]}
<1>1. /\ phase = "reversing" /\ r \in chain /\ r # Genesis /\ Root = tip
      /\ \A x \in up : diffChild[x] \in up \cup {None}
      /\ reversedDiff = DiffFrom(PastUTXO[b], PastUTXO[r])
  BY SMTT(30) DEF ReverseUTXODiff, ReversingInv
<1>2. Forest(Valid, diff, diffChild, virtualUTXO, tip) /\ tip \in Valid
      /\ \A x \in Valid : diffChild[x] = None <=> x = tip
  BY <1>1, Zenon DEF ForestInv, Forest, OnlyRoot
<1>3. Valid \in SUBSET Block /\ b \in chain /\ r \in Block
  BY <1>1, ChainStep, SMTT(30) DEF Valid
<1>4. Order[b] < Order[r] /\ Order[r] <= Order[tip]
  BY <1>1, <1>3, SelectedParentProps, ChainOrder
<1>n. \A x \in chain : Order[x] \in Nat
  BY <1>3, OrderNat
<1>5. b # tip /\ b \notin up /\ r \in up
  BY <1>1, <1>3, <1>4, <1>n
<1>6. diffChild[b] # None
  BY <1>2, <1>3, <1>5, Zenon
<1>7. /\ diff' = [diff EXCEPT ![b] = DiffFrom(PastUTXO[r], PastUTXO[b])]
      /\ diffChild' = [diffChild EXCEPT ![b] = r]
      /\ UNCHANGED <<status, tips, virtualParents, virtualUTXO, virtualNotUpdated>>
  BY <1>1, <1>6, DiffAlgebra, Zenon DEF ReverseUTXODiff
<1>8. \/ /\ b # Genesis /\ diffChild[b] = SelectedParent(b)
         /\ reversedBlock' = b /\ reversedDiff' = diff[b]
         /\ UNCHANGED <<phase, caller, resolveTip, pendingTip, unverified, reversal, pastUTXO>>
      \/ caller = "AddBlock" /\ Release
      \/ /\ caller # "AddBlock" /\ phase' = "updating" /\ reversedBlock' = Genesis
         /\ UNCHANGED <<caller, resolveTip, pendingTip, unverified, reversal, pastUTXO>>
  BY <1>6, SMTT(30) DEF ReverseUTXODiff
<1> HIDE DEF b, up, chain
<1>9. Forest(Valid, diff', diffChild', virtualUTXO, tip)
  <2>1. b \in Valid /\ r \in Valid /\ up \in SUBSET Valid
    BY <1>1, <1>3 DEF up, chain
  <2> HIDE DEF r, tip
  <2> QED BY <1>1, <1>2, <1>3, <1>5, <1>7, <2>1, ForestReverse, ZenonT(30)
<1>10. Valid' = Valid /\ VirtualSelectedParent' = VirtualSelectedParent
  BY <1>7 DEF Valid, VirtualSelectedParent
<1>11. Root' = tip
  <2>1. CASE caller = "AddBlock"
    BY <2>1, <1>1, <1>8, <1>10, Zenon DEF Root, Release
  <2>2. CASE caller = "ResolveVirtual"
    BY <2>2, <1>1, <1>8 DEF Root
  <2> QED BY <2>1, <2>2, Zenon
<1>12. b \in Block /\ diffChild' \in [Block -> Block \cup {None}] /\ DOMAIN diff' = Block
  BY <1>3, <1>7, Zenon DEF chain
<1>14. ForestInv'
  BY <1>7, <1>9, <1>10, <1>11, SMTT(30) DEF ForestInv
<1>16. ReversingInv'
  <2>1. CASE /\ b # Genesis /\ diffChild[b] = SelectedParent(b)
             /\ reversedBlock' = b /\ reversedDiff' = diff[b]
             /\ UNCHANGED <<phase, caller, resolveTip, pendingTip, unverified, reversal, pastUTXO>>
    <3> DEFINE up2 == {x \in chain : Order[x] >= Order[b]}
    <3>0. chain \subseteq Block
      BY <1>3 DEF chain
    <3>1. ASSUME NEW x \in up2, x \notin up PROVE x = b
      <4>1. x \in chain /\ Order[x] < Order[r] /\ Order[x] >= Order[b] /\ x \in Block
        BY <3>0, <3>1, <1>1, <1>n DEF up, chain
      <4>2. Order[x] <= Order[b]
        BY <4>1, <1>1, ChainGap DEF b, chain
      <4>3. Order[x] = Order[b] /\ b \in Block
        BY <4>1, <4>2, <1>3, <1>12, <1>n
      <4> QED BY <4>1, <4>3, OrderAssumption, SMTT(30)
    <3>2. up \subseteq up2
      BY <1>1, <1>3, <1>4, <1>n DEF up
    <3>3. ASSUME NEW x \in up2 PROVE diffChild'[x] \in up2 \cup {None}
      <4>0. x \in Block /\ b \in Block
        BY <3>0, <1>12, SMTT(30)
      <4>1. CASE x = b
        BY <4>0, <4>1, <1>1, <1>5, <1>7, <3>2, ZenonT(30)
      <4>2. CASE x # b
        BY <4>0, <4>2, <1>1, <1>7, <3>1, <3>2, ZenonT(30)
      <4> QED BY <4>1, <4>2
    <3>4. reversedDiff' = DiffFrom(PastUTXO[SelectedParent(b)], PastUTXO[b])
      <4>1. b \in Valid
        BY <1>3, SMTT(30) DEF chain
      <4> QED BY <2>1, <4>1, <1>2, <1>6 DEF Forest, ExactEdges
    <3>5. tip' = tip /\ reversedBlock' = b /\ chain = SelectedChain[tip]
      BY <2>1 DEF chain
    <3> HIDE DEF tip
    <3> QED BY <3>3, <3>4, <3>5, <1>3, <1>11, <2>1 DEF ReversingInv, tip
  <2>2. CASE phase' # "reversing"
    BY <2>2, SMTT(30) DEF ReversingInv
  <2> QED BY <2>1, <2>2, <1>8, Zenon DEF Release, b
<1> QED BY <1>1, <1>7, <1>8, <1>11, <1>12, <1>14, <1>16, Zenon DEF b

\* It preserves the invariant.
LEMMA ReverseUTXODiffStep ==
  ASSUME IInv, ReverseUTXODiff
  PROVE  Preserved
<1>1. phase = "reversing" /\ caller \in {"AddBlock", "ResolveVirtual"} /\ resolveTip \in Valid
  BY Zenon DEF ReverseUTXODiff, IInv, StateType, ReversingInv, ForestInv, Forest, OnlyRoot
<1>2. resolveTip \in Block /\ SelectedChain[resolveTip] \subseteq Valid
  BY <1>1, ValidChain, VirtualFacts, Zenon
<1>3. /\ ForestInv' /\ ReversingInv' /\ Root' = Root
      /\ DOMAIN diff' = Block /\ diffChild' \in [Block -> Block \cup {None}]
      /\ UNCHANGED <<status, tips, virtualParents, virtualUTXO, virtualNotUpdated>>
      /\ \/ /\ reversedBlock' = SelectedParent(reversedBlock) /\ reversedBlock' \in Block
            /\ UNCHANGED <<phase, caller, resolveTip, pendingTip, unverified, reversal, pastUTXO>>
         \/ caller = "AddBlock" /\ Release
         \/ /\ caller # "AddBlock" /\ phase' = "updating" /\ reversedBlock' = Genesis
            /\ UNCHANGED <<caller, resolveTip, pendingTip, unverified, reversal, pastUTXO>>
  BY <1>1, <1>2, ReverseEdge, SMTT(30) DEF IInv, StateType
<1>4. /\ Known' = Known /\ Valid' = Valid
      /\ VirtualSelectedParent' = VirtualSelectedParent
      /\ VirtualUTXOCorrect' /\ DagInv'
  BY <1>3, Zenon DEF Known, Valid, VirtualSelectedParent, IInv, VirtualInv, VirtualUTXOCorrect, DagInv
<1>5. StateType'
  BY <1>1, <1>3, BlockAssumption, ZenonT(30) DEF IInv, StateType, Release
<1>6. VirtualInv'
  BY <1>1, <1>3, <1>4, Zenon DEF IInv, VirtualInv, Release
<1>7. ResolvingInv'
  BY <1>1, <1>3, ZenonT(30) DEF ResolvingInv, Release
<1> QED BY <1>3, <1>4, <1>5, <1>6, <1>7, VirtualFacts, SMTT(30) DEF IInv, Preserved

\* The virtual moves to the committed processing point.
LEMMA UpdateResolvedVirtualStep ==
  ASSUME IInv, UpdateResolvedVirtual
  PROVE  Preserved
<1> DEFINE sp == resolveTip
           lower == {t \in tips : Order[t] < Order[sp]}
<1>1. /\ phase = "updating" /\ caller = "ResolveVirtual" /\ sp \in Block /\ pendingTip \in Block
      /\ Order[sp] > Order[VirtualSelectedParent]
      /\ virtualNotUpdated' = (sp # pendingTip)
      /\ Release /\ UNCHANGED <<status, tips>>
  BY Zenon DEF UpdateResolvedVirtual, IInv, StateType, VirtualInv
<1>2. PICK ps \in IF sp = pendingTip THEN VirtualParentSets(sp, lower) ELSE {{sp}} :
        UpdateVirtualWithParents(ps, Valid, diff, diffChild)
  BY Zenon DEF UpdateResolvedVirtual
<1>3. ps \in SUBSET Block /\ sp \in ps /\ MaxOrder(ps) = sp
  <2>1. CASE sp = pendingTip
    <3>1. lower \in SUBSET Block /\ \A c \in lower : Order[c] < Order[sp]
      BY DEF IInv, StateType
    <3> HIDE DEF lower
    <3> QED BY <2>1, <3>1, <1>1, <1>2, VirtualParentSetsProps
  <2>2. CASE sp # pendingTip
    <3>1. ps = {sp}
      BY <2>2, <1>2
    <3> QED BY <3>1, <1>1, MaxOrderUnique, OrderNat
  <2> QED BY <2>1, <2>2
<1>4. Root = sp
  BY <1>1, SMTT(30) DEF Root
<1>5. /\ virtualParents' = ps /\ VirtualSelectedParent' = sp
      /\ VirtualUTXOCorrect' /\ diffChild' = diffChild /\ DOMAIN diff' = Block
      /\ Forest(Valid, diff', diffChild', virtualUTXO', sp)
  BY <1>2, <1>3, <1>4, VirtualFacts, UpdateVirtualForest, ZenonT(30) DEF IInv, StateType, ForestInv
<1>6. Root' = sp /\ Known' = Known /\ Valid' = Valid
  BY <1>1, <1>5, ZenonT(30) DEF Root, Release, Known, Valid
<1>7. StateType'
  BY <1>1, <1>3, <1>5, BlockAssumption, ZenonT(30) DEF IInv, StateType, Release
<1>8. DagInv'
  BY <1>1, <1>6 DEF IInv, DagInv
<1>9. ASSUME sp = pendingTip, NEW c \in Known PROVE Order[c] <= Order[sp]
  <2>1. PICK t \in tips : Order[c] <= Order[t]
    BY SMTT(30) DEF IInv, DagInv
  <2>2. t \in Block /\ c \in Block
    BY VirtualFacts DEF IInv, StateType
  <2>3. Order[t] <= Order[sp]
    BY <1>1, <1>9 DEF IInv, VirtualInv
  <2> QED BY <2>1, <2>2, <2>3, <1>1, OrderNat
<1>10. \A t \in tips \cap Valid : Order[t] <= Order[sp]
  <2> SUFFICES ASSUME NEW t \in tips \cap Valid PROVE Order[t] <= Order[sp]
    OBVIOUS
  <2>1. Order[t] <= Order[VirtualSelectedParent] \/ t = sp
    BY <1>4, SMTT(30) DEF IInv, VirtualInv
  <2> QED BY <2>1, <1>1, VirtualFacts, OrderNat
<1>11. sp \in Valid
  BY <1>5, SMTT(30) DEF Forest, OnlyRoot
<1>12. VirtualInv'
  BY <1>1, <1>5, <1>6, <1>9, <1>10, <1>11, Zenon DEF VirtualInv, Release
<1>13. ForestInv'
  BY <1>5, <1>6 DEF ForestInv
<1>14. ResolvingInv' /\ ReversingInv'
  BY <1>1, Zenon DEF ResolvingInv, ReversingInv, Release
<1>15. Order[VirtualSelectedParent'] >= Order[VirtualSelectedParent]
  BY <1>1, <1>5, VirtualFacts, OrderAtLeast, Zenon
<1> QED BY <1>7, <1>8, <1>12, <1>13, <1>14, <1>15, Zenon DEF IInv, Preserved

\* Outside the window between the processing point and its virtual the
\* database alone is consistent.
LEMMA CrashStep ==
  ASSUME SafeCrashPoints, IInv, Crash
  PROVE  Preserved
<1>1. Release /\ virtualNotUpdated' = TRUE /\ UNCHANGED dbVars
  BY DEF Crash
<1>2. Root = VirtualSelectedParent /\ Root' = VirtualSelectedParent'
  BY <1>1 DEF Crash, SafeCrashPoints, Root, Release
<1>3. Root' = Root
  BY <1>1, <1>2, DatabaseUnchanged, SMTT(30)
<1>4. StateType'
  BY <1>1, BlockAssumption, Zenon DEF IInv, StateType, Release, dbVars
<1>5. VirtualInv'
  BY <1>1, <1>3, DatabaseUnchanged, Zenon DEF IInv, VirtualInv, Release, dbVars
<1>6. ResolvingInv' /\ ReversingInv'
  BY <1>1, Zenon DEF ResolvingInv, ReversingInv, Release
<1> QED BY <1>1, <1>3, <1>4, <1>5, <1>6, DatabaseUnchanged, VirtualFacts DEF IInv, Preserved

\* A stuttering step preserves the invariant.
LEMMA StutterStep ==
  ASSUME IInv, UNCHANGED vars
  PROVE  Preserved
<1>1. UNCHANGED <<dbVars, virtualNotUpdated, opVars>>
  BY DEF vars, dbVars, opVars
<1>2. Root' = Root
  BY <1>1, DatabaseUnchanged DEF Root, opVars
<1>3. StateType'
  BY <1>1 DEF IInv, StateType, dbVars, opVars
<1>4. VirtualInv'
  BY <1>1, <1>2, DatabaseUnchanged, SMTT(30) DEF IInv, VirtualInv, dbVars, opVars
<1>5. ResolvingInv' /\ ReversingInv'
  BY <1>1, <1>2, DatabaseUnchanged, Zenon DEF IInv, ResolvingInv, ReversingInv, dbVars, opVars
<1> QED BY <1>1, <1>2, <1>3, <1>4, <1>5, DatabaseUnchanged, VirtualFacts DEF IInv, Preserved

\* IInv is inductive.
LEMMA NextStep ==
  ASSUME AllBlocksVerify, ShallowDAG, SafeCrashPoints, IInv, [Next]_vars
  PROVE  Preserved
<1>1. ASSUME NEW b \in Block, BeginAddBlock(b) PROVE Preserved
  BY <1>1, BeginAddBlockStep
<1>2. ASSUME NEW b \in Block, AddSideBlock(b) PROVE Preserved
  BY <1>2, AddSideBlockStep
<1>3. ASSUME NEW b \in Block, InsertBlockWithoutVirtual(b) PROVE Preserved
  BY <1>3, InsertStep
<1>4. CASE ResolveChainBlock
  BY <1>4, ResolveChainBlockStep
<1>5. CASE CommitAddBlock
  BY <1>5, CommitAddBlockStep
<1>6. CASE ResolveVirtualDone
  BY <1>6, DoneStep
<1>7. CASE BeginResolveVirtual
  BY <1>7, BeginResolveStep
<1>8. CASE CommitProcessingPoint
  BY <1>8, CommitProcessingPointStep
<1>9. CASE ReverseUTXODiff
  BY <1>9, ReverseUTXODiffStep
<1>10. CASE UpdateResolvedVirtual
  BY <1>10, UpdateResolvedVirtualStep
<1>11. CASE Crash
  BY <1>11, CrashStep
<1>12. CASE UNCHANGED vars
  BY <1>12, StutterStep
<1> QED BY <1>1, <1>2, <1>3, <1>4, <1>5, <1>6, <1>7, <1>8, <1>9, <1>10, <1>11, <1>12 DEF Next

-----------------------------------------------------------------------------
(* Theorems.  They hold for every DAG of blocks that verify, of any size up *)
(* to the finality depth, every chunk size and every order of arrival.      *)

\* The inductive invariant of resolveBlockStatus, ReverseUTXODiffs and
\* updateVirtual: the stored diffs always form a forest of exact edges.
THEOREM InductiveInvariant ==
  ASSUME AllBlocksVerify, ShallowDAG, SafeCrashPoints
  PROVE  Spec => []IInv
<1>1. Init => IInv
  BY InitIInv
<1>2. IInv /\ [Next]_vars => IInv'
  BY NextStep DEF Preserved
<1> QED BY <1>1, <1>2, PTL DEF Spec

\* Every variable keeps its type.
THEOREM TypeCorrect ==
  ASSUME AllBlocksVerify, ShallowDAG, SafeCrashPoints
  PROVE  Spec => []TypeOK
<1>1. IInv => TypeOK
  BY ZenonT(30) DEF IInv, StateType, DagInv, TypeOK
<1> QED BY <1>1, InductiveInvariant, PTL

\* Between any two commits, and after any crash outside the window between a
\* processing point and its virtual, restorePastUTXO yields for every valid
\* block the past UTXO set that the DAG determines.
THEOREM RestorePathToAllBlocks ==
  ASSUME AllBlocksVerify, ShallowDAG, SafeCrashPoints
  PROVE  Spec => []RestoreCorrect
<1>1. IInv => RestoreCorrect
  BY VirtualFacts, Zenon DEF RestoreCorrect
<1> QED BY <1>1, InductiveInvariant, PTL

\* The stored virtual UTXO set is always the one its parents determine
\* (updateVirtualWithParents).
THEOREM VirtualUTXOAlwaysCorrect ==
  ASSUME AllBlocksVerify, ShallowDAG, SafeCrashPoints
  PROVE  Spec => []VirtualUTXOCorrect
<1>1. IInv => VirtualUTXOCorrect
  BY Zenon DEF IInv, VirtualInv
<1> QED BY <1>1, InductiveInvariant, PTL

\* An up-to-date virtual wins over every valid block
\* (selectVirtualSelectedParent, ResolveVirtual).
THEOREM VirtualAlwaysWins ==
  ASSUME AllBlocksVerify, ShallowDAG, SafeCrashPoints
  PROVE  Spec => []VirtualWins
<1>1. IInv => VirtualWins
  <2> SUFFICES ASSUME IInv PROVE VirtualWins
    OBVIOUS
  <2>1. \A b \in Known : Order[b] \in Nat
    BY VirtualFacts, OrderNat
  <2> QED BY <2>1, VirtualFacts DEF IInv, VirtualInv, VirtualWins
<1> QED BY <1>1, InductiveInvariant, PTL

\* No step lowers the selected parent of the virtual in the parent selection
\* order, a crash, a partial resolution or a reorganisation included.
THEOREM SelectedParentOnlyRises ==
  ASSUME AllBlocksVerify, ShallowDAG, SafeCrashPoints
  PROVE  Spec => SelectedParentRises
<1>1. IInv /\ [Next]_vars => [Order[VirtualSelectedParent'] >= Order[VirtualSelectedParent]]_vars
  BY NextStep DEF Preserved
<1> QED BY <1>1, InductiveInvariant, PTL DEF Spec, SelectedParentRises
=============================================================================
