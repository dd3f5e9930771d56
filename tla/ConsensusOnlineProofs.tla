------------------------ MODULE ConsensusOnlineProofs ------------------------
(***************************************************************************)
(* Proofs about the consensus state of a node that is online: it has       *)
(* caught up, adds each block as it comes and is not restarted.  Blocks    *)
(* whose headers commit to a wrong UTXO state may arrive, and the DAG may  *)
(* be deeper than the finality depth.                                      *)
(*                                                                         *)
(* OnlineInv, the statuses and the virtual, is inductive for every DAG and *)
(* yields FinalityHolds and SelectedParentRises.  OnlineIInv adds the      *)
(* diffs and the verdicts, for DAGs that are shallow or honest.            *)
(***************************************************************************)
EXTENDS ConsensusStateProofs

-----------------------------------------------------------------------------
(* Steps that settle the virtual *)

\* The finality point of the virtual is on its selected chain (calculateFinalityPoint).
LEMMA FinalityPointOnChain ==
  ASSUME virtualParents \in SUBSET Block, virtualParents # {}
  PROVE  /\ VirtualSelectedParent \in Block
         /\ VirtualFinalityPoint \in SelectedChain[VirtualSelectedParent]
<1> DEFINE vsp == VirtualSelectedParent
           deep == {c \in SelectedChain[vsp] :
                      BlueScore(Parents[c]) + FinalityDepth < BlueScore(virtualParents)}
<1>1. vsp \in Block
  BY MaxOrderProps DEF VirtualSelectedParent
<1>2. VirtualFinalityPoint = IF deep = {} THEN Genesis ELSE MaxOrder(deep)
  BY DEF VirtualFinalityPoint
<1>3. deep \subseteq SelectedChain[vsp]
  OBVIOUS
<1> HIDE DEF deep, vsp
<1>4. Genesis \in SelectedChain[vsp] /\ SelectedChain[vsp] \subseteq Block
  BY <1>1, GenesisInChain, ChainSelf
<1>5. deep # {} => MaxOrder(deep) \in deep
  BY <1>3, <1>4, MaxOrderProps
<1> QED BY <1>1, <1>2, <1>3, <1>4, <1>5 DEF vsp

\* A block of a chain that has the finality point has it too when it is above the
\* virtual's selected parent.
LEMMA FinalityPointBelow ==
  ASSUME virtualParents \in SUBSET Block, virtualParents # {},
         NEW tip \in Block, VirtualFinalityPoint \in SelectedChain[tip],
         NEW c \in SelectedChain[tip], Order[c] > Order[VirtualSelectedParent]
  PROVE  VirtualFinalityPoint \in SelectedChain[c]
<1> DEFINE p == VirtualFinalityPoint
           vsp == VirtualSelectedParent
<1>1. vsp \in Block /\ p \in SelectedChain[vsp] /\ p \in Block /\ c \in Block
  BY FinalityPointOnChain, ChainSelf
<1>2. Order[p] <= Order[vsp]
  BY <1>1, ChainOrder
<1>3. p \in SelectedChain[c] \/ c \in SelectedChain[p]
  BY ChainLinear
<1>4. c \in SelectedChain[p] => Order[c] <= Order[p]
  BY <1>1, ChainOrder
<1>5. Order[c] \in Nat /\ Order[p] \in Nat /\ Order[vsp] \in Nat
  BY <1>1, OrderNat
<1> HIDE DEF p, vsp
<1>6. ~(Order[c] <= Order[p])
  BY <1>2, <1>5 DEF vsp
<1> QED BY <1>3, <1>4, <1>6 DEF p

\* What the steps of an online node preserve whatever the blocks are.
Settles ==
  /\ OnlineInv'
  /\ Order[VirtualSelectedParent'] >= Order[VirtualSelectedParent]
  /\ VirtualFinalityPoint \in SelectedChain[VirtualSelectedParent']

\* Types that every step uses.
LEMMA OnlineFacts ==
  ASSUME OnlineInv
  PROVE  /\ VirtualSelectedParent \in Block /\ Order[VirtualSelectedParent] \in Nat
         /\ Order[VirtualSelectedParent] >= Order[VirtualSelectedParent]
         /\ VirtualFinalityPoint \in SelectedChain[VirtualSelectedParent]
         /\ Valid \in SUBSET Block /\ Known \in SUBSET Block
         /\ Valid \subseteq Known /\ Disqualified \subseteq Known
         /\ Valid \cap Disqualified = {}
<1>1. virtualParents \in SUBSET Block /\ virtualParents # {}
  BY DEF OnlineInv, OnlineType
<1>2. VirtualSelectedParent \in Block
      /\ VirtualFinalityPoint \in SelectedChain[VirtualSelectedParent]
  BY <1>1, FinalityPointOnChain
<1>3. Order[VirtualSelectedParent] \in Nat
  BY <1>2, OrderNat
<1> QED BY <1>2, <1>3 DEF Valid, Known, Disqualified

\* Initially genesis is all there is (consensus.Init).
LEMMA InitOnline == Init => OnlineIInv
<1> SUFFICES ASSUME Init PROVE OnlineIInv
  OBVIOUS
<1>1. Genesis \in Block /\ None \notin Block /\ Parents[Genesis] = {}
  BY BlockAssumption, ParentsAssumption
<1>2. Known = {Genesis} /\ Valid = {Genesis} /\ Disqualified = {}
  BY <1>1 DEF Init, Known, Valid, Disqualified
<1>3. VirtualSelectedParent = Genesis
  BY <1>1, MaxOrderProps DEF Init, VirtualSelectedParent
<1>4. OnlineInv
  BY <1>1, <1>2, <1>3, OrderNat DEF Init, OnlineInv, OnlineType, OnlineDag
<1>5. IInv
  BY InitIInv
<1>6. OnlineDiffs
  BY <1>2, <1>5 DEF Init, IInv, StateType, VirtualInv, OnlineDiffs, LocalVerdicts
<1>7. OnlineWins
  BY DEF Init, OnlineWins
<1> QED BY <1>4, <1>6, <1>7 DEF OnlineIInv

\* Only AddBlock works: an online node never has to resolve its virtual.
LEMMA OnlyAddBlock ==
  ASSUME Online, OnlineInv
  PROVE  /\ ~BeginResolveVirtual /\ ~CommitProcessingPoint /\ ~UpdateResolvedVirtual /\ ~Crash
         /\ \A b \in Block : ~InsertBlockWithoutVirtual(b)
<1>1. ~CommitProcessingPoint /\ ~UpdateResolvedVirtual
  BY DEF OnlineInv, OnlineType, CommitProcessingPoint, UpdateResolvedVirtual
<1>2. ~Crash /\ \A b \in Block : ~InsertBlockWithoutVirtual(b)
  BY DEF Online, Crash, InsertBlockWithoutVirtual
<1>3. ASSUME BeginResolveVirtual PROVE FALSE
  <2>1. tips = {Genesis} /\ virtualParents = {Genesis} /\ status[Genesis] = "valid"
    BY <1>3 DEF BeginResolveVirtual, ResolveVirtualCalled, Online, OnlineInv, OnlineType,
                OnlineDag, Valid
  <2>2. PendingTips = {Genesis}
    BY <1>3, <2>1 DEF BeginResolveVirtual, PendingTips
  <2>3. MaxOrder(PendingTips) = VirtualSelectedParent
    BY <2>1, <2>2 DEF VirtualSelectedParent
  <2> QED BY <1>3, <2>1, <2>2, <2>3, BlockAssumption, MaxOrderProps DEF BeginResolveVirtual
<1> QED BY <1>1, <1>2, <1>3

\* A step that leaves the database alone leaves the virtual alone.
LEMMA OnlineDatabaseUnchanged ==
  ASSUME UNCHANGED dbVars
  PROVE  /\ Known' = Known /\ Valid' = Valid /\ Disqualified' = Disqualified
         /\ VirtualSelectedParent' = VirtualSelectedParent
         /\ VirtualFinalityPoint' = VirtualFinalityPoint
BY DEF dbVars, Known, Valid, Disqualified, VirtualSelectedParent, VirtualFinalityPoint

\* The block that is being added has the finality point on its chain, and the
\* blocks to resolve are a segment of that chain (AddBlock, isViolatingFinality).
LEMMA OnlineBeginAddBlock ==
  ASSUME OnlineInv, NEW b \in Block, BeginAddBlock(b)
  PROVE  Settles
<1> DEFINE unv == UnverifiedChainBlocks(b)
           m == MinOrder(unv)
<1>1. /\ b \notin Known /\ Parents[b] \subseteq Known /\ status[b] = "none"
      /\ phase = "idle" /\ caller = "none" /\ ~virtualNotUpdated
      /\ IsNewSelectedTip(b) /\ ~IsViolatingFinality(b) /\ UNCHANGED <<dbVars, virtualNotUpdated>>
  BY DEF BeginAddBlock, CanInsert, Known, OnlineInv, OnlineType
<1>2. /\ phase' = "resolving" /\ caller' = "AddBlock" /\ resolveTip' = b /\ unverified' = unv
  BY DEF BeginAddBlock, StartResolving
<1>3. b \in unv /\ unv = {c \in UnverifiedChainBlocks(b) : Order[c] <= Order[b]}
  BY <1>1, TipUnverified
<1>4. /\ unv \in SUBSET Block /\ unv \cap (Valid \cup Disqualified) = {}
      /\ unv \subseteq SelectedChain[b]
      /\ \A c \in unv : SelectedParent(c) \in unv \/ c = m
      /\ SelectedParent(m) \in Valid \cup Disqualified
  <2>1. status \in [Block -> {"none", "pending", "valid", "disqualified"}] /\ Genesis \in Valid
    BY DEF OnlineInv, OnlineType, OnlineDag
  <2> QED BY <1>3, <2>1, ChainSegment
<1>5. VirtualFinalityPoint \in SelectedChain[b]
  <2>1. b # Genesis
    BY <1>1, OnlineFacts DEF OnlineInv, OnlineDag
  <2> QED BY <1>1, <2>1 DEF IsViolatingFinality
<1> HIDE DEF unv
<1>6. OnlineType'
  BY <1>1, <1>2, <1>4, OnlineDatabaseUnchanged DEF OnlineInv, OnlineType, dbVars
<1>7. OnlineDag'
  <2>1. \A c \in Valid : Order[c] <= Order[VirtualSelectedParent]
    BY <1>1 DEF OnlineInv, OnlineDag
  <2>2. Order[b] > Order[VirtualSelectedParent]
    BY <1>1 DEF IsNewSelectedTip
  <2> QED BY <1>1, <1>2, <1>3, <1>4, <1>5, <2>1, <2>2, OnlineDatabaseUnchanged
          DEF OnlineInv, OnlineDag
<1> QED BY <1>1, <1>6, <1>7, OnlineDatabaseUnchanged, OnlineFacts DEF Settles, OnlineInv

\* What updateVirtual commits: the virtual's selected parent is the highest valid block.
LEMMA OnlineCommitBlock ==
  ASSUME NEW b, NEW st, NEW df, NEW ch, CommitBlock(b, st, df, ch),
         NEW v, v = {c \in Block : st[c] = "valid"}, v # {}
  PROVE  /\ status' = st /\ tips' = NewTips(b)
         /\ virtualParents' \in SUBSET Block /\ virtualParents' # {}
         /\ VirtualSelectedParent' = MaxOrder(v)
         /\ VirtualSelectedParent' \in v
         /\ \A c \in v : Order[c] <= Order[VirtualSelectedParent']
<1> DEFINE sp == SelectVirtualSelectedParent(st)
<1>1. sp = MaxOrder(v)
  BY DEF SelectVirtualSelectedParent
<1>2. sp \in v /\ sp \in Block /\ \A c \in v : Order[c] <= Order[sp]
  BY <1>1, MaxOrderProps
<1>3. PICK ps \in VirtualParentSets(sp, ParentCandidates(st, sp)) :
        UpdateVirtualWithParents(ps, v, df, ch)
  BY DEF CommitBlock
<1>4. ps \in SUBSET Block /\ sp \in ps /\ MaxOrder(ps) = sp
  <2>1. ParentCandidates(st, sp) \in SUBSET Block
        /\ \A c \in ParentCandidates(st, sp) : Order[c] < Order[sp]
    BY DEF ParentCandidates
  <2> HIDE DEF sp
  <2> QED BY <1>2, <2>1, VirtualParentSetsProps
<1>5. virtualParents' = ps
  BY <1>3 DEF UpdateVirtualWithParents
<1> HIDE DEF sp
<1> QED BY <1>1, <1>2, <1>4, <1>5 DEF VirtualSelectedParent, CommitBlock

\* A block that does not become the selected parent leaves it in place.
LEMMA OnlineAddSideBlock ==
  ASSUME OnlineInv, NEW b \in Block, AddSideBlock(b)
  PROVE  Settles /\ VirtualSelectedParent' = VirtualSelectedParent
<1> DEFINE st == [status EXCEPT ![b] = "pending"]
           vsp == VirtualSelectedParent
<1>1. /\ b \in Block \ Known /\ Parents[b] \subseteq Known /\ status[b] = "none"
      /\ phase = "idle" /\ ~virtualNotUpdated
      /\ CommitBlock(b, st, diff, diffChild)
      /\ UNCHANGED <<virtualNotUpdated, opVars>>
  BY DEF AddSideBlock, CanInsert, Known
<1>2. {c \in Block : st[c] = "valid"} = Valid /\ b \notin Valid
  BY <1>1 DEF Valid, OnlineInv, OnlineType
<1>3. vsp \in Valid /\ \A c \in Valid : Order[c] <= Order[vsp]
  BY <1>1 DEF OnlineInv, OnlineDag
<1> HIDE DEF st
<1>4. /\ status' = st /\ tips' = NewTips(b)
      /\ virtualParents' \in SUBSET Block /\ virtualParents' # {}
      /\ VirtualSelectedParent' = MaxOrder(Valid)
  BY <1>1, <1>2, <1>3, OnlineCommitBlock
<1>5. VirtualSelectedParent' = vsp
  BY <1>3, <1>4, OnlineFacts, MaxOrderUnique
<1>6. Known' = Known \cup {b} /\ Valid' = Valid /\ Disqualified' = Disqualified
  BY <1>1, <1>4 DEF st, Known, Valid, Disqualified, OnlineInv, OnlineType
<1>7. OnlineType'
  BY <1>1, <1>4 DEF st, OnlineInv, OnlineType, opVars, NewTips
<1>8. OnlineDag'
  BY <1>1, <1>3, <1>5, <1>6 DEF OnlineInv, OnlineDag, opVars
<1> QED BY <1>5, <1>7, <1>8, OnlineFacts DEF Settles, OnlineInv

\* Where the resolution of a chain is: its lowest block is next, and above a block
\* with a verdict.
LEMMA OnlineNextBlock ==
  ASSUME OnlineInv, phase = "resolving", NEW b, b = MinOrder(unverified)
  PROVE  /\ b \in unverified /\ b \in Block \ (Valid \cup Disqualified) /\ b # Genesis
         /\ b \in SelectedChain[resolveTip] /\ SelectedParent(b) \in Block
         /\ SelectedParent(b) \in Valid \cup Disqualified
         /\ ResolvedStatus(b) \in {"valid", "disqualified"}
         /\ ResolvedStatus(b) = "valid" => SelectedParent(b) \in Valid
         /\ Genesis \notin unverified
         /\ SelectedChain[resolveTip] \subseteq Known \cup {resolveTip}
<1>1. /\ unverified \in SUBSET Block /\ unverified # {} /\ resolveTip \in Block
      /\ unverified \subseteq SelectedChain[resolveTip]
      /\ unverified \cap (Valid \cup Disqualified) = {} /\ Genesis \in Valid
      /\ SelectedParent(b) \in Valid \cup Disqualified
      /\ Parents[resolveTip] \subseteq Known /\ \A c \in Known : Parents[c] \subseteq Known
  BY DEF OnlineInv, OnlineType, OnlineDag
<1>2. b \in unverified
  BY <1>1, MinOrderProps
<1>3. SelectedParent(b) \in Block
  BY <1>1 DEF Valid, Disqualified
<1>4. ResolvedStatus(b) \in {"valid", "disqualified"}
      /\ (ResolvedStatus(b) = "valid" => SelectedParent(b) \in Valid)
  BY <1>3 DEF ResolvedStatus, Valid
<1>5. SelectedChain[resolveTip] \subseteq Known \cup {resolveTip}
  BY <1>1, KnownChain
<1> QED BY <1>1, <1>2, <1>3, <1>4, <1>5

\* A chain block gets its verdict, and the rest of the segment is right above it.
LEMMA OnlineResolveChainBlock ==
  ASSUME OnlineInv, ResolveChainBlock, NEW b, b = MinOrder(unverified)
  PROVE  /\ Settles
         /\ b \in Known /\ SelectedParent(MinOrder(unverified')) = b
         /\ VirtualSelectedParent' = VirtualSelectedParent /\ Known' = Known
         /\ Valid' = Valid \cup (IF ResolvedStatus(b) = "valid" THEN {b} ELSE {})
         /\ Disqualified' = Disqualified \cup (IF ResolvedStatus(b) = "valid" THEN {} ELSE {b})
<1> DEFINE rest == unverified \ {b}
<1>1. /\ phase = "resolving" /\ unverified # {resolveTip}
      /\ status' = [status EXCEPT ![b] = ResolvedStatus(b)] /\ unverified' = rest
      /\ UNCHANGED <<tips, virtualParents, virtualUTXO, virtualNotUpdated, phase, caller,
                     resolveTip, pendingTip, reversal, reversedBlock, reversedDiff>>
  BY DEF ResolveChainBlock
<1>2. /\ b \in unverified /\ b \in Block \ (Valid \cup Disqualified) /\ b # Genesis
      /\ b \in SelectedChain[resolveTip] /\ SelectedParent(b) \in Block
      /\ SelectedParent(b) \in Valid \cup Disqualified
      /\ ResolvedStatus(b) \in {"valid", "disqualified"}
      /\ ResolvedStatus(b) = "valid" => SelectedParent(b) \in Valid
      /\ Genesis \notin unverified
      /\ SelectedChain[resolveTip] \subseteq Known \cup {resolveTip}
  BY <1>1, OnlineNextBlock
<1>3. /\ resolveTip \in Block /\ unverified \in SUBSET Block /\ resolveTip \in unverified
      /\ unverified \subseteq SelectedChain[resolveTip]
      /\ \A c \in unverified : SelectedParent(c) \in unverified \/ c = MinOrder(unverified)
  BY <1>1 DEF OnlineInv, OnlineType, OnlineDag
<1>4. /\ b # resolveTip /\ resolveTip \in rest /\ MinOrder(rest) \in rest
      /\ SelectedParent(MinOrder(rest)) = b
      /\ \A c \in rest : SelectedParent(c) \in rest \/ c = MinOrder(rest)
  <2>1. rest = unverified \ {b}
    OBVIOUS
  <2> HIDE DEF rest
  <2> QED BY <1>1, <1>2, <1>3, <2>1, SegmentRest
<1>5. b \in Known
  BY <1>2, <1>4
<1>6. /\ Known' = Known
      /\ Valid' = Valid \cup (IF ResolvedStatus(b) = "valid" THEN {b} ELSE {})
      /\ Disqualified' = Disqualified \cup (IF ResolvedStatus(b) = "valid" THEN {} ELSE {b})
  <2>1. status \in [Block -> {"none", "pending", "valid", "disqualified"}]
    BY DEF OnlineInv, OnlineType
  <2>2. CASE ResolvedStatus(b) = "valid"
    BY <1>1, <1>2, <1>5, <2>1, <2>2 DEF Known, Valid, Disqualified
  <2>3. CASE ResolvedStatus(b) = "disqualified"
    BY <1>1, <1>2, <1>5, <2>1, <2>3 DEF Known, Valid, Disqualified
  <2> QED BY <1>2, <2>2, <2>3
<1>7. VirtualSelectedParent' = VirtualSelectedParent /\ VirtualFinalityPoint' = VirtualFinalityPoint
  BY <1>1 DEF VirtualSelectedParent, VirtualFinalityPoint
<1>8. OnlineType'
  <2>1. status' \in [Block -> {"none", "pending", "valid", "disqualified"}]
    BY <1>1, <1>2 DEF OnlineInv, OnlineType
  <2>2. ~virtualNotUpdated
    BY <1>1 DEF OnlineInv, OnlineType
  <2> QED BY <1>1, <1>3, <2>1, <2>2 DEF OnlineInv, OnlineType
<1>9. OnlineDag'
  <2> USE DEF OnlineInv, OnlineDag
  <2>1. \A c \in Valid' \ {Genesis} : SelectedParent(c) \in Valid'
    BY <1>2, <1>6
  <2>2. \A c \in Disqualified' : SelectedParent(c) \in Valid' \cup Disqualified'
    BY <1>2, <1>6
  <2>3. \A c \in Valid' : \/ Order[c] <= Order[VirtualSelectedParent]
                          \/ c \in SelectedChain[resolveTip]
    BY <1>2, <1>6
  <2>4. rest \cap (Valid' \cup Disqualified') = {}
    BY <1>1, <1>6
  <2>5. SelectedParent(MinOrder(rest)) \in Valid' \cup Disqualified'
    BY <1>4, <1>6
  <2> HIDE DEF rest
  <2>6. Genesis \in Valid' /\ VirtualSelectedParent' \in Valid'
    BY <1>6, <1>7
  <2>7. rest \subseteq SelectedChain[resolveTip]
    BY <1>3 DEF rest
  <2> QED BY <1>1, <1>4, <1>6, <1>7, <2>1, <2>2, <2>3, <2>4, <2>5, <2>6, <2>7, ZenonT(30)
<1> QED BY <1>1, <1>4, <1>5, <1>6, <1>7, <1>8, <1>9, OnlineFacts DEF Settles, OnlineInv

\* The tip of the chain is committed with the virtual.  Whatever its verdict, the
\* selected parent does not fall and stays above the finality point.
LEMMA OnlineCommitAddBlock ==
  ASSUME OnlineInv, CommitAddBlock
  PROVE  Settles
<1> DEFINE b == resolveTip
           st == [status EXCEPT ![b] = ResolvedStatus(b)]
           v == {c \in Block : st[c] = "valid"}
           vsp == VirtualSelectedParent
<1>1. /\ phase = "resolving" /\ unverified = {b} /\ b \in Block
      /\ b \notin Known /\ Parents[b] \subseteq Known /\ ~virtualNotUpdated
      /\ Order[b] > Order[vsp] /\ VirtualFinalityPoint \in SelectedChain[b]
      /\ virtualNotUpdated' = virtualNotUpdated
  BY DEF CommitAddBlock, OnlineInv, OnlineType, OnlineDag
<1>2. b = MinOrder(unverified)
  BY <1>1, MinOrderProps
<1>3. /\ b \in Block \ (Valid \cup Disqualified) /\ b # Genesis
      /\ SelectedParent(b) \in Valid \cup Disqualified
      /\ ResolvedStatus(b) \in {"valid", "disqualified"}
      /\ ResolvedStatus(b) = "valid" => SelectedParent(b) \in Valid
  BY <1>1, <1>2, OnlineNextBlock
<1>4. PICK df, ch : CommitBlock(b, st, df, ch)
  BY DEF CommitAddBlock
<1>5. \/ phase' = "reversing" /\ UNCHANGED <<caller, resolveTip>> /\ unverified' = {}
      \/ phase' = "idle" /\ caller' = "none" /\ resolveTip' = Genesis /\ unverified' = {}
  BY DEF CommitAddBlock, StartReversing, Release
<1>6. v = Valid \cup (IF ResolvedStatus(b) = "valid" THEN {b} ELSE {})
  <2>1. CASE ResolvedStatus(b) = "valid"
    BY <1>3, <2>1 DEF Valid, OnlineInv, OnlineType
  <2>2. CASE ResolvedStatus(b) = "disqualified"
    BY <1>3, <2>2 DEF Valid, OnlineInv, OnlineType
  <2> QED BY <1>3, <2>1, <2>2
<1>7. vsp \in v /\ vsp \in Valid
  BY <1>6 DEF OnlineInv, OnlineDag
<1>8. /\ status' = st /\ tips' = NewTips(b)
      /\ virtualParents' \in SUBSET Block /\ virtualParents' # {}
      /\ VirtualSelectedParent' \in v
      /\ \A c \in v : Order[c] <= Order[VirtualSelectedParent']
  <2>1. v = {c \in Block : st[c] = "valid"}
    OBVIOUS
  <2> HIDE DEF v, st, b
  <2> QED BY <1>4, <1>7, <2>1, OnlineCommitBlock
<1>9. /\ Known' = Known \cup {b} /\ Valid' = v
      /\ Disqualified' = Disqualified \cup (IF ResolvedStatus(b) = "valid" THEN {} ELSE {b})
  <2>1. status \in [Block -> {"none", "pending", "valid", "disqualified"}]
    BY DEF OnlineInv, OnlineType
  <2>2. Valid' = v
    BY <1>8 DEF Valid
  <2>3. CASE ResolvedStatus(b) = "valid"
    BY <1>1, <1>3, <1>8, <2>1, <2>2, <2>3 DEF Known, Disqualified
  <2>4. CASE ResolvedStatus(b) = "disqualified"
    BY <1>1, <1>3, <1>8, <2>1, <2>2, <2>4 DEF Known, Disqualified
  <2> QED BY <1>3, <2>3, <2>4
<1>10. VirtualFinalityPoint \in SelectedChain[VirtualSelectedParent']
  <2> DEFINE sp == VirtualSelectedParent'
  <2>1. sp \in Block /\ Order[sp] >= Order[vsp] /\ Order[sp] \in Nat /\ Order[vsp] \in Nat
    BY <1>7, <1>8, OnlineFacts, OrderNat
  <2>2. CASE Order[sp] = Order[vsp]
    BY <2>1, <2>2, OnlineFacts, OrderAssumption
  <2>3. CASE Order[sp] > Order[vsp]
    <3>1. sp \in SelectedChain[b]
      <4>1. CASE sp \in Valid
        BY <2>1, <2>3, <4>1 DEF OnlineInv, OnlineDag
      <4>2. CASE sp = b
        BY <1>1, <4>2, ChainSelf
      <4> QED BY <1>6, <1>8, <4>1, <4>2
    <3> HIDE DEF sp, b
    <3>2. VirtualFinalityPoint \in SelectedChain[sp]
      BY <1>1, <2>3, <3>1, FinalityPointBelow DEF OnlineInv, OnlineType
    <3> QED BY <3>2 DEF sp
  <2> HIDE DEF sp
  <2>4. Order[sp] = Order[vsp] \/ Order[sp] > Order[vsp]
    BY <2>1
  <2> QED BY <2>2, <2>3, <2>4 DEF sp
<1>11. OnlineType'
  <2>1. status' \in [Block -> {"none", "pending", "valid", "disqualified"}]
    BY <1>1, <1>3, <1>8 DEF OnlineInv, OnlineType
  <2>2. tips' \in SUBSET Block
    BY <1>1, <1>8 DEF OnlineInv, OnlineType, NewTips
  <2>3. caller = "AddBlock"
    BY <1>1 DEF OnlineInv, OnlineType
  <2> HIDE DEF b, v, st
  <2> QED BY <1>1, <1>5, <1>8, <2>1, <2>2, <2>3, BlockAssumption DEF OnlineInv, OnlineType
<1>12. OnlineDag'
  <2> USE DEF OnlineInv, OnlineDag
  <2>1. \A c \in Known' : Parents[c] \subseteq Known'
    BY <1>1, <1>9
  <2>2. \A c \in Valid' \ {Genesis} : SelectedParent(c) \in Valid'
    BY <1>3, <1>6, <1>9
  <2>3. \A c \in Disqualified' : SelectedParent(c) \in Valid' \cup Disqualified'
    BY <1>3, <1>6, <1>9
  <2>4. Genesis \in Valid'
    BY <1>6, <1>9
  <2> HIDE DEF b, v, st
  <2> QED BY <1>5, <1>8, <1>9, <2>1, <2>2, <2>3, <2>4, ZenonT(30)
<1>13. Order[VirtualSelectedParent'] >= Order[vsp]
  BY <1>7, <1>8, OnlineFacts, OrderNat
<1> QED BY <1>10, <1>11, <1>12, <1>13 DEF Settles, OnlineInv

\* ResolveVirtual finds nothing to do: the node has only its genesis.
LEMMA OnlineDone ==
  ASSUME Online, OnlineInv, ResolveVirtualDone
  PROVE  Settles
<1>1. /\ phase = "idle" /\ ~virtualNotUpdated' /\ UNCHANGED <<dbVars, opVars>>
      /\ virtualNotUpdated' \in BOOLEAN
  BY Zenon DEF ResolveVirtualDone, ResolveVirtualCalled
<1>2. OnlineType'
  BY <1>1, OnlineDatabaseUnchanged DEF OnlineInv, OnlineType, dbVars, opVars
<1>3. OnlineDag'
  BY <1>1, OnlineDatabaseUnchanged DEF OnlineInv, OnlineDag, opVars
<1> QED BY <1>1, <1>2, <1>3, OnlineDatabaseUnchanged, OnlineFacts DEF Settles, OnlineInv

\* Reversing a diff moves neither statuses nor the virtual.
LEMMA OnlineReverse ==
  ASSUME OnlineInv, ReverseUTXODiff
  PROVE  Settles
<1>1. /\ phase = "reversing" /\ caller = "AddBlock"
      /\ UNCHANGED <<status, tips, virtualParents, virtualUTXO, virtualNotUpdated>>
      /\ \/ UNCHANGED <<phase, caller, resolveTip, unverified>>
         \/ phase' = "idle" /\ caller' = "none" /\ resolveTip' = Genesis /\ unverified' = {}
  BY DEF OnlineInv, OnlineType, ReverseUTXODiff, Release
<1>2. /\ Known' = Known /\ Valid' = Valid /\ Disqualified' = Disqualified
      /\ VirtualSelectedParent' = VirtualSelectedParent
      /\ VirtualFinalityPoint' = VirtualFinalityPoint
  BY <1>1 DEF Known, Valid, Disqualified, VirtualSelectedParent, VirtualFinalityPoint
<1>3. OnlineType'
  BY <1>1, BlockAssumption DEF OnlineInv, OnlineType
<1>4. OnlineDag'
  BY <1>1, <1>2 DEF OnlineInv, OnlineDag
<1> QED BY <1>2, <1>3, <1>4, OnlineFacts DEF Settles, OnlineInv

\* A stuttering step.
LEMMA OnlineStutter ==
  ASSUME OnlineInv, UNCHANGED vars
  PROVE  Settles
<1>1. UNCHANGED <<dbVars, virtualNotUpdated, opVars>>
  BY DEF vars, dbVars, opVars
<1>2. OnlineType'
  BY <1>1, OnlineDatabaseUnchanged DEF OnlineInv, OnlineType, dbVars, opVars
<1>3. OnlineDag'
  BY <1>1, OnlineDatabaseUnchanged DEF OnlineInv, OnlineDag, opVars
<1> QED BY <1>1, <1>2, <1>3, OnlineDatabaseUnchanged, OnlineFacts DEF Settles, OnlineInv

\* OnlineInv is inductive, and every step keeps the finality point on the chain.
LEMMA OnlineStep ==
  ASSUME Online, OnlineInv, [Next]_vars
  PROVE  Settles
<1>1. ASSUME NEW b \in Block, BeginAddBlock(b) PROVE Settles
  BY <1>1, OnlineBeginAddBlock
<1>2. ASSUME NEW b \in Block, AddSideBlock(b) PROVE Settles
  BY <1>2, OnlineAddSideBlock
<1>3. CASE ResolveChainBlock
  BY <1>3, OnlineResolveChainBlock
<1>4. CASE CommitAddBlock
  BY <1>4, OnlineCommitAddBlock
<1>5. CASE ResolveVirtualDone
  BY <1>5, OnlineDone
<1>6. CASE ReverseUTXODiff
  BY <1>6, OnlineReverse
<1>7. CASE UNCHANGED vars
  BY <1>7, OnlineStutter
<1> QED BY <1>1, <1>2, <1>3, <1>4, <1>5, <1>6, <1>7, OnlyAddBlock DEF Next

-----------------------------------------------------------------------------
(* The diffs and the verdicts of an online node *)

\* Without wrong headers no block is ever disqualified: the lowest one would
\* have a valid selected parent and fail its own verification.
LEMMA HonestNotDisqualified ==
  ASSUME AllBlocksVerify, OnlineInv, LocalVerdicts
  PROVE  Disqualified = {}
<1> SUFFICES ASSUME Disqualified # {} PROVE FALSE
  OBVIOUS
<1> DEFINE m == MinOrder(Disqualified)
<1>1. Disqualified \subseteq Block /\ Genesis \notin Disqualified
  BY DEF Disqualified, OnlineInv, OnlineDag, Valid
<1>2. m \in Disqualified /\ \A c \in Disqualified : Order[m] <= Order[c]
  BY <1>1, MinOrderProps
<1> HIDE DEF m
<1>3. m \in Block /\ m # Genesis
  BY <1>1, <1>2
<1>4. VerifyUTXO(m, PastUTXO[m])
  BY <1>3 DEF AllBlocksVerify
<1>5. SelectedParent(m) \in Disqualified
  BY <1>2, <1>4 DEF LocalVerdicts
<1>6. Order[SelectedParent(m)] < Order[m] /\ SelectedParent(m) \in Block
  BY <1>3, SelectedParentProps
<1> QED BY <1>2, <1>3, <1>5, <1>6, OrderNat

\* The past UTXO set of the next block is known when its selected parent is
\* valid, so the verdict it gets is right (resolveSingleBlockStatus).
LEMMA OnlineNextVerdict ==
  ASSUME OnlineInv, OnlineDiffs, phase = "resolving", NEW b, b = MinOrder(unverified)
  PROVE  /\ SelectedParent(b) \in Valid =>
              pastUTXO = PastUTXO[SelectedParent(b)] /\ NextPastUTXO(b) = PastUTXO[b]
         /\ ResolvedStatus(b) = "valid" => VerifyUTXO(b, PastUTXO[b])
         /\ ResolvedStatus(b) # "valid" =>
              SelectedParent(b) \in Disqualified \/ ~VerifyUTXO(b, PastUTXO[b])
         /\ AllBlocksVerify => ResolvedStatus(b) = "valid"
<1>1. /\ b \in Block /\ b # Genesis /\ SelectedParent(b) \in Valid \cup Disqualified
      /\ ResolvedStatus(b) = "valid" => SelectedParent(b) \in Valid
  BY OnlineNextBlock
<1>2. SelectedParent(b) \in Valid =>
        pastUTXO = PastUTXO[SelectedParent(b)] /\ NextPastUTXO(b) = PastUTXO[b]
  BY <1>1, PastUTXOAssumption DEF OnlineDiffs, NextPastUTXO
<1>3. SelectedParent(b) \in Valid =>
        (ResolvedStatus(b) = "valid" <=> VerifyUTXO(b, PastUTXO[b]))
  BY <1>2 DEF ResolvedStatus, Valid
<1>4. AllBlocksVerify => SelectedParent(b) \in Valid /\ VerifyUTXO(b, PastUTXO[b])
  BY <1>1, HonestNotDisqualified DEF OnlineDiffs, AllBlocksVerify
<1> QED BY <1>1, <1>2, <1>3, <1>4

\* The verdicts stay right when b gets the verdict of its resolution.
LEMMA OnlineVerdictStep ==
  ASSUME OnlineInv, OnlineDiffs, phase = "resolving", NEW b, b = MinOrder(unverified),
         Valid' = Valid \cup (IF ResolvedStatus(b) = "valid" THEN {b} ELSE {}),
         Disqualified' = Disqualified \cup (IF ResolvedStatus(b) = "valid" THEN {} ELSE {b})
  PROVE  LocalVerdicts'
<1>1. /\ ResolvedStatus(b) = "valid" => VerifyUTXO(b, PastUTXO[b])
      /\ ResolvedStatus(b) # "valid" =>
           SelectedParent(b) \in Disqualified \/ ~VerifyUTXO(b, PastUTXO[b])
  BY OnlineNextVerdict
<1>2. LocalVerdicts
  BY DEF OnlineDiffs
<1> QED BY <1>1, <1>2 DEF LocalVerdicts

\* What an online node keeps of its diffs.
KeepsDiffs == OnlineDiffs' /\ (ShallowDAG => OnlineWins')

\* An online node's diff forest is rooted at the virtual's selected parent, and
\* restores the past UTXO set of every valid block (restorePastUTXO).
LEMMA OnlineForest ==
  ASSUME OnlineInv, OnlineDiffs
  PROVE  /\ Root = VirtualSelectedParent
         /\ Forest(Valid, diff, diffChild, virtualUTXO, VirtualSelectedParent)
         /\ RestoreCorrect
<1>1. caller # "ResolveVirtual"
  BY DEF OnlineInv, OnlineType
<1>2. Root = VirtualSelectedParent
  BY <1>1 DEF Root
<1>3. Forest(Valid, diff, diffChild, virtualUTXO, VirtualSelectedParent)
  BY <1>2 DEF OnlineDiffs, ForestInv
<1>4. Valid \in SUBSET Block
  BY DEF Valid
<1> QED BY <1>2, <1>3, <1>4, ForestRestored DEF RestoreCorrect, RestorePastUTXO

\* The chain to resolve starts from a restored past UTXO set (selectedParentInfo).
LEMMA DiffsBeginAddBlock ==
  ASSUME OnlineIInv, NEW b \in Block, BeginAddBlock(b)
  PROVE  KeepsDiffs
<1> USE DEF OnlineIInv
<1> DEFINE unv == UnverifiedChainBlocks(b)
           sp == SelectedParent(MinOrder(unv))
<1>1. /\ phase' = "resolving" /\ caller' = "AddBlock" /\ unverified' = unv
      /\ pastUTXO' = IF status[sp] = "valid" THEN RestorePastUTXO(sp) ELSE {}
      /\ UNCHANGED <<dbVars, virtualNotUpdated>>
  BY Zenon DEF BeginAddBlock, StartResolving
<1>2. sp \in Valid => pastUTXO' = PastUTXO[sp]
  BY <1>1, OnlineForest DEF RestoreCorrect, Valid
<1>3. sp = SelectedParent(MinOrder(unverified'))
  BY <1>1
<1>4. Root' = Root
  BY <1>1, OnlineForest, OnlineDatabaseUnchanged, Zenon DEF Root
<1> HIDE DEF unv, sp
<1>5. LocalVerdicts' /\ VirtualUTXOCorrect' /\ ForestInv' /\ ReversingInv'
  BY <1>1, <1>4, OnlineDatabaseUnchanged, SMTT(30)
  DEF OnlineDiffs, LocalVerdicts, VirtualUTXOCorrect, ForestInv, ReversingInv, dbVars
<1>6. OnlineDiffs'
  BY <1>1, <1>2, <1>3, <1>5, OnlineDatabaseUnchanged, Zenon DEF OnlineDiffs, dbVars
<1>7. OnlineWins => OnlineWins'
  BY <1>1, OnlineDatabaseUnchanged DEF OnlineWins
<1> QED BY <1>6, <1>7 DEF KeepsDiffs

\* A pending block moves the virtual's other parents at most.
LEMMA DiffsAddSideBlock ==
  ASSUME OnlineIInv, NEW b \in Block, AddSideBlock(b)
  PROVE  KeepsDiffs
<1> USE DEF OnlineIInv
<1> DEFINE st == [status EXCEPT ![b] = "pending"]
           vsp == VirtualSelectedParent
<1>1. /\ b \in Block \ Known /\ status' = st
      /\ phase = "idle" /\ ~virtualNotUpdated /\ UNCHANGED <<virtualNotUpdated, opVars>>
  BY Zenon DEF AddSideBlock, CommitBlock, CanInsert, Known
<1>2. Known' = Known \cup {b} /\ Valid' = Valid /\ {c \in Block : st[c] = "valid"} = Valid
      /\ Disqualified' = Disqualified
  BY <1>1 DEF Known, Valid, Disqualified, OnlineInv, OnlineType
<1>3. vsp \in Valid /\ vsp \in Block /\ \A c \in Valid : Order[c] <= Order[vsp]
  BY <1>1, OnlineFacts DEF OnlineInv, OnlineDag
<1>4. SelectVirtualSelectedParent(st) = vsp
  BY <1>2, <1>3, OnlineFacts, MaxOrderUnique DEF SelectVirtualSelectedParent
<1>5. PICK ps \in VirtualParentSets(vsp, ParentCandidates(st, vsp)) :
        UpdateVirtualWithParents(ps, Valid, diff, diffChild)
  BY <1>2, <1>4 DEF AddSideBlock, CommitBlock
<1>6. ps \in SUBSET Block /\ MaxOrder(ps) = vsp
  <2>1. ParentCandidates(st, vsp) \in SUBSET Block
        /\ \A c \in ParentCandidates(st, vsp) : Order[c] < Order[vsp]
    BY Zenon DEF ParentCandidates
  <2> HIDE DEF st, vsp
  <2> QED BY <1>3, <1>5, <2>1, VirtualParentSetsProps
<1>7. /\ VirtualSelectedParent' = vsp
      /\ VirtualUTXOCorrect' /\ diffChild' = diffChild /\ DOMAIN diff' = Block
      /\ Forest(Valid, diff', diffChild', virtualUTXO', vsp)
  BY <1>5, <1>6, OnlineForest, OnlineFacts, UpdateVirtualForest DEF OnlineDiffs
<1> HIDE DEF vsp, st
<1>8. Root' = vsp
  BY <1>1, <1>7, OnlineForest DEF Root, opVars
<1>9. ForestInv'
  BY <1>2, <1>7, <1>8 DEF ForestInv
<1>10. LocalVerdicts' /\ phase' = "idle"
  BY <1>1, <1>2, Zenon DEF OnlineDiffs, LocalVerdicts, opVars
<1>11. OnlineDiffs'
  BY <1>7, <1>9, <1>10, Zenon DEF OnlineDiffs, ReversingInv
<1>12. ASSUME ShallowDAG PROVE OnlineWins'
  <2>1. ~IsNewSelectedTip(b)
    BY <1>12, NoFinalityViolation DEF AddSideBlock, OnlineInv, OnlineType
  <2>2. Order[b] <= Order[vsp]
    BY <1>3, <2>1, OrderNat DEF IsNewSelectedTip, vsp
  <2>3. \A c \in Known \ Disqualified : Order[c] <= Order[vsp]
    BY <1>1, <1>12 DEF OnlineWins, vsp
  <2> QED BY <1>2, <1>7, <2>2, <2>3 DEF OnlineWins
<1> QED BY <1>11, <1>12, SMTT(30) DEF KeepsDiffs

\* A valid chain block hangs from its selected parent; a disqualified one has no
\* diff (resolveBlockStatus).
LEMMA DiffsResolveChainBlock ==
  ASSUME OnlineIInv, ResolveChainBlock
  PROVE  KeepsDiffs
<1> USE DEF OnlineIInv
<1> DEFINE b == MinOrder(unverified)
           sp == SelectedParent(b)
<1>1. /\ phase = "resolving" /\ phase' = "resolving"
      /\ IF ResolvedStatus(b) = "valid"
         THEN /\ diff' = [diff EXCEPT ![b] = DiffFrom(pastUTXO, NextPastUTXO(b))]
              /\ diffChild' = [diffChild EXCEPT ![b] = sp]
              /\ pastUTXO' = NextPastUTXO(b)
         ELSE UNCHANGED <<diff, diffChild, pastUTXO>>
      /\ UNCHANGED <<virtualParents, virtualUTXO, virtualNotUpdated, caller, resolveTip>>
  BY DEF ResolveChainBlock
<1>2. /\ b \in Block \ Valid /\ sp \in Block /\ b \notin Disqualified
      /\ ResolvedStatus(b) = "valid" => sp \in Valid
  BY <1>1, OnlineNextBlock
<1>3. /\ SelectedParent(MinOrder(unverified')) = b /\ Known' = Known
      /\ VirtualSelectedParent' = VirtualSelectedParent
      /\ Valid' = Valid \cup (IF ResolvedStatus(b) = "valid" THEN {b} ELSE {})
      /\ Disqualified' = Disqualified \cup (IF ResolvedStatus(b) = "valid" THEN {} ELSE {b})
  BY OnlineResolveChainBlock
<1>4. sp \in Valid => pastUTXO = PastUTXO[sp] /\ NextPastUTXO(b) = PastUTXO[b]
  BY <1>1, OnlineNextVerdict
<1>5. LocalVerdicts'
  <2> HIDE DEF sp
  <2>1. b = MinOrder(unverified)
    OBVIOUS
  <2> HIDE DEF b
  <2> QED BY <1>1, <1>3, <2>1, OnlineVerdictStep
<1> HIDE DEF b, sp
<1>6. Root' = VirtualSelectedParent
  BY <1>1, <1>3, OnlineForest DEF Root
<1>7. VirtualUTXOCorrect'
  BY <1>1, <1>3 DEF OnlineDiffs, VirtualUTXOCorrect
<1>8. ReversingInv'
  BY <1>1 DEF ReversingInv
<1>9. /\ DOMAIN diff' = Block /\ diffChild' \in [Block -> Block \cup {None}]
      /\ Forest(Valid', diff', diffChild', virtualUTXO, VirtualSelectedParent)
      /\ b \in Valid' => pastUTXO' = PastUTXO[b]
  <2>1. /\ DOMAIN diff = Block /\ diffChild \in [Block -> Block \cup {None}]
        /\ Valid \in SUBSET Block
        /\ Forest(Valid, diff, diffChild, virtualUTXO, VirtualSelectedParent)
    BY OnlineForest, OnlineFacts DEF OnlineDiffs
  <2>2. CASE ResolvedStatus(b) = "valid"
    <3>1. /\ diff' = [diff EXCEPT ![b] = DiffFrom(PastUTXO[sp], PastUTXO[b])]
          /\ diffChild' = [diffChild EXCEPT ![b] = sp] /\ pastUTXO' = PastUTXO[b]
          /\ Valid' = Valid \cup {b} /\ sp \in Valid
      BY <1>1, <1>2, <1>3, <1>4, <2>2
    <3>2. Forest(Valid \cup {b}, diff', diffChild', virtualUTXO, VirtualSelectedParent)
      BY <1>2, <2>1, <3>1, ForestCommitChain, Zenon
    <3>3. DOMAIN diff' = Block
      BY <2>1, <3>1, Zenon
    <3>4. diffChild' \in [Block -> Block \cup {None}]
      BY <1>2, <2>1, <3>1
    <3> QED BY <3>1, <3>2, <3>3, <3>4, Zenon
  <2>3. CASE ResolvedStatus(b) # "valid"
    <3>1. Valid' = Valid /\ UNCHANGED <<diff, diffChild>>
      BY <1>1, <1>3, <2>3
    <3> QED BY <1>2, <2>1, <3>1
  <2> QED BY <2>2, <2>3
<1>10. ForestInv'
  BY <1>1, <1>6, <1>9, Zenon DEF ForestInv
<1>11. OnlineDiffs'
  BY <1>3, <1>5, <1>7, <1>8, <1>9, <1>10, SMTT(30) DEF OnlineDiffs
<1>12. OnlineWins => OnlineWins'
  BY <1>1, <1>3, Zenon DEF OnlineWins
<1> QED BY <1>11, <1>12 DEF KeepsDiffs

\* updateVirtual over a forest whose root is the highest valid block.
LEMMA OnlineCommitForest ==
  ASSUME NEW b, NEW st, NEW df, NEW ch, CommitBlock(b, st, df, ch),
         NEW v, v = {c \in Block : st[c] = "valid"}, NEW sp \in v,
         \A c \in v : Order[c] <= Order[sp],
         DOMAIN df = Block, Forest(v, df, ch, virtualUTXO, sp)
  PROVE  /\ VirtualSelectedParent' = sp /\ VirtualUTXOCorrect'
         /\ diffChild' = ch /\ DOMAIN diff' = Block
         /\ Forest(v, diff', diffChild', virtualUTXO', sp)
<1>1. v \in SUBSET Block /\ sp \in Block
  OBVIOUS
<1>2. SelectVirtualSelectedParent(st) = sp
  BY <1>1, MaxOrderUnique, SMTT(30) DEF SelectVirtualSelectedParent
<1>3. PICK ps \in VirtualParentSets(sp, ParentCandidates(st, sp)) :
        UpdateVirtualWithParents(ps, v, df, ch)
  BY <1>2, Zenon DEF CommitBlock
<1>4. ps \in SUBSET Block /\ MaxOrder(ps) = sp
  <2>1. ParentCandidates(st, sp) \in SUBSET Block
        /\ \A c \in ParentCandidates(st, sp) : Order[c] < Order[sp]
    BY DEF ParentCandidates
  <2> QED BY <1>1, <1>3, <2>1, VirtualParentSetsProps, SMTT(30)
<1> QED BY <1>1, <1>3, <1>4, UpdateVirtualForest, SMTT(30)

\* The tip is valid: it becomes the virtual's selected parent and the root.
LEMMA DiffsCommitValid ==
  ASSUME OnlineIInv, CommitAddBlock, ResolvedStatus(resolveTip) = "valid"
  PROVE  KeepsDiffs
<1> USE DEF OnlineIInv
<1> DEFINE b == resolveTip
           st == [status EXCEPT ![b] = "valid"]
           df == StagedDiff(b)
           ch == StagedDiffChild(b)
           vsp == VirtualSelectedParent
<1>1. /\ phase = "resolving" /\ caller = "AddBlock" /\ unverified = {b} /\ b \in Block
      /\ Order[b] > Order[vsp] /\ b \notin Known /\ ~virtualNotUpdated
      /\ virtualNotUpdated' = virtualNotUpdated
  BY DEF CommitAddBlock, OnlineInv, OnlineType, OnlineDag
<1>2. b = MinOrder(unverified)
  BY <1>1, MinOrderProps, SMTT(30)
<1>3. /\ b \in Block \ (Valid \cup Disqualified) /\ b # Genesis /\ SelectedParent(b) \in Valid
  BY <1>1, <1>2, OnlineNextBlock, SMTT(30)
<1>4. pastUTXO = PastUTXO[SelectedParent(b)] /\ NextPastUTXO(b) = PastUTXO[b]
  BY <1>1, <1>2, <1>3, OnlineNextVerdict, SMTT(30)
<1>5. /\ DOMAIN df = Block /\ ch \in [Block -> Block \cup {None}] /\ ch[b] = None
      /\ Forest(Valid \cup {b}, df, ch, virtualUTXO, b)
      /\ Reversed(DiffFrom(NextPastUTXO(b), pastUTXO))
           = DiffFrom(PastUTXO[SelectedParent(b)], PastUTXO[b])
  BY <1>1, <1>3, <1>4, OnlineForest, StagedForest, Zenon DEF OnlineDiffs
<1>6. /\ CommitBlock(b, st, df, ch)
      /\ \/ /\ phase' = "reversing" /\ reversedBlock' = b
            /\ reversedDiff' = DiffFrom(PastUTXO[SelectedParent(b)], PastUTXO[b])
            /\ UNCHANGED <<caller, resolveTip>>
         \/ phase' = "idle" /\ caller' = "none"
  BY <1>5, SMTT(30) DEF CommitAddBlock, StartReversing, Release
<1> HIDE DEF df, ch
<1>7. /\ status' = st /\ Valid' = Valid \cup {b} /\ Known' = Known \cup {b}
      /\ Disqualified' = Disqualified
      /\ {c \in Block : st[c] = "valid"} = Valid \cup {b}
  BY <1>1, <1>3, <1>6, ZenonT(30) DEF CommitBlock, Valid, Known, Disqualified, OnlineInv, OnlineType
<1>8. \A c \in Valid \cup {b} : Order[c] <= Order[b]
  <2> SUFFICES ASSUME NEW c \in Valid PROVE Order[c] <= Order[b]
    BY <1>1, OrderNat
  <2>1. Order[c] <= Order[vsp] \/ c \in SelectedChain[b]
    BY DEF OnlineInv, OnlineDag
  <2>2. Order[c] \in Nat /\ Order[b] \in Nat /\ Order[vsp] \in Nat
    BY <1>1, OnlineFacts, OrderNat
  <2>3. c \in SelectedChain[b] => Order[c] <= Order[b]
    BY <1>1, ChainOrder, Zenon
  <2> QED BY <1>1, <2>1, <2>2, <2>3, SMTT(30)
<1>9. /\ VirtualSelectedParent' = b /\ VirtualUTXOCorrect'
      /\ diffChild' = ch /\ DOMAIN diff' = Block
      /\ Forest(Valid \cup {b}, diff', diffChild', virtualUTXO', b)
  <2>1. b \in Valid \cup {b}
    OBVIOUS
  <2> HIDE DEF b, st
  <2> QED BY <1>5, <1>6, <1>7, <1>8, <2>1, OnlineCommitForest, SMTT(30)
<1>10. LocalVerdicts'
  <2>1. /\ Valid' = Valid \cup (IF ResolvedStatus(b) = "valid" THEN {b} ELSE {})
        /\ Disqualified' = Disqualified \cup (IF ResolvedStatus(b) = "valid" THEN {} ELSE {b})
    BY <1>7
  <2> HIDE DEF b, st
  <2> QED BY <1>1, <1>2, <2>1, OnlineVerdictStep
<1>11. Root' = b
  BY <1>1, <1>6, <1>9 DEF Root
<1>12. ForestInv'
  BY <1>7, <1>9, <1>11, Zenon DEF ForestInv
<1>13. ReversingInv'
  BY <1>1, <1>3, <1>5, <1>6, <1>9, <1>11, ChainTop, ChainSelf, SMTT(30) DEF ReversingInv
<1>14. OnlineDiffs'
  BY <1>5, <1>6, <1>9, <1>10, <1>12, <1>13, ZenonT(30) DEF OnlineDiffs
<1>15. ASSUME ShallowDAG PROVE OnlineWins'
  <2>1. \A c \in Known \ Disqualified : Order[c] <= Order[vsp]
    BY <1>1, <1>15 DEF OnlineWins
  <2>2. \A c \in Known : Order[c] \in Nat
    BY OnlineFacts, OrderNat
  <2>3. Order[b] \in Nat /\ Order[vsp] \in Nat
    BY <1>1, OnlineFacts, OrderNat
  <2>4. \A c \in Known \ Disqualified : Order[c] <= Order[b]
    BY <1>1, <2>1, <2>2, <2>3
  <2> QED BY <1>7, <1>9, <2>3, <2>4 DEF OnlineWins
<1> QED BY <1>14, <1>15, Zenon DEF KeepsDiffs

\* The tip is disqualified, and in a shallow DAG the virtual stays: no valid
\* block of the resolved chain is above its selected parent.
LEMMA DiffsCommitDisqualified ==
  ASSUME ShallowDAG, OnlineIInv, CommitAddBlock, ResolvedStatus(resolveTip) # "valid"
  PROVE  KeepsDiffs
<1> USE DEF OnlineIInv
<1> DEFINE b == resolveTip
           st == [status EXCEPT ![b] = ResolvedStatus(b)]
           vsp == VirtualSelectedParent
<1>1. /\ phase = "resolving" /\ unverified = {b} /\ b \in Block
      /\ b \notin Known /\ ~virtualNotUpdated /\ virtualNotUpdated' = virtualNotUpdated
      /\ CommitBlock(b, st, diff, diffChild) /\ phase' = "idle" /\ caller' = "none"
  BY DEF CommitAddBlock, Release, OnlineInv, OnlineType, OnlineDag
<1>2. b = MinOrder(unverified)
  BY <1>1, MinOrderProps
<1>3. b \in Block \ (Valid \cup Disqualified) /\ ResolvedStatus(b) = "disqualified"
  BY <1>1, <1>2, OnlineNextBlock
<1>4. /\ status' = st /\ Valid' = Valid /\ Known' = Known \cup {b}
      /\ Disqualified' = Disqualified \cup {b}
      /\ {c \in Block : st[c] = "valid"} = Valid
  BY <1>1, <1>3, Zenon DEF CommitBlock, Valid, Known, Disqualified, OnlineInv, OnlineType
<1>5. vsp \in Valid /\ \A c \in Valid : Order[c] <= Order[vsp]
  BY <1>1, OnlineFacts, Zenon DEF OnlineWins, OnlineInv, OnlineDag
<1>6. /\ VirtualSelectedParent' = vsp /\ VirtualUTXOCorrect'
      /\ diffChild' = diffChild /\ DOMAIN diff' = Block
      /\ Forest(Valid, diff', diffChild', virtualUTXO', vsp)
  <2>1. DOMAIN diff = Block /\ Forest(Valid, diff, diffChild, virtualUTXO, vsp)
    BY OnlineForest DEF OnlineDiffs
  <2> HIDE DEF b, st, vsp
  <2> QED BY <1>1, <1>4, <1>5, <2>1, OnlineCommitForest
<1>7. LocalVerdicts'
  <2>1. /\ Valid' = Valid \cup (IF ResolvedStatus(b) = "valid" THEN {b} ELSE {})
        /\ Disqualified' = Disqualified \cup (IF ResolvedStatus(b) = "valid" THEN {} ELSE {b})
    BY <1>3, <1>4
  <2> HIDE DEF b, st
  <2> QED BY <1>1, <1>2, <2>1, OnlineVerdictStep
<1>8. Root' = vsp
  BY <1>1, <1>6 DEF Root
<1> HIDE DEF b, st, vsp
<1>9. ForestInv'
  BY <1>4, <1>6, <1>8, SMTT(30) DEF ForestInv
<1>10. OnlineDiffs'
  BY <1>1, <1>6, <1>7, <1>9, ZenonT(30) DEF OnlineDiffs, ReversingInv
<1>11. OnlineWins'
  BY <1>1, <1>4, <1>6, Zenon DEF OnlineWins, vsp
<1> QED BY <1>10, <1>11, Zenon DEF KeepsDiffs

\* ResolveVirtual finds nothing to do: only genesis is known, and it is the
\* virtual's selected parent.
LEMMA DiffsDone ==
  ASSUME Online, OnlineIInv, ResolveVirtualDone
  PROVE  KeepsDiffs
<1> USE DEF OnlineIInv
<1>1. /\ phase = "idle" /\ Known = {Genesis} /\ UNCHANGED <<dbVars, opVars>>
  BY Zenon DEF ResolveVirtualDone, ResolveVirtualCalled, Online, OnlineInv, OnlineType
<1>2. VirtualSelectedParent = Genesis
  BY <1>1, OnlineFacts DEF OnlineInv, OnlineDag
<1>3. Root' = Root /\ phase' = "idle"
  BY <1>1, OnlineDatabaseUnchanged, SMTT(30) DEF Root, opVars
<1>4. LocalVerdicts' /\ VirtualUTXOCorrect' /\ ForestInv' /\ ReversingInv'
  BY <1>1, <1>3, OnlineDatabaseUnchanged, Zenon
  DEF OnlineDiffs, LocalVerdicts, VirtualUTXOCorrect, ForestInv, ReversingInv, dbVars
<1>5. OnlineDiffs'
  BY <1>1, <1>3, <1>4 DEF OnlineDiffs, dbVars
<1>6. OnlineWins'
  BY <1>1, <1>2, BlockAssumption, OrderNat, OnlineDatabaseUnchanged DEF OnlineWins
<1> QED BY <1>5, <1>6 DEF KeepsDiffs

\* One more edge of the chain of the new selected parent is turned around.
LEMMA DiffsReverse ==
  ASSUME OnlineIInv, ReverseUTXODiff
  PROVE  KeepsDiffs
<1> USE DEF OnlineIInv
<1>1. phase = "reversing" /\ caller = "AddBlock" /\ resolveTip \in Block
  BY DEF ReverseUTXODiff, OnlineInv, OnlineType
<1>2. resolveTip \in Valid
  BY <1>1, Zenon DEF OnlineDiffs, ReversingInv, ForestInv, Forest, OnlyRoot
<1>3. SelectedChain[resolveTip] \subseteq Valid
  BY <1>1, <1>2, OnlineFacts, ChainClosed, SMTT(30) DEF OnlineInv, OnlineDag
<1>4. /\ ForestInv' /\ ReversingInv'
      /\ DOMAIN diff' = Block /\ diffChild' \in [Block -> Block \cup {None}]
      /\ UNCHANGED <<status, tips, virtualParents, virtualUTXO, virtualNotUpdated>>
      /\ phase' \in {"reversing", "idle"}
  BY <1>1, <1>3, ReverseEdge, Zenon DEF OnlineDiffs, Release
<1>5. /\ Known' = Known /\ Valid' = Valid /\ Disqualified' = Disqualified
      /\ VirtualSelectedParent' = VirtualSelectedParent
  BY <1>4 DEF Known, Valid, Disqualified, VirtualSelectedParent
<1>6. LocalVerdicts' /\ VirtualUTXOCorrect'
  BY <1>4, <1>5 DEF OnlineDiffs, LocalVerdicts, VirtualUTXOCorrect
<1>7. OnlineWins => OnlineWins'
  BY <1>4, <1>5 DEF OnlineWins
<1>8. OnlineDiffs'
  BY <1>4, <1>6 DEF OnlineDiffs
<1> QED BY <1>7, <1>8 DEF KeepsDiffs

\* A stuttering step.
LEMMA DiffsStutter ==
  ASSUME OnlineIInv, UNCHANGED vars
  PROVE  KeepsDiffs
<1> USE DEF OnlineIInv
<1>1. UNCHANGED <<dbVars, virtualNotUpdated, opVars>>
  BY DEF vars, dbVars, opVars
<1>2. Root' = Root
  BY <1>1, OnlineDatabaseUnchanged, SMTT(30) DEF Root, opVars
<1>3. LocalVerdicts' /\ VirtualUTXOCorrect' /\ ForestInv' /\ ReversingInv'
  BY <1>1, <1>2, OnlineDatabaseUnchanged, Zenon
  DEF OnlineDiffs, LocalVerdicts, VirtualUTXOCorrect, ForestInv, ReversingInv, dbVars, opVars
<1>4. OnlineDiffs'
  BY <1>1, <1>3, OnlineDatabaseUnchanged DEF OnlineDiffs, dbVars, opVars
<1>5. OnlineWins => OnlineWins'
  BY <1>1, OnlineDatabaseUnchanged DEF OnlineWins
<1> QED BY <1>4, <1>5 DEF KeepsDiffs

\* OnlineIInv is inductive.
LEMMA OnlineDiffsStep ==
  ASSUME Online, ShallowDAG \/ AllBlocksVerify, OnlineIInv, [Next]_vars
  PROVE  OnlineIInv'
<1> SUFFICES KeepsDiffs
  BY OnlineStep DEF OnlineIInv, KeepsDiffs, Settles
<1>1. ASSUME NEW b \in Block, BeginAddBlock(b) PROVE KeepsDiffs
  BY <1>1, DiffsBeginAddBlock
<1>2. ASSUME NEW b \in Block, AddSideBlock(b) PROVE KeepsDiffs
  BY <1>2, DiffsAddSideBlock
<1>3. CASE ResolveChainBlock
  BY <1>3, DiffsResolveChainBlock
<1>4. CASE CommitAddBlock
  <2>1. AllBlocksVerify => ResolvedStatus(resolveTip) = "valid"
    <3>1. phase = "resolving" /\ resolveTip \in Block /\ unverified = {resolveTip}
      BY <1>4 DEF CommitAddBlock, OnlineIInv, OnlineInv, OnlineType
    <3>2. resolveTip = MinOrder(unverified)
      BY <3>1, MinOrderProps
    <3> QED BY <3>1, <3>2, OnlineNextVerdict DEF OnlineIInv
  <2> QED BY <1>4, <2>1, DiffsCommitValid, DiffsCommitDisqualified
<1>5. CASE ResolveVirtualDone
  BY <1>5, DiffsDone
<1>6. CASE ReverseUTXODiff
  BY <1>6, DiffsReverse
<1>7. CASE UNCHANGED vars
  BY <1>7, DiffsStutter
<1> QED BY <1>1, <1>2, <1>3, <1>4, <1>5, <1>6, <1>7, OnlyAddBlock, ZenonT(30) DEF Next, OnlineIInv

\* A verdict that is right given that of the selected parent is right given the
\* DAG: the lowest disqualified block of a chain fails by itself.
LEMMA VerdictsFromLocal ==
  ASSUME OnlineInv, LocalVerdicts
  PROVE  VerdictSound
<1>1. ASSUME NEW b \in Valid
      PROVE  \A c \in SelectedChain[b] \ {Genesis} : VerifyUTXO(c, PastUTXO[c])
  <2>1. SelectedChain[b] \subseteq Valid
    BY OnlineFacts, ChainClosed DEF OnlineInv, OnlineDag
  <2> QED BY <2>1, Zenon DEF LocalVerdicts
<1>2. ASSUME NEW b \in Disqualified
      PROVE  \E c \in SelectedChain[b] \ {Genesis} : ~VerifyUTXO(c, PastUTXO[c])
  <2> DEFINE S == SelectedChain[b] \cap Disqualified
             m == MinOrder(S)
  <2>1. b \in Block /\ b \in SelectedChain[b] /\ SelectedChain[b] \subseteq Block
    BY ChainSelf DEF Disqualified
  <2>2. m \in S /\ \A c \in S : Order[m] <= Order[c]
    BY <2>1, MinOrderProps, Zenon
  <2> HIDE DEF m
  <2>3. m \in Block /\ m # Genesis /\ m \in SelectedChain[b]
    BY <2>1, <2>2, ZenonT(30) DEF OnlineInv, OnlineDag, Valid, Disqualified
  <2>4. /\ SelectedParent(m) \in SelectedChain[b]
        /\ Order[SelectedParent(m)] < Order[m] /\ SelectedParent(m) \in Block
    BY <2>1, <2>3, ChainStep, SelectedParentProps
  <2>5. SelectedParent(m) \notin Disqualified
    BY <2>2, <2>3, <2>4, OrderNat
  <2> QED BY <2>2, <2>3, <2>5 DEF LocalVerdicts
<1>3. ASSUME NEW b \in Block, status[b] \in {"valid", "disqualified"}
      PROVE  (status[b] = "valid")
               = (\A c \in SelectedChain[b] \ {Genesis} : VerifyUTXO(c, PastUTXO[c]))
  <2>1. CASE status[b] = "valid"
    <3>1. \A c \in SelectedChain[b] \ {Genesis} : VerifyUTXO(c, PastUTXO[c])
      BY <1>1, <2>1 DEF Valid
    <3> QED BY <2>1, <3>1, Zenon
  <2>2. CASE status[b] = "disqualified"
    <3>1. ~\A c \in SelectedChain[b] \ {Genesis} : VerifyUTXO(c, PastUTXO[c])
      BY <1>2, <2>2 DEF Disqualified
    <3>2. status[b] # "valid"
      BY <2>2
    <3> QED BY <3>1, <3>2, Zenon
  <2> QED BY <1>3, <2>1, <2>2, Zenon
<1> QED BY <1>3, Zenon DEF VerdictSound

-----------------------------------------------------------------------------
(* Theorems about a node that is online and is not restarted *)

\* The structure every online node keeps, whatever blocks arrive.
THEOREM OnlineInvariant ==
  ASSUME Online
  PROVE  Spec => []OnlineInv
<1>1. Init => OnlineInv
  BY InitOnline DEF OnlineIInv
<1>2. OnlineInv /\ [Next]_vars => OnlineInv'
  BY OnlineStep DEF Settles
<1> QED BY <1>1, <1>2, PTL DEF Spec

\* No step of an online node reorganises below the finality point, whatever
\* blocks are disqualified and however deep the DAG is (isViolatingFinality,
\* selectVirtualSelectedParent).
THEOREM FinalityAlwaysHolds ==
  ASSUME Online
  PROVE  Spec => FinalityHolds
<1>1. OnlineInv /\ [Next]_vars
        => [(VirtualFinalityPoint \in SelectedChain[VirtualSelectedParent'])]_vars
  BY OnlineStep DEF Settles
<1> QED BY <1>1, OnlineInvariant, PTL DEF Spec, FinalityHolds

\* Nor does a step lower the virtual's selected parent, also when the new tip or
\* a block of its chain is disqualified.
THEOREM OnlineSelectedParentRises ==
  ASSUME Online
  PROVE  Spec => SelectedParentRises
<1>1. OnlineInv /\ [Next]_vars => [Order[VirtualSelectedParent'] >= Order[VirtualSelectedParent]]_vars
  BY OnlineStep DEF Settles
<1> QED BY <1>1, OnlineInvariant, PTL DEF Spec, SelectedParentRises

\* The inductive invariant of an online node.
THEOREM OnlineInductiveInvariant ==
  ASSUME Online, ShallowDAG \/ AllBlocksVerify
  PROVE  Spec => []OnlineIInv
<1>1. OnlineIInv /\ [Next]_vars => OnlineIInv'
  BY OnlineDiffsStep
<1> QED BY <1>1, InitOnline, PTL DEF Spec

\* Every verdict of an online node is the one the DAG determines: a block is
\* valid exactly when it and its selected chain verify (resolveBlockStatus).
THEOREM VerdictsAlwaysSound ==
  ASSUME Online, ShallowDAG \/ AllBlocksVerify
  PROVE  Spec => []VerdictSound
<1>1. OnlineIInv => VerdictSound
  BY VerdictsFromLocal DEF OnlineIInv, OnlineDiffs
<1> QED BY <1>1, OnlineInductiveInvariant, PTL

\* Every valid block can be restored although others are disqualified.
THEOREM OnlineRestorePath ==
  ASSUME Online, ShallowDAG \/ AllBlocksVerify
  PROVE  Spec => []RestoreCorrect
<1>1. OnlineIInv => RestoreCorrect
  BY OnlineForest DEF OnlineIInv
<1> QED BY <1>1, OnlineInductiveInvariant, PTL

\* The virtual's UTXO set is the one its parents determine, disqualified blocks
\* among those it merges included (updateVirtualWithParents).
THEOREM OnlineVirtualUTXO ==
  ASSUME Online, ShallowDAG \/ AllBlocksVerify
  PROVE  Spec => []VirtualUTXOCorrect
<1>1. OnlineIInv => VirtualUTXOCorrect
  BY DEF OnlineIInv, OnlineDiffs
<1> QED BY <1>1, OnlineInductiveInvariant, PTL

\* Whatever is above the virtual of an online node is disqualified.
THEOREM OnlineVirtualWins ==
  ASSUME Online, ShallowDAG
  PROVE  Spec => []VirtualWins
<1>1. OnlineIInv => VirtualWins
  <2> SUFFICES ASSUME OnlineIInv PROVE VirtualWins
    BY Zenon
  <2>1. /\ VirtualSelectedParent \in Valid /\ Order[VirtualSelectedParent] \in Nat
        /\ \A b \in Known : Order[b] \in Nat
    BY OnlineFacts, OrderNat DEF OnlineIInv, OnlineInv, OnlineDag
  <2>2. ASSUME ~virtualNotUpdated, NEW b \in Known, Order[b] > Order[VirtualSelectedParent]
        PROVE  status[b] = "disqualified"
    <3>1. b \in Disqualified
      BY <2>1, <2>2 DEF OnlineIInv, OnlineWins
    <3> QED BY <3>1 DEF Disqualified
  <2> QED BY <2>1, <2>2 DEF VirtualWins
<1> QED BY <1>1, OnlineInductiveInvariant, PTL
=============================================================================
