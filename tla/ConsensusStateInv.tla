------------------------- MODULE ConsensusStateInv --------------------------
(***************************************************************************)
(* The inductive invariant behind RestoreCorrect.  The stored diffs form a *)
(* forest: every valid block hangs by one edge from its diff child, the    *)
(* only root is the block next to the virtual, and each diff is exactly    *)
(* what separates the two past UTXO sets at the ends of its edge.          *)
(***************************************************************************)
EXTENDS ConsensusState

\* What the argument needs of the instance: honest blocks, a DAG shallower
\* than the finality depth, and no crash between the commit of a processing
\* point and that of its virtual (ResolveVirtual).
AllBlocksVerify == \A b \in Block \ {Genesis} : VerifyUTXO(b, PastUTXO[b])
ShallowDAG == Cardinality(Block) <= FinalityDepth
SafeCrashPoints ==
  CrashPoints \cap {<<"ResolveVirtual", "reversing">>, <<"ResolveVirtual", "updating">>} = {}

-----------------------------------------------------------------------------
(* Diff forests over blocks v with diffs df, children ch and virtual UTXO u *)

ExactEdges(v, df, ch, u) ==
  \A b \in v :
    df[b] = DiffFrom(IF ch[b] = None THEN u ELSE PastUTXO[ch[b]], PastUTXO[b])

Children(v, ch) == \A b \in Block : ch[b] \in (IF b \in v THEN v \cup {None} ELSE {None})

OnlyRoot(v, ch, h) == h \in v /\ \A b \in v : ch[b] = None <=> b = h

Acyclic(v, ch) == \A S \in SUBSET v : S # {} => \E b \in S : ch[b] \notin S

Forest(v, df, ch, u, h) ==
  Children(v, ch) /\ ExactEdges(v, df, ch, u) /\ OnlyRoot(v, ch, h) /\ Acyclic(v, ch)

\* The block whose diff is over the virtual: the processing point as soon as it
\* is committed, the selected parent of the virtual otherwise.
Root ==
  IF caller = "ResolveVirtual" /\ phase \in {"reversing", "updating"}
  THEN resolveTip ELSE VirtualSelectedParent

ForestInv == Forest(Valid, diff, diffChild, virtualUTXO, Root)

-----------------------------------------------------------------------------

StateType ==
  /\ status \in [Block -> {"none", "pending", "valid"}]
  /\ tips \in SUBSET Block
  /\ DOMAIN diff = Block
  /\ diffChild \in [Block -> Block \cup {None}]
  /\ virtualParents \in SUBSET Block /\ virtualParents # {}
  /\ virtualNotUpdated \in BOOLEAN
  /\ phase \in {"idle", "resolving", "reversing", "updating"}
  /\ caller \in {"none", "AddBlock", "ResolveVirtual"}
  /\ (phase = "idle") = (caller = "none")
  /\ phase = "updating" => caller = "ResolveVirtual"
  /\ resolveTip \in Block /\ pendingTip \in Block
  /\ unverified \in SUBSET Block
  /\ reversal \in BOOLEAN
  /\ reversedBlock \in Block

\* Statuses follow the selected chain; the tips are the childless blocks.
DagInv ==
  /\ Genesis \in Valid
  /\ \A b \in Valid \ {Genesis} : SelectedParent(b) \in Valid
  /\ \A b \in Known : Parents[b] \subseteq Known
  /\ tips \subseteq Known /\ tips # {}
  /\ \A b \in Known : Parents[b] \cap tips = {}
  /\ \A b \in Known : \E t \in tips : Order[b] <= Order[t]

\* An updated virtual is above every block; a valid tip is never above it.
VirtualInv ==
  /\ VirtualSelectedParent \in Valid
  /\ VirtualUTXOCorrect
  /\ ~virtualNotUpdated => \A b \in Known : Order[b] <= Order[VirtualSelectedParent]
  /\ caller = "AddBlock" => ~virtualNotUpdated
  /\ \A t \in tips \cap Valid : Order[t] <= Order[VirtualSelectedParent] \/ t = Root
  /\ caller = "ResolveVirtual" =>
       /\ \A t \in tips : Order[t] <= Order[pendingTip]
       /\ resolveTip \in Known
       /\ Order[resolveTip] > Order[VirtualSelectedParent]

\* The unverified blocks are a segment of the selected chain of the resolved
\* tip, right above a valid block whose past UTXO set is at hand.
ResolvingInv ==
  phase = "resolving" =>
    /\ resolveTip \in unverified /\ unverified \subseteq SelectedChain[resolveTip]
    /\ unverified \cap Valid = {}
    /\ unverified \ {resolveTip} \subseteq Known
    /\ \A c \in unverified :
         /\ Order[c] <= Order[resolveTip]
         /\ SelectedParent(c) \in unverified \/ c = MinOrder(unverified)
    /\ SelectedParent(MinOrder(unverified)) \in Valid
    /\ pastUTXO = PastUTXO[SelectedParent(MinOrder(unverified))]
    /\ caller = "AddBlock" =>
         /\ resolveTip \notin Known
         /\ Parents[resolveTip] \subseteq Known
         /\ Order[resolveTip] > Order[VirtualSelectedParent]

\* From the reversed block upwards the selected chain of the tip leads to the
\* tip and no longer down.
ReversingInv ==
  phase = "reversing" =>
    LET up == {x \in SelectedChain[resolveTip] : Order[x] >= Order[reversedBlock]}
    IN /\ reversedBlock \in SelectedChain[resolveTip] \ {Genesis}
       /\ Root = resolveTip
       /\ \A x \in up : diffChild[x] \in up \cup {None}
       /\ reversedDiff = DiffFrom(PastUTXO[SelectedParent(reversedBlock)],
                                  PastUTXO[reversedBlock])

\* The conjunction is inductive.
IInv ==
  /\ StateType /\ DagInv /\ VirtualInv /\ ForestInv /\ ResolvingInv /\ ReversingInv
-----------------------------------------------------------------------------
(* A node that is online: it has caught up, adds each block as it comes and  *)
(* is not restarted.  Blocks may be disqualified, and the DAG may be deeper  *)
(* than the finality depth.                                                  *)

Online == ~IBD /\ CrashPoints = {}

Disqualified == {b \in Block : status[b] = "disqualified"}

OnlineType ==
  /\ status \in [Block -> {"none", "pending", "valid", "disqualified"}]
  /\ tips \in SUBSET Block
  /\ virtualParents \in SUBSET Block /\ virtualParents # {}
  /\ virtualNotUpdated \in BOOLEAN
  /\ <<phase, caller>> \in {<<"idle", "none">>, <<"resolving", "AddBlock">>,
                            <<"reversing", "AddBlock">>}
  /\ resolveTip \in Block /\ unverified \in SUBSET Block
  /\ virtualNotUpdated =>
       phase = "idle" /\ Known = {Genesis} /\ tips = {Genesis} /\ virtualParents = {Genesis}

\* The chain that is being resolved is new up to its tip and contains the finality point;
\* only its own blocks may be valid above the virtual's selected parent.
OnlineDag ==
  /\ Genesis \in Valid
  /\ \A b \in Known : Parents[b] \subseteq Known
  /\ \A b \in Valid \ {Genesis} : SelectedParent(b) \in Valid
  /\ \A b \in Disqualified : SelectedParent(b) \in Valid \cup Disqualified
  /\ VirtualSelectedParent \in Valid
  /\ \A b \in Valid : \/ Order[b] <= Order[VirtualSelectedParent]
                      \/ phase = "resolving" /\ b \in SelectedChain[resolveTip]
  /\ phase = "resolving" =>
       /\ resolveTip \notin Known /\ Parents[resolveTip] \subseteq Known
       /\ Order[resolveTip] > Order[VirtualSelectedParent]
       /\ VirtualFinalityPoint \in SelectedChain[resolveTip]
       /\ resolveTip \in unverified /\ unverified \subseteq SelectedChain[resolveTip]
       /\ unverified \cap (Valid \cup Disqualified) = {}
       /\ \A c \in unverified : SelectedParent(c) \in unverified \/ c = MinOrder(unverified)
       /\ SelectedParent(MinOrder(unverified)) \in Valid \cup Disqualified

\* A verdict is right when that of the selected parent is.
LocalVerdicts ==
  /\ \A b \in Valid \ {Genesis} : VerifyUTXO(b, PastUTXO[b])
  /\ \A b \in Disqualified : SelectedParent(b) \in Disqualified \/ ~VerifyUTXO(b, PastUTXO[b])

OnlineDiffs ==
  /\ LocalVerdicts
  /\ DOMAIN diff = Block
  /\ diffChild \in [Block -> Block \cup {None}]
  /\ VirtualUTXOCorrect /\ ForestInv /\ ReversingInv
  /\ phase = "resolving" /\ SelectedParent(MinOrder(unverified)) \in Valid =>
       pastUTXO = PastUTXO[SelectedParent(MinOrder(unverified))]

\* In a shallow DAG nothing but disqualified blocks is above the virtual's selected parent.
OnlineWins ==
  ~virtualNotUpdated =>
    \A b \in Known \ Disqualified : Order[b] <= Order[VirtualSelectedParent]

OnlineInv == OnlineType /\ OnlineDag
OnlineIInv == OnlineInv /\ OnlineDiffs /\ (ShallowDAG => OnlineWins)
=============================================================================
