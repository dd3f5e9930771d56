--------------------------- MODULE ConsensusState ---------------------------
(***************************************************************************)
(* The consensus state manager: which blocks are UTXO-valid, which block   *)
(* is the selected parent of the virtual, what the virtual's UTXO set is,  *)
(* and the chain of UTXO diffs from which the past UTXO set of every other *)
(* valid block is restored.                                                *)
(*                                                                         *)
(* The database is written by several commits in a row (one per block of a *)
(* resolved chain, one for its tip, one per reversed diff, one for the     *)
(* virtual), and the process may stop between any two of them.  The lock   *)
(* of consensus.go keeps other calls out until the whole operation is      *)
(* done, but releases it between two chunks of a resolution.               *)
(*                                                                         *)
(* A UTXO set is a set of pairs <<outpoint, DAA score>>: the same          *)
(* transaction accepted by two chains yields two different entries.        *)
(***************************************************************************)
EXTENDS Naturals, Sequences, FiniteSets, Folds

CONSTANTS
  Block,                \* the blocks that may ever arrive, genesis included
  Genesis,
  None,                 \* "no UTXO diff child": the diff is over the virtual
  Parents,              \* Parents[b]: the direct parents of block b
  Order,                \* position in GHOSTDAG parent selection (blue work, hash)
  Transactions,         \* Transactions[b]: b's transactions, coinbase first
  PastUTXO,             \* PastUTXO[b]: the UTXO set in the past of block b
  BadHeader,            \* blocks whose header commits to a wrong UTXO state
  FinalityDepth,
  VirtualResolveChunk,  \* consensus.go: virtualResolveChunk
  CrashPoints,          \* the phases in which the process may stop
  IBD                   \* whether blocks may be inserted without updating the virtual

ASSUME BlockAssumption == IsFiniteSet(Block) /\ Genesis \in Block /\ None \notin Block
ASSUME ParentsAssumption ==
  /\ Parents \in [Block -> SUBSET Block]
  /\ \A b \in Block : (Parents[b] = {}) = (b = Genesis)
ASSUME OrderAssumption ==
  /\ Order \in [Block -> 0 .. Cardinality(Block) - 1]
  /\ \A b, c \in Block : Order[b] = Order[c] => b = c
  /\ \A b \in Block : \A p \in Parents[b] : Order[p] < Order[b]
ASSUME DepthAssumption == FinalityDepth \in Nat /\ VirtualResolveChunk \in Nat \ {0}
ASSUME IBDAssumption == IBD \in BOOLEAN

VARIABLES
  status,             \* blockStatusStore
  tips,               \* consensusStateStore: the tips of the DAG
  diff,               \* utxoDiffStore: the diff of each valid block
  diffChild,          \* utxoDiffStore: the block the diff is over, None if absent
  virtualParents,     \* the parents of the virtual block
  virtualUTXO,        \* consensusStateStore: the virtual's UTXO set
  virtualNotUpdated,  \* consensus.go, in memory only
  phase,              \* what the holder of the consensus lock does next
  caller,             \* "AddBlock" or "ResolveVirtual"
  resolveTip,         \* the block resolveBlockStatus was called for
  pendingTip,         \* the tip ResolveVirtual works towards
  unverified,         \* unverifiedBlocks still to be resolved
  reversal,           \* whether more than one block is unverified
  pastUTXO,           \* previousBlockUTXOSet, in memory
  reversedBlock,      \* ReverseUTXODiffs: previousBlock
  reversedDiff        \* ReverseUTXODiffs: previousUTXODiff

dbVars == <<status, tips, diff, diffChild, virtualParents, virtualUTXO>>
opVars == <<phase, caller, resolveTip, pendingTip, unverified, reversal,
            pastUTXO, reversedBlock, reversedDiff>>
vars == <<status, tips, diff, diffChild, virtualParents, virtualUTXO,
          virtualNotUpdated, phase, caller, resolveTip, pendingTip, unverified,
          reversal, pastUTXO, reversedBlock, reversedDiff>>

-----------------------------------------------------------------------------
(* The DAG *)

MaxOrder(S) == CHOOSE b \in S : \A c \in S : Order[c] <= Order[b]
MinOrder(S) == CHOOSE b \in S : \A c \in S : Order[b] <= Order[c]

\* The ancestors of each block: the smallest set that holds its parents and
\* the parents of its members.
Past == [b \in Block |->
  {p \in Block : \A S \in SUBSET Block :
     (\A c \in S \cup {b} : Parents[c] \subseteq S) => p \in S}]
PastOf(ps) == ps \cup UNION {Past[p] : p \in ps}

\* ChooseSelectedParent over the parents of a block.
SelectedParent(b) == MaxOrder(Parents[b])

\* The selected parent chain of a block, the block included.
SelectedChain == [b \in Block |->
  {c \in Block : \A S \in SUBSET Block :
     b \in S /\ (\A x \in S \ {Genesis} : SelectedParent(x) \in S) => c \in S}]

\* Every anticone of the DAGs modelled here is smaller than K: all blocks are blue.
BlueScore(ps) == Cardinality(PastOf(ps))
DAAScore(ps) == Cardinality(PastOf(ps))

\* The merge set, and the block of S that comes last in the order of GetSortedMergeSet:
\* the selected parent, then the rest in ascending order.
MergeSet(ps) == PastOf(ps) \ Past[MaxOrder(ps)]
LastMerged(ps, S) ==
  LET sp == MaxOrder(ps)
  IN IF S = {sp} THEN sp ELSE MaxOrder(S \ {sp})

-----------------------------------------------------------------------------
(* UTXO sets and diffs *)

EmptyDiff == [toAdd |-> {}, toRemove |-> {}]
WithDiff(utxo, d) == (utxo \ d.toRemove) \cup d.toAdd
\* this.DiffFrom(other), for diffs of one base: what leads from this to other.
DiffFrom(this, other) == [toAdd |-> other \ this, toRemove |-> this \ other]
Reversed(d) == [toAdd |-> d.toRemove, toRemove |-> d.toAdd]

Spendable(tx, utxo) == \A o \in tx.inputs : \E e \in utxo : e[1] = o

\* maybeAcceptTransaction and AddTransaction.  A coinbase has no inputs.
AcceptTransaction(tx, utxo, isSelectedParent, daaScore) ==
  IF ~Spendable(tx, utxo) \/ (tx.coinbase /\ ~isSelectedParent)
  THEN utxo
  ELSE {e \in utxo : e[1] \notin tx.inputs} \cup {<<o, daaScore>> : o \in tx.outputs}

\* applyMergeSetBlocks: the past UTXO set of a block with parents ps, from the past UTXO
\* set of its selected parent.  The transactions of a block are taken in their order.
ApplyMergeSetBlocks(ps, utxo) ==
  LET Last(S) == CHOOSE i \in S : \A j \in S : i >= j
      ApplyBlock(b, u) ==
        MapThenFoldSet(LAMBDA tx, v : AcceptTransaction(tx, v, b = MaxOrder(ps), DAAScore(ps)), u,
                       LAMBDA i : Transactions[b][i], Last, DOMAIN Transactions[b])
  IN MapThenFoldSet(ApplyBlock, utxo, LAMBDA b : b, LAMBDA S : LastMerged(ps, S), MergeSet(ps))

\* The past UTXO set of a block is what the DAG alone determines.
ASSUME PastUTXOAssumption ==
  /\ PastUTXO[Genesis] = {}
  /\ \A b \in Block \ {Genesis} :
       PastUTXO[b] = ApplyMergeSetBlocks(Parents[b], PastUTXO[SelectedParent(b)])

\* verifyUTXO: the header of an honest block commits to its past UTXO set,
\* and every transaction but the coinbase is spendable in it.
VerifyUTXO(b, utxo) ==
  /\ b \notin BadHeader
  /\ utxo = PastUTXO[b]
  /\ \A i \in 2..Len(Transactions[b]) : Spendable(Transactions[b][i], utxo)

-----------------------------------------------------------------------------
(* The stored state *)

Known == {b \in Block : status[b] # "none"}
Valid == {b \in Block : status[b] = "valid"}

VirtualSelectedParent == MaxOrder(virtualParents)

\* restorePastUTXO over the diffs df and children ch of the blocks of v: follow
\* the diff children up to the virtual and apply the diffs on the way back.
Restored(v, df, ch) ==
  LET R[b \in v] == WithDiff(IF ch[b] = None THEN virtualUTXO ELSE R[ch[b]], df[b])
  IN R

RestorePastUTXO(b) == Restored(Valid, diff, diffChild)[b]

\* calculateFinalityPoint for the virtual: the highest chain block more than
\* FinalityDepth below it.
VirtualFinalityPoint ==
  LET deep == {c \in SelectedChain[VirtualSelectedParent] :
                 BlueScore(Parents[c]) + FinalityDepth < BlueScore(virtualParents)}
  IN IF deep = {} THEN Genesis ELSE MaxOrder(deep)

\* Mutant: the finality point is not looked at.
NeverViolatingFinality(b) == FALSE

\* The pruning point is the genesis here, so a finality point in its past is
\* the genesis itself.
IsViolatingFinality(b) == b # Genesis /\ VirtualFinalityPoint \notin SelectedChain[b]

\* getUnverifiedChainBlocks: down the selected chain of b while blocks are
\* pending.  A block that is being added is pending in the staging area.
UnverifiedChainBlocks(b) ==
  {c \in SelectedChain[b] :
     \A d \in SelectedChain[b] : Order[d] >= Order[c] => status[d] \in {"none", "pending"}}

\* Mutant: the parents of the new tip stay tips.
KeepOldTips(b) == {b} \cup tips

\* calculateNewTips
NewTips(b) == {b} \cup (tips \ Parents[b])

\* Mutant: the heap pops the lowest block first.
SelectFromUpHeap(st) == MinOrder({b \in Block : st[b] = "valid"})

\* selectVirtualSelectedParent.  The heap pops blocks in decreasing order; a
\* block enters it once all its children were popped without being valid, and
\* descendants come before their ancestors: the first valid block popped is
\* the highest valid block.
SelectVirtualSelectedParent(st) == MaxOrder({b \in Block : st[b] = "valid"})

\* What is left in the heap then: blocks below the selected parent all of
\* whose children were popped.
ParentCandidates(st, sp) ==
  {c \in Block : /\ st[c] # "none"
                 /\ Order[c] < Order[sp]
                 /\ \A k \in Block : st[k] # "none" /\ c \in Parents[k]
                                       => Order[k] > Order[sp]}

\* pickVirtualParents: next to the selected parent sp, any antichain of blocks
\* among the candidates and the blocks in their past that sp does not merge.
\* Which ones depends on the limits on parents, merge set and merge depth.
VirtualParentSets(sp, candidates) ==
  {{sp} \cup others : others \in
     {S \in SUBSET (PastOf(candidates) \ PastOf({sp})) :
        \A c \in S : Past[c] \cap S = {}}}

\* findNextPendingTip chooses the highest of these.
PendingTips == {t \in tips : ~IsViolatingFinality(t) /\ status[t] \in {"valid", "pending"}}

\* Mutant: the processing point need not win over the selected parent.
AnyProcessingPoints(unv) ==
  {p \in unv : Cardinality({c \in unv : Order[c] <= Order[p]}) >= VirtualResolveChunk}
\* Mutant: no search for a later point that does.
FirstProcessingPoints(unv) ==
  {p \in unv : /\ Cardinality({c \in unv : Order[c] <= Order[p]}) = VirtualResolveChunk
               /\ Order[p] > Order[VirtualSelectedParent]}

\* ResolveVirtual: the block up to which a chunk of the unverified chain is
\* resolved.  It must win over the selected parent when it is not the tip.
ProcessingPoints(unv) ==
  {p \in unv : /\ Cardinality({c \in unv : Order[c] <= Order[p]}) >= VirtualResolveChunk
               /\ Order[p] > Order[VirtualSelectedParent]}

-----------------------------------------------------------------------------
(* Initial state: consensus.Init has inserted the genesis *)

Init ==
  /\ status = [b \in Block |-> IF b = Genesis THEN "valid" ELSE "none"]
  /\ tips = {Genesis}
  /\ virtualParents = {Genesis}
  /\ virtualUTXO = ApplyMergeSetBlocks({Genesis}, {})
  /\ diff = [b \in Block |-> IF b = Genesis THEN DiffFrom(virtualUTXO, {}) ELSE EmptyDiff]
  /\ diffChild = [b \in Block |-> None]
  /\ virtualNotUpdated = TRUE
  /\ phase = "idle" /\ caller = "none"
  /\ resolveTip = Genesis /\ pendingTip = Genesis
  /\ unverified = {} /\ reversal = FALSE
  /\ pastUTXO = {}
  /\ reversedBlock = Genesis /\ reversedDiff = EmptyDiff

\* The operation ends and the lock is released.
Release ==
  /\ phase' = "idle" /\ caller' = "none"
  /\ resolveTip' = Genesis /\ pendingTip' = Genesis
  /\ unverified' = {} /\ reversal' = FALSE
  /\ pastUTXO' = {}
  /\ reversedBlock' = Genesis /\ reversedDiff' = EmptyDiff

-----------------------------------------------------------------------------
(* resolveBlockStatus *)

\* Start resolving the unverified blocks unv up to tip.  selectedParentInfo
\* restores the past UTXO set of the block below them.
StartResolving(who, tip, goal, unv) ==
  LET sp == SelectedParent(MinOrder(unv))
  IN /\ phase' = "resolving" /\ caller' = who
     /\ resolveTip' = tip /\ pendingTip' = goal
     /\ unverified' = unv
     /\ reversal' = (unv # {tip})
     /\ pastUTXO' = IF status[sp] = "valid" THEN RestorePastUTXO(sp) ELSE {}
     /\ UNCHANGED <<reversedBlock, reversedDiff>>

\* The status of the next unverified block and its past UTXO set.
NextPastUTXO(b) == ApplyMergeSetBlocks(Parents[b], pastUTXO)
\* Mutant: verifyUTXO is skipped.
UnverifiedStatus(b) ==
  IF status[SelectedParent(b)] = "valid" THEN "valid" ELSE "disqualified"

ResolvedStatus(b) ==
  IF status[SelectedParent(b)] = "valid" /\ VerifyUTXO(b, NextPastUTXO(b))
  THEN "valid" ELSE "disqualified"

\* One iteration of the loop for a block that is not the tip: its own
\* staging area is committed, with its selected parent as diff child.
ResolveChainBlock ==
  /\ phase = "resolving"
  /\ unverified # {resolveTip}
  /\ LET b == MinOrder(unverified)
     IN /\ status' = [status EXCEPT ![b] = ResolvedStatus(b)]
        /\ unverified' = unverified \ {b}
        /\ IF ResolvedStatus(b) = "valid"
           THEN /\ diff' = [diff EXCEPT ![b] = DiffFrom(pastUTXO, NextPastUTXO(b))]
                /\ diffChild' = [diffChild EXCEPT ![b] = SelectedParent(b)]
                /\ pastUTXO' = NextPastUTXO(b)
           ELSE UNCHANGED <<diff, diffChild, pastUTXO>>
  /\ UNCHANGED <<tips, virtualParents, virtualUTXO, virtualNotUpdated, phase, caller,
                 resolveTip, pendingTip, reversal, reversedBlock, reversedDiff>>

\* What resolveSingleBlockStatus stages for a valid resolve tip b.  A new
\* selected tip is diffed over the virtual and the old one over the new one;
\* staging a nil child leaves a stored child as it is.
IsNewSelectedTip(b) == Order[b] > Order[VirtualSelectedParent]
StagedDiff(b) ==
  LET old == VirtualSelectedParent
  IN IF IsNewSelectedTip(b)
     THEN [diff EXCEPT ![old] = DiffFrom(NextPastUTXO(b), RestorePastUTXO(old)),
                       ![b] = DiffFrom(virtualUTXO, NextPastUTXO(b))]
     ELSE [diff EXCEPT ![b] = DiffFrom(RestorePastUTXO(old), NextPastUTXO(b))]

StagedDiffChild(b) ==
  LET old == VirtualSelectedParent
  IN IF IsNewSelectedTip(b) THEN [diffChild EXCEPT ![old] = b]
     ELSE [diffChild EXCEPT ![b] = old]

\* The reversalData: the diff that leads from the tip b to its selected parent.
StartReversing(b) ==
  /\ phase' = "reversing"
  /\ reversedBlock' = b
  /\ reversedDiff' = Reversed(DiffFrom(NextPastUTXO(b), pastUTXO))
  /\ pastUTXO' = {} /\ unverified' = {} /\ reversal' = FALSE

\* Mutant: the blocks the virtual merges beside its selected parent are dropped.
UpdateVirtualWithSelectedParent(ps, v, df, ch) ==
  LET sp == MaxOrder(ps)
      utxo == ApplyMergeSetBlocks({sp}, Restored(v, df, ch)[sp])
  IN /\ virtualParents' = ps
     /\ virtualUTXO' = utxo
     /\ diff' = [df EXCEPT ![sp] = DiffFrom(utxo, WithDiff(virtualUTXO, df[sp]))]
     /\ diffChild' = ch

\* updateVirtualWithParents, over the staged statuses, diffs and children.
UpdateVirtualWithParents(ps, v, df, ch) ==
  LET sp == MaxOrder(ps)
      utxo == ApplyMergeSetBlocks(ps, Restored(v, df, ch)[sp])
  IN /\ virtualParents' = ps
     /\ virtualUTXO' = utxo
     /\ diff' = [df EXCEPT ![sp] = DiffFrom(utxo, WithDiff(virtualUTXO, df[sp]))]
     /\ diffChild' = ch

-----------------------------------------------------------------------------
(* AddBlock: insertion of a block that updates the virtual.  ValidateAndInsert-
   Block first resolves the virtual while it is not updated. *)

CanInsert(b) == phase = "idle" /\ status[b] = "none" /\ Parents[b] \subseteq Known

\* The block may become the selected parent: its status is resolved first.
BeginAddBlock(b) ==
  /\ CanInsert(b)
  /\ ~virtualNotUpdated
  /\ IsNewSelectedTip(b) /\ ~IsViolatingFinality(b)
  /\ StartResolving("AddBlock", b, b, UnverifiedChainBlocks(b))
  /\ UNCHANGED <<dbVars, virtualNotUpdated>>

\* updateVirtual with statuses st, diffs df and children ch in the staging
\* area, committed with them.
CommitBlock(b, st, df, ch) ==
  /\ status' = st
  /\ tips' = NewTips(b)
  /\ LET sp == SelectVirtualSelectedParent(st)
     IN \E ps \in VirtualParentSets(sp, ParentCandidates(st, sp)) :
          UpdateVirtualWithParents(ps, {c \in Block : st[c] = "valid"}, df, ch)

\* Not a candidate, or violating finality: the block stays pending.
AddSideBlock(b) ==
  /\ CanInsert(b)
  /\ ~virtualNotUpdated
  /\ ~IsNewSelectedTip(b) \/ IsViolatingFinality(b)
  /\ CommitBlock(b, [status EXCEPT ![b] = "pending"], diff, diffChild)
  /\ UNCHANGED <<virtualNotUpdated, opVars>>

\* The tip of the chain is resolved and committed with the new virtual.
CommitAddBlock ==
  /\ phase = "resolving" /\ caller = "AddBlock"
  /\ unverified = {resolveTip}
  /\ LET b == resolveTip
         st == [status EXCEPT ![b] = ResolvedStatus(b)]
     IN IF ResolvedStatus(b) = "valid"
        THEN /\ CommitBlock(b, st, StagedDiff(b), StagedDiffChild(b))
             /\ IF reversal
                THEN StartReversing(b) /\ UNCHANGED <<caller, resolveTip, pendingTip>>
                ELSE Release
        ELSE CommitBlock(b, st, diff, diffChild) /\ Release
  /\ UNCHANGED virtualNotUpdated

\* During IBD blocks are inserted without touching the virtual.
InsertBlockWithoutVirtual(b) ==
  /\ IBD
  /\ CanInsert(b)
  /\ status' = [status EXCEPT ![b] = "pending"]
  /\ tips' = NewTips(b)
  /\ virtualNotUpdated' = TRUE
  /\ UNCHANGED <<diff, diffChild, virtualParents, virtualUTXO, opVars>>

-----------------------------------------------------------------------------
(* ResolveVirtual, one chunk *)

\* IBD resolves the virtual whenever it likes, the insertion of a block only
\* while the virtual is not updated.
ResolveVirtualCalled == phase = "idle" /\ (IBD \/ virtualNotUpdated)

\* No tip is left to resolve.
ResolveVirtualDone ==
  /\ ResolveVirtualCalled
  /\ \/ PendingTips = {}
     \/ /\ VirtualSelectedParent \in PendingTips \cap Valid
        /\ \A t \in PendingTips : Order[t] <= Order[VirtualSelectedParent]
  /\ virtualNotUpdated' = FALSE
  /\ UNCHANGED <<dbVars, opVars>>

BeginResolveVirtual ==
  /\ ResolveVirtualCalled
  /\ PendingTips # {}
  /\ LET tip == MaxOrder(PendingTips)
         unv == UnverifiedChainBlocks(tip)
         point == IF Cardinality(unv) <= VirtualResolveChunk THEN tip
                  ELSE MinOrder(ProcessingPoints(unv))
     IN IF status[tip] = "valid"
        THEN /\ tip # VirtualSelectedParent
             /\ phase' = "updating" /\ caller' = "ResolveVirtual"
             /\ resolveTip' = tip /\ pendingTip' = tip
             /\ UNCHANGED <<unverified, reversal, pastUTXO, reversedBlock, reversedDiff>>
        ELSE /\ Cardinality(unv) > VirtualResolveChunk => ProcessingPoints(unv) # {}
             /\ StartResolving("ResolveVirtual", point, tip,
                               {c \in unv : Order[c] <= Order[point]})
  /\ UNCHANGED <<dbVars, virtualNotUpdated>>

\* The processing point is resolved.  When it is disqualified nothing is
\* committed, and making it the virtual's parent fails: it has no UTXO diff.
CommitProcessingPoint ==
  /\ phase = "resolving" /\ caller = "ResolveVirtual"
  /\ unverified = {resolveTip}
  /\ LET b == resolveTip
     IN IF ResolvedStatus(b) = "valid"
        THEN /\ status' = [status EXCEPT ![b] = "valid"]
             /\ diff' = StagedDiff(b)
             /\ diffChild' = StagedDiffChild(b)
             /\ IF reversal
                THEN StartReversing(b)
                ELSE /\ phase' = "updating"
                     /\ pastUTXO' = {} /\ unverified' = {}
                     /\ UNCHANGED <<reversal, reversedBlock, reversedDiff>>
             /\ UNCHANGED <<caller, resolveTip, pendingTip>>
        ELSE /\ Release
             /\ UNCHANGED <<status, diff, diffChild>>
  /\ UNCHANGED <<tips, virtualParents, virtualUTXO, virtualNotUpdated>>

\* The virtual moves to the processing point, and to the lower tips too once
\* the pending tip itself is reached.
UpdateResolvedVirtual ==
  /\ phase = "updating"
  /\ LET lower == {t \in tips : Order[t] < Order[resolveTip]}
         complete == resolveTip = pendingTip
     IN /\ \E ps \in IF complete THEN VirtualParentSets(resolveTip, lower) ELSE {{resolveTip}} :
             UpdateVirtualWithParents(ps, Valid, diff, diffChild)
        /\ virtualNotUpdated' = ~complete
  /\ Release
  /\ UNCHANGED <<status, tips>>

-----------------------------------------------------------------------------
(* ReverseUTXODiffs: one commit per block, down the selected chain.  The
   diff child of the block must be stored, or the operation fails. *)

\* Mutant: the reversed diff is stored without its new child.
ReverseWithoutChild ==
  /\ phase = "reversing"
  /\ diff' = [diff EXCEPT ![SelectedParent(reversedBlock)] = Reversed(reversedDiff)]
  /\ IF caller = "AddBlock" THEN Release
     ELSE /\ phase' = "updating"
          /\ UNCHANGED <<caller, resolveTip, pendingTip, unverified, reversal, pastUTXO,
                         reversedBlock, reversedDiff>>
  /\ UNCHANGED <<status, tips, diffChild, virtualParents, virtualUTXO, virtualNotUpdated>>

ReverseUTXODiff ==
  /\ phase = "reversing"
  /\ LET b == SelectedParent(reversedBlock)
         last == b = Genesis \/ diffChild[b] # SelectedParent(b)
     IN IF diffChild[b] = None
        THEN Release /\ UNCHANGED <<diff, diffChild>>
        ELSE /\ diff' = [diff EXCEPT ![b] = Reversed(reversedDiff)]
             /\ diffChild' = [diffChild EXCEPT ![b] = reversedBlock]
             /\ IF ~last
                THEN /\ reversedBlock' = b /\ reversedDiff' = diff[b]
                     /\ UNCHANGED <<phase, caller, resolveTip, pendingTip, unverified,
                                    reversal, pastUTXO>>
                ELSE IF caller = "AddBlock" THEN Release
                ELSE /\ phase' = "updating"
                     /\ reversedBlock' = Genesis /\ reversedDiff' = EmptyDiff
                     /\ UNCHANGED <<caller, resolveTip, pendingTip, unverified,
                                    reversal, pastUTXO>>
  /\ UNCHANGED <<status, tips, virtualParents, virtualUTXO, virtualNotUpdated>>

-----------------------------------------------------------------------------

\* The process stops; only the database survives, and a new consensus
\* instance starts with virtualNotUpdated set.
Crash ==
  /\ <<caller, phase>> \in CrashPoints
  /\ Release
  /\ virtualNotUpdated' = TRUE
  /\ UNCHANGED dbVars

Next ==
  \/ \E b \in Block : BeginAddBlock(b) \/ AddSideBlock(b) \/ InsertBlockWithoutVirtual(b)
  \/ ResolveChainBlock \/ CommitAddBlock
  \/ ResolveVirtualDone \/ BeginResolveVirtual
  \/ CommitProcessingPoint \/ ReverseUTXODiff \/ UpdateResolvedVirtual
  \/ Crash

Spec == Init /\ [][Next]_vars

\* The thread that holds the consensus lock runs, and the loop of
\* consensus.ResolveVirtual calls for the next chunk until one is complete.
Resolve == ResolveVirtualDone \/ BeginResolveVirtual
LockHolder ==
  \/ ResolveChainBlock \/ CommitAddBlock \/ CommitProcessingPoint
  \/ ReverseUTXODiff \/ UpdateResolvedVirtual
Fairness == WF_vars(LockHolder) /\ WF_vars(Resolve)
FairSpec == Spec /\ Fairness

-----------------------------------------------------------------------------
(* Properties *)

\* Every variable has its type; the operation variables are at rest while the
\* consensus lock is free.
TypeOK ==
  /\ status \in [Block -> {"none", "pending", "valid", "disqualified"}]
  /\ tips \subseteq Known /\ virtualParents \subseteq Block /\ virtualParents # {}
  /\ diffChild \in [Block -> Block \cup {None}]
  /\ virtualNotUpdated \in BOOLEAN
  /\ phase \in {"idle", "resolving", "reversing", "updating"}
  /\ caller \in {"none", "AddBlock", "ResolveVirtual"}
  /\ (phase = "idle") = (caller = "none")
  /\ unverified \subseteq Block

\* There is a restore path to all blocks at all times: following the stored
\* diffs from any valid block to the virtual yields the past UTXO set that the
\* DAG alone determines, between any two commits of resolveBlockStatus,
\* ReverseUTXODiffs and updateVirtual and after any crash (restorePastUTXO).
RestoreCorrect == \A b \in Valid : RestorePastUTXO(b) = PastUTXO[b]

\* The stored virtual UTXO set is the one its parents determine, whichever
\* reorganisations and partial resolutions led to it (updateVirtualWithParents).
VirtualUTXOCorrect ==
  virtualUTXO = ApplyMergeSetBlocks(virtualParents, PastUTXO[VirtualSelectedParent])

\* A block's verdict is a function of the DAG, not of the order of arrival,
\* of the chunks of a resolution or of crashes: it is valid when it and its
\* whole selected chain verify, and disqualified otherwise (resolveBlockStatus).
VerdictSound ==
  \A b \in Block :
    status[b] \in {"valid", "disqualified"} =>
      ((status[b] = "valid") =
         (\A c \in SelectedChain[b] \ {Genesis} : VerifyUTXO(c, PastUTXO[c])))

\* The virtual's selected parent is valid, and when the virtual is up to date
\* whatever is above it is disqualified or violates finality
\* (selectVirtualSelectedParent, ResolveVirtual).
VirtualWins ==
  /\ VirtualSelectedParent \in Valid
  /\ phase = "idle" /\ ~virtualNotUpdated
       => \A b \in Known : Order[b] > Order[VirtualSelectedParent]
                             => status[b] = "disqualified" \/ IsViolatingFinality(b)

\* The selected parent of the virtual only moves up the parent selection
\* order (isNewSelectedTip; a resolved chunk must win over it).
SelectedParentRises ==
  [][Order[VirtualSelectedParent'] >= Order[VirtualSelectedParent]]_vars

\* The finality point stays on the selected chain of the virtual: no step
\* reorganises below it (isViolatingFinality).
FinalityHolds ==
  [][(VirtualFinalityPoint \in SelectedChain[VirtualSelectedParent'])]_vars

\* The virtual catches up with every block that arrived and does not violate
\* finality: resolution in chunks neither stops short of a pending tip nor
\* gets stuck between two commits (consensus.ResolveVirtual).
Behind ==
  \E b \in Known : Order[b] > Order[VirtualSelectedParent] /\ ~IsViolatingFinality(b)
CatchesUp == Behind ~> ~Behind

=============================================================================
