------------------------------- MODULE Mempool -------------------------------
(***************************************************************************)
(* The transaction pool of domain/miningmanager/mempool: the transactions   *)
(* pool with its fee-rate order and its parent/child links, the mempool     *)
(* UTXO set, and the orphan pool.  The mempool lock makes every entry point *)
(* one step, so each action is a whole handler, written as the composition  *)
(* of the operators that model the functions it calls.  Consensus, which    *)
(* has its own lock, moves between those steps: a block is added to the DAG *)
(* first and only later handed to HandleNewBlockTransactions, and a         *)
(* reorganization takes transactions back out of the virtual UTXO set       *)
(* without telling the mempool.                                             *)
(*                                                                         *)
(* A transaction is its id.  An outpoint is a pair <<creating id, index>>.  *)
(***************************************************************************)
EXTENDS Integers, Sequences, FiniteSets, TLC, Functions, SequencesExt,
        FiniteSetsExt

CONSTANTS
  Tx,                  \* transactions
  Root,                \* creator of the outputs that exist from the start
  RootOutputs,         \* how many of them there are
  Inputs,              \* [Tx -> Seq(outpoint)]
  Outputs,             \* [Tx -> number of outputs]
  FeeRate,             \* [Tx -> Nat], injective: fee / mass, then id
  MaximumTransactionCount,
  MaximumOrphanTransactionCount,
  TransactionExpireInterval,
  TransactionExpireScanInterval,
  OrphanExpireInterval,
  OrphanExpireScanInterval,
  MaxDAA,              \* bound on the virtual's DAA score
  Word,                \* DAA scores are unsigned integers modulo Word
  MaxOrderLength       \* bound on the length of the fee-rate order

VARIABLES
  pool,                \* the mempool's own state, a record
  accepted,            \* transactions the virtual's past has accepted
  daa,                 \* the virtual's DAA score
  toHandle,            \* added blocks not yet handed to the mempool
  hung                 \* a call that never returns holds the mempool lock

vars == <<pool, accepted, daa, toHandle, hung>>

-----------------------------------------------------------------------------
(* Outpoints *)

InputSet(t) == Range(Inputs[t])

OutputsOf(t) == {<<t, i>> : i \in 0..(Outputs[t] - 1)}

RootSet == {<<Root, i>> : i \in 0..(RootOutputs - 1)}

Outpoint == RootSet \cup UNION {OutputsOf(t) : t \in Tx}

\* The virtual's UTXO set.
ConsensusUTXO ==
  (RootSet \cup UNION {OutputsOf(t) : t \in accepted})
     \ UNION {InputSet(t) : t \in accepted}

\* Unsigned subtraction.
Sub(a, b) == (a - b) % Word

Without(f, S) == Restrict(f, DOMAIN f \ S)

-----------------------------------------------------------------------------
(* The orphan pool *)

\* Orphans reached from t's outputs through orphansByPreviousOutpoint.
OrphanRedeemers(m, t) ==
  LET of(x) == {m.orphanBy[o] : o \in OutputsOf(x) \cap DOMAIN m.orphanBy}
      reach[n \in 0..Cardinality(Tx)] ==
        IF n = 0 THEN of(t)
        ELSE reach[n - 1] \cup UNION {of(x) : x \in reach[n - 1]}
  IN  reach[Cardinality(Tx)]

\* Mutant: the orphan leaves the pool but not the index.
RemoveOrphansOnly(m, S) == [m EXCEPT !.orphans = Without(@, S)]

\* removeOrphan(_, false) for each member of S
RemoveOrphans(m, S) ==
  LET gone == S \cap DOMAIN m.orphans
  IN  [m EXCEPT !.orphans  = Without(@, gone),
                !.orphanBy = Without(@, UNION {InputSet(t) : t \in gone})]

RemoveOrphanAndRedeemers(m, t) ==
  IF t \in DOMAIN m.orphans
    THEN RemoveOrphans(m, {t} \cup OrphanRedeemers(m, t))
    ELSE m

AddOrphan(m, t, high, filled) ==
  [m EXCEPT !.orphans  = (t :> [high |-> high, addedAt |-> daa,
                                filled |-> filled]) @@ @,
            !.orphanBy = [o \in InputSet(t) |-> t] @@ @]

\* The sets of orphans limitOrphanPoolSize may evict: the choice is the
\* iteration order of a Go map.  Redeemers of an evicted orphan stay.
OrphanEvictions(m) ==
  LET low  == {t \in DOMAIN m.orphans : ~m.orphans[t].high}
      over == Cardinality(DOMAIN m.orphans) - MaximumOrphanTransactionCount
  IN  kSubset(Min({Max({over, 0}), Cardinality(low)}), low)

\* What maybeAddOrphan may leave behind; {} when it returns an error.
MaybeAddOrphan(m, t, high, filled) ==
  IF MaximumOrphanTransactionCount = 0 THEN {m}
  ELSE IF t \in DOMAIN m.orphans \/ InputSet(t) \cap DOMAIN m.orphanBy # {}
    THEN {}
    ELSE LET added == AddOrphan(m, t, high, filled)
         IN  {RemoveOrphans(added, S) : S \in OrphanEvictions(added)}

ExpireOrphanTransactions(m) ==
  IF Sub(daa, m.lastOrphanScan) < OrphanExpireScanInterval THEN m
  ELSE LET old == {t \in DOMAIN m.orphans :
                     /\ ~m.orphans[t].high
                     /\ Sub(daa, m.orphans[t].addedAt) > OrphanExpireInterval}
       IN  [RemoveOrphans(m, old) EXCEPT !.lastOrphanScan = daa]

-----------------------------------------------------------------------------
(* The transactions pool and the mempool UTXO set *)

ParentTransactionsInPool(m, t) == {o[1] : o \in InputSet(t)} \cap DOMAIN m.all

\* Mutant: the transaction goes to the end.
PushLast(order, t, high) == Append(order, [tx |-> t, high |-> high])

\* TransactionsOrderedByFeeRate: entries are pool transactions, and a
\* transaction may have been pushed more than once.
Push(order, t, high) ==
  LET after == SelectInSeq(order, LAMBDA e : FeeRate[e.tx] >= FeeRate[t])
      at    == IF after = 0 THEN Len(order) + 1 ELSE after
  IN  InsertAt(order, at, [tx |-> t, high |-> high])

RemoveFromOrder(order, t) ==
  LET i == SelectInSeq(order, LAMBDA e : e.tx = t)
  IN  IF i = 0 THEN order ELSE RemoveAt(order, i)

\* addMempoolTransaction.  The UTXO set deletes outpoints numbered by the
\* inputs but created by the transaction itself, as mempoolUTXOSet does.
AddMempoolTransaction(m, t, high) ==
  LET parents == ParentTransactionsInPool(m, t)
  IN  [m EXCEPT
         !.all = (t :> [high |-> high, addedAt |-> daa,
                        parents |-> parents]) @@ @,
         !.chained = [p \in Tx |-> IF p \in parents THEN @[p] \cup {t} ELSE @[p]],
         !.spentBy = [o \in InputSet(t) |-> t] @@ @,
         !.unspent = (@ \ {<<t, i>> : i \in 0..(Len(Inputs[t]) - 1)})
                        \cup OutputsOf(t),
         !.byFeeRate = Push(@, t, high),
         !.highPriority = IF high THEN @ \cup {t} ELSE @]

\* chainedTransactionsByParentID, followed transitively
Redeemers(m, t) ==
  LET reach[n \in 0..Cardinality(Tx)] ==
        IF n = 0 THEN m.chained[t]
        ELSE reach[n - 1] \cup UNION {m.chained[x] : x \in reach[n - 1]}
  IN  reach[Cardinality(Tx)]

\* removeTransactionFromSets for each member of S
RemoveTransactionFromSets(m, S, removeRedeemers) ==
  LET ins  == UNION {InputSet(t) : t \in S}
      outs == UNION {OutputsOf(t) : t \in S}
      removed ==
        [m EXCEPT
           !.all = Without(@, S),
           !.chained = [p \in Tx |-> IF p \in S THEN {} ELSE @[p]],
           !.spentBy = Without(@, ins),
           !.unspent = (@ \cup {o \in ins : o[1] \in DOMAIN m.all \ S}) \ outs,
           !.byFeeRate = FoldSet(LAMBDA t, q : RemoveFromOrder(q, t), @, S),
           !.highPriority = @ \ S]
  IN  IF removeRedeemers
        THEN RemoveOrphans(removed, UNION {OrphanRedeemers(m, t) : t \in S})
        ELSE [removed EXCEPT !.orphans =
                [t \in DOMAIN @ |-> [@[t] EXCEPT !.filled = @ \ outs]]]

\* Mutant: the children of a transaction that leaves alone keep it as parent.
RemoveWithoutUnlinking(m, t, removeRedeemers) ==
  IF t \in DOMAIN m.orphans THEN RemoveOrphanAndRedeemers(m, t)
  ELSE IF t \notin DOMAIN m.all THEN m
  ELSE RemoveTransactionFromSets(
         m, IF removeRedeemers THEN {t} \cup Redeemers(m, t) ELSE {t},
         removeRedeemers)

RemoveTransaction(m, t, removeRedeemers) ==
  IF t \in DOMAIN m.orphans THEN RemoveOrphanAndRedeemers(m, t)
  ELSE IF t \notin DOMAIN m.all THEN m
  ELSE LET redeemers == Redeemers(m, t)
           unlinked ==
             [m EXCEPT !.all = [x \in DOMAIN @ |->
                IF x \in redeemers THEN [@[x] EXCEPT !.parents = @ \ {t}]
                                   ELSE @[x]]]
       IN  IF removeRedeemers
             THEN RemoveTransactionFromSets(m, {t} \cup redeemers, TRUE)
             ELSE RemoveTransactionFromSets(unlinked, {t}, FALSE)

RemoveTransactions(m, S, removeRedeemers) ==
  FoldSet(LAMBDA t, acc : RemoveTransaction(acc, t, removeRedeemers), m, S)

ExpireOldTransactions(m, intervalPassed) ==
  IF Sub(daa, m.lastScan) < TransactionExpireScanInterval \/ ~intervalPassed
    THEN m
    ELSE LET old == {t \in DOMAIN m.all :
                       /\ ~m.all[t].high
                       /\ Sub(daa, m.all[t].addedAt) > TransactionExpireInterval}
         IN  [RemoveTransactions(m, old, TRUE) EXCEPT !.lastScan = daa]

\* One iteration of limitTransactionCount's loop.  st.i is currentIndex;
\* st.hung is set when the iteration changed nothing, so that every later
\* one repeats it.
LimitStep(st) ==
  LET order == st.m.byFeeRate
      size  == Cardinality(DOMAIN st.m.all)
      low   == {i \in st.i..(Len(order) - 1) : ~order[i + 1].high}
      at    == Min(low)
      next  == RemoveTransaction(st.m, order[at + 1].tx, TRUE)
  IN  IF st.done \/ st.hung \/ size <= MaximumTransactionCount
        THEN [st EXCEPT !.done = TRUE]
      ELSE IF low = {} \/ (at > st.i /\ at >= size)
        THEN [st EXCEPT !.done = TRUE]
      ELSE [m |-> next, i |-> at, hung |-> next = st.m,
            done |-> at >= Cardinality(DOMAIN next.all)]

LimitTransactionCount(m) ==
  FoldLeft(LAMBDA st, i : LimitStep(st),
           [m |-> m, i |-> 0, hung |-> FALSE, done |-> FALSE],
           [i \in 1..(2 * Cardinality(Tx)) |-> i])

-----------------------------------------------------------------------------
(* Orphans that an accepted transaction completes *)

\* Members of bad fail ValidateTransactionAndPopulateWithConsensusData (an
\* immature input, say) or the standardness check in context.
UnorphanTransaction(m, t, bad) ==
  LET removed == RemoveOrphans(m, {t})
  IN  IF t \in bad THEN removed ELSE AddMempoolTransaction(removed, t, FALSE)

\* The outputs of t are visited in order.  The queue the code starts from
\* holds t only and is never extended.
ProcessOrphansAfterAcceptedTransaction(m, t, bad) ==
  LET visit(acc, i) ==
        LET o == <<t, i - 1>>
            x == acc.orphanBy[o]
            f == [acc EXCEPT !.orphans[x].filled = @ \cup {o}]
        IN  IF o \notin DOMAIN acc.orphanBy THEN acc
            ELSE IF f.orphans[x].filled = InputSet(x)
                   THEN UnorphanTransaction(f, x, bad) ELSE f
  IN  FoldLeft(visit, m, [i \in 1..Outputs[t] |-> i])

-----------------------------------------------------------------------------
(* Entry points *)

\* fillInputsAndGetMissingParents: outpoints of pool parents, then the UTXO
\* set of the virtual
FilledInputs(m, t) ==
  {o \in InputSet(t) : o[1] \in DOMAIN m.all \/ o \in ConsensusUTXO}

\* validateTransactionPreUTXOEntry
PassesPreUTXOEntry(m, t) ==
  t \notin DOMAIN m.all /\ InputSet(t) \cap DOMAIN m.spentBy = {}

\* A call that ends in an error leaves no trace: an orphan where allowOrphan
\* is false, a transaction that fails validation.
ValidateAndInsertTransaction(t, high, bad) ==
  /\ ~hung
  /\ PassesPreUTXOEntry(pool, t)
  /\ LET filled == FilledInputs(pool, t)
         limited == LimitTransactionCount(
                      ProcessOrphansAfterAcceptedTransaction(
                        AddMempoolTransaction(pool, t, high), t, bad))
     IN  IF filled # InputSet(t)
           THEN /\ pool' \in MaybeAddOrphan(pool, t, high, filled)
                /\ hung' = hung
           ELSE /\ Len(pool.byFeeRate) < MaxOrderLength
                /\ pool' = limited.m
                /\ hung' = limited.hung
  /\ UNCHANGED <<accepted, daa, toHandle>>

\* removeDoubleSpends: the index is read again for every input
RemoveDoubleSpends(m, t) ==
  FoldLeft(LAMBDA acc, o : IF o \in DOMAIN acc.spentBy
                             THEN RemoveTransaction(acc, acc.spentBy[o], TRUE)
                             ELSE acc,
           m, Inputs[t])

HandleBlockTransaction(m, t, bad) ==
  LET gone  == RemoveTransaction(m, t, FALSE)
      clean == RemoveOrphans(RemoveDoubleSpends(gone, t), {t})
  IN  ProcessOrphansAfterAcceptedTransaction(clean, t, bad)

HandleNewBlockTransactions(block, bad, intervalPassed) ==
  /\ ~hung
  /\ Len(pool.byFeeRate) < MaxOrderLength
  /\ LET handled == FoldLeft(LAMBDA m, t : HandleBlockTransaction(m, t, bad),
                             pool, block)
     IN  pool' = ExpireOldTransactions(ExpireOrphanTransactions(handled),
                                       intervalPassed)
  /\ toHandle' = toHandle \ {block}
  /\ UNCHANGED <<accepted, daa, hung>>

\* The loop over highPriorityTransactions ends early when a transaction
\* fails for another reason than missing parents: it visits a subset.
RevalidateHighPriorityTransactions(visited) ==
  /\ ~hung
  /\ pool' = FoldSet(LAMBDA t, acc :
                       IF /\ t \in acc.highPriority
                          /\ FilledInputs(acc, t) # InputSet(t)
                         THEN RemoveTransaction(acc, t, TRUE) ELSE acc,
                     pool, visited)
  /\ UNCHANGED <<accepted, daa, toHandle, hung>>

\* BuildBlockTemplate takes the transactions that made its template invalid
\* out of the pool.  It chose them earlier, from a copy of the pool.
RemoveInvalidTransaction(t) ==
  /\ ~hung
  /\ t \in DOMAIN pool.all \cup DOMAIN pool.orphans
  /\ pool' = RemoveTransaction(pool, t, TRUE)
  /\ UNCHANGED <<accepted, daa, toHandle, hung>>

-----------------------------------------------------------------------------
(* Consensus, as the mempool sees it *)

\* Blocks, by the transactions they hold beside the coinbase.
Block == {<<>>} \cup {<<t>> : t \in Tx}

\* ValidateAndInsertBlock.
BlockAdded(block) ==
  /\ Range(block) \cap accepted = {}
  /\ \A t \in Range(block) : InputSet(t) \subseteq ConsensusUTXO
  /\ daa < MaxDAA
  /\ accepted' = accepted \cup Range(block)
  /\ daa' = daa + 1
  /\ toHandle' = toHandle \cup {block}
  /\ UNCHANGED <<pool, hung>>

\* The virtual moves to another chain, which has not accepted t and whose
\* DAA score is unrelated to that of the old one.
Reorganization(t) ==
  /\ t \in accepted
  /\ OutputsOf(t) \subseteq ConsensusUTXO
  /\ accepted' = accepted \ {t}
  /\ daa' \in 0..MaxDAA
  /\ UNCHANGED <<pool, toHandle, hung>>

-----------------------------------------------------------------------------
EmptyPool ==
  [all |-> <<>>, highPriority |-> {}, chained |-> [t \in Tx |-> {}],
   byFeeRate |-> <<>>, unspent |-> {}, spentBy |-> <<>>,
   orphans |-> <<>>, orphanBy |-> <<>>, lastScan |-> 0, lastOrphanScan |-> 0]

Init ==
  /\ pool = EmptyPool
  /\ accepted = {}
  /\ daa = 0
  /\ toHandle = {}
  /\ hung = FALSE

Next ==
  \/ \E t \in Tx, high \in BOOLEAN, bad \in SUBSET DOMAIN pool.orphans :
       ValidateAndInsertTransaction(t, high, bad)
  \/ \E block \in toHandle, bad \in SUBSET DOMAIN pool.orphans,
        intervalPassed \in BOOLEAN :
       HandleNewBlockTransactions(block, bad, intervalPassed)
  \/ \E visited \in SUBSET pool.highPriority : RevalidateHighPriorityTransactions(visited)
  \/ \E t \in Tx : RemoveInvalidTransaction(t)
  \/ \E block \in Block : BlockAdded(block)
  \/ \E t \in Tx : Reorganization(t)

Spec == Init /\ [][Next]_vars

-----------------------------------------------------------------------------
(* Properties *)

\* Every map and index of the mempool keeps its type, and high-priority
\* transactions and parents are transactions of the pool.
TypeOK ==
  /\ DOMAIN pool.all \subseteq Tx
  /\ DOMAIN pool.orphans \subseteq Tx
  /\ DOMAIN pool.spentBy \subseteq Outpoint
  /\ DOMAIN pool.orphanBy \subseteq Outpoint
  /\ pool.unspent \subseteq Outpoint
  /\ pool.highPriority \subseteq DOMAIN pool.all
  /\ \A t \in Tx : pool.chained[t] \subseteq Tx
  /\ \A i \in DOMAIN pool.byFeeRate : pool.byFeeRate[i].tx \in Tx
  /\ daa \in 0..MaxDAA /\ toHandle \subseteq Block /\ accepted \subseteq Tx

\* orphansByPreviousOutpoint is exactly the inputs of the orphans.  An entry
\* that outlives its orphan would block every other spender of that output;
\* a missing one makes removeOrphan fail half way, and the orphan is never
\* woken by its parent.  An orphan waits for something: it never sits in the
\* orphan pool with all of its inputs filled, where nothing would look at it
\* again.  The orphan pool exceeds its limit only by high-priority orphans.
OrphanIndexExact ==
  /\ TypeOK
  /\ DOMAIN pool.orphanBy = UNION {InputSet(t) : t \in DOMAIN pool.orphans}
  /\ \A t \in DOMAIN pool.orphans : \A o \in InputSet(t) : pool.orphanBy[o] = t
  /\ \A t \in DOMAIN pool.orphans : pool.orphans[t].filled # InputSet(t)
  /\ \/ Cardinality(DOMAIN pool.orphans) <= MaximumOrphanTransactionCount
     \/ \A t \in DOMAIN pool.orphans : pool.orphans[t].high

\* The parents a transaction waits for are in the pool, and each of them
\* knows it as a redeemer.  A parent that left without unlinking its child
\* would keep the child out of every block template for ever.
ParentsTracked ==
  \A t \in DOMAIN pool.all : \A p \in pool.all[t].parents :
    p \in DOMAIN pool.all /\ t \in pool.chained[p]

\* Eviction can find every transaction of the pool, and finds it by the
\* binary search of findTransactionIndex, which needs the order sorted.
EvictionSeesAll ==
  /\ DOMAIN pool.all \subseteq {pool.byFeeRate[i].tx : i \in DOMAIN pool.byFeeRate}
  /\ \A i, j \in DOMAIN pool.byFeeRate :
       i < j => FeeRate[pool.byFeeRate[i].tx] <= FeeRate[pool.byFeeRate[j].tx]

=============================================================================
