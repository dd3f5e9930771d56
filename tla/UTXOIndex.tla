------------------------------ MODULE UTXOIndex ------------------------------
(***************************************************************************)
(* The UTXO index of domain/utxoindex and the channel that feeds it.        *)
(* Consensus moves the virtual and sends a change set; a goroutine of the   *)
(* RPC manager takes the change sets out of the channel and applies them.   *)
(* When a staging consensus replaces the active one, the virtual jumps      *)
(* without a change set and the index is rebuilt by Reset, in steps that    *)
(* write to the database one after the other while consensus goes on.  A    *)
(* crash may come between any two of them; what the database then holds     *)
(* decides at the next start whether the index is rebuilt again.            *)
(*                                                                         *)
(* A virtual is a number, larger for a later one, and stands for its        *)
(* parents.  An outpoint is its position in the order of the database keys. *)
(***************************************************************************)
EXTENDS Integers, Sequences, FiniteSets, Functions, FiniteSetsExt

CONSTANTS
  Outpoint,        \* a set of positive numbers
  Amount,          \* [Outpoint -> Nat]
  LastVirtual,     \* bound on the moves of the virtual
  VirtualUTXO,     \* for each virtual, a function from outpoints to DAA scores
  Capacity,        \* of the channel of consensus events
  Step,            \* outpoints Reset reads at a time
  Word,            \* sums of amounts are unsigned integers modulo Word
  MaxCrashes,      \* bound on crashes
  ExitWindow,      \* other goroutines still run while a panic is logged
  None

VARIABLES
  virtual,         \* the virtual of the active consensus
  events,          \* the channel: change sets, [from, to]
  entries,         \* the database: the index, a function from outpoints to DAA
  parents,         \* the database: the virtual the index is at, or None
  supply,          \* the database: the circulating supply, or None
  node,            \* "down", "starting", "running" or "exiting"
  reset,           \* Reset in progress: its phase and its local variables
  replayed,        \* history: the last Reset found change sets in the channel
  crashes

db == <<entries, parents, supply>>

vars == <<virtual, events, entries, parents, supply, node, reset, replayed, crashes>>

Virtual == 0..LastVirtual

\* Outpoints are positions in a finite table, 0 comes before all of them.
ASSUME OutpointAssumption ==
  /\ Outpoint \subseteq Nat \ {0}
  /\ IsFiniteSet(Outpoint)
  /\ Amount \in [Outpoint -> Nat]

ASSUME VirtualUTXOAssumption ==
  /\ LastVirtual \in Nat
  /\ \A v \in Virtual : DOMAIN VirtualUTXO[v] \subseteq Outpoint

\* maxUTXOsToFetch, the size of the channel and 2^64 are positive.
ASSUME BoundsAssumption ==
  /\ Capacity \in Nat \ {0}
  /\ Step \in Nat \ {0}
  /\ Word \in Nat \ {0}
  /\ ExitWindow \in BOOLEAN
  /\ None \notin Nat

\* Amounts are uint64; a sum is taken modulo Word.
Total(outpoints) == SumFunctionOnSet(Amount, outpoints) % Word

-----------------------------------------------------------------------------
(* Change sets *)

\* The entries a change set takes out of the virtual's UTXO set.  An outpoint
\* whose transaction is accepted by another block has another DAA score: it is
\* taken out with the old one and put back with the new one.
ToRemove(e) ==
  {o \in DOMAIN VirtualUTXO[e.from] :
     o \in DOMAIN VirtualUTXO[e.to] =>
        VirtualUTXO[e.from][o] # VirtualUTXO[e.to][o]}

ToAdd(e) == ToRemove([from |-> e.to, to |-> e.from])

\* store.add: an outpoint staged for removal is only taken off that list.
StagedToRemove(e) == ToRemove(e) \ ToAdd(e)

StagedToAdd(e) == ToAdd(e) \ ToRemove(e)

-----------------------------------------------------------------------------
(* Consensus and the node around the index *)

\* Goroutines other than the one that panicked run on until the process ends,
\* or are taken not to.
Alive == node = "running" \/ (ExitWindow /\ node = "exiting")

NoReset == [phase |-> "none", at |-> None, from |-> 0]

\* A panic is logged, and then the process exits.
Panic == node' = "exiting"

\* A block moves the virtual.  The change set is sent after the block is
\* committed, and a full channel is an error that the caller panics on.
ValidateAndInsertBlock(v) ==
  /\ Alive
  /\ v > virtual
  /\ virtual' = v
  /\ \/ /\ Len(events) < Capacity
        /\ events' = Append(events, [from |-> virtual, to |-> v])
        /\ UNCHANGED node
     \/ /\ Len(events) = Capacity
        /\ Panic
        /\ UNCHANGED events
  /\ UNCHANGED <<db, reset, replayed, crashes>>

\* IBD with a headers proof replaces the consensus and calls Reset.  Blocks are
\* not relayed during the minutes it takes before that, so the channel is empty.
CommitStagingConsensus(v) ==
  /\ Alive
  /\ reset = NoReset
  /\ events = <<>>
  /\ v > virtual
  /\ virtual' = v
  /\ reset' = [NoReset EXCEPT !.phase = "parents"]
  /\ UNCHANGED <<events, db, node, replayed, crashes>>

\* UTXOIndex.Update, under the index's mutex and in one database transaction.
Update ==
  /\ Alive
  /\ reset = NoReset
  /\ events # <<>>
  /\ LET e == Head(events)
         kept == DOMAIN entries \ StagedToRemove(e)
     IN  /\ entries' = [o \in kept \cup StagedToAdd(e) |->
                          IF o \in StagedToAdd(e) THEN VirtualUTXO[e.to][o]
                                                  ELSE entries[o]]
         /\ parents' = e.to
         /\ supply' = (supply + Total(StagedToAdd(e)) - Total(StagedToRemove(e))) % Word
  /\ events' = Tail(events)
  /\ UNCHANGED <<virtual, node, reset, replayed, crashes>>

-----------------------------------------------------------------------------
(* Reset, write by write *)

\* deleteAll starts with the mark that the index is synced.
DeleteVirtualParents ==
  /\ reset.phase = "parents"
  /\ parents' = None
  /\ reset' = [reset EXCEPT !.phase = "supply"]
  /\ UNCHANGED <<virtual, events, entries, supply, node, replayed, crashes>>

DeleteCirculatingSupply ==
  /\ reset.phase = "supply"
  /\ supply' = None
  /\ reset' = [reset EXCEPT !.phase = "entries"]
  /\ UNCHANGED <<virtual, events, entries, parents, node, replayed, crashes>>

DeleteEntry ==
  /\ reset.phase = "entries"
  /\ entries # <<>>
  /\ entries' = Restrict(entries, DOMAIN entries \ {Min(DOMAIN entries)})
  /\ UNCHANGED <<virtual, events, parents, supply, node, reset, replayed, crashes>>

\* Mutant: the index is marked as synced before the outpoints are copied.
MarkBeforeCopy ==
  /\ reset.phase = "entries"
  /\ entries = <<>>
  /\ supply' = 0
  /\ parents' = virtual
  /\ reset' = [phase |-> "copy", at |-> virtual, from |-> 0]
  /\ replayed' = (events # <<>>)
  /\ UNCHANGED <<virtual, events, entries, node, crashes>>

\* GetVirtualInfo, then initializeCirculatingSompiSupply.
ReadVirtualInfo ==
  /\ reset.phase = "entries"
  /\ entries = <<>>
  /\ supply' = Total(DOMAIN entries)
  /\ reset' = [phase |-> "copy", at |-> virtual, from |-> 0]
  /\ replayed' = (events # <<>>)
  /\ UNCHANGED <<virtual, events, entries, parents, node, crashes>>

\* Mutant: the outpoint the last step ended with is read again.
VirtualUTXOsFromIncluded(from) ==
  LET later == {o \in DOMAIN VirtualUTXO[virtual] : o >= from}
  IN  {o \in later : Cardinality({p \in later : p < o}) < Step}

\* VirtualUTXOs: the next Step outpoints in key order, after `from`.
VirtualUTXOs(from) ==
  LET later == {o \in DOMAIN VirtualUTXO[virtual] : o > from}
  IN  {o \in later : Cardinality({p \in later : p < o}) < Step}

\* GetVirtualUTXOs still finds the virtual Reset started from.
ExpectedVirtualParents == virtual = reset.at

CopyOutpoints ==
  /\ reset.phase = "copy"
  /\ ExpectedVirtualParents
  /\ \E outpoints \in {VirtualUTXOs(reset.from)} :
       /\ entries' = [o \in DOMAIN entries \cup outpoints |->
                        IF o \in outpoints THEN VirtualUTXO[virtual][o] ELSE entries[o]]
       /\ supply' = (supply + Total(outpoints)) % Word
       /\ reset' = IF Cardinality(outpoints) < Step
                     THEN [reset EXCEPT !.phase = "mark"]
                     ELSE [reset EXCEPT !.from = Max(outpoints)]
  /\ UNCHANGED <<virtual, events, parents, node, replayed, crashes>>

\* Otherwise Reset returns an error that is no protocol error, and the flow
\* panics.
ResetFails ==
  /\ reset.phase = "copy"
  /\ ~ExpectedVirtualParents
  /\ Panic
  /\ reset' = NoReset
  /\ UNCHANGED <<virtual, events, db, replayed, crashes>>

\* The last write of Reset marks the index as synced.
UpdateVirtualParents ==
  /\ reset.phase = "mark"
  /\ parents' = reset.at
  /\ reset' = NoReset
  /\ node' = IF node = "starting" THEN "running" ELSE node
  /\ UNCHANGED <<virtual, events, entries, supply, replayed, crashes>>

-----------------------------------------------------------------------------
(* Start, crash, exit *)

\* Mutant: any mark counts.
HasVirtualParents == parents # None

IsSynced == parents = virtual

\* New: an index that is not synced, or of a version that did not keep the
\* supply, is rebuilt before any block can be added.
New ==
  /\ node = "down"
  /\ \/ /\ IsSynced
        /\ supply # None
        /\ node' = "running"
        /\ UNCHANGED reset
     \/ /\ ~IsSynced \/ supply = None
        /\ node' = "starting"
        /\ reset' = [NoReset EXCEPT !.phase = "parents"]
  /\ UNCHANGED <<virtual, events, db, replayed, crashes>>

\* What is in memory is lost.
Stop ==
  /\ node' = "down"
  /\ events' = <<>>
  /\ reset' = NoReset
  /\ UNCHANGED <<virtual, db, replayed>>

Crash ==
  /\ node # "down"
  /\ crashes < MaxCrashes
  /\ crashes' = crashes + 1
  /\ Stop

\* The end of a panic.
Exit ==
  /\ node = "exiting"
  /\ Stop
  /\ UNCHANGED crashes

-----------------------------------------------------------------------------

\* A first start, or the first start after an upgrade from a version that did
\* not keep the supply.
Init ==
  /\ virtual = 0
  /\ events = <<>>
  /\ \/ entries = <<>> /\ parents = None
     \/ entries = VirtualUTXO[0] /\ parents = 0
  /\ supply = None
  /\ node = "down"
  /\ reset = NoReset
  /\ replayed = FALSE
  /\ crashes = 0

ResetStep ==
  /\ Alive \/ node = "starting"
  /\ \/ DeleteVirtualParents
     \/ DeleteCirculatingSupply
     \/ DeleteEntry
     \/ ReadVirtualInfo
     \/ CopyOutpoints
     \/ ResetFails
     \/ UpdateVirtualParents

Next ==
  \/ \E v \in Virtual : ValidateAndInsertBlock(v)
  \/ \E v \in Virtual : CommitStagingConsensus(v)
  \/ Update
  \/ ResetStep
  \/ New
  \/ Crash
  \/ Exit

\* The goroutine that reads the channel and the one inside Reset keep running,
\* a panic ends the process, and the node is started again.
Spec ==
  /\ Init
  /\ [][Next]_vars
  /\ WF_vars(Update)
  /\ WF_vars(ResetStep)
  /\ WF_vars(New)
  /\ WF_vars(Exit)

-----------------------------------------------------------------------------
(* Properties *)

\* The types of the database keys and of the variables of Reset, and that
\* outside Reset a running node has both keys: Update reads the supply without
\* checking that it is there.
TypeOK ==
  /\ virtual \in Virtual
  /\ events \in Seq([from : Virtual, to : Virtual])
  /\ Len(events) <= Capacity
  /\ DOMAIN entries \subseteq Outpoint
  /\ parents \in Virtual \cup {None}
  /\ supply \in 0..(Word - 1) \cup {None}
  /\ node \in {"down", "starting", "running", "exiting"}
  /\ reset.phase \in {"none", "parents", "supply", "entries", "copy", "mark"}
  /\ reset.at \in Virtual \cup {None}
  /\ reset.from \in Outpoint \cup {0}
  /\ replayed \in BOOLEAN
  /\ Alive /\ reset = NoReset => parents # None /\ supply # None

SameOutpoints(v) == DOMAIN entries = DOMAIN VirtualUTXO[v]

\* isSynced compares nothing but the parents: an index whose parents are those
\* of the virtual holds the outpoints of the virtual, whatever crashes, moves of
\* the virtual and change sets queued before a Reset came in between.
SyncedMeansSameOutpoints ==
  /\ TypeOK
  /\ parents = virtual => SameOutpoints(virtual)

\* UTXOs and GetCirculatingSompiSupply, which take the index's mutex, see the
\* outpoints and the supply of one virtual, the one whose parents are stored:
\* never a half-built index and never half of a change set.  Change sets that
\* were in the channel when Reset read the virtual are left out here.
ReadersSeeOneVirtual ==
  Alive /\ reset = NoReset /\ ~replayed =>
    /\ SameOutpoints(parents)
    /\ supply = Total(DOMAIN VirtualUTXO[parents])

\* Once the virtual and the crashes stop, the index reaches the virtual and
\* stays there: no change set is lost without a rebuild.
IndexCatchesUp == <>[](parents = virtual /\ SameOutpoints(virtual))
=============================================================================
