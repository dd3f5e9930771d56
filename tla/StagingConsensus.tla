-------------------------- MODULE StagingConsensus --------------------------
(***************************************************************************)
(* The two consensus databases of the node: domain.go, prefixmanager,      *)
(* migrate.go and the part of IBD that builds a consensus from a pruning   *)
(* point proof.  The database keeps the data of a consensus under one of   *)
(* two prefixes and two keys that name the active and the inactive prefix. *)
(* A flow that syncs from a proof fills the inactive prefix, swaps the two *)
(* keys in one transaction, deletes the old data key by key and only then  *)
(* moves the pointer that everyone else reads the consensus through.       *)
(*                                                                         *)
(* The data of a consensus is a set of <<generation, part>>; the process   *)
(* may stop between any two writes.                                        *)
(***************************************************************************)
EXTENDS Naturals

CONSTANTS Peers,                \* each has a HandleIBD flow
          Readers,              \* other goroutines that use the consensus
          None,
          MaxGen,               \* bound on the consensuses committed
          MaxCrashes            \* bound on the crashes and the fatal errors

Main == "main"
Prefixes == {0, 1}

(* The parts of a consensus in the order in which IBD with a headers proof *)
(* writes them.                                                            *)
Stages == {"proof", "points", "anticone", "headers", "utxo"}
Parts == Stages \cup {"init", "old", "bodies"}
NextStage == [proof |-> "points", points |-> "anticone", anticone |-> "headers",
              headers |-> "utxo", utxo |-> "commit"]

(* Without these NewConsensus fails and every read of the virtual fails.   *)
Required == {"init", "headers", "utxo"}

VARIABLES active, inactive,     \* the two keys of prefixmanager
          data,                 \* prefix -> the pairs stored under it
          gen,                  \* the generation last committed
          consensus, staging,   \* the pointers of the domain (prefixes)
          lock,                 \* stagingConsensusLock held for writing
          ibdPeer,              \* FlowContext.ibdPeer
          at,                   \* where each goroutine is
          held,                 \* the consensus a reader works against
          crashes

db == <<active, inactive, data>>
pointers == <<consensus, staging>>
vars == <<active, inactive, data, gen, consensus, staging, lock, ibdPeer, at, held, crashes>>

Flows == Peers \cup {Main}

(* The goroutines are distinct from one another and from None.             *)
ASSUME GoroutinesAssumption ==
    /\ None \notin Prefixes
    /\ None \notin Flows \cup Readers
    /\ Main \notin Peers \cup Readers
    /\ Peers \cap Readers = {}

Generations(S) == {pair[1] : pair \in S}
Whole(S) == \E g \in Generations(S) : \A part \in Required : <<g, part>> \in S

(* prefix.Flip *)
Flip(p) == 1 - p

Go(f, label) == at' = [at EXCEPT ![f] = label]

(* A flow that returns an error which is no protocol error makes           *)
(* FlowContext.HandleError panic; deferred calls run first, so the IBD     *)
(* flag and the lock are free again.  Other goroutines run until the       *)
(* process exits.                                                          *)
Panic(f) ==
    /\ Go(f, "dead")
    /\ ibdPeer' = IF ibdPeer = f THEN None ELSE ibdPeer
    /\ lock' = IF lock = f THEN None ELSE lock

Init ==
    /\ \/ active = None /\ data = [p \in Prefixes |-> {}] /\ gen = 0
       \/ active = 0 /\ gen = 1       \* a database of an older version
          /\ data = [p \in Prefixes |->
                IF p = 0 THEN {<<1, part>> : part \in Required \cup {"old"}} ELSE {}]
    /\ inactive = None
    /\ consensus = None /\ staging = None
    /\ lock = None /\ ibdPeer = None
    /\ at = [f \in Flows \cup Readers |-> IF f = Main THEN "delete" ELSE "off"]
    /\ held = [r \in Readers |-> None]
    /\ crashes = 0

-----------------------------------------------------------------------------
(* DeleteInactivePrefix, in New, CommitStagingConsensus and                *)
(* DeleteStagingConsensus: the keys of the prefix one by one, then the key *)
(* that names it.                                                          *)

(* Mutant: the keys of the wrong prefix are deleted.                       *)
DeleteActiveKey(f) ==
    /\ at[f] \in {"delete", "purge", "drop"}
    /\ inactive # None
    /\ \E key \in data[active] : data' = [data EXCEPT ![active] = @ \ {key}]
    /\ UNCHANGED <<active, inactive, gen, pointers, lock, ibdPeer, at, held, crashes>>

DeleteKey(f) ==
    /\ at[f] \in {"delete", "purge", "drop"}
    /\ inactive # None
    /\ \E key \in data[inactive] : data' = [data EXCEPT ![inactive] = @ \ {key}]
    /\ UNCHANGED <<active, inactive, gen, pointers, lock, ibdPeer, at, held, crashes>>

(* Mutant: the key that names the prefix is deleted before its data.       *)
DeletePrefixKeyFirst(f) ==
    /\ at[f] \in {"delete", "purge", "drop"}
    /\ inactive' = None
    /\ UNCHANGED <<active, data, gen, held, crashes>>
    /\ \/ /\ at[f] = "delete"
          /\ Go(f, "load")
          /\ UNCHANGED <<pointers, lock, ibdPeer>>
       \/ /\ at[f] = "purge"
          /\ Go(f, "swap")
          /\ UNCHANGED <<pointers, lock, ibdPeer>>
       \/ /\ at[f] = "drop"
          /\ staging' = None
          /\ lock' = None
          /\ ibdPeer' = None
          /\ Go(f, "idle")
          /\ UNCHANGED consensus

DeleteInactivePrefix(f) ==
    /\ at[f] \in {"delete", "purge", "drop"}
    /\ inactive # None => data[inactive] = {}
    /\ inactive' = None
    /\ UNCHANGED <<active, data, gen, held, crashes>>
    /\ \/ /\ at[f] = "delete"
          /\ Go(f, "load")
          /\ UNCHANGED <<pointers, lock, ibdPeer>>
       \/ /\ at[f] = "purge"
          /\ Go(f, "swap")
          /\ UNCHANGED <<pointers, lock, ibdPeer>>
       \/ /\ at[f] = "drop"
          /\ staging' = None
          /\ lock' = None
          /\ ibdPeer' = None
          /\ Go(f, "idle")
          /\ UNCHANGED consensus

-----------------------------------------------------------------------------
(* New: the active prefix is set on the first start; NewConsensus stores   *)
(* the virtual genesis and the genesis in two commits unless the database  *)
(* has them, and fails on a consensus that has no virtual.  A database of  *)
(* an older version is migrated.                                           *)

SetPrefixAsActive ==
    /\ at[Main] = "load"
    /\ active = None
    /\ active' = 0
    /\ UNCHANGED <<inactive, data, gen, pointers, lock, ibdPeer, at, held, crashes>>

AddVirtualGenesis ==
    /\ at[Main] = "load"
    /\ active # None
    /\ data[active] = {}
    /\ data' = [data EXCEPT ![active] = {<<1, "init">>}]
    /\ gen' = 1
    /\ UNCHANGED <<active, inactive, pointers, lock, ibdPeer, at, held, crashes>>

AddGenesis ==
    /\ at[Main] = "load"
    /\ active # None
    /\ data[active] = {<<gen, "init">>}
    /\ data' = [data EXCEPT ![active] = {<<gen, part>> : part \in Required}]
    /\ UNCHANGED <<active, inactive, gen, pointers, lock, ibdPeer, at, held, crashes>>

NewConsensus ==
    /\ at[Main] = "load"
    /\ active # None
    /\ data[active] \notin {{}, {<<gen, "init">>}}
    /\ UNCHANGED <<db, gen, staging, held, crashes>>
    /\ \/ /\ Whole(data[active])
          /\ consensus' = active
          /\ \/ /\ <<gen, "old">> \in data[active]
                /\ Go(Main, "init")
             \/ /\ <<gen, "old">> \notin data[active]
                /\ at' = [f \in DOMAIN at |-> IF f = Main THEN "up" ELSE "idle"]
          /\ UNCHANGED <<lock, ibdPeer>>
       \/ /\ ~Whole(data[active])
          /\ Panic(Main)
          /\ UNCHANGED consensus

-----------------------------------------------------------------------------
(* HandleIBD: one flow at a time passes TrySetIBDRunning.  It syncs from a *)
(* headers proof, or on top of the consensus it has, or not at all.        *)

RunIBDIfNotRunning(f) ==
    /\ f \in Peers
    /\ at[f] = "idle"
    /\ ibdPeer = None
    /\ ibdPeer' = f
    /\ \/ gen < MaxGen /\ Go(f, "init")
       \/ Go(f, "bodies")
    /\ UNCHANGED <<db, gen, pointers, lock, held, crashes>>

(* initStagingConsensus: the prefix is named before anything is stored.    *)
InitStagingConsensus(f) ==
    /\ at[f] = "init"
    /\ lock = None
    /\ UNCHANGED <<active, data, gen, pointers, held, crashes>>
    /\ \/ /\ inactive = None
          /\ inactive' = Flip(active)
          /\ lock' = f
          /\ Go(f, "create")
          /\ UNCHANGED ibdPeer
       \/ /\ inactive # None
          /\ Panic(f)
          /\ UNCHANGED inactive

(* Mutant: the lock is not released once the staging consensus exists.     *)
CreateKeepsLock(f) ==
    /\ at[f] = "create"
    /\ staging' = inactive
    /\ lock' = f
    /\ \/ /\ data' = [data EXCEPT ![inactive] = @ \cup {<<gen + 1, "init">>}]
          /\ Go(f, "proof")
       \/ /\ f = Main          \* migrate when the pruning point is genesis
          /\ data' = [data EXCEPT ![inactive] = @ \cup {<<gen + 1, part>> : part \in Required}]
          /\ Go(f, "commit")
    /\ UNCHANGED <<active, inactive, gen, consensus, ibdPeer, held, crashes>>

CreateStagingConsensus(f) ==
    /\ at[f] = "create"
    /\ staging' = inactive
    /\ lock' = None
    /\ \/ /\ data' = [data EXCEPT ![inactive] = @ \cup {<<gen + 1, "init">>}]
          /\ Go(f, "proof")
       \/ /\ f = Main          \* migrate when the pruning point is genesis
          /\ data' = [data EXCEPT ![inactive] = @ \cup {<<gen + 1, part>> : part \in Required}]
          /\ Go(f, "commit")
    /\ UNCHANGED <<active, inactive, gen, consensus, ibdPeer, held, crashes>>

(* downloadHeadersAndPruningUTXOSet: each stage adds its part to the       *)
(* staging consensus.                                                      *)
Store(f, stage) ==
    /\ at[f] = stage
    /\ lock = None
    /\ staging # None
    /\ data' = [data EXCEPT ![staging] = @ \cup {<<gen + 1, stage>>}]
    /\ Go(f, NextStage[stage])
    /\ UNCHANGED <<active, inactive, gen, pointers, lock, ibdPeer, held, crashes>>

SyncAndValidatePruningPointProof(f) == f \in Peers /\ Store(f, "proof")

ValidateAndInsertPruningPoints(f) == f \in Peers /\ Store(f, "points")

SyncPruningPointAnticone(f) == f \in Peers /\ Store(f, "anticone")

SyncPruningPointFutureHeaders(f) == f \in Peers /\ Store(f, "headers")

SyncPruningPointUTXOSet(f) == f \in Peers /\ Store(f, "utxo")

(* When the peer has moved on from the pruning point, or the pruning point *)
(* violates finality, fetchMissingUTXOSet returns false and no error: the  *)
(* flow goes on without the UTXO set.                                      *)
GiveUpUTXOSet(f) ==
    /\ f \in Peers
    /\ at[f] = "utxo"
    /\ lock = None
    /\ staging # None
    /\ Go(f, NextStage["utxo"])
    /\ UNCHANGED <<db, gen, pointers, lock, ibdPeer, held, crashes>>

(* syncConsensuses: the same parts, copied from the old consensus.         *)
SyncConsensuses(f) == f = Main /\ \E stage \in Stages : Store(f, stage)

DownloadStage(f) ==
    \/ SyncAndValidatePruningPointProof(f)
    \/ ValidateAndInsertPruningPoints(f)
    \/ SyncPruningPointAnticone(f)
    \/ SyncPruningPointFutureHeaders(f)
    \/ SyncPruningPointUTXOSet(f)
    \/ GiveUpUTXOSet(f)
    \/ SyncConsensuses(f)

(* A protocol error or a closed route: the staging consensus is deleted.   *)
DeleteStagingConsensus(f) ==
    /\ at[f] \in Stages
    /\ f # Main
    /\ lock = None
    /\ lock' = f
    /\ Go(f, "drop")
    /\ UNCHANGED <<db, gen, pointers, ibdPeer, held, crashes>>

(* Any other error is returned as it is, with the staging consensus left   *)
(* where it is.                                                            *)
FatalError(f) ==
    /\ at[f] \in Stages \cup {"override", "bodies"}
    /\ crashes < MaxCrashes
    /\ crashes' = crashes + 1
    /\ Panic(f)
    /\ UNCHANGED <<db, gen, pointers, held>>

(* CommitStagingConsensus: the transaction ...                             *)
CommitKeepsInactive(f) ==
    /\ at[f] = "commit"
    /\ lock = None
    /\ inactive # None
    /\ active' = inactive
    /\ inactive' = inactive
    /\ gen' = gen + 1
    /\ lock' = f
    /\ Go(f, "purge")
    /\ UNCHANGED <<data, pointers, ibdPeer, held, crashes>>
CommitStagingConsensus(f) ==
    /\ at[f] = "commit"
    /\ lock = None
    /\ inactive # None
    /\ active' = inactive
    /\ inactive' = active
    /\ gen' = gen + 1
    /\ lock' = f
    /\ Go(f, "purge")
    /\ UNCHANGED <<data, pointers, ibdPeer, held, crashes>>

(* Mutant: the pointer to the consensus stays where it was.                *)
SwapForgets(f) ==
    /\ at[f] = "swap"
    /\ consensus' = consensus
    /\ staging' = None
    /\ lock' = None
    /\ IF f = Main
          THEN at' = [g \in DOMAIN at |-> IF g = Main THEN "up" ELSE "idle"]
          ELSE Go(f, "override")
    /\ UNCHANGED <<db, gen, ibdPeer, held, crashes>>

(* ... and, once the old data is deleted, the pointers.                    *)
SwapPointers(f) ==
    /\ at[f] = "swap"
    /\ consensus' = staging
    /\ staging' = None
    /\ lock' = None
    /\ IF f = Main
          THEN at' = [g \in DOMAIN at |-> IF g = Main THEN "up" ELSE "idle"]
          ELSE Go(f, "override")
    /\ UNCHANGED <<db, gen, ibdPeer, held, crashes>>

(* OnPruningPointUTXOSetOverride resets the UTXO index.                    *)
Override(f) ==
    /\ at[f] = "override"
    /\ Go(f, "bodies")
    /\ UNCHANGED <<db, gen, pointers, lock, ibdPeer, held, crashes>>

(* syncMissingBlockBodies on the consensus of the domain; the deferred     *)
(* UnsetIBDRunning ends the IBD.                                           *)
SyncMissingBlockBodies(f) ==
    /\ at[f] = "bodies"
    /\ ibdPeer' = None
    /\ UNCHANGED <<active, inactive, gen, pointers, held, crashes>>
    /\ \/ /\ Whole(data[consensus])
          /\ data' = [data EXCEPT ![consensus] = @ \cup {<<gen, "bodies">>}]
          /\ Go(f, "idle")
          /\ UNCHANGED lock
       \/ /\ ~Whole(data[consensus])
          /\ Go(f, "dead")
          /\ UNCHANGED <<data, lock>>
       \/ /\ Go(f, "idle")      \* a protocol error ends it early
          /\ UNCHANGED <<data, lock>>

-----------------------------------------------------------------------------
(* Other goroutines take the pointer once and work against it.             *)
TakeConsensus(r) ==
    /\ at[r] = "idle"
    /\ consensus # None
    /\ held' = [held EXCEPT ![r] = consensus]
    /\ Go(r, "reading")
    /\ UNCHANGED <<db, gen, pointers, lock, ibdPeer, crashes>>

UseConsensus(r) ==
    /\ at[r] = "reading"
    /\ held' = [held EXCEPT ![r] = None]
    /\ Go(r, IF Whole(data[held[r]]) THEN "idle" ELSE "dead")
    /\ UNCHANGED <<db, gen, pointers, lock, ibdPeer, crashes>>

(* The process ends, by itself or after a panic; what is in memory is lost. *)
Stop ==
    /\ consensus' = None /\ staging' = None
    /\ lock' = None /\ ibdPeer' = None
    /\ at' = [f \in DOMAIN at |-> IF f = Main THEN "delete" ELSE "off"]
    /\ held' = [r \in Readers |-> None]
    /\ UNCHANGED <<db, gen>>

Crash ==
    /\ crashes < MaxCrashes
    /\ crashes' = crashes + 1
    /\ Stop

Exit ==
    /\ \E f \in DOMAIN at : at[f] = "dead"
    /\ UNCHANGED crashes
    /\ Stop

FlowStep(f) ==
    \/ DeleteKey(f) \/ DeleteInactivePrefix(f)
    \/ InitStagingConsensus(f) \/ CreateStagingConsensus(f) \/ DownloadStage(f)
    \/ CommitStagingConsensus(f) \/ SwapPointers(f)
    \/ Override(f) \/ SyncMissingBlockBodies(f)

LoadStep == SetPrefixAsActive \/ AddVirtualGenesis \/ AddGenesis \/ NewConsensus

Next ==
    \/ \E f \in Flows : FlowStep(f)
    \/ LoadStep
    \/ \E f \in Peers : RunIBDIfNotRunning(f)
    \/ \E f \in Flows : DeleteStagingConsensus(f) \/ FatalError(f)
    \/ \E r \in Readers : TakeConsensus(r) \/ UseConsensus(r)
    \/ Crash \/ Exit

(* Goroutines that can run do run, and a process that panicked exits.      *)
Fairness ==
    /\ \A f \in Flows : WF_vars(FlowStep(f))
    /\ WF_vars(LoadStep)
    /\ WF_vars(Exit)

Spec == Init /\ [][Next]_vars

FairSpec == Spec /\ Fairness
-----------------------------------------------------------------------------

(* No data is left behind: whatever the database holds belongs to the       *)
(* active prefix or to the one that the inactive key names, so that the     *)
(* next start finds and deletes it (DeleteInactivePrefix in domain.New).    *)
NothingLeftBehind ==
    \A p \in Prefixes : data[p] # {} => p \in {active, inactive}

(* The active prefix holds the data of one consensus and of nothing else,   *)
(* whatever was synced, deleted or interrupted under the other one.         *)
ActiveIsOneConsensus ==
    /\ active # None => data[active] \subseteq ({gen} \X Parts)
    /\ inactive # None => inactive # active

(* The peer moved on from the pruning point while its UTXO set was fetched: *)
(* a consensus without UTXO set was committed.                              *)
CommittedWithoutUTXOSet ==
    active # None /\ \E g \in 1 .. gen :
        <<g, "headers">> \in data[active] /\ <<g, "utxo">> \notin data[active]

(* Whoever takes the consensus of the domain gets a whole one, except while *)
(* CommitStagingConsensus deletes the old data before it moves the pointer, *)
(* and after the commit of a consensus without UTXO set.                    *)
ServedConsensusIsWhole ==
    consensus # None =>
        \/ Whole(data[consensus])
        \/ \E f \in Flows : at[f] \in {"purge", "swap"} /\ lock = f
        \/ CommittedWithoutUTXOSet

(* After a crash or a panic the node comes up again: every other database   *)
(* that the process can leave behind is one that domain.New opens.          *)
NodeComesUp == at[Main] = "delete" ~> (at[Main] = "up" \/ CommittedWithoutUTXOSet)

(* The generation that a start of the node would serve.                     *)
Serves ==
    IF active = None THEN 0
    ELSE IF data[active] = {} THEN 0
    ELSE CHOOSE g \in Generations(data[active]) : TRUE

(* The consensus database, with its two prefixes, interrupted deletions and *)
(* restarts, implements the one consensus of NodeConsensus.                 *)
Node == INSTANCE NodeConsensus WITH serving <- Serves, up <- at[Main] = "up"
OneConsensus == Node!Spec
=============================================================================
