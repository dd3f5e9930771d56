----------------------- MODULE StagingConsensusProofs -----------------------
(***************************************************************************)
(* The consensus database of StagingConsensus implements the one consensus *)
(* of NodeConsensus, for any number of peers, readers, crashes and synced  *)
(* consensuses.                                                            *)
(***************************************************************************)
EXTENDS StagingConsensus, TLAPS

(* What a flow has to do while it is syncing a consensus.                  *)
Filling == Stages \cup {"commit"}
Working == {"init", "create", "purge", "swap", "drop", "override", "bodies"} \cup Filling

(* Types, without the bounds of the runs.                                  *)
Types ==
    /\ active \in Prefixes \cup {None}
    /\ inactive \in Prefixes \cup {None}
    /\ data \in [Prefixes -> SUBSET (Nat \X Parts)]
    /\ gen \in Nat
    /\ consensus \in Prefixes \cup {None}
    /\ staging \in Prefixes \cup {None}
    /\ DOMAIN at = Flows \cup Readers

(* The two keys name different prefixes, and nothing else has data.        *)
Keys ==
    /\ inactive # None => active # None /\ inactive # active
    /\ \A p \in Prefixes : data[p] # {} => p = active \/ p = inactive

(* The active prefix holds one generation.                                 *)
ActiveData ==
    \A p \in Prefixes : p = active => \A key \in data[p] : key[1] = gen /\ gen > 0

(* Until the node is up only the main goroutine runs; after that only the  *)
(* flow that holds the IBD flag works on a consensus.                      *)
Owner ==
    /\ at[Main] # "up" => \A f \in Peers \cup Readers : at[f] = "off"
    /\ \A f \in Peers : at[f] \in Working => ibdPeer = f
    /\ \A f \in Peers : at[f] \notin {"delete", "load"}
    /\ \A r \in Readers : at[r] \in {"off", "idle", "reading", "dead"}
    /\ at[Main] \notin {"drop", "override", "bodies", "idle"}
    /\ at[Main] = "load" => inactive = None

(* What the flow at work relies on.                                        *)
Progress ==
    \A f \in Flows :
        /\ at[f] \in Working => active # None
        /\ at[f] = "create" => inactive # None /\ data[inactive] = {}
        /\ at[f] \in Filling =>
              /\ inactive # None
              /\ staging = inactive
              /\ <<gen + 1, "init">> \in data[inactive]
              /\ \A key \in data[inactive] : key[1] = gen + 1
        /\ at[f] \in {"purge", "swap"} => staging = active
        /\ at[f] = "bodies" \/ at[f] = "override" => consensus = active

(* A node that is up serves the active prefix once no commit is under way. *)
Serving ==
    /\ at[Main] = "up" => active # None /\ data[active] # {}
    /\ at[Main] = "up" /\ (\A f \in Peers : at[f] \notin {"purge", "swap"})
          => consensus = active
    /\ \A f \in Flows : at[f] \in Working => data[active] # {}

IInv == Types /\ Keys /\ ActiveData /\ Owner /\ Progress /\ Serving

-----------------------------------------------------------------------------
(* The databases a first start can find satisfy the invariant.             *)
LEMMA InitIInv == Init => IInv
<1> USE GoroutinesAssumption DEF Init, Prefixes, Flows, Main
<1> HAVE Init
<1>1. Types BY DEF Types, Parts, Required, Stages
<1>2. Keys BY DEF Keys
<1>3. ActiveData BY DEF ActiveData
<1>4. Owner BY DEF Owner, Working, Filling, Stages
<1>5. Progress BY DEF Progress, Working, Filling, Stages
<1>6. Serving BY DEF Serving, Working, Filling, Stages
<1> QED BY <1>1, <1>2, <1>3, <1>4, <1>5, <1>6 DEF IInv

(* DeleteKey: deleting one key of the inactive prefix preserves the invariant.  *)
LEMMA DeleteKeyStep ==
    ASSUME IInv, NEW f \in Flows, DeleteKey(f)
    PROVE  IInv'
<1> USE GoroutinesAssumption DEF Prefixes, Flows, Main, IInv, DeleteKey, Go, Panic, pointers, db
<1>1. Types' BY DEF Types, Keys, Progress, Parts, Stages, Required, Filling, Flip
<1>2. Keys' BY DEF Types, Keys, Progress, Filling, Flip
<1>3. ActiveData' BY DEF Types, Keys, ActiveData, Progress, Filling, Stages
<1>4. Owner' BY DEF Types, Owner, Working, Filling, Stages, NextStage
<1>5. Progress' BY DEF Types, Keys, Owner, Progress, Serving, Working, Filling, Stages, NextStage, Flip
<1>6. Serving' BY DEF Types, Keys, Owner, Progress, Serving, Working, Filling, Stages, NextStage, Flip
<1> QED BY <1>1, <1>2, <1>3, <1>4, <1>5, <1>6

(* DeleteInactivePrefix: deleting the name of the emptied prefix preserves the invariant.  *)
LEMMA DeleteInactivePrefixStep ==
    ASSUME IInv, NEW f \in Flows, DeleteInactivePrefix(f)
    PROVE  IInv'
<1> USE GoroutinesAssumption DEF Prefixes, Flows, Main, IInv, DeleteInactivePrefix, Go, Panic, pointers, db
<1>1. Types' BY DEF Types, Keys, Progress, Parts, Stages, Required, Filling, Flip
<1>2. Keys' BY DEF Types, Keys, Progress, Filling, Flip
<1>3. ActiveData' BY DEF Types, Keys, ActiveData, Progress, Filling, Stages
<1>4. Owner' BY DEF Types, Owner, Working, Filling, Stages, NextStage
<1>5. Progress' BY DEF Types, Keys, Owner, Progress, Serving, Working, Filling, Stages, NextStage, Flip
<1>6. Serving' BY DEF Types, Keys, Owner, Progress, Serving, Working, Filling, Stages, NextStage, Flip
<1> QED BY <1>1, <1>2, <1>3, <1>4, <1>5, <1>6

(* InitStagingConsensus: naming the prefix of a staging consensus preserves the invariant.  *)
LEMMA InitStagingConsensusStep ==
    ASSUME IInv, NEW f \in Flows, InitStagingConsensus(f)
    PROVE  IInv'
<1> USE GoroutinesAssumption DEF Prefixes, Flows, Main, IInv, InitStagingConsensus, Go, Panic, pointers, db
<1>1. Types' BY DEF Types, Progress, Working, Flip
<1>2. Keys' BY DEF Types, Keys, Progress, Working, Flip
<1>3. ActiveData' BY DEF Types, Keys, ActiveData, Progress, Filling, Stages
<1>4. Owner' BY DEF Types, Owner, Working, Filling, Stages, NextStage
<1>5. Progress' BY DEF Types, Keys, Owner, Progress, Serving, Working, Filling, Stages, NextStage, Flip
<1>6. Serving' BY DEF Types, Keys, Owner, Progress, Serving, Working, Filling, Stages, NextStage, Flip
<1> QED BY <1>1, <1>2, <1>3, <1>4, <1>5, <1>6

(* CreateStagingConsensus: creating the staging consensus preserves the invariant.  *)
LEMMA CreateStagingConsensusStep ==
    ASSUME IInv, NEW f \in Flows, CreateStagingConsensus(f)
    PROVE  IInv'
<1> USE GoroutinesAssumption DEF Prefixes, Flows, Main, IInv, CreateStagingConsensus, Go, Panic, pointers, db
<1>1. Types' BY DEF Types, Keys, Progress, Parts, Stages, Required, Filling, Flip
<1>2. Keys' BY DEF Types, Keys, Progress, Filling, Flip
<1>3. ActiveData' BY DEF Types, Keys, ActiveData, Progress, Filling, Stages
<1>4. Owner' BY DEF Types, Owner, Working, Filling, Stages, NextStage
<1>5. Progress' BY DEF Types, Keys, Owner, Progress, Serving, Working, Filling, Stages, Required
<1>6. Serving' BY DEF Types, Keys, Owner, Progress, Serving, Working, Filling, Stages, NextStage, Flip
<1> QED BY <1>1, <1>2, <1>3, <1>4, <1>5, <1>6

(* Every stage of a sync, from a peer or from the old consensus, adds its  *)
(* part to the staging consensus, or leaves the UTXO set out.              *)
OneStage(f) ==
    /\ at[f] \in Stages
    /\ lock = None
    /\ staging # None
    /\ \/ data' = [data EXCEPT ![staging] = @ \cup {<<gen + 1, at[f]>>}]
       \/ at[f] = "utxo" /\ UNCHANGED data
    /\ Go(f, NextStage[at[f]])
    /\ UNCHANGED <<active, inactive, gen, pointers, lock, ibdPeer, held, crashes>>

(* DownloadStage: whichever function runs it, a stage is OneStage.         *)
LEMMA DownloadIsOneStage ==
    ASSUME NEW f \in Flows, DownloadStage(f)
    PROVE  OneStage(f)
BY DEF DownloadStage, OneStage, Store, Stages, SyncAndValidatePruningPointProof,
       ValidateAndInsertPruningPoints, SyncPruningPointAnticone, SyncPruningPointFutureHeaders,
       SyncPruningPointUTXOSet, GiveUpUTXOSet, SyncConsensuses, db

(* DownloadStage: a stage of the sync preserves the invariant.  *)
LEMMA DownloadStageStep ==
    ASSUME IInv, NEW f \in Flows, DownloadStage(f)
    PROVE  IInv'
<1> USE GoroutinesAssumption, DownloadIsOneStage DEF Prefixes, Flows, Main, IInv, OneStage, Go, Panic, pointers, db
<1>1. Types'
  <2>1. OneStage(f)
    BY DownloadIsOneStage
  <2>2. <<gen + 1, at[f]>> \in Nat \X Parts
    BY <2>1 DEF Types, Parts
  <2> QED
    BY <2>1, <2>2 DEF Types
<1>2. Keys' BY DEF Types, Keys, Progress, Filling, Flip
<1>3. ActiveData' BY DEF Types, Keys, ActiveData, Progress, Filling, Stages
<1>4. Owner' BY DEF Types, Owner, Working, Filling, Stages, NextStage
<1>5. Progress' BY DEF Types, Keys, Owner, Progress, Serving, Working, Filling, Stages, NextStage, Flip
<1>6. Serving' BY DEF Types, Keys, Owner, Progress, Serving, Working, Filling, Stages, NextStage, Flip
<1> QED BY <1>1, <1>2, <1>3, <1>4, <1>5, <1>6

(* DeleteStagingConsensus: starting to delete the staging consensus preserves the invariant.  *)
LEMMA DeleteStagingConsensusStep ==
    ASSUME IInv, NEW f \in Flows, DeleteStagingConsensus(f)
    PROVE  IInv'
<1> USE GoroutinesAssumption DEF Prefixes, Flows, Main, IInv, DeleteStagingConsensus, Go, Panic, pointers, db
<1>1. Types' BY DEF Types, Keys, Progress, Parts, Stages, Required, Filling, Flip
<1>2. Keys' BY DEF Types, Keys, Progress, Filling, Flip
<1>3. ActiveData' BY DEF Types, Keys, ActiveData, Progress, Filling, Stages
<1>4. Owner' BY DEF Types, Owner, Working, Filling, Stages, NextStage
<1>5. Progress' BY DEF Types, Keys, Owner, Progress, Serving, Working, Filling, Stages, NextStage, Flip
<1>6. Serving' BY DEF Types, Keys, Owner, Progress, Serving, Working, Filling, Stages, NextStage, Flip
<1> QED BY <1>1, <1>2, <1>3, <1>4, <1>5, <1>6

(* FatalError: a fatal error preserves the invariant.  *)
LEMMA FatalErrorStep ==
    ASSUME IInv, NEW f \in Flows, FatalError(f)
    PROVE  IInv'
<1> USE GoroutinesAssumption DEF Prefixes, Flows, Main, IInv, FatalError, Go, Panic, pointers, db
<1>1. Types' BY DEF Types, Keys, Progress, Parts, Stages, Required, Filling, Flip
<1>2. Keys' BY DEF Types, Keys, Progress, Filling, Flip
<1>3. ActiveData' BY DEF Types, Keys, ActiveData, Progress, Filling, Stages
<1>4. Owner' BY DEF Types, Owner, Working, Filling, Stages, NextStage
<1>5. Progress' BY DEF Types, Keys, Owner, Progress, Serving, Working, Filling, Stages, NextStage, Flip
<1>6. Serving' BY DEF Types, Keys, Owner, Progress, Serving, Working, Filling, Stages, NextStage, Flip
<1> QED BY <1>1, <1>2, <1>3, <1>4, <1>5, <1>6

(* CommitStagingConsensus: the transaction that swaps the keys preserves the invariant.  *)
LEMMA CommitStagingConsensusStep ==
    ASSUME IInv, NEW f \in Flows, CommitStagingConsensus(f)
    PROVE  IInv'
<1> USE GoroutinesAssumption DEF Prefixes, Flows, Main, IInv, CommitStagingConsensus, Go, Panic, pointers, db
<1>1. Types' BY DEF Types, Keys, Progress, Parts, Stages, Required, Filling, Flip
<1>2. Keys' BY DEF Types, Keys, Progress, Filling, Flip
<1>3. ActiveData' BY DEF Types, Keys, ActiveData, Progress, Filling, Stages
<1>4. Owner' BY DEF Types, Owner, Working, Filling, Stages, NextStage
<1>5. Progress' BY DEF Types, Keys, Owner, Progress, Serving, Working, Filling, Stages, NextStage, Flip
<1>6. Serving' BY DEF Types, Keys, Owner, Progress, Serving, Working, Filling, Stages, NextStage, Flip
<1> QED BY <1>1, <1>2, <1>3, <1>4, <1>5, <1>6

(* SwapPointers: moving the pointers of the domain preserves the invariant.  *)
LEMMA SwapPointersStep ==
    ASSUME IInv, NEW f \in Flows, SwapPointers(f)
    PROVE  IInv'
<1> USE GoroutinesAssumption DEF Prefixes, Flows, Main, IInv, SwapPointers, Go, Panic, pointers, db
<1>1. Types' BY DEF Types, Keys, Progress, Parts, Stages, Required, Filling, Flip
<1>2. Keys' BY DEF Types, Keys, Progress, Filling, Flip
<1>3. ActiveData' BY DEF Types, Keys, ActiveData, Progress, Filling, Stages
<1>4. Owner' BY DEF Types, Owner, Working, Filling, Stages, NextStage
<1>5. Progress' BY DEF Types, Keys, Owner, Progress, Serving, Working, Filling, Stages, NextStage, Flip
<1>6. Serving' BY DEF Types, Keys, Owner, Progress, Serving, Working, Filling, Stages, NextStage, Flip
<1> QED BY <1>1, <1>2, <1>3, <1>4, <1>5, <1>6

(* Override: resetting the UTXO index preserves the invariant.  *)
LEMMA OverrideStep ==
    ASSUME IInv, NEW f \in Flows, Override(f)
    PROVE  IInv'
<1> USE GoroutinesAssumption DEF Prefixes, Flows, Main, IInv, Override, Go, Panic, pointers, db
<1>1. Types' BY DEF Types, Keys, Progress, Parts, Stages, Required, Filling, Flip
<1>2. Keys' BY DEF Types, Keys, Progress, Filling, Flip
<1>3. ActiveData' BY DEF Types, Keys, ActiveData, Progress, Filling, Stages
<1>4. Owner' BY DEF Types, Owner, Working, Filling, Stages, NextStage
<1>5. Progress' BY DEF Types, Keys, Owner, Progress, Serving, Working, Filling, Stages, NextStage, Flip
<1>6. Serving' BY DEF Types, Keys, Owner, Progress, Serving, Working, Filling, Stages, NextStage, Flip
<1> QED BY <1>1, <1>2, <1>3, <1>4, <1>5, <1>6

(* SyncMissingBlockBodies: syncing the block bodies preserves the invariant.  *)
LEMMA SyncMissingBlockBodiesStep ==
    ASSUME IInv, NEW f \in Flows, SyncMissingBlockBodies(f)
    PROVE  IInv'
<1> USE GoroutinesAssumption DEF Prefixes, Flows, Main, IInv, SyncMissingBlockBodies, Go, Panic, pointers, db
<1>1. Types' BY DEF Types, Keys, Progress, Parts, Stages, Required, Filling, Flip
<1>2. Keys' BY DEF Types, Keys, Progress, Filling, Flip
<1>3. ActiveData'
  <2>1. gen > 0
    BY DEF Types, ActiveData, Progress, Serving, Working
  <2> QED
    BY <2>1 DEF Types, ActiveData, Progress
<1>4. Owner' BY DEF Types, Owner, Working, Filling, Stages, NextStage
<1>5. Progress' BY DEF Types, Keys, Owner, Progress, Serving, Working, Filling, Stages, NextStage, Flip
<1>6. Serving' BY DEF Types, Keys, Owner, Progress, Serving, Working, Filling, Stages, NextStage, Flip
<1> QED BY <1>1, <1>2, <1>3, <1>4, <1>5, <1>6

(* RunIBDIfNotRunning: the start of an IBD preserves the invariant.  *)
LEMMA RunIBDIfNotRunningStep ==
    ASSUME IInv, NEW f \in Flows, RunIBDIfNotRunning(f)
    PROVE  IInv'
<1> USE GoroutinesAssumption DEF Prefixes, Flows, Main, IInv, RunIBDIfNotRunning, Go, Panic, pointers, db
<1>1. Types' BY DEF Types, Keys, Progress, Parts, Stages, Required, Filling, Flip
<1>2. Keys' BY DEF Types, Keys, Progress, Filling, Flip
<1>3. ActiveData' BY DEF Types, Keys, ActiveData, Progress, Filling, Stages
<1>4. Owner' BY DEF Types, Owner, Working, Filling, Stages, NextStage
<1>5. Progress' BY DEF Types, Keys, Owner, Progress, Serving, Working, Filling, Stages, NextStage, Flip
<1>6. Serving' BY DEF Types, Keys, Owner, Progress, Serving, Working, Filling, Stages, NextStage, Flip
<1> QED BY <1>1, <1>2, <1>3, <1>4, <1>5, <1>6

(* SetPrefixAsActive: the first start preserves the invariant.  *)
LEMMA SetPrefixAsActiveStep ==
    ASSUME IInv, SetPrefixAsActive
    PROVE  IInv'
<1> USE GoroutinesAssumption DEF Prefixes, Flows, Main, IInv, SetPrefixAsActive, Go, Panic, pointers, db
<1>1. Types' BY DEF Types, Keys, Progress, Parts, Stages, Required, Filling, Flip
<1>2. Keys' BY DEF Types, Keys, Progress, Filling, Flip
<1>3. ActiveData' BY DEF Types, Keys, ActiveData, Progress, Filling, Stages
<1>4. Owner' BY DEF Types, Owner, Working, Filling, Stages, NextStage
<1>5. Progress' BY DEF Types, Keys, Owner, Progress, Serving, Working, Filling, Stages, NextStage, Flip
<1>6. Serving' BY DEF Types, Keys, Owner, Progress, Serving, Working, Filling, Stages, NextStage, Flip
<1> QED BY <1>1, <1>2, <1>3, <1>4, <1>5, <1>6

(* AddVirtualGenesis: storing the virtual genesis preserves the invariant.  *)
LEMMA AddVirtualGenesisStep ==
    ASSUME IInv, AddVirtualGenesis
    PROVE  IInv'
<1> USE GoroutinesAssumption DEF Prefixes, Flows, Main, IInv, AddVirtualGenesis, Go, Panic, pointers, db
<1>1. Types' BY DEF Types, Keys, Progress, Parts, Stages, Required, Filling, Flip
<1>2. Keys' BY DEF Types, Keys, Progress, Filling, Flip
<1>3. ActiveData' BY DEF Types, Keys, ActiveData, Progress, Filling, Stages
<1>4. Owner' BY DEF Types, Owner, Working, Filling, Stages, NextStage
<1>5. Progress' BY DEF Types, Keys, Owner, Progress, Serving, Working, Filling, Stages, NextStage, Flip
<1>6. Serving' BY DEF Types, Keys, Owner, Progress, Serving, Working, Filling, Stages, NextStage, Flip
<1> QED BY <1>1, <1>2, <1>3, <1>4, <1>5, <1>6

(* AddGenesis: storing the genesis preserves the invariant.  *)
LEMMA AddGenesisStep ==
    ASSUME IInv, AddGenesis
    PROVE  IInv'
<1> USE GoroutinesAssumption DEF Prefixes, Flows, Main, IInv, AddGenesis, Go, Panic, pointers, db
<1>1. Types' BY DEF Types, Keys, Progress, Parts, Stages, Required, Filling, Flip
<1>2. Keys' BY DEF Types, Keys, Progress, Filling, Flip
<1>3. ActiveData'
  <2>1. gen > 0
    <3>1. <<gen, "init">> \in data[active]
      OBVIOUS
    <3> QED
      BY <3>1, Zenon DEF Types, ActiveData
  <2>2. \A key \in {<<gen, part>> : part \in Required} : key[1] = gen
    OBVIOUS
  <2> QED
    BY <2>1, <2>2 DEF Types, ActiveData
<1>4. Owner' BY DEF Types, Owner, Working, Filling, Stages, NextStage
<1>5. Progress' BY DEF Types, Keys, Owner, Progress, Serving, Working, Filling, Stages, NextStage, Flip
<1>6. Serving' BY DEF Types, Keys, Owner, Progress, Serving, Working, Filling, Stages, NextStage, Flip
<1> QED BY <1>1, <1>2, <1>3, <1>4, <1>5, <1>6

(* NewConsensus: opening the database preserves the invariant.  *)
LEMMA NewConsensusStep ==
    ASSUME IInv, NewConsensus
    PROVE  IInv'
<1> USE GoroutinesAssumption DEF Prefixes, Flows, Main, IInv, NewConsensus, Go, Panic, pointers, db
<1>1. Types' BY DEF Types, Keys, Progress, Parts, Stages, Required, Filling, Flip
<1>2. Keys' BY DEF Types, Keys, Progress, Filling, Flip
<1>3. ActiveData' BY DEF Types, Keys, ActiveData, Progress, Filling, Stages
<1>4. Owner' BY DEF Types, Owner, Working, Filling, Stages, NextStage
<1>5. Progress' BY DEF Types, Keys, Owner, Progress, Serving, Working, Filling, Stages, NextStage, Flip
<1>6. Serving' BY DEF Types, Keys, Owner, Progress, Serving, Working, Filling, Stages, NextStage, Flip
<1> QED BY <1>1, <1>2, <1>3, <1>4, <1>5, <1>6

(* TakeConsensus: taking the consensus preserves the invariant.  *)
LEMMA TakeConsensusStep ==
    ASSUME IInv, NEW r \in Readers, TakeConsensus(r)
    PROVE  IInv'
<1> USE GoroutinesAssumption DEF Prefixes, Flows, Main, IInv, TakeConsensus, Go, Panic, pointers, db
<1>1. Types' BY DEF Types, Keys, Progress, Parts, Stages, Required, Filling, Flip
<1>2. Keys' BY DEF Types, Keys, Progress, Filling, Flip
<1>3. ActiveData' BY DEF Types, Keys, ActiveData, Progress, Filling, Stages
<1>4. Owner' BY DEF Types, Owner, Working, Filling, Stages, NextStage
<1>5. Progress' BY DEF Types, Keys, Owner, Progress, Serving, Working, Filling, Stages, NextStage, Flip
<1>6. Serving' BY DEF Types, Keys, Owner, Progress, Serving, Working, Filling, Stages, NextStage, Flip
<1> QED BY <1>1, <1>2, <1>3, <1>4, <1>5, <1>6

(* UseConsensus: using the consensus preserves the invariant.  *)
LEMMA UseConsensusStep ==
    ASSUME IInv, NEW r \in Readers, UseConsensus(r)
    PROVE  IInv'
<1> USE GoroutinesAssumption DEF Prefixes, Flows, Main, IInv, UseConsensus, Go, Panic, pointers, db
<1>1. Types' BY DEF Types, Keys, Progress, Parts, Stages, Required, Filling, Flip
<1>2. Keys' BY DEF Types, Keys, Progress, Filling, Flip
<1>3. ActiveData' BY DEF Types, Keys, ActiveData, Progress, Filling, Stages
<1>4. Owner' BY DEF Types, Owner, Working, Filling, Stages, NextStage
<1>5. Progress' BY DEF Types, Keys, Owner, Progress, Serving, Working, Filling, Stages, NextStage, Flip
<1>6. Serving' BY DEF Types, Keys, Owner, Progress, Serving, Working, Filling, Stages, NextStage, Flip
<1> QED BY <1>1, <1>2, <1>3, <1>4, <1>5, <1>6

(* The end of the process: what is in memory is lost, the database stays.  *)
LEMMA StopStep ==
    ASSUME IInv, Stop
    PROVE  IInv'
<1> USE GoroutinesAssumption DEF Prefixes, Flows, Main, IInv, Stop, db
<1>1. Types' BY DEF Types
<1>2. Keys' BY DEF Types, Keys
<1>3. ActiveData' BY DEF Types, ActiveData
<1>4. Owner' BY DEF Types, Owner, Working, Filling, Stages
<1>5. Progress' BY DEF Types, Progress, Working, Filling, Stages
<1>6. Serving' BY DEF Types, Serving, Working, Filling, Stages
<1> QED BY <1>1, <1>2, <1>3, <1>4, <1>5, <1>6

-----------------------------------------------------------------------------
(* Every step of the node preserves the invariant.                         *)
LEMMA NextIInv == IInv /\ [Next]_vars => IInv'
<1> SUFFICES ASSUME IInv, [Next]_vars PROVE IInv'
    OBVIOUS
<1>1. CASE UNCHANGED vars
    BY <1>1 DEF vars, IInv, Types, Keys, ActiveData, Owner, Progress, Serving
<1>2. ASSUME NEW f \in Flows, FlowStep(f) PROVE IInv'
    BY <1>2, DeleteKeyStep, DeleteInactivePrefixStep, InitStagingConsensusStep,
       CreateStagingConsensusStep, DownloadStageStep, CommitStagingConsensusStep,
       SwapPointersStep, OverrideStep, SyncMissingBlockBodiesStep DEF FlowStep
<1>3. CASE LoadStep
    BY <1>3, SetPrefixAsActiveStep, AddVirtualGenesisStep, AddGenesisStep, NewConsensusStep
    DEF LoadStep
<1>4. ASSUME NEW f \in Flows, RunIBDIfNotRunning(f) \/ DeleteStagingConsensus(f) \/ FatalError(f)
      PROVE  IInv'
    BY <1>4, RunIBDIfNotRunningStep, DeleteStagingConsensusStep, FatalErrorStep
<1>5. ASSUME NEW r \in Readers, TakeConsensus(r) \/ UseConsensus(r) PROVE IInv'
    BY <1>5, TakeConsensusStep, UseConsensusStep
<1>6. CASE Crash \/ Exit
    BY <1>6, StopStep DEF Crash, Exit
<1> QED
    BY <1>1, <1>2, <1>3, <1>4, <1>5, <1>6 DEF Next, Flows

(* The invariant implies the properties that the runs check.               *)
LEMMA IInvImplies == IInv => NothingLeftBehind /\ ActiveIsOneConsensus
  BY GoroutinesAssumption
  DEF IInv, Types, Keys, ActiveData, NothingLeftBehind, ActiveIsOneConsensus, Prefixes

(* No crash, failed sync or interrupted deletion leaves data in the        *)
(* database that neither key names: the next start deletes it.             *)
THEOREM NothingIsLeftBehind == Spec => []NothingLeftBehind
<1>1. Spec => []IInv
    BY InitIInv, NextIInv, PTL DEF Spec
<1> QED
    BY <1>1, IInvImplies, PTL

(* The active prefix never holds data of two consensuses.                  *)
THEOREM ActiveStaysOneConsensus == Spec => []ActiveIsOneConsensus
<1>1. Spec => []IInv
    BY InitIInv, NextIInv, PTL DEF Spec
<1> QED
    BY <1>1, IInvImplies, PTL

-----------------------------------------------------------------------------
(* What the consensus of the domain holds *)

(* What a consensus has before the UTXO set comes.                         *)
HasHeaders(S) == <<gen, "init">> \in S /\ <<gen, "headers">> \in S

(* The consensus that is served, or will be once the pointers are swapped, *)
(* has its headers; the flow that swaps them holds the lock.               *)
Served ==
    /\ at[Main] \in {"delete", "load"} => consensus = None
    /\ \A f \in Flows :
          /\ at[f] \in {"create", "drop", "purge", "swap"} => lock = f
          /\ at[f] \in {"utxo", "commit"} => <<gen + 1, "headers">> \in data[inactive]
          /\ at[f] \in {"purge", "swap"} => HasHeaders(data[active])
    /\ consensus # None /\ (\A f \in Flows : at[f] \notin {"purge", "swap"})
          => consensus = active /\ HasHeaders(data[active])

(* Every step of the node keeps the served consensus that way.             *)
LEMMA NextServed ==
    ASSUME IInv, Served, [Next]_vars
    PROVE  Served'
<1> USE GoroutinesAssumption
    DEF Prefixes, Flows, Main, IInv, Types, Served, HasHeaders, Go, Panic, pointers, db
<1>1. CASE UNCHANGED vars
    BY <1>1 DEF vars
<1>2. ASSUME NEW f \in Flows, DeleteKey(f) PROVE Served'
    BY <1>2 DEF DeleteKey, Keys, Owner, Working, Filling, Stages
<1>3. ASSUME NEW f \in Flows, DeleteInactivePrefix(f) PROVE Served'
    BY <1>3 DEF DeleteInactivePrefix, Owner, Working, Filling, Stages
<1>4. ASSUME NEW f \in Flows, InitStagingConsensus(f) PROVE Served'
    BY <1>4 DEF InitStagingConsensus, Owner, Working, Filling, Stages
<1>5. ASSUME NEW f \in Flows, CreateStagingConsensus(f) PROVE Served'
    BY <1>5 DEF CreateStagingConsensus, Keys, Owner, Progress, Working, Filling, Stages, Required
<1>6. ASSUME NEW f \in Flows, DownloadStage(f) PROVE Served'
    BY <1>6, DownloadIsOneStage DEF OneStage, Keys, Owner, Progress, Working, Filling, Stages, NextStage
<1>7. ASSUME NEW f \in Flows, CommitStagingConsensus(f) PROVE Served'
    BY <1>7 DEF CommitStagingConsensus, Owner, Progress, Working, Filling, Stages
<1>8. ASSUME NEW f \in Flows, SwapPointers(f) PROVE Served'
    BY <1>8 DEF SwapPointers, Owner, Progress, Working, Filling, Stages
<1>9. ASSUME NEW f \in Flows, Override(f) PROVE Served'
    BY <1>9 DEF Override, Owner, Working, Filling, Stages
<1>10. ASSUME NEW f \in Flows, SyncMissingBlockBodies(f) PROVE Served'
    BY <1>10 DEF SyncMissingBlockBodies, Keys, Owner, Progress, Working, Filling, Stages
<1>11. ASSUME NEW f \in Flows, DeleteStagingConsensus(f) PROVE Served'
    BY <1>11 DEF DeleteStagingConsensus, Owner, Working, Filling, Stages
<1>12. ASSUME NEW f \in Flows, FatalError(f) PROVE Served'
    BY <1>12 DEF FatalError, Owner, Working, Filling, Stages
<1>13. ASSUME NEW f \in Flows, RunIBDIfNotRunning(f) PROVE Served'
    BY <1>13 DEF RunIBDIfNotRunning, Owner, Working, Filling, Stages
<1>14. CASE SetPrefixAsActive \/ AddVirtualGenesis \/ AddGenesis
    BY <1>14 DEF SetPrefixAsActive, AddVirtualGenesis, AddGenesis, Owner
<1>15. CASE NewConsensus
  <2>1. ASSUME Whole(data[active]) PROVE HasHeaders(data[active])
    <3>1. PICK g : <<g, "init">> \in data[active] /\ <<g, "headers">> \in data[active]
      BY <2>1 DEF Whole, Required
    <3>2. g = gen
      <4>1. <<g, "init">>[1] = gen
        BY <1>15, <3>1 DEF NewConsensus, ActiveData
      <4> QED
        BY <4>1
    <3> QED
      BY <3>1, <3>2
  <2> QED
    BY <1>15, <2>1 DEF NewConsensus, Owner
<1>16. ASSUME NEW r \in Readers, TakeConsensus(r) \/ UseConsensus(r) PROVE Served'
    BY <1>16 DEF TakeConsensus, UseConsensus
<1>17. CASE Crash \/ Exit
    BY <1>17 DEF Crash, Exit, Stop
<1> QED
    BY <1>1, <1>2, <1>3, <1>4, <1>5, <1>6, <1>7, <1>8, <1>9, <1>10, <1>11, <1>12, <1>13,
       <1>14, <1>15, <1>16, <1>17 DEF Next, FlowStep, LoadStep

(* Whoever takes the consensus of the domain gets a whole one, except in   *)
(* the middle of a commit and after the commit of a consensus without UTXO *)
(* set: no other interleaving of flows, failed syncs and crashes serves a  *)
(* part of a consensus.                                                    *)
THEOREM ServedStaysWhole == Spec => []ServedConsensusIsWhole
<1>1. Init => Served
    BY GoroutinesAssumption DEF Init, Served, Flows, Main
<1>2. Spec => []IInv
    BY InitIInv, NextIInv, PTL DEF Spec
<1>3. IInv /\ Served => ServedConsensusIsWhole
  <2> SUFFICES ASSUME IInv, Served, consensus # None,
                      \A f \in Flows : at[f] \notin {"purge", "swap"}
               PROVE  Whole(data[consensus]) \/ CommittedWithoutUTXOSet
    BY DEF ServedConsensusIsWhole, Served
  <2>1. /\ consensus = active /\ active # None /\ gen \in Nat /\ gen > 0
        /\ <<gen, "init">> \in data[active] /\ <<gen, "headers">> \in data[active]
    BY GoroutinesAssumption DEF Served, HasHeaders, IInv, Types, ActiveData
  <2>2. CASE <<gen, "utxo">> \in data[active]
    <3>1. gen \in Generations(data[active])
      <4>1. <<gen, "init">>[1] = gen
        OBVIOUS
      <4> QED
        BY <2>1, <4>1 DEF Generations
    <3> QED
      BY <2>1, <2>2, <3>1 DEF Whole, Required
  <2>3. CASE <<gen, "utxo">> \notin data[active]
    BY <2>1, <2>3 DEF CommittedWithoutUTXOSet
  <2> QED
    BY <2>2, <2>3
<1> QED
    BY <1>1, <1>2, <1>3, NextServed, PTL DEF Spec

-----------------------------------------------------------------------------
(* The generation served is the one last committed, or 0 if there is none. *)
LEMMA ServesGen ==
    ASSUME IInv
    PROVE  /\ Serves \in Nat
           /\ active = None => Serves = 0
           /\ active # None => Serves = IF data[active] = {} THEN 0 ELSE gen
<1> USE DEF IInv, Types, ActiveData
<1>1. ASSUME active # None, data[active] # {} PROVE Generations(data[active]) = {gen}
    BY <1>1 DEF Generations
<1> QED
    BY <1>1 DEF Serves

(* The same after a step.                                                  *)
LEMMA ServesGenAfter ==
    ASSUME IInv'
    PROVE  /\ Serves' \in Nat
           /\ active' = None => Serves' = 0
           /\ active' # None => Serves' = IF data[active]' = {} THEN 0 ELSE gen'
<1> USE DEF IInv, Types, ActiveData
<1>1. ASSUME active' # None, data[active]' # {} PROVE Generations(data[active])' = {gen'}
    BY <1>1 DEF Generations
<1> QED
    BY <1>1 DEF Serves

(* Every step of the node is a step of NodeConsensus or leaves it alone:   *)
(* only the transaction of CommitStagingConsensus and the first start      *)
(* change the generation served, and only to a newer one.                  *)
LEMMA NodeStep ==
    ASSUME IInv, IInv', [Next]_vars
    PROVE  [Node!Next]_<<Serves, at[Main] = "up">>
<1> USE GoroutinesAssumption, ServesGen, ServesGenAfter
    DEF Prefixes, Flows, Main, IInv, Types, Go, Panic, pointers, db
<1> DEFINE Same == Serves' = Serves
           Abstract == [Node!Next]_<<Serves, at[Main] = "up">>
<1>a. ASSUME Same, (at[Main] = "up") = (at'[Main] = "up") PROVE Abstract
    BY <1>a
<1>b. ASSUME Same, at'[Main] # "up" PROVE Abstract
    BY <1>b DEF Node!Next, Node!Stop
<1>1. CASE UNCHANGED vars
    BY <1>1 DEF vars
<1>2. ASSUME NEW f \in Flows, DeleteKey(f) PROVE Abstract
    BY <1>2, <1>a DEF DeleteKey, Keys
<1>3. ASSUME NEW f \in Flows, DeleteInactivePrefix(f) PROVE Abstract
    BY <1>3, <1>a DEF DeleteInactivePrefix, Owner
<1>4. ASSUME NEW f \in Flows, InitStagingConsensus(f) PROVE Abstract
    BY <1>4, <1>a DEF InitStagingConsensus, Owner
<1>5. ASSUME NEW f \in Flows, CreateStagingConsensus(f) PROVE Abstract
    BY <1>5, <1>a DEF CreateStagingConsensus, Keys, Progress
<1>6. ASSUME NEW f \in Flows, DownloadStage(f) PROVE Abstract
    BY <1>6, <1>a, DownloadIsOneStage, SMTT(30) DEF OneStage, Keys, Progress, Filling, Stages, NextStage
<1>7. ASSUME NEW f \in Flows, CommitStagingConsensus(f) PROVE Abstract
    BY <1>7 DEF CommitStagingConsensus, Progress, Filling, Node!Next, Node!Replace
<1>8. ASSUME NEW f \in Flows, SwapPointers(f) PROVE Abstract
  <2>1. Same
    BY <1>8 DEF SwapPointers
  <2>2. CASE f = Main
    <3>1. Serves > 0
      BY <1>8, <2>2 DEF SwapPointers, Serving, Progress, Working, ActiveData
    <3> QED
      BY <1>8, <2>1, <2>2, <3>1 DEF SwapPointers, Node!Next, Node!Start
  <2>3. CASE f # Main
    BY <1>8, <1>a, <2>1, <2>3 DEF SwapPointers
  <2> QED
    BY <2>2, <2>3
<1>9. ASSUME NEW f \in Flows, Override(f) PROVE Abstract
    BY <1>9, <1>a, SMTT(30) DEF Override, Owner
<1>10. ASSUME NEW f \in Flows, SyncMissingBlockBodies(f) PROVE Abstract
    BY <1>10, <1>a DEF SyncMissingBlockBodies, Owner, Serving, Progress, Working
<1>11. ASSUME NEW f \in Flows, DeleteStagingConsensus(f) \/ FatalError(f) PROVE Abstract
    BY <1>11, <1>a DEF DeleteStagingConsensus, FatalError, Owner, Stages
<1>12. ASSUME NEW f \in Flows, RunIBDIfNotRunning(f) PROVE Abstract
    BY <1>12, <1>a DEF RunIBDIfNotRunning
<1>13. CASE SetPrefixAsActive
    BY <1>13, <1>a DEF SetPrefixAsActive, Keys
<1>14. CASE AddVirtualGenesis
    BY <1>14 DEF AddVirtualGenesis, Node!Next, Node!Replace
<1>15. CASE AddGenesis
  <2>1. /\ <<gen, "init">> \in {<<gen, part>> : part \in Required}
        /\ <<gen, "init">> \in data[active]
    BY <1>15 DEF AddGenesis, Required
  <2> QED
    BY <1>15, <2>1, <1>a, Zenon DEF AddGenesis
<1>16. CASE NewConsensus
  <2>1. Same /\ Serves > 0
    BY <1>16 DEF NewConsensus, ActiveData
  <2> QED
    BY <1>16, <1>a, <1>b, <2>1 DEF NewConsensus, Node!Next, Node!Start
<1>17. ASSUME NEW r \in Readers, TakeConsensus(r) \/ UseConsensus(r) PROVE Abstract
    BY <1>17, <1>a DEF TakeConsensus, UseConsensus
<1>18. CASE Crash \/ Exit
    BY <1>18, <1>b DEF Crash, Exit, Stop
<1> QED
    BY <1>1, <1>2, <1>3, <1>4, <1>5, <1>6, <1>7, <1>8, <1>9, <1>10, <1>11, <1>12, <1>13,
       <1>14, <1>15, <1>16, <1>17, <1>18 DEF Next, FlowStep, LoadStep

(* The consensus database implements NodeConsensus: at any moment there is *)
(* one consensus, replaced in one step and only by a newer one, and no     *)
(* crash or restart changes which one it is.                               *)
THEOREM DatabaseImplementsOneConsensus == Spec => OneConsensus
<1>1. Init => Node!Init
    BY InitIInv, ServesGen DEF Init, Node!Init, Main, Flows
<1>2. Spec => []IInv
    BY InitIInv, NextIInv, PTL DEF Spec
<1> QED
    BY <1>1, <1>2, NodeStep, PTL DEF Spec, OneConsensus, Node!Spec

=============================================================================
