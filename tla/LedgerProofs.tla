---------------------------- MODULE LedgerProofs ----------------------------
(***************************************************************************)
(* The safety of the ledger's snapshot store and of persist_snapshot, for  *)
(* every block tree, checkpoint, retention limit and number of tasks.      *)
(***************************************************************************)
EXTENDS Ledger, TLAPS

\* A block is among its own ancestors, and its ancestors are blocks.
LEMMA SelfAncestor ==
    ASSUME NEW b \in Block
    PROVE  b \in Anc(b) /\ Anc(b) \subseteq Block
<1>1. Path[b] \in Seq(Block)
  BY BlockTree
<1>2. Anc(b) \subseteq Block
  BY <1>1 DEF Anc, Range
<1>3. CASE b = Genesis
  BY <1>2, <1>3, BlockTree DEF Anc
<1>4. CASE b # Genesis
  <2>1. Parent[b] \in Block /\ Path[Parent[b]] \in Seq(Block)
    BY <1>4, BlockTree
  <2>2. Path[b] = Append(Path[Parent[b]], b)
    BY <1>4, BlockTree
  <2>3. Len(Path[b]) \in DOMAIN Path[b] /\ Path[b][Len(Path[b])] = b
    BY <2>1, <2>2
  <2> QED
    BY <1>2, <2>3 DEF Anc, Range
<1> QED
  BY <1>3, <1>4

\* A block's ancestors are its parent's and itself.
LEMMA AncestorStep ==
    ASSUME NEW b \in Block, b # Genesis
    PROVE  /\ Parent[b] \in Block
           /\ Anc(b) = Anc(Parent[b]) \cup {b}
           /\ b \notin Anc(Parent[b])
<1>1. Parent[b] \in Block /\ Path[Parent[b]] \in Seq(Block)
  BY BlockTree
<1>2. Path[b] = Append(Path[Parent[b]], b)
  BY BlockTree
<1>3. ASSUME NEW x \in Anc(b)
      PROVE  x \in Anc(Parent[b]) \cup {b}
  <2>1. PICK i \in DOMAIN Path[b] : x = Path[b][i]
    BY <1>3 DEF Anc, Range
  <2> QED
    BY <1>1, <1>2, <2>1 DEF Anc, Range
<1>4. ASSUME NEW x \in Anc(Parent[b])
      PROVE  x \in Anc(b)
  <2>1. PICK i \in DOMAIN Path[Parent[b]] : x = Path[Parent[b]][i]
    BY <1>4 DEF Anc, Range
  <2>2. i \in DOMAIN Path[b] /\ Path[b][i] = x
    BY <1>1, <1>2, <2>1
  <2> QED
    BY <2>2 DEF Anc, Range
<1>5. b \in Anc(b)
  BY SelfAncestor
<1>6. b \notin Anc(Parent[b])
  BY BlockTree
<1> QED
  BY <1>1, <1>3, <1>4, <1>5, <1>6

\* Ancestry is transitive.
LEMMA AncestorTrans ==
    ASSUME NEW b \in Block, NEW c \in Anc(b)
    PROVE  Anc(c) \subseteq Anc(b)
  BY SelfAncestor, BlockTree

-----------------------------------------------------------------------------
(* The inductive invariant.                                                *)

\* At or below a persisted digest, as far as this process marked them.
Settled == persisted \cup Anc(Checkpoint)

\* What was settled stays settled downwards, is in QMDB, and is never again
\* found unpersisted in the cache.
SettledInv ==
    /\ {Genesis, Checkpoint} \subseteq persisted
    /\ Settled \subseteq qmdb
    /\ \A b \in Settled : Anc(b) \subseteq Settled
    /\ stored \cap Settled \subseteq persisted

\* An unpersisted snapshot still holds its own changes.
ChangesInv == \A b \in stored \ persisted : changes[b] = {b}

\* A job in flight owns its chain: the whole of it is cached and marked in
\* flight, nothing of it is persisted, and below it everything is settled.
JobInv ==
    \A p \in Persister :
        /\ job[p].pc = "idle" => job[p].chain = {}
        /\ job[p].chain \subseteq persisting \cap stored \cap Finalized
        /\ job[p].chain \cap persisted = {}
        /\ job[p].delta = job[p].chain
        /\ \A x \in job[p].chain : Anc(x) \subseteq job[p].chain \cup Settled
        /\ job[p].pc \in {"commit", "failed"} => job[p].chain \cap qmdb = {}
        /\ job[p].pc = "committed" => job[p].chain \subseteq qmdb
        /\ \A q \in Persister \ {p} : job[p].chain \cap job[q].chain = {}

\* What QMDB holds is settled or about to be marked.
QmdbInv == qmdb \subseteq Settled \cup persisting

\* An execution in progress has its parent's overlay; one that reproduced the
\* block's root is not of a block at or below the checkpoint.
ExecInv ==
    \A w \in Worker : exec[w].pc # "idle" =>
        LET b == exec[w].block IN
        /\ exec[w].pc # "trust"
        /\ b # Genesis
        /\ Parent[b] \in stored \cup persisted
        /\ exec[w].overlay \subseteq Anc(Parent[b])
        /\ Anc(Parent[b]) \subseteq exec[w].overlay \cup qmdb
        /\ exec[w].pc = "root" => Anc(Checkpoint) \subseteq exec[w].view
        /\ exec[w].pc = "insert" => b \notin Anc(Checkpoint)

IInv ==
    /\ TypeOK
    /\ SettledInv
    /\ ChangesInv
    /\ JobInv
    /\ QmdbInv
    /\ ExecInv
    /\ QmdbIsFinalizedPrefix
    /\ SnapshotsComplete
    /\ WalkNeverMissesSnapshot

\* The ledger that init_with_config_and_genesis_options and recovery leave satisfies
\* the inductive invariant.
LEMMA InitIInv == Init => IInv
<1> SUFFICES ASSUME Init PROVE IInv
  OBVIOUS
<1> USE DEF Init
<1>0. Checkpoint \in Block /\ Genesis \in Block
  BY BlockTree, FinalizedChain
<1>1. /\ Anc(Checkpoint) \subseteq Block /\ Anc(Genesis) = {Genesis}
      /\ Checkpoint \in Anc(Checkpoint) /\ Genesis \in Anc(Checkpoint)
  <2>1. Anc(Genesis) = {Genesis}
    BY BlockTree DEF Anc, Range
  <2> QED
    BY <1>0, <2>1, SelfAncestor, BlockTree
<1>2. TypeOK
  BY <1>0, <1>1 DEF TypeOK, ExecType, JobType, NoExec, NoJob
<1>3. SettledInv
  BY <1>0, <1>1, AncestorTrans DEF SettledInv, Settled
<1>4. ChangesInv /\ QmdbInv
  BY DEF ChangesInv, QmdbInv, Settled
<1>5. JobInv
  BY ZenonT(30) DEF JobInv, NoJob
<1>6. ExecInv
  BY DEF ExecInv, NoExec
<1>7. QmdbIsFinalizedPrefix
  BY <1>0, AncestorTrans, FinalizedChain DEF QmdbIsFinalizedPrefix
<1>8. SnapshotsComplete
  BY <1>1 DEF SnapshotsComplete, View
<1>9. WalkNeverMissesSnapshot
  BY <1>0, SelfAncestor DEF WalkNeverMissesSnapshot, Walk
<1> QED
  BY <1>2, <1>3, <1>4, <1>5, <1>6, <1>7, <1>8, <1>9 DEF IInv

\* The parts of the invariant that read neither executions nor jobs.
StoreInv ==
    /\ SettledInv
    /\ ChangesInv
    /\ QmdbInv
    /\ QmdbIsFinalizedPrefix
    /\ SnapshotsComplete
    /\ WalkNeverMissesSnapshot

\* Executing and checking the root touch neither the store nor QMDB.
LEMMA StoreUnchanged ==
    ASSUME StoreInv, UNCHANGED <<storeVars, qmdb>>
    PROVE  StoreInv'
  BY DEF StoreInv, SettledInv, Settled, ChangesInv, QmdbInv, QmdbIsFinalizedPrefix,
         SnapshotsComplete, View, WalkNeverMissesSnapshot, Walk, storeVars

\* A step that leaves the store, QMDB and the calls alone keeps what JobInv says of
\* the persist_snapshot calls in flight.
LEMMA JobsUnchanged ==
    ASSUME JobInv, UNCHANGED <<storeVars, qmdb, job>>
    PROVE  JobInv'
  BY DEF JobInv, Settled, storeVars

\* Cloning the parent's snapshot gives an execution the overlay that ExecInv asks for.
LEMMA BeginExecuteStep ==
    ASSUME IInv, NEW w \in Worker, NEW b \in Block, BeginExecute(w, b)
    PROVE  IInv'
<1> USE DEF IInv
<1>1. StoreInv' /\ JobInv'
  BY StoreUnchanged, JobsUnchanged DEF BeginExecute, StoreInv
<1>2. TypeOK'
  <2>1. overlay[Parent[b]] \in SUBSET Block
    BY BlockTree DEF BeginExecute, TypeOK
  <2>2. [pc |-> "exec", block |-> b, overlay |-> overlay[Parent[b]], view |-> {}] \in ExecType
    BY <2>1 DEF ExecType
  <2>3. exec' \in [Worker -> ExecType]
    BY <2>2 DEF BeginExecute, TypeOK
  <2> QED
    BY <2>3 DEF BeginExecute, TypeOK, storeVars
<1>3. ExecInv'
  BY DEF BeginExecute, ExecInv, TypeOK, ExecType, storeVars, SnapshotsComplete, View
<1> QED
  BY <1>1, <1>2, <1>3 DEF StoreInv

\* Running the transactions reads all of the parent's state and of the checkpoint's.
LEMMA ExecuteStep ==
    ASSUME IInv, NEW w \in Worker, Execute(w)
    PROVE  IInv'
<1> USE DEF IInv
<1>1. StoreInv' /\ JobInv'
  BY StoreUnchanged, JobsUnchanged DEF Execute, StoreInv
<1>2. TypeOK'
  <2>1. exec[w] \in ExecType /\ qmdb \subseteq Block
    BY DEF TypeOK
  <2>2. exec[w].overlay \cup qmdb \in SUBSET Block
    BY <2>1 DEF ExecType
  <2>3. [pc |-> "root", block |-> exec[w].block, overlay |-> exec[w].overlay,
          view |-> exec[w].overlay \cup qmdb] \in ExecType
    BY <2>1, <2>2 DEF ExecType
  <2>4. exec' \in [Worker -> ExecType]
    BY <2>3 DEF Execute, TypeOK
  <2> QED
    BY <2>4 DEF Execute, TypeOK, storeVars
<1>3. ExecInv'
  BY DEF Execute, ExecInv, TypeOK, ExecType, storeVars, SettledInv, Settled
<1> QED
  BY <1>1, <1>2, <1>3 DEF StoreInv

\* A root that matches is of a block that is not at or below the checkpoint.
LEMMA CheckRootStep ==
    ASSUME IInv, NEW w \in Worker, CheckRoot(w)
    PROVE  IInv'
<1> USE DEF IInv
<1>1. StoreInv' /\ JobInv'
  BY StoreUnchanged, JobsUnchanged DEF CheckRoot, StoreInv
<1>2. TypeOK'
  <2>1. exec[w] \in ExecType
    BY DEF TypeOK
  <2>2. [exec[w] EXCEPT !.pc = "insert"] \in ExecType
    BY <2>1 DEF ExecType
  <2>3. NoExec \in ExecType
    BY BlockTree DEF NoExec, ExecType
  <2>4. exec' \in [Worker -> ExecType]
    BY <2>2, <2>3 DEF CheckRoot, TypeOK
  <2> QED
    BY <2>4 DEF CheckRoot, TypeOK, storeVars
<1>3. exec[w].block \in Block /\ exec[w].block # Genesis
  BY DEF CheckRoot, TypeOK, ExecType, ExecInv
<1>4. exec[w].block \notin Anc(Parent[exec[w].block])
  BY <1>3, AncestorStep
<1>5. ExecInv'
  <2> SUFFICES ASSUME NEW v \in Worker, exec'[v].pc # "idle"
               PROVE  LET b == exec'[v].block IN
                      /\ exec'[v].pc # "trust"
                      /\ b # Genesis
                      /\ Parent[b] \in stored \cup persisted
                      /\ exec'[v].overlay \subseteq Anc(Parent[b])
                      /\ Anc(Parent[b]) \subseteq exec'[v].overlay \cup qmdb
                      /\ exec'[v].pc = "root" => Anc(Checkpoint) \subseteq exec'[v].view
                      /\ exec'[v].pc = "insert" => b \notin Anc(Checkpoint)
    BY DEF CheckRoot, ExecInv, storeVars
  <2>1. CASE v # w
    BY <2>1 DEF CheckRoot, ExecInv, TypeOK
  <2>2. CASE v = w
    <3>1. exec'[w] = [exec[w] EXCEPT !.pc = "insert"] /\ RootMatches(exec[w])
      BY <2>2 DEF CheckRoot, TypeOK, NoExec
    <3>2. exec[w] \in ExecType
      BY DEF TypeOK
    <3> QED
      BY <1>4, <2>2, <3>1, <3>2 DEF CheckRoot, ExecInv, ExecType, RootMatches
  <2> QED
    BY <2>1, <2>2
<1> QED
  BY <1>1, <1>2, <1>5 DEF StoreInv

\* Inserting the snapshot of an execution that reproduced the block's root.
LEMMA InsertSnapshotStep ==
    ASSUME IInv, NEW w \in Worker, InsertSnapshot(w)
    PROVE  IInv'
<1> DEFINE b == exec[w].block
           par == Parent[b]
<1> USE DEF IInv
<1>1. b \in Block /\ b # Genesis /\ b \notin Anc(Checkpoint)
  BY SMTT(30) DEF InsertSnapshot, TypeOK, ExecType, ExecInv
<1>2. /\ par \in Block /\ par \in stored \cup persisted
      /\ exec[w].overlay \subseteq Anc(par)
      /\ Anc(par) \subseteq exec[w].overlay \cup qmdb
  BY <1>1, BlockTree DEF InsertSnapshot, ExecInv
<1>3. Anc(b) = Anc(par) \cup {b} /\ Anc(b) \subseteq Block
  BY <1>1, AncestorStep, SelfAncestor
<1>4. /\ stored' = stored \cup {b}
      /\ overlay' = [overlay EXCEPT ![b] = exec[w].overlay \cup {b}]
      /\ changes' = [changes EXCEPT ![b] = {b}]
      /\ head' = b
      /\ exec' = [exec EXCEPT ![w] = NoExec]
      /\ UNCHANGED <<persisted, persisting, order, qmdb, job>>
  BY DEF InsertSnapshot, Insert
<1> HIDE DEF b, par
<1>5. TypeOK'
  <2>1. NoExec \in ExecType
    BY BlockTree DEF NoExec, ExecType
  <2>2. exec' \in [Worker -> ExecType]
    BY <1>4, <2>1 DEF TypeOK
  <2>3. exec[w].overlay \cup {b} \in SUBSET Block /\ {b} \in SUBSET Block
    BY <1>2, <1>3
  <2> QED
    BY <1>1, <1>4, <2>2, <2>3 DEF TypeOK
<1>6. SettledInv'
  BY <1>1, <1>4 DEF SettledInv, Settled
<1>7. ChangesInv'
  BY <1>1, <1>4 DEF ChangesInv, TypeOK
<1>8. JobInv' /\ QmdbInv' /\ QmdbIsFinalizedPrefix'
  BY <1>4, SMTT(30) DEF JobInv, QmdbInv, QmdbIsFinalizedPrefix, Settled
<1>9. ExecInv'
  BY <1>4 DEF ExecInv, NoExec, TypeOK
<1>10. SnapshotsComplete'
  BY <1>1, <1>2, <1>3, <1>4 DEF SnapshotsComplete, View, TypeOK
<1>11. WalkNeverMissesSnapshot'
  <2> SUFFICES ASSUME NEW d \in stored', NEW x \in Walk(d)
               PROVE  x \in stored'
    BY <1>4 DEF WalkNeverMissesSnapshot, Walk
  <2>1. CASE d \in stored
    BY <2>1, <1>4 DEF WalkNeverMissesSnapshot
  <2>2. CASE d = b /\ x # b
    <3>1. x \in Walk(par)
      BY <1>3, <2>2 DEF Walk
    <3>2. CASE par \in stored
      BY <3>1, <3>2, <1>4 DEF WalkNeverMissesSnapshot
    <3>3. CASE par \in persisted
      BY <3>1, <3>3, <1>2, SelfAncestor DEF Walk
    <3> QED
      BY <1>2, <3>2, <3>3
  <2> QED
    BY <2>1, <2>2, <1>4
<1> QED
  BY <1>5, <1>6, <1>7, <1>8, <1>9, <1>10, <1>11

\* Restoring a block that QMDB contains and no call is persisting.
LEMMA RestoreCommittedStep ==
    ASSUME IInv, NEW b \in Block, RestoreCommitted(b)
    PROVE  IInv'
<1> USE DEF IInv
<1>1. b \in qmdb /\ b \notin persisting /\ b \notin stored
  BY DEF RestoreCommitted
<1>2. /\ stored' = stored \cup {b}
      /\ overlay' = [overlay EXCEPT ![b] = {}]
      /\ changes' = [changes EXCEPT ![b] = {}]
      /\ head' = b
      /\ persisted' = persisted \cup {b}
      /\ UNCHANGED <<persisting, qmdb, exec, job>>
  BY DEF RestoreCommitted, RestorePersistedSnapshot, Insert
<1>3. b \in Settled /\ Settled' = Settled
  BY <1>1, <1>2 DEF QmdbInv, Settled
<1>4. TypeOK'
  BY <1>2 DEF TypeOK
<1>5. SettledInv'
  BY <1>1, <1>2, <1>3 DEF SettledInv
<1>6. ChangesInv'
  BY <1>2 DEF ChangesInv, TypeOK
<1>7. JobInv'
  BY <1>1, <1>2, <1>3 DEF JobInv
<1>8. QmdbInv' /\ QmdbIsFinalizedPrefix'
  BY <1>2, <1>3 DEF QmdbInv, QmdbIsFinalizedPrefix
<1>9. ExecInv'
  BY <1>2 DEF ExecInv
<1>10. SnapshotsComplete'
  BY <1>1, <1>2 DEF SnapshotsComplete, View, TypeOK, QmdbIsFinalizedPrefix
<1>11. WalkNeverMissesSnapshot'
  <2> SUFFICES ASSUME NEW d \in stored', NEW x \in Walk(d)'
               PROVE  x \in stored'
    BY DEF WalkNeverMissesSnapshot
  <2>1. x \in Walk(d)
    BY <1>2 DEF Walk
  <2>2. CASE d \in stored
    BY <2>1, <2>2, <1>2 DEF WalkNeverMissesSnapshot
  <2>3. CASE d = b
    BY <2>3, <1>2, SelfAncestor DEF Walk
  <2> QED
    BY <1>2, <2>2, <2>3
<1> QED
  BY <1>4, <1>5, <1>6, <1>7, <1>8, <1>9, <1>10, <1>11

\* Taking a chain in flight: nothing on it is in QMDB or in another call.
LEMMA BeginPersistStep ==
    ASSUME IInv, NEW p \in Persister, NEW d \in Finalized, BeginPersist(p, d)
    PROVE  IInv'
<1> DEFINE chain == Walk(d)
<1> USE DEF IInv
<1>1. d \in Block /\ Anc(d) \subseteq Finalized /\ Anc(d) \subseteq Block
  BY FinalizedChain, SelfAncestor
<1>2. /\ chain \subseteq stored
      /\ chain \cap persisted = {}
      /\ chain \cap persisting = {}
  BY DEF BeginPersist, CanPersistChain
<1>3. /\ persisting' = persisting \cup chain
      /\ UNCHANGED <<stored, overlay, changes, persisted, order, head, qmdb, exec>>
  BY DEF BeginPersist
<1>4. UNION {changes[x] : x \in chain} = chain
  BY <1>2 DEF ChangesInv
<1>5. /\ job' = [job EXCEPT ![p] =
                   [pc |-> "commit", tip |-> d, chain |-> chain, delta |-> chain]]
      /\ job[p].pc = "idle"
  BY <1>4, ZenonT(30) DEF BeginPersist
<1>6. chain \subseteq Anc(d)
  BY DEF Walk
<1>7. Anc(d) \subseteq chain \cup Settled
  <2> SUFFICES ASSUME NEW x \in Anc(d), x \notin chain PROVE x \in Settled
    OBVIOUS
  <2>1. PICK y \in Anc(d) : x \in Anc(y) /\ y \in persisted
    BY DEF Walk
  <2> QED
    BY <2>1 DEF SettledInv, Settled
<1>8. \A x \in chain : Anc(x) \subseteq chain \cup Settled
  BY <1>1, <1>6, <1>7, AncestorTrans
<1>9. chain \cap qmdb = {}
  BY <1>2 DEF QmdbInv, SettledInv
<1> HIDE DEF chain
<1>10. TypeOK'
  BY <1>1, <1>3, <1>5, <1>6 DEF TypeOK, JobType
<1>11. SettledInv' /\ ChangesInv' /\ QmdbInv' /\ QmdbIsFinalizedPrefix'
  BY <1>3 DEF SettledInv, Settled, ChangesInv, QmdbInv, QmdbIsFinalizedPrefix
<1>12. SnapshotsComplete' /\ WalkNeverMissesSnapshot' /\ ExecInv'
  BY <1>3, SMTT(30) DEF SnapshotsComplete, View, WalkNeverMissesSnapshot, Walk, ExecInv
<1>13. JobInv'
  <2>1. ASSUME NEW q \in Persister, q # p
        PROVE  job'[q] = job[q] /\ job[q].chain \cap chain = {}
    BY <1>2, <1>5, <2>1 DEF JobInv, TypeOK
  <2>2. job'[p] = [pc |-> "commit", tip |-> d, chain |-> chain, delta |-> chain]
    BY <1>5 DEF TypeOK
  <2>3. Settled' = Settled
    BY <1>3 DEF Settled
  <2> QED
    BY <1>1, <1>2, <1>3, <1>6, <1>8, <1>9, <2>1, <2>2, <2>3 DEF JobInv
<1> QED
  BY <1>10, <1>11, <1>12, <1>13

\* The commit extends QMDB's prefix by exactly the chain.
LEMMA CommitStep ==
    ASSUME IInv, NEW p \in Persister, Commit(p)
    PROVE  IInv'
<1> DEFINE chain == job[p].chain
<1> USE DEF IInv
<1>1. /\ chain = job[p].delta
      /\ chain \subseteq persisting \cap stored \cap Finalized
      /\ \A x \in chain : Anc(x) \subseteq chain \cup Settled
      /\ chain \subseteq Block
  BY DEF JobInv, TypeOK, JobType
<1>2. /\ qmdb' = qmdb \cup chain
      /\ job' = [job EXCEPT ![p].pc = "committed"]
      /\ UNCHANGED <<storeVars, head, exec>>
  BY <1>1 DEF Commit
<1>3. Settled' = Settled
  BY <1>2 DEF Settled, storeVars
<1>4. TypeOK'
  BY <1>1, <1>2 DEF TypeOK, JobType, storeVars
<1>5. SettledInv' /\ ChangesInv' /\ QmdbInv'
  BY <1>1, <1>2, <1>3 DEF SettledInv, ChangesInv, QmdbInv, storeVars
<1>6. JobInv'
  <2>1. ASSUME NEW q \in Persister, q # p
        PROVE  job'[q] = job[q] /\ job[q].chain \cap chain = {}
    BY <1>2, <2>1 DEF JobInv, TypeOK
  <2>2. job'[p] = [job[p] EXCEPT !.pc = "committed"]
    BY <1>2 DEF TypeOK
  <2>3. job'[p].pc = "committed" /\ job'[p].chain = chain /\ job'[p].delta = chain
    BY <1>1, <2>2 DEF TypeOK, JobType
  <2> HIDE DEF chain
  <2>4. chain = job[p].chain
    BY DEF chain
  <2> QED
    BY <1>1, <1>2, <1>3, <2>1, <2>3, <2>4 DEF JobInv, storeVars
<1>7. ExecInv'
  BY <1>2 DEF ExecInv, storeVars
<1>8. QmdbIsFinalizedPrefix'
  BY <1>1, <1>2 DEF QmdbIsFinalizedPrefix, SettledInv
<1>9. SnapshotsComplete' /\ WalkNeverMissesSnapshot'
  BY <1>2 DEF SnapshotsComplete, View, WalkNeverMissesSnapshot, Walk, storeVars
<1> QED
  BY <1>4, <1>5, <1>6, <1>7, <1>8, <1>9

\* A failed commit_changes leaves QMDB and the in-flight marks as they were.
LEMMA CommitFailsStep ==
    ASSUME IInv, NEW p \in Persister, CommitFails(p)
    PROVE  IInv'
<1> USE DEF IInv
<1>1. StoreInv' /\ ExecInv'
  BY StoreUnchanged DEF CommitFails, StoreInv, ExecInv, storeVars
<1>2. TypeOK'
  BY SMTT(30) DEF CommitFails, TypeOK, JobType, storeVars
<1>3. JobInv'
  <2>1. ASSUME NEW q \in Persister
        PROVE  /\ job'[q].chain = job[q].chain /\ job'[q].delta = job[q].delta
               /\ q # p => job'[q].pc = job[q].pc
    BY DEF CommitFails, TypeOK, JobType
  <2>2. job[p].pc = "commit" /\ job'[p].pc = "failed"
    BY DEF CommitFails, TypeOK, JobType
  <2> QED
    BY <2>1, <2>2 DEF CommitFails, JobInv, Settled, storeVars
<1> QED
  BY <1>1, <1>2, <1>3 DEF StoreInv

\* Compaction, marking and eviction after a successful commit.
LEMMA FinishPersistStep ==
    ASSUME IInv, NEW p \in Persister, FinishPersist(p)
    PROVE  IInv'
<1> DEFINE chain == job[p].chain
<1> USE DEF IInv
<1>1. /\ chain \subseteq qmdb \cap stored \cap Block
      /\ \A x \in chain : Anc(x) \subseteq chain \cup Settled
  BY SMTT(30) DEF JobInv, TypeOK, JobType, FinishPersist
<1>2. PICK gone \in SUBSET persisted' : stored' = stored \ gone
  BY ZenonT(30) DEF FinishPersist
<1>3. /\ overlay' = [b \in Block |-> IF b \in chain THEN {} ELSE overlay[b]]
      /\ changes' = [b \in Block |-> IF b \in chain THEN {} ELSE changes[b]]
      /\ persisting' = persisting \ chain
      /\ persisted' = persisted \cup chain
      /\ job' = [job EXCEPT ![p] = NoJob]
      /\ UNCHANGED <<head, qmdb, exec>>
  BY DEF FinishPersist
<1>4. ASSUME NEW q \in Persister, q # p
      PROVE  job'[q] = job[q] /\ job[q].chain \cap chain = {}
  BY <1>3, <1>4 DEF JobInv, TypeOK
<1>5. job'[p] = NoJob
  BY <1>3 DEF TypeOK
<1> HIDE DEF chain
<1>6. Settled' = Settled \cup chain
  BY <1>3 DEF Settled
<1>7. TypeOK'
  <2>1. NoJob \in JobType
    BY BlockTree DEF NoJob, JobType
  <2>2. job' \in [Persister -> JobType]
    BY <1>3, <2>1 DEF TypeOK
  <2> QED
    BY <1>1, <1>2, <1>3, <2>2 DEF TypeOK
<1>8. SettledInv'
  BY <1>1, <1>2, <1>3, <1>6 DEF SettledInv
<1>9. ChangesInv' /\ QmdbInv'
  BY <1>2, <1>3, <1>6, SMTT(30) DEF ChangesInv, QmdbInv, TypeOK
<1>10. JobInv'
  <2>1. ASSUME NEW q \in Persister, q # p
        PROVE  /\ job'[q].chain \subseteq persisting' \cap stored' \cap Finalized
               /\ job'[q].chain \cap persisted' = {}
    BY <1>2, <1>3, <1>4, <2>1 DEF JobInv
  <2>2. ASSUME NEW q \in Persister, q # p
        PROVE  /\ job'[q].pc = "idle" => job'[q].chain = {}
               /\ job'[q].delta = job'[q].chain
               /\ \A x \in job'[q].chain : Anc(x) \subseteq job'[q].chain \cup Settled'
               /\ job'[q].pc \in {"commit", "failed"} => job'[q].chain \cap qmdb' = {}
               /\ job'[q].pc = "committed" => job'[q].chain \subseteq qmdb'
    BY <1>3, <1>4, <1>6, <2>2, SMTT(30) DEF JobInv
  <2>3. ASSUME NEW q \in Persister, NEW r \in Persister \ {q}
        PROVE  job'[q].chain \cap job'[r].chain = {}
    BY <1>4, <1>5, <2>3, SMTT(30) DEF JobInv, NoJob
  <2>4. job'[p].pc = "idle" /\ job'[p].chain = {} /\ job'[p].delta = {}
    BY <1>5, SMTT(30) DEF NoJob
  <2> QED
    BY <2>1, <2>2, <2>3, <2>4, ZenonT(30) DEF JobInv
<1>11. ExecInv'
  BY <1>2, <1>3, SMTT(30) DEF ExecInv
<1>12. QmdbIsFinalizedPrefix'
  BY <1>3 DEF QmdbIsFinalizedPrefix
<1>13. SnapshotsComplete'
  BY <1>1, <1>2, <1>3 DEF SnapshotsComplete, View, TypeOK, QmdbIsFinalizedPrefix
<1>14. WalkNeverMissesSnapshot'
  <2> SUFFICES ASSUME NEW d \in stored', NEW x \in Walk(d)'
               PROVE  x \in stored'
    BY DEF WalkNeverMissesSnapshot
  <2>1. d \in Block /\ x \in Block /\ x \in Anc(x)
    BY <1>2, SelfAncestor DEF TypeOK, Walk
  <2>2. x \notin persisted' /\ x \in Walk(d)
    BY <1>3, <2>1 DEF Walk
  <2> QED
    BY <1>2, <2>2 DEF WalkNeverMissesSnapshot
<1> QED
  BY <1>7, <1>8, <1>9, <1>10, <1>11, <1>12, <1>13, <1>14

\* A failed commit leaves its chain unpersisted and out of QMDB.
LEMMA AbandonPersistStep ==
    ASSUME IInv, NEW p \in Persister, AbandonPersist(p)
    PROVE  IInv'
<1> USE DEF IInv
<1>1. job[p].chain \cap qmdb = {}
  BY DEF AbandonPersist, JobInv
<1>2. /\ persisting' = persisting \ job[p].chain
      /\ job' = [job EXCEPT ![p] = NoJob]
      /\ UNCHANGED <<stored, overlay, changes, persisted, order, head, qmdb, exec>>
  BY SMTT(30) DEF AbandonPersist
<1>3. ASSUME NEW q \in Persister, q # p
      PROVE  job'[q] = job[q] /\ job[q].chain \cap job[p].chain = {}
  BY <1>2, <1>3 DEF JobInv, TypeOK
<1>4. job'[p] = NoJob
  BY <1>2 DEF TypeOK
<1>5. TypeOK'
  <2>1. NoJob \in JobType
    BY BlockTree DEF NoJob, JobType
  <2> QED
    BY <1>2, <2>1, SMTT(30) DEF TypeOK
<1>6. SettledInv' /\ ChangesInv' /\ QmdbInv' /\ QmdbIsFinalizedPrefix'
  BY <1>1, <1>2, SMTT(30) DEF SettledInv, Settled, ChangesInv, QmdbInv, QmdbIsFinalizedPrefix
<1>7. SnapshotsComplete' /\ WalkNeverMissesSnapshot' /\ ExecInv'
  BY <1>2, SMTT(30) DEF SnapshotsComplete, View, WalkNeverMissesSnapshot, Walk, ExecInv
<1>8. JobInv'
  BY <1>2, <1>3, <1>4 DEF JobInv, NoJob, Settled
<1> QED
  BY <1>5, <1>6, <1>7, <1>8, SMTT(30)

\* Every step of the ledger preserves the inductive invariant, one lemma per action.
LEMMA NextIInv == IInv /\ [Next]_vars => IInv'
<1> SUFFICES ASSUME IInv, [Next]_vars PROVE IInv'
  OBVIOUS
<1>1. ASSUME NEW w \in Worker, WorkerStep(w) PROVE IInv'
  BY <1>1, BeginExecuteStep, ExecuteStep, CheckRootStep, InsertSnapshotStep DEF WorkerStep
<1>2. ASSUME NEW p \in Persister, PersisterStep(p) PROVE IInv'
  BY <1>2, BeginPersistStep, CommitStep, CommitFailsStep, FinishPersistStep,
     AbandonPersistStep DEF PersisterStep
<1>3. ASSUME NEW b \in Block, RestoreCommitted(b) PROVE IInv'
  BY <1>3, RestoreCommittedStep
<1>4. CASE UNCHANGED vars
  <2>1. StoreInv' /\ JobInv'
    BY <1>4, StoreUnchanged, JobsUnchanged, SMTT(30) DEF vars, IInv, StoreInv
  <2>2. TypeOK' /\ ExecInv'
    BY <1>4 DEF vars, storeVars, IInv, TypeOK, ExecInv
  <2> QED
    BY <2>1, <2>2 DEF IInv, StoreInv
<1> QED
  BY <1>1, <1>2, <1>3, <1>4 DEF Next

\* The inductive invariant holds in every reachable state.
THEOREM LedgerInvariant == Spec => []IInv
<1>1. Init => IInv
  BY InitIInv
<1>2. IInv /\ [Next]_vars => IInv'
  BY NextIInv
<1> QED
  BY <1>1, <1>2, PTL DEF Spec

\* Every variable of the ledger keeps its type.
THEOREM LedgerTypeCorrect == Spec => []TypeOK
<1>1. IInv => TypeOK
  BY SMTT(30) DEF IInv
<1> QED
  BY <1>1, LedgerInvariant, PTL

\* However executions, commits, failures, compactions and evictions interleave,
\* persist_snapshot hands every block's changes to QMDB at most once.
THEOREM LedgerCommitsOnce == Spec => []NoDoubleCommit
<1>1. IInv => NoDoubleCommit
  BY DEF IInv, JobInv, NoDoubleCommit
<1> QED
  BY <1>1, LedgerInvariant, PTL

\* A cached snapshot always shows the effects of all its ancestors: compaction
\* and eviction never take away what QMDB does not hold yet.
THEOREM LedgerSnapshotsComplete == Spec => []SnapshotsComplete
<1>1. IInv => SnapshotsComplete
  BY DEF IInv
<1> QED
  BY <1>1, LedgerInvariant, PTL

\* QMDB holds a prefix of the finalized chain, at every instant.
THEOREM LedgerQmdbPrefix == Spec => []QmdbIsFinalizedPrefix
<1>1. IInv => QmdbIsFinalizedPrefix
  BY DEF IInv
<1> QED
  BY <1>1, LedgerInvariant, PTL

\* The walks of changes_for_persist and its siblings never return
\* SnapshotNotFound from a cached block.
THEOREM LedgerWalksComplete == Spec => []WalkNeverMissesSnapshot
<1>1. IInv => WalkNeverMissesSnapshot
  BY DEF IInv
<1> QED
  BY <1>1, LedgerInvariant, PTL

\* A digest is marked persisted only when QMDB holds its changes, as long as no
\* block is accepted on its certificate alone.
THEOREM LedgerPersistedCommitted == Spec => []PersistedIsCommitted
<1>1. IInv => PersistedIsCommitted
  BY DEF IInv, SettledInv, Settled, PersistedIsCommitted
<1> QED
  BY <1>1, LedgerInvariant, PTL

\* What persist_snapshot compacts after its commit is still cached then, so the
\* SnapshotNotFound in its second critical section is never returned.
THEOREM LedgerChainsStay == Spec => []ChainStaysCached
<1>1. IInv => ChainStaysCached
  BY DEF IInv, JobInv, ChainStaysCached
<1> QED
  BY <1>1, LedgerInvariant, PTL

=============================================================================
