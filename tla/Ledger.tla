------------------------------- MODULE Ledger -------------------------------
(***************************************************************************)
(* The ledger view of one node: the in-memory snapshot store layered over  *)
(* QMDB, and the two-phase persistence of snapshots                        *)
(* (crates/node/ledger/src/lib.rs and                                      *)
(* crates/node/consensus/src/components/snapshot.rs).                      *)
(*                                                                         *)
(* Data abstraction.  A block is identified with its digest.  A change set *)
(* is the set of the blocks whose effects it carries, so "the state that a *)
(* reader observes" is a set of blocks: the effects in the overlay plus    *)
(* the effects committed to QMDB.  The state that a block's root commits   *)
(* to is exactly the set of the block's ancestors and itself.              *)
(*                                                                         *)
(* Every snapshot's state handle has the live QMDB as its base: an overlay *)
(* is fixed when the snapshot is made, what lies under it is not.          *)
(***************************************************************************)
EXTENDS Integers, Sequences, FiniteSets, Functions

CONSTANTS
    Block,         \* digests of every block consensus may certify, forks included
    Genesis,
    Parent,        \* Parent[b], for every block but genesis
    Path,          \* Path[b]: the digests from genesis to b, oldest first
    Finalized,     \* the blocks of the finalized chain
    Checkpoint,    \* the block the QMDB on disk is at when the process starts
    Worker,        \* tasks that execute a block and insert its snapshot
    Persister,     \* tasks inside persist_snapshot
    MaxRetained    \* max_persisted_retained

\* The block and its ancestors.
Anc(b) == Range(Path[b])

Height(b) == Len(Path[b]) - 1

ASSUME BlockTree ==
    /\ Genesis \in Block
    /\ Parent \in [Block \ {Genesis} -> Block]
    /\ Path \in [Block -> Seq(Block)]
    /\ Path[Genesis] = <<Genesis>>
    /\ \A b \in Block \ {Genesis} :
         /\ Path[b] = Append(Path[Parent[b]], b)
         /\ b \notin Anc(Parent[b])
    /\ \A b \in Block : Genesis \in Anc(b)
    /\ \A b, c \in Block : c \in Anc(b) => Anc(c) \subseteq Anc(b)

\* Consensus safety: finalized blocks form one chain.
ASSUME FinalizedChain ==
    /\ Finalized \subseteq Block
    /\ Checkpoint \in Finalized
    /\ \A b, c \in Finalized : b \in Anc(c) \/ c \in Anc(b)
    /\ \A b \in Finalized : Anc(b) \subseteq Finalized

ASSUME RetentionBoundAssumption == MaxRetained \in Nat

VARIABLES
    stored,      \* the keys of `snapshots`
    overlay,     \* overlay[b]: the changes layered over QMDB by b's snapshot
    changes,     \* changes[b]: the change set that b's snapshot holds for persistence
    persisted,   \* digests marked persisted
    persisting,  \* digests marked in flight
    order,       \* persisted_order, oldest first
    head,        \* digest of the last snapshot inserted
    qmdb,        \* the blocks whose changes QMDB contains
    exec,        \* exec[w]: the execution that worker w is in
    job          \* job[p]: the persist_snapshot call that p is in

storeVars == <<stored, overlay, changes, persisted, persisting, order>>
vars == <<storeVars, head, qmdb, exec, job>>

NoExec == [pc |-> "idle", block |-> Genesis, overlay |-> {}, view |-> {}]
NoJob  == [pc |-> "idle", tip |-> Genesis, chain |-> {}, delta |-> {}]

-----------------------------------------------------------------------------
(* Initial state: init_with_config_and_genesis_options inserts the genesis *)
(* snapshot, marked persisted; start-up recovery then restores the block   *)
(* that QMDB is at.  A fresh node has Checkpoint = Genesis.                *)

Init ==
    /\ stored = {Genesis, Checkpoint}
    /\ overlay = [b \in Block |-> {}]
    /\ changes = [b \in Block |-> {}]
    /\ persisted = {Genesis, Checkpoint}
    /\ persisting = {}
    /\ order = IF Checkpoint = Genesis THEN <<Genesis>> ELSE <<Genesis, Checkpoint>>
    /\ head = Checkpoint
    /\ qmdb = Anc(Checkpoint)
    /\ exec = [w \in Worker |-> NoExec]
    /\ job = [p \in Persister |-> NoJob]

-----------------------------------------------------------------------------
(* Executing a block: the calls that verify_block, finalize_block and      *)
(* replay_finalized_block make, in their order.                            *)

\* No snapshot for the block; clone the parent's.
BeginExecute(w, b) ==
    /\ exec[w].pc = "idle"
    /\ b # Genesis
    /\ b \notin stored
    /\ Parent[b] \in stored
    /\ exec' = [exec EXCEPT ![w] =
                  [pc |-> "exec", block |-> b, overlay |-> overlay[Parent[b]], view |-> {}]]
    /\ UNCHANGED <<storeVars, head, qmdb, job>>

\* Run the transactions over the parent's overlay and the QMDB of this moment.
Execute(w) ==
    /\ exec[w].pc = "exec"
    /\ exec' = [exec EXCEPT ![w] = [pc |-> "root", block |-> @.block, overlay |-> @.overlay,
                                    view |-> @.overlay \cup qmdb]]
    /\ UNCHANGED <<storeVars, head, qmdb, job>>

\* compute_root_from_store: the root equals the block's iff the execution saw
\* exactly the parent's state; the parent's snapshot must still be there.
RootMatches(e) ==
    /\ Parent[e.block] \in stored
    /\ e.view = Anc(Parent[e.block])

\* Insert b's snapshot, make it the head and wake the waiters.
Insert(b, ov, ch) ==
    /\ stored' = stored \cup {b}
    /\ overlay' = [overlay EXCEPT ![b] = ov]
    /\ changes' = [changes EXCEPT ![b] = ch]
    /\ head' = b

CheckRoot(w) ==
    /\ exec[w].pc = "root"
    /\ exec' = [exec EXCEPT ![w] = IF RootMatches(@) THEN [@ EXCEPT !.pc = "insert"] ELSE NoExec]
    /\ UNCHANGED <<storeVars, head, qmdb, job>>

\* Mutant: the parent's overlay is not merged into the new one.
InsertSnapshot_OwnOverlay(w) ==
    /\ exec[w].pc = "insert"
    /\ LET b == exec[w].block IN Insert(b, {b}, {b})
    /\ exec' = [exec EXCEPT ![w] = NoExec]
    /\ UNCHANGED <<persisted, persisting, order, qmdb, job>>

InsertSnapshot(w) ==
    /\ exec[w].pc = "insert"
    /\ LET b == exec[w].block IN Insert(b, exec[w].overlay \cup {b}, {b})
    /\ exec' = [exec EXCEPT ![w] = NoExec]
    /\ UNCHANGED <<persisted, persisting, order, qmdb, job>>

-----------------------------------------------------------------------------
(* restore_persisted_snapshot: an empty overlay over the current QMDB,     *)
(* marked persisted.                                                       *)

\* Mutant: the digest is queued again although it is already marked.
RestorePersistedSnapshot_AlwaysQueues(b) ==
    /\ Insert(b, {}, {})
    /\ persisted' = persisted \cup {b}
    /\ order' = Append(order, b)
    /\ UNCHANGED <<persisting, qmdb, job>>

RestorePersistedSnapshot(b) ==
    /\ Insert(b, {}, {})
    /\ persisted' = persisted \cup {b}
    /\ order' = IF b \in persisted THEN order ELSE Append(order, b)
    /\ UNCHANGED <<persisting, qmdb, job>>

\* Start-up recovery and cache prepopulation restore blocks QMDB contains.
RestoreCommitted(b) ==
    /\ b \in qmdb \ persisting
    /\ b \notin stored
    /\ RestorePersistedSnapshot(b)
    /\ UNCHANGED exec

\* verify_block during catch-up and finalize_block without a parent snapshot
\* accept a block on the strength of its certificate; verify_block does so also
\* when the execution does not reproduce the block's root.
TrustMissingParent(w, b) ==
    /\ exec[w].pc = "idle"
    /\ b # Genesis
    /\ b \notin stored
    /\ Parent[b] \notin stored
    /\ exec' = [exec EXCEPT ![w] = [NoExec EXCEPT !.pc = "trust", !.block = b]]
    /\ UNCHANGED <<storeVars, head, qmdb, job>>

\* The restore that follows does not look again whether the block is cached.
TrustCertificate(w) ==
    /\ exec[w].pc = "trust"
    /\ RestorePersistedSnapshot(exec[w].block)
    /\ exec' = [exec EXCEPT ![w] = NoExec]

-----------------------------------------------------------------------------
(* persist_snapshot(d): one critical section, the commit, a second         *)
(* critical section.                                                       *)

\* Mutant: only the requested digest, not its unpersisted ancestors.
Walk_TipOnly(b) == {b} \ persisted

\* changes_for_persist walks from b towards genesis and stops at the first
\* persisted digest.
Walk(b) == {x \in Anc(b) : \A y \in Anc(b) : x \in Anc(y) => y \notin persisted}

\* Mutant: the in-flight markers are not consulted.
CanPersistChain_IgnoresInFlight(chain) == chain \cap persisted = {}

CanPersistChain(chain) == chain \cap (persisted \cup persisting) = {}

BeginPersist(p, d) ==
    /\ job[p].pc = "idle"
    /\ Walk(d) # {}
    /\ Walk(d) \subseteq stored
    /\ CanPersistChain(Walk(d))
    /\ persisting' = persisting \cup Walk(d)
    /\ job' = [job EXCEPT ![p] =
                 [pc |-> "commit", tip |-> d, chain |-> Walk(d),
                  delta |-> UNION {changes[x] : x \in Walk(d)}]]
    /\ UNCHANGED <<stored, overlay, changes, persisted, order, head, qmdb, exec>>

\* qmdb.commit_changes, without the ledger lock.
Commit(p) ==
    /\ job[p].pc = "commit"
    /\ qmdb' = qmdb \cup job[p].delta
    /\ job' = [job EXCEPT ![p].pc = "committed"]
    /\ UNCHANGED <<storeVars, head, exec>>

\* Mutants: the error is swallowed; it leads to a state nothing handles.
CommitFails_Swallowed(p) ==
    /\ job[p].pc = "commit"
    /\ job' = [job EXCEPT ![p].pc = "committed"]
    /\ UNCHANGED <<storeVars, head, qmdb, exec>>

CommitFails_Unhandled(p) ==
    /\ job[p].pc = "commit"
    /\ job' = [job EXCEPT ![p].pc = "error"]
    /\ UNCHANGED <<storeVars, head, qmdb, exec>>

CommitFails(p) ==
    /\ job[p].pc = "commit"
    /\ job' = [job EXCEPT ![p].pc = "failed"]
    /\ UNCHANGED <<storeVars, head, qmdb, exec>>

\* mark_persisted appends what was not yet marked, in chain order.
Marked(p) ==
    order \o SelectSeq(Path[job[p].tip],
                       LAMBDA x : x \in job[p].chain /\ x \notin persisted)

\* evict_persisted pops the oldest entries beyond the limit.
Excess(queue) == IF Len(queue) > MaxRetained THEN Len(queue) - MaxRetained ELSE 0

Evicted(queue) == Range(SubSeq(queue, 1, Excess(queue)))

\* Mutants: the persisted marker is dropped with the evicted snapshot; the chain
\* is compacted and never marked.
FinishPersist_EvictsMarker(p) ==
    LET chain == job[p].chain IN
    /\ job[p].pc = "committed"
    /\ chain \subseteq stored
    /\ overlay' = [b \in Block |-> IF b \in chain THEN {} ELSE overlay[b]]
    /\ changes' = [b \in Block |-> IF b \in chain THEN {} ELSE changes[b]]
    /\ persisting' = persisting \ chain
    /\ persisted' = (persisted \cup chain) \ Evicted(Marked(p))
    /\ stored' = stored \ Evicted(Marked(p))
    /\ order' = SubSeq(Marked(p), Excess(Marked(p)) + 1, Len(Marked(p)))
    /\ job' = [job EXCEPT ![p] = NoJob]
    /\ UNCHANGED <<head, qmdb, exec>>

FinishPersist_Unmarked(p) ==
    /\ job[p].pc = "committed"
    /\ job[p].chain \subseteq stored
    /\ persisting' = persisting \ job[p].chain
    /\ job' = [job EXCEPT ![p] = NoJob]
    /\ UNCHANGED <<stored, overlay, changes, persisted, order, head, qmdb, exec>>

\* Compact the chain's snapshots, mark them persisted, evict.
FinishPersist(p) ==
    LET chain == job[p].chain IN
    /\ job[p].pc = "committed"
    /\ chain \subseteq stored
    /\ overlay' = [b \in Block |-> IF b \in chain THEN {} ELSE overlay[b]]
    /\ changes' = [b \in Block |-> IF b \in chain THEN {} ELSE changes[b]]
    /\ persisting' = persisting \ chain
    /\ persisted' = persisted \cup chain
    /\ stored' = stored \ (Evicted(Marked(p)) \cap persisted')
    /\ order' = SubSeq(Marked(p), Excess(Marked(p)) + 1, Len(Marked(p)))
    /\ job' = [job EXCEPT ![p] = NoJob]
    /\ UNCHANGED <<head, qmdb, exec>>

\* A snapshot of the chain is gone: the older ones are compacted, then the
\* call returns SnapshotNotFound without marking anything.  Not a step of this
\* module's Next, where ChainStaysCached excludes it; certificate trust makes it
\* possible (Application).
FinishPersistMissing(p) ==
    LET chain == job[p].chain
        done  == {x \in chain : \A y \in chain : y \in Anc(x) => y \in stored}
    IN
    /\ job[p].pc = "committed"
    /\ ~ chain \subseteq stored
    /\ overlay' = [b \in Block |-> IF b \in done THEN {} ELSE overlay[b]]
    /\ changes' = [b \in Block |-> IF b \in done THEN {} ELSE changes[b]]
    /\ persisting' = persisting \ chain
    /\ job' = [job EXCEPT ![p] = NoJob]
    /\ UNCHANGED <<stored, persisted, order, head, qmdb, exec>>

AbandonPersist(p) ==
    /\ job[p].pc = "failed"
    /\ persisting' = persisting \ job[p].chain
    /\ job' = [job EXCEPT ![p] = NoJob]
    /\ UNCHANGED <<stored, overlay, changes, persisted, order, head, qmdb, exec>>

-----------------------------------------------------------------------------
WorkerStep(w) ==
    \/ \E b \in Block : BeginExecute(w, b)
    \/ Execute(w)
    \/ CheckRoot(w)
    \/ InsertSnapshot(w)

PersisterStep(p) ==
    \/ \E d \in Finalized : BeginPersist(p, d)
    \/ Commit(p)
    \/ CommitFails(p)
    \/ FinishPersist(p)
    \/ AbandonPersist(p)

Next ==
    \/ \E w \in Worker : WorkerStep(w)
    \/ \E p \in Persister : PersisterStep(p)
    \/ \E b \in Block : RestoreCommitted(b)

Spec == Init /\ [][Next]_vars

-----------------------------------------------------------------------------
(* Properties                                                              *)

ExecType ==
    [pc : {"idle", "exec", "root", "insert", "trust"}, block : Block,
     overlay : SUBSET Block, view : SUBSET Block]

JobType ==
    [pc : {"idle", "commit", "committed", "failed"}, tip : Block,
     chain : SUBSET Block, delta : SUBSET Block]

\* Every variable of the ledger but the eviction queue has its type; QueueSound
\* speaks of the queue.
TypeOK ==
    /\ stored \subseteq Block
    /\ overlay \in [Block -> SUBSET Block]
    /\ changes \in [Block -> SUBSET Block]
    /\ persisted \subseteq Block
    /\ persisting \subseteq Block
    /\ head \in Block
    /\ qmdb \subseteq Block
    /\ exec \in [Worker -> ExecType]
    /\ job \in [Persister -> JobType]

\* What a reader of b's snapshot observes now.
View(b) == overlay[b] \cup qmdb

\* Reading a cached snapshot never misses the effect of an ancestor, however
\* commits, compactions and evictions interleave: compaction drops an overlay
\* only once QMDB holds all of it.  Nothing beyond the block's own chain and
\* what QMDB holds is ever visible.
SnapshotsComplete ==
    \A b \in stored : Anc(b) \subseteq View(b) /\ overlay[b] \subseteq Anc(b)

\* persist_snapshot never hands QMDB a change that QMDB already has, and no
\* two calls in flight share a digest: every block is committed at most once.
NoDoubleCommit ==
    \A p \in Persister : job[p].pc = "commit" =>
        /\ job[p].delta \cap qmdb = {}
        /\ \A q \in Persister \ {p} : job[p].chain \cap job[q].chain = {}

\* QMDB always holds a prefix of the finalized chain: a commit never leaves a
\* gap below a block whose changes it writes.
QmdbIsFinalizedPrefix ==
    /\ qmdb \subseteq Finalized
    /\ \A b \in qmdb : Anc(b) \subseteq qmdb

\* Eviction never opens a gap: walking from a cached snapshot towards genesis
\* meets only cached snapshots until it meets a persisted digest, so
\* changes_for_persist, merged_changes and collect_pending_tx_ids succeed.
WalkNeverMissesSnapshot ==
    \A b \in stored : Walk(b) \subseteq stored

\* The eviction queue holds every digest at most once and only persisted ones,
\* although restores and persists mark the same digest: its length is the number
\* of digests that evict_persisted compares with the retention limit.
QueueSound ==
    /\ Range(order) \subseteq persisted
    /\ \A i, j \in DOMAIN order : order[i] = order[j] => i = j

\* A digest is marked persisted only when QMDB holds its changes ("has been
\* persisted to QMDB", is_snapshot_persisted).
PersistedIsCommitted == persisted \subseteq qmdb

\* The snapshots that persist_snapshot compacts after its commit are still cached
\* then, although other calls evict while the lock is released: the commit is
\* never left unmarked by a SnapshotNotFound.
ChainStaysCached == \A p \in Persister : job[p].chain \subseteq stored

=============================================================================
