----------------------------- MODULE Application ----------------------------
(***************************************************************************)
(* How the consensus application decides whether to vote for a block: the  *)
(* ancestry walk of `verify`, `verify_block` over the shared ledger, and   *)
(* the catch-up window after a restart, in which a block whose state       *)
(* cannot be reproduced is accepted on its certificate                     *)
(* (crates/node/runner/src/app.rs).  Several verify calls run at once, and *)
(* the finalization pipeline persists and evicts snapshots meanwhile.      *)
(***************************************************************************)
EXTENDS Ledger

CONSTANTS
    CatchUpThreshold,  \* CATCH_UP_THRESHOLD
    Invalid,           \* proposals whose declared root their execution does not give
    Time,              \* Time[b]: the block's timestamp
    Latest             \* now + MAX_FUTURE_TIMESTAMP_DRIFT

ASSUME ApplicationConstants ==
    /\ CatchUpThreshold \in Nat
    /\ Invalid \subseteq Block \ Finalized
    /\ Time \in [Block -> Nat]
    /\ Latest \in Nat

VARIABLES
    lastVerified,  \* last_verified_height
    todo,          \* todo[w]: blocks_to_verify of the call w is in, oldest first
    parentKnown,   \* parentKnown[w]: parent_ts is Some
    voted,         \* blocks for which verify returned true
    trusted,       \* history: blocks accepted on their certificate
    revisited      \* history: cached blocks at which an ancestry walk stopped

appVars == <<lastVerified, todo, parentKnown, voted, trusted, revisited>>
applicationVars == <<vars, appVars>>

\* recovered_height, set once at start-up; 0 on a fresh node.
RecoveredHeight == Height(Checkpoint)

AppInit ==
    /\ Init
    /\ lastVerified = RecoveredHeight
    /\ todo = [w \in Worker |-> <<>>]
    /\ parentKnown = [w \in Worker |-> FALSE]
    /\ voted = {} /\ trusted = {} /\ revisited = {}

IsCatchingUp(b) ==
    /\ RecoveredHeight > 0
    /\ Height(b) > RecoveredHeight
    /\ lastVerified < RecoveredHeight + CatchUpThreshold

\* Mutant: counts verified blocks instead of taking the highest one.
Raise_Counts(h) == lastVerified' = lastVerified + 1

Raise(h) == lastVerified' = IF h > lastVerified THEN h ELSE lastVerified

\* Mutant: only the future drift is checked.
TimestampOK_DriftOnly(w, b) == Time[b] <= Latest

TimestampOK(w, b) ==
    /\ parentKnown[w] => Time[b] >= Time[Parent[b]]
    /\ Time[b] <= Latest

-----------------------------------------------------------------------------
\* verify: walk from the tip to the first cached block; the ancestry ends above
\* genesis if there is none.
Verify(w, tip) ==
    LET cached == Anc(tip) \cap stored
        fresh  == SelectSeq(Path[tip], LAMBDA b : b # Genesis /\ \A c \in cached : b \notin Anc(c))
    IN
    /\ exec[w].pc = "idle" /\ todo[w] = <<>>
    /\ tip # Genesis
    /\ todo' = [todo EXCEPT ![w] = fresh]
    /\ parentKnown' = [parentKnown EXCEPT ![w] = cached # {}]
    /\ revisited' = revisited \cup {c \in cached : cached \subseteq Anc(c)}
    /\ voted' = IF fresh = <<>> THEN voted \cup {tip} ELSE voted
    /\ UNCHANGED <<vars, lastVerified, trusted>>


\* verify_block returned true for the oldest block of the list: the next one, or
\* the whole call returns true.
Accepted(w) ==
    /\ todo' = [todo EXCEPT ![w] = Tail(@)]
    /\ parentKnown' = [parentKnown EXCEPT ![w] = TRUE]
    /\ voted' = IF Len(todo[w]) = 1 THEN voted \cup {Head(todo[w])} ELSE voted

\* verify_block returned false: so does verify.
Rejected(w) ==
    /\ todo' = [todo EXCEPT ![w] = <<>>]
    /\ UNCHANGED <<lastVerified, parentKnown, voted, trusted, revisited>>

\* At the entry of verify_block for the oldest block of the list.
AtBlock(w, b) == exec[w].pc = "idle" /\ todo[w] # <<>> /\ b = Head(todo[w])

\* Another call cached the block since the walk.
AlreadyVerified(w, b) ==
    /\ AtBlock(w, b)
    /\ b \in stored
    /\ Raise(Height(b))
    /\ Accepted(w)
    /\ UNCHANGED <<vars, trusted, revisited>>

\* A timestamp before the parent's or in the future.
RejectTimestamp(w, b) ==
    /\ AtBlock(w, b)
    /\ b \notin stored
    /\ ~ IsCatchingUp(b) /\ ~ TimestampOK(w, b)
    /\ Rejected(w)
    /\ UNCHANGED vars

StartVerifyBlock(w, b) ==
    /\ AtBlock(w, b)
    /\ IsCatchingUp(b) \/ TimestampOK(w, b)
    /\ BeginExecute(w, b)
    /\ UNCHANGED appVars


\* The parent's snapshot is missing.
TrustWithoutParent(w, b) ==
    /\ AtBlock(w, b)
    /\ IsCatchingUp(b)
    /\ TrustMissingParent(w, b)
    /\ UNCHANGED appVars

RejectWithoutParent(w, b) ==
    /\ AtBlock(w, b)
    /\ b \notin stored /\ Parent[b] \notin stored
    /\ ~ IsCatchingUp(b) /\ TimestampOK(w, b)
    /\ Rejected(w)
    /\ UNCHANGED vars

ExecuteBlock(w) == Execute(w) /\ UNCHANGED appVars

\* Mutant: the root is computed and not compared with the declared one.
RootAccepted_NotCompared(w) == RootMatches(exec[w])

RootAccepted(w) == RootMatches(exec[w]) /\ exec[w].block \notin Invalid

PassRoot(w) ==
    /\ exec[w].pc = "root"
    /\ RootAccepted(w)
    /\ CheckRoot(w)
    /\ UNCHANGED appVars

\* Execution failed, or gave another root, or the root cannot be computed.
TrustDespiteRoot(w) ==
    /\ exec[w].pc = "root"
    /\ ~ RootAccepted(w)
    /\ IsCatchingUp(exec[w].block)
    /\ exec' = [exec EXCEPT ![w].pc = "trust"]
    /\ UNCHANGED <<storeVars, head, qmdb, job>>
    /\ UNCHANGED appVars

FailRoot(w) ==
    /\ exec[w].pc = "root"
    /\ ~ RootAccepted(w)
    /\ ~ IsCatchingUp(exec[w].block)
    /\ exec' = [exec EXCEPT ![w] = NoExec]
    /\ Rejected(w)
    /\ UNCHANGED <<storeVars, head, qmdb, job>>

\* Full verification: cache the snapshot, then advance last_verified_height.
AcceptBlock(w) ==
    /\ InsertSnapshot(w)
    /\ Raise(Height(exec[w].block))
    /\ Accepted(w)
    /\ UNCHANGED <<trusted, revisited>>


\* Certificate trust: restore_persisted_snapshot.
TrustBlock(w) ==
    /\ TrustCertificate(w)
    /\ Accepted(w)
    /\ trusted' = trusted \cup {exec[w].block}
    /\ UNCHANGED <<lastVerified, revisited>>

\* The finalization pipeline.
PersistStep(p) == PersisterStep(p) /\ UNCHANGED appVars

\* A trusted restore queued the chain's digests for eviction before the commit.
PersistStepMissing(p) == FinishPersistMissing(p) /\ UNCHANGED appVars

AppNext ==
    \/ \E w \in Worker, b \in Block :
         \/ Verify(w, b)
         \/ AlreadyVerified(w, b)
         \/ RejectTimestamp(w, b)
         \/ StartVerifyBlock(w, b)
         \/ TrustWithoutParent(w, b)
         \/ RejectWithoutParent(w, b)
    \/ \E w \in Worker :
         \/ ExecuteBlock(w) \/ PassRoot(w) \/ TrustDespiteRoot(w) \/ FailRoot(w)
         \/ AcceptBlock(w) \/ TrustBlock(w)
    \/ \E p \in Persister : PersistStep(p) \/ PersistStepMissing(p)

AppSpec == AppInit /\ [][AppNext]_applicationVars

-----------------------------------------------------------------------------
(* Properties                                                              *)

\* Every variable of the application has its type.
AppTypeOK ==
    /\ lastVerified \in {Height(b) : b \in Block}
    /\ todo \in [Worker -> Seq(Block)]
    /\ parentKnown \in [Worker -> BOOLEAN]
    /\ voted \subseteq Block /\ trusted \subseteq Block /\ revisited \subseteq Block


\* A node that trusts no certificate accepts a block only if execution gives its
\* root, whatever is persisted or evicted while verify_block runs.
NoInvalidVote == voted \cap Invalid \subseteq trusted

\* Accepted blocks never move the clock backwards relative to their parent, also
\* when the parent was cached by another call or is itself being verified.
VotedTimestampsMonotone ==
    \A b \in voted \ trusted : Time[b] >= Time[Parent[b]]


\* The early return of verify_block "WILL advance last_verified_height when this
\* block is encountered again in a future ancestry walk, ensuring the catch-up
\* window eventually closes" (verify_block, after trusting a certificate).
RevisitAdvancesWindow ==
    \A b \in trusted \cap revisited : lastVerified >= Height(b)
=============================================================================
