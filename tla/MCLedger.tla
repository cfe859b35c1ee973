------------------------------ MODULE MCLedger ------------------------------
(* Instance of Ledger for TLC: a finalized chain b0 <- b1 <- b2 <- b3 with *)
(* a block x that lost against b2.                                         *)
EXTENDS Ledger, TLC

CONSTANTS b0, b1, b2, b3, x

Chain == <<b0, b1, b2, b3>>

MCBlock == {b0, b1, b2, b3, x}
MCFinalized == Range(Chain)
MCPath == [e \in MCBlock |->
    IF e = x THEN <<b0, b1, x>> ELSE SubSeq(Chain, 1, CHOOSE i \in DOMAIN Chain : Chain[i] = e)]
MCParent == [e \in MCBlock \ {b0} |-> MCPath[e][Len(MCPath[e]) - 1]]

\* The tasks are interchangeable.
Tasks == Permutations(Worker) \cup Permutations(Persister)
=============================================================================
