---------------------------- MODULE MCApplication ---------------------------
(* Instances of Application for TLC: the finalized chain b0 <- ... <- b3   *)
(* or its prefix up to b2, and two proposals on b1: the root of x is wrong,*)
(* the timestamp of y is behind its parent's.                              *)
EXTENDS Application, TLC

CONSTANTS b0, b1, b2, b3, x, y

Chain == <<b0, b1, b2, b3>>

FreshBlocks == {b0, b1, b2, x, y}
CatchUpBlocks == {b0, b1, b2, b3, x}
MCFinalized == Block \ {x, y}
WrongRoot == {x}
MCPath == [e \in Block |->
    IF e \in {x, y} THEN <<b0, b1, e>>
    ELSE SubSeq(Chain, 1, CHOOSE i \in DOMAIN Chain : Chain[i] = e)]
MCParent == [e \in Block \ {b0} |-> MCPath[e][Len(MCPath[e]) - 1]]

\* Heights as timestamps, except for y.
MCTime == [e \in Block |-> IF e = y THEN 0 ELSE Height(e)]

\* The tasks are interchangeable.
Tasks == Permutations(Worker) \cup Permutations(Persister)
=============================================================================
