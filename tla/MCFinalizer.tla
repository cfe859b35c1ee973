----------------------------- MODULE MCFinalizer ----------------------------
(* Instances of Finalizer for TLC: the finalized chain b0 <- ... <- b4, or *)
(* its prefix up to b2.                                                    *)
EXTENDS Finalizer

CONSTANTS b0, b1, b2, b3, b4

Chain == <<b0, b1, b2, b3, b4>>

FourBlocks == Range(Chain)
TwoBlocks == {b0, b1, b2}
MCPath == [e \in Block |-> SubSeq(Chain, 1, CHOOSE i \in DOMAIN Chain : Chain[i] = e)]
MCParent == [e \in Block \ {b0} |-> MCPath[e][Len(MCPath[e]) - 1]]
=============================================================================
