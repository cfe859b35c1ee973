----------------------------- MODULE MCRecovery -----------------------------
(* Instance of Recovery for TLC: the finalized chain b0 <- ... <- b4 with  *)
(* a checkpoint every second block.                                        *)
EXTENDS Recovery

CONSTANTS b0, b1, b2, b3, b4

Chain == <<b0, b1, b2, b3, b4>>

MCBlock == Range(Chain)
MCPath == [e \in MCBlock |-> SubSeq(Chain, 1, CHOOSE i \in DOMAIN Chain : Chain[i] = e)]
MCParent == [e \in MCBlock \ {b0} |-> MCPath[e][Len(MCPath[e]) - 1]]
=============================================================================
