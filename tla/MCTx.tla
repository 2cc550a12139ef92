-------------------------------- MODULE MCTx --------------------------------
(* UcanTx with two slots and two tags.  With two ticks to the second the    *)
(* rule bucket earns a token a tick and the aggregate one and a half; an arm*)
(* lasts two ticks and the guard one, so that arms, guards and reclaims     *)
(* overlap.                                                                 *)
EXTENDS UcanTx, TLC

CONSTANTS t1, t2

MCTags == {t1, t2}
MCSymmetry == Permutations(MCTags)
MCFill == [b \in Bucket |-> IF b = "rule" THEN 2 ELSE 3]
MCCapacity == [b \in Bucket |-> IF b = "rule" THEN 1 ELSE 2]
=============================================================================
