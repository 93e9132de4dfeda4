--------------------------- MODULE MCAnnotations ---------------------------
(* Parameters for model checking Annotations.                              *)
EXTENDS Annotations, TLC

CONSTANTS c1, c2

MCClients == {c1, c2}
MCSteps   == {1, 2}
MCStart   == c1 :> 1 @@ c2 :> 2
MCReach   == {"nobody", "others"}
=============================================================================
