-------------------------------- MODULE MCSpool --------------------------------
(* SpoolPipeline on a few events and flushers.                               *)
EXTENDS SpoolPipeline

CONSTANTS e1, e2

MCSize  == [e \in Events |-> 1]
MCSizes == [e \in Events |-> IF e = e1 THEN 2 ELSE 1]

===============================================================================
