------------------------------ MODULE MCReadModel ------------------------------
(* The read-model cache with the configured request and one time window.     *)
EXTENDS ReadModelCache

CONSTANTS config, window

MCKeys == {config, window}

===============================================================================
