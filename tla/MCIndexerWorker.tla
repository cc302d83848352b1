--------------------------- MODULE MCIndexerWorker ---------------------------
(* Two workers, two transactions of two events, one fault. *)
EXTENDS IndexerWorker
=============================================================================
