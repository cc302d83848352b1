---------------------------- MODULE CheckpointLog ----------------------------
(***************************************************************************)
(* What the indexer promises of its checkpoint, whatever runs underneath:  *)
(* the chain grows, and the checkpoint moves forward over whole            *)
(* transactions, all of which replay and reconcile.  Only a loss of power  *)
(* may set it back.                                                        *)
(***************************************************************************)
EXTENDS Naturals, Sequences

VARIABLES history,     \* history[v]: "clean" when transaction v replays and reconciles
          checkpoint,  \* the last ledger version the durable snapshot covers
          losses       \* faults so far

logVars == <<history, checkpoint, losses>>

Reconciles(n) == \A v \in 1..n : history[v] = "clean"

Init == history = <<>> /\ checkpoint = 0 /\ losses = 0

Extend ==
    /\ Len(history') = Len(history) + 1
    /\ \A v \in DOMAIN history : history'[v] = history[v]
    /\ UNCHANGED <<checkpoint, losses>>

Advance ==
    /\ checkpoint' \in checkpoint + 1 .. Len(history)
    /\ Reconciles(checkpoint')
    /\ UNCHANGED <<history, losses>>

Lose ==
    /\ losses' = losses + 1
    /\ checkpoint' \in 0..checkpoint
    /\ UNCHANGED history

Next == Extend \/ Advance \/ Lose

Spec == Init /\ [][Next]_logVars
=============================================================================
