----------------------------- MODULE StoreClients -----------------------------
(***************************************************************************)
(* FileStore under arbitrary clients: inside its lease a process starts    *)
(* any store call with any base, does not have to await it, and may go on  *)
(* calling after its callback has returned, until the lease ends.          *)
(***************************************************************************)
EXTENDS FileStore

CONSTANTS Cursors, Projections, Stamps,  \* what snapshots are made of
          AlertIds, Contents             \* what alerts are made of

Snapshots == [cursor : Cursors, projection : Projections, at : Stamps]
Alerts == [id : AlertIds, content : Contents]

ClientsNext ==
    \/ \E p \in Proc : BeginLease(p) \/ CallbackReturns(p) \/ EndLease(p) \/ Crash(p)
    \/ \E p \in Proc, s \in Slot :
          \/ \E snapshot \in Snapshots, base \in {live["snapshot"], NoSnapshot} :
                SaveSnapshot(p, s, snapshot, base, lease[p])
          \/ \E alert \in Alerts : AppendAlerts(p, s, {alert}, lease[p])
          \/ StoreStep(p, s) \/ Settle(p, s)
    \/ PowerLoss
    \/ \E l \in Lock : RemoveStaleLock(l)

ClientsSpec == StoreInit /\ [][ClientsNext]_storeVars

-----------------------------------------------------------------------------
\* A call that holds the lock of a store file belongs to the process whose
\* writer lock exists and whose lease is the one the call was made under,
\* although callbacks return without awaiting their calls
\* (withExclusiveWriter drains pendingLeaseMutations before the lease ends).
WritesUnderLease ==
    \A p \in Proc, s \in Slot :
        LET c == call[p][s] IN
        c.stage \in {"locked", "write", "sync", "unlock"} /\ c.file # "delivered" =>
            lock["writer"] = p /\ lease[p] = c.token

\* Whatever has been acknowledged as journaled is in the journal with the
\* content it was acknowledged with, whoever else appended meanwhile, across
\* crashes, and across a power loss once the directory was synced
\* (appendAlertsUnderLease).
AcknowledgedAlertsKept ==
    /\ acked \subseteq live["alerts"]
    /\ SameAlerts(live["alerts"], live["alerts"])

\* The snapshot file is replaced only by a writer that named the very
\* snapshot it replaces, and never by an earlier cursor or by another state
\* at the same cursor, although the check and the rename are separate steps
\* (saveSnapshotUnderLease).  A power loss may bring the previous one back.
ReplacesItsBase ==
    [][live'["snapshot"] # live["snapshot"] /\ faults' = faults =>
         \E p \in Proc, s \in Slot :
            /\ call[p][s].stage = "write" /\ call[p][s].file = "snapshot"
            /\ call[p][s].arg = live'["snapshot"]
            /\ call[p][s].base = live["snapshot"]
            /\ Monotonic(live["snapshot"], live'["snapshot"])]_storeVars
=============================================================================
