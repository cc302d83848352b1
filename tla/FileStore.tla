------------------------------ MODULE FileStore ------------------------------
(***************************************************************************)
(* The durable store of the indexer (packages/indexer/src/file-store.ts):  *)
(* exclusive lock files, atomic replacement of a file, and the writer      *)
(* lease under which a snapshot or a batch of alerts may be written.       *)
(*                                                                         *)
(* A process runs one writer callback at a time.  Its store calls are      *)
(* asynchronous: each one advances through its awaits as separate steps,   *)
(* and the callback may return without awaiting them.  The third file,     *)
(* "delivered", is the one of the alert sink of worker.ts, which is built  *)
(* from the same lock and the same atomic write and needs no lease.        *)
(***************************************************************************)
EXTENDS Naturals, FiniteSets

CONSTANTS
    Proc,        \* writer processes sharing the durable directory
    Slot,        \* store calls one process may have under way at once
    NoSnapshot,  \* no snapshot file exists, or the caller names no base
    Free,        \* no lock file exists
    MaxFaults    \* bound: crashes, power losses and failed I/O in a behaviour

ASSUME StoreAssumption ==
    /\ Proc # {} /\ Slot # {}
    /\ Free \notin Proc
    /\ MaxFaults \in Nat

VARIABLES
    lock,     \* lock[l]: the process whose pid the lock file l holds, or Free
    live,     \* live[f]: what a reader of file f sees
    synced,   \* synced[f]: what a power loss leaves of file f at the least
    lease,    \* lease[p]: activeLease of p's store, 0 is null
    issued,   \* issued[p]: the token last issued to p; tokens alternate
    phase,    \* phase[p]: "out" of a lease, "in" the callback, "returned" from it
    call,     \* call[p][s]: a store call of p in progress
    acked,    \* alerts whose append was acknowledged (history)
    faults    \* faults so far

storeVars == <<lock, live, synced, lease, issued, phase, call, acked, faults>>

File == {"snapshot", "alerts", "delivered"}
Lock == File \cup {"writer"}

(***************************************************************************)
(* Cursors, ordered by ledger version and then by event index.             *)
(***************************************************************************)
CursorLess(c, d) == c[1] < d[1] \/ (c[1] = d[1] /\ c[2] < d[2])

\* The state a snapshot stands for: everything but the time it was taken.
SnapshotState(s) == <<s.cursor, s.projection>>

Idle == [stage |-> "idle"]

Quiet(p) == \A s \in Slot : call[p][s] = Idle

StoreInit ==
    /\ lock = [l \in Lock |-> Free]
    /\ live = [f \in File |-> IF f = "snapshot" THEN NoSnapshot ELSE {}]
    /\ synced = live
    /\ lease = [p \in Proc |-> 0]
    /\ issued = [p \in Proc |-> 1]
    /\ phase = [p \in Proc |-> "out"]
    /\ call = [p \in Proc |-> [s \in Slot |-> Idle]]
    /\ acked = {}
    /\ faults = 0

Fault == faults < MaxFaults /\ faults' = faults + 1
NoFault == faults' = faults

-----------------------------------------------------------------------------
(***************************************************************************)
(* withExclusiveWriter: the callback starts once the writer's lock file    *)
(* has been created, and otherwise fails at once, changing nothing.  The   *)
(* lease ends only when every tracked call has settled.                    *)
(***************************************************************************)
\* Mutant: the lock file is opened without O_EXCL.
OpensLock(l) == TRUE

CreatesLock(l) == lock[l] = Free

BeginLease(p) ==
    /\ phase[p] = "out"
    /\ CreatesLock("writer")
    /\ lock' = [lock EXCEPT !["writer"] = p]
    /\ issued' = [issued EXCEPT ![p] = 3 - @]
    /\ lease' = [lease EXCEPT ![p] = issued'[p]]
    /\ phase' = [phase EXCEPT ![p] = "in"]
    /\ UNCHANGED <<live, synced, call, acked, faults>>

\* The callback's promise settles, fulfilled or rejected.
CallbackReturns(p) ==
    /\ phase[p] = "in"
    /\ phase' = [phase EXCEPT ![p] = "returned"]
    /\ UNCHANGED <<lock, live, synced, lease, issued, call, acked, faults>>

\* Mutant: the lease ends with the callback, pending calls or not.
NotDrained(p) == TRUE

\* pendingLeaseMutations is empty.
Drained(p) == Quiet(p)

\* unlink is attempted and its failure swallowed: the lock file may stay.
Unlink(l) ==
    \/ lock' = [lock EXCEPT ![l] = Free] /\ NoFault
    \/ lock' = lock /\ Fault

EndLease(p) ==
    /\ phase[p] = "returned"
    /\ Drained(p)
    /\ lease' = [lease EXCEPT ![p] = 0]
    /\ phase' = [phase EXCEPT ![p] = "out"]
    /\ Unlink("writer")
    /\ UNCHANGED <<live, synced, issued, call, acked>>

-----------------------------------------------------------------------------
(***************************************************************************)
(* A store call: assertActiveLease and a clone of the arguments, the       *)
(* file's own lock, load and check, temporary file and rename, directory   *)
(* sync, unlink of the lock.                                               *)
(***************************************************************************)
SetCall(p, s, c) == call' = [call EXCEPT ![p][s] = c]

HoldsLease(p, token) == token = lease[p] /\ lease[p] # 0

\* saveSnapshot
SaveSnapshot(p, s, snapshot, base, token) ==
    /\ call[p][s] = Idle /\ HoldsLease(p, token)
    /\ SetCall(p, s, [stage |-> "open", file |-> "snapshot", arg |-> snapshot,
                      base |-> base, token |-> token])
    /\ UNCHANGED <<lock, live, synced, lease, issued, phase, acked, faults>>

\* appendAlerts; an empty batch is a no-op
AppendAlerts(p, s, alerts, token) ==
    /\ call[p][s] = Idle /\ HoldsLease(p, token) /\ alerts # {}
    /\ SetCall(p, s, [stage |-> "open", file |-> "alerts", arg |-> alerts,
                      base |-> NoSnapshot, token |-> token])
    /\ UNCHANGED <<lock, live, synced, lease, issued, phase, acked, faults>>

\* FileCriticalAlertSink.deliver: one alert, no lease
Deliver(p, s, alert) ==
    /\ call[p][s] = Idle
    /\ SetCall(p, s, [stage |-> "open", file |-> "delivered", arg |-> {alert},
                      base |-> NoSnapshot, token |-> 0])
    /\ UNCHANGED <<lock, live, synced, lease, issued, phase, acked, faults>>

\* withExclusiveFileLock, open with O_EXCL: contention rejects the call.
OpenLock(p, s) ==
    LET c == call[p][s] IN
    /\ c.stage = "open"
    /\ \/ /\ CreatesLock(c.file)
          /\ lock' = [lock EXCEPT ![c.file] = p]
          /\ SetCall(p, s, [c EXCEPT !.stage = "locked"])
       \/ /\ ~CreatesLock(c.file)
          /\ lock' = lock
          /\ SetCall(p, s, [stage |-> "rejected", file |-> c.file])
    /\ UNCHANGED <<live, synced, lease, issued, phase, acked, faults>>

LeaseStillHeld(p, c) == c.file = "delivered" \/ HoldsLease(p, c.token)

\* Mutant: the cursor alone decides whether a snapshot may be replaced.
IgnoresBase(c) == TRUE

\* Mutant: the caller's base is not passed on.
ExpectsNoBase(c) == live["snapshot"] = NoSnapshot

\* saveSnapshotUnderLease: the durable snapshot is the base the caller restored
MatchesBase(c) == live["snapshot"] = c.base

\* assertMonotonicSnapshot
Monotonic(existing, candidate) ==
    existing # NoSnapshot =>
        \/ CursorLess(existing.cursor, candidate.cursor)
        \/ SnapshotState(existing) = SnapshotState(candidate)

\* Mutant: an alert journaled before is an error, not a retry.
NewAlerts(existing, incoming) ==
    \A a \in existing, b \in incoming : a.id # b.id

\* equivalentCriticalAlert: an identifier keeps its content
SameAlerts(existing, incoming) ==
    \A a \in existing \cup incoming, b \in incoming : a.id = b.id => a = b

Admissible(p, c) ==
    /\ LeaseStillHeld(p, c)
    /\ IF c.file = "snapshot"
       THEN MatchesBase(c) /\ Monotonic(live[c.file], c.arg)
       ELSE SameAlerts(live[c.file], c.arg)

\* What the file is replaced by: alerts are merged by identifier.
Replacement(c) == IF c.file = "snapshot" THEN c.arg ELSE live[c.file] \cup c.arg

\* The sink writes nothing for an alert it has delivered before.
AfterLoad(c) ==
    IF c.file = "delivered" /\ c.arg \subseteq live[c.file] THEN "unlock" ELSE "write"

\* The existing content is read and checked; a refusal unlinks the lock.
Load(p, s) ==
    LET c == call[p][s] IN
    /\ c.stage = "locked"
    /\ \/ /\ Admissible(p, c)
          /\ SetCall(p, s, [c EXCEPT !.stage = AfterLoad(c), !.arg = Replacement(c)])
          /\ UNCHANGED <<lock, faults>>
       \/ /\ ~Admissible(p, c)
          /\ SetCall(p, s, [stage |-> "rejected", file |-> c.file])
          /\ Unlink(c.file)
    /\ UNCHANGED <<live, synced, lease, issued, phase, acked>>

\* writeFileAtomically up to the rename; any failure removes the temporary,
\* and then the lock, if that does not fail too.
Rename(p, s) ==
    LET c == call[p][s] IN
    /\ c.stage = "write"
    /\ \/ /\ live' = [live EXCEPT ![c.file] = c.arg]
          /\ SetCall(p, s, [c EXCEPT !.stage = "sync"])
          /\ UNCHANGED <<lock, faults>>
       \/ /\ Fault
          /\ lock' \in {lock, [lock EXCEPT ![c.file] = Free]}
          /\ SetCall(p, s, [stage |-> "rejected", file |-> c.file])
          /\ UNCHANGED live
    /\ UNCHANGED <<synced, lease, issued, phase, acked>>

\* Directory sync, whose failure is ignored.
SyncDirectory(p, s) ==
    LET c == call[p][s] IN
    /\ c.stage = "sync"
    /\ \/ synced' = [synced EXCEPT ![c.file] = live[c.file]] /\ NoFault
       \/ synced' = synced /\ Fault
    /\ SetCall(p, s, [c EXCEPT !.stage = "unlock"])
    /\ UNCHANGED <<lock, live, lease, issued, phase, acked>>

\* The lock is unlinked and the call's promise fulfilled.
Acknowledge(p, s) ==
    LET c == call[p][s] IN
    /\ c.stage = "unlock"
    /\ Unlink(c.file)
    /\ SetCall(p, s, [stage |-> "fulfilled", file |-> c.file])
    /\ acked' = IF c.file = "alerts" THEN acked \cup c.arg ELSE acked
    /\ UNCHANGED <<live, synced, lease, issued, phase>>

\* The settled promise is observed and forgotten.
Settle(p, s) ==
    /\ call[p][s].stage \in {"fulfilled", "rejected"}
    /\ SetCall(p, s, Idle)
    /\ UNCHANGED <<lock, live, synced, lease, issued, phase, acked, faults>>

StoreStep(p, s) ==
    \/ OpenLock(p, s) \/ Load(p, s) \/ Rename(p, s)
    \/ SyncDirectory(p, s) \/ Acknowledge(p, s)

-----------------------------------------------------------------------------
(***************************************************************************)
(* Faults and the operator.  A crash leaves files and lock files as they   *)
(* are.  A power loss ends every process; a rename whose directory was not *)
(* synced, and a lock file, may or may not survive it.  The operator       *)
(* removes a lock file only when no writer is running.                     *)
(***************************************************************************)
Stopped(p) == phase[p] = "out" /\ Quiet(p)

Kill(P) ==
    /\ lease' = [p \in Proc |-> IF p \in P THEN 0 ELSE lease[p]]
    /\ phase' = [p \in Proc |-> IF p \in P THEN "out" ELSE phase[p]]
    /\ call' = [p \in Proc |-> IF p \in P THEN [s \in Slot |-> Idle] ELSE call[p]]

Crash(p) ==
    /\ ~Stopped(p)
    /\ Fault
    /\ Kill({p})
    /\ UNCHANGED <<lock, live, synced, issued, acked>>

PowerLoss ==
    /\ Fault
    /\ Kill(Proc)
    /\ \E lost \in SUBSET {f \in File : live[f] # synced[f]} :
          live' = [f \in File |-> IF f \in lost THEN synced[f] ELSE live[f]]
    /\ \E gone \in SUBSET {l \in Lock : lock[l] # Free} :
          lock' = [l \in Lock |-> IF l \in gone THEN Free ELSE lock[l]]
    /\ synced' = live'
    /\ acked' = acked \cap synced["alerts"]
    /\ UNCHANGED issued

RemoveStaleLock(l) ==
    /\ lock[l] # Free
    /\ \A p \in Proc : Stopped(p)
    /\ lock' = [lock EXCEPT ![l] = Free]
    /\ UNCHANGED <<live, synced, lease, issued, phase, call, acked, faults>>
=============================================================================
