----------------------------- MODULE StoreProofs -----------------------------
(***************************************************************************)
(* The durable store is safe for any number of processes, concurrent calls *)
(* and faults, under arbitrary clients and under the worker.  Its          *)
(* inductive invariant joins three facts that hold only together: a call   *)
(* in progress was made under the current lease of a process that owns the *)
(* writer's lock; a file's lock belongs to one call at a time; and what    *)
(* such a call has read is what the file still holds.                      *)
(*                                                                         *)
(* The second half is about the worker: every snapshot it lets near the    *)
(* store is a state of the chain, so it implements the checkpoint log.     *)
(***************************************************************************)
EXTENDS StoreClients, IndexerWorker, SumLemmas

\* What the clients of either module save and journal: any snapshot and alert of
\* StoreClients' constants, and the ones the worker makes.
WorkerSnapshots == [cursor : Nat \X Nat, projection : SUBSET (Nat \X Nat), at : Times]
SavedSnapshots == Snapshots \cup WorkerSnapshots
RaisedAlerts ==
    Alerts \cup [id : ({"event"} \X Nat) \cup ({"reconcile"} \X (Nat \X Nat)),
                 content : {"true", "part"}]

Snapshot == SavedSnapshots \cup {NoSnapshot}
InProgress == {"open", "locked", "write", "sync", "unlock"}
Locked == {"locked", "write", "sync", "unlock"}

Settled == [stage : {"fulfilled", "rejected"}, file : File]
Saving == [stage : InProgress, file : {"snapshot"}, arg : SavedSnapshots,
           base : Snapshot, token : {1, 2}]
Appending == [stage : InProgress, file : {"alerts"}, arg : SUBSET RaisedAlerts,
              base : {NoSnapshot}, token : {1, 2}]
Delivering == [stage : InProgress, file : {"delivered"}, arg : SUBSET RaisedAlerts,
               base : {NoSnapshot}, token : {0}]
Call == {Idle} \cup Settled \cup Saving \cup Appending \cup Delivering

StoreTypeOK ==
    /\ lock \in [Lock -> Proc \cup {Free}]
    /\ DOMAIN live = File
    /\ live["snapshot"] \in Snapshot /\ live["alerts"] \in SUBSET RaisedAlerts
    /\ live["delivered"] \in SUBSET RaisedAlerts
    /\ DOMAIN synced = File
    /\ synced["snapshot"] \in Snapshot /\ synced["alerts"] \in SUBSET RaisedAlerts
    /\ synced["delivered"] \in SUBSET RaisedAlerts
    /\ lease \in [Proc -> {0, 1, 2}]
    /\ issued \in [Proc -> {1, 2}]
    /\ phase \in [Proc -> {"out", "in", "returned"}]
    /\ call \in [Proc -> [Slot -> Call]]
    /\ acked \in SUBSET RaisedAlerts
    /\ faults \in Nat

\* A lease exists exactly while its process owns the writer's lock file.
LeaseOwnsLock ==
    \A p \in Proc :
        /\ lease[p] # 0 <=> phase[p] # "out"
        /\ phase[p] # "out" => lock["writer"] = p

\* A store call in progress runs under the lease it was made with; the sink's
\* calls need none.
CallsLeased ==
    \A p \in Proc, s \in Slot :
        call[p][s].stage \in InProgress /\ call[p][s].file # "delivered" =>
            call[p][s].token = lease[p] /\ lease[p] # 0

\* A file's lock is the lock of one call.
LocksExclusive ==
    /\ \A p \in Proc, s \in Slot :
          call[p][s].stage \in Locked => lock[call[p][s].file] = p
    /\ \A p, q \in Proc, s, t \in Slot :
          /\ call[p][s].stage \in Locked /\ call[q][t].stage \in Locked
          /\ call[p][s].file = call[q][t].file
          => p = q /\ s = t

\* What a call read before it writes is still there.
ReadsCurrent ==
    \A p \in Proc, s \in Slot :
        LET c == call[p][s] IN
        /\ c.stage = "write" /\ c.file = "snapshot" =>
              c.base = live["snapshot"] /\ Monotonic(live["snapshot"], c.arg)
        /\ c.stage = "write" /\ c.file = "alerts" =>
              live["alerts"] \subseteq c.arg /\ SameAlerts(c.arg, c.arg)
        /\ c.stage \in {"sync", "unlock"} /\ c.file = "alerts" =>
              c.arg = live["alerts"]

JournalsSound ==
    AcknowledgedAlertsKept /\ SameAlerts(synced["alerts"], synced["alerts"])

StoreInv ==
    /\ StoreTypeOK
    /\ LeaseOwnsLock
    /\ CallsLeased
    /\ LocksExclusive
    /\ ReadsCurrent
    /\ JournalsSound

-----------------------------------------------------------------------------
(* Calls *)

\* The states of a call, as the steps of a store call tell them apart.
LEMMA CallStages ==
    ASSUME NEW c \in Call
    PROVE  /\ c.stage \in InProgress => c \in Saving \cup Appending \cup Delivering
           /\ c.stage \in InProgress =>
                 c.file \in File /\ (c.file # "delivered" => c.token \in {1, 2})
           /\ c.stage \in InProgress /\ c.file = "snapshot" => c \in Saving
           /\ c.stage \in InProgress /\ c.file = "alerts" => c \in Appending
           /\ c.stage \in InProgress /\ c.file = "delivered" => c \in Delivering
           /\ c.stage \in Locked => c.stage \in InProgress
BY DEF Call, Idle, Settled, Saving, Appending, Delivering, InProgress, Locked, File

\* Initially nothing is held, called or written.
LEMMA InitStoreInv == StoreInit => StoreInv
<1> SUFFICES ASSUME StoreInit PROVE StoreInv
    OBVIOUS
<1>1. \A p \in Proc, s \in Slot : call[p][s] = Idle
    BY DEF StoreInit
<1>2. \A p \in Proc, s \in Slot : call[p][s].stage = "idle"
    BY <1>1 DEF Idle
<1>3. StoreTypeOK
    BY StoreAssumption DEF StoreInit, StoreTypeOK, Call, Snapshot, File, Lock
<1>4. LeaseOwnsLock
    BY DEF StoreInit, LeaseOwnsLock
<1>5. CallsLeased /\ LocksExclusive /\ ReadsCurrent
    BY <1>2 DEF CallsLeased, LocksExclusive, ReadsCurrent, InProgress, Locked
<1>6. JournalsSound
    BY DEF StoreInit, JournalsSound, AcknowledgedAlertsKept, SameAlerts, File
<1> QED
    BY <1>3, <1>4, <1>5, <1>6 DEF StoreInv

-----------------------------------------------------------------------------
(* The lease *)

\* BeginLease: the writer's lock was free, so no other lease exists.
LEMMA BeginLeaseKeeps ==
    ASSUME StoreInv, NEW p \in Proc, BeginLease(p)
    PROVE  StoreInv'
<1> USE DEF StoreInv
<1>0. \A q \in Proc : phase[q] = "out" /\ lease[q] = 0
    BY StoreAssumption DEF BeginLease, CreatesLock, LeaseOwnsLock
<1>1. \A q \in Proc, s \in Slot :
         call[q][s].stage \in InProgress => call[q][s].file = "delivered"
    BY <1>0 DEF CallsLeased
<1>2. StoreTypeOK'
    BY DEF StoreTypeOK, BeginLease, Lock
<1>3. LeaseOwnsLock'
    BY <1>0 DEF StoreTypeOK, BeginLease, LeaseOwnsLock, Lock
<1>4. CallsLeased'
    BY <1>1 DEF BeginLease, CallsLeased
<1>5. LocksExclusive'
  <2>1. \A q \in Proc, s \in Slot : call[q][s].stage \in Locked =>
           call[q][s].file = "delivered" /\ "delivered" \in Lock
    BY <1>1 DEF InProgress, Locked, Lock, File
  <2>2. lock'["delivered"] = lock["delivered"] /\ call' = call
    BY DEF BeginLease, StoreTypeOK, Lock, File
  <2> QED
    BY <2>1, <2>2 DEF LocksExclusive
<1>6. ReadsCurrent' /\ JournalsSound'
    BY DEF BeginLease, ReadsCurrent, JournalsSound, AcknowledgedAlertsKept, SameAlerts
<1> QED
    BY <1>2, <1>3, <1>4, <1>5, <1>6

\* CallbackReturns: the lease outlives its callback.
LEMMA CallbackReturnsKeeps ==
    ASSUME StoreInv, NEW p \in Proc, CallbackReturns(p)
    PROVE  StoreInv'
<1> USE DEF StoreInv
<1>1. StoreTypeOK'
    BY DEF StoreTypeOK, CallbackReturns
<1>2. LeaseOwnsLock'
    BY DEF StoreTypeOK, CallbackReturns, LeaseOwnsLock
<1>3. CallsLeased' /\ LocksExclusive' /\ ReadsCurrent'
    BY DEF CallbackReturns, CallsLeased, LocksExclusive, ReadsCurrent
<1>4. JournalsSound'
    BY DEF CallbackReturns, JournalsSound, AcknowledgedAlertsKept, SameAlerts
<1> QED
    BY <1>1, <1>2, <1>3, <1>4

\* EndLease: every call of the process has settled.
LEMMA EndLeaseKeeps ==
    ASSUME StoreInv, NEW p \in Proc, EndLease(p)
    PROVE  StoreInv'
<1> USE DEF StoreInv
<1>0. \A s \in Slot : call[p][s].stage = "idle"
    BY DEF EndLease, Drained, Quiet, Idle
<1>1. \A q \in Proc : q # p => phase[q] = "out"
    BY DEF EndLease, LeaseOwnsLock
<1>2. StoreTypeOK'
    BY DEF StoreTypeOK, EndLease, Unlink, Fault, NoFault, Lock
<1>3. LeaseOwnsLock'
    BY <1>1 DEF StoreTypeOK, EndLease, LeaseOwnsLock
<1>4. CallsLeased'
    BY <1>0 DEF StoreTypeOK, EndLease, CallsLeased, InProgress
<1>5. \A q \in Proc, s \in Slot : call[q][s].stage \in Locked =>
         call[q][s].file \in File
    BY CallStages DEF StoreTypeOK
<1>6. LocksExclusive'
    BY <1>5 DEF StoreTypeOK, EndLease, Unlink, LocksExclusive, Lock, File
<1>7. ReadsCurrent' /\ JournalsSound'
    BY DEF EndLease, ReadsCurrent, JournalsSound, AcknowledgedAlertsKept, SameAlerts
<1> QED
    BY <1>2, <1>3, <1>4, <1>6, <1>7

-----------------------------------------------------------------------------
(* One call changes *)

\* A step of one call leaves every other call alone.
LEMMA CallSet ==
    ASSUME StoreTypeOK, NEW p \in Proc, NEW s \in Slot, NEW c \in Call,
           call' = [call EXCEPT ![p][s] = c]
    PROVE  /\ call' \in [Proc -> [Slot -> Call]]
           /\ call'[p][s] = c
           /\ \A q \in Proc, t \in Slot :
                 q # p \/ t # s => call'[q][t] = call[q][t]
<1>1. call \in [Proc -> [Slot -> Call]]
    BY DEF StoreTypeOK
<1>2. call[p] \in [Slot -> Call]
    BY <1>1
<1>3. call' = [call EXCEPT ![p] = [call[p] EXCEPT ![s] = c]]
    OBVIOUS
<1>4. call'[p] = [call[p] EXCEPT ![s] = c]
    BY <1>1, <1>3
<1>5. [call[p] EXCEPT ![s] = c] \in [Slot -> Call]
    BY <1>2
<1>6. call' \in [Proc -> [Slot -> Call]]
    BY <1>1, <1>3, <1>5
<1>7. call'[p][s] = c /\ \A t \in Slot : t # s => call'[p][t] = call[p][t]
    BY <1>2, <1>4
<1>8. \A q \in Proc : q # p => call'[q] = call[q]
    BY <1>1, <1>3
<1> QED
    BY <1>6, <1>7, <1>8

\* saveSnapshot and appendAlerts start a call under the current lease, the
\* sink's deliver under none.
LEMMA StartKeeps ==
    ASSUME StoreInv, NEW p \in Proc, NEW s \in Slot, NEW c \in Call,
           call' = [call EXCEPT ![p][s] = c],
           c.stage = "open",
           c.file # "delivered" => c.token = lease[p] /\ lease[p] # 0,
           UNCHANGED <<lock, live, synced, lease, issued, phase, acked, faults>>
    PROVE  StoreInv'
<1> USE DEF StoreInv
<1>0. /\ call' \in [Proc -> [Slot -> Call]]
      /\ call'[p][s] = c
      /\ \A q \in Proc, t \in Slot : q # p \/ t # s => call'[q][t] = call[q][t]
    BY CallSet, ZenonT(60)
<1>1. StoreTypeOK'
    BY <1>0 DEF StoreTypeOK
<1>2. LeaseOwnsLock'
    BY DEF LeaseOwnsLock
<1>3. CallsLeased'
    BY <1>0 DEF CallsLeased
<1>4. c.stage \notin Locked
    BY DEF Locked
<1>5. LocksExclusive'
    BY <1>0, <1>4 DEF LocksExclusive
<1>6. ReadsCurrent'
    BY <1>0 DEF ReadsCurrent
<1>7. JournalsSound'
    BY DEF JournalsSound, AcknowledgedAlertsKept, SameAlerts
<1> QED
    BY <1>1, <1>2, <1>3, <1>5, <1>6, <1>7

\* A call settles and releases the lock it holds, if it holds one.
LEMMA ReleaseKeeps ==
    ASSUME StoreInv, NEW p \in Proc, NEW s \in Slot, NEW c \in Call,
           call' = [call EXCEPT ![p][s] = c],
           c.stage \notin InProgress,
           \/ lock' = lock
           \/ /\ call[p][s].stage \in Locked
              /\ lock' = [lock EXCEPT ![call[p][s].file] = Free],
           UNCHANGED <<live, synced, lease, issued, phase>>,
           acked' \in SUBSET RaisedAlerts, acked' \subseteq live["alerts"],
           faults' \in Nat
    PROVE  StoreInv'
<1> USE DEF StoreInv
<1>0. /\ call' \in [Proc -> [Slot -> Call]]
      /\ call'[p][s] = c
      /\ \A q \in Proc, t \in Slot : q # p \/ t # s => call'[q][t] = call[q][t]
    BY CallSet, ZenonT(60)
<1>1. \A q \in Proc, t \in Slot : call[q][t].stage \in Locked =>
         call[q][t].file \in File
    BY CallStages DEF StoreTypeOK
<1>2. /\ lock' \in [Lock -> Proc \cup {Free}]
      /\ lock'["writer"] = lock["writer"]
      /\ \A f \in Lock :
            \/ lock'[f] = lock[f]
            \/ call[p][s].stage \in Locked /\ f = call[p][s].file
  <2>1. lock \in [Lock -> Proc \cup {Free}]
    BY DEF StoreTypeOK
  <2>2. CASE lock' = lock
    BY <2>1, <2>2
  <2>3. CASE /\ call[p][s].stage \in Locked
             /\ lock' = [lock EXCEPT ![call[p][s].file] = Free]
    <3>1. call[p][s].file \in Lock /\ call[p][s].file # "writer" /\ "writer" \in Lock
        BY <1>1, <2>3 DEF Lock, File
    <3> QED
        BY <2>1, <2>3, <3>1
  <2> QED
    BY <2>2, <2>3
<1>3. StoreTypeOK'
    BY <1>0, <1>2 DEF StoreTypeOK
<1>4. LeaseOwnsLock'
    BY <1>2 DEF LeaseOwnsLock
<1>5. CallsLeased'
    BY <1>0 DEF CallsLeased
<1>6. c.stage \notin Locked /\ c.stage \notin {"write", "sync", "unlock"}
    BY DEF Locked, InProgress
<1>7. LocksExclusive'
  <2>1. ASSUME NEW q \in Proc, NEW t \in Slot, call'[q][t].stage \in Locked
        PROVE  lock'[call'[q][t].file] = q
    <3>1. call'[q][t] = call[q][t] /\ (q # p \/ t # s)
        BY <1>0, <1>6, <2>1
    <3>2. call[q][t].file \in Lock
        BY <1>1, <2>1, <3>1 DEF Lock, File
    <3>3. lock[call[q][t].file] = q
        BY <2>1, <3>1 DEF LocksExclusive
    <3>4. lock'[call[q][t].file] = lock[call[q][t].file]
        BY <1>2, <2>1, <3>1, <3>2 DEF LocksExclusive
    <3> QED
        BY <3>1, <3>3, <3>4
  <2> QED
    BY <2>1, <1>0, <1>6 DEF LocksExclusive
<1>8. ReadsCurrent'
    BY <1>0, <1>6 DEF ReadsCurrent
<1>9. JournalsSound'
    BY DEF JournalsSound, AcknowledgedAlertsKept, SameAlerts
<1> QED
    BY <1>3, <1>4, <1>5, <1>7, <1>8, <1>9

-----------------------------------------------------------------------------
(* The steps of a call *)

\* saveSnapshot
LEMMA SaveSnapshotKeeps ==
    ASSUME StoreInv, NEW p \in Proc, NEW s \in Slot, NEW snapshot \in SavedSnapshots,
           NEW base \in Snapshot, SaveSnapshot(p, s, snapshot, base, lease[p])
    PROVE  StoreInv'
<1>1. PICK c : c = [stage |-> "open", file |-> "snapshot", arg |-> snapshot,
                    base |-> base, token |-> lease[p]]
    OBVIOUS
<1>2. lease[p] \in {1, 2}
    BY DEF SaveSnapshot, HoldsLease, StoreInv, StoreTypeOK
<1>3. c \in Call
    BY <1>1, <1>2 DEF Call, Saving, InProgress
<1>4. /\ call' = [call EXCEPT ![p][s] = c]
      /\ lease[p] # 0
      /\ UNCHANGED <<lock, live, synced, lease, issued, phase, acked, faults>>
    BY <1>1 DEF SaveSnapshot, SetCall, HoldsLease
<1> QED
    BY <1>1, <1>3, <1>4, StartKeeps

\* appendAlerts
LEMMA AppendAlertsKeeps ==
    ASSUME StoreInv, NEW p \in Proc, NEW s \in Slot, NEW alerts \in SUBSET RaisedAlerts,
           AppendAlerts(p, s, alerts, lease[p])
    PROVE  StoreInv'
<1>1. PICK c : c = [stage |-> "open", file |-> "alerts", arg |-> alerts,
                    base |-> NoSnapshot, token |-> lease[p]]
    OBVIOUS
<1>2. lease[p] \in {1, 2}
    BY DEF AppendAlerts, HoldsLease, StoreInv, StoreTypeOK
<1>3. c \in Call
    BY <1>1, <1>2 DEF Call, Appending, InProgress
<1>4. /\ call' = [call EXCEPT ![p][s] = c]
      /\ lease[p] # 0
      /\ UNCHANGED <<lock, live, synced, lease, issued, phase, acked, faults>>
    BY <1>1 DEF AppendAlerts, SetCall, HoldsLease
<1> QED
    BY <1>1, <1>3, <1>4, StartKeeps

\* deliver
LEMMA DeliverKeeps ==
    ASSUME StoreInv, NEW p \in Proc, NEW s \in Slot, NEW alert \in RaisedAlerts,
           Deliver(p, s, alert)
    PROVE  StoreInv'
<1>1. PICK c : c = [stage |-> "open", file |-> "delivered", arg |-> {alert},
                    base |-> NoSnapshot, token |-> 0]
    OBVIOUS
<1>2. c \in Call
    BY <1>1 DEF Call, Delivering, InProgress
<1>3. /\ call' = [call EXCEPT ![p][s] = c]
      /\ UNCHANGED <<lock, live, synced, lease, issued, phase, acked, faults>>
    BY <1>1 DEF Deliver, SetCall
<1> QED
    BY <1>1, <1>2, <1>3, StartKeeps

\* A settled call has released its lock before.
LEMMA SettleKeeps ==
    ASSUME StoreInv, NEW p \in Proc, NEW s \in Slot, Settle(p, s)
    PROVE  StoreInv'
<1>1. Idle \in Call /\ Idle.stage \notin InProgress
    BY DEF Call, Idle, InProgress
<1>2. /\ call' = [call EXCEPT ![p][s] = Idle]
      /\ UNCHANGED <<lock, live, synced, lease, issued, phase, acked, faults>>
    BY DEF Settle, SetCall
<1>3. acked' \in SUBSET RaisedAlerts /\ acked' \subseteq live["alerts"] /\ faults' \in Nat
    BY <1>2 DEF StoreInv, StoreTypeOK, JournalsSound, AcknowledgedAlertsKept
<1> QED
    BY <1>1, <1>2, <1>3, ReleaseKeeps

\* A call moves on, holding the lock of its file: what it has read is still
\* there, because no other call holds that lock.
LEMMA AdvanceKeeps ==
    ASSUME StoreInv, NEW p \in Proc, NEW s \in Slot, NEW c \in Call,
           SetCall(p, s, c),
           call[p][s].stage \in Locked, c.stage \in Locked,
           c.file = call[p][s].file, c.token = call[p][s].token,
           UNCHANGED <<lock, lease, issued, phase, acked>>
    PROVE  /\ call' \in [Proc -> [Slot -> Call]]
           /\ call'[p][s] = c
           /\ LeaseOwnsLock' /\ CallsLeased' /\ LocksExclusive'
           /\ \A q \in Proc, t \in Slot : q # p \/ t # s =>
                 /\ call'[q][t] = call[q][t]
                 /\ call'[q][t].stage \in Locked => call'[q][t].file # c.file
<1> USE DEF StoreInv
<1>0. /\ call' \in [Proc -> [Slot -> Call]]
      /\ call'[p][s] = c
      /\ \A q \in Proc, t \in Slot : q # p \/ t # s => call'[q][t] = call[q][t]
  <2>1. call' = [call EXCEPT ![p][s] = c]
    BY DEF SetCall
  <2> QED
    BY <2>1, CallSet, ZenonT(60)
<1>1. LeaseOwnsLock'
    BY DEF LeaseOwnsLock
<1>2. call[p][s].stage \in InProgress
    BY DEF Locked, InProgress
<1>3. CallsLeased'
    BY <1>0, <1>2 DEF CallsLeased
<1>4. \A q \in Proc, t \in Slot :
         (q # p \/ t # s) /\ call'[q][t].stage \in Locked => call'[q][t].file # c.file
    BY <1>0 DEF LocksExclusive
<1>5. LocksExclusive'
  <2>1. ASSUME NEW q \in Proc, NEW t \in Slot, call'[q][t].stage \in Locked
        PROVE  lock'[call'[q][t].file] = q
    <3>1. CASE q = p /\ t = s
        BY <1>0, <3>1 DEF LocksExclusive
    <3>2. CASE q # p \/ t # s
        BY <1>0, <2>1, <3>2 DEF LocksExclusive
    <3> QED
        BY <3>1, <3>2
  <2>2. ASSUME NEW q \in Proc, NEW t \in Slot, NEW r \in Proc, NEW u \in Slot,
               call'[q][t].stage \in Locked, call'[r][u].stage \in Locked,
               call'[q][t].file = call'[r][u].file
        PROVE  q = r /\ t = u
    BY <1>0, <1>4, <2>2 DEF LocksExclusive
  <2> QED
    BY <2>1, <2>2 DEF LocksExclusive
<1> QED
    BY <1>0, <1>1, <1>3, <1>4, <1>5

\* withExclusiveFileLock: the lock file is created, or the call is rejected.
LEMMA OpenLockKeeps ==
    ASSUME StoreInv, NEW p \in Proc, NEW s \in Slot, OpenLock(p, s)
    PROVE  StoreInv'
<1> USE DEF StoreInv
<1>1. call[p][s] \in Call /\ call[p][s].stage = "open"
    BY DEF OpenLock, StoreTypeOK
<1>2. /\ call[p][s] \in Saving \cup Appending \cup Delivering
      /\ call[p][s].file \in File
    BY <1>1, CallStages DEF InProgress
<1>3. CASE /\ CreatesLock(call[p][s].file)
           /\ lock' = [lock EXCEPT ![call[p][s].file] = p]
           /\ SetCall(p, s, [call[p][s] EXCEPT !.stage = "locked"])
  <2>1. PICK c : c = [call[p][s] EXCEPT !.stage = "locked"]
    OBVIOUS
  <2>2. /\ c \in Call /\ c.stage = "locked"
        /\ c.file = call[p][s].file /\ c.token = call[p][s].token
    BY <1>2, <2>1 DEF Call, Saving, Appending, Delivering, InProgress
  <2>3. /\ call' \in [Proc -> [Slot -> Call]]
        /\ call'[p][s] = c
        /\ \A q \in Proc, t \in Slot : q # p \/ t # s => call'[q][t] = call[q][t]
    BY <1>3, <2>1, <2>2, CallSet, ZenonT(60) DEF SetCall
  <2>4. c.file \in Lock /\ c.file # "writer" /\ "writer" \in Lock
    BY <1>2, <2>2 DEF Lock, File
  <2>5. lock \in [Lock -> Proc \cup {Free}]
    BY DEF StoreTypeOK
  <2>6. /\ lock' \in [Lock -> Proc \cup {Free}]
        /\ lock'["writer"] = lock["writer"]
        /\ lock'[c.file] = p
        /\ \A f \in Lock : f # c.file => lock'[f] = lock[f]
    BY <1>3, <2>2, <2>4, <2>5
  <2>7. \A q \in Proc, t \in Slot : call[q][t].stage \in Locked =>
           call[q][t].file \in Lock /\ call[q][t].file # c.file
    <3>1. \A q \in Proc, t \in Slot : call[q][t].stage \in Locked =>
             call[q][t].file \in Lock
        BY CallStages DEF StoreTypeOK, Lock, File
    <3>2. \A q \in Proc, t \in Slot : call[q][t].stage \in Locked =>
             lock[call[q][t].file] # Free
        BY StoreAssumption DEF LocksExclusive
    <3> QED
        BY <1>3, <2>2, <3>1, <3>2 DEF CreatesLock
  <2>8. UNCHANGED <<live, synced, lease, issued, phase, acked, faults>>
    BY DEF OpenLock
  <2>9. StoreTypeOK'
    BY <2>3, <2>6, <2>8 DEF StoreTypeOK
  <2>10. LeaseOwnsLock'
    BY <2>6, <2>8 DEF LeaseOwnsLock
  <2>11. CallsLeased'
    BY <1>1, <2>2, <2>3, <2>8 DEF CallsLeased, InProgress
  <2>12. LocksExclusive'
    <3>1. ASSUME NEW q \in Proc, NEW t \in Slot, call'[q][t].stage \in Locked
          PROVE  lock'[call'[q][t].file] = q
      <4>1. CASE q = p /\ t = s
        BY <2>3, <2>6, <4>1
      <4>2. CASE q # p \/ t # s
        BY <2>3, <2>6, <2>7, <3>1, <4>2 DEF LocksExclusive
      <4> QED
        BY <4>1, <4>2
    <3>2. ASSUME NEW q \in Proc, NEW t \in Slot, call'[q][t].stage \in Locked,
                 q # p \/ t # s
          PROVE  call'[q][t] = call[q][t] /\ call'[q][t].file # call'[p][s].file
      BY <2>3, <2>7, <3>2
    <3> QED
      BY <3>1, <3>2 DEF LocksExclusive
  <2>13. ReadsCurrent'
    BY <2>2, <2>3, <2>8 DEF ReadsCurrent
  <2>14. JournalsSound'
    BY <2>8 DEF JournalsSound, AcknowledgedAlertsKept, SameAlerts
  <2> QED
    BY <2>9, <2>10, <2>11, <2>12, <2>13, <2>14
<1>4. CASE /\ lock' = lock
           /\ SetCall(p, s, [stage |-> "rejected", file |-> call[p][s].file])
  <2>1. PICK c : c = [stage |-> "rejected", file |-> call[p][s].file]
    OBVIOUS
  <2>2. c \in Call /\ c.stage \notin InProgress
    BY <1>2, <2>1 DEF Call, Settled, InProgress, File
  <2>3. /\ call' = [call EXCEPT ![p][s] = c]
        /\ UNCHANGED <<live, synced, lease, issued, phase, acked, faults>>
    BY <1>4, <2>1 DEF OpenLock, SetCall
  <2>4. acked' \in SUBSET RaisedAlerts /\ acked' \subseteq live["alerts"] /\ faults' \in Nat
    BY <2>3 DEF StoreTypeOK, JournalsSound, AcknowledgedAlertsKept
  <2> QED
    BY <1>4, <2>2, <2>3, <2>4, ReleaseKeeps
<1> QED
    BY <1>3, <1>4 DEF OpenLock

\* A batch that agrees with a journal whose identifiers are unique leaves one.
LEMMA MergeKeepsIdentifiers ==
    ASSUME NEW E, NEW I, SameAlerts(E, E), SameAlerts(E, I)
    PROVE  SameAlerts(E \cup I, E \cup I)
BY DEF SameAlerts

\* The content is loaded and checked under the file's lock, or refused.
LEMMA LoadKeeps ==
    ASSUME StoreInv, NEW p \in Proc, NEW s \in Slot, Load(p, s)
    PROVE  StoreInv'
<1> USE DEF StoreInv
<1>1. call[p][s] \in Call /\ call[p][s].stage = "locked" /\ call[p][s].stage \in Locked
    BY DEF Load, StoreTypeOK, Locked
<1>2. /\ call[p][s] \in Saving \cup Appending \cup Delivering
      /\ call[p][s].file \in File
      /\ call[p][s].file = "snapshot" => call[p][s] \in Saving
      /\ call[p][s].file = "alerts" => call[p][s] \in Appending
      /\ call[p][s].file = "delivered" => call[p][s] \in Delivering
    BY <1>1, CallStages DEF InProgress
<1>3. CASE /\ Admissible(p, call[p][s])
           /\ SetCall(p, s, [call[p][s] EXCEPT !.stage = AfterLoad(call[p][s]),
                                               !.arg = Replacement(call[p][s])])
           /\ UNCHANGED <<lock, faults>>
  <2>1. PICK c : c = [call[p][s] EXCEPT !.stage = AfterLoad(call[p][s]),
                                        !.arg = Replacement(call[p][s])]
    OBVIOUS
  <2>2. call[p][s].file # "delivered" => AfterLoad(call[p][s]) = "write"
    BY DEF AfterLoad
  <2>3. CASE call[p][s].file = "snapshot"
    <3>1. /\ c \in Saving /\ c.stage = "write" /\ c.file = "snapshot"
          /\ c.arg = call[p][s].arg /\ c.base = call[p][s].base
          /\ c.token = call[p][s].token
        BY <1>2, <2>1, <2>2, <2>3 DEF Saving, InProgress, Replacement
    <3>2. c.base = live["snapshot"] /\ Monotonic(live["snapshot"], c.arg)
        BY <1>3, <2>3, <3>1 DEF Admissible, MatchesBase
    <3>3. c \in Call /\ c.stage \in Locked
        BY <3>1 DEF Call, Locked
    <3>4. /\ call' = [call EXCEPT ![p][s] = c]
          /\ UNCHANGED <<lock, live, synced, lease, issued, phase, acked, faults>>
        BY <1>3, <2>1, <2>2 DEF Load, SetCall
    <3>5. /\ call' \in [Proc -> [Slot -> Call]]
          /\ call'[p][s] = c
          /\ LeaseOwnsLock' /\ CallsLeased' /\ LocksExclusive'
          /\ \A q \in Proc, t \in Slot : q # p \/ t # s => call'[q][t] = call[q][t]
      <4>1. c.file = call[p][s].file /\ c.token = call[p][s].token
        BY <2>3, <3>1
      <4>2. UNCHANGED <<lock, lease, issued, phase, acked>>
        BY <3>4
      <4>3. c \in Call /\ c.stage \in Locked /\ call[p][s].stage \in Locked
        BY <1>1, <3>3
      <4>4. SetCall(p, s, c)
        BY <3>4 DEF SetCall
      <4> QED
        BY <4>1, <4>2, <4>3, <4>4, AdvanceKeeps
    <3>6. ReadsCurrent'
        BY <3>1, <3>2, <3>4, <3>5 DEF ReadsCurrent
    <3>7. StoreTypeOK'
        BY <3>4, <3>5 DEF StoreTypeOK
    <3>8. JournalsSound'
        BY <3>4 DEF JournalsSound, AcknowledgedAlertsKept, SameAlerts
    <3> QED
        BY <3>5, <3>6, <3>7, <3>8
  <2>4. CASE call[p][s].file = "alerts"
    <3>1. /\ c \in Appending /\ c.stage = "write" /\ c.file = "alerts"
          /\ c.arg = live["alerts"] \cup call[p][s].arg
          /\ c.token = call[p][s].token
        BY <1>2, <2>1, <2>2, <2>4 DEF Appending, InProgress, Replacement, StoreTypeOK
    <3>2. SameAlerts(live["alerts"], call[p][s].arg)
        BY <1>3, <2>4 DEF Admissible
    <3>3. SameAlerts(live["alerts"], live["alerts"])
        BY DEF JournalsSound, AcknowledgedAlertsKept
    <3>4. live["alerts"] \subseteq c.arg /\ SameAlerts(c.arg, c.arg)
        BY <3>1, <3>2, <3>3, MergeKeepsIdentifiers
    <3>5. c \in Call /\ c.stage \in Locked
        BY <3>1 DEF Call, Locked
    <3>6. /\ call' = [call EXCEPT ![p][s] = c]
          /\ UNCHANGED <<lock, live, synced, lease, issued, phase, acked, faults>>
        BY <1>3, <2>1, <2>2 DEF Load, SetCall
    <3>7. /\ call' \in [Proc -> [Slot -> Call]]
          /\ call'[p][s] = c
          /\ LeaseOwnsLock' /\ CallsLeased' /\ LocksExclusive'
          /\ \A q \in Proc, t \in Slot : q # p \/ t # s => call'[q][t] = call[q][t]
      <4>1. c.file = call[p][s].file /\ c.token = call[p][s].token
        BY <2>4, <3>1
      <4>2. UNCHANGED <<lock, lease, issued, phase, acked>>
        BY <3>6
      <4>3. c \in Call /\ c.stage \in Locked /\ call[p][s].stage \in Locked
        BY <1>1, <3>5
      <4>4. SetCall(p, s, c)
        BY <3>6 DEF SetCall
      <4> QED
        BY <4>1, <4>2, <4>3, <4>4, AdvanceKeeps
    <3>8. ReadsCurrent'
      <4>1. /\ call'[p][s] = c /\ live' = live /\ c.stage = "write" /\ c.file = "alerts"
            /\ \A q \in Proc, t \in Slot : q # p \/ t # s => call'[q][t] = call[q][t]
        BY <3>1, <3>6, <3>7
      <4> QED
        BY <3>4, <4>1 DEF ReadsCurrent, SameAlerts
    <3>9. StoreTypeOK'
        BY <3>6, <3>7 DEF StoreTypeOK
    <3>10. JournalsSound'
        BY <3>6 DEF JournalsSound, AcknowledgedAlertsKept, SameAlerts
    <3> QED
        BY <3>7, <3>8, <3>9, <3>10
  <2>5. CASE call[p][s].file = "delivered"
    <3>1. AfterLoad(call[p][s]) \in {"write", "unlock"}
        BY DEF AfterLoad
    <3>2. /\ c \in Delivering /\ c.stage \in {"write", "unlock"} /\ c.file = "delivered"
          /\ c.token = call[p][s].token
        BY <1>2, <2>1, <2>5, <3>1 DEF Delivering, InProgress, Replacement, StoreTypeOK
    <3>3. c \in Call /\ c.stage \in Locked
        BY <3>2 DEF Call, Locked
    <3>4. /\ SetCall(p, s, c)
          /\ UNCHANGED <<lock, live, synced, lease, issued, phase, acked, faults>>
        BY <1>3, <2>1 DEF Load
    <3>5. /\ call' \in [Proc -> [Slot -> Call]]
          /\ call'[p][s] = c
          /\ LeaseOwnsLock' /\ CallsLeased' /\ LocksExclusive'
          /\ \A q \in Proc, t \in Slot : q # p \/ t # s => call'[q][t] = call[q][t]
      <4>1. c.file = call[p][s].file /\ c.token = call[p][s].token
        BY <2>5, <3>2
      <4>2. UNCHANGED <<lock, lease, issued, phase, acked>>
        BY <3>4
      <4>3. c \in Call /\ c.stage \in Locked /\ call[p][s].stage \in Locked
        BY <1>1, <3>3
      <4> QED
        BY <3>4, <4>1, <4>2, <4>3, AdvanceKeeps
    <3>6. ReadsCurrent'
        BY <3>2, <3>4, <3>5 DEF ReadsCurrent
    <3>7. StoreTypeOK'
        BY <3>4, <3>5 DEF StoreTypeOK
    <3>8. JournalsSound'
        BY <3>4 DEF JournalsSound, AcknowledgedAlertsKept, SameAlerts
    <3> QED
        BY <3>5, <3>6, <3>7, <3>8
  <2> QED
    BY <1>2, <2>3, <2>4, <2>5 DEF File
<1>4. CASE /\ SetCall(p, s, [stage |-> "rejected", file |-> call[p][s].file])
           /\ Unlink(call[p][s].file)
  <2>1. PICK c : c = [stage |-> "rejected", file |-> call[p][s].file]
    OBVIOUS
  <2>2. c \in Call /\ c.stage \notin InProgress
    BY <1>2, <2>1 DEF Call, Settled, InProgress, File
  <2>3. /\ call' = [call EXCEPT ![p][s] = c]
        /\ UNCHANGED <<live, synced, lease, issued, phase, acked>>
    BY <1>4, <2>1 DEF Load, SetCall
  <2>4. acked' \in SUBSET RaisedAlerts /\ acked' \subseteq live["alerts"]
    BY <2>3 DEF StoreTypeOK, JournalsSound, AcknowledgedAlertsKept
  <2>5. /\ lock' = lock \/ lock' = [lock EXCEPT ![call[p][s].file] = Free]
        /\ faults' \in Nat
    BY <1>4 DEF Unlink, Fault, NoFault, StoreTypeOK
  <2> QED
    BY <1>1, <2>2, <2>3, <2>4, <2>5, ReleaseKeeps
<1> QED
    BY <1>3, <1>4 DEF Load

\* The rename replaces what this call read, and nothing else; if it fails the
\* call is rejected.
LEMMA RenameKeeps ==
    ASSUME StoreInv, NEW p \in Proc, NEW s \in Slot, Rename(p, s)
    PROVE  StoreInv'
<1> USE DEF StoreInv
<1>1. call[p][s] \in Call /\ call[p][s].stage = "write" /\ call[p][s].stage \in Locked
    BY DEF Rename, StoreTypeOK, Locked
<1>2. /\ call[p][s] \in Saving \cup Appending \cup Delivering
      /\ call[p][s].file \in File
      /\ call[p][s].file = "snapshot" => call[p][s] \in Saving
      /\ call[p][s].file = "alerts" => call[p][s] \in Appending
      /\ call[p][s].file = "delivered" => call[p][s] \in Delivering
    BY <1>1, CallStages DEF InProgress
<1>3. CASE /\ live' = [live EXCEPT ![call[p][s].file] = call[p][s].arg]
           /\ SetCall(p, s, [call[p][s] EXCEPT !.stage = "sync"])
           /\ UNCHANGED <<lock, faults>>
  <2>1. PICK c : c = [call[p][s] EXCEPT !.stage = "sync"]
    OBVIOUS
  <2>2. /\ c \in Call /\ c.stage = "sync" /\ c.stage \in Locked
        /\ c.file = call[p][s].file /\ c.token = call[p][s].token
        /\ c.arg = call[p][s].arg
    BY <1>2, <2>1 DEF Call, Saving, Appending, Delivering, InProgress, Locked
  <2>3. SetCall(p, s, c)
    BY <1>3, <2>1
  <2>4. UNCHANGED <<lock, synced, lease, issued, phase, acked, faults>>
    BY <1>3 DEF Rename
  <2>5. /\ call' \in [Proc -> [Slot -> Call]]
        /\ call'[p][s] = c
        /\ LeaseOwnsLock' /\ CallsLeased' /\ LocksExclusive'
        /\ \A q \in Proc, t \in Slot : q # p \/ t # s =>
              /\ call'[q][t] = call[q][t]
              /\ call'[q][t].stage \in Locked => call'[q][t].file # c.file
    <3>1. UNCHANGED <<lock, lease, issued, phase, acked>>
        BY <2>4
    <3> QED
        BY <1>1, <2>2, <2>3, <3>1, AdvanceKeeps
  <2>6. /\ DOMAIN live' = File
        /\ live'[c.file] = c.arg
        /\ \A f \in File : f # c.file => live'[f] = live[f]
    BY <1>2, <1>3, <2>2 DEF StoreTypeOK, File
  <2>7. CASE call[p][s].file = "snapshot"
    <3>1. /\ live'["alerts"] = live["alerts"] /\ live'["delivered"] = live["delivered"]
          /\ live'["snapshot"] \in Snapshot
        BY <1>2, <2>2, <2>6, <2>7 DEF File, Saving, Snapshot
    <3>2. StoreTypeOK'
        BY <2>4, <2>5, <2>6, <3>1 DEF StoreTypeOK
    <3>3. \A q \in Proc, t \in Slot :
             call'[q][t].stage = "write" => call'[q][t].file # "snapshot"
        BY <2>2, <2>5, <2>7 DEF Locked
    <3>4. ReadsCurrent'
        BY <2>2, <2>5, <2>7, <3>1, <3>3 DEF ReadsCurrent
    <3>5. JournalsSound'
        BY <2>4, <3>1 DEF JournalsSound, AcknowledgedAlertsKept, SameAlerts
    <3> QED
        BY <2>5, <3>2, <3>4, <3>5
  <2>8. CASE call[p][s].file = "alerts"
    <3>1. /\ live'["snapshot"] = live["snapshot"] /\ live'["delivered"] = live["delivered"]
          /\ live'["alerts"] = c.arg
          /\ c.arg \in SUBSET RaisedAlerts
        BY <1>2, <2>2, <2>6, <2>8 DEF File, Appending
    <3>2. StoreTypeOK'
        BY <2>4, <2>5, <2>6, <3>1 DEF StoreTypeOK
    <3>3. live["alerts"] \subseteq c.arg /\ SameAlerts(c.arg, c.arg)
        BY <1>1, <2>2, <2>8 DEF ReadsCurrent
    <3>4. \A q \in Proc, t \in Slot :
             (q # p \/ t # s) /\ call'[q][t].stage \in {"write", "sync", "unlock"}
               => call'[q][t].file # "alerts"
        BY <2>2, <2>5, <2>8 DEF Locked
    <3>5. ReadsCurrent'
      <4>1. ASSUME NEW q \in Proc, NEW t \in Slot
            PROVE  /\ call'[q][t].stage = "write" /\ call'[q][t].file = "snapshot" =>
                        /\ call'[q][t].base = live'["snapshot"]
                        /\ Monotonic(live'["snapshot"], call'[q][t].arg)
                   /\ ~(call'[q][t].stage = "write" /\ call'[q][t].file = "alerts")
                   /\ call'[q][t].stage \in {"sync", "unlock"} /\ call'[q][t].file = "alerts" =>
                        call'[q][t].arg = live'["alerts"]
        <5>1. CASE q = p /\ t = s
            BY <2>2, <2>5, <2>8, <3>1, <5>1
        <5>2. CASE q # p \/ t # s
            BY <2>5, <3>1, <3>4, <5>2 DEF ReadsCurrent
        <5> QED
            BY <5>1, <5>2
      <4> QED
        BY <4>1 DEF ReadsCurrent
    <3>6. JournalsSound'
        BY <2>4, <3>1, <3>3 DEF JournalsSound, AcknowledgedAlertsKept, SameAlerts
    <3> QED
        BY <2>5, <3>2, <3>5, <3>6
  <2>9. CASE call[p][s].file = "delivered"
    <3>1. /\ live'["snapshot"] = live["snapshot"] /\ live'["alerts"] = live["alerts"]
          /\ live'["delivered"] \in SUBSET RaisedAlerts
        BY <1>2, <2>2, <2>6, <2>9 DEF File, Delivering
    <3>2. StoreTypeOK'
        BY <2>4, <2>5, <2>6, <3>1 DEF StoreTypeOK
    <3>3. ReadsCurrent'
        BY <2>2, <2>5, <2>9, <3>1 DEF ReadsCurrent
    <3>4. JournalsSound'
        BY <2>4, <3>1 DEF JournalsSound, AcknowledgedAlertsKept, SameAlerts
    <3> QED
        BY <2>5, <3>2, <3>3, <3>4
  <2> QED
    BY <1>2, <2>7, <2>8, <2>9 DEF File
<1>4. CASE /\ Fault
           /\ lock' \in {lock, [lock EXCEPT ![call[p][s].file] = Free]}
           /\ SetCall(p, s, [stage |-> "rejected", file |-> call[p][s].file])
           /\ UNCHANGED live
  <2>1. PICK c : c = [stage |-> "rejected", file |-> call[p][s].file]
    OBVIOUS
  <2>2. c \in Call /\ c.stage \notin InProgress
    BY <1>2, <2>1 DEF Call, Settled, InProgress, File
  <2>3. /\ call' = [call EXCEPT ![p][s] = c]
        /\ UNCHANGED <<live, synced, lease, issued, phase, acked>>
    BY <1>4, <2>1 DEF Rename, SetCall
  <2>4. /\ acked' \in SUBSET RaisedAlerts /\ acked' \subseteq live["alerts"]
        /\ faults' \in Nat
    BY <1>4, <2>3 DEF StoreTypeOK, JournalsSound, AcknowledgedAlertsKept, Fault
  <2>5. lock' = lock \/ lock' = [lock EXCEPT ![call[p][s].file] = Free]
    BY <1>4
  <2> QED
    BY <1>1, <2>2, <2>3, <2>4, <2>5, ReleaseKeeps
<1> QED
    BY <1>3, <1>4 DEF Rename

\* The directory is synced, or not: what is synced is what is live.
LEMMA SyncDirectoryKeeps ==
    ASSUME StoreInv, NEW p \in Proc, NEW s \in Slot, SyncDirectory(p, s)
    PROVE  StoreInv'
<1> USE DEF StoreInv
<1>1. call[p][s] \in Call /\ call[p][s].stage = "sync" /\ call[p][s].stage \in Locked
    BY DEF SyncDirectory, StoreTypeOK, Locked
<1>2. /\ call[p][s] \in Saving \cup Appending \cup Delivering
      /\ call[p][s].file \in File
    BY <1>1, CallStages DEF InProgress
<1>3. PICK c : c = [call[p][s] EXCEPT !.stage = "unlock"]
    OBVIOUS
<1>4. /\ c \in Call /\ c.stage = "unlock" /\ c.stage \in Locked
      /\ c.file = call[p][s].file /\ c.token = call[p][s].token
      /\ c.arg = call[p][s].arg
    BY <1>2, <1>3 DEF Call, Saving, Appending, Delivering, InProgress, Locked
<1>5. /\ SetCall(p, s, c)
      /\ UNCHANGED <<lock, live, lease, issued, phase, acked>>
    BY <1>3 DEF SyncDirectory
<1>6. /\ call' \in [Proc -> [Slot -> Call]]
      /\ call'[p][s] = c
      /\ LeaseOwnsLock' /\ CallsLeased' /\ LocksExclusive'
      /\ \A q \in Proc, t \in Slot : q # p \/ t # s => call'[q][t] = call[q][t]
  <2>1. UNCHANGED <<lock, lease, issued, phase, acked>>
    BY <1>5
  <2> QED
    BY <1>1, <1>4, <1>5, <2>1, AdvanceKeeps
<1>7. faults' \in Nat
    BY DEF SyncDirectory, Fault, NoFault, StoreTypeOK
<1>8. /\ DOMAIN synced' = File
      /\ synced'["snapshot"] = synced["snapshot"] \/ synced'["snapshot"] = live["snapshot"]
      /\ synced'["alerts"] = synced["alerts"] \/ synced'["alerts"] = live["alerts"]
      /\ \/ synced'["delivered"] = synced["delivered"]
         \/ synced'["delivered"] = live["delivered"]
    BY <1>2 DEF SyncDirectory, StoreTypeOK, File
<1>9. StoreTypeOK'
    BY <1>5, <1>6, <1>7, <1>8 DEF StoreTypeOK
<1>10. ReadsCurrent'
    BY <1>1, <1>4, <1>5, <1>6 DEF ReadsCurrent
<1>11. JournalsSound'
    BY <1>5, <1>8 DEF JournalsSound, AcknowledgedAlertsKept, SameAlerts
<1> QED
    BY <1>6, <1>9, <1>10, <1>11

\* An append is acknowledged while the journal still is what it wrote.
LEMMA AcknowledgeKeeps ==
    ASSUME StoreInv, NEW p \in Proc, NEW s \in Slot, Acknowledge(p, s)
    PROVE  StoreInv'
<1> USE DEF StoreInv
<1>1. call[p][s] \in Call /\ call[p][s].stage = "unlock" /\ call[p][s].stage \in Locked
    BY DEF Acknowledge, StoreTypeOK, Locked
<1>2. call[p][s].file \in File
    BY <1>1, CallStages DEF InProgress
<1>3. PICK c : c = [stage |-> "fulfilled", file |-> call[p][s].file]
    OBVIOUS
<1>4. c \in Call /\ c.stage \notin InProgress
    BY <1>2, <1>3 DEF Call, Settled, InProgress, File
<1>5. /\ call' = [call EXCEPT ![p][s] = c]
      /\ UNCHANGED <<live, synced, lease, issued, phase>>
    BY <1>3 DEF Acknowledge, SetCall
<1>6. /\ lock' = lock \/ lock' = [lock EXCEPT ![call[p][s].file] = Free]
      /\ faults' \in Nat
    BY DEF Acknowledge, Unlink, Fault, NoFault, StoreTypeOK
<1>7. call[p][s].file = "alerts" => call[p][s].arg = live["alerts"]
    BY <1>1 DEF ReadsCurrent
<1>8. acked' \in SUBSET RaisedAlerts /\ acked' \subseteq live["alerts"]
    BY <1>7 DEF Acknowledge, StoreTypeOK, JournalsSound, AcknowledgedAlertsKept
<1> QED
    BY <1>1, <1>4, <1>5, <1>6, <1>8, ReleaseKeeps

-----------------------------------------------------------------------------
(* Faults and the operator *)

\* A crash ends the calls of one process and leaves every file as it is.
LEMMA CrashKeeps ==
    ASSUME StoreInv, NEW p \in Proc, Crash(p)
    PROVE  StoreInv'
<1> USE DEF StoreInv
<1>1. UNCHANGED <<lock, live, synced, issued, acked>> /\ faults' \in Nat
    BY DEF Crash, Fault, StoreTypeOK
<1>2. /\ lease' \in [Proc -> {0, 1, 2}] /\ phase' \in [Proc -> {"out", "in", "returned"}]
      /\ lease'[p] = 0 /\ phase'[p] = "out"
      /\ \A q \in Proc : q # p => lease'[q] = lease[q] /\ phase'[q] = phase[q]
    BY DEF Crash, Kill, StoreTypeOK
<1>3. /\ call' \in [Proc -> [Slot -> Call]]
      /\ \A s \in Slot : call'[p][s] = Idle
      /\ \A q \in Proc : q # p => call'[q] = call[q]
  <2>1. [s \in Slot |-> Idle] \in [Slot -> Call]
    BY DEF Call
  <2> QED
    BY <2>1 DEF Crash, Kill, StoreTypeOK
<1>4. \A s \in Slot : call'[p][s].stage = "idle"
    BY <1>3 DEF Idle
<1>5. StoreTypeOK'
    BY <1>1, <1>2, <1>3 DEF StoreTypeOK
<1>6. LeaseOwnsLock'
    BY <1>1, <1>2 DEF LeaseOwnsLock
<1>7. CallsLeased'
    BY <1>2, <1>3, <1>4 DEF CallsLeased, InProgress
<1>8. LocksExclusive'
    BY <1>1, <1>3, <1>4 DEF LocksExclusive, Locked
<1>9. ReadsCurrent'
  <2>1. live' = live
    BY <1>1
  <2> QED
    BY <2>1, <1>3, <1>4 DEF ReadsCurrent
<1>10. JournalsSound'
    BY <1>1 DEF JournalsSound, AcknowledgedAlertsKept, SameAlerts
<1> QED
    BY <1>5, <1>6, <1>7, <1>8, <1>9, <1>10

\* A power loss ends every call; a journal goes back at most to what was synced.
LEMMA PowerLossKeeps ==
    ASSUME StoreInv, PowerLoss
    PROVE  StoreInv'
<1> USE DEF StoreInv
<1>1. faults' \in Nat /\ UNCHANGED issued
    BY DEF PowerLoss, Fault, StoreTypeOK
<1>2. /\ lease' \in [Proc -> {0, 1, 2}] /\ phase' \in [Proc -> {"out", "in", "returned"}]
      /\ \A p \in Proc : lease'[p] = 0 /\ phase'[p] = "out"
    BY DEF PowerLoss, Kill
<1>3. /\ call' \in [Proc -> [Slot -> Call]]
      /\ \A p \in Proc, s \in Slot : call'[p][s] = Idle
  <2>1. [s \in Slot |-> Idle] \in [Slot -> Call]
    BY DEF Call
  <2> QED
    BY <2>1 DEF PowerLoss, Kill
<1>4. \A p \in Proc, s \in Slot : call'[p][s].stage = "idle"
    BY <1>3 DEF Idle
<1>5. /\ DOMAIN live' = File /\ synced' = live'
      /\ live'["snapshot"] \in {live["snapshot"], synced["snapshot"]}
      /\ live'["alerts"] \in {live["alerts"], synced["alerts"]}
      /\ live'["delivered"] \in {live["delivered"], synced["delivered"]}
  <2>1. PICK lost \in SUBSET {f \in File : live[f] # synced[f]} :
           live' = [f \in File |-> IF f \in lost THEN synced[f] ELSE live[f]]
    BY DEF PowerLoss
  <2> QED
    BY <2>1 DEF PowerLoss, File
<1>6. lock' \in [Lock -> Proc \cup {Free}]
  <2>1. PICK gone \in SUBSET {l \in Lock : lock[l] # Free} :
           lock' = [l \in Lock |-> IF l \in gone THEN Free ELSE lock[l]]
    BY DEF PowerLoss
  <2> QED
    BY <2>1 DEF StoreTypeOK
<1>7. acked' = acked \cap synced["alerts"]
    BY DEF PowerLoss
<1>8. StoreTypeOK'
    BY <1>1, <1>2, <1>3, <1>5, <1>6, <1>7 DEF StoreTypeOK
<1>9. LeaseOwnsLock'
    BY <1>2 DEF LeaseOwnsLock
<1>10. CallsLeased' /\ LocksExclusive' /\ ReadsCurrent'
    BY <1>4 DEF CallsLeased, LocksExclusive, ReadsCurrent, InProgress, Locked
<1>11. JournalsSound'
    BY <1>5, <1>7 DEF JournalsSound, AcknowledgedAlertsKept, SameAlerts
<1> QED
    BY <1>8, <1>9, <1>10, <1>11

\* The operator removes a lock file while no writer runs.
LEMMA RemoveStaleLockKeeps ==
    ASSUME StoreInv, NEW l \in Lock, RemoveStaleLock(l)
    PROVE  StoreInv'
<1> USE DEF StoreInv
<1>1. /\ lock' = [lock EXCEPT ![l] = Free]
      /\ UNCHANGED <<live, synced, lease, issued, phase, call, acked, faults>>
    BY DEF RemoveStaleLock
<1>2. \A p \in Proc : phase[p] = "out" /\ \A s \in Slot : call[p][s].stage = "idle"
    BY DEF RemoveStaleLock, Stopped, Quiet, Idle
<1>3. StoreTypeOK'
    BY <1>1 DEF StoreTypeOK
<1>4. LeaseOwnsLock'
    BY <1>1, <1>2 DEF LeaseOwnsLock
<1>5. CallsLeased' /\ LocksExclusive' /\ ReadsCurrent'
    BY <1>1, <1>2 DEF CallsLeased, LocksExclusive, ReadsCurrent, InProgress, Locked
<1>6. JournalsSound'
    BY <1>1 DEF JournalsSound, AcknowledgedAlertsKept, SameAlerts
<1> QED
    BY <1>3, <1>4, <1>5, <1>6

\* Nothing but the number of faults changes.
LEMMA UntouchedKeeps ==
    ASSUME StoreInv, UNCHANGED <<lock, live, synced, lease, issued, phase, call, acked>>,
           faults' \in Nat
    PROVE  StoreInv'
BY DEF StoreInv, StoreTypeOK, LeaseOwnsLock, CallsLeased, LocksExclusive, ReadsCurrent,
       JournalsSound, AcknowledgedAlertsKept, SameAlerts

-----------------------------------------------------------------------------
(* The store *)

\* Every step of the store and of its clients keeps the invariant.
LEMMA ClientsNextKeeps == StoreInv /\ [ClientsNext]_storeVars => StoreInv'
<1> SUFFICES ASSUME StoreInv, [ClientsNext]_storeVars PROVE StoreInv'
    OBVIOUS
<1>1. CASE UNCHANGED storeVars
  <2>1. /\ UNCHANGED <<lock, live, synced, lease, issued, phase, call, acked>>
        /\ faults' \in Nat
    BY <1>1 DEF storeVars, StoreInv, StoreTypeOK
  <2> QED
    BY <2>1, UntouchedKeeps
<1>2. ASSUME NEW p \in Proc,
             BeginLease(p) \/ CallbackReturns(p) \/ EndLease(p) \/ Crash(p)
      PROVE  StoreInv'
    BY <1>2, BeginLeaseKeeps, CallbackReturnsKeeps, EndLeaseKeeps, CrashKeeps
<1>3. ASSUME NEW p \in Proc, NEW s \in Slot, NEW snapshot \in Snapshots,
             NEW base \in {live["snapshot"], NoSnapshot},
             SaveSnapshot(p, s, snapshot, base, lease[p])
      PROVE  StoreInv'
  <2>1. base \in Snapshot /\ snapshot \in SavedSnapshots
    BY DEF StoreInv, StoreTypeOK, Snapshot, SavedSnapshots
  <2> QED
    BY <1>3, <2>1, SaveSnapshotKeeps
<1>4. ASSUME NEW p \in Proc, NEW s \in Slot, NEW alert \in Alerts,
             AppendAlerts(p, s, {alert}, lease[p])
      PROVE  StoreInv'
  <2>1. {alert} \in SUBSET RaisedAlerts
    BY DEF RaisedAlerts
  <2> QED
    BY <1>4, <2>1, AppendAlertsKeeps
<1>5. ASSUME NEW p \in Proc, NEW s \in Slot, StoreStep(p, s) \/ Settle(p, s)
      PROVE  StoreInv'
    BY <1>5, OpenLockKeeps, LoadKeeps, RenameKeeps, SyncDirectoryKeeps,
       AcknowledgeKeeps, SettleKeeps DEF StoreStep
<1>6. CASE PowerLoss
    BY <1>6, PowerLossKeeps
<1>7. ASSUME NEW l \in Lock, RemoveStaleLock(l) PROVE StoreInv'
    BY <1>7, RemoveStaleLockKeeps
<1> QED
    BY <1>1, <1>2, <1>3, <1>4, <1>5, <1>6, <1>7 DEF ClientsNext

\* The invariant holds whatever the processes, the calls they leave unawaited
\* and the faults are: withExclusiveWriter, withExclusiveFileLock and
\* writeFileAtomically together keep the durable directory consistent.
THEOREM StoreInvariant == ClientsSpec => []StoreInv
<1> QED
    BY InitStoreInv, ClientsNextKeeps, PTL DEF ClientsSpec

\* withExclusiveWriter: no call holds a store file's lock outside the lease it
\* was made under, and that lease's process owns the writer's lock file.
THEOREM LeasedWrites == ClientsSpec => []WritesUnderLease
<1>1. StoreInv => WritesUnderLease
  <2> SUFFICES ASSUME StoreInv, NEW p \in Proc, NEW s \in Slot,
                      call[p][s].stage \in Locked, call[p][s].file # "delivered"
               PROVE  lock["writer"] = p /\ lease[p] = call[p][s].token
    BY DEF WritesUnderLease, Locked
  <2>1. lease[p] = call[p][s].token /\ lease[p] # 0
    BY DEF StoreInv, CallsLeased, Locked, InProgress
  <2> QED
    BY <2>1 DEF StoreInv, LeaseOwnsLock
<1> QED
    BY <1>1, StoreInvariant, PTL

\* appendAlerts: an acknowledged alert stays in the journal as acknowledged.
THEOREM AlertsNeverLost == ClientsSpec => []AcknowledgedAlertsKept
<1>1. StoreInv => AcknowledgedAlertsKept
    BY DEF StoreInv, JournalsSound
<1> QED
    BY <1>1, StoreInvariant, PTL

\* saveSnapshot: the snapshot file only ever changes from the base a writer
\* restored to that writer's own, later snapshot; the check that established it
\* is still true when the rename happens.
THEOREM BaseReplaced == ClientsSpec => ReplacesItsBase
<1>1. ASSUME StoreInv, [ClientsNext]_storeVars,
             live'["snapshot"] # live["snapshot"], faults' = faults
      PROVE  \E p \in Proc, s \in Slot :
                /\ call[p][s].stage = "write" /\ call[p][s].file = "snapshot"
                /\ call[p][s].arg = live'["snapshot"]
                /\ call[p][s].base = live["snapshot"]
                /\ Monotonic(live["snapshot"], live'["snapshot"])
  <2>1. live' # live
    BY <1>1
  <2>2. ~PowerLoss
    BY <1>1 DEF PowerLoss, Fault, StoreInv, StoreTypeOK
  <2>3. \E p \in Proc, s \in Slot : Rename(p, s)
    <3>1. live' # live => ~UNCHANGED storeVars
        BY DEF storeVars
    <3>2. \A p \in Proc :
             BeginLease(p) \/ CallbackReturns(p) \/ EndLease(p) \/ Crash(p) => live' = live
        BY DEF BeginLease, CallbackReturns, EndLease, Crash
    <3>3. \A p \in Proc, s \in Slot : \A snapshot, base :
             SaveSnapshot(p, s, snapshot, base, lease[p]) => live' = live
        BY DEF SaveSnapshot
    <3>4. \A p \in Proc, s \in Slot : \A alert :
             AppendAlerts(p, s, {alert}, lease[p]) => live' = live
        BY DEF AppendAlerts
    <3>5. \A p \in Proc, s \in Slot : OpenLock(p, s) \/ Load(p, s) => live' = live
        BY DEF OpenLock, Load
    <3>6. \A p \in Proc, s \in Slot :
             SyncDirectory(p, s) \/ Acknowledge(p, s) \/ Settle(p, s) => live' = live
        BY DEF SyncDirectory, Acknowledge, Settle
    <3>7. \A l \in Lock : RemoveStaleLock(l) => live' = live
        BY DEF RemoveStaleLock
    <3> QED
        BY <1>1, <2>1, <2>2, <3>1, <3>2, <3>3, <3>4, <3>5, <3>6, <3>7
           DEF ClientsNext, StoreStep
  <2>4. PICK p \in Proc, s \in Slot : Rename(p, s)
    BY <2>3
  <2>5. /\ call[p][s].stage = "write"
        /\ live' = [live EXCEPT ![call[p][s].file] = call[p][s].arg]
    BY <2>1, <2>4 DEF Rename
  <2>6. /\ call[p][s].file = "snapshot"
        /\ live'["snapshot"] = call[p][s].arg
    BY <1>1, <2>5 DEF StoreInv, StoreTypeOK, File
  <2>7. /\ call[p][s].base = live["snapshot"]
        /\ Monotonic(live["snapshot"], call[p][s].arg)
    BY <1>1, <2>5, <2>6 DEF StoreInv, ReadsCurrent
  <2> QED
    BY <2>5, <2>6, <2>7
<1>2. StoreInv /\ [ClientsNext]_storeVars =>
         [live'["snapshot"] # live["snapshot"] /\ faults' = faults =>
            \E p \in Proc, s \in Slot :
               /\ call[p][s].stage = "write" /\ call[p][s].file = "snapshot"
               /\ call[p][s].arg = live'["snapshot"]
               /\ call[p][s].base = live["snapshot"]
               /\ Monotonic(live["snapshot"], live'["snapshot"])]_storeVars
    BY <1>1
<1> QED
    BY <1>2, StoreInvariant, PTL DEF ClientsSpec, ReplacesItsBase

-----------------------------------------------------------------------------
(***************************************************************************)
(* The worker.  Its chain is an argument of the definitions below, so that *)
(* they can be said of the chain before and after a step.                  *)
(***************************************************************************)
Transaction == [kind : Kinds, size : Sizes]

EventsIn(c, n) == UNION {{<<v, i>> : i \in 1..c[v].size} : v \in 1..n}

\* The cursor of the last event of transaction n.
End(c, n) == IF n = 0 THEN NoCursor ELSE <<n, c[n].size>>

\* A snapshot or an indexer's memory that is the state after n transactions,
\* all of them clean.
StateOf(c, n, s) ==
    /\ s.projection = EventsIn(c, n)
    /\ s.cursor = End(c, n)
    /\ \A v \in 1..n : c[v].kind = "clean"

ReachedBy(c, s) == \E n \in 1..Len(c) : StateOf(c, n, s)
IsCheckpoint(c, s) == s \in WorkerSnapshots /\ ReachedBy(c, s)
Checkpointed(c, s) == s = NoSnapshot \/ IsCheckpoint(c, s)

\* What a replayed memory is when the chain's views agree with it.
Replayed(c, m) ==
    /\ m.cursor[1] \in 0..Len(c)
    /\ m.projection = EventsIn(c, m.cursor[1]) =>
          /\ m.cursor = End(c, m.cursor[1])
          /\ \A v \in 1..m.cursor[1] : c[v].kind # "rejected"

\* What a memory is worth where runOnce awaits.
AtPlace(c, w, m) ==
    /\ w = "poll" => \E n \in 0..Len(c) : StateOf(c, n, m)
    /\ w = "reconcile" => Replayed(c, m)
    /\ w = "checkpoint" /\ Authorised(m) => ReachedBy(c, m)

Version(s) == IF s = NoSnapshot THEN 0 ELSE s.cursor[1]

Place == {"idle", "restore", "poll", "journal", "journaling", "deliver", "delivering",
          "reconcile", "checkpoint", "saving", "return", "ending"}

Memory == [projection : SUBSET (Nat \X Nat), cursor : Nat \X Nat, base : Snapshot,
           reconciled : {Unreconciled} \cup ((SUBSET (Nat \X Nat)) \X (Nat \X Nat))]

\* Every snapshot in a file or on its way there is a state of the chain.
Durable ==
    /\ chain \in Seq(Transaction)
    /\ Checkpointed(chain, live["snapshot"]) /\ Checkpointed(chain, synced["snapshot"])
    /\ Version(synced["snapshot"]) <= Version(live["snapshot"])
    /\ \A p \in Proc, s \in Slot :
          call[p][s].stage \in InProgress /\ call[p][s].file = "snapshot" =>
              IsCheckpoint(chain, call[p][s].arg)

Memories ==
    /\ mem \in [Proc -> Memory] /\ pc \in [Proc -> Place]
    /\ todo \in [Proc -> SUBSET RaisedAlerts]
    /\ \A p \in Proc : AtPlace(chain, pc[p], mem[p])

WorkerInv == StoreInv /\ Durable /\ Memories

-----------------------------------------------------------------------------
(* Chains *)

\* A transaction has a kind and at least one event.
LEMMA ChainType ==
    ASSUME NEW c \in Seq(Transaction)
    PROVE  /\ Len(c) \in Nat
           /\ \A v \in 1..Len(c) : /\ c[v].kind \in {"clean", "rejected", "divergent"}
                                   /\ c[v].size \in Nat /\ c[v].size > 0
<1>1. Len(c) \in Nat /\ \A v \in 1..Len(c) : c[v] \in Transaction
    OBVIOUS
<1>2. \A k \in Kinds : k \in {"clean", "rejected", "divergent"}
    BY WorkerAssumption
<1>3. \A z \in Sizes : z \in Nat /\ z > 0
    BY WorkerAssumption
<1>4. \A t \in Transaction : t.kind \in Kinds /\ t.size \in Sizes
    BY DEF Transaction
<1> QED
    BY <1>1, <1>2, <1>3, <1>4

\* The events of the first n transactions, one by one.
LEMMA EventsInMember ==
    ASSUME NEW c \in Seq(Transaction), NEW n \in 0..Len(c)
    PROVE  /\ EventsIn(c, n) \in SUBSET (Nat \X Nat)
           /\ \A v, i : <<v, i>> \in EventsIn(c, n) <=> v \in 1..n /\ i \in 1..c[v].size
<1>1. \A v \in 1..n : v \in Nat /\ c[v].size \in Nat
    BY ChainType
<1> QED
    BY <1>1 DEF EventsIn

\* Each of these events is a pair.
LEMMA EventsInPairs ==
    ASSUME NEW c, NEW n, NEW e \in EventsIn(c, n)
    PROVE  e = <<e[1], e[2]>> /\ e[1] \in 1..n /\ e[2] \in 1..c[e[1]].size
BY DEF EventsIn

\* A state of the chain stays one when the chain grows.
LEMMA StateStays ==
    ASSUME NEW c \in Seq(Transaction), NEW t \in Transaction, NEW d, d = Append(c, t),
           NEW n \in 0..Len(c)
    PROVE  /\ EventsIn(d, n) = EventsIn(c, n) /\ End(d, n) = End(c, n)
           /\ \A v \in 1..n : d[v] = c[v]
           /\ n \in 0..Len(d) /\ Len(d) = Len(c) + 1 /\ d \in Seq(Transaction)
<1>1. /\ Len(d) = Len(c) + 1 /\ d \in Seq(Transaction) /\ Len(c) \in Nat
      /\ \A v \in 1..Len(c) : d[v] = c[v]
    OBVIOUS
<1>2. \A v \in 1..n : d[v] = c[v]
    BY <1>1
<1>3. EventsIn(d, n) = EventsIn(c, n)
    BY <1>2 DEF EventsIn
<1>4. End(d, n) = End(c, n)
    BY <1>1, <1>2 DEF End
<1> QED
    BY <1>1, <1>2, <1>3, <1>4

\* So does what a memory is worth.
LEMMA PlaceStays ==
    ASSUME NEW c \in Seq(Transaction), NEW t \in Transaction, NEW d, d = Append(c, t)
    PROVE  /\ d \in Seq(Transaction)
           /\ \A s : IsCheckpoint(c, s) => IsCheckpoint(d, s)
           /\ \A s : Checkpointed(c, s) => Checkpointed(d, s)
           /\ \A w, m : AtPlace(c, w, m) => AtPlace(d, w, m)
<1>1. Len(c) \in Nat /\ Len(d) = Len(c) + 1 /\ d \in Seq(Transaction)
    OBVIOUS
<1>2. \A n \in 0..Len(c) : /\ EventsIn(d, n) = EventsIn(c, n) /\ End(d, n) = End(c, n)
                           /\ \A v \in 1..n : d[v] = c[v]
    BY StateStays
<1>3. \A n \in 0..Len(c) : \A s : StateOf(c, n, s) => StateOf(d, n, s)
    BY <1>2 DEF StateOf
<1>4. \A s : ReachedBy(c, s) => ReachedBy(d, s)
  <2> SUFFICES ASSUME NEW s, ReachedBy(c, s) PROVE ReachedBy(d, s)
    OBVIOUS
  <2>1. PICK n \in 1..Len(c) : StateOf(c, n, s)
    BY DEF ReachedBy
  <2>2. n \in 0..Len(c) /\ n \in 1..Len(d)
    BY <1>1
  <2> QED
    BY <1>3, <2>1, <2>2 DEF ReachedBy
<1>5. ASSUME NEW w, NEW m, AtPlace(c, w, m) PROVE AtPlace(d, w, m)
  <2>1. CASE w = "poll"
    <3>1. PICK n \in 0..Len(c) : StateOf(c, n, m)
        BY <1>5, <2>1 DEF AtPlace
    <3>2. n \in 0..Len(d) /\ StateOf(d, n, m)
        BY <1>1, <1>3, <3>1
    <3> QED
        BY <2>1, <3>2 DEF AtPlace
  <2>2. CASE w = "reconcile"
    <3> DEFINE k == m.cursor[1]
    <3>1. Replayed(c, m) /\ k \in 0..Len(c) /\ k \in 0..Len(d)
        BY <1>1, <1>5, <2>2 DEF AtPlace, Replayed
    <3>2. Replayed(d, m)
        BY <1>2, <3>1 DEF Replayed
    <3> QED
        BY <2>2, <3>2 DEF AtPlace
  <2>3. CASE w \notin {"poll", "reconcile"}
    BY <1>4, <1>5, <2>3 DEF AtPlace
  <2> QED
    BY <2>1, <2>2, <2>3
<1> QED
    BY <1>1, <1>4, <1>5 DEF Checkpointed, IsCheckpoint

\* A bounded set of numbers has a greatest.
LEMMA GreatestNat ==
    ASSUME NEW B \in SUBSET Nat, B # {}, NEW bound \in Nat, \A k \in B : k <= bound
    PROVE  \E m \in B : \A k \in B : k <= m
<1> DEFINE C == {bound - k : k \in B}
<1>1. C \in SUBSET Nat /\ C # {}
    OBVIOUS
<1> HIDE DEF C
<1>2. PICK l \in C : \A k \in C : l <= k
    BY <1>1, LeastNat
<1>3. PICK m \in B : l = bound - m
    BY DEF C
<1>4. \A k \in B : k <= m
    BY <1>2, <1>3 DEF C
<1> QED
    BY <1>4

\* LastOf is the latest of a set of events that is not empty.
LEMMA LastIsLatest ==
    ASSUME NEW c \in Seq(Transaction), NEW E, E \subseteq EventsIn(c, Len(c)), E # {},
           NEW cursor
    PROVE  /\ LastOf(E, cursor) \in E
           /\ \A d \in E : d = LastOf(E, cursor) \/ CursorLess(d, LastOf(E, cursor))
<1> DEFINE V == {e[1] : e \in E}
<1>0. /\ Len(c) \in Nat
      /\ \A v \in 1..Len(c) : c[v].size \in Nat
    BY ChainType
<1>1. \A e \in E : /\ e = <<e[1], e[2]>> /\ e[1] \in 1..Len(c) /\ e[2] \in 1..c[e[1]].size
                   /\ e[1] \in Nat /\ e[2] \in Nat
    BY <1>0, EventsInPairs
<1>2. PICK v \in V : \A k \in V : k <= v
  <2>1. V \in SUBSET Nat /\ V # {} /\ \A k \in V : k <= Len(c)
    BY <1>0, <1>1
  <2> HIDE DEF V
  <2> QED
    BY <1>0, <2>1, GreatestNat
<1> DEFINE I == {e[2] : e \in {d \in E : d[1] = v}}
<1>3. PICK i \in I : \A k \in I : k <= i
  <2>1. I \in SUBSET Nat /\ I # {} /\ \A k \in I : k <= c[v].size
    BY <1>1
  <2>2. c[v].size \in Nat
    BY <1>0, <1>1
  <2> HIDE DEF I, V
  <2> QED
    BY <2>1, <2>2, GreatestNat
<1>4. PICK e \in E : e[1] = v /\ e[2] = i
    OBVIOUS
<1>5. ASSUME NEW d \in E PROVE d = e \/ CursorLess(d, e)
  <2>1. d[1] \in V /\ (d[1] = v => d[2] \in I)
    OBVIOUS
  <2> HIDE DEF V, I
  <2>0. /\ d[1] \in Nat /\ d[2] \in Nat /\ v \in Nat /\ i \in Nat
        /\ d[1] <= v /\ (d[1] = v => d[2] <= i)
    BY <1>1, <1>2, <1>3, <1>4, <2>1
  <2>2. d[1] < v \/ (d[1] = v /\ d[2] <= i)
    BY <2>0
  <2>3. CASE d[1] = v /\ d[2] = i
    BY <1>1, <1>4, <2>3
  <2>4. CASE ~(d[1] = v /\ d[2] = i)
    BY <1>1, <1>4, <2>2, <2>4 DEF CursorLess
  <2> QED
    BY <2>3, <2>4
<1>6. LastOf(E, cursor) = CHOOSE f \in E : \A d \in E : d = f \/ CursorLess(d, f)
    BY DEF LastOf
<1> HIDE DEF V, I
<1> QED
    BY <1>5, <1>6

-----------------------------------------------------------------------------
(* processOwned *)

\* Events after the cursor of a state of the chain are events of later
\* transactions.
LEMMA FreshIsLater ==
    ASSUME NEW c \in Seq(Transaction), NEW n \in 0..Len(c), NEW cursor, cursor = End(c, n),
           NEW page, page \subseteq EventsIn(c, Len(c))
    PROVE  /\ AfterCursor(page, cursor) \subseteq EventsIn(c, Len(c))
           /\ \A e \in AfterCursor(page, cursor) : e[1] > n
<1>1. AfterCursor(page, cursor) \subseteq page
    BY DEF AfterCursor
<1>2. ASSUME NEW e \in AfterCursor(page, cursor) PROVE e[1] > n
  <2>1. e[1] \in 1..Len(c) /\ e[2] \in 1..c[e[1]].size
    BY <1>1, EventsInPairs
  <2>2. CursorLess(cursor, e)
    BY DEF AfterCursor
  <2>3. Len(c) \in Nat /\ c[e[1]].size \in Nat
    BY <2>1, ChainType
  <2>4. CASE n = 0
    BY <2>1, <2>3, <2>4
  <2>5. CASE n # 0
    <3>1. cursor[1] = n /\ cursor[2] = c[n].size
        BY <2>5 DEF End
    <3>2. n < e[1] \/ (n = e[1] /\ c[n].size < e[2])
        BY <2>2, <3>1 DEF CursorLess
    <3>3. ~(n = e[1] /\ c[n].size < e[2])
        BY <2>1, <2>3
    <3> QED
        BY <2>1, <2>3, <3>2, <3>3
  <2> QED
    BY <2>4, <2>5
<1> QED
    BY <1>1, <1>2

\* The groups of F before stop were accepted over the memory m.
AcceptedBefore(c, m, F, stop) ==
    \A v \in {e[1] : e \in F} : v < stop =>
        (/\ {e \in F : e[1] = v} = {<<v, i>> : i \in 1..c[v].size}
         /\ m.projection \cup {e \in F : e[1] < v} = EventsIn(c, v - 1)
         => c[v].kind # "rejected")

Before(F, stop) == {e \in F : e[1] < stop}

\* The groups before stop were accepted.  If what they lead to is everything
\* up to some transaction, then each group was a whole transaction over all
\* that came before it, so none of them is one the reducer rejects.
LEMMA PrefixReplayed ==
    ASSUME NEW c \in Seq(Transaction), NEW n \in 0..Len(c), NEW m, StateOf(c, n, m),
           NEW fresh, fresh \subseteq EventsIn(c, Len(c)), \A e \in fresh : e[1] > n,
           NEW stop, AcceptedBefore(c, m, fresh, stop)
    PROVE  LET B == Before(fresh, stop)
               x == LastOf(B, m.cursor)
           IN /\ x \in Nat \X Nat /\ x[1] \in 0..Len(c)
              /\ m.projection \cup B = EventsIn(c, x[1]) =>
                   /\ x = End(c, x[1])
                   /\ \A v \in 1..x[1] : c[v].kind # "rejected"
<1> DEFINE B == Before(fresh, stop)
           x == LastOf(B, m.cursor)
<1> SUFFICES /\ x \in Nat \X Nat /\ x[1] \in 0..Len(c)
             /\ m.projection \cup B = EventsIn(c, x[1]) =>
                  /\ x = End(c, x[1])
                  /\ \A v \in 1..x[1] : c[v].kind # "rejected"
    OBVIOUS
<1>0. /\ Len(c) \in Nat
      /\ \A v \in 1..Len(c) : c[v].size \in Nat /\ c[v].size > 0
    BY ChainType
<1>1. /\ m.projection = EventsIn(c, n) /\ m.cursor = End(c, n)
      /\ \A v \in 1..n : c[v].kind = "clean"
    BY DEF StateOf
<1>2. CASE B = {}
  <2>1. x = End(c, n)
    BY <1>1, <1>2 DEF LastOf
  <2> HIDE DEF x, B
  <2>2. x \in Nat \X Nat /\ x[1] = n
    BY <1>0, <2>1 DEF End, NoCursor
  <2> QED
    BY <1>1, <2>1, <2>2
<1>3. CASE B # {}
  <2>1. /\ B \subseteq EventsIn(c, Len(c)) /\ B = {e \in fresh : e[1] < stop}
        /\ \A e \in B : e[1] > n /\ e[1] < stop
    BY DEF Before
  <2> HIDE DEF B
  <2>2. x \in B /\ \A d \in B : d = x \/ CursorLess(d, x)
    BY <1>3, <2>1, LastIsLatest
  <2> HIDE DEF x
  <2> DEFINE k == x[1]
  <2>3. /\ x = <<k, x[2]>> /\ k \in 1..Len(c) /\ x[2] \in 1..c[k].size /\ k > n
        /\ k \in Nat /\ x[2] \in Nat /\ c[k].size \in Nat /\ k \in 0..Len(c)
    BY <1>0, <2>1, <2>2, EventsInPairs
  <2>4. x \in Nat \X Nat
    BY <2>3
  <2>5. ASSUME m.projection \cup B = EventsIn(c, k)
        PROVE  x = End(c, k) /\ \A v \in 1..k : c[v].kind # "rejected"
    <3>1. \A v, i : /\ <<v, i>> \in EventsIn(c, n) <=> v \in 1..n /\ i \in 1..c[v].size
                    /\ <<v, i>> \in EventsIn(c, k) <=> v \in 1..k /\ i \in 1..c[v].size
        BY <2>3, EventsInMember
    <3>2. \A v, i : v \in 1..k /\ v > n /\ i \in 1..c[v].size => <<v, i>> \in B
        BY <1>1, <2>3, <2>5, <3>1
    <3>3. x = End(c, k)
      <4>1. <<k, c[k].size>> \in B
        BY <1>0, <2>3, <3>2
      <4>2. ~CursorLess(<<k, c[k].size>>, x)
        BY <2>3 DEF CursorLess
      <4> QED
        BY <2>2, <2>3, <4>1, <4>2 DEF End
    <3>4. ASSUME NEW v \in 1..k, v > n PROVE c[v].kind # "rejected"
      <4>1. v \in 1..Len(c) /\ v - 1 \in 0..Len(c) /\ v \in Nat /\ n <= v - 1 /\ v - 1 < k
        BY <2>3, <3>4
      <4>2. <<v, 1>> \in B
        BY <1>0, <3>2, <3>4, <4>1
      <4>3. v \in {e[1] : e \in fresh} /\ v < stop
        BY <2>1, <4>2
      <4>4. {e \in fresh : e[1] = v} = {<<v, i>> : i \in 1..c[v].size}
        <5>1. ASSUME NEW e \in fresh, e[1] = v
              PROVE  e \in {<<v, i>> : i \in 1..c[v].size}
            BY <5>1, EventsInPairs
        <5>2. ASSUME NEW i \in 1..c[v].size
              PROVE  <<v, i>> \in fresh /\ <<v, i>>[1] = v
            BY <2>1, <3>2, <3>4
        <5> QED
            BY <5>1, <5>2
      <4>5. m.projection \cup {e \in fresh : e[1] < v} = EventsIn(c, v - 1)
        <5>0. \A u, i : <<u, i>> \in EventsIn(c, v - 1) <=>
                            u \in 1..(v - 1) /\ i \in 1..c[u].size
            BY <4>1, EventsInMember
        <5>1. ASSUME NEW e \in m.projection PROVE e \in EventsIn(c, v - 1)
          <6>1. e = <<e[1], e[2]>> /\ e[1] \in 1..n /\ e[2] \in 1..c[e[1]].size
            BY <1>1, EventsInPairs
          <6>2. e[1] \in 1..(v - 1)
            BY <4>1, <6>1
          <6> QED
            BY <5>0, <6>1, <6>2
        <5>2. ASSUME NEW e \in fresh, e[1] < v PROVE e \in EventsIn(c, v - 1)
          <6>1. e = <<e[1], e[2]>> /\ e[1] \in 1..Len(c) /\ e[2] \in 1..c[e[1]].size
            BY EventsInPairs
          <6>2. e[1] \in 1..(v - 1)
            BY <4>1, <5>2, <6>1
          <6> QED
            BY <5>0, <6>1, <6>2
        <5>3. ASSUME NEW e \in EventsIn(c, v - 1)
              PROVE  e \in m.projection \cup {d \in fresh : d[1] < v}
          <6>1. e = <<e[1], e[2]>> /\ e[1] \in 1..(v - 1) /\ e[2] \in 1..c[e[1]].size
            BY EventsInPairs
          <6>2. e[1] \in 1..k /\ e[1] < v
            BY <2>3, <4>1, <6>1
          <6>3. e \in EventsIn(c, k)
            BY <3>1, <6>1, <6>2
          <6> QED
            BY <2>1, <2>5, <6>2, <6>3
        <5> QED
            BY <5>1, <5>2, <5>3
      <4> QED
        BY <4>3, <4>4, <4>5 DEF AcceptedBefore
    <3>5. ASSUME NEW v \in 1..k, ~(v > n) PROVE c[v].kind # "rejected"
        BY <1>1, <3>5
    <3> QED
        BY <3>3, <3>4, <3>5
  <2> QED
    BY <2>3, <2>4, <2>5
<1> QED
    BY <1>2, <1>3

-----------------------------------------------------------------------------
(* Steps of the worker *)

\* The model's sets of events are those of its chain.
LEMMA EventsOfChain ==
    /\ \A n : EventsUpTo(n) = EventsIn(chain, n)
    /\ \A v : Events(v) = {<<v, i>> : i \in 1..chain[v].size}
    /\ ChainEvents = EventsIn(chain, Len(chain))
BY DEF EventsUpTo, Events, ChainEvents, EventsIn

\* A worker goes on, with a new memory and new alerts.
LEMMA MemoryStep ==
    ASSUME Memories, chain' = chain, NEW p \in Proc, NEW m \in Memory, NEW w \in Place,
           NEW t \in SUBSET RaisedAlerts, AtPlace(chain, w, m),
           mem' = [mem EXCEPT ![p] = m], pc' = [pc EXCEPT ![p] = w],
           todo' = [todo EXCEPT ![p] = t]
    PROVE  Memories'
<1>1. /\ mem' \in [Proc -> Memory] /\ pc' \in [Proc -> Place]
      /\ todo' \in [Proc -> SUBSET RaisedAlerts]
    BY DEF Memories
<1>2. /\ mem'[p] = m /\ pc'[p] = w
      /\ \A q \in Proc : q # p => mem'[q] = mem[q] /\ pc'[q] = pc[q]
    BY DEF Memories
<1>3. ASSUME NEW q \in Proc PROVE AtPlace(chain', pc'[q], mem'[q])
  <2>1. CASE q = p
    BY <1>2, <2>1
  <2>2. CASE q # p
    BY <1>2, <2>2 DEF Memories
  <2> QED
    BY <2>1, <2>2
<1> QED
    BY <1>1, <1>3 DEF Memories

\* A worker goes on to where its memory need not be worth anything.
LEMMA PlaceStep ==
    ASSUME Memories, chain' = chain, NEW p \in Proc,
           NEW w \in Place \ {"poll", "reconcile", "checkpoint"},
           UNCHANGED <<mem, todo>>, Goto(p, w)
    PROVE  Memories'
<1>1. pc' \in [Proc -> Place] /\ pc'[p] = w /\ \A q \in Proc : q # p => pc'[q] = pc[q]
    BY DEF Memories, Goto
<1>2. \A q \in Proc : AtPlace(chain', pc'[q], mem'[q])
    BY <1>1 DEF Memories, AtPlace
<1> QED
    BY <1>1, <1>2 DEF Memories

\* Nothing of the worker changes.
LEMMA MemoriesUnchanged ==
    ASSUME Memories, UNCHANGED <<chain, mem, pc, todo>>
    PROVE  Memories'
BY DEF Memories

\* restoreLatestSnapshotOwned: the memory is the durable state.
LEMMA RestoreKeeps ==
    ASSUME WorkerInv, NEW p \in Proc, RestoreLatestSnapshot(p)
    PROVE  Memories'
<1>0. /\ mem' = [mem EXCEPT ![p] = Restored] /\ chain' = chain /\ todo' = todo
      /\ pc' = [pc EXCEPT ![p] = "poll"]
    BY DEF RestoreLatestSnapshot, Goto
<1>1. Restored \in Memory /\ \E n \in 0..Len(chain) : StateOf(chain, n, Restored)
  <2>0. chain \in Seq(Transaction) /\ Len(chain) \in Nat
    BY ChainType DEF WorkerInv, Durable
  <2>1. CASE live["snapshot"] = NoSnapshot
    <3>1. Restored = [projection |-> {}, cursor |-> <<0, 0>>, base |-> NoSnapshot,
                      reconciled |-> Unreconciled]
        BY <2>1 DEF Restored, Fresh, NoCursor
    <3>2. Restored \in Memory
        BY <3>1 DEF Memory, Snapshot
    <3>3. StateOf(chain, 0, Restored)
        BY <3>1 DEF StateOf, EventsIn, End, NoCursor
    <3> QED
        BY <2>0, <3>2, <3>3
  <2>2. CASE live["snapshot"] # NoSnapshot
    <3>0. PICK b : b = live["snapshot"]
        OBVIOUS
    <3>1. Restored = [projection |-> b.projection, cursor |-> b.cursor, base |-> b,
                      reconciled |-> Unreconciled]
        BY <2>2, <3>0 DEF Restored
    <3>2. b \in Snapshot
        BY <3>0 DEF WorkerInv, StoreInv, StoreTypeOK
    <3>3. PICK n \in 1..Len(chain) : StateOf(chain, n, b)
        BY <2>2, <3>0 DEF WorkerInv, Durable, Checkpointed, IsCheckpoint, ReachedBy
    <3>4. n \in 0..Len(chain)
        BY <2>0
    <3>5. EventsIn(chain, n) \in SUBSET (Nat \X Nat)
        BY <2>0, <3>4, EventsInMember
    <3>6. End(chain, n) \in Nat \X Nat
        BY <2>0, <3>3, ChainType DEF End
    <3>7. b.projection \in SUBSET (Nat \X Nat) /\ b.cursor \in Nat \X Nat
        BY <3>3, <3>5, <3>6 DEF StateOf
    <3>8. Restored \in Memory
        BY <3>1, <3>2, <3>7 DEF Memory
    <3>9. Restored.projection = b.projection /\ Restored.cursor = b.cursor
        BY <3>1
    <3>10. StateOf(chain, n, Restored)
        BY <3>3, <3>9 DEF StateOf
    <3> QED
        BY <3>4, <3>8, <3>10
  <2> QED
    BY <2>1, <2>2
<1>2. PICK m : m = Restored
    OBVIOUS
<1>3. PICK w : w = "poll"
    OBVIOUS
<1>4. w \in Place /\ AtPlace(chain, w, m) /\ m \in Memory
    BY <1>1, <1>2, <1>3 DEF Place, AtPlace
<1>5. Memories /\ todo[p] \in SUBSET RaisedAlerts /\ todo' = [todo EXCEPT ![p] = todo[p]]
    BY <1>0 DEF WorkerInv, Memories
<1> QED
    BY <1>0, <1>2, <1>3, <1>4, <1>5, MemoryStep

\* processOwned: whatever the page was, a memory that the chain's views agree
\* with is the state after clean or divergent transactions.
LEMMA ProcessKeeps ==
    ASSUME WorkerInv, NEW p \in Proc, pc[p] = "poll", chain' = chain,
           NEW page, page \subseteq ChainEvents, Process(p, page)
    PROVE  Memories'
<1>0. chain \in Seq(Transaction) /\ Len(chain) \in Nat /\ Memories
    BY ChainType DEF WorkerInv, Durable
<1> DEFINE m == mem[p]
           fresh == AfterCursor(page, m.cursor)
           before(v) == {e \in fresh : e[1] < v}
           group(v) == {e \in fresh : e[1] = v}
           seen(v) == m.projection \cup before(v)
           versions == {e[1] : e \in fresh}
<1>1. PICK stop \in versions \cup {Len(chain) + 1} :
         /\ \A v \in versions : v < stop => MayPass(seen(v), group(v), v)
         /\ mem' = [mem EXCEPT ![p] =
                      [mem[p] EXCEPT !.projection = seen(stop),
                                     !.cursor = LastOf(before(stop), m.cursor),
                                     !.reconciled = Unreconciled]]
         /\ todo' = [todo EXCEPT ![p] =
                      IF stop \notin versions THEN {}
                      ELSE {Alert(<<"event", stop>>, Complete(seen(stop), group(stop), stop))}]
         /\ Goto(p, IF stop \in versions THEN "journal"
                    ELSE IF LastOf(before(stop), m.cursor) = NoCursor THEN "return"
                    ELSE "reconcile")
    BY DEF Process
<1>2. PICK n \in 0..Len(chain) : StateOf(chain, n, m)
    BY <1>0 DEF Memories, AtPlace
<1>3. /\ page \subseteq EventsIn(chain, Len(chain))
      /\ m.projection = EventsIn(chain, n) /\ m.cursor = End(chain, n)
    BY <1>2, EventsOfChain DEF StateOf
<1>4. fresh \subseteq EventsIn(chain, Len(chain)) /\ \A e \in fresh : e[1] > n
    BY <1>0, <1>3, FreshIsLater
<1>5. \A v \in versions : v < stop =>
         (group(v) = {<<v, i>> : i \in 1..chain[v].size} /\ seen(v) = EventsIn(chain, v - 1)
          => chain[v].kind # "rejected")
    BY <1>1, EventsOfChain DEF MayPass, Complete
<1>6. PICK x : x = LastOf(before(stop), m.cursor)
    OBVIOUS
<1>7. /\ x \in Nat \X Nat /\ x[1] \in 0..Len(chain)
      /\ seen(stop) = EventsIn(chain, x[1]) =>
           x = End(chain, x[1]) /\ \A v \in 1..x[1] : chain[v].kind # "rejected"
  <2>1. PICK F : F = fresh
    OBVIOUS
  <2>2. PICK M : M = m
    OBVIOUS
  <2>3. /\ F \subseteq EventsIn(chain, Len(chain)) /\ \A e \in F : e[1] > n
        /\ Before(F, stop) = before(stop) /\ StateOf(chain, n, M)
        /\ x = LastOf(Before(F, stop), M.cursor)
    BY <1>2, <1>4, <1>6, <2>1, <2>2 DEF Before
  <2>4. AcceptedBefore(chain, M, F, stop)
    BY <1>5, <2>1, <2>2 DEF AcceptedBefore
  <2>5. seen(stop) = M.projection \cup Before(F, stop)
    BY <2>2, <2>3
  <2> HIDE DEF m, fresh, before, seen, group, versions
  <2> DEFINE y == LastOf(Before(F, stop), M.cursor)
  <2>6. /\ y \in Nat \X Nat /\ y[1] \in 0..Len(chain)
        /\ M.projection \cup Before(F, stop) = EventsIn(chain, y[1]) =>
             /\ y = End(chain, y[1])
             /\ \A v \in 1..y[1] : chain[v].kind # "rejected"
    BY <1>0, <2>3, <2>4, PrefixReplayed
  <2> QED
    BY <2>3, <2>5, <2>6
<1>8. PICK r : r = [mem[p] EXCEPT !.projection = seen(stop), !.cursor = x,
                                  !.reconciled = Unreconciled]
    OBVIOUS
<1>9. seen(stop) \in SUBSET (Nat \X Nat)
  <2>1. EventsIn(chain, n) \in SUBSET (Nat \X Nat)
    BY <1>0, EventsInMember
  <2>2. Len(chain) \in 0..Len(chain)
    BY <1>0
  <2>3. EventsIn(chain, Len(chain)) \in SUBSET (Nat \X Nat)
    BY <1>0, <2>2, EventsInMember
  <2>4. before(stop) \subseteq fresh
    OBVIOUS
  <2> QED
    BY <1>3, <1>4, <2>1, <2>3, <2>4
<1>10. r \in Memory /\ r.projection = seen(stop) /\ r.cursor = x
  <2>1. mem[p] \in Memory
    BY <1>0 DEF Memories
  <2> HIDE DEF m, fresh, before, seen
  <2> QED
    BY <1>7, <1>8, <1>9, <2>1 DEF Memory
<1>11. Replayed(chain, r)
    BY <1>7, <1>10 DEF Replayed
<1>12. PICK w : w = IF stop \in versions THEN "journal"
                    ELSE IF x = NoCursor THEN "return" ELSE "reconcile"
    OBVIOUS
<1>13. w \in Place /\ AtPlace(chain, w, r)
    BY <1>11, <1>12 DEF Place, AtPlace
<1>14. PICK t : t = IF stop \notin versions THEN {}
                    ELSE {Alert(<<"event", stop>>, Complete(seen(stop), group(stop), stop))}
    OBVIOUS
<1>15. t \in SUBSET RaisedAlerts
  <2>1. \A v \in versions : v \in Nat
    BY <1>0, <1>4, EventsInPairs
  <2>2. \A v \in Nat : \A b : Alert(<<"event", v>>, b) \in RaisedAlerts
    BY DEF Alert, RaisedAlerts
  <2> QED
    BY <1>14, <2>1, <2>2
<1>16. /\ mem' = [mem EXCEPT ![p] = r] /\ todo' = [todo EXCEPT ![p] = t]
       /\ pc' = [pc EXCEPT ![p] = w]
    BY <1>1, <1>6, <1>8, <1>12, <1>14 DEF Goto
<1> HIDE DEF m, fresh, before, group, seen, versions
<1> QED
    BY <1>0, <1>10, <1>13, <1>15, <1>16, MemoryStep

\* PollOnce and PollBadPage: a page holds events of the chain, whatever it omits.
LEMMA PollKeeps ==
    ASSUME WorkerInv, NEW p \in Proc, PollOnce(p) \/ PollBadPage(p)
    PROVE  Memories'
<1>1. pc[p] = "poll" /\ chain' = chain
    BY DEF PollOnce, PollBadPage
<1>2. NextPage(p) \subseteq ChainEvents
    BY DEF NextPage, ChainEvents, EventsUpTo
<1>3. CASE PollOnce(p)
    BY <1>1, <1>2, <1>3, ProcessKeeps DEF PollOnce
<1>4. CASE PollBadPage(p)
  <2>1. PICK page \in SUBSET ChainEvents : Process(p, page)
    BY <1>4 DEF PollBadPage
  <2> QED
    BY <1>1, <2>1, ProcessKeeps
<1> QED
    BY <1>3, <1>4

\* reconcileOwned: a memory is authorised only when it is a state of the chain.
LEMMA ReconcileKeeps ==
    ASSUME WorkerInv, NEW p \in Proc, Reconcile(p)
    PROVE  Memories'
<1>0. chain \in Seq(Transaction) /\ Memories /\ chain' = chain
    BY DEF WorkerInv, Durable, Reconcile
<1> DEFINE m == mem[p]
<1>1. m \in Memory /\ Replayed(chain, m) /\ todo[p] \in SUBSET RaisedAlerts
    BY <1>0 DEF Memories, AtPlace, Reconcile
<1>2. CASE /\ ViewsAgree(m)
           /\ mem' = [mem EXCEPT ![p].reconciled =
                        IF AuthoritiesComplete(m) THEN CheckpointIdentity(m) ELSE Unreconciled]
           /\ Goto(p, "checkpoint")
           /\ UNCHANGED todo
  <2>1. PICK a : a = IF AuthoritiesComplete(m) THEN CheckpointIdentity(m) ELSE Unreconciled
    OBVIOUS
  <2>2. PICK r : r = [m EXCEPT !.reconciled = a]
    OBVIOUS
  <2>3. mem' = [mem EXCEPT ![p] = r]
    BY <1>2, <2>1, <2>2
  <2>4. /\ m.projection \in SUBSET (Nat \X Nat) /\ m.cursor \in Nat \X Nat
        /\ a \in {Unreconciled} \cup ((SUBSET (Nat \X Nat)) \X (Nat \X Nat))
    BY <1>1, <2>1 DEF Memory, CheckpointIdentity
  <2>5. r \in Memory /\ r.projection = m.projection /\ r.cursor = m.cursor
    BY <1>1, <2>2, <2>4 DEF Memory
  <2>6. ASSUME Authorised(r) PROVE ReachedBy(chain, r)
    <3> DEFINE k == m.cursor[1]
    <3>1. r.projection # {}
        BY <2>6 DEF Authorised, AuthoritiesComplete
    <3>2. m.projection = EventsIn(chain, k) /\ \A v \in 1..k : chain[v].kind # "divergent"
        BY <1>2, EventsOfChain DEF ViewsAgree
    <3>3. /\ k \in 0..Len(chain) /\ m.cursor = End(chain, k)
          /\ \A v \in 1..k : chain[v].kind # "rejected"
        BY <1>1, <3>2 DEF Replayed
    <3>4. Len(chain) \in Nat /\ \A v \in 1..k : chain[v].kind = "clean"
      <4>1. Len(chain) \in Nat /\ \A v \in 1..Len(chain) :
                chain[v].kind \in {"clean", "rejected", "divergent"}
        BY <1>0, ChainType
      <4>2. \A v \in 1..k : v \in 1..Len(chain)
        BY <3>3, <4>1
      <4> QED
        BY <3>2, <3>3, <4>1, <4>2
    <3>5. k # 0
      <4>1. EventsIn(chain, 0) = {}
        BY DEF EventsIn
      <4> QED
        BY <2>5, <3>1, <3>2, <4>1
    <3>6. k \in 1..Len(chain)
        BY <3>3, <3>4, <3>5
    <3>7. StateOf(chain, k, r)
        BY <2>5, <3>2, <3>3, <3>4 DEF StateOf
    <3> QED
        BY <3>6, <3>7 DEF ReachedBy
  <2>7. PICK w : w = "checkpoint"
    OBVIOUS
  <2>8. w \in Place /\ AtPlace(chain, w, r) /\ pc' = [pc EXCEPT ![p] = w]
    BY <1>2, <2>6, <2>7 DEF Place, AtPlace, Goto
  <2>9. PICK t : t = todo[p]
    OBVIOUS
  <2>10. t \in SUBSET RaisedAlerts /\ todo' = [todo EXCEPT ![p] = t]
    BY <1>0, <1>1, <1>2, <2>9 DEF Memories
  <2> HIDE DEF m
  <2> QED
    BY <1>0, <2>3, <2>5, <2>8, <2>10, MemoryStep
<1>3. CASE /\ mem' = [mem EXCEPT ![p].reconciled = Unreconciled]
           /\ todo' = [todo EXCEPT ![p] =
                {Alert(<<"reconcile", m.cursor>>, m.projection = EventsUpTo(m.cursor[1]))}]
           /\ Goto(p, "journal")
  <2>1. PICK r : r = [m EXCEPT !.reconciled = Unreconciled]
    OBVIOUS
  <2>2. r \in Memory /\ mem' = [mem EXCEPT ![p] = r]
    BY <1>1, <1>3, <2>1 DEF Memory
  <2>3. PICK t : t = {Alert(<<"reconcile", m.cursor>>, m.projection = EventsUpTo(m.cursor[1]))}
    OBVIOUS
  <2>4. t \in SUBSET RaisedAlerts /\ todo' = [todo EXCEPT ![p] = t]
    <3>1. m.cursor \in Nat \X Nat
        BY <1>1 DEF Memory
    <3>2. \A d \in Nat \X Nat : \A b : Alert(<<"reconcile", d>>, b) \in RaisedAlerts
        BY DEF Alert, RaisedAlerts
    <3> QED
        BY <1>3, <2>3, <3>1, <3>2
  <2>5. PICK w : w = "journal"
    OBVIOUS
  <2>6. w \in Place /\ AtPlace(chain, w, r) /\ pc' = [pc EXCEPT ![p] = w]
    BY <1>3, <2>5 DEF Place, AtPlace, Goto
  <2> HIDE DEF m
  <2> QED
    BY <1>0, <2>2, <2>4, <2>6, MemoryStep
<1> QED
    BY <1>2, <1>3 DEF Reconcile

\* The awaited call has settled: the worker goes on or ends its cycle.
LEMMA ResumeKeeps ==
    ASSUME WorkerInv, NEW p \in Proc, Resume(p)
    PROVE  Memories'
<1>0. Memories /\ chain' = chain /\ mem[p] \in Memory /\ todo[p] \in SUBSET RaisedAlerts
    BY DEF WorkerInv, Memories, Resume
<1>1. CASE Goto(p, "return") /\ UNCHANGED <<mem, todo>>
  <2>1. PICK w : w = "return"
    OBVIOUS
  <2>2. w \in Place \ {"poll", "reconcile", "checkpoint"} /\ Goto(p, w)
    BY <1>1, <2>1 DEF Place
  <2> QED
    BY <1>0, <1>1, <2>2, PlaceStep
<1>2. CASE Goto(p, "deliver") /\ UNCHANGED <<mem, todo>>
  <2>1. PICK w : w = "deliver"
    OBVIOUS
  <2>2. w \in Place \ {"poll", "reconcile", "checkpoint"} /\ Goto(p, w)
    BY <1>2, <2>1 DEF Place
  <2> QED
    BY <1>0, <1>2, <2>2, PlaceStep
<1>3. CASE /\ todo' = [todo EXCEPT ![p] = {a \in @ : a \notin live["delivered"]}]
           /\ Goto(p, "deliver") /\ UNCHANGED mem
  <2>1. PICK w : w = "deliver"
    OBVIOUS
  <2>2. PICK t : t = {a \in todo[p] : a \notin live["delivered"]}
    OBVIOUS
  <2>3. PICK r : r = mem[p]
    OBVIOUS
  <2>4. /\ w \in Place /\ AtPlace(chain, w, r) /\ r \in Memory /\ t \in SUBSET RaisedAlerts
        /\ pc' = [pc EXCEPT ![p] = w] /\ todo' = [todo EXCEPT ![p] = t]
        /\ mem' = [mem EXCEPT ![p] = r]
    BY <1>0, <1>3, <2>1, <2>2, <2>3 DEF Place, AtPlace, Goto, Memories
  <2> QED
    BY <1>0, <2>4, MemoryStep
<1>4. CASE /\ mem' = [mem EXCEPT ![p].base = live["snapshot"]]
           /\ Goto(p, "return") /\ UNCHANGED todo
  <2>1. PICK w : w = "return"
    OBVIOUS
  <2>2. PICK t : t = todo[p]
    OBVIOUS
  <2>3. PICK b : b = live["snapshot"]
    OBVIOUS
  <2>4. PICK r : r = [mem[p] EXCEPT !.base = b]
    OBVIOUS
  <2>5. b \in Snapshot
    BY <2>3 DEF WorkerInv, StoreInv, StoreTypeOK
  <2>6. r \in Memory /\ mem' = [mem EXCEPT ![p] = r]
    BY <1>0, <1>4, <2>3, <2>4, <2>5 DEF Memory
  <2>7. /\ w \in Place /\ AtPlace(chain, w, r) /\ t \in SUBSET RaisedAlerts
        /\ pc' = [pc EXCEPT ![p] = w] /\ todo' = [todo EXCEPT ![p] = t]
    BY <1>0, <1>4, <2>1, <2>2 DEF Place, AtPlace, Goto, Memories
  <2> QED
    BY <1>0, <2>6, <2>7, MemoryStep
<1> QED
    BY <1>1, <1>2, <1>3, <1>4 DEF Resume

\* A crash and a power loss leave fresh memories behind.
LEMMA RestartKeeps ==
    ASSUME Memories, NEW P \in SUBSET Proc, Restart(P)
    PROVE  Memories'
<1>1. Fresh \in Memory /\ "idle" \in Place
    BY DEF Fresh, Memory, NoCursor, Snapshot, Place
<1>2. /\ mem' \in [Proc -> Memory] /\ pc' \in [Proc -> Place]
      /\ todo' \in [Proc -> SUBSET RaisedAlerts]
    BY <1>1 DEF Memories, Restart
<1>3. ASSUME NEW q \in Proc PROVE AtPlace(chain', pc'[q], mem'[q])
  <2>1. CASE q \in P
    BY <2>1 DEF Restart, AtPlace
  <2>2. CASE q \notin P
    <3>1. chain' = chain /\ pc'[q] = pc[q] /\ mem'[q] = mem[q]
        BY <2>2 DEF Restart
    <3> QED
        BY <3>1 DEF Memories
  <2> QED
    BY <2>1, <2>2
<1> QED
    BY <1>2, <1>3 DEF Memories

\* The cycle ends: what the indexer still holds is dropped.
LEMMA FinishKeeps ==
    ASSUME Memories, NEW p \in Proc, FinishCycle(p)
    PROVE  Memories'
<1>1. PICK r : r = Fresh
    OBVIOUS
<1>2. PICK w : w = "idle"
    OBVIOUS
<1>3. PICK t : t = {}
    OBVIOUS
<1>4. /\ r \in Memory /\ w \in Place /\ t \in SUBSET RaisedAlerts /\ AtPlace(chain, w, r)
    BY <1>1, <1>2, <1>3 DEF Fresh, Memory, NoCursor, Snapshot, Place, AtPlace
<1>5. /\ mem' = [mem EXCEPT ![p] = r] /\ pc' = [pc EXCEPT ![p] = w]
      /\ todo' = [todo EXCEPT ![p] = t] /\ chain' = chain
    BY <1>1, <1>2, <1>3 DEF FinishCycle, Goto
<1> QED
    BY <1>4, <1>5, MemoryStep

-----------------------------------------------------------------------------
(* Snapshots on their way *)

\* No call of a snapshot starts, and the files stay.
LEMMA DurableKept ==
    ASSUME Durable, chain' = chain, live'["snapshot"] = live["snapshot"],
           synced'["snapshot"] = synced["snapshot"],
           \A q \in Proc, t \in Slot :
              call'[q][t].stage \in InProgress /\ call'[q][t].file = "snapshot" =>
                  IsCheckpoint(chain, call'[q][t].arg)
    PROVE  Durable'
BY DEF Durable

\* The same when one call changes.
LEMMA CallDurable ==
    ASSUME StoreInv, Durable, chain' = chain, live'["snapshot"] = live["snapshot"],
           synced'["snapshot"] = synced["snapshot"],
           NEW p \in Proc, NEW s \in Slot, NEW c, SetCall(p, s, c),
           c.stage \in InProgress /\ c.file = "snapshot" => IsCheckpoint(chain, c.arg)
    PROVE  Durable'
<1>1. /\ call'[p][s] = c
      /\ \A q \in Proc, t \in Slot : q # p \/ t # s => call'[q][t] = call[q][t]
  <2>1. call \in [Proc -> [Slot -> Call]] /\ call' = [call EXCEPT ![p][s] = c]
    BY DEF StoreInv, StoreTypeOK, SetCall
  <2>2. call[p] \in [Slot -> Call] /\ call' = [call EXCEPT ![p] = [call[p] EXCEPT ![s] = c]]
    BY <2>1
  <2>3. call'[p] = [call[p] EXCEPT ![s] = c] /\ \A q \in Proc : q # p => call'[q] = call[q]
    BY <2>1, <2>2
  <2> QED
    BY <2>2, <2>3
<1>2. ASSUME NEW q \in Proc, NEW t \in Slot,
             call'[q][t].stage \in InProgress, call'[q][t].file = "snapshot"
      PROVE  IsCheckpoint(chain, call'[q][t].arg)
  <2>1. CASE q = p /\ t = s
    BY <1>1, <1>2, <2>1
  <2>2. CASE q # p \/ t # s
    BY <1>1, <1>2, <2>2 DEF Durable
  <2> QED
    BY <2>1, <2>2
<1> QED
    BY <1>2, DurableKept

\* A checkpoint that may replace another covers no less of the chain.
LEMMA Forward ==
    ASSUME NEW c \in Seq(Transaction), NEW a, Checkpointed(c, a),
           NEW b, IsCheckpoint(c, b), Monotonic(a, b)
    PROVE  /\ Version(a) \in 0..Version(b) /\ Version(b) \in 1..Len(c)
           /\ \A v \in 1..Version(b) : c[v].kind = "clean"
<1>0. Len(c) \in Nat
    BY ChainType
<1>1. PICK n \in 1..Len(c) : StateOf(c, n, b)
    BY DEF IsCheckpoint, ReachedBy
<1>2. b # NoSnapshot
    BY WorkerAssumption DEF IsCheckpoint, WorkerSnapshots
<1>3. /\ b.cursor = <<n, c[n].size>> /\ n \in Nat /\ n > 0 /\ c[n].size \in Nat
      /\ \A v \in 1..n : c[v].kind = "clean"
    BY <1>0, <1>1, ChainType DEF StateOf, End
<1>4. Version(b) = n
    BY <1>2, <1>3 DEF Version
<1>5. CASE a = NoSnapshot
    BY <1>1, <1>3, <1>4, <1>5 DEF Version
<1>6. CASE a # NoSnapshot
  <2>1. PICK k \in 1..Len(c) : StateOf(c, k, a)
    BY <1>6 DEF Checkpointed, IsCheckpoint, ReachedBy
  <2>2. a.cursor = <<k, c[k].size>> /\ k \in Nat /\ k > 0 /\ c[k].size \in Nat
    BY <1>0, <2>1, ChainType DEF StateOf, End
  <2>3. Version(a) = k
    BY <1>6, <2>2 DEF Version
  <2>4. CursorLess(a.cursor, b.cursor) \/ a.cursor = b.cursor
    BY <1>6 DEF Monotonic, SnapshotState
  <2>5. k <= n
    BY <1>3, <2>2, <2>4 DEF CursorLess
  <2> QED
    BY <1>1, <1>3, <1>4, <2>2, <2>3, <2>5
<1> QED
    BY <1>5, <1>6

\* A step of a store call: what it carries stays a state of the chain, and what
\* it writes replaces an earlier one.
LEMMA StepDurable ==
    ASSUME StoreInv, Durable, NEW p \in Proc, NEW s \in Slot, StoreStep(p, s),
           chain' = chain
    PROVE  Durable'
<1> DEFINE c == call[p][s]
<1>0. /\ chain \in Seq(Transaction) /\ c \in Call
      /\ DOMAIN live = File /\ DOMAIN synced = File
    BY DEF Durable, StoreInv, StoreTypeOK
<1>1. c.stage \in InProgress
    BY DEF StoreStep, OpenLock, Load, Rename, SyncDirectory, Acknowledge, InProgress
<1>2. /\ c \in Saving \cup Appending \cup Delivering /\ c.file \in File
      /\ c.file = "snapshot" => c \in Saving /\ IsCheckpoint(chain, c.arg)
    BY <1>0, <1>1, CallStages DEF Durable
<1>r. \A f, g : /\ [stage |-> "rejected", file |-> f].stage \notin InProgress
                /\ [stage |-> "fulfilled", file |-> f].stage \notin InProgress
    BY DEF InProgress
<1>e. \A g : /\ [c EXCEPT !.stage = g].file = c.file
             /\ [c EXCEPT !.stage = g].arg = c.arg
    BY <1>2 DEF Saving, Appending, Delivering
<1>3. CASE OpenLock(p, s)
  <2>1. \E d : SetCall(p, s, d) /\ (d.stage \in InProgress /\ d.file = "snapshot" =>
                                       IsCheckpoint(chain, d.arg))
    BY <1>2, <1>3, <1>r, <1>e DEF OpenLock
  <2>2. UNCHANGED <<live, synced>>
    BY <1>3 DEF OpenLock
  <2> HIDE DEF c
  <2> QED
    BY <2>1, <2>2, CallDurable
<1>4. CASE Load(p, s)
  <2>1. UNCHANGED <<live, synced>>
    BY <1>4 DEF Load
  <2>2. CASE SetCall(p, s, [c EXCEPT !.stage = AfterLoad(c), !.arg = Replacement(c)])
    <3>1. PICK g : g = AfterLoad(c)
        OBVIOUS
    <3>2. PICK a : a = Replacement(c)
        OBVIOUS
    <3>3. PICK d : d = [c EXCEPT !.stage = g, !.arg = a]
        OBVIOUS
    <3>4. SetCall(p, s, d)
        BY <2>2, <3>1, <3>2, <3>3
    <3>5. d.file = c.file /\ d.arg = a
        BY <1>2, <3>3 DEF Saving, Appending, Delivering
    <3>6. c.file = "snapshot" => a = c.arg
        BY <3>2 DEF Replacement
    <3>7. d.stage \in InProgress /\ d.file = "snapshot" => IsCheckpoint(chain, d.arg)
        BY <1>2, <3>5, <3>6
    <3> QED
        BY <2>1, <3>4, <3>7, CallDurable
  <2>3. CASE SetCall(p, s, [stage |-> "rejected", file |-> c.file])
    <3> HIDE DEF c
    <3> QED
        BY <1>r, <2>1, <2>3, CallDurable
  <2> QED
    BY <1>4, <2>2, <2>3 DEF Load
<1>5. CASE Rename(p, s)
  <2>1. CASE UNCHANGED live
    <3>1. \E d : SetCall(p, s, d) /\ (d.stage \in InProgress /\ d.file = "snapshot" =>
                                         IsCheckpoint(chain, d.arg))
        BY <1>2, <1>5, <1>r, <1>e DEF Rename
    <3>2. UNCHANGED <<live, synced>>
        BY <1>5, <2>1 DEF Rename
    <3> HIDE DEF c
    <3> QED
        BY <3>1, <3>2, CallDurable
  <2>2. CASE live' = [live EXCEPT ![c.file] = c.arg] /\ SetCall(p, s, [c EXCEPT !.stage = "sync"])
    <3>1. UNCHANGED synced
        BY <1>5 DEF Rename
    <3>2. PICK d : d = [c EXCEPT !.stage = "sync"]
        OBVIOUS
    <3>3. SetCall(p, s, d) /\ d.file = c.file /\ d.arg = c.arg
        BY <1>e, <2>2, <3>2
    <3>4. CASE c.file # "snapshot"
      <4>1. live'["snapshot"] = live["snapshot"]
        BY <1>0, <1>2, <2>2, <3>4 DEF File
      <4> QED
        BY <3>1, <3>3, <3>4, <4>1, CallDurable
    <3>5. CASE c.file = "snapshot"
      <4>1. live'["snapshot"] = c.arg /\ IsCheckpoint(chain, c.arg)
        BY <1>0, <1>2, <2>2, <3>5 DEF File
      <4>2. Monotonic(live["snapshot"], c.arg)
        BY <1>5, <3>5 DEF Rename, StoreInv, ReadsCurrent
      <4>3. /\ Version(live["snapshot"]) \in 0..Version(c.arg)
            /\ Version(c.arg) \in 1..Len(chain)
        <5>1. PICK a : a = live["snapshot"]
            OBVIOUS
        <5>2. PICK b : b = c.arg
            OBVIOUS
        <5>3. Checkpointed(chain, a) /\ IsCheckpoint(chain, b) /\ Monotonic(a, b)
            BY <4>1, <4>2, <5>1, <5>2 DEF Durable
        <5>4. Version(a) \in 0..Version(b) /\ Version(b) \in 1..Len(chain)
            BY <1>0, <5>3, Forward
        <5> QED
            BY <5>1, <5>2, <5>4
      <4>4. Version(synced["snapshot"]) \in Nat
        <5>1. Checkpointed(chain, synced["snapshot"]) /\ Len(chain) \in Nat
            BY <1>0, ChainType DEF Durable
        <5> QED
            BY <1>0, <5>1, ChainType
               DEF Version, Checkpointed, IsCheckpoint, WorkerSnapshots
      <4>5. Version(synced["snapshot"]) <= Version(c.arg)
        <5>1. Version(synced["snapshot"]) <= Version(live["snapshot"]) /\ Len(chain) \in Nat
            BY <1>0, ChainType DEF Durable
        <5> QED
            BY <4>3, <4>4, <5>1
      <4>6. \A q \in Proc, t \in Slot :
               call'[q][t].stage \in InProgress /\ call'[q][t].file = "snapshot" =>
                  IsCheckpoint(chain, call'[q][t].arg)
        <5>1. d \in Call
            BY <1>2, <3>2 DEF Call, Saving, Appending, Delivering, InProgress
        <5>2. call'[p][s] = d
              /\ \A q \in Proc, t \in Slot : q # p \/ t # s => call'[q][t] = call[q][t]
            BY <3>3, <5>1, CallSet, ZenonT(60) DEF SetCall, StoreInv
        <5> QED
            BY <3>3, <3>5, <4>1, <5>2 DEF Durable
      <4> HIDE DEF c
      <4> QED
        BY <3>1, <4>1, <4>5, <4>6 DEF Durable, Checkpointed
    <3> QED
        BY <3>4, <3>5
  <2> QED
    BY <1>5, <2>1, <2>2 DEF Rename
<1>6. CASE SyncDirectory(p, s)
  <2>1. PICK d : d = [c EXCEPT !.stage = "unlock"]
    OBVIOUS
  <2>2. SetCall(p, s, d) /\ d.file = c.file /\ d.arg = c.arg /\ UNCHANGED live
    BY <1>6, <1>e, <2>1 DEF SyncDirectory
  <2>3. /\ synced'["snapshot"] \in {synced["snapshot"], live["snapshot"]}
    BY <1>0, <1>2, <1>6 DEF SyncDirectory, File
  <2>4. CASE synced'["snapshot"] = synced["snapshot"]
    <3> HIDE DEF c
    <3> QED
        BY <1>2, <2>2, <2>4, CallDurable
  <2>5. CASE synced'["snapshot"] = live["snapshot"]
    <3>1. d \in Call
        BY <1>2, <2>1 DEF Call, Saving, Appending, Delivering, InProgress
    <3>2. call'[p][s] = d
          /\ \A q \in Proc, t \in Slot : q # p \/ t # s => call'[q][t] = call[q][t]
        BY <2>2, <3>1, CallSet, ZenonT(60) DEF SetCall, StoreInv
    <3>3. \A q \in Proc, t \in Slot :
             call'[q][t].stage \in InProgress /\ call'[q][t].file = "snapshot" =>
                IsCheckpoint(chain, call'[q][t].arg)
        BY <1>2, <2>2, <3>2 DEF Durable
    <3>4. Version(live["snapshot"]) \in Nat
      <4>1. Checkpointed(chain, live["snapshot"])
        BY DEF Durable
      <4> QED
        BY <4>1 DEF Version, Checkpointed, IsCheckpoint, WorkerSnapshots
    <3> QED
        BY <2>2, <2>5, <3>3, <3>4 DEF Durable
  <2> QED
    BY <2>3, <2>4, <2>5
<1>7. CASE Acknowledge(p, s)
  <2>1. \E d : SetCall(p, s, d) /\ (d.stage \in InProgress /\ d.file = "snapshot" =>
                                       IsCheckpoint(chain, d.arg))
    BY <1>7, <1>r DEF Acknowledge
  <2>2. UNCHANGED <<live, synced>>
    BY <1>7 DEF Acknowledge
  <2> HIDE DEF c
  <2> QED
    BY <2>1, <2>2, CallDurable
<1> QED
    BY <1>3, <1>4, <1>5, <1>6, <1>7 DEF StoreStep

\* A crash ends calls; a power loss may bring back the snapshot that was synced.
LEMMA FaultDurable ==
    ASSUME StoreInv, Durable, chain' = chain,
           (\E p \in Proc : Crash(p)) \/ PowerLoss
    PROVE  Durable'
<1>0. \A q \in Proc, t \in Slot : call'[q][t] = call[q][t] \/ call'[q][t] = Idle
    BY DEF Crash, PowerLoss, Kill
<1>1. \A q \in Proc, t \in Slot :
         call'[q][t].stage \in InProgress /\ call'[q][t].file = "snapshot" =>
            IsCheckpoint(chain, call'[q][t].arg)
    BY <1>0 DEF Durable, Idle, InProgress
<1>2. CASE \E p \in Proc : Crash(p)
    BY <1>1, <1>2, DurableKept DEF Crash
<1>3. CASE PowerLoss
  <2>1. PICK lost \in SUBSET {f \in File : live[f] # synced[f]} :
           live' = [f \in File |-> IF f \in lost THEN synced[f] ELSE live[f]]
    BY <1>3 DEF PowerLoss
  <2>2. live'["snapshot"] \in {live["snapshot"], synced["snapshot"]} /\ synced' = live'
    BY <1>3, <2>1 DEF PowerLoss, File
  <2>3. \A s : Checkpointed(chain, s) => Version(s) \in Nat
    BY DEF Version, Checkpointed, IsCheckpoint, WorkerSnapshots
  <2> QED
    BY <1>1, <2>2, <2>3 DEF Durable
<1> QED
    BY <1>2, <1>3

\* snapshotOwned: the snapshot to be saved is a state of the chain.
LEMMA CheckpointKeeps ==
    ASSUME WorkerInv, NEW p \in Proc, Checkpoint(p)
    PROVE  WorkerInv'
<1> DEFINE m == mem[p]
<1>0. /\ m \in Memory /\ chain' = chain /\ UNCHANGED <<mem, todo>> /\ pc[p] = "checkpoint"
      /\ AtPlace(chain, pc[p], m) /\ Memories /\ Durable /\ StoreInv
    BY DEF Checkpoint, WorkerInv, Memories
<1>1. CASE Authorised(m) /\ Goto(p, "saving") /\
           \E t \in Times :
              SaveSnapshot(p, The, [cursor |-> m.cursor, projection |-> m.projection, at |-> t],
                           m.base, lease[p])
  <2>1. PICK t \in Times :
           SaveSnapshot(p, The, [cursor |-> m.cursor, projection |-> m.projection, at |-> t],
                        m.base, lease[p])
    BY <1>1
  <2>2. PICK a : a = [cursor |-> m.cursor, projection |-> m.projection, at |-> t]
    OBVIOUS
  <2>3. PICK b : b = m.base
    OBVIOUS
  <2>4. PICK k : k = The
    OBVIOUS
  <2>5. k \in Slot
    BY <2>4, StoreAssumption DEF The
  <2>6. a \in WorkerSnapshots /\ a \in SavedSnapshots /\ b \in Snapshot
    BY <1>0, <2>2, <2>3 DEF Memory, WorkerSnapshots, SavedSnapshots
  <2>7. IsCheckpoint(chain, a)
    <3>1. ReachedBy(chain, m)
        BY <1>0, <1>1 DEF AtPlace
    <3>2. a.cursor = m.cursor /\ a.projection = m.projection
        BY <2>2
    <3> QED
        BY <2>6, <3>1, <3>2 DEF IsCheckpoint, ReachedBy, StateOf
  <2>8. SaveSnapshot(p, k, a, b, lease[p])
    BY <2>1, <2>2, <2>3, <2>4
  <2>9. StoreInv'
    BY <1>0, <2>5, <2>6, <2>8, SaveSnapshotKeeps
  <2>10. Durable'
    <3>1. PICK c : c = [stage |-> "open", file |-> "snapshot", arg |-> a, base |-> b,
                        token |-> lease[p]]
        OBVIOUS
    <3>2. SetCall(p, k, c) /\ UNCHANGED <<live, synced>> /\ c.arg = a
        BY <2>8, <3>1 DEF SaveSnapshot
    <3> QED
        BY <1>0, <2>5, <2>7, <3>2, CallDurable
  <2>11. Memories'
    <3>1. PICK w : w = "saving"
        OBVIOUS
    <3>2. w \in Place \ {"poll", "reconcile", "checkpoint"} /\ Goto(p, w)
        BY <1>1, <3>1 DEF Place
    <3> QED
        BY <1>0, <3>2, PlaceStep
  <2> QED
    BY <2>9, <2>10, <2>11 DEF WorkerInv
<1>2. CASE Goto(p, "return") /\ UNCHANGED storeVars
  <2>1. PICK w : w = "return"
    OBVIOUS
  <2>2. w \in Place \ {"poll", "reconcile", "checkpoint"} /\ Goto(p, w)
    BY <1>2, <2>1 DEF Place
  <2>3. Memories'
    BY <1>0, <2>2, PlaceStep
  <2>4. UNCHANGED <<lock, live, synced, lease, issued, phase, call, acked>> /\ faults' \in Nat
    BY <1>0, <1>2 DEF storeVars, StoreInv, StoreTypeOK
  <2>5. StoreInv'
    BY <1>0, <2>4, UntouchedKeeps
  <2>6. Durable'
    BY <1>0, <2>4 DEF Durable
  <2> QED
    BY <2>3, <2>5, <2>6 DEF WorkerInv
<1> QED
    BY <1>1, <1>2 DEF Checkpoint

\* The steps of a worker that leave every file and every call alone.
LEMMA InnerKeeps ==
    ASSUME WorkerInv, NEW p \in Proc,
           \/ RestoreLatestSnapshot(p) \/ PollOnce(p) \/ PollBadPage(p) \/ SourceFails(p)
           \/ DeliveredAll(p) \/ Reconcile(p)
    PROVE  WorkerInv'
<1>0. StoreInv /\ Durable /\ Memories
    BY DEF WorkerInv
<1>1. /\ UNCHANGED <<lock, live, synced, lease, issued, phase, call, acked>>
      /\ faults' \in Nat /\ chain' = chain
    BY <1>0 DEF RestoreLatestSnapshot, PollOnce, PollBadPage, SourceFails, DeliveredAll, Reconcile,
       storeVars, Fault, StoreInv, StoreTypeOK
<1>2. StoreInv'
    BY <1>0, <1>1, UntouchedKeeps
<1>3. Durable'
    BY <1>0, <1>1 DEF Durable
<1>4. CASE SourceFails(p) \/ DeliveredAll(p)
  <2>1. PICK w : w = "return"
    OBVIOUS
  <2>2. /\ w \in Place \ {"poll", "reconcile", "checkpoint"} /\ Goto(p, w)
        /\ UNCHANGED <<mem, todo>>
    BY <1>4, <2>1 DEF Place, SourceFails, DeliveredAll
  <2>3. Memories'
    BY <1>0, <1>1, <2>2, PlaceStep
  <2> QED
    BY <1>2, <1>3, <2>3 DEF WorkerInv
<1>5. CASE RestoreLatestSnapshot(p) \/ PollOnce(p) \/ PollBadPage(p) \/ Reconcile(p)
  <2>1. Memories'
    BY <1>5, RestoreKeeps, PollKeeps, ReconcileKeeps
  <2> QED
    BY <1>2, <1>3, <2>1 DEF WorkerInv
<1> QED
    BY <1>4, <1>5

\* The steps with which a worker begins or ends its lease.
LEMMA LeaseKeeps ==
    ASSUME WorkerInv, NEW p \in Proc,
           StartCycle(p) \/ FinishCallback(p) \/ FinishCycle(p)
    PROVE  WorkerInv'
<1>0. StoreInv /\ Durable /\ Memories
    BY DEF WorkerInv
<1>1. UNCHANGED <<chain, live, synced, call>>
    BY DEF StartCycle, FinishCallback, FinishCycle, BeginLease, CallbackReturns, EndLease
<1>2. Durable'
    BY <1>0, <1>1 DEF Durable
<1>3. StoreInv'
    BY <1>0, BeginLeaseKeeps, CallbackReturnsKeeps, EndLeaseKeeps
       DEF StartCycle, FinishCallback, FinishCycle
<1>4. CASE StartCycle(p) \/ FinishCallback(p)
  <2>1. PICK w \in Place \ {"poll", "reconcile", "checkpoint"} : Goto(p, w)
    BY <1>4 DEF StartCycle, FinishCallback, Place
  <2>2. UNCHANGED <<mem, todo>>
    BY <1>4 DEF StartCycle, FinishCallback
  <2>3. Memories'
    BY <1>0, <1>1, <2>1, <2>2, PlaceStep
  <2> QED
    BY <1>2, <1>3, <2>3 DEF WorkerInv
<1>5. CASE FinishCycle(p)
    BY <1>0, <1>2, <1>3, <1>5, FinishKeeps DEF WorkerInv
<1> QED
    BY <1>4, <1>5

\* The steps with which a worker journals and delivers its alerts, and those in
\* which an awaited call has settled.
LEMMA AlertKeeps ==
    ASSUME WorkerInv, NEW p \in Proc, PersistAlerts(p) \/ DeliverNext(p) \/ Resume(p)
    PROVE  WorkerInv'
<1>0. StoreInv /\ Durable /\ Memories /\ todo[p] \in SUBSET RaisedAlerts
    BY DEF WorkerInv, Memories
<1>1. PICK k : k = The
    OBVIOUS
<1>2. k \in Slot
    BY <1>1, StoreAssumption DEF The
<1>3. CASE PersistAlerts(p)
  <2>1. AppendAlerts(p, k, todo[p], lease[p]) /\ chain' = chain /\ UNCHANGED <<mem, todo>>
    BY <1>1, <1>3 DEF PersistAlerts
  <2>2. StoreInv'
    BY <1>0, <1>2, <2>1, AppendAlertsKeeps
  <2>3. PICK c : c = [stage |-> "open", file |-> "alerts", arg |-> todo[p],
                      base |-> NoSnapshot, token |-> lease[p]]
    OBVIOUS
  <2>4. SetCall(p, k, c) /\ UNCHANGED <<live, synced>> /\ c.file # "snapshot"
    BY <2>1, <2>3 DEF AppendAlerts
  <2>5. Durable'
    BY <1>0, <1>2, <2>1, <2>4, CallDurable
  <2>6. PICK w \in Place \ {"poll", "reconcile", "checkpoint"} : Goto(p, w)
    BY <1>3 DEF PersistAlerts, Place
  <2>7. Memories'
    BY <1>0, <2>1, <2>6, PlaceStep
  <2> QED
    BY <2>2, <2>5, <2>7 DEF WorkerInv
<1>4. CASE DeliverNext(p)
  <2>1. PICK a \in todo[p] : Deliver(p, k, a)
    BY <1>1, <1>4 DEF DeliverNext
  <2>2. chain' = chain /\ UNCHANGED <<mem, todo>> /\ a \in RaisedAlerts
    BY <1>0, <1>4 DEF DeliverNext
  <2>3. StoreInv'
    BY <1>0, <1>2, <2>1, <2>2, DeliverKeeps
  <2>4. PICK c : c = [stage |-> "open", file |-> "delivered", arg |-> {a},
                      base |-> NoSnapshot, token |-> 0]
    OBVIOUS
  <2>5. SetCall(p, k, c) /\ UNCHANGED <<live, synced>> /\ c.file # "snapshot"
    BY <2>1, <2>4 DEF Deliver
  <2>6. Durable'
    BY <1>0, <1>2, <2>2, <2>5, CallDurable
  <2>7. PICK w \in Place \ {"poll", "reconcile", "checkpoint"} : Goto(p, w)
    BY <1>4 DEF DeliverNext, Place
  <2>8. Memories'
    BY <1>0, <2>2, <2>7, PlaceStep
  <2> QED
    BY <2>3, <2>6, <2>8 DEF WorkerInv
<1>5. CASE Resume(p)
  <2>1. Settle(p, k) /\ chain' = chain
    BY <1>1, <1>5 DEF Resume
  <2>2. StoreInv'
    BY <1>0, <1>2, <2>1, SettleKeeps
  <2>3. PICK c : c = Idle
    OBVIOUS
  <2>4. SetCall(p, k, c) /\ UNCHANGED <<live, synced>> /\ c.stage \notin InProgress
    BY <2>1, <2>3 DEF Settle, Idle, InProgress
  <2>5. Durable'
    BY <1>0, <1>2, <2>1, <2>4, CallDurable
  <2>6. Memories'
    BY <1>5, ResumeKeeps
  <2> QED
    BY <2>2, <2>5, <2>6 DEF WorkerInv
<1> QED
    BY <1>3, <1>4, <1>5

\* The steps of a store call between a worker's own.
LEMMA CallKeeps ==
    ASSUME WorkerInv, NEW p \in Proc, StoreStep(p, The), UNCHANGED workerVars
    PROVE  WorkerInv'
<1>0. StoreInv /\ Durable /\ Memories /\ UNCHANGED <<chain, mem, pc, todo>>
    BY DEF WorkerInv, workerVars
<1>1. PICK k : k = The
    OBVIOUS
<1>2. k \in Slot /\ StoreStep(p, k)
    BY <1>1, StoreAssumption DEF The
<1>3. StoreInv'
    BY <1>0, <1>2, OpenLockKeeps, LoadKeeps, RenameKeeps, SyncDirectoryKeeps,
       AcknowledgeKeeps DEF StoreStep
<1>4. Durable'
    BY <1>0, <1>2, StepDurable
<1>5. Memories'
    BY <1>0, MemoriesUnchanged
<1> QED
    BY <1>3, <1>4, <1>5 DEF WorkerInv

\* Crashes, losses of power, and the operator.
LEMMA OutsideKeeps ==
    ASSUME WorkerInv,
           \/ \E p \in Proc : CrashWorker(p)
           \/ LosePower
           \/ \E l \in Lock : RemoveStaleLock(l) /\ UNCHANGED workerVars
    PROVE  WorkerInv'
<1>0. StoreInv /\ Durable /\ Memories
    BY DEF WorkerInv
<1>1. ASSUME NEW p \in Proc, CrashWorker(p) PROVE WorkerInv'
  <2>1. Crash(p) /\ Restart({p}) /\ chain' = chain /\ {p} \in SUBSET Proc
    BY <1>1 DEF CrashWorker, Restart
  <2> QED
    BY <1>0, <2>1, CrashKeeps, FaultDurable, RestartKeeps DEF WorkerInv
<1>2. CASE LosePower
  <2>1. PowerLoss /\ Restart(Proc) /\ chain' = chain /\ Proc \in SUBSET Proc
    BY <1>2 DEF LosePower, Restart
  <2> QED
    BY <1>0, <2>1, PowerLossKeeps, FaultDurable, RestartKeeps DEF WorkerInv
<1>3. ASSUME NEW l \in Lock, RemoveStaleLock(l), UNCHANGED workerVars PROVE WorkerInv'
  <2>1. UNCHANGED <<live, synced, call, chain, mem, pc, todo>>
    BY <1>3 DEF RemoveStaleLock, workerVars
  <2>2. Durable'
    BY <1>0, <2>1 DEF Durable
  <2>3. Memories'
    BY <1>0, <2>1, MemoriesUnchanged
  <2> QED
    BY <1>0, <1>3, <2>2, <2>3, RemoveStaleLockKeeps DEF WorkerInv
<1> QED
    BY <1>1, <1>2, <1>3

\* The chain grows: what was a state of it still is.
LEMMA ExtendKeeps ==
    ASSUME WorkerInv, Extend
    PROVE  WorkerInv'
<1>0. StoreInv /\ Durable /\ Memories /\ chain \in Seq(Transaction)
    BY DEF WorkerInv, Durable
<1>1. /\ UNCHANGED <<lock, live, synced, lease, issued, phase, call, acked>>
      /\ faults' \in Nat /\ UNCHANGED <<mem, pc, todo>>
    BY <1>0 DEF Extend, storeVars, StoreInv, StoreTypeOK
<1>2. PICK t \in Transaction : chain' = Append(chain, t)
    BY DEF Extend, Transaction
<1>3. /\ chain' \in Seq(Transaction)
      /\ \A s : IsCheckpoint(chain, s) => IsCheckpoint(chain', s)
      /\ \A s : Checkpointed(chain, s) => Checkpointed(chain', s)
      /\ \A w, m : AtPlace(chain, w, m) => AtPlace(chain', w, m)
    BY <1>0, <1>2, PlaceStays
<1>4. StoreInv'
    BY <1>0, <1>1, UntouchedKeeps
<1>5. Durable'
    BY <1>0, <1>1, <1>3 DEF Durable
<1>6. Memories'
    BY <1>0, <1>1, <1>3 DEF Memories
<1> QED
    BY <1>4, <1>5, <1>6 DEF WorkerInv

\* Initially nothing is finalized, saved or remembered.
LEMMA InitWorkerInv == Init => WorkerInv
<1> SUFFICES ASSUME Init PROVE WorkerInv
    OBVIOUS
<1>1. StoreInv
    BY InitStoreInv DEF Init
<1>2. Durable
  <2>1. \A p \in Proc, s \in Slot : call[p][s].stage \notin InProgress
    BY DEF Init, StoreInit, Idle, InProgress
  <2>2. live["snapshot"] = NoSnapshot /\ synced["snapshot"] = NoSnapshot
    BY DEF Init, StoreInit, File
  <2>3. chain \in Seq(Transaction)
    BY DEF Init
  <2> QED
    BY <2>1, <2>2, <2>3 DEF Durable, Checkpointed, Version
<1>3. Memories
  <2>1. Fresh \in Memory /\ "idle" \in Place
    BY DEF Fresh, Memory, NoCursor, Snapshot, Place
  <2> QED
    BY <2>1 DEF Init, Memories, AtPlace
<1> QED
    BY <1>1, <1>2, <1>3 DEF WorkerInv

\* Every step of the workers, the chain, the faults and the operator keeps the
\* invariant.
LEMMA WorkerNextKeeps == WorkerInv /\ [Next]_vars => WorkerInv'
<1> SUFFICES ASSUME WorkerInv, [Next]_vars PROVE WorkerInv'
    OBVIOUS
<1>1. CASE UNCHANGED vars
  <2>0. StoreInv /\ Durable /\ Memories
    BY DEF WorkerInv
  <2>1. /\ UNCHANGED <<lock, live, synced, lease, issued, phase, call, acked>>
        /\ faults' \in Nat /\ UNCHANGED <<chain, mem, pc, todo>>
    BY <1>1, <2>0 DEF vars, storeVars, workerVars, StoreInv, StoreTypeOK
  <2>2. StoreInv'
    BY <2>0, <2>1, UntouchedKeeps
  <2>3. Durable' /\ Memories'
    BY <2>0, <2>1 DEF Durable, Memories
  <2> QED
    BY <2>2, <2>3 DEF WorkerInv
<1>2. CASE Extend
    BY <1>2, ExtendKeeps
<1>3. ASSUME NEW p \in Proc,
             \/ StartCycle(p) \/ Step(p)
             \/ PollBadPage(p) \/ SourceFails(p) \/ CrashWorker(p)
      PROVE  WorkerInv'
    BY <1>3, InnerKeeps, LeaseKeeps, AlertKeeps, CheckpointKeeps, CallKeeps, OutsideKeeps
       DEF Step
<1>4. CASE LosePower \/ \E l \in Lock : RemoveStaleLock(l) /\ UNCHANGED workerVars
    BY <1>4, OutsideKeeps
<1> QED
    BY <1>1, <1>2, <1>3, <1>4 DEF Next

-----------------------------------------------------------------------------
(* The checkpoint *)

\* However pages are cut, whatever the source omits and wherever workers crash,
\* every snapshot in a file or in a call is a state of the chain, and so is
\* every memory a cycle goes on from (IndexerWorker.runOnce, EventIndexer).
THEOREM WorkerInvariant == Spec => []WorkerInv
<1> QED
    BY InitWorkerInv, WorkerNextKeeps, PTL DEF Spec

\* snapshotOwned and restoreLatestSnapshotOwned: what a restart finds, before
\* and after a loss of power, is the state after a whole number of transactions
\* that all replay and reconcile.
THEOREM CheckpointSound == Spec => []CheckpointIsChainState
<1>1. ASSUME WorkerInv PROVE CheckpointIsChainState
  <2> SUFFICES ASSUME NEW s \in {live["snapshot"], synced["snapshot"]} \ {NoSnapshot}
               PROVE  /\ s.projection = EventsUpTo(s.cursor[1])
                      /\ s.cursor = LastOf(Events(s.cursor[1]), NoCursor)
                      /\ \A v \in 1..s.cursor[1] : chain[v].kind = "clean"
    BY DEF CheckpointIsChainState
  <2>1. chain \in Seq(Transaction) /\ Len(chain) \in Nat
    BY <1>1, ChainType DEF WorkerInv, Durable
  <2>2. PICK n \in 1..Len(chain) : StateOf(chain, n, s)
    BY <1>1 DEF WorkerInv, Durable, Checkpointed, IsCheckpoint, ReachedBy
  <2>3. n \in Nat /\ n > 0 /\ chain[n].size \in Nat /\ chain[n].size > 0
    BY <2>1, <2>2, ChainType
  <2>4. /\ s.projection = EventsIn(chain, n) /\ s.cursor = <<n, chain[n].size>>
        /\ \A v \in 1..n : chain[v].kind = "clean"
    BY <2>2, <2>3 DEF StateOf, End
  <2>5. s.cursor[1] = n /\ EventsUpTo(n) = EventsIn(chain, n)
    BY <2>4, EventsOfChain
  <2>6. LastOf(Events(n), NoCursor) = <<n, chain[n].size>>
    <3>1. PICK E : E = Events(n)
        OBVIOUS
    <3>2. E = {<<n, i>> : i \in 1..chain[n].size}
        BY <3>1 DEF Events
    <3>3. E \subseteq EventsIn(chain, Len(chain)) /\ <<n, chain[n].size>> \in E
        BY <2>1, <2>2, <2>3, <3>2 DEF EventsIn
    <3>4. PICK l : l = LastOf(E, NoCursor)
        OBVIOUS
    <3>5. l \in E /\ \A d \in E : d = l \/ CursorLess(d, l)
        BY <2>1, <3>3, <3>4, LastIsLatest
    <3>6. PICK i \in 1..chain[n].size : l = <<n, i>>
        BY <3>2, <3>5
    <3>7. <<n, chain[n].size>> = l \/ chain[n].size < i
        BY <2>3, <3>3, <3>5, <3>6 DEF CursorLess
    <3> QED
        BY <2>3, <3>1, <3>4, <3>6, <3>7
  <2> QED
    BY <2>4, <2>5, <2>6
<1> QED
    BY <1>1, WorkerInvariant, PTL

\* The kinds of the chain's transactions are a sequence as long as the chain.
LEMMA HistoryOf ==
    ASSUME NEW c \in Seq(Transaction), NEW h, h = [v \in 1..Len(c) |-> c[v].kind]
    PROVE  /\ Len(h) = Len(c) /\ Len(h) \in Nat
           /\ DOMAIN h = 1..Len(c) /\ \A v \in 1..Len(c) : h[v] = c[v].kind
<1>0. Len(c) \in Nat /\ \A v \in 1..Len(c) : c[v] \in Transaction
    OBVIOUS
<1>1. Len(c) \in Nat /\ \A v \in 1..Len(c) : c[v].kind \in Kinds
    BY <1>0 DEF Transaction
<1>2. h \in [1..Len(c) -> Kinds]
    BY <1>1
<1>3. h \in Seq(Kinds)
    BY <1>1, <1>2
<1>4. DOMAIN h = 1..Len(h) /\ Len(h) \in Nat
    BY <1>3
<1>5. Len(h) = Len(c)
    BY <1>1, <1>2, <1>4
<1> QED
    BY <1>1, <1>2, <1>5

\* A step that changes neither the chain nor the snapshot is one the abstract
\* checkpoint does not see, or a loss of nothing.
LEMMA QuietStep ==
    ASSUME WorkerInv, chain' = chain, live'["snapshot"] = live["snapshot"],
           faults' \in {faults, faults + 1}
    PROVE  [Log!Next]_Log!logVars
<1>1. CheckpointVersion' = CheckpointVersion
    BY DEF CheckpointVersion
<1>2. CheckpointVersion \in Nat
  <2>1. Checkpointed(chain, live["snapshot"])
    BY DEF WorkerInv, Durable
  <2> QED
    BY <2>1 DEF CheckpointVersion, Checkpointed, IsCheckpoint, WorkerSnapshots
<1> HIDE DEF CheckpointVersion
<1>3. CASE faults' = faults
    BY <1>1, <1>3 DEF Log!logVars
<1>4. CASE faults' = faults + 1
    BY <1>1, <1>2, <1>4 DEF Log!Next, Log!Lose
<1> QED
    BY <1>3, <1>4

\* The worker implements the abstract checkpoint: transactions are finalized,
\* the checkpoint moves forward over clean ones when a snapshot is renamed into
\* place, and goes back only with a fault (IndexerWorker.runOnce,
\* saveSnapshotUnderLease).
THEOREM WorkerImplementsLog == Spec => ImplementsLog
<1>1. Init => Log!Init
  <2> SUFFICES ASSUME Init PROVE Log!Init
    OBVIOUS
  <2>1. chain = <<>> /\ faults = 0 /\ live["snapshot"] = NoSnapshot
    BY DEF Init, StoreInit, File
  <2>2. [v \in 1..Len(chain) |-> chain[v].kind] = <<>>
    BY <2>1
  <2> QED
    BY <2>1, <2>2 DEF Log!Init, CheckpointVersion
<1>2. ASSUME WorkerInv, [Next]_vars PROVE [Log!Next]_Log!logVars
  <2>0. StoreInv /\ Durable /\ chain \in Seq(Transaction)
    BY <1>2 DEF WorkerInv, Durable
  <2>1. CASE Extend
    <3>1. PICK t \in Transaction : chain' = Append(chain, t)
        BY <2>1 DEF Extend, Transaction
    <3>2. /\ chain' \in Seq(Transaction) /\ Len(chain') = Len(chain) + 1 /\ Len(chain) \in Nat
          /\ \A v \in 1..Len(chain) : chain'[v] = chain[v]
        BY <2>0, <3>1
    <3>3. PICK h : h = [v \in 1..Len(chain) |-> chain[v].kind]
        OBVIOUS
    <3>4. PICK g : g = [v \in 1..Len(chain') |-> chain'[v].kind]
        OBVIOUS
    <3>5. /\ Len(h) = Len(chain) /\ DOMAIN h = 1..Len(chain)
          /\ \A v \in 1..Len(chain) : h[v] = chain[v].kind
        BY <2>0, <3>3, HistoryOf
    <3>6. /\ Len(g) = Len(chain') /\ \A v \in 1..Len(chain') : g[v] = chain'[v].kind
        BY <3>2, <3>4, HistoryOf
    <3>7. Len(g) = Len(h) + 1 /\ \A v \in DOMAIN h : g[v] = h[v]
        BY <3>2, <3>5, <3>6
    <3>8. CheckpointVersion' = CheckpointVersion /\ faults' = faults
        BY <2>1 DEF Extend, CheckpointVersion, storeVars
    <3>9. Log!Extend
        BY <3>3, <3>4, <3>7, <3>8 DEF Log!Extend
    <3> QED
        BY <3>9 DEF Log!Next
  <2>2. ASSUME NEW p \in Proc, StartCycle(p) \/ Step(p) \/ PollBadPage(p) \/ SourceFails(p)
                                 \/ CrashWorker(p)
        PROVE  [Log!Next]_Log!logVars
    <3>1. CASE Rename(p, The) /\ UNCHANGED workerVars
      <4>1. PICK k : k = The
        OBVIOUS
      <4>2. k \in Slot /\ Rename(p, k) /\ chain' = chain
        BY <3>1, <4>1, StoreAssumption DEF The, workerVars
      <4>3. PICK c : c = call[p][k]
        OBVIOUS
      <4>4. CASE live' = [live EXCEPT ![c.file] = c.arg] /\ faults' = faults
                 /\ c.file = "snapshot"
        <5>1. live'["snapshot"] = c.arg
            BY <2>0, <4>4 DEF StoreInv, StoreTypeOK, File
        <5>2. c.stage = "write"
            BY <4>2, <4>3 DEF Rename
        <5>3. IsCheckpoint(chain, c.arg) /\ Monotonic(live["snapshot"], c.arg)
            BY <2>0, <4>2, <4>3, <4>4, <5>2 DEF Durable, InProgress, StoreInv, ReadsCurrent
        <5>4. PICK a : a = live["snapshot"]
            OBVIOUS
        <5>5. PICK b : b = c.arg
            OBVIOUS
        <5>6. Checkpointed(chain, a) /\ IsCheckpoint(chain, b) /\ Monotonic(a, b)
            BY <2>0, <5>3, <5>4, <5>5 DEF Durable
        <5>7. /\ Version(a) \in 0..Version(b) /\ Version(b) \in 1..Len(chain)
              /\ \A v \in 1..Version(b) : chain[v].kind = "clean"
            BY <2>0, <5>6, Forward
        <5>8. CheckpointVersion = Version(a) /\ CheckpointVersion' = Version(b)
            BY <5>1, <5>4, <5>5 DEF CheckpointVersion, Version
        <5>9. PICK h : h = [v \in 1..Len(chain) |-> chain[v].kind]
            OBVIOUS
        <5>10. Len(h) = Len(chain) /\ Len(chain) \in Nat
               /\ \A v \in 1..Len(chain) : h[v] = chain[v].kind
            BY <2>0, <5>9, HistoryOf
        <5>11. CASE Version(a) = Version(b)
          <6> HIDE DEF CheckpointVersion
          <6> QED
            BY <4>2, <4>4, <5>8, <5>11 DEF Log!logVars
        <5>12. CASE Version(a) # Version(b)
          <6>1. Version(b) \in Version(a) + 1 .. Len(h) /\ \A v \in 1..Version(b) : h[v] = "clean"
            BY <5>7, <5>10, <5>12
          <6> HIDE DEF CheckpointVersion
          <6>2. Log!Advance
            BY <4>2, <4>4, <5>8, <5>9, <6>1 DEF Log!Advance, Log!Reconciles
          <6> QED
            BY <6>2 DEF Log!Next
        <5> QED
            BY <5>11, <5>12
      <4>5. CASE live' = [live EXCEPT ![c.file] = c.arg] /\ faults' = faults
                 /\ c.file # "snapshot"
        <5>1. live'["snapshot"] = live["snapshot"]
            BY <2>0, <4>5 DEF StoreInv, StoreTypeOK, File
        <5> QED
            BY <1>2, <4>2, <4>5, <5>1, QuietStep
      <4>6. CASE live' = live /\ Fault
        <5>1. live'["snapshot"] = live["snapshot"] /\ faults' = faults + 1
            BY <4>6 DEF Fault
        <5> QED
            BY <1>2, <4>2, <5>1, QuietStep
      <4> QED
        BY <4>2, <4>3, <4>4, <4>5, <4>6 DEF Rename
    <3>2. CASE StoreStep(p, The) /\ ~Rename(p, The) /\ UNCHANGED workerVars
      <4>1. chain' = chain /\ live' = live /\ faults' \in {faults, faults + 1}
        BY <3>2 DEF StoreStep, OpenLock, Load, SyncDirectory, Acknowledge, Unlink, Fault,
           NoFault, workerVars
      <4> QED
        BY <1>2, <4>1, QuietStep
    <3>3. CASE StartCycle(p) \/ FinishCallback(p) \/ FinishCycle(p)
      <4>1. chain' = chain /\ live' = live /\ faults' \in {faults, faults + 1}
        BY <3>3 DEF StartCycle, FinishCallback, FinishCycle, BeginLease, CallbackReturns,
           EndLease, Unlink, Fault, NoFault
      <4> QED
        BY <1>2, <4>1, QuietStep
    <3>4. CASE RestoreLatestSnapshot(p) \/ PollOnce(p) \/ DeliveredAll(p) \/ Reconcile(p)
      <4>1. chain' = chain /\ live' = live /\ faults' \in {faults, faults + 1}
        BY <3>4 DEF RestoreLatestSnapshot, PollOnce, DeliveredAll, Reconcile, storeVars
      <4> QED
        BY <1>2, <4>1, QuietStep
    <3>5. CASE PollBadPage(p) \/ SourceFails(p) \/ CrashWorker(p)
      <4>1. chain' = chain /\ live' = live /\ faults' \in {faults, faults + 1}
        BY <3>5 DEF PollBadPage, SourceFails, CrashWorker, Restart, Crash, Fault
      <4> QED
        BY <1>2, <4>1, QuietStep
    <3>6. CASE PersistAlerts(p) \/ DeliverNext(p) \/ Resume(p) \/ Checkpoint(p)
      <4>1. chain' = chain /\ live' = live /\ faults' \in {faults, faults + 1}
        BY <3>6 DEF PersistAlerts, DeliverNext, Resume, Checkpoint, AppendAlerts, Deliver,
           Settle, SaveSnapshot, storeVars
      <4> QED
        BY <1>2, <4>1, QuietStep
    <3> QED
        BY <2>2, <3>1, <3>2, <3>3, <3>4, <3>5, <3>6 DEF Step
  <2>3. CASE LosePower
    <3>1. PICK lost \in SUBSET {f \in File : live[f] # synced[f]} :
             live' = [f \in File |-> IF f \in lost THEN synced[f] ELSE live[f]]
        BY <2>3 DEF LosePower, PowerLoss
    <3>2. live'["snapshot"] \in {live["snapshot"], synced["snapshot"]}
        BY <3>1 DEF File
    <3>3. chain' = chain /\ faults' = faults + 1
        BY <2>3 DEF LosePower, PowerLoss, Restart, Fault
    <3>4. /\ Version(synced["snapshot"]) \in Nat /\ Version(live["snapshot"]) \in Nat
          /\ Version(synced["snapshot"]) <= Version(live["snapshot"])
      <4>1. Checkpointed(chain, synced["snapshot"]) /\ Checkpointed(chain, live["snapshot"])
        BY <2>0 DEF Durable
      <4> QED
        BY <2>0, <4>1 DEF Durable, Version, Checkpointed, IsCheckpoint, WorkerSnapshots
    <3>5. /\ CheckpointVersion = Version(live["snapshot"])
          /\ CheckpointVersion' = Version(live'["snapshot"])
        BY DEF CheckpointVersion, Version
    <3>6. CheckpointVersion' \in 0..CheckpointVersion
        BY <3>2, <3>4, <3>5
    <3> HIDE DEF CheckpointVersion
    <3> QED
        BY <3>3, <3>6 DEF Log!Next, Log!Lose
  <2>4. CASE \E l \in Lock : RemoveStaleLock(l) /\ UNCHANGED workerVars
    <3>1. chain' = chain /\ live' = live /\ faults' = faults
        BY <2>4 DEF RemoveStaleLock, workerVars
    <3> QED
        BY <1>2, <3>1, QuietStep
  <2>5. CASE UNCHANGED vars
    <3>1. chain' = chain /\ live' = live /\ faults' = faults
        BY <2>5 DEF vars, storeVars, workerVars
    <3> QED
        BY <1>2, <3>1, QuietStep
  <2> QED
    BY <1>2, <2>1, <2>2, <2>3, <2>4, <2>5 DEF Next
<1> QED
    BY <1>1, <1>2, WorkerInvariant, PTL DEF Spec, ImplementsLog, Log!Spec
=============================================================================
