---------------------------- MODULE IndexerWorker ----------------------------
(***************************************************************************)
(* The event indexer and its worker (event-indexer.ts, worker.ts) over the *)
(* durable store: processes run worker cycles, each under one writer       *)
(* lease, against a growing chain and a source that may fail.              *)
(*                                                                         *)
(* An event is <<ledger version, event index>>.  The projection is the set *)
(* of events applied to it, which is what its equality with another one    *)
(* turns on.  A transaction is "clean", "rejected" (the reducer raises an  *)
(* alert for its complete group) or "divergent" (it replays, but the       *)
(* chain's views differ afterwards).  EventReducer models the reducer      *)
(* itself.                                                                 *)
(***************************************************************************)
EXTENDS FileStore, Sequences

CONSTANTS
    Kinds,          \* the kinds of transaction the chain may hold
    Sizes,          \* the numbers of events a transaction may have
    PageLimit,      \* transactions in an honest page
    PackageVersion, \* the release whose events are replayed
    Times,          \* readings of the worker's clock
    MaxTx           \* bound: length of the chain

ASSUME WorkerAssumption ==
    /\ Kinds \subseteq {"clean", "rejected", "divergent"}
    /\ Sizes \subseteq Nat \ {0}
    /\ PageLimit \in Nat \ {0} /\ MaxTx \in Nat
    /\ NoSnapshot \notin [cursor : Nat \X Nat, projection : SUBSET (Nat \X Nat), at : Times]

VARIABLES
    chain,   \* finalized transactions
    mem,     \* mem[p]: EventIndexer's fields
    pc,      \* pc[p]: where runOnce awaits
    todo     \* todo[p]: alerts of this cycle, to journal and to deliver

workerVars == <<chain, mem, pc, todo>>
vars == <<storeVars, workerVars>>

Events(v) == {<<v, i>> : i \in 1..chain[v].size}
EventsUpTo(n) == UNION {Events(v) : v \in 1..n}
ChainEvents == EventsUpTo(Len(chain))

NoCursor == <<0, 0>>
Unreconciled == <<>>

\* The latest event of a set, or the cursor there was.
LastOf(E, cursor) ==
    IF E = {} THEN cursor ELSE CHOOSE e \in E : \A d \in E : d = e \/ CursorLess(d, e)

Fresh == [projection |-> {}, cursor |-> NoCursor, base |-> NoSnapshot,
          reconciled |-> Unreconciled]

Init ==
    /\ StoreInit
    /\ chain = <<>>
    /\ mem = [p \in Proc |-> Fresh]
    /\ pc = [p \in Proc |-> "idle"]
    /\ todo = [p \in Proc |-> {}]

Goto(p, where) == pc' = [pc EXCEPT ![p] = where]

\* A transaction is finalized.
Extend ==
    /\ Len(chain) < MaxTx
    /\ \E k \in Kinds, n \in Sizes : chain' = Append(chain, [kind |-> k, size |-> n])
    /\ UNCHANGED <<storeVars, mem, pc, todo>>

-----------------------------------------------------------------------------
(***************************************************************************)
(* runOnce takes the lease; the cycle starts from the durable snapshot.    *)
(***************************************************************************)
StartCycle(p) ==
    /\ pc[p] = "idle"
    /\ BeginLease(p)
    /\ Goto(p, "restore")
    /\ UNCHANGED <<chain, mem, todo>>

\* restoreLatestSnapshotOwned
Restored ==
    IF live["snapshot"] = NoSnapshot THEN Fresh
    ELSE [projection |-> live["snapshot"].projection, cursor |-> live["snapshot"].cursor,
          base |-> live["snapshot"], reconciled |-> Unreconciled]

RestoreLatestSnapshot(p) ==
    /\ pc[p] = "restore"
    /\ mem' = [mem EXCEPT ![p] = Restored]
    /\ Goto(p, "poll")
    /\ UNCHANGED <<storeVars, chain, todo>>

(***************************************************************************)
(* reduceEventGroup, as far as the worker can tell: a complete group over  *)
(* a projection that misses nothing is accepted unless the transaction is  *)
(* "rejected"; of any other group nothing is known.                        *)
(***************************************************************************)
Complete(projection, group, v) ==
    group = Events(v) /\ projection = EventsUpTo(v - 1)

MayPass(projection, group, v) ==
    Complete(projection, group, v) => chain[v].kind # "rejected"

MayAlert(projection, group, v) ==
    Complete(projection, group, v) => chain[v].kind = "rejected"

\* An alert's identifier names its place; its content tells whether it was
\* raised over the complete history.
Alert(id, complete) == [id |-> id, content |-> IF complete THEN "true" ELSE "part"]

\* Events at or before the cursor are skipped.
AfterCursor(page, cursor) == {e \in page : CursorLess(cursor, e)}

\* processOwned: the groups of the page in order, up to the first that raises
\* an alert; that group leaves neither projection nor cursor behind.
Process(p, page) ==
    LET m == mem[p]
        fresh == AfterCursor(page, m.cursor)
        before(v) == {e \in fresh : e[1] < v}
        group(v) == {e \in fresh : e[1] = v}
        seen(v) == m.projection \cup before(v)
        versions == {e[1] : e \in fresh}
    IN \E stop \in versions \cup {Len(chain) + 1} :
         /\ \A v \in versions : v < stop => MayPass(seen(v), group(v), v)
         /\ stop \in versions => MayAlert(seen(stop), group(stop), stop)
         /\ mem' = [mem EXCEPT ![p] =
                      [@ EXCEPT !.projection = seen(stop),
                                !.cursor = LastOf(before(stop), m.cursor),
                                !.reconciled = Unreconciled]]
         /\ todo' = [todo EXCEPT ![p] =
                      IF stop \notin versions THEN {}
                      ELSE {Alert(<<"event", stop>>, Complete(seen(stop), group(stop), stop))}]
         /\ Goto(p, IF stop \in versions THEN "journal"
                    ELSE IF LastOf(before(stop), m.cursor) = NoCursor THEN "return"
                    ELSE "reconcile")

\* An honest page: the next whole transactions after the cursor.
NextPage(p) ==
    UNION {Events(v) : v \in {n \in 1..Len(chain) :
              mem[p].cursor[1] < n /\ n <= mem[p].cursor[1] + PageLimit}}

PollOnce(p) ==
    /\ pc[p] = "poll"
    /\ Process(p, NextPage(p))
    /\ UNCHANGED <<storeVars, chain>>

\* A page of any events: overlaps, gaps, a transaction split at the end, which
\* EventPage forbids.
PollBadPage(p) ==
    /\ pc[p] = "poll"
    /\ Fault
    /\ \E page \in SUBSET ChainEvents : Process(p, page)
    /\ UNCHANGED <<lock, live, synced, lease, issued, phase, call, acked, chain>>

\* The source throws, or its page is of another chain.
SourceFails(p) ==
    /\ pc[p] \in {"poll", "reconcile"}
    /\ Fault
    /\ Goto(p, "return")
    /\ UNCHANGED <<lock, live, synced, lease, issued, phase, call, acked, chain, mem, todo>>

-----------------------------------------------------------------------------
(***************************************************************************)
(* Alerts are journaled under the lease, then delivered one by one.  A     *)
(* call that is rejected ends the cycle.                                   *)
(***************************************************************************)
The == CHOOSE s \in Slot : TRUE

Awaits(p, outcome) == call[p][The].stage = outcome

PersistAlerts(p) ==
    /\ pc[p] = "journal"
    /\ AppendAlerts(p, The, todo[p], lease[p])
    /\ Goto(p, "journaling")
    /\ UNCHANGED <<chain, mem, todo>>

DeliverNext(p) ==
    /\ pc[p] = "deliver"
    /\ \E a \in todo[p] : Deliver(p, The, a)
    /\ Goto(p, "delivering")
    /\ UNCHANGED <<chain, mem, todo>>

DeliveredAll(p) ==
    /\ pc[p] = "deliver" /\ todo[p] = {}
    /\ Goto(p, "return")
    /\ UNCHANGED <<storeVars, chain, mem, todo>>

\* The awaited call has settled.
Resume(p) ==
    /\ pc[p] \in {"journaling", "delivering", "saving"}
    /\ Settle(p, The)
    /\ \/ Awaits(p, "rejected") /\ Goto(p, "return") /\ UNCHANGED <<mem, todo>>
       \/ /\ Awaits(p, "fulfilled") /\ pc[p] = "journaling"
          /\ Goto(p, "deliver") /\ UNCHANGED <<mem, todo>>
       \/ /\ Awaits(p, "fulfilled") /\ pc[p] = "delivering"
          /\ todo' = [todo EXCEPT ![p] = {a \in @ : a \notin live["delivered"]}]
          /\ Goto(p, "deliver") /\ UNCHANGED mem
       \/ /\ Awaits(p, "fulfilled") /\ pc[p] = "saving"
          /\ mem' = [mem EXCEPT ![p].base = live["snapshot"]]
          /\ Goto(p, "return") /\ UNCHANGED todo
    /\ UNCHANGED chain

-----------------------------------------------------------------------------
(***************************************************************************)
(* reconcileOwned compares the projection with the views of the cursor's   *)
(* own ledger version; only a clean report of a fully initialized          *)
(* deployment authorises a checkpoint, and only of that very state.        *)
(***************************************************************************)
\* Mutant: what the projection misses is not noticed.
ViewsIgnoreGaps(m) == \A v \in 1..m.cursor[1] : chain[v].kind # "divergent"

\* Mutant: what the chain holds besides the replayed events is not compared.
ViewsIgnoreChain(m) == m.projection = EventsUpTo(m.cursor[1])

ViewsAgree(m) ==
    /\ m.projection = EventsUpTo(m.cursor[1])
    /\ \A v \in 1..m.cursor[1] : chain[v].kind # "divergent"

\* operationalAdmins: the reducer refuses the events that fill it under v0.2.
AuthoritiesComplete(m) == PackageVersion # "testnet-v0.2.0" /\ m.projection # {}

CheckpointIdentity(m) == <<m.projection, m.cursor>>

Reconcile(p) ==
    LET m == mem[p] IN
    /\ pc[p] = "reconcile"
    /\ \/ /\ ViewsAgree(m)
          /\ mem' = [mem EXCEPT ![p].reconciled =
                       IF AuthoritiesComplete(m) THEN CheckpointIdentity(m) ELSE Unreconciled]
          /\ Goto(p, "checkpoint")
          /\ UNCHANGED todo
       \/ /\ ~ViewsAgree(m)
          /\ mem' = [mem EXCEPT ![p].reconciled = Unreconciled]
          /\ todo' = [todo EXCEPT ![p] =
                {Alert(<<"reconcile", m.cursor>>, m.projection = EventsUpTo(m.cursor[1]))}]
          /\ Goto(p, "journal")
    /\ UNCHANGED <<storeVars, chain>>

\* snapshotOwned
Authorised(m) ==
    /\ AuthoritiesComplete(m)
    /\ m.reconciled = CheckpointIdentity(m)

Checkpoint(p) ==
    LET m == mem[p] IN
    /\ pc[p] = "checkpoint"
    /\ \/ /\ Authorised(m)
          /\ \E t \in Times :
                SaveSnapshot(p, The,
                             [cursor |-> m.cursor, projection |-> m.projection, at |-> t],
                             m.base, lease[p])
          /\ Goto(p, "saving")
       \/ /\ ~Authorised(m)
          /\ Goto(p, "return")
          /\ UNCHANGED storeVars
    /\ UNCHANGED <<chain, mem, todo>>

-----------------------------------------------------------------------------
(***************************************************************************)
(* The end of a cycle, and faults.                                         *)
(***************************************************************************)
FinishCallback(p) ==
    /\ pc[p] = "return"
    /\ CallbackReturns(p)
    /\ Goto(p, "ending")
    /\ UNCHANGED <<chain, mem, todo>>

\* What the indexer still holds is dropped here: a cycle restores before it
\* reads any of it.
FinishCycle(p) ==
    /\ pc[p] = "ending"
    /\ EndLease(p)
    /\ Goto(p, "idle")
    /\ todo' = [todo EXCEPT ![p] = {}]
    /\ mem' = [mem EXCEPT ![p] = Fresh]
    /\ UNCHANGED chain

Restart(P) ==
    /\ pc' = [p \in Proc |-> IF p \in P THEN "idle" ELSE pc[p]]
    /\ mem' = [p \in Proc |-> IF p \in P THEN Fresh ELSE mem[p]]
    /\ todo' = [p \in Proc |-> IF p \in P THEN {} ELSE todo[p]]
    /\ UNCHANGED chain

CrashWorker(p) == Crash(p) /\ Restart({p})
LosePower == PowerLoss /\ Restart(Proc)

Step(p) ==
    \/ RestoreLatestSnapshot(p) \/ PollOnce(p)
    \/ PersistAlerts(p) \/ DeliverNext(p) \/ DeliveredAll(p) \/ Resume(p)
    \/ Reconcile(p) \/ Checkpoint(p) \/ FinishCallback(p) \/ FinishCycle(p)
    \/ StoreStep(p, The) /\ UNCHANGED workerVars

Next ==
    \/ Extend
    \/ \E p \in Proc :
          \/ StartCycle(p) \/ Step(p)
          \/ PollBadPage(p) \/ SourceFails(p) \/ CrashWorker(p)
    \/ LosePower
    \/ \E l \in Lock : RemoveStaleLock(l) /\ UNCHANGED workerVars

Spec == Init /\ [][Next]_vars

(***************************************************************************)
(* A started cycle runs on unless it is killed, cycles keep being          *)
(* scheduled, and the operator gets to every lock file a dead writer left, *)
(* in one of the moments in which no worker runs.                          *)
(***************************************************************************)
Fairness ==
    /\ \A p \in Proc : WF_vars(Step(p))
    /\ WF_vars(\E p \in Proc : StartCycle(p))
    /\ \A l \in Lock : SF_vars(RemoveStaleLock(l) /\ UNCHANGED workerVars)

FairSpec == Spec /\ Fairness

-----------------------------------------------------------------------------
AllClean == \A v \in 1..Len(chain) : chain[v].kind = "clean"

CheckpointVersion ==
    IF live["snapshot"] = NoSnapshot THEN 0 ELSE live["snapshot"].cursor[1]

\* Every snapshot a restart can find is the state of the chain after a whole
\* number of transactions, all of which replay and reconcile, however pages
\* were cut and wherever workers crashed (runOnceUnderLease, snapshotOwned).
CheckpointIsChainState ==
    \A s \in {live["snapshot"], synced["snapshot"]} \ {NoSnapshot} :
        /\ s.projection = EventsUpTo(s.cursor[1])
        /\ s.cursor = LastOf(Events(s.cursor[1]), NoCursor)
        /\ \A v \in 1..s.cursor[1] : chain[v].kind = "clean"

\* The worker implements the abstract checkpoint: whole clean transactions,
\* forward only, except for a loss of power.
Log == INSTANCE CheckpointLog WITH
           history <- [v \in 1..Len(chain) |-> chain[v].kind],
           checkpoint <- CheckpointVersion,
           losses <- faults
ImplementsLog == Log!Spec

\* A chain that replays cleanly is checkpointed to its end, in spite of
\* crashes that leave lock files behind and of losses of power
\* (IndexerWorker.runOnce, withExclusiveFileLock).
CleanChainCheckpointed ==
    <>[](AllClean => CheckpointVersion = Len(chain))

\* A transaction that does not replay or does not reconcile ends up as an
\* alert in the sink, although a crash may fall between journaling and
\* delivery and nothing but a new cycle delivers again (deliver).  It takes
\* two faults to prevent it: a page that is cut inside the transaction, and a
\* crash before the alert that raised is delivered.
DivergenceDelivered ==
    <>[](~AllClean => live["delivered"] # {})
=============================================================================
