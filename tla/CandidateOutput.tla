--------------------------- MODULE CandidateOutput ---------------------------
(***************************************************************************)
(* The publication of a release candidate                                  *)
(* (packages/release-candidate-assembler/src/atomic-output.ts): a lock     *)
(* file, a private staging directory, the validator, a rename that never   *)
(* replaces, and a cleanup that must undo everything except what is        *)
(* already published.  Every await may fail, and the process may be killed *)
(* at every one.  The parent directory exists before and is durable.       *)
(***************************************************************************)
EXTENDS Naturals

CONSTANTS
    Assembler,   \* processes assembling for the same output directory
    Candidate,   \* what they may want to publish
    Nothing,     \* no such directory
    Foreign,     \* a directory some other program has put there
    Free,        \* no lock file
    MaxFaults,   \* bound: failed calls and crashes in a behaviour
    MaxLosses    \* bound: losses of power in a behaviour

ASSUME OutputAssumption ==
    /\ Free \notin Assembler
    /\ MaxFaults \in Nat /\ MaxLosses \in Nat

Names == {"simulation-response.json", "transaction-candidate.json"}

\* What an assembler makes: the candidate it was made of, the files that are
\* complete and synced, those a power loss leaves, and whether the validator
\* has passed it.
Directory == [of : Candidate, files : SUBSET Names, kept : SUBSET Names, valid : BOOLEAN]

ASSUME DirectoryAssumption == Nothing \notin Directory /\ Foreign \notin Directory

VARIABLES
    lock,       \* who created the lock file, or Free
    run,        \* run[p]: the call of p in progress, or its last one
    output,     \* the output directory as everybody sees it
    durable,    \* the output directory as of the last sync of its parent
    reported,   \* candidates reported as published (history)
    faults, losses

outputVars == <<lock, run, output, durable, reported, faults, losses>>

TryBlock == {"stage", "simulation", "candidate", "staging", "validate", "pre-publish",
             "rename", "post-publish"}
FinallyBlock == {"close", "remove", "unlink", "cleanup"}

\* A call: the await it is at, its argument, its staging directory, and whether
\* it has set `published` and reached its return statement.
Call(at, c) ==
    [at |-> at, candidate |-> c, staging |-> Nothing, published |-> FALSE, returned |-> FALSE]

OutputInit ==
    /\ lock = Free
    /\ run \in [Assembler -> {Call("idle", c) : c \in Candidate}]
    /\ output = Nothing /\ durable = Nothing
    /\ reported = {}
    /\ faults = 0 /\ losses = 0

Fault == faults < MaxFaults /\ faults' = faults + 1

-----------------------------------------------------------------------------
(* The lock and the try block *)

\* open(lockPath, "wx"): another assembler's lock rejects the call.
CreatesLock == lock = Free

Start(p, c) ==
    /\ run[p].at = "idle"
    /\ CreatesLock
    /\ lock' = p
    /\ run' = [run EXCEPT ![p] = Call("stage", c)]
    /\ UNCHANGED <<output, durable, reported, faults, losses>>

\* A step of the try block that only works on the staging directory.
OnStaging(p, from, to, directory) ==
    /\ run[p].at = from
    /\ run' = [run EXCEPT ![p].at = to, ![p].staging = directory]
    /\ UNCHANGED <<lock, output, durable, reported, faults, losses>>

(***************************************************************************)
(* mkdtemp.  A directory holds the files that are complete and synced; a   *)
(* power loss keeps of them those entered before the directory was synced. *)
(***************************************************************************)
Stage(p) ==
    OnStaging(p, "stage", "simulation",
              [of |-> run[p].candidate, files |-> {}, kept |-> {}, valid |-> FALSE])

writePrivateFile(p, name) == [run[p].staging EXCEPT !.files = @ \cup {name}]

WriteSimulation(p) ==
    OnStaging(p, "simulation", "candidate", writePrivateFile(p, "simulation-response.json"))

WriteCandidate(p) ==
    OnStaging(p, "candidate", "staging", writePrivateFile(p, "transaction-candidate.json"))

\* Mutant: the staging directory is not synced.
SyncNothing(d) == d

fsyncDirectory(d) == [d EXCEPT !.kept = d.files]

SyncStaging(p) == OnStaging(p, "staging", "validate", fsyncDirectory(run[p].staging))

\* The validator accepts the staged pair, or throws.
Validate(p) ==
    \/ OnStaging(p, "validate", "pre-publish", [run[p].staging EXCEPT !.valid = TRUE])
    \/ OnStaging(p, "validate", "close", run[p].staging)

SyncBeforePublish(p) ==
    /\ run[p].at = "pre-publish"
    /\ run' = [run EXCEPT ![p].at = "rename"]
    /\ durable' = output
    /\ UNCHANGED <<lock, output, reported, faults, losses>>

\* Mutant: a plain rename replaces what it finds.
Replace == TRUE

\* RENAME_NOREPLACE
NoReplace == output = Nothing

\* renameDirectoryNoReplace: the helper moves the directory and says so, or
\* ends abnormally after it has moved it; or it finds the name taken.
Rename(p) ==
    /\ run[p].at = "rename"
    /\ \/ /\ NoReplace
          /\ output' = run[p].staging
          /\ \/ /\ run' = [run EXCEPT ![p].at = "post-publish", ![p].staging = Nothing,
                                      ![p].published = TRUE]
                /\ UNCHANGED faults
             \/ /\ run' = [run EXCEPT ![p].at = "close", ![p].staging = Nothing]
                /\ Fault
       \/ /\ ~NoReplace
          /\ run' = [run EXCEPT ![p].at = "close"]
          /\ UNCHANGED <<output, faults>>
    /\ UNCHANGED <<lock, durable, reported, losses>>

\* Mutant: an error of the last sync is swallowed like those of the cleanup.
SyncedPerhaps == durable' \in {output, durable}

SyncedParent == durable' = output

SyncPublished(p) ==
    /\ run[p].at = "post-publish"
    /\ SyncedParent
    /\ run' = [run EXCEPT ![p].at = "close", ![p].returned = TRUE]
    /\ UNCHANGED <<lock, output, reported, faults, losses>>

\* Any call of the try block rejects.
TryFails(p) ==
    /\ run[p].at \in TryBlock
    /\ Fault
    /\ run' = [run EXCEPT ![p].at = "close"]
    /\ UNCHANGED <<lock, output, durable, reported, losses>>

-----------------------------------------------------------------------------
(***************************************************************************)
(* The finally block.  Once published, errors are swallowed and the rest   *)
(* goes on; otherwise the first error ends the call.                       *)
(***************************************************************************)
After(r) == [close |-> IF r.published THEN "unlink" ELSE "remove",
             remove |-> "unlink", unlink |-> "cleanup", cleanup |-> "idle"][r.at]

\* rm(stagingDirectory), which a rename may have moved away
RemoveStaging(r) == IF r.at = "remove" THEN Nothing ELSE r.staging

\* The call settles when it leaves the block.
Settled(p) ==
    reported' = IF run'[p].at = "idle" /\ run[p].returned
                THEN reported \cup {run[p].candidate} ELSE reported

Finally(p) ==
    /\ run[p].at \in FinallyBlock
    /\ run' = [run EXCEPT ![p].at = After(run[p]), ![p].staging = RemoveStaging(run[p])]
    /\ lock' = IF run[p].at = "unlink" THEN Free ELSE lock
    /\ durable' = IF run[p].at = "cleanup" THEN output ELSE durable
    /\ Settled(p)
    /\ UNCHANGED <<output, faults, losses>>

FinallyFails(p) ==
    /\ run[p].at \in FinallyBlock
    /\ Fault
    /\ run' = [run EXCEPT ![p].at = IF run[p].published THEN After(run[p]) ELSE "idle"]
    /\ Settled(p)
    /\ UNCHANGED <<lock, output, durable, losses>>

-----------------------------------------------------------------------------
(* Everything else *)

Crash(p) ==
    /\ run[p].at # "idle"
    /\ Fault
    /\ run' = [run EXCEPT ![p].at = "idle"]
    /\ UNCHANGED <<lock, output, durable, reported, losses>>

\* What a power loss may leave of a directory.
Remains(d) ==
    IF d \in {Nothing, Foreign} THEN {d}
    ELSE {[d EXCEPT !.files = f, !.kept = f] :
             f \in {g \in SUBSET d.files : d.kept \subseteq g}}

\* Staging directories nobody will look at again are forgotten.
PowerLoss ==
    /\ losses < MaxLosses /\ losses' = losses + 1
    /\ run' = [p \in Assembler |-> Call("idle", run[p].candidate)]
    /\ output' \in Remains(output) \cup Remains(durable)
    /\ durable' = output'
    /\ lock' \in {lock, Free}
    /\ UNCHANGED <<reported, faults>>

\* A program that does not take the lock creates the directory.
Race ==
    /\ output = Nothing
    /\ output' = Foreign
    /\ UNCHANGED <<lock, run, durable, reported, faults, losses>>

\* The operator removes a lock file when no assembler runs.
RemoveStaleLock ==
    /\ lock # Free
    /\ \A p \in Assembler : run[p].at = "idle"
    /\ lock' = Free
    /\ UNCHANGED <<run, output, durable, reported, faults, losses>>

OutputNext ==
    \/ \E p \in Assembler :
          \/ \E c \in Candidate : Start(p, c)
          \/ Stage(p) \/ WriteSimulation(p) \/ WriteCandidate(p) \/ SyncStaging(p)
          \/ Validate(p) \/ SyncBeforePublish(p) \/ Rename(p) \/ SyncPublished(p)
          \/ TryFails(p) \/ Finally(p) \/ FinallyFails(p) \/ Crash(p)
    \/ PowerLoss \/ Race \/ RemoveStaleLock

OutputSpec == OutputInit /\ [][OutputNext]_outputVars

-----------------------------------------------------------------------------
\* Whatever fails, and wherever a crash or a power loss strikes, an output
\* directory that an assembler made holds both files of one candidate, and
\* that pair has passed the validator (finalizeCandidateDirectoryAtomically).
PublishedIsWhole ==
    output \notin {Nothing, Foreign} => output.files = Names /\ output.valid

\* A call that returned the directory's name has published its own candidate
\* for good: no power loss and no other assembler takes it away, so at most
\* one candidate is ever reported (the post-publish sync).
ReportedIsDurable ==
    \A c \in reported :
        output \notin {Nothing, Foreign} /\ output.of = c /\ durable = output

\* What is visible under the output's name stays, whoever made it: no
\* assembler replaces it, and no cleanup, not even after a failed sync,
\* removes it.  Only a power loss may undo a rename that was not synced.
NeverReplaced ==
    [][output # Nothing /\ output' # output => losses' # losses]_outputVars
=============================================================================
