----------------------------- MODULE ReportJobs -----------------------------
(***************************************************************************)
(* Report exports: ReportJobsService, a registry in the memory of one       *)
(* process, and ReportStorage, files on disk with a lifetime.               *)
(*                                                                          *)
(* create() runs without interruption up to its first await, so it is one   *)
(* action per outcome.  The export is rendered within the request that      *)
(* asked for it; a second request with its key waits for the same promise.  *)
(* A job's id is the call that created it.  What rows are exported and how  *)
(* they are rendered is left out; status() and download() change nothing.   *)
(***************************************************************************)
EXTENDS Integers, FiniteSets

CONSTANTS
    Calls,              \* POST requests
    Keys, KeyOf,        \* `owner:Idempotency-Key` of a call
    Intents, IntentOf,  \* digest of what is asked for
    Capacity,           \* jobs remembered at most: 256
    Lifetime,           \* REPORT_RETENTION_SECONDS
    MaxWrite,           \* how long writing and renaming a file may take
    MaxTime,            \* bound of the clock
    NoKey, Null

ASSUME KeyAssumption    == KeyOf \in [Calls -> Keys \cup {NoKey}] /\ NoKey \notin Keys
ASSUME IntentAssumption == IntentOf \in [Calls -> Intents]
ASSUME TimeAssumption   == /\ Lifetime \in Nat /\ MaxWrite \in Nat /\ MaxTime \in Nat
                           /\ Capacity \in Nat
Job == [status : {"processing", "completed", "failed"}, expiresAt : Int]
ASSUME NullAssumption   == Null \notin Calls /\ Null \notin Job

VARIABLES
    clock,
    calls,              \* how far each call has come
    answer,             \* the job id each call was given
    jobs, keys,         \* the two maps of the registry
    running,            \* the one rendering slot
    rendering,          \* how far the promise of each job has come
    files               \* what is in the export directory

vars == <<clock, calls, answer, jobs, keys, running, rendering, files>>

File == [id : Calls, temporary : BOOLEAN, mtime : Int]
InFlight == {"rendering", "waiting"}

Init ==
    /\ clock = 0
    /\ calls = [c \in Calls |-> "new"]
    /\ answer = [c \in Calls |-> Null]
    /\ jobs = [c \in Calls |-> Null]
    /\ keys = [k \in Keys |-> Null]
    /\ running = FALSE
    /\ rendering = [c \in Calls |-> "none"]
    /\ files = {}

Ended(c, how) == calls' = [calls EXCEPT ![c] = how]

-----------------------------------------------------------------------------
(* create().                                                                *)

\* What prune() forgets: settled jobs past their time.
Expired == {c \in Calls : /\ jobs[c] # Null
                          /\ jobs[c].status # "processing"
                          /\ jobs[c].expiresAt <= clock}
PrunedJobs == [c \in Calls |-> IF c \in Expired THEN Null ELSE jobs[c]]

\* Mutant: the keys of forgotten jobs are kept.
PrunedKeysKept == keys

PrunedKeys == [k \in Keys |-> IF \E c \in Expired : KeyOf[c] = k THEN Null ELSE keys[k]]

\* The job under a call's key, once the registry is pruned.
Previous(c) ==
    IF KeyOf[c] = NoKey \/ PrunedKeys[KeyOf[c]] = Null THEN Null
    ELSE IF PrunedJobs[PrunedKeys[KeyOf[c]]] = Null THEN Null
    ELSE PrunedKeys[KeyOf[c]]

Prune == jobs' = PrunedJobs /\ keys' = PrunedKeys

\* Mutant: whatever was asked under the key is returned.
ReplayAnyIntent(c) ==
    /\ calls[c] = "new" /\ Previous(c) # Null
    /\ answer' = [answer EXCEPT ![c] = Previous(c)]
    /\ Ended(c, "waiting")
    /\ Prune
    /\ UNCHANGED <<clock, running, rendering, files>>

\* The key has a job for the same intent: await its completion.
Replay(c) ==
    /\ calls[c] = "new" /\ Previous(c) # Null
    /\ IntentOf[Previous(c)] = IntentOf[c]
    /\ answer' = [answer EXCEPT ![c] = Previous(c)]
    /\ Ended(c, "waiting")
    /\ Prune
    /\ UNCHANGED <<clock, running, rendering, files>>

\* The key was used for something else.
Conflict(c) ==
    /\ calls[c] = "new" /\ Previous(c) # Null
    /\ IntentOf[Previous(c)] # IntentOf[c]
    /\ Ended(c, "failed")
    /\ Prune
    /\ UNCHANGED <<clock, answer, running, rendering, files>>

Remembered(registry) == Cardinality({c \in Calls : registry[c] # Null})
NoRoom == running \/ Remembered(PrunedJobs) >= Capacity

\* Mutant: the room is counted before the registry is pruned.
BusyUnpruned(c) ==
    /\ calls[c] = "new" /\ Previous(c) = Null
    /\ running \/ Remembered(jobs) >= Capacity
    /\ Ended(c, "failed")
    /\ Prune
    /\ UNCHANGED <<clock, answer, running, rendering, files>>

Busy(c) ==
    /\ calls[c] = "new" /\ Previous(c) = Null
    /\ NoRoom
    /\ Ended(c, "failed")
    /\ Prune
    /\ UNCHANGED <<clock, answer, running, rendering, files>>

\* Mutant: the slot is not looked at.
StartAnyway(c) ==
    /\ calls[c] = "new" /\ Previous(c) = Null
    /\ Remembered(PrunedJobs) < Capacity
    /\ running' = TRUE
    /\ jobs' = [PrunedJobs EXCEPT ![c] = [status |-> "processing",
                                          expiresAt |-> clock + Lifetime]]
    /\ keys' = [k \in Keys |-> IF k = KeyOf[c] THEN c ELSE PrunedKeys[k]]
    /\ rendering' = [rendering EXCEPT ![c] = "started"]
    /\ answer' = [answer EXCEPT ![c] = c]
    /\ Ended(c, "rendering")
    /\ UNCHANGED <<clock, files>>

\* The slot is taken, the job and its key are remembered, rendering begins.
Start(c) ==
    /\ calls[c] = "new" /\ Previous(c) = Null
    /\ ~NoRoom
    /\ running' = TRUE
    /\ jobs' = [PrunedJobs EXCEPT ![c] = [status |-> "processing",
                                          expiresAt |-> clock + Lifetime]]
    /\ keys' = [k \in Keys |-> IF k = KeyOf[c] THEN c ELSE PrunedKeys[k]]
    /\ rendering' = [rendering EXCEPT ![c] = "started"]
    /\ answer' = [answer EXCEPT ![c] = c]
    /\ Ended(c, "rendering")
    /\ UNCHANGED <<clock, files>>

-----------------------------------------------------------------------------
(* render() and the promise that create() awaits.                           *)

\* Mutant: a file goes one tick early.
OutdatedEarly == {f \in files : clock - f.mtime >= Lifetime}

Outdated == {f \in files : clock - f.mtime > Lifetime}

Render(c, from, to) ==
    /\ rendering[c] = from
    /\ rendering' = [rendering EXCEPT ![c] = to]

\* storage.cleanup().  An unlink that fails is swallowed; that it only leaves an
\* outdated file behind is left out, here and in FailRender.
Cleanup(c) ==
    /\ Render(c, "started", "cleaned")
    /\ files' = files \ Outdated
    /\ UNCHANGED <<clock, calls, answer, jobs, keys, running>>

\* The rows are read and rendered and the temporary file is written.
WriteFile(c) ==
    /\ Render(c, "cleaned", "written")
    /\ files' = files \cup {[id |-> c, temporary |-> TRUE, mtime |-> clock]}
    /\ UNCHANGED <<clock, calls, answer, jobs, keys, running>>

Temporary(c) == {f \in files : f.id = c /\ f.temporary}

\* The rename, which keeps the modification time, and the completion of the
\* job, whose lifetime begins now.
Complete(c) ==
    /\ Render(c, "written", "settled")
    /\ files' = (files \ Temporary(c))
                   \cup {[f EXCEPT !.temporary = FALSE] : f \in Temporary(c)}
    /\ jobs' = [jobs EXCEPT ![c] = [status |-> "completed",
                                    expiresAt |-> clock + Lifetime]]
    /\ UNCHANGED <<clock, calls, answer, keys, running>>

\* Anything throws: the job has failed and the temporary file is unlinked.
FailRender(c) ==
    /\ rendering[c] \in {"started", "cleaned", "written"}
    /\ rendering' = [rendering EXCEPT ![c] = "settled"]
    /\ files' = files \ Temporary(c)
    /\ jobs' = [jobs EXCEPT ![c].status = "failed"]
    /\ UNCHANGED <<clock, calls, answer, keys, running>>

\* Mutant: then() in place of finally().
ReleaseOnSuccess(c) ==
    /\ Render(c, "settled", "none")
    /\ jobs[c] # Null /\ jobs[c].status = "completed"
    /\ running' = FALSE
    /\ UNCHANGED <<clock, calls, answer, jobs, keys, files>>

\* finally: the slot is free.
Release(c) ==
    /\ Render(c, "settled", "none")
    /\ running' = FALSE
    /\ UNCHANGED <<clock, calls, answer, jobs, keys, files>>

\* A call whose promise has settled gets its job id.
Answer(c) ==
    /\ calls[c] \in InFlight /\ rendering[answer[c]] = "none"
    /\ Ended(c, "accepted")
    /\ UNCHANGED <<clock, answer, jobs, keys, running, rendering, files>>

-----------------------------------------------------------------------------
(* The environment.                                                         *)

\* Time passes; a file is written and renamed within MaxWrite.
Tick ==
    /\ clock < MaxTime
    /\ \A c \in Calls : rendering[c] = "written" =>
           \A f \in Temporary(c) : clock - f.mtime < MaxWrite
    /\ clock' = clock + 1
    /\ UNCHANGED <<calls, answer, jobs, keys, running, rendering, files>>

\* The process restarts: memory is gone, the directory is not.
Restart ==
    /\ jobs' = [c \in Calls |-> Null]
    /\ keys' = [k \in Keys |-> Null]
    /\ running' = FALSE
    /\ rendering' = [c \in Calls |-> "none"]
    /\ calls' = [c \in Calls |-> IF calls[c] \in InFlight THEN "failed" ELSE calls[c]]
    /\ answer' = [c \in Calls |-> IF calls[c] \in InFlight THEN Null ELSE answer[c]]
    /\ UNCHANGED <<clock, files>>

Step(c) ==
    \/ Replay(c) \/ Conflict(c) \/ Busy(c) \/ Start(c)
    \/ Cleanup(c) \/ WriteFile(c) \/ Complete(c) \/ FailRender(c)
    \/ Release(c) \/ Answer(c)

Next == (\E c \in Calls : Step(c)) \/ Tick \/ Restart

Spec == Init /\ [][Next]_vars

\* Reading, rendering and writing end or throw, and promises are resolved.  One
\* job renders at a time and the calls are finite, so it is enough to be fair to
\* each kind of step.
FairSpec ==
    /\ Spec
    /\ WF_vars(\E c \in Calls : Cleanup(c) \/ WriteFile(c) \/ Complete(c) \/ FailRender(c))
    /\ WF_vars(\E c \in Calls : Release(c))
    /\ WF_vars(\E c \in Calls : Answer(c))

-----------------------------------------------------------------------------
TypeOK ==
    /\ clock \in 0 .. MaxTime
    /\ calls \in [Calls -> {"new", "accepted", "failed"} \cup InFlight]
    /\ answer \in [Calls -> Calls \cup {Null}]
    /\ jobs \in [Calls -> Job \cup {Null}]
    /\ keys \in [Keys -> Calls \cup {Null}]
    /\ running \in BOOLEAN
    /\ rendering \in [Calls -> {"none", "started", "cleaned", "written", "settled"}]
    /\ files \subseteq File

\* Whoever renders has the slot, nobody else does, and a job that is said to be
\* processing really has a render behind it: not after a failure, not after a
\* restart.
SlotMatchesRender ==
    /\ running <=> \E c \in Calls : rendering[c] # "none"
    /\ \A c, d \in Calls : (rendering[c] # "none" /\ rendering[d] # "none") => c = d
    /\ \A c \in Calls :
          (jobs[c] # Null /\ jobs[c].status = "processing")
              <=> rendering[c] \in {"started", "cleaned", "written"}

\* The two maps agree through pruning, failures and restarts: a key leads to a
\* job of that key, every remembered job is found under its key, and so no key
\* has two exports while one is remembered.
KeysMatchJobs ==
    /\ \A k \in Keys : keys[k] # Null => jobs[keys[k]] # Null /\ KeyOf[keys[k]] = k
    /\ \A c \in Calls : (jobs[c] # Null /\ KeyOf[c] # NoKey) => keys[KeyOf[c]] = c

\* A call is answered with an export of what it asked for, under its key, and
\* only when that export is no longer being made.
AnswersOwnExport ==
    \A c \in Calls : calls[c] = "accepted" =>
        /\ KeyOf[answer[c]] = KeyOf[c] /\ IntentOf[answer[c]] = IntentOf[c]
        /\ jobs[answer[c]] # Null => jobs[answer[c]].status # "processing"

\* The file of a completed job is there as long as the job offers it, but for
\* its last moments: cleanup goes by the time the file was written and the job
\* by the time it was renamed, which may be MaxWrite later.
FileOutlivesOffer ==
    \A c \in Calls :
        (jobs[c] # Null /\ jobs[c].status = "completed"
            /\ clock + MaxWrite <= jobs[c].expiresAt)
        => \E f \in files : f.id = c /\ ~f.temporary

\* A call is told "busy" only while an export is rendered or as many as the
\* registry holds are really still remembered: expired ones never block it.
RefusedWhenBusy ==
    [][\A c \in Calls :
          (calls[c] = "new" /\ calls'[c] = "failed" /\ Previous(c) = Null)
          => running \/ Cardinality({d \in Calls : /\ jobs[d] # Null
                                                   /\ jobs[d].expiresAt > clock})
                            >= Capacity]_vars

\* The registry always comes to rest: however rendering ends the slot is given
\* back, and no call is left waiting for an export, its own or another's.
ComesToRest == []<>(~running /\ \A c \in Calls : calls[c] \notin InFlight)

=============================================================================
