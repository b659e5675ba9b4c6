-------------------------- MODULE ReportJobs_proofs --------------------------
(***************************************************************************)
(* Proofs about ReportJobs for any calls, keys, capacity, lifetime and      *)
(* duration of writes.                                                      *)
(***************************************************************************)
EXTENDS ReportJobs, TLAPS

\* A call that has a job id has one of its own key and intent, and once it is
\* accepted nothing renders under that id.
Answered ==
    \A c \in Calls : calls[c] \in InFlight \cup {"accepted"} =>
        /\ answer[c] \in Calls
        /\ KeyOf[answer[c]] = KeyOf[c] /\ IntentOf[answer[c]] = IntentOf[c]
        /\ calls[answer[c]] # "new"
        /\ calls[c] = "accepted" => rendering[answer[c]] = "none"

\* Nothing is known of a call that has not come.
NewIsUnknown ==
    \A c \in Calls : calls[c] = "new" => jobs[c] = Null /\ rendering[c] = "none"

Processing == {"started", "cleaned", "written"}

\* A temporary file being renamed is no older than MaxWrite; the file of a
\* completed job is no older than the job's lifetime and that.
FilesInTime ==
    \A c \in Calls :
        /\ rendering[c] = "written" =>
              \E f \in files : f.id = c /\ f.temporary /\ clock - f.mtime <= MaxWrite
        /\ (jobs[c] # Null /\ jobs[c].status = "completed"
               /\ clock + MaxWrite <= jobs[c].expiresAt) =>
              \E f \in files : /\ f.id = c /\ ~f.temporary
                               /\ jobs[c].expiresAt <= f.mtime + Lifetime + MaxWrite

\* The inductive invariant.
Inv == /\ TypeOK /\ SlotMatchesRender /\ KeysMatchJobs
       /\ Answered /\ NewIsUnknown /\ FilesInTime

-----------------------------------------------------------------------------
LEMMA InvInit == Init => Inv
<1> SUFFICES ASSUME Init PROVE Inv
  OBVIOUS
<1> USE KeyAssumption, TimeAssumption, NullAssumption DEF Init
<1>1. TypeOK
  <2>1. clock \in 0 .. MaxTime
    OBVIOUS
  <2>4. running \in BOOLEAN /\ files \subseteq File
    OBVIOUS
  <2>2. /\ calls \in [Calls -> {"new", "accepted", "failed"} \cup InFlight]
        /\ rendering \in [Calls -> {"none", "started", "cleaned", "written", "settled"}]
    OBVIOUS
  <2>3. /\ answer \in [Calls -> Calls \cup {Null}]
        /\ jobs \in [Calls -> Job \cup {Null}]
        /\ keys \in [Keys -> Calls \cup {Null}]
    OBVIOUS
  <2> QED
    BY <2>1, <2>2, <2>3, <2>4 DEF TypeOK
<1>2. SlotMatchesRender
  BY DEF SlotMatchesRender
<1>3. KeysMatchJobs /\ NewIsUnknown
  BY DEF KeysMatchJobs, NewIsUnknown
<1>4. Answered /\ FilesInTime
  BY DEF Answered, FilesInTime, InFlight
<1> QED
  BY <1>1, <1>2, <1>3, <1>4 DEF Inv

\* Forgetting expired jobs and their keys keeps the two maps in step, and
\* touches no job that is processing.
LEMMA PruneFacts ==
    ASSUME Inv
    PROVE  /\ PrunedJobs \in [Calls -> Job \cup {Null}]
           /\ PrunedKeys \in [Keys -> Calls \cup {Null}]
           /\ \A c \in Calls : PrunedJobs[c] = Null \/ PrunedJobs[c] = jobs[c]
           /\ \A c \in Calls : (jobs[c] # Null /\ jobs[c].status = "processing")
                                   => PrunedJobs[c] = jobs[c]
           /\ \A k \in Keys : PrunedKeys[k] # Null =>
                  PrunedJobs[PrunedKeys[k]] # Null /\ KeyOf[PrunedKeys[k]] = k
           /\ \A c \in Calls : (PrunedJobs[c] # Null /\ KeyOf[c] # NoKey) =>
                  PrunedKeys[KeyOf[c]] = c
<1> USE KeyAssumption, NullAssumption DEF Inv, TypeOK
<1>1. PrunedJobs \in [Calls -> Job \cup {Null}]
  BY DEF PrunedJobs
<1>2. PrunedKeys \in [Keys -> Calls \cup {Null}]
  BY DEF PrunedKeys
<1>3. \A c \in Calls : PrunedJobs[c] = Null \/ PrunedJobs[c] = jobs[c]
  BY DEF PrunedJobs
<1>4. \A c \in Calls : (jobs[c] # Null /\ jobs[c].status = "processing")
                          => PrunedJobs[c] = jobs[c]
  BY DEF PrunedJobs, Expired
<1>5. ASSUME NEW k \in Keys, PrunedKeys[k] # Null
      PROVE  PrunedJobs[PrunedKeys[k]] # Null /\ KeyOf[PrunedKeys[k]] = k
  <2>1. PrunedKeys[k] = keys[k] /\ keys[k] \in Calls /\ ~\E c \in Expired : KeyOf[c] = k
    BY <1>5 DEF PrunedKeys
  <2>2. jobs[keys[k]] # Null /\ KeyOf[keys[k]] = k
    BY <2>1, <1>5 DEF KeysMatchJobs
  <2>3. keys[k] \notin Expired
    BY <2>1, <2>2
  <2> QED
    BY <2>1, <2>2, <2>3 DEF PrunedJobs
<1>6. ASSUME NEW c \in Calls, PrunedJobs[c] # Null, KeyOf[c] # NoKey
      PROVE  PrunedKeys[KeyOf[c]] = c
  <2>1. c \notin Expired /\ jobs[c] # Null
    BY <1>6 DEF PrunedJobs
  <2>2. KeyOf[c] \in Keys /\ keys[KeyOf[c]] = c
    BY <2>1, <1>6 DEF KeysMatchJobs
  <2>3. ~\E d \in Expired : KeyOf[d] = KeyOf[c]
    BY <2>1, <2>2 DEF Expired, KeysMatchJobs
  <2> QED
    BY <2>2, <2>3 DEF PrunedKeys
<1> QED
  BY <1>1, <1>2, <1>3, <1>4, <1>5, <1>6

\* The previous job of a key is remembered under it.
LEMMA PreviousFacts ==
    ASSUME Inv, NEW c \in Calls, Previous(c) # Null
    PROVE  /\ Previous(c) \in Calls /\ KeyOf[Previous(c)] = KeyOf[c]
           /\ jobs[Previous(c)] # Null /\ calls[Previous(c)] # "new"
<1>1. KeyOf[c] \in Keys /\ Previous(c) = PrunedKeys[KeyOf[c]]
      /\ PrunedJobs[Previous(c)] # Null /\ Previous(c) \in Calls
  BY KeyAssumption, PruneFacts DEF Previous
<1> QED
  BY <1>1, PruneFacts DEF Inv, NewIsUnknown

-----------------------------------------------------------------------------
\* create() when it renders nothing.
LEMMA RefuseStep ==
    ASSUME Inv, NEW c \in Calls, Replay(c) \/ Conflict(c) \/ Busy(c)
    PROVE  Inv'
<1> USE KeyAssumption, NullAssumption
<1>1. /\ jobs' = PrunedJobs /\ keys' = PrunedKeys
      /\ calls[c] = "new"
      /\ UNCHANGED <<clock, running, rendering, files>>
  BY DEF Replay, Conflict, Busy, Prune
<1>2. \/ /\ calls' = [calls EXCEPT ![c] = "waiting"]
         /\ answer' = [answer EXCEPT ![c] = Previous(c)]
         /\ Previous(c) # Null /\ IntentOf[Previous(c)] = IntentOf[c]
      \/ calls' = [calls EXCEPT ![c] = "failed"] /\ answer' = answer
  BY DEF Replay, Conflict, Busy, Ended
<1>3. TypeOK'
  BY <1>1, <1>2, PruneFacts, PreviousFacts DEF Inv, TypeOK, InFlight
<1>4. \A d \in Calls : PrunedJobs[d] # Null /\ PrunedJobs[d].status = "processing"
                          <=> jobs[d] # Null /\ jobs[d].status = "processing"
  BY PruneFacts
<1>5. SlotMatchesRender'
  BY <1>1, <1>4 DEF Inv, SlotMatchesRender
<1>6. KeysMatchJobs'
  BY <1>1, PruneFacts DEF KeysMatchJobs
<1>7. Answered'
  BY <1>1, <1>2, PreviousFacts DEF Inv, TypeOK, Answered, InFlight
<1>8. NewIsUnknown'
  BY <1>1, <1>2, PruneFacts DEF Inv, TypeOK, NewIsUnknown
<1>9. FilesInTime'
  BY <1>1, PruneFacts DEF Inv, FilesInTime
<1> QED
  BY <1>3, <1>5, <1>6, <1>7, <1>8, <1>9 DEF Inv

\* create() when it takes the slot.
LEMMA StartStep ==
    ASSUME Inv, NEW c \in Calls, Start(c)
    PROVE  Inv'
<1> USE KeyAssumption, NullAssumption, TimeAssumption
<1> DEFINE job == [status |-> "processing", expiresAt |-> clock + Lifetime]
<1>1. /\ calls[c] = "new" /\ Previous(c) = Null /\ ~running /\ running' = TRUE
      /\ jobs' = [PrunedJobs EXCEPT ![c] = job]
      /\ keys' = [k \in Keys |-> IF k = KeyOf[c] THEN c ELSE PrunedKeys[k]]
      /\ rendering' = [rendering EXCEPT ![c] = "started"]
      /\ answer' = [answer EXCEPT ![c] = c]
      /\ calls' = [calls EXCEPT ![c] = "rendering"]
      /\ UNCHANGED <<clock, files>>
  BY DEF Start, NoRoom, Ended
<1>2. job \in Job /\ job # Null /\ clock \in Int /\ job.status = "processing"
  BY DEF Inv, TypeOK, Job
<1> HIDE DEF job
<1>3. /\ jobs'[c] = job
      /\ \A d \in Calls : d # c => jobs'[d] = PrunedJobs[d]
      /\ rendering'[c] = "started"
      /\ \A d \in Calls : d # c => rendering'[d] = rendering[d]
      /\ \A d \in Calls : rendering[d] = "none"
  BY <1>1, PruneFacts DEF Inv, TypeOK, SlotMatchesRender
<1>4. TypeOK'
  BY <1>1, <1>2, PruneFacts DEF Inv, TypeOK, InFlight
<1>5. SlotMatchesRender'
  BY <1>1, <1>2, <1>3, PruneFacts DEF Inv, SlotMatchesRender
<1>6. KeysMatchJobs'
  <2>1. KeyOf[c] \in Keys => PrunedKeys[KeyOf[c]] = Null
    BY <1>1, PruneFacts DEF Previous
  <2>2. ASSUME NEW k \in Keys, keys'[k] # Null
        PROVE  jobs'[keys'[k]] # Null /\ KeyOf[keys'[k]] = k
    BY <2>2, <1>1, <1>2, <1>3, PruneFacts
  <2>3. ASSUME NEW d \in Calls, jobs'[d] # Null, KeyOf[d] # NoKey
        PROVE  keys'[KeyOf[d]] = d
    BY <2>1, <2>3, <1>1, <1>3, PruneFacts
  <2> QED
    BY <2>2, <2>3 DEF KeysMatchJobs
<1>7. Answered'
  BY <1>1, <1>3 DEF Inv, TypeOK, Answered, InFlight
<1>8. NewIsUnknown'
  BY <1>1, <1>3, PruneFacts DEF Inv, TypeOK, NewIsUnknown
<1>9. FilesInTime'
  BY <1>1, <1>2, <1>3, PruneFacts DEF Inv, FilesInTime
<1> QED
  BY <1>4, <1>5, <1>6, <1>7, <1>8, <1>9 DEF Inv

-----------------------------------------------------------------------------
\* Rendering before it settles.
LEMMA RenderStep ==
    ASSUME Inv, NEW c \in Calls, Cleanup(c) \/ WriteFile(c)
    PROVE  Inv'
<1> USE TimeAssumption
<1>1. /\ UNCHANGED <<clock, calls, answer, jobs, keys, running>>
      /\ rendering[c] \in {"started", "cleaned"} /\ rendering'[c] \in {"cleaned", "written"}
      /\ rendering' \in [Calls -> {"none", "started", "cleaned", "written", "settled"}]
      /\ \A d \in Calls : d # c => rendering'[d] = rendering[d] /\ rendering[d] = "none"
  BY DEF Cleanup, WriteFile, Render, Inv, TypeOK, SlotMatchesRender
<1>2. clock \in Int
  BY DEF Inv, TypeOK
<1>3. files' \subseteq File
  <2>1. CASE Cleanup(c)
    BY <2>1 DEF Cleanup, Inv, TypeOK
  <2>2. CASE WriteFile(c)
    <3>1. [id |-> c, temporary |-> TRUE, mtime |-> clock] \in File
      BY <1>2 DEF File
    <3> QED
      BY <2>2, <3>1 DEF WriteFile, Inv, TypeOK
  <2> QED
    BY <2>1, <2>2
<1>4. TypeOK'
  BY <1>1, <1>3 DEF Inv, TypeOK
<1>5. SlotMatchesRender'
  BY <1>1 DEF Inv, SlotMatchesRender
<1>6. KeysMatchJobs'
  BY <1>1 DEF Inv, KeysMatchJobs
<1>7. Answered' /\ NewIsUnknown'
  BY <1>1 DEF Inv, Answered, NewIsUnknown, InFlight
<1>8. FilesInTime'
  <2>1. CASE Cleanup(c)
    <3>1. rendering'[c] = "cleaned" /\ files' = files \ Outdated
      BY <2>1 DEF Cleanup, Render, Inv, TypeOK
    <3>2. ASSUME NEW d \in Calls, jobs[d] # Null, jobs[d].status = "completed",
                 clock + MaxWrite <= jobs[d].expiresAt
          PROVE  \E f \in files' : /\ f.id = d /\ ~f.temporary
                                   /\ jobs[d].expiresAt <= f.mtime + Lifetime + MaxWrite
      <4>1. PICK f \in files : /\ f.id = d /\ ~f.temporary
                               /\ jobs[d].expiresAt <= f.mtime + Lifetime + MaxWrite
        BY <3>2 DEF Inv, FilesInTime
      <4>2. f.mtime \in Int /\ jobs[d].expiresAt \in Int
        BY <3>2 DEF Inv, TypeOK, File, Job
      <4>3. f \notin Outdated
        BY <4>1, <4>2, <3>2, <1>2 DEF Outdated
      <4> QED
        <5>1. f \in files'
          BY <4>1, <4>3, <3>1
        <5> QED
          BY <4>1, <5>1
    <3> QED
      BY <1>1, <3>1, <3>2 DEF FilesInTime
  <2>2. CASE WriteFile(c)
    <3>1. files' = files \cup {[id |-> c, temporary |-> TRUE, mtime |-> clock]}
      BY <2>2 DEF WriteFile
    <3>2. \E f \in files' : f.id = c /\ f.temporary /\ clock - f.mtime <= MaxWrite
      <4> DEFINE new == [id |-> c, temporary |-> TRUE, mtime |-> clock]
      <4>1. new \in files' /\ new.id = c /\ new.temporary /\ new.mtime = clock
        BY <3>1
      <4> HIDE DEF new
      <4>2. clock - new.mtime <= MaxWrite
        BY <4>1, <1>2
      <4> QED
        BY <4>1, <4>2
    <3>3. \A d \in Calls : rendering'[d] = "written" => d = c
      BY <1>1
    <3> QED
      BY <1>1, <3>1, <3>2, <3>3 DEF Inv, FilesInTime
  <2> QED
    BY <2>1, <2>2
<1> QED
  BY <1>4, <1>5, <1>6, <1>7, <1>8 DEF Inv

\* The promise of a job settles, well or badly.
LEMMA SettleStep ==
    ASSUME Inv, NEW c \in Calls, Complete(c) \/ FailRender(c)
    PROVE  Inv'
<1> USE KeyAssumption, NullAssumption, TimeAssumption
<1>1. /\ UNCHANGED <<clock, calls, answer, keys, running>>
      /\ rendering[c] \in Processing /\ rendering'[c] = "settled"
      /\ rendering' \in [Calls -> {"none", "started", "cleaned", "written", "settled"}]
      /\ \A d \in Calls : d # c => rendering'[d] = rendering[d] /\ rendering[d] = "none"
  BY DEF Complete, FailRender, Render, Inv, TypeOK, SlotMatchesRender, Processing
<1>2. clock \in Int /\ jobs[c] \in Job /\ jobs[c] # Null
  BY <1>1 DEF Inv, TypeOK, SlotMatchesRender, Processing
<1>3. /\ jobs' \in [Calls -> Job \cup {Null}]
      /\ jobs'[c] \in Job /\ jobs'[c] # Null /\ jobs'[c].status # "processing"
      /\ \A d \in Calls : d # c => jobs'[d] = jobs[d]
  <2>1. CASE Complete(c)
    <3> DEFINE job == [status |-> "completed", expiresAt |-> clock + Lifetime]
    <3>1. job \in Job /\ job.status # "processing"
      BY <1>2 DEF Job
    <3>2. jobs' = [jobs EXCEPT ![c] = job]
      BY <2>1 DEF Complete
    <3> HIDE DEF job
    <3> QED
      BY <3>1, <3>2 DEF Inv, TypeOK
  <2>2. CASE FailRender(c)
    <3> DEFINE job == [jobs[c] EXCEPT !.status = "failed"]
    <3>1. job \in Job /\ job.status # "processing"
      BY <1>2 DEF Job
    <3>2. jobs' = [jobs EXCEPT ![c] = job]
      BY <2>2 DEF FailRender, Inv, TypeOK
    <3> HIDE DEF job
    <3> QED
      BY <3>1, <3>2 DEF Inv, TypeOK
  <2> QED
    BY <2>1, <2>2
<1>4. files' \subseteq File
  <2>1. \A f \in File : [f EXCEPT !.temporary = FALSE] \in File
    BY DEF File
  <2>2. Temporary(c) \subseteq File /\ files \subseteq File
    BY DEF Temporary, Inv, TypeOK
  <2> QED
    BY <2>1, <2>2 DEF Complete, FailRender
<1>5. TypeOK'
  BY <1>1, <1>3, <1>4 DEF Inv, TypeOK
<1>6. SlotMatchesRender'
  BY <1>1, <1>3 DEF Inv, SlotMatchesRender, Processing
<1>7. KeysMatchJobs'
  BY <1>1, <1>2, <1>3 DEF Inv, TypeOK, KeysMatchJobs
<1>8. Answered' /\ NewIsUnknown'
  BY <1>1, <1>3 DEF Inv, Answered, NewIsUnknown, InFlight, Processing
<1>9. FilesInTime'
  <2>1. \A d \in Calls : rendering'[d] # "written"
    BY <1>1
  <2>2. \A d \in Calls : d # c => \A f \in files : f.id = d => f \in files'
    BY DEF Complete, FailRender, Temporary
  <2>3. ASSUME NEW d \in Calls, jobs'[d] # Null, jobs'[d].status = "completed",
               clock' + MaxWrite <= jobs'[d].expiresAt
        PROVE  \E f \in files' : /\ f.id = d /\ ~f.temporary
                                 /\ jobs'[d].expiresAt <= f.mtime + Lifetime + MaxWrite
    <3>1. CASE d # c
      <4>1. PICK f \in files : /\ f.id = d /\ ~f.temporary
                               /\ jobs[d].expiresAt <= f.mtime + Lifetime + MaxWrite
        BY <3>1, <2>3, <1>1, <1>3 DEF Inv, FilesInTime
      <4>2. f \in files'
        BY <4>1, <3>1, <2>2
      <4> QED
        BY <4>1, <4>2, <3>1, <1>3
    <3>2. CASE d = c /\ Complete(c)
      <4>1. rendering[c] = "written" /\ jobs'[c].expiresAt = clock + Lifetime
        BY <3>2 DEF Complete, Render, Inv, TypeOK
      <4>2. PICK f \in files : f.id = c /\ f.temporary /\ clock - f.mtime <= MaxWrite
        BY <4>1 DEF Inv, FilesInTime
      <4> DEFINE g == [f EXCEPT !.temporary = FALSE]
      <4>3. g \in files'
        BY <4>2, <3>2 DEF Complete, Temporary
      <4>4. f \in File /\ f.mtime \in Int
        BY <4>2 DEF Inv, TypeOK, File
      <4>5. g.id = c /\ ~g.temporary /\ g.mtime = f.mtime
        BY <4>2, <4>4 DEF File
      <4> HIDE DEF g
      <4>6. jobs'[c].expiresAt <= g.mtime + Lifetime + MaxWrite
        BY <4>1, <4>2, <4>4, <4>5, <1>2
      <4> QED
        BY <3>2, <4>3, <4>5, <4>6
    <3>3. CASE d = c /\ FailRender(c)
      BY <3>3, <2>3, <1>2 DEF FailRender, Inv, TypeOK, Job
    <3> QED
      BY <3>1, <3>2, <3>3
  <2> QED
    BY <2>1, <2>3 DEF FilesInTime
<1> QED
  BY <1>5, <1>6, <1>7, <1>8, <1>9 DEF Inv

\* The slot is given back, and calls are answered.
LEMMA EndStep ==
    ASSUME Inv, NEW c \in Calls, Release(c) \/ Answer(c)
    PROVE  Inv'
<1>1. CASE Release(c)
  <2>1. /\ UNCHANGED <<clock, calls, answer, jobs, keys, files>>
        /\ rendering[c] = "settled" /\ running' = FALSE
        /\ rendering' = [rendering EXCEPT ![c] = "none"]
    BY <1>1 DEF Release, Render
  <2>2. \A d \in Calls : rendering'[d] = "none"
    BY <2>1 DEF Inv, TypeOK, SlotMatchesRender
  <2>3. TypeOK'
    BY <2>1 DEF Inv, TypeOK
  <2>4. SlotMatchesRender'
    BY <2>1, <2>2 DEF Inv, TypeOK, SlotMatchesRender
  <2>5. KeysMatchJobs' /\ NewIsUnknown'
    BY <2>1, <2>2 DEF Inv, KeysMatchJobs, NewIsUnknown
  <2>6. Answered'
    BY <2>1, <2>2 DEF Inv, Answered
  <2>7. FilesInTime'
    BY <2>1, <2>2 DEF Inv, FilesInTime
  <2> QED
    BY <2>3, <2>4, <2>5, <2>6, <2>7 DEF Inv
<1>2. CASE Answer(c)
  <2>1. /\ UNCHANGED <<clock, answer, jobs, keys, running, rendering, files>>
        /\ calls' = [calls EXCEPT ![c] = "accepted"]
        /\ calls[c] \in InFlight /\ rendering[answer[c]] = "none"
    BY <1>2 DEF Answer, Ended
  <2>2. TypeOK'
    BY <2>1 DEF Inv, TypeOK
  <2>3. SlotMatchesRender' /\ KeysMatchJobs' /\ FilesInTime'
    BY <2>1 DEF Inv, SlotMatchesRender, KeysMatchJobs, FilesInTime
  <2>4. Answered' /\ NewIsUnknown'
    BY <2>1 DEF Inv, TypeOK, Answered, NewIsUnknown, InFlight
  <2> QED
    BY <2>2, <2>3, <2>4 DEF Inv
<1> QED
  BY <1>1, <1>2

-----------------------------------------------------------------------------
\* Time passes, but not so much that a write takes longer than it may.
LEMMA TickStep == Inv /\ Tick => Inv'
<1> SUFFICES ASSUME Inv, Tick PROVE Inv'
  OBVIOUS
<1> USE TimeAssumption
<1>1. /\ UNCHANGED <<calls, answer, jobs, keys, running, rendering, files>>
      /\ clock \in 0 .. MaxTime /\ clock < MaxTime /\ clock' = clock + 1
  BY DEF Tick, Inv, TypeOK
<1>2. TypeOK'
  BY <1>1 DEF Inv, TypeOK
<1>3. SlotMatchesRender' /\ KeysMatchJobs' /\ Answered' /\ NewIsUnknown'
  BY <1>1 DEF Inv, SlotMatchesRender, KeysMatchJobs, Answered, NewIsUnknown
<1>4. ASSUME NEW c \in Calls, rendering[c] = "written"
      PROVE  \E f \in files : f.id = c /\ f.temporary /\ clock' - f.mtime <= MaxWrite
  <2>1. PICK f \in files : f.id = c /\ f.temporary /\ clock - f.mtime <= MaxWrite
    BY <1>4 DEF Inv, FilesInTime
  <2>2. f.mtime \in Int /\ clock - f.mtime < MaxWrite
    BY <1>4, <2>1 DEF Tick, Temporary, Inv, TypeOK, File
  <2>3. clock' - f.mtime <= MaxWrite
    BY <1>1, <2>2
  <2> QED
    BY <2>1, <2>3
<1>5. ASSUME NEW c \in Calls, jobs[c] # Null, jobs[c].status = "completed",
             clock' + MaxWrite <= jobs[c].expiresAt
      PROVE  clock + MaxWrite <= jobs[c].expiresAt
  <2>1. jobs[c].expiresAt \in Int
    BY <1>5 DEF Inv, TypeOK, Job
  <2> QED
    BY <1>1, <1>5, <2>1
<1>6. FilesInTime'
  BY <1>1, <1>4, <1>5 DEF Inv, FilesInTime
<1> QED
  BY <1>2, <1>3, <1>6 DEF Inv

\* A restart forgets all jobs and what waited for them; nothing renders.
LEMMA RestartStep == Inv /\ Restart => Inv'
<1> SUFFICES ASSUME Inv, Restart PROVE Inv'
  OBVIOUS
<1> USE DEF Restart
<1>1. TypeOK'
  BY DEF Inv, TypeOK, InFlight
<1>2. SlotMatchesRender' /\ KeysMatchJobs' /\ NewIsUnknown' /\ FilesInTime'
  BY NullAssumption DEF SlotMatchesRender, KeysMatchJobs, NewIsUnknown, FilesInTime
<1>3. Answered'
  BY DEF Inv, TypeOK, Answered, InFlight
<1> QED
  BY <1>1, <1>2, <1>3 DEF Inv

\* Every step keeps the invariant.
LEMMA InvNext == Inv /\ [Next]_vars => Inv'
<1> SUFFICES ASSUME Inv, [Next]_vars PROVE Inv'
  OBVIOUS
<1>1. CASE UNCHANGED vars
  BY <1>1 DEF vars, Inv, TypeOK, SlotMatchesRender, KeysMatchJobs, Answered,
              NewIsUnknown, FilesInTime
<1>2. ASSUME NEW c \in Calls, Step(c) PROVE Inv'
  BY <1>2, RefuseStep, StartStep, RenderStep, SettleStep, EndStep DEF Step
<1> QED
  BY <1>1, <1>2, TickStep, RestartStep DEF Next

-----------------------------------------------------------------------------
\* The inductive invariant holds throughout.
THEOREM Invariance == Spec => []Inv
BY InvInit, InvNext, PTL DEF Spec

\* The reachable states are of the declared types.
THEOREM TypeCorrect == Spec => []TypeOK
<1>1. Inv => TypeOK
  BY DEF Inv
<1> QED
  BY <1>1, Invariance, PTL

\* The slot is taken exactly while something renders, and only one job does.
THEOREM SlotMatches == Spec => []SlotMatchesRender
<1>1. Inv => SlotMatchesRender
  BY DEF Inv
<1> QED
  BY <1>1, Invariance, PTL

\* The two maps of the registry agree through pruning, failure and restart.
THEOREM KeysMatch == Spec => []KeysMatchJobs
<1>1. Inv => KeysMatchJobs
  BY DEF Inv
<1> QED
  BY <1>1, Invariance, PTL

\* A call's answer is an export of its key and intent that is no longer made.
THEOREM AnswersOwn == Spec => []AnswersOwnExport
<1>1. Inv => AnswersOwnExport
  BY DEF Inv, Answered, SlotMatchesRender, AnswersOwnExport, InFlight
<1> QED
  BY <1>1, Invariance, PTL

\* A job's file is there while the job offers it, up to the time the write
\* itself took, for any lifetime.
THEOREM FileOutlives == Spec => []FileOutlivesOffer
<1>1. Inv => FileOutlivesOffer
  BY DEF Inv, FilesInTime, FileOutlivesOffer
<1> QED
  BY <1>1, Invariance, PTL

\* Only a registry without room turns a call with a new key away.
LEMMA OnlyBusyRefuses ==
    ASSUME Inv, [Next]_vars, NEW c \in Calls,
           calls[c] = "new", calls'[c] = "failed", Previous(c) = Null
    PROVE  NoRoom
<1>1. \A d \in Calls : \A how : Ended(d, how) /\ calls'[c] # "new" => d = c /\ how = calls'[c]
  BY DEF Ended, Inv, TypeOK
<1>2. ASSUME NEW d \in Calls, Step(d) PROVE Busy(c)
  <2>1. CASE Replay(d) \/ Start(d) \/ Answer(d)
    <3>1. \E how \in {"waiting", "rendering", "accepted"} : Ended(d, how)
      BY <2>1 DEF Replay, Start, Answer
    <3> QED
      BY <3>1, <1>1
  <2>3. CASE Conflict(d) \/ Busy(d)
    <3>1. Ended(d, "failed")
      BY <2>3 DEF Conflict, Busy
    <3>2. d = c
      BY <3>1, <1>1
    <3> QED
      BY <2>3, <3>2 DEF Conflict
  <2>2. CASE Cleanup(d) \/ WriteFile(d) \/ Complete(d) \/ FailRender(d) \/ Release(d)
    BY <2>2 DEF Cleanup, WriteFile, Complete, FailRender, Release
  <2> QED
    BY <1>2, <2>1, <2>2, <2>3 DEF Step
<1>3. ~Tick /\ ~Restart /\ ~UNCHANGED vars
  BY DEF Tick, Restart, vars, InFlight
<1> QED
  BY <1>2, <1>3 DEF Next, Busy

\* Expired exports never keep a call from being served.
THEOREM RefusesWhenBusy == Spec => RefusedWhenBusy
<1>1. ASSUME Inv, NoRoom
      PROVE  running \/ Cardinality({d \in Calls : jobs[d] # Null
                                         /\ jobs[d].expiresAt > clock}) >= Capacity
  <2>1. CASE ~running
    <3>1. \A d \in Calls : jobs[d] # Null => jobs[d].status # "processing"
      BY <1>1, <2>1 DEF Inv, SlotMatchesRender
    <3>2. \A d \in Calls : PrunedJobs[d] # Null
                              <=> jobs[d] # Null /\ jobs[d].expiresAt > clock
      BY <1>1, <3>1 DEF PrunedJobs, Expired, Inv, TypeOK, Job
    <3>3. {d \in Calls : PrunedJobs[d] # Null}
            = {d \in Calls : jobs[d] # Null /\ jobs[d].expiresAt > clock}
      BY <3>2
    <3> QED
      BY <1>1, <2>1, <3>3 DEF NoRoom, Remembered
  <2> QED
    BY <2>1
<1>2. Inv /\ [Next]_vars =>
        [\A c \in Calls :
          (calls[c] = "new" /\ calls'[c] = "failed" /\ Previous(c) = Null)
          => running \/ Cardinality({d \in Calls : /\ jobs[d] # Null
                                                   /\ jobs[d].expiresAt > clock})
                            >= Capacity]_vars
  BY <1>1, OnlyBusyRefuses
<1> QED
  BY <1>2, Invariance, PTL DEF Spec, RefusedWhenBusy

=============================================================================
