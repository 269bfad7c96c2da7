------------------------------ MODULE JobsProofs ------------------------------
(***************************************************************************)
(* Jobs, for every set of jobs and workers and any number of deliveries:   *)
(* JobsInv is inductive, no accepted job stalls silently, what a poll      *)
(* shows is so, and only overlapping runs reopen a finished ping.          *)
(***************************************************************************)
EXTENDS Jobs, TLAPS

-----------------------------------------------------------------------------
(* JobsInv holds at first, and every action keeps each of its parts.       *)

\* JobsInv holds at first.
LEMMA InitInv == Init => JobsInv
BY JobsAssumption DEF Init, JobsInv, TypeOK, Known, WorkersTruthful, OnceAtMost, Once,
   NoSilentStall, OutcomeIsTrue, Running, Idle, Statuses, Finished

\* The commit of a POST keeps JobsInv (create_job).
LEMMA CreateKeeps ==
  ASSUME JobsInv, NEW j \in Jobs, Create(j)
  PROVE  JobsInv'
<1> USE DEF Create, JobsInv, Finished
<1>1. TypeOK'
  BY DEF TypeOK, Statuses
<1>2. Known'
  BY DEF TypeOK, Known, Statuses
<1>3. WorkersTruthful'
  BY DEF TypeOK, WorkersTruthful
<1>4. OnceAtMost'
  BY DEF TypeOK, OnceAtMost, Once, Running
<1>5. NoSilentStall'
  BY DEF TypeOK, NoSilentStall, Running, CutShort
<1>6. OutcomeIsTrue'
  BY DEF TypeOK, OutcomeIsTrue
<1> QED
  BY <1>1, <1>2, <1>3, <1>4, <1>5, <1>6

\* The hand-off to the broker keeps JobsInv (delay).
LEMMA HandOverKeeps ==
  ASSUME JobsInv, NEW j \in Jobs, HandOver(j)
  PROVE  JobsInv'
<1> USE DEF HandOver, Send, JobsInv, Finished
<1>1. TypeOK'
  BY DEF TypeOK, Statuses
<1>2. Known'
  BY DEF TypeOK, Known, Statuses
<1>3. WorkersTruthful'
  BY DEF TypeOK, WorkersTruthful
<1>4. OnceAtMost'
  <2> SUFFICES ASSUME NEW k \in Jobs PROVE Once(k)'
    BY DEF OnceAtMost
  <2> Once(k)
    BY DEF OnceAtMost
  <2>1. CASE k = j
    <3>1. /\ copies[j] = 0 /\ queue[j] = 0 /\ ~table[j].url /\ ~table[j].error
      BY <2>1 DEF TypeOK, Once
    <3>2. ~Running(j)
      BY <3>1 DEF WorkersTruthful, Running
    <3>3. Running(j)' <=> Running(j)
      BY DEF Running
    <3> QED
      BY <2>1, <3>1, <3>2, <3>3 DEF TypeOK, Once, Running
  <2>2. CASE k # j
    BY <2>2 DEF TypeOK, Once, Running
  <2> QED
    BY <2>1, <2>2
<1>5. NoSilentStall'
  BY DEF TypeOK, NoSilentStall, Running, CutShort
<1>6. OutcomeIsTrue'
  BY DEF TypeOK, OutcomeIsTrue
<1> QED
  BY <1>1, <1>2, <1>3, <1>4, <1>5, <1>6

\* A failed hand-off keeps JobsInv: the client is told of an error.
LEMMA HandOverFailsKeeps ==
  ASSUME JobsInv, NEW j \in Jobs, HandOverFails(j)
  PROVE  JobsInv'
<1> USE DEF HandOverFails, Send, JobsInv, Finished
<1>1. TypeOK'
  BY DEF TypeOK, Statuses
<1>2. Known'
  BY DEF TypeOK, Known, Statuses
<1>3. WorkersTruthful'
  BY DEF TypeOK, WorkersTruthful
<1>4. OnceAtMost'
  <2> SUFFICES ASSUME NEW k \in Jobs PROVE Once(k)'
    BY DEF OnceAtMost
  <2> Once(k)
    BY DEF OnceAtMost
  <2>1. CASE k = j
    <3>1. /\ copies[j] = 0 /\ queue[j] = 0 /\ ~table[j].url /\ ~table[j].error
      BY <2>1 DEF TypeOK, Once
    <3>2. ~Running(j)
      BY <3>1 DEF WorkersTruthful, Running
    <3>3. Running(j)' <=> Running(j)
      BY DEF Running
    <3> QED
      BY <2>1, <3>1, <3>2, <3>3 DEF TypeOK, Once, Running
  <2>2. CASE k # j
    BY <2>2 DEF TypeOK, Once, Running
  <2> QED
    BY <2>1, <2>2
<1>5. NoSilentStall'
  BY DEF TypeOK, NoSilentStall, Running, CutShort
<1>6. OutcomeIsTrue'
  BY DEF TypeOK, OutcomeIsTrue
<1> QED
  BY <1>1, <1>2, <1>3, <1>4, <1>5, <1>6

\* A second delivery keeps JobsInv.
LEMMA RedeliverKeeps ==
  ASSUME JobsInv, NEW j \in Jobs, Redeliver(j)
  PROVE  JobsInv'
<1> USE DEF Redeliver, Send, JobsInv, Finished
<1>1. TypeOK'
  BY DEF TypeOK, Statuses
<1>2. Known'
  BY DEF TypeOK, Known, Statuses
<1>3. WorkersTruthful'
  BY DEF TypeOK, WorkersTruthful
<1>4. OnceAtMost'
  <2> SUFFICES ASSUME NEW k \in Jobs PROVE Once(k)'
    BY DEF OnceAtMost
  <2> Once(k)
    BY DEF OnceAtMost
  <2>1. CASE k = j
    BY <2>1 DEF TypeOK, Once, Running
  <2>2. CASE k # j
    BY <2>2 DEF TypeOK, Once, Running
  <2> QED
    BY <2>1, <2>2
<1>5. NoSilentStall'
  BY DEF TypeOK, NoSilentStall, Running, CutShort
<1>6. OutcomeIsTrue'
  BY DEF TypeOK, OutcomeIsTrue
<1> QED
  BY <1>1, <1>2, <1>3, <1>4, <1>5, <1>6

\* The receipt of a message keeps JobsInv (the worker loads the row).
LEMMA TakeKeeps ==
  ASSUME JobsInv, NEW w \in Workers, NEW j \in Jobs, Take(w, j)
  PROVE  JobsInv'
<1> USE DEF Take, LeaveAlone, Idle, JobsInv, Finished
<1>1. TypeOK'
  BY DEF TypeOK, Statuses
<1>2. Known'
  BY DEF TypeOK, Known, Statuses
<1>3. WorkersTruthful'
  BY DEF TypeOK, WorkersTruthful, OnceAtMost, Once
<1>4. OnceAtMost'
  <2> SUFFICES ASSUME NEW k \in Jobs PROVE Once(k)'
    BY DEF OnceAtMost
  <2> Once(k)
    BY DEF OnceAtMost
  <2>1. CASE k = j
    BY <2>1 DEF TypeOK, Once, Running
  <2>2. CASE k # j
    BY <2>2 DEF TypeOK, Once, Running
  <2> QED
    BY <2>1, <2>2
<1>5. NoSilentStall'
  BY DEF TypeOK, Known, NoSilentStall, Running, CutShort
<1>6. OutcomeIsTrue'
  BY DEF TypeOK, OutcomeIsTrue
<1> QED
  BY <1>1, <1>2, <1>3, <1>4, <1>5, <1>6

\* A step within a task: the worker keeps its job, the others are as before.
LEMMA GotoFrame ==
  ASSUME TypeOK, NEW w \in Workers, worker[w].at # "idle",
         NEW at \in {"start", "read", "upload", "save"}, NEW result \in {"none"} \cup Finished,
         Goto(w, at, result)
  PROVE  /\ worker'[w] = [worker[w] EXCEPT !.at = at, !.result = result]
         /\ worker'[w].at = at /\ worker'[w].result = result
         /\ worker'[w].job = worker[w].job /\ worker'[w].seen = worker[w].seen
         /\ \A v \in Workers \ {w} : worker'[v] = worker[v]
         /\ worker' \in [Workers ->
              [at : {"idle", "start", "read", "upload", "save"}, job : Jobs \cup {Nothing},
               seen : Statuses, result : {"none"} \cup Finished]]
         /\ \A j \in Jobs : Running(j)' <=> Running(j)
<1>1. worker[w] \in [at : {"idle", "start", "read", "upload", "save"}, job : Jobs \cup {Nothing},
                     seen : Statuses, result : {"none"} \cup Finished]
  BY DEF TypeOK
<1>2. worker'[w] = [worker[w] EXCEPT !.at = at, !.result = result]
  BY DEF TypeOK, Goto
<1>3. /\ worker'[w].at = at /\ worker'[w].result = result
      /\ worker'[w].job = worker[w].job /\ worker'[w].seen = worker[w].seen
  BY <1>1, <1>2
<1>4. \A v \in Workers \ {w} : worker'[v] = worker[v]
  BY DEF TypeOK, Goto
<1>5. worker' \in [Workers ->
        [at : {"idle", "start", "read", "upload", "save"}, job : Jobs \cup {Nothing},
         seen : Statuses, result : {"none"} \cup Finished]]
  BY <1>1 DEF TypeOK, Goto
<1>6. \A j \in Jobs : Running(j)' <=> Running(j)
  BY <1>3, <1>4 DEF Running
<1> QED
  BY <1>2, <1>3, <1>4, <1>5, <1>6

\* The commit of "running" keeps JobsInv.
LEMMA StartKeeps ==
  ASSUME JobsInv, NEW w \in Workers, Start(w)
  PROVE  JobsInv'
<1> USE DEF Start, JobsInv, Finished
<1>1. TypeOK'
  <2>1. worker[w].job \in Jobs
    BY DEF WorkersTruthful
  <2>2. table' \in [Jobs -> [status : Statuses, url : BOOLEAN, error : BOOLEAN]]
    BY <2>1 DEF TypeOK, Statuses
  <2>3. worker' \in [Workers ->
          [at : {"idle", "start", "read", "upload", "save"}, job : Jobs \cup {Nothing},
           seen : Statuses, result : {"none"} \cup Finished]]
    <3>0. worker[w].at # "idle"
      OBVIOUS
    <3>1. CASE worker[w].job \in Exports
      <4>1. Goto(w, "read", "none")
        BY <3>1 DEF Goto
      <4> QED
        BY <3>0, <4>1, GotoFrame
    <3>2. CASE worker[w].job \notin Exports
      <4>1. Goto(w, "save", "done")
        BY <3>2 DEF Goto
      <4> QED
        BY <3>0, <4>1, GotoFrame
    <3> QED
      BY <3>1, <3>2
  <2> QED
    BY <2>2, <2>3 DEF TypeOK
<1>2. Known'
  BY DEF TypeOK, Known, Statuses, WorkersTruthful, OnceAtMost, Once
<1>3. WorkersTruthful'
  BY DEF TypeOK, WorkersTruthful
<1>4. OnceAtMost'
  <2> SUFFICES ASSUME NEW k \in Jobs PROVE Once(k)'
    BY DEF OnceAtMost
  <2> Once(k)
    BY DEF OnceAtMost
  <2>1. CASE k = worker[w].job
    BY <2>1 DEF TypeOK, Once, Running, WorkersTruthful
  <2>2. CASE k # worker[w].job
    BY <2>2 DEF TypeOK, Once, Running
  <2> QED
    BY <2>1, <2>2
<1>5. NoSilentStall'
  BY DEF TypeOK, NoSilentStall, Running, CutShort
<1>6. OutcomeIsTrue'
  BY DEF TypeOK, OutcomeIsTrue, WorkersTruthful
<1> QED
  BY <1>1, <1>2, <1>3, <1>4, <1>5, <1>6

\* A step within a task keeps the invariant if what it is about to save is true.
LEMMA GoOnKeeps ==
  ASSUME JobsInv, NEW w \in Workers, worker[w].at # "idle",
         NEW at \in {"upload", "save"}, NEW result \in {"none"} \cup Finished,
         Goto(w, at, result),
         UNCHANGED <<table, api, queue, copies, died, raised>>,
         files \subseteq files', files' \subseteq Exports,
         at = "save" => result \in Finished,
         at = "upload" => worker[w].job \in Exports,
         worker[w].job \in Exports /\ result = "done" => worker[w].job \in files'
  PROVE  JobsInv'
<1> USE DEF JobsInv
<1>0. /\ worker'[w].at = at /\ worker'[w].result = result
      /\ worker'[w].job = worker[w].job /\ worker'[w].seen = worker[w].seen
      /\ \A v \in Workers \ {w} : worker'[v] = worker[v]
      /\ worker' \in [Workers ->
           [at : {"idle", "start", "read", "upload", "save"}, job : Jobs \cup {Nothing},
            seen : Statuses, result : {"none"} \cup Finished]]
      /\ \A j \in Jobs : Running(j)' <=> Running(j)
  BY GotoFrame
<1>1. TypeOK'
  BY <1>0 DEF TypeOK
<1>2. Known'
  BY DEF Known
<1>3. WorkersTruthful'
  BY <1>0 DEF WorkersTruthful
<1>4. OnceAtMost'
  <2> SUFFICES ASSUME NEW k \in Jobs PROVE Once(k)'
    BY DEF OnceAtMost
  <2>1. Once(k)
    BY DEF OnceAtMost
  <2>2. \A v \in Workers : /\ worker'[v].at # "idle" <=> worker[v].at # "idle"
                            /\ worker'[v].job = worker[v].job
    BY <1>0
  <2> QED
    BY <1>0, <2>1, <2>2 DEF Once
<1>5. NoSilentStall'
  BY <1>0 DEF NoSilentStall, CutShort
<1>6. OutcomeIsTrue'
  BY DEF OutcomeIsTrue
<1> QED
  BY <1>1, <1>2, <1>3, <1>4, <1>5, <1>6

\* Reading the day sheet for an export keeps JobsInv.
LEMMA ReadSheetKeeps ==
  ASSUME JobsInv, NEW w \in Workers, ReadSheet(w)
  PROVE  JobsInv'
<1>1. CASE Goto(w, "upload", "none")
  BY <1>1, GoOnKeeps DEF ReadSheet, JobsInv, TypeOK, WorkersTruthful, Finished
<1>2. CASE Caught(w)
  BY <1>2, GoOnKeeps DEF ReadSheet, Caught, JobsInv, TypeOK, WorkersTruthful, Finished
<1> QED
  BY <1>1, <1>2 DEF ReadSheet

\* Storing the file of an export keeps JobsInv.
LEMMA UploadKeeps ==
  ASSUME JobsInv, NEW w \in Workers, Upload(w)
  PROVE  JobsInv'
<1>1. CASE Goto(w, "save", "done") /\ files' = Uploaded(w)
  BY <1>1, GoOnKeeps DEF Upload, Uploaded, JobsInv, TypeOK, WorkersTruthful, Finished
<1>2. CASE Caught(w) /\ files' \in {files, Uploaded(w)}
  BY <1>2, GoOnKeeps DEF Upload, Uploaded, Caught, JobsInv, TypeOK, WorkersTruthful, Finished
<1> QED
  BY <1>1, <1>2 DEF Upload

\* The commit of the outcome keeps JobsInv: it is about a stored file.
LEMMA SaveKeeps ==
  ASSUME JobsInv, NEW w \in Workers, Save(w)
  PROVE  JobsInv'
<1> USE DEF Save, Idle, JobsInv, Finished
<1>1. TypeOK'
  BY DEF TypeOK, Statuses, WorkersTruthful
<1>2. Known'
  BY DEF TypeOK, Known, Statuses, WorkersTruthful, OnceAtMost, Once
<1>3. WorkersTruthful'
  BY DEF TypeOK, WorkersTruthful
<1>4. OnceAtMost'
  <2> SUFFICES ASSUME NEW k \in Jobs PROVE Once(k)'
    BY DEF OnceAtMost
  <2> Once(k)
    BY DEF OnceAtMost
  <2>1. CASE k = worker[w].job
    BY <2>1 DEF TypeOK, Once, Running, WorkersTruthful
  <2>2. CASE k # worker[w].job
    BY <2>2 DEF TypeOK, Once, Running
  <2> QED
    BY <2>1, <2>2
<1>5. NoSilentStall'
  <2>1. table'[worker[w].job].status \in Finished
    BY DEF TypeOK, WorkersTruthful
  <2>2. ASSUME NEW k \in Jobs, k # worker[w].job
        PROVE  table'[k] = table[k] /\ (Running(k) => Running(k)')
    BY <2>2 DEF TypeOK, Running
  <2> QED
    BY <2>1, <2>2 DEF TypeOK, NoSilentStall, CutShort
<1>6. OutcomeIsTrue'
  BY DEF TypeOK, OutcomeIsTrue, WorkersTruthful, OnceAtMost, Once, Running
<1> QED
  BY <1>1, <1>2, <1>3, <1>4, <1>5, <1>6

\* The death of a worker keeps JobsInv.
LEMMA DieKeeps ==
  ASSUME JobsInv, NEW w \in Workers, Die(w)
  PROVE  JobsInv'
<1> USE DEF Die, Idle, JobsInv, Finished
<1>1. TypeOK'
  BY DEF TypeOK, Statuses, WorkersTruthful
<1>2. Known'
  BY DEF TypeOK, Known, Statuses
<1>3. WorkersTruthful'
  BY DEF TypeOK, WorkersTruthful
<1>4. OnceAtMost'
  <2> SUFFICES ASSUME NEW k \in Jobs PROVE Once(k)'
    BY DEF OnceAtMost
  <2> Once(k)
    BY DEF OnceAtMost
  <2>1. CASE k = worker[w].job
    BY <2>1 DEF TypeOK, Once, Running, WorkersTruthful
  <2>2. CASE k # worker[w].job
    BY <2>2 DEF TypeOK, Once, Running
  <2> QED
    BY <2>1, <2>2
<1>5. NoSilentStall'
  BY DEF TypeOK, NoSilentStall, Running, CutShort
<1>6. OutcomeIsTrue'
  BY DEF TypeOK, OutcomeIsTrue, WorkersTruthful
<1> QED
  BY <1>1, <1>2, <1>3, <1>4, <1>5, <1>6

\* A failed statement, after which nothing can be recorded, keeps JobsInv.
LEMMA ReadErrorKeeps ==
  ASSUME JobsInv, NEW w \in Workers, ReadError(w)
  PROVE  JobsInv'
<1> USE DEF ReadError, Idle, JobsInv, Finished
<1>1. TypeOK'
  BY DEF TypeOK, Statuses, WorkersTruthful
<1>2. Known'
  BY DEF TypeOK, Known, Statuses
<1>3. WorkersTruthful'
  BY DEF TypeOK, WorkersTruthful
<1>4. OnceAtMost'
  <2> SUFFICES ASSUME NEW k \in Jobs PROVE Once(k)'
    BY DEF OnceAtMost
  <2> Once(k)
    BY DEF OnceAtMost
  <2>1. CASE k = worker[w].job
    BY <2>1 DEF TypeOK, Once, Running, WorkersTruthful
  <2>2. CASE k # worker[w].job
    BY <2>2 DEF TypeOK, Once, Running
  <2> QED
    BY <2>1, <2>2
<1>5. NoSilentStall'
  BY DEF TypeOK, NoSilentStall, Running, CutShort
<1>6. OutcomeIsTrue'
  BY DEF TypeOK, OutcomeIsTrue, WorkersTruthful
<1> QED
  BY <1>1, <1>2, <1>3, <1>4, <1>5, <1>6

-----------------------------------------------------------------------------
\* JobsInv is inductive.
LEMMA NextKeeps ==
  ASSUME JobsInv, [Next]_vars
  PROVE  JobsInv'
<1>1. CASE UNCHANGED vars
  BY <1>1 DEF vars, JobsInv, TypeOK, Known, WorkersTruthful, OnceAtMost, Once, NoSilentStall,
     OutcomeIsTrue, Running, CutShort
<1>2. ASSUME NEW j \in Jobs,
             Create(j) \/ HandOver(j) \/ HandOverFails(j) \/ Redeliver(j)
      PROVE  JobsInv'
  BY <1>2, CreateKeeps, HandOverKeeps, HandOverFailsKeeps, RedeliverKeeps
<1>3. ASSUME NEW w \in Workers, Work(w) \/ ReadError(w) \/ Die(w)
      PROVE  JobsInv'
  BY <1>3, TakeKeeps, StartKeeps, ReadSheetKeeps, UploadKeeps, SaveKeeps, ReadErrorKeeps, DieKeeps
     DEF Work
<1> QED
  BY <1>1, <1>2, <1>3 DEF Next, Rest

\* The inductive invariant of the jobs, for every set of jobs and workers and
\* any number of deliveries of each message.
THEOREM AlwaysJobsInv == Spec => []JobsInv
<1>1. JobsInv /\ [Next]_vars => JobsInv'
  BY NextKeeps
<1> QED
  BY InitInv, <1>1, PTL DEF Spec

\* Types of the table, the queue and the workers.
THEOREM TypeCorrect == Spec => []TypeOK
<1>1. JobsInv => TypeOK
  BY DEF JobsInv
<1> QED
  BY <1>1, AlwaysJobsInv, PTL

\* No message is swallowed: an accepted job that is not finished has a
\* message, or a worker, or a run that was cut off.
THEOREM NothingStalls == Spec => []NoSilentStall
<1>1. JobsInv => NoSilentStall
  BY DEF JobsInv
<1> QED
  BY <1>1, AlwaysJobsInv, PTL

\* What a poll of a job shows is so.
THEOREM PollsAreTrue == Spec => []OutcomeIsTrue
<1>1. JobsInv => OutcomeIsTrue
  BY DEF JobsInv
<1> QED
  BY <1>1, AlwaysJobsInv, PTL

\* A finished ping changes only under a run that loaded it unfinished.
LEMMA ReopenedByOverlap ==
  ASSUME JobsInv, [Next]_vars, NEW j \in Jobs \ Exports,
         table[j].status \in Finished, table'[j].status # table[j].status
  PROVE  \E w \in Workers : worker[w].job = j /\ worker[w].seen \notin Finished
<1> USE DEF JobsInv
<1>1. ASSUME NEW i \in Jobs, Create(i) PROVE FALSE
  <2>1. table[i].status = "none" /\ i # j
    BY <1>1 DEF Create, Known, Finished
  <2> QED
    BY <1>1, <2>1 DEF Create, TypeOK
<1>2. ASSUME NEW w \in Workers, Start(w) \/ Save(w)
      PROVE  worker[w].job = j /\ worker[w].seen \notin Finished
  <2>1. worker[w].at # "idle" /\ worker[w].job \in Jobs
    BY <1>2 DEF Start, Save, WorkersTruthful
  <2>2. worker[w].job = j
    BY <1>2, <2>1 DEF Start, Save, TypeOK
  <2> QED
    BY <2>1, <2>2 DEF WorkersTruthful
<1>3. \/ \E i \in Jobs : Create(i)
      \/ \E w \in Workers : Start(w) \/ Save(w)
  <2>1. table' # table
    OBVIOUS
  <2> QED
    BY <2>1 DEF Next, vars, HandOver, HandOverFails, Redeliver, Work, Take, ReadSheet, Upload,
       ReadError, Die, Rest
<1> QED
  BY <1>1, <1>2, <1>3

\* A ping that is done is left untouched but for overlapping runs.
THEOREM OnlyOverlaps == Spec => OnlyOverlapReopens
<1>1. JobsInv /\ [Next]_vars =>
        [\A j \in Jobs \ Exports :
           table[j].status \in Finished /\ table'[j].status # table[j].status =>
             \E w \in Workers : worker[w].job = j /\ worker[w].seen \notin Finished]_vars
  BY ReopenedByOverlap
<1> QED
  BY <1>1, AlwaysJobsInv, PTL DEF Spec, OnlyOverlapReopens
===============================================================================
