-------------------------------- MODULE Jobs --------------------------------
(***************************************************************************)
(* Background jobs: the row the API commits (services/jobs.py), the        *)
(* message it then hands to the broker, and the Celery worker that runs it *)
(* (workers/tasks.py): ping, and the export of a day sheet to object       *)
(* storage.                                                                *)
(*                                                                         *)
(* Celery's defaults apply: a message is acknowledged when its task        *)
(* starts, so a worker that dies takes it along; a message that waits too  *)
(* long in a worker's prefetch, or whose publication is retried, is        *)
(* delivered twice.  A session keeps the row it has loaded, and a commit   *)
(* writes only the columns whose value the task has changed.               *)
(***************************************************************************)
EXTENDS Naturals

CONSTANTS
  Jobs,        \* one per POST: its job row and its message
  Exports,     \* the jobs that are exports; the others are pings
  Workers,     \* worker processes, each running one task at a time
  MaxCopies,   \* bound: deliveries of one message
  Nothing      \* the job of an idle worker

ASSUME JobsAssumption ==
  /\ Exports \subseteq Jobs
  /\ Nothing \notin Jobs
  /\ MaxCopies \in Nat

VARIABLES
  table,     \* jobs: status, and whether result_url and error are set
  api,       \* where the POST of each job is
  queue,     \* copies of its message the broker holds
  copies,    \* copies it was ever given
  files,     \* exports whose workbook is in the object storage
  worker,    \* what each worker runs: step, job, the status it loaded, its result
  died,      \* jobs one of whose runs was cut off (history)
  raised     \* jobs one of whose runs ended in an exception (history)

vars == <<table, api, queue, copies, files, worker, died, raised>>

Finished == {"done", "failed"}
Statuses == {"none", "queued", "running"} \cup Finished
Idle == [at |-> "idle", job |-> Nothing, seen |-> "none", result |-> "none"]

Init ==
  /\ table = [j \in Jobs |-> [status |-> "none", url |-> FALSE, error |-> FALSE]]
  /\ api = [j \in Jobs |-> "idle"]
  /\ queue = [j \in Jobs |-> 0] /\ copies = [j \in Jobs |-> 0]
  /\ files = {} /\ died = {} /\ raised = {}
  /\ worker = [w \in Workers |-> Idle]

-----------------------------------------------------------------------------
\* create_job: the row is committed before anything is handed over.
Create(j) ==
  /\ api[j] = "idle"
  /\ api' = [api EXCEPT ![j] = "created"]
  /\ table' = [table EXCEPT ![j].status = "queued"]
  /\ UNCHANGED <<queue, copies, files, worker, died, raised>>

Send(j) ==
  /\ queue' = [queue EXCEPT ![j] = @ + 1]
  /\ copies' = [copies EXCEPT ![j] = @ + 1]

\* ping.delay, export_task.delay; then the client gets 202 and the id.
HandOver(j) ==
  /\ api[j] = "created"
  /\ api' = [api EXCEPT ![j] = "accepted"]
  /\ Send(j)
  /\ UNCHANGED <<table, files, worker, died, raised>>

\* delay raises, or the API dies: the client gets no id, the row stays, and
\* the broker may have taken the message or not.
HandOverFails(j) ==
  /\ api[j] = "created"
  /\ api' = [api EXCEPT ![j] = "error"]
  /\ Send(j) \/ UNCHANGED <<queue, copies>>
  /\ UNCHANGED <<table, files, worker, died, raised>>

\* A message nobody has started yet is given out again.
Redeliver(j) ==
  /\ queue[j] > 0 /\ copies[j] < MaxCopies
  /\ Send(j)
  /\ UNCHANGED <<table, api, files, worker, died, raised>>

-----------------------------------------------------------------------------
\* Mutant of LeaveAlone: run_ping without its check.
LeaveOnlyMissing(j) == table[j].status = "none"

\* No such row; or a ping that is finished ("left untouched").  An export is
\* run again whatever its row says.
LeaveAlone(j) ==
  \/ table[j].status = "none"
  \/ j \notin Exports /\ table[j].status \in Finished

\* A worker takes a message, acknowledges it and loads the row.
Take(w, j) ==
  /\ worker[w].at = "idle" /\ queue[j] > 0
  /\ queue' = [queue EXCEPT ![j] = @ - 1]
  /\ worker' = [worker EXCEPT ![w] =
       IF LeaveAlone(j) THEN Idle
       ELSE [at |-> "start", job |-> j, seen |-> table[j].status, result |-> "none"]]
  /\ UNCHANGED <<table, api, copies, files, died, raised>>

\* status = "running"; commit.  If the loaded row said so already nothing is
\* written.
Start(w) ==
  LET j == worker[w].job IN
  /\ worker[w].at = "start"
  /\ table' = IF worker[w].seen = "running" THEN table
              ELSE [table EXCEPT ![j].status = "running"]
  /\ worker' = [worker EXCEPT ![w].at = IF j \in Exports THEN "read" ELSE "save",
                              ![w].result = IF j \in Exports THEN "none" ELSE "done"]
  /\ UNCHANGED <<api, queue, copies, files, died, raised>>

Goto(w, at, result) == worker' = [worker EXCEPT ![w].at = at, ![w].result = result]

\* Mutant of Caught: the except clause forgets to set the status.
CaughtSilently(w) == Goto(w, "save", "running")

\* except Exception: the failure becomes the result to record.
Caught(w) == Goto(w, "save", "failed")

\* get_day_sheet and the workbook; an error that is not the database's.
ReadSheet(w) ==
  /\ worker[w].at = "read"
  /\ Goto(w, "upload", "none") \/ Caught(w)
  /\ UNCHANGED <<table, api, queue, copies, files, died, raised>>

\* A statement of get_day_sheet fails: the exception is caught, but the
\* transaction is aborted and the commit of the failure raises in its turn.
ReadError(w) ==
  /\ worker[w].at = "read"
  /\ worker' = [worker EXCEPT ![w] = Idle]
  /\ raised' = raised \cup {worker[w].job}
  /\ UNCHANGED <<table, api, queue, copies, files, died>>

\* Mutant of Uploaded: the URL is signed for a file that was not stored.
UploadedNothing(w) == files

Uploaded(w) == files \cup {worker[w].job}

\* ensure_bucket, put_bytes, presigned_get_url: the storage may fail before
\* or after it has the file.
Upload(w) ==
  /\ worker[w].at = "upload"
  /\ \/ Goto(w, "save", "done") /\ files' = Uploaded(w)
     \/ Caught(w) /\ files' \in {files, Uploaded(w)}
  /\ UNCHANGED <<table, api, queue, copies, died, raised>>

\* The last commit of the task.
Save(w) ==
  LET j == worker[w].job  result == worker[w].result IN
  /\ worker[w].at = "save"
  /\ table' = [table EXCEPT ![j].status = result,
                            ![j].url = @ \/ (result = "done" /\ j \in Exports),
                            ![j].error = @ \/ result = "failed"]
  /\ worker' = [worker EXCEPT ![w] = Idle]
  /\ UNCHANGED <<api, queue, copies, files, died, raised>>

\* The worker process is killed, or it loses the database, and comes back.
Die(w) ==
  /\ worker[w].at # "idle"
  /\ worker' = [worker EXCEPT ![w] = Idle]
  /\ died' = died \cup {worker[w].job}
  /\ UNCHANGED <<table, api, queue, copies, files, raised>>

Work(w) ==
  (\E j \in Jobs : Take(w, j)) \/ Start(w) \/ ReadSheet(w) \/ Upload(w) \/ Save(w)

\* Nothing left to do.
Rest ==
  /\ \A j \in Jobs : api[j] \in {"accepted", "error"} /\ queue[j] = 0
  /\ worker = [w \in Workers |-> Idle]
  /\ UNCHANGED vars

Next ==
  \/ \E j \in Jobs : Create(j) \/ HandOver(j) \/ HandOverFails(j) \/ Redeliver(j)
  \/ \E w \in Workers : Work(w) \/ ReadError(w) \/ Die(w)
  \/ Rest

Spec == Init /\ [][Next]_vars

\* Workers take messages and carry their tasks on; no client has to post,
\* and nothing has to fail.
FairSpec == Spec /\ \A w \in Workers : WF_vars(Work(w))

-----------------------------------------------------------------------------
TypeOK ==
  /\ table \in [Jobs -> [status : Statuses, url : BOOLEAN, error : BOOLEAN]]
  /\ api \in [Jobs -> {"idle", "created", "accepted", "error"}]
  /\ queue \in [Jobs -> Nat] /\ copies \in [Jobs -> Nat]
  /\ files \subseteq Exports /\ died \subseteq Jobs /\ raised \subseteq Jobs
  /\ worker \in [Workers ->
       [at : {"idle", "start", "read", "upload", "save"}, job : Jobs \cup {Nothing},
        seen : Statuses, result : {"none"} \cup Finished]]

Running(j) == \E w \in Workers : worker[w].at # "idle" /\ worker[w].job = j
CutShort(j) == j \in died \cup raised

\* A job whose client got its id, and that is not finished, still has a
\* message or a worker, unless one of its runs was cut off: no message is
\* swallowed, and no status but the last is left behind by a run that ended.
NoSilentStall ==
  \A j \in Jobs :
    api[j] = "accepted" /\ table[j].status \notin Finished =>
      queue[j] > 0 \/ Running(j) \/ CutShort(j)

\* What a poll shows is so: a done export has a URL to a file that is there,
\* a failed job has an error, and unless the message came twice a done job
\* has no error and a failed one no URL.
OutcomeIsTrue ==
  \A j \in Jobs :
    /\ table[j].status = "done" /\ j \in Exports => table[j].url /\ j \in files
    /\ table[j].status = "failed" => table[j].error
    /\ copies[j] <= 1 => ~(table[j].url /\ table[j].error)

\* A row exists from the POST on.
Known == \A j \in Jobs : api[j] = "idle" <=> table[j].status = "none"

\* What a worker holds: a ping is only run if it was not finished when loaded,
\* only exports read and upload, and "done" of an export is about a stored file.
WorkersTruthful ==
  \A w \in Workers :
    LET t == worker[w] IN
    t.at # "idle" =>
      /\ t.job \in Jobs /\ copies[t.job] > 0
      /\ t.job \notin Exports => t.seen \notin Finished
      /\ t.at \in {"read", "upload"} => t.job \in Exports
      /\ t.at = "save" => t.result \in Finished
      /\ t.at = "save" /\ t.result = "done" /\ t.job \in Exports => t.job \in files

\* A message given out once is in the queue, or with one worker, or used up;
\* until it is used up its row has no outcome.
Once(j) ==
  /\ queue[j] <= copies[j]
  /\ api[j] \in {"idle", "created"} => copies[j] = 0
  /\ copies[j] <= 1 =>
       /\ queue[j] > 0 => ~Running(j)
       /\ copies[j] = 0 \/ queue[j] > 0 \/ Running(j) => ~table[j].url /\ ~table[j].error
       /\ \A v, w \in Workers :
            /\ worker[v].at # "idle" /\ worker[v].job = j
            /\ worker[w].at # "idle" /\ worker[w].job = j
            => v = w

OnceAtMost == \A j \in Jobs : Once(j)

\* The invariant behind the theorems of JobsProofs: all of the above.
JobsInv ==
  /\ TypeOK /\ Known /\ WorkersTruthful /\ OnceAtMost
  /\ NoSilentStall /\ OutcomeIsTrue

\* "A job already finished is left untouched" (jobs.py:33) holds but for runs
\* that overlap: a finished ping is reopened only by a run that loaded the
\* row before it was finished.
OnlyOverlapReopens ==
  [][\A j \in Jobs \ Exports :
       table[j].status \in Finished /\ table'[j].status # table[j].status =>
         \E w \in Workers : worker[w].job = j /\ worker[w].seen \notin Finished]_vars

\* An accepted job comes to rest as done or failed, under any redelivery,
\* unless one of its runs was cut off.
AcceptedJobsSettle ==
  \A j \in Jobs :
    api[j] = "accepted" ~> [](table[j].status \in Finished \/ CutShort(j))

-----------------------------------------------------------------------------
(* What a comment says and the code does not keep.                         *)

\* "Record failure on the job, don't crash the worker" (tasks.py:52).
FailureIsRecorded == \A j \in raised : table[j].status = "failed"
=============================================================================
