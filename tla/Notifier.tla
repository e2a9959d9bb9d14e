------------------------------ MODULE Notifier ------------------------------
(***************************************************************************)
(* The Celery workers that run notify_status_change, next to the server    *)
(* that schedules it (JobService).  The task carries the job's id only: a  *)
(* worker reads the status when it runs.                                   *)
(*                                                                         *)
(* "idle"    waiting for a message                                         *)
(* "read"    took a task (Celery acknowledges it there), about to read the *)
(*           job                                                           *)
(* "get"     get_or_create: about to look the notification up              *)
(* "create"  get_or_create: not found, about to insert it                  *)
(* "send"    inserted, about to send                                       *)
(*                                                                         *)
(* The recipient is the job's customer, which never changes: a row is      *)
(* determined by its job and its kind.                                     *)
(***************************************************************************)
EXTENDS JobService

CONSTANTS
  Workers,     \* the worker processes of the "realtime" queue
  NoTask,      \* what an idle worker runs
  MaxRetries,  \* max_retries of the task
  MaxErrors    \* bound: how many exceptions the tasks raise

ASSUME NotifierAssumption == MaxRetries \in Nat /\ MaxErrors \in Nat

VARIABLES
  wpc,         \* where each worker is
  task,        \* what it runs: the job and the number of earlier attempts
  seen,        \* the status it read
  retry,       \* per job and attempt, the tasks that wait for their countdown
  rows,        \* the Notification table: per job, the kinds
  sent,        \* per job and kind, how often it has been sent
  errors       \* the exceptions so far

workerVars == <<wpc, task, seen, retry, rows, sent, errors>>
allVars == <<serviceVars, workerVars>>

STATUS_NOTIFICATION_KIND ==
  [ assigned  |-> "job_assigned",
    en_route  |-> "job_en_route",
    on_site   |-> "job_on_site",
    completed |-> "job_completed",
    cancelled |-> "job_cancelled" ]

Kinds == Range(STATUS_NOTIFICATION_KIND)
HasKind(s) == s \in DOMAIN STATUS_NOTIFICATION_KIND
Kind(s) == STATUS_NOTIFICATION_KIND[s]

NotifierInit ==
  /\ ServiceInit
  /\ wpc = [w \in Workers |-> "idle"]
  /\ task = [w \in Workers |-> NoTask]
  /\ seen = [w \in Workers |-> Absent]
  /\ retry = [p \in Jobs \X (1 .. MaxRetries) |-> 0]
  /\ rows = [j \in Jobs |-> {}]
  /\ sent = [p \in Jobs \X Kinds |-> 0]
  /\ errors = 0

-----------------------------------------------------------------------------
(* The broker hands out a task.                                            *)

Start(w, j, n) ==
  /\ wpc[w] = "idle"
  /\ wpc' = [wpc EXCEPT ![w] = "read"]
  /\ task' = [task EXCEPT ![w] = [job |-> j, attempt |-> n]]
  /\ UNCHANGED <<seen, rows, sent, errors, jobVars, threadVars, orgFeed, jobFeed>>

Take(w) == \E j \in Jobs :
  /\ queue[j] > 0
  /\ queue' = [queue EXCEPT ![j] = @ - 1]
  /\ UNCHANGED retry
  /\ Start(w, j, 0)

TakeRetry(w) == \E j \in Jobs, n \in 1 .. MaxRetries :
  /\ retry[<<j, n>>] > 0
  /\ retry' = [retry EXCEPT ![<<j, n>>] = @ - 1]
  /\ UNCHANGED queue
  /\ Start(w, j, n)

-----------------------------------------------------------------------------
(* The task.                                                               *)

EndTask(w) ==
  /\ wpc' = [wpc EXCEPT ![w] = "idle"]
  /\ task' = [task EXCEPT ![w] = NoTask]
  /\ seen' = [seen EXCEPT ![w] = Absent]

\* Job.objects.get; a status without a kind ends the task.
ReadJob(w) ==
  LET s == status[task[w].job]
  IN  /\ wpc[w] = "read"
      /\ \/ /\ ~HasKind(s)
            /\ EndTask(w)
         \/ /\ HasKind(s)
            /\ wpc' = [wpc EXCEPT ![w] = "get"]
            /\ seen' = [seen EXCEPT ![w] = s]
            /\ UNCHANGED task
      /\ UNCHANGED <<retry, rows, sent, errors, serviceVars>>

\* Whether the row get_or_create looks for is there.  The mutant leaves the
\* kind out of the lookup.
HasAnyRow(j, s) == rows[j] # {}
HasRow(j, s) == Kind(s) \in rows[j]

\* The SELECT of get_or_create.
Get(w) ==
  /\ wpc[w] = "get"
  /\ \/ /\ HasRow(task[w].job, seen[w])
        /\ EndTask(w)
     \/ /\ ~HasRow(task[w].job, seen[w])
        /\ wpc' = [wpc EXCEPT ![w] = "create"]
        /\ UNCHANGED <<task, seen>>
  /\ UNCHANGED <<retry, rows, sent, errors, serviceVars>>

\* Its INSERT.  If another worker was faster the unique constraint refuses it
\* and get_or_create returns the other's row with created = False.  The mutant
\* are a table without the constraint, and a test of created the wrong way round.
CreateUnconstrained(w) ==
  /\ wpc[w] = "create"
  /\ rows' = [rows EXCEPT ![task[w].job] = @ \union {Kind(seen[w])}]
  /\ wpc' = [wpc EXCEPT ![w] = "send"]
  /\ UNCHANGED <<task, seen, retry, sent, errors, serviceVars>>

CreateTestedWrong(w) ==
  /\ wpc[w] = "create"
  /\ \/ /\ Kind(seen[w]) \in rows[task[w].job]
        /\ wpc' = [wpc EXCEPT ![w] = "send"]
        /\ UNCHANGED <<task, seen, rows>>
     \/ /\ Kind(seen[w]) \notin rows[task[w].job]
        /\ rows' = [rows EXCEPT ![task[w].job] = @ \union {Kind(seen[w])}]
        /\ EndTask(w)
  /\ UNCHANGED <<retry, sent, errors, serviceVars>>

CreateRow(w) ==
  /\ wpc[w] = "create"
  /\ \/ /\ Kind(seen[w]) \in rows[task[w].job]
        /\ EndTask(w)
        /\ UNCHANGED rows
     \/ /\ Kind(seen[w]) \notin rows[task[w].job]
        /\ rows' = [rows EXCEPT ![task[w].job] = @ \union {Kind(seen[w])}]
        /\ wpc' = [wpc EXCEPT ![w] = "send"]
        /\ UNCHANGED <<task, seen>>
  /\ UNCHANGED <<retry, sent, errors, serviceVars>>

\* The e-mail or SMS; a log line in this repository.
Send(w) ==
  /\ wpc[w] = "send"
  /\ sent' = [sent EXCEPT ![<<task[w].job, Kind(seen[w])>>] = @ + 1]
  /\ EndTask(w)
  /\ UNCHANGED <<retry, rows, errors, serviceVars>>

-----------------------------------------------------------------------------
(* Failures.                                                               *)

\* autoretry_for=(Exception,), max_retries: the attempt that has used them up
\* fails for good.  The mutant counts the first attempt as a retry.
MayRetryCountingFirst(n) == n + 1 < MaxRetries
MayRetry(n) == n < MaxRetries

\* A statement or the send raises; what was inserted stays inserted.
Raise(w) ==
  LET j == task[w].job
      n == task[w].attempt
  IN  /\ wpc[w] # "idle"
      /\ errors < MaxErrors
      /\ errors' = errors + 1
      /\ retry' = IF MayRetry(n) THEN [retry EXCEPT ![<<j, n + 1>>] = @ + 1] ELSE retry
      /\ EndTask(w)
      /\ UNCHANGED <<rows, sent, serviceVars>>

\* The process dies.  The message was acknowledged when it was taken, so the
\* task is gone.
Crash(w) ==
  /\ Fault
  /\ wpc[w] # "idle"
  /\ EndTask(w)
  /\ UNCHANGED <<retry, rows, sent, errors, jobVars, pc, req, from, outVars>>

\* The broker delivers a message twice.
Duplicate(j) ==
  /\ Fault
  /\ queue[j] > 0
  /\ queue' = [queue EXCEPT ![j] = @ + 1]
  /\ UNCHANGED <<workerVars, jobVars, pc, req, from, orgFeed, jobFeed>>

-----------------------------------------------------------------------------

Work(w) == ReadJob(w) \/ Get(w) \/ CreateRow(w) \/ Send(w)

NotifierNext ==
  \/ ServiceNext /\ UNCHANGED workerVars
  \/ \E w \in Workers : Take(w) \/ TakeRetry(w) \/ Work(w) \/ Raise(w) \/ Crash(w)
  \/ \E j \in Jobs : Duplicate(j)

NotifierSpec == NotifierInit /\ [][NotifierNext]_allVars

\* The fairness of the server, and of a pool that keeps running: a worker ends
\* what it took, and the pool takes what waits.
NotifierFairness ==
  /\ \A r \in Requests :
       /\ SF_allVars(SelectForUpdate(r) /\ UNCHANGED workerVars)
       /\ WF_allVars(Serve(r) /\ UNCHANGED workerVars)
  /\ \A w \in Workers : WF_allVars(Work(w))
  /\ WF_allVars(\E w \in Workers : Take(w))
  /\ WF_allVars(\E w \in Workers : TakeRetry(w))

FairNotifierSpec == NotifierSpec /\ NotifierFairness

-----------------------------------------------------------------------------
(* Properties.                                                             *)

\* Types; there is a row only of a status that the job has had.
NotifierTypeOK ==
  /\ ServiceTypeOK
  /\ wpc \in [Workers -> {"idle", "read", "get", "create", "send"}]
  /\ task \in [Workers -> [job : Jobs, attempt : 0 .. MaxRetries] \union {NoTask}]
  /\ seen \in [Workers -> DOMAIN STATUS_NOTIFICATION_KIND \union {Absent}]
  /\ retry \in [Jobs \X (1 .. MaxRetries) -> Nat]
  /\ rows \in [Jobs -> SUBSET Kinds]
  /\ \A j \in Jobs : rows[j] \subseteq {Kind(s) : s \in Changes(j)}
  /\ sent \in [Jobs \X Kinds -> Nat]
  /\ errors \in 0 .. MaxErrors

\* The docstring of notify_status_change: "a retry or duplicate call is a no-op,
\* not a duplicate notification".  Whatever is repeated, raced or delivered
\* twice, the table and the messages change as NotificationLedger allows: a
\* customer gets at most one message of a kind about a job, after its row.
Promise == INSTANCE NotificationLedger WITH
  Items <- Jobs \X Kinds,
  recorded <- {p \in Jobs \X Kinds : p[2] \in rows[p[1]]},
  times <- sent

NotificationPromise == Promise!Spec

\* What a worker in "send" is about to send.
Sending(w) == <<task[w].job, Kind(seen[w])>>

\* What is recorded, was not sent, and has no worker left to send it.
Lost ==
  {p \in Jobs \X Kinds :
     /\ p[2] \in rows[p[1]]
     /\ sent[p] = 0
     /\ \A w \in Workers : wpc[w] = "send" => Sending(w) # p}

\* The row is inserted before the send, so a task that fails between the two has
\* lost its message: the retry finds the row and leaves.  That is the whole of
\* the loss: it takes a failure of its own for each message, and no race of two
\* workers over a row, no retry and no duplicate loses another.
LostByFailure == Cardinality(Lost) <= faults + errors

AtRest ==
  /\ \A r \in Requests : pc[r] \notin InCallback
  /\ \A w \in Workers : wpc[w] = "idle"
  /\ \A j \in Jobs : queue[j] = 0
  /\ \A p \in DOMAIN retry : retry[p] = 0

\* The task reads the status when it runs, so it may skip one that has passed,
\* but never the last: unless a process crashed, and as long as the tasks have
\* raised no more often than one of them may retry, the current status has its
\* notification when everything has come to rest.
CurrentStatusNotified ==
  AtRest /\ faults = 0 /\ errors <= MaxRetries =>
    \A j \in Jobs : HasKind(status[j]) => Kind(status[j]) \in rows[j]

\* Under the same conditions the customer of a job that is finished gets to
\* know: a terminal status leads to its notification.
EndIsNotified ==
  \A j \in Jobs, s \in {"completed", "cancelled"} :
    status[j] = s ~> Kind(s) \in rows[j] \/ faults > 0
=============================================================================
