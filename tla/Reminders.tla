----------------------------- MODULE Reminders ------------------------------
(***************************************************************************)
(* send_upcoming_reminders, run by beat, next to the jobs API (JobLedger,  *)
(* whose steps are the requests).  A run takes a snapshot of the jobs that *)
(* are due and works through it; jobs change behind its back.              *)
(*                                                                         *)
(* The clock counts units of a few minutes; a run waits at most MaxLate    *)
(* units in the "realtime" queue and is through within a unit.             *)
(***************************************************************************)
EXTENDS JobLedger

CONSTANTS
  Workers,     \* the worker processes
  Window,      \* window_minutes, in units
  Period,      \* the task's period in CELERY_BEAT_SCHEDULE, in units
  MaxLate,     \* bound: the units a run may wait for a worker
  MaxLead,     \* bound: how long ahead a job is scheduled
  MaxFaults,   \* bound: how many runs are lost, cut short or delivered twice
  Unscheduled, \* NULL in Job.scheduled_for
  None         \* no job; no run

ASSUME RemindersAssumption ==
  /\ Window \in Nat /\ Period \in Nat \ {0} /\ MaxLead \in Nat /\ MaxFaults \in Nat
  /\ MaxLate \in 0 .. Period - 1
  /\ Unscheduled \notin Int /\ None \notin Jobs \union Int

VARIABLES
  due,         \* units until scheduled_for, -1 when it has passed
  early,       \* whether the job was created with Notice units to go
  minute,      \* the clock, modulo Period
  waiting,     \* units the due run has waited, or None
  todo,        \* per worker, what is left of its snapshot
  made,        \* per worker, the job whose row it has made, or None
  rows,        \* the jobs with an UPCOMING_REMINDER row
  sent,        \* how often each job's customer has been reminded
  faults       \* the failures so far

clockVars == <<due, early, minute, waiting>>
runVars == <<todo, made, rows, sent>>
reminderVars == <<jobVars, clockVars, runVars, faults>>

\* What it takes for a run to come in time although MaxFaults of them fail.
Notice == (MaxFaults + 1) * Period + MaxLate

RemindersInit ==
  /\ LedgerInit
  /\ due = [j \in Jobs |-> Unscheduled]
  /\ early = [j \in Jobs |-> FALSE]
  /\ minute = 0
  /\ waiting = None
  /\ todo = [w \in Workers |-> {}]
  /\ made = [w \in Workers |-> None]
  /\ rows = {}
  /\ sent = [j \in Jobs |-> 0]
  /\ faults = 0

-----------------------------------------------------------------------------
(* The jobs API.  scheduled_for is set at the creation, to any time.       *)

Schedule == \E u \in Users, j \in Jobs, c \in Users, d \in -1 .. MaxLead \union {Unscheduled} :
  /\ Create(u, j, c)
  /\ due' = [due EXCEPT ![j] = d]
  /\ early' = [early EXCEPT ![j] = d # Unscheduled /\ d >= Notice]
  /\ UNCHANGED <<minute, waiting, runVars, faults>>

ChangeJob ==
  /\ \E u \in Users, j \in Jobs :
       \/ \E a \in Users : Assign(u, j, a)
       \/ \E s \in JobStatus : Transition(u, j, s)
  /\ UNCHANGED <<clockVars, runVars, faults>>

-----------------------------------------------------------------------------
(* The task.                                                               *)

Running(w) == todo[w] # {} \/ made[w] # None

Pending(j) == status[j] \in {"new", "assigned"}
InWindow(j) == due[j] # Unscheduled /\ due[j] \in 0 .. Window

\* The filter.  The mutants forget the assigned jobs, and the status.
IsDueNew(j) == InWindow(j) /\ status[j] = "new"
IsDueAnyway(j) == InWindow(j)
IsDue(j) == InWindow(j) /\ Pending(j)

\* The queryset is evaluated once, at the loop.
StartRun(w) ==
  /\ waiting # None
  /\ ~Running(w)
  /\ todo' = [todo EXCEPT ![w] = {j \in Jobs : IsDue(j)}]
  /\ \/ waiting' = None /\ UNCHANGED faults
     \* the broker delivers the message once more
     \/ faults < MaxFaults /\ faults' = faults + 1 /\ UNCHANGED waiting
  /\ UNCHANGED <<jobVars, due, early, minute, made, rows, sent>>

\* get_or_create; only a row that was created is followed by the message.  The
\* mutant ignores the flag.
RemindRegardless(w) == \E j \in todo[w] :
  /\ made[w] = None
  /\ todo' = [todo EXCEPT ![w] = @ \ {j}]
  /\ rows' = rows \union {j}
  /\ made' = [made EXCEPT ![w] = j]
  /\ UNCHANGED <<jobVars, clockVars, sent, faults>>

Remind(w) == \E j \in todo[w] :
  /\ made[w] = None
  /\ todo' = [todo EXCEPT ![w] = @ \ {j}]
  /\ rows' = rows \union {j}
  /\ made' = [made EXCEPT ![w] = IF j \in rows THEN None ELSE j]
  /\ UNCHANGED <<jobVars, clockVars, sent, faults>>

SendReminder(w) ==
  /\ made[w] # None
  /\ sent' = [sent EXCEPT ![made[w]] = @ + 1]
  /\ made' = [made EXCEPT ![w] = None]
  /\ UNCHANGED <<jobVars, clockVars, todo, rows, faults>>

\* An exception or a crash: the task has no retries.
CutRun(w) ==
  /\ Running(w)
  /\ faults < MaxFaults
  /\ faults' = faults + 1
  /\ todo' = [todo EXCEPT ![w] = {}]
  /\ made' = [made EXCEPT ![w] = None]
  /\ UNCHANGED <<jobVars, clockVars, rows, sent>>

\* Beat, the broker or the worker that took the message is down.
LoseRun ==
  /\ waiting # None
  /\ faults < MaxFaults
  /\ faults' = faults + 1
  /\ waiting' = None
  /\ UNCHANGED <<jobVars, due, early, minute, runVars>>

Tick ==
  /\ waiting # MaxLate
  /\ \A w \in Workers : ~Running(w)
  /\ due' = [j \in Jobs |->
               IF due[j] \in {Unscheduled, -1} THEN due[j] ELSE due[j] - 1]
  /\ minute' = (minute + 1) % Period
  /\ waiting' = IF waiting # None THEN waiting + 1
                ELSE IF minute' = 0 THEN 0 ELSE None
  /\ UNCHANGED <<jobVars, early, runVars, faults>>

RemindersNext ==
  \/ Schedule \/ ChangeJob
  \/ \E w \in Workers : StartRun(w) \/ Remind(w) \/ SendReminder(w) \/ CutRun(w)
  \/ LoseRun
  \/ Tick

RemindersSpec == RemindersInit /\ [][RemindersNext]_reminderVars

-----------------------------------------------------------------------------
(* Properties.                                                             *)

\* architecture.md #7: "Finds jobs scheduled soon with no reminder yet and
\* notifies the customer".  The window of 60 minutes and the period of 15 leave
\* room for failed and late runs: a job created with Notice units to go has its
\* reminder when its time comes, unless it is under way by then.
RemindedInTime ==
  \A j \in Jobs : due[j] = -1 /\ early[j] /\ Pending(j) => j \in rows

\* The filter is read once per run and goes stale while the run works through it:
\* a job that an agent sets out to, or that is cancelled, during the run may still
\* be reminded of.  But only by a run that had read it before: once the job is
\* under way, over or cancelled and no snapshot holds it, no run that starts later
\* or is repeated reminds of it any more.
NoLateReminder ==
  \A j \in Jobs :
    []((Exists(j) /\ ~Pending(j) /\ j \notin rows /\ \A w \in Workers : j \notin todo[w])
         => [](j \notin rows))

\* "Idempotent: mark rows so a re-run doesn't double-send": overlapping runs,
\* reruns and crashes keep the promise of the Notification table.
Promise == INSTANCE NotificationLedger WITH
  Items <- Jobs, recorded <- rows, times <- sent

ReminderPromise == Promise!Spec
=============================================================================
