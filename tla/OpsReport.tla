----------------------------- MODULE OpsReport ------------------------------
(***************************************************************************)
(* daily_ops_report: every night a run counts the JobEvents of the 24      *)
(* hours before it.  A run waits in the "reports" queue until a worker     *)
(* takes it, or is lost.                                                   *)
(*                                                                         *)
(* The clock counts units of a Day-th of a day; beat fires on a unit, and  *)
(* events are created between two of them.                                 *)
(***************************************************************************)
EXTENDS Integers

CONSTANTS
  JobEvents,   \* the events that are ever created
  Day,         \* the units of timedelta(days=1), and of beat's period
  MaxWait,     \* bound: the units a run may wait for a worker
  Never        \* not created yet; no run in the queue

ASSUME ReportAssumption ==
  /\ Day \in Nat \ {0} /\ MaxWait \in 0 .. Day - 1
  /\ Never \notin Int

VARIABLES
  age,         \* per event, the units since its creation, up to MaxAge
  born,        \* per event, the hour of its creation, or Never
  hour,        \* the clock, modulo Day: beat fires at 0
  wait,        \* the units until a worker takes the due run, or Never
  counted,     \* per event, in how many reports it was counted
  missed       \* per event, how many lost runs would have counted it

reportVars == <<age, born, hour, wait, counted, missed>>

\* By then the reports that could count an event have been made.
MaxAge == Day + MaxWait + 1

ReportInit ==
  /\ age = [e \in JobEvents |-> Never]
  /\ born = [e \in JobEvents |-> Never]
  /\ hour = 0
  /\ wait = Never
  /\ counted = [e \in JobEvents |-> 0]
  /\ missed = [e \in JobEvents |-> 0]

\* A change of a job's status somewhere.
LogEvent == \E e \in JobEvents :
  /\ wait # 0
  /\ age[e] = Never
  /\ age' = [age EXCEPT ![e] = 0]
  /\ born' = [born EXCEPT ![e] = hour]
  /\ UNCHANGED <<hour, wait, counted, missed>>

HourPasses ==
  /\ wait # 0
  /\ age' = [e \in JobEvents |->
               IF age[e] \in {Never, MaxAge} THEN age[e] ELSE age[e] + 1]
  /\ hour' = (hour + 1) % Day
  /\ wait' \in IF wait # Never THEN {wait - 1}
               ELSE IF hour' = 0 THEN 0 .. MaxWait ELSE {Never}
  /\ UNCHANGED <<born, counted, missed>>

\* created_at >= since.  The mutant leaves the edge of the window out.
StrictlySince(e) == age[e] # Never /\ age[e] < Day
Since(e) == age[e] # Never /\ age[e] <= Day

\* One more for each event of the window.
CountInto(f) == [e \in JobEvents |-> IF Since(e) THEN f[e] + 1 ELSE f[e]]

EndRun ==
  /\ wait = 0
  /\ wait' = Never
  /\ UNCHANGED <<age, born, hour>>

DailyOpsReport ==
  /\ EndRun
  /\ counted' = CountInto(counted)
  /\ UNCHANGED missed

\* Beat was down at midnight, the worker dies or the query raises: the task has
\* no retry and keeps no note of where the last report ended.
LoseReport ==
  /\ EndRun
  /\ missed' = CountInto(missed)
  /\ UNCHANGED counted

ReportNext == LogEvent \/ HourPasses \/ DailyOpsReport \/ LoseReport

ReportSpec == ReportInit /\ [][ReportNext]_reportVars

-----------------------------------------------------------------------------
(* Properties.                                                             *)

Covered(e) == counted[e] + missed[e]

\* architecture.md #7: the report "Aggregates the day's JobEvents".  The window
\* ends at the run and not at the time it was due, so a late run shifts both of
\* its ends.  That is of no consequence but for the first MaxWait units of a day:
\* every other event is in the window of one run, so that it is counted once, or
\* that one run was lost, and those are in the windows of at most two.
CountedOnce ==
  \A e \in JobEvents :
    /\ Covered(e) <= 2
    /\ age[e] # Never /\ born[e] >= MaxWait =>
         /\ Covered(e) <= 1
         /\ age[e] = MaxAge => Covered(e) = 1
=============================================================================
