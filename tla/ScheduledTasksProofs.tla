------------------------ MODULE ScheduledTasksProofs ------------------------
(***************************************************************************)
(* The tasks that beat sends, but for the sweep of the profiles.           *)
(*                                                                         *)
(* Reminders. One at most, in time, and none once a job is under way, for  *)
(* any number of jobs, workers, failures, and any window, period and       *)
(* lateness that leave room for the failures.                              *)
(*                                                                         *)
(* The daily report. Every event is in one report, whatever its hour, but  *)
(* for the hours in which the run of that day may still come; and under    *)
(* the name of its organization.                                           *)
(***************************************************************************)
EXTENDS Reminders, OpsReport, JobLedgerProofs

-----------------------------------------------------------------------------
(* The reminders: the inductive invariant.                                 *)

RunTypes ==
  /\ due \in [Jobs -> -1 .. MaxLead \union {Unscheduled}]
  /\ early \in [Jobs -> BOOLEAN]
  /\ minute \in 0 .. Period - 1
  /\ waiting \in 0 .. MaxLate \union {None}
  /\ todo \in [Workers -> SUBSET Jobs]
  /\ made \in [Workers -> Jobs \union {None}]
  /\ rows \in SUBSET Jobs
  /\ sent \in [Jobs -> Nat]
  /\ faults \in 0 .. MaxFaults

\* A run that waits has done so since beat fired, and is through before the
\* clock goes on.
ClockInv ==
  /\ waiting # None => minute = waiting
  /\ \A w \in Workers : Running(w) => minute <= MaxLate

\* Who made a row is the only one to send its reminder, and has not yet.
OneSender ==
  /\ \A w \in Workers : made[w] # None =>
       /\ made[w] \in rows
       /\ sent[made[w]] = 0
       /\ \A v \in Workers \ {w} : made[v] # made[w]
  /\ \A j \in Jobs \ rows : sent[j] = 0

RemindersInv == LedgerInv /\ RunTypes /\ ClockInv /\ OneSender

\* The time that a job without a reminder has left is enough for every run that
\* may still fail, and for the one after them: the run that waits or is at work
\* on the job, or else the one that is due when the period is over.
Attended(j) == \E w \in Workers : j \in todo[w]

Spare == (MaxFaults - faults) * Period

Needed(j) ==
  Spare + MaxLate - minute + IF waiting = None /\ ~Attended(j) THEN Period ELSE 0

TimeLeft ==
  \A j \in Jobs : early[j] /\ Pending(j) /\ j \notin rows =>
    due[j] # Unscheduled /\ due[j] >= Needed(j)

-----------------------------------------------------------------------------

LEMMA RemindersInitial == RemindersInit => RemindersInv /\ TimeLeft
  <1>. SUFFICES ASSUME RemindersInit PROVE RemindersInv /\ TimeLeft
    OBVIOUS
  <1>1. LedgerInv
    BY LedgerInitial DEF RemindersInit
  <1>2. RunTypes /\ ClockInv /\ OneSender
    BY RemindersAssumption DEF RemindersInit, RunTypes, ClockInv, OneSender, Running
  <1>3. TimeLeft
    BY DEF RemindersInit, TimeLeft
  <1>. QED  BY <1>1, <1>2, <1>3 DEF RemindersInv

\* The clock of the beat.
LEMMA MinuteTurns ==
  ASSUME NEW n \in Nat \ {0}, NEW m \in 0 .. n - 1
  PROVE  /\ (m + 1) % n \in 0 .. n - 1
         /\ (m + 1) % n = IF m + 1 = n THEN 0 ELSE m + 1
  <1>1. CASE m + 1 = n
    <2>1. n % n = 0
      OBVIOUS
    <2>. QED  BY <1>1, <2>1
  <1>2. CASE m + 1 # n
    <2>1. m + 1 \in 0 .. n - 1
      BY <1>2
    <2>2. (m + 1) % n = m + 1
      BY <2>1
    <2>. QED  BY <1>2, <2>1, <2>2
  <1>. QED  BY <1>1, <1>2

\* The requests of the jobs API are steps of the ledger, the others leave it alone.
LEMMA JobsChange ==
  ASSUME [RemindersNext]_reminderVars
  PROVE  [LedgerNext]_jobVars
  <1>1. CASE Schedule
    BY <1>1 DEF Schedule, LedgerNext
  <1>2. CASE ChangeJob
    BY <1>2 DEF ChangeJob, LedgerNext
  <1>3. CASE \E w \in Workers : StartRun(w) \/ Remind(w) \/ SendReminder(w) \/ CutRun(w)
    BY <1>3 DEF StartRun, Remind, SendReminder, CutRun
  <1>4. CASE LoseRun \/ Tick \/ UNCHANGED reminderVars
    BY <1>4 DEF LoseRun, Tick, reminderVars
  <1>. QED  BY <1>1, <1>2, <1>3, <1>4 DEF RemindersNext

\* A request never makes a job pending again, and a job that exists stays.
LEMMA PendingEnds ==
  ASSUME LedgerInv, [LedgerNext]_jobVars, NEW j \in Jobs, Exists(j)
  PROVE  Exists(j)' /\ (Pending(j)' => Pending(j))
  <1>. USE LedgerAssumption DEF LedgerInv, LedgerTypeOK, Exists, Pending
  <1>1. ASSUME NEW u \in Users, NEW k \in Jobs, NEW c \in Users, Create(u, k, c)
        PROVE  status'[j] = status[j]
    BY <1>1 DEF Create
  <1>2. ASSUME NEW u \in Users, NEW k \in Jobs, NEW s \in JobStatus,
               ValidTransition(status[k], s), status' = [status EXCEPT ![k] = s]
        PROVE  Exists(j)' /\ (Pending(j)' => Pending(j))
    BY <1>2, Edges
  <1>3. ASSUME NEW u \in Users, NEW k \in Jobs, NEW a \in Users, Assign(u, k, a)
        PROVE  Exists(j)' /\ (Pending(j)' => Pending(j))
    <2>1. "assigned" \in JobStatus
      BY DEF JobStatus
    <2>. QED  BY <1>2, <1>3, <2>1 DEF Assign
  <1>4. ASSUME NEW u \in Users, NEW k \in Jobs, NEW s \in JobStatus, Transition(u, k, s)
        PROVE  Exists(j)' /\ (Pending(j)' => Pending(j))
    BY <1>2, <1>4 DEF Transition
  <1>5. CASE UNCHANGED jobVars
    BY <1>5 DEF jobVars
  <1>. QED  BY <1>1, <1>3, <1>4, <1>5 DEF LedgerNext

-----------------------------------------------------------------------------
(* The invariant is preserved, conjunct by conjunct.                       *)

LEMMA RunTypesStep ==
  ASSUME RemindersInv, [RemindersNext]_reminderVars
  PROVE  RunTypes'
  <1>. USE RemindersAssumption DEF RemindersInv, RunTypes, clockVars, runVars
  <1>1. CASE Schedule
    BY <1>1 DEF Schedule
  <1>2. CASE ChangeJob
    BY <1>2 DEF ChangeJob
  <1>3. ASSUME NEW w \in Workers, StartRun(w) PROVE RunTypes'
    BY <1>3 DEF StartRun
  <1>4. ASSUME NEW w \in Workers, Remind(w) PROVE RunTypes'
    BY <1>4 DEF Remind
  <1>5. ASSUME NEW w \in Workers, SendReminder(w) PROVE RunTypes'
    BY <1>5 DEF SendReminder
  <1>6. ASSUME NEW w \in Workers, CutRun(w) PROVE RunTypes'
    BY <1>6 DEF CutRun
  <1>7. CASE LoseRun
    BY <1>7 DEF LoseRun
  <1>8. CASE Tick
    <2>1. minute' \in 0 .. Period - 1
      BY <1>8, MinuteTurns DEF Tick
    <2>2. waiting' \in 0 .. MaxLate \union {None}
      BY <1>8 DEF Tick
    <2>3. due' \in [Jobs -> -1 .. MaxLead \union {Unscheduled}]
      BY <1>8 DEF Tick
    <2>. QED  BY <1>8, <2>1, <2>2, <2>3 DEF Tick
  <1>9. CASE UNCHANGED reminderVars
    BY <1>9 DEF reminderVars
  <1>. QED  BY <1>1, <1>2, <1>3, <1>4, <1>5, <1>6, <1>7, <1>8, <1>9 DEF RemindersNext

LEMMA ClockStep ==
  ASSUME RemindersInv, [RemindersNext]_reminderVars
  PROVE  ClockInv'
  <1>. USE RemindersAssumption DEF RemindersInv, RunTypes, ClockInv, Running
  <1>1. CASE Schedule \/ ChangeJob \/ UNCHANGED reminderVars
    BY <1>1 DEF Schedule, ChangeJob, reminderVars, clockVars, runVars
  <1>2. ASSUME NEW w \in Workers, StartRun(w) PROVE ClockInv'
    BY <1>2 DEF StartRun
  <1>3. ASSUME NEW w \in Workers, Remind(w) PROVE ClockInv'
    BY <1>3 DEF Remind, clockVars
  <1>4. ASSUME NEW w \in Workers, SendReminder(w) PROVE ClockInv'
    BY <1>4 DEF SendReminder, clockVars
  <1>5. ASSUME NEW w \in Workers, CutRun(w) PROVE ClockInv'
    BY <1>5 DEF CutRun, clockVars
  <1>6. CASE LoseRun
    BY <1>6 DEF LoseRun, runVars
  <1>7. CASE Tick
    <2>1. minute' = IF minute + 1 = Period THEN 0 ELSE minute + 1
      BY <1>7, MinuteTurns DEF Tick
    <2>2. waiting' # None => minute' = waiting'
      BY <1>7, <2>1 DEF Tick
    <2>. QED  BY <1>7, <2>2 DEF Tick, runVars
  <1>. QED  BY <1>1, <1>2, <1>3, <1>4, <1>5, <1>6, <1>7 DEF RemindersNext

LEMMA OneSenderStep ==
  ASSUME RemindersInv, [RemindersNext]_reminderVars
  PROVE  OneSender'
  <1>. USE RemindersAssumption DEF RemindersInv, RunTypes, OneSender
  <1>1. CASE UNCHANGED <<made, rows, sent>>
    BY <1>1
  <1>2. ASSUME NEW w \in Workers, Remind(w) PROVE OneSender'
    <2>1. PICK j \in todo[w] :
            /\ made[w] = None
            /\ rows' = rows \union {j}
            /\ made' = [made EXCEPT ![w] = IF j \in rows THEN None ELSE j]
            /\ sent' = sent
      BY <1>2 DEF Remind
    <2>2. j \in Jobs
      OBVIOUS
    <2>3. CASE j \in rows
      <3>1. rows' = rows /\ made' = made
        BY <2>1, <2>3
      <3>. QED  BY <2>1, <3>1
    <2>4. CASE j \notin rows
      <3>1. sent[j] = 0 /\ \A v \in Workers : made[v] # j
        BY <2>2, <2>4
      <3>2. made'[w] = j /\ \A v \in Workers \ {w} : made'[v] = made[v]
        BY <2>1, <2>4
      <3>. QED  BY <2>1, <2>2, <3>1, <3>2
    <2>. QED  BY <2>3, <2>4
  <1>3. ASSUME NEW w \in Workers, SendReminder(w) PROVE OneSender'
    <2>1. /\ made[w] \in rows
          /\ rows' = rows
          /\ made'[w] = None /\ \A v \in Workers \ {w} : made'[v] = made[v] /\ made[v] # made[w]
          /\ \A j \in Jobs : j # made[w] => sent'[j] = sent[j]
      BY <1>3 DEF SendReminder
    <2>. QED  BY <2>1
  <1>4. ASSUME NEW w \in Workers, CutRun(w) PROVE OneSender'
    BY <1>4 DEF CutRun
  <1>. QED
    BY <1>1, <1>2, <1>3, <1>4
       DEF RemindersNext, Schedule, ChangeJob, StartRun, LoseRun, Tick, reminderVars, runVars

LEMMA RemindersStep == RemindersInv /\ [RemindersNext]_reminderVars => RemindersInv'
  BY JobsChange, LedgerStep, RunTypesStep, ClockStep, OneSenderStep DEF RemindersInv


-----------------------------------------------------------------------------
(* Every run that may still fail has its time.                             *)

LEMMA Products ==
  ASSUME NEW p \in Nat, NEW m \in Nat
  PROVE  m * p \in Nat /\ (m + 1) * p = m * p + p
  OBVIOUS

LEMMA SpareTime ==
  ASSUME RunTypes
  PROVE  /\ Spare \in Nat /\ MaxFaults * Period \in Nat
         /\ Spare <= MaxFaults * Period
         /\ Notice = MaxFaults * Period + Period + MaxLate
  <1>. USE RemindersAssumption DEF RunTypes
  <1>1. MaxFaults \in Nat /\ faults \in Nat /\ MaxFaults - faults \in Nat /\ Period \in Nat
    OBVIOUS
  <1>2. MaxFaults * Period = (MaxFaults - faults) * Period + faults * Period
    BY <1>1
  <1>3. /\ (MaxFaults - faults) * Period \in Nat /\ faults * Period \in Nat
        /\ MaxFaults * Period \in Nat
        /\ (MaxFaults + 1) * Period = MaxFaults * Period + Period
    BY <1>1, Products
  <1>. QED  BY <1>2, <1>3 DEF Spare, Notice

LEMMA FaultCosts ==
  ASSUME RunTypes, faults < MaxFaults, faults' = faults + 1
  PROVE  Spare' = Spare - Period
  <1>. DEFINE m == MaxFaults - faults - 1
  <1>1. m \in Nat /\ Period \in Nat /\ MaxFaults - faults = m + 1 /\ MaxFaults - faults' = m
    BY RemindersAssumption DEF RunTypes
  <1>2. (m + 1) * Period = m * Period + Period /\ m * Period \in Nat
    BY <1>1, Products
  <1>. HIDE DEF m
  <1>. QED  BY <1>1, <1>2 DEF Spare

\* A job that needs a reminder is not overdue while a run waits or is at work.
LEMMA NeedsLess ==
  ASSUME RemindersInv, NEW j \in Jobs
  PROVE  /\ Needed(j) \in Int
         /\ Needed(j) <= Notice
         /\ waiting # None \/ Attended(j) => Needed(j) >= 0
         /\ Needed(j) > 0 \/ waiting # None \/ Attended(j)
  <1>1. Attended(j) => minute <= MaxLate
    BY DEF Attended, RemindersInv, ClockInv, Running
  <1>. QED
    BY <1>1, SpareTime, RemindersAssumption DEF RemindersInv, RunTypes, ClockInv, Needed

\* Without a run being started, ending or lost, only the clock and a failure
\* change what is needed.
LEMMA SameNeed ==
  ASSUME NEW j, UNCHANGED <<minute, waiting, faults>>, Attended(j)' <=> Attended(j)
  PROVE  Needed(j)' = Needed(j)
  BY DEF Needed, Spare

LEMMA TimeLeftStep ==
  ASSUME Notice <= Window, RemindersInv, TimeLeft, [RemindersNext]_reminderVars
  PROVE  TimeLeft'
  <1>. SUFFICES ASSUME NEW j \in Jobs, early'[j], Pending(j)', j \notin rows'
                PROVE  due'[j] # Unscheduled /\ due'[j] >= Needed(j)'
    BY DEF TimeLeft, Pending
  <1>. USE RemindersAssumption DEF RunTypes
  <1>0. RunTypes
    BY DEF RemindersInv
  <1>a. /\ Needed(j) \in Int /\ Needed(j) <= Notice /\ Notice \in Int
        /\ waiting # None \/ Attended(j) => Needed(j) >= 0
        /\ Needed(j) > 0 \/ waiting # None \/ Attended(j)
        /\ Spare \in Nat
        /\ due[j] # Unscheduled => due[j] \in Int
    BY <1>0, NeedsLess, SpareTime
  <1>b. ASSUME due[j] # Unscheduled, due[j] >= Needed(j), UNCHANGED due,
               Needed(j)' \in Int, Needed(j)' <= Needed(j)
        PROVE  due'[j] # Unscheduled /\ due'[j] >= Needed(j)'
    BY <1>a, <1>b
  <1>c. early[j] /\ Pending(j) /\ j \notin rows => due[j] # Unscheduled /\ due[j] >= Needed(j)
    BY DEF TimeLeft
  <1>1. CASE Schedule
    <2>1. PICK k \in Jobs, d \in -1 .. MaxLead \union {Unscheduled} :
            /\ \E u \in Users, c \in Users : Create(u, k, c)
            /\ due' = [due EXCEPT ![k] = d]
            /\ early' = [early EXCEPT ![k] = d # Unscheduled /\ d >= Notice]
            /\ UNCHANGED <<minute, waiting, runVars, faults>>
      BY <1>1 DEF Schedule
    <2>2. Needed(j)' = Needed(j)
      BY <2>1, SameNeed DEF Attended, runVars
    <2>3. CASE k = j
      <3>1. due'[j] = d
        BY <1>0, <2>1, <2>3
      <3>2. early'[j] = (d # Unscheduled /\ d >= Notice)
        BY <1>0, <2>1, <2>3
      <3>3. d # Unscheduled /\ d >= Notice
        BY <3>2
      <3>. QED  BY <1>a, <2>2, <3>1, <3>3
    <2>4. CASE k # j
      <3>1. due'[j] = due[j] /\ early'[j] = early[j] /\ status'[j] = status[j] /\ rows' = rows
        BY <1>0, <2>1, <2>4 DEF Create, RemindersInv, LedgerInv, LedgerTypeOK, runVars
      <3>. QED  BY <1>c, <2>2, <3>1 DEF Pending
    <2>. QED  BY <2>3, <2>4
  <1>2. CASE ChangeJob
    <2>1. Exists(j)
      <3>1. ASSUME NEW k \in Jobs, NEW s, Exists(k), status' = [status EXCEPT ![k] = s]
            PROVE  Exists(j)
        <4>1. CASE k = j
          BY <3>1, <4>1
        <4>2. CASE k # j
          <5>1. status[j] = status'[j]
            BY <3>1, <4>2 DEF RemindersInv, LedgerInv, LedgerTypeOK
          <5>. QED  BY <5>1, LedgerAssumption DEF Pending, Exists, JobStatus
        <4>. QED  BY <4>1, <4>2
      <3>2. ASSUME NEW u \in Users, NEW k \in Jobs, NEW a \in Users, Assign(u, k, a)
            PROVE  Exists(j)
        BY <3>1, <3>2 DEF Assign
      <3>3. ASSUME NEW u \in Users, NEW k \in Jobs, NEW s \in JobStatus, Transition(u, k, s)
            PROVE  Exists(j)
        BY <3>1, <3>3 DEF Transition
      <3>. QED  BY <1>2, <3>2, <3>3 DEF ChangeJob
    <2>2. Pending(j)
      BY <2>1, JobsChange, PendingEnds DEF RemindersInv
    <2>3. Needed(j)' = Needed(j)
      BY <1>2, SameNeed DEF ChangeJob, Attended, clockVars, runVars
    <2>. QED  BY <1>2, <1>c, <2>2, <2>3 DEF ChangeJob, clockVars, runVars
  <1>3. ASSUME NEW w \in Workers, StartRun(w)
        PROVE  due'[j] # Unscheduled /\ due'[j] >= Needed(j)'
    <2>1. early[j] /\ Pending(j) /\ j \notin rows /\ due' = due /\ minute' = minute
      BY <1>3 DEF StartRun, Pending, jobVars
    <2>2. due[j] # Unscheduled /\ due[j] >= Needed(j) /\ due[j] \in Int /\ due[j] >= 0
      BY <1>3, <1>a, <1>c, <2>1 DEF StartRun
    <2>3. Spare' \in Int /\ Spare' <= Spare /\ (waiting' = None \/ waiting' = waiting)
      <3>1. CASE waiting' = None /\ UNCHANGED faults
        BY <1>a, <3>1 DEF Spare
      <3>2. CASE faults < MaxFaults /\ faults' = faults + 1 /\ UNCHANGED waiting
        BY <1>0, <1>a, <3>2, FaultCosts
      <3>. QED  BY <1>3, <3>1, <3>2 DEF StartRun
    <2>4. CASE InWindow(j)
      <3>1. j \in todo'[w]
        BY <1>0, <1>3, <2>1, <2>4 DEF StartRun, IsDue
      <3>2. Attended(j)'
        BY <3>1 DEF Attended
      <3>3. Needed(j)' = Spare' + MaxLate - minute
        BY <1>0, <2>1, <2>3, <3>2 DEF Needed
      <3>4. Needed(j) = Spare + MaxLate - minute
        BY <1>0, <1>a, <1>3 DEF Needed, StartRun
      <3>. QED  BY <1>0, <1>a, <1>b, <2>1, <2>2, <2>3, <3>3, <3>4
    <2>5. CASE ~InWindow(j)
      <3>1. due[j] > Window
        BY <1>0, <2>2, <2>5 DEF InWindow
      <3>2. Needed(j)' \in Int /\ Needed(j)' <= Spare + MaxLate - minute + Period
        <4>. DEFINE t == MaxLate - minute
        <4>1. t \in Int /\ Period \in Nat
          BY <1>0
        <4>2. Needed(j)' \in {Spare' + t, Spare' + t + Period}
          BY <1>0, <2>1, <2>3 DEF Needed
        <4>3. Spare + MaxLate - minute + Period = Spare + t + Period
          BY <1>0, <1>a
        <4>. HIDE DEF t
        <4>. QED  BY <4>1, <4>2, <4>3, <1>a, <2>3
      <3>3. Needed(j)' <= Notice
        BY <1>0, <1>a, <3>2, SpareTime
      <3>. QED  BY <1>a, <2>1, <2>2, <3>1, <3>2, <3>3
    <2>. QED  BY <2>4, <2>5
  <1>4. ASSUME NEW w \in Workers, Remind(w)
        PROVE  due'[j] # Unscheduled /\ due'[j] >= Needed(j)'
    <2>1. /\ early[j] /\ Pending(j) /\ j \notin rows
          /\ UNCHANGED <<due, minute, waiting, faults>>
      BY <1>4 DEF Remind, Pending, jobVars, clockVars
    <2>2. Attended(j)' <=> Attended(j)
      <3>1. PICK k \in todo[w] : todo' = [todo EXCEPT ![w] = @ \ {k}] /\ k \in rows'
        BY <1>4 DEF Remind
      <3>. QED  BY <1>0, <3>1 DEF Attended
    <2>. QED  BY <1>b, <1>a, <1>c, <2>1, <2>2, SameNeed
  <1>5. ASSUME NEW w \in Workers, SendReminder(w)
        PROVE  due'[j] # Unscheduled /\ due'[j] >= Needed(j)'
    <2>1. /\ early[j] /\ Pending(j) /\ j \notin rows
          /\ UNCHANGED <<due, minute, waiting, faults, todo>>
      BY <1>5 DEF SendReminder, Pending, jobVars, clockVars
    <2>2. Attended(j)' <=> Attended(j)
      BY <2>1 DEF Attended
    <2>. QED  BY <1>b, <1>a, <1>c, <2>1, <2>2, SameNeed
  <1>6. ASSUME NEW w \in Workers, CutRun(w)
        PROVE  due'[j] # Unscheduled /\ due'[j] >= Needed(j)'
    <2>1. /\ early[j] /\ Pending(j) /\ j \notin rows
          /\ UNCHANGED <<due, minute, waiting>>
          /\ faults < MaxFaults /\ faults' = faults + 1
      BY <1>6 DEF CutRun, Pending, jobVars, clockVars
    <2>2. Spare' = Spare - Period
      BY <1>0, <2>1, FaultCosts
    <2>3. Needed(j)' \in Int /\ Needed(j)' <= Spare + MaxLate - minute
      BY <1>0, <1>a, <2>1, <2>2 DEF Needed
    <2>4. Needed(j)' <= Needed(j)
      BY <1>0, <1>a, <2>3 DEF Needed
    <2>. QED  BY <1>b, <1>c, <2>1, <2>3, <2>4
  <1>7. CASE LoseRun
    <2>1. /\ early[j] /\ Pending(j) /\ j \notin rows
          /\ UNCHANGED <<due, minute>>
          /\ faults < MaxFaults /\ faults' = faults + 1
      BY <1>7 DEF LoseRun, Pending, jobVars, runVars
    <2>2. Spare' = Spare - Period
      BY <1>0, <2>1, FaultCosts
    <2>3. Needed(j)' \in Int /\ Needed(j)' <= Spare + MaxLate - minute
      BY <1>0, <1>a, <2>1, <2>2 DEF Needed
    <2>4. Needed(j)' <= Needed(j)
      BY <1>0, <1>a, <2>3 DEF Needed
    <2>. QED  BY <1>b, <1>c, <2>1, <2>3, <2>4
  <1>8. CASE Tick
    <2>1. /\ early[j] /\ Pending(j) /\ j \notin rows
          /\ UNCHANGED <<faults, todo>>
      BY <1>8 DEF Tick, Pending, jobVars, runVars
    <2>2. ~Attended(j) /\ ~Attended(j)'
      BY <1>8, <2>1 DEF Tick, Running, Attended
    <2>3. Needed(j) >= 1
      BY <1>0, <1>8, <1>a, <2>2 DEF Tick, Needed, RemindersInv, ClockInv
    <2>4. due[j] # Unscheduled /\ due[j] >= Needed(j) /\ due'[j] = due[j] - 1
      <3>1. due[j] # Unscheduled /\ due[j] >= Needed(j)
        BY <1>c, <2>1
      <3>2. due[j] # -1
        BY <1>a, <2>3, <3>1
      <3>. QED  BY <1>8, <3>1, <3>2 DEF Tick
    <2>5. minute' = IF minute + 1 = Period THEN 0 ELSE minute + 1
      BY <1>0, <1>8, MinuteTurns DEF Tick
    <2>6. Spare' = Spare
      BY <2>1 DEF Spare
    <2>7. Needed(j)' \in Int /\ Needed(j)' <= Needed(j) - 1
      <3>1. CASE waiting # None
        <4>1. waiting' # None
          BY <1>0, <1>8, <3>1 DEF Tick
        <4>2. minute' = minute + 1
          BY <1>0, <1>8, <2>5, <3>1 DEF Tick, RemindersInv, ClockInv
        <4>. QED  BY <1>0, <1>a, <2>2, <2>6, <3>1, <4>1, <4>2 DEF Needed
      <3>2. CASE waiting = None
        BY <1>0, <1>8, <1>a, <2>2, <2>5, <2>6, <3>2 DEF Tick, Needed
      <3>. QED  BY <3>1, <3>2
    <2>. QED  BY <1>a, <2>4, <2>7
  <1>9. CASE UNCHANGED reminderVars
    <2>1. UNCHANGED <<due, early, minute, waiting, faults, todo, rows, status>>
      BY <1>9 DEF reminderVars, jobVars, clockVars, runVars
    <2>2. Attended(j)' <=> Attended(j)
      BY <2>1 DEF Attended
    <2>. QED  BY <1>b, <1>a, <1>c, <2>1, <2>2, SameNeed DEF Pending
  <1>. QED  BY <1>1, <1>2, <1>3, <1>4, <1>5, <1>6, <1>7, <1>8, <1>9 DEF RemindersNext

-----------------------------------------------------------------------------
(* A job that nobody will remind of any more.                              *)

Settled(j) ==
  /\ Exists(j) /\ ~Pending(j)
  /\ j \notin rows
  /\ ~Attended(j)

LEMMA SettledStays ==
  ASSUME RemindersInv, [RemindersNext]_reminderVars, NEW j \in Jobs, Settled(j)
  PROVE  Settled(j)'
  <1>. USE DEF Settled
  <1>1. Exists(j)' /\ ~Pending(j)'
    BY JobsChange, PendingEnds DEF RemindersInv
  <1>2. CASE UNCHANGED <<todo, rows>>
    BY <1>1, <1>2 DEF Attended
  <1>. USE DEF RemindersInv, RunTypes
  <1>3. ASSUME NEW w \in Workers, StartRun(w) PROVE Settled(j)'
    BY <1>1, <1>3 DEF StartRun, IsDue, Attended
  <1>4. ASSUME NEW w \in Workers, Remind(w) PROVE Settled(j)'
    BY <1>1, <1>4 DEF Remind, Attended
  <1>5. ASSUME NEW w \in Workers, CutRun(w) PROVE Settled(j)'
    BY <1>1, <1>5 DEF CutRun, Attended
  <1>. QED
    BY <1>2, <1>3, <1>4, <1>5
       DEF RemindersNext, Schedule, ChangeJob, SendReminder, LoseRun, Tick, reminderVars, runVars

-----------------------------------------------------------------------------
(* The rows and the messages.                                              *)

LEMMA PromiseStep ==
  ASSUME RemindersInv, [RemindersNext]_reminderVars
  PROVE  [\E i \in Jobs : Promise!Record(i) \/ Promise!Deliver(i)]_Promise!ledgerVars
  <1>. SUFFICES ASSUME RemindersNext, ~UNCHANGED <<rows, sent>>
                PROVE  \E i \in Jobs : Promise!Record(i) \/ Promise!Deliver(i)
    BY DEF Promise!ledgerVars, reminderVars, runVars
  <1>. USE DEF RemindersInv, RunTypes
  <1>1. ASSUME NEW w \in Workers, Remind(w)
        PROVE  \E i \in Jobs : Promise!Record(i)
    BY <1>1 DEF Remind, Promise!Record
  <1>2. ASSUME NEW w \in Workers, SendReminder(w)
        PROVE  \E i \in Jobs : Promise!Deliver(i)
    <2>1. made[w] \in rows /\ made[w] \in Jobs /\ sent[made[w]] = 0 /\ rows' = rows
      BY <1>2, RemindersAssumption DEF SendReminder, OneSender
    <2>2. sent' = [sent EXCEPT ![made[w]] = 1]
      BY <1>2, <2>1 DEF SendReminder
    <2>. QED  BY <2>1, <2>2 DEF Promise!Deliver
  <1>. QED
    BY <1>1, <1>2
       DEF RemindersNext, Schedule, ChangeJob, StartRun, CutRun, LoseRun, Tick, runVars

-----------------------------------------------------------------------------
(* The theorems.                                                           *)

\* Every reachable state satisfies the inductive invariant.
THEOREM RemindersInvariant == RemindersSpec => []RemindersInv
  BY RemindersInitial, RemindersStep, PTL DEF RemindersSpec

\* If the window leaves room for the failures, every job that was created in
\* good time has its reminder when its time comes, unless it is under way.
THEOREM RemindersInTime ==
  ASSUME Notice <= Window
  PROVE  RemindersSpec => []RemindedInTime
  <1>1. RemindersInv /\ TimeLeft /\ [RemindersNext]_reminderVars => TimeLeft'
    BY TimeLeftStep
  <1>2. RemindersInv /\ TimeLeft => RemindedInTime
    <2>. SUFFICES ASSUME RemindersInv, TimeLeft, NEW j \in Jobs,
                         due[j] = -1, early[j], Pending(j), j \notin rows
                  PROVE  FALSE
      BY DEF RemindedInTime
    <2>. QED  BY NeedsLess DEF TimeLeft
  <1>. QED  BY <1>1, <1>2, RemindersInitial, RemindersInvariant, PTL DEF RemindersSpec

\* A job that is settled and in no run's snapshot is never reminded of.
THEOREM NoneTooLate == RemindersSpec => NoLateReminder
  <1>. SUFFICES ASSUME NEW j \in Jobs
                PROVE  RemindersSpec =>
                         []((Exists(j) /\ ~Pending(j) /\ j \notin rows
                              /\ \A w \in Workers : j \notin todo[w]) => [](j \notin rows))
    BY DEF NoLateReminder
  <1>1. /\ Exists(j) /\ ~Pending(j) /\ j \notin rows
        /\ \A w \in Workers : j \notin todo[w]
        => Settled(j)
    BY DEF Settled, Attended
  <1>2. RemindersInv /\ [RemindersNext]_reminderVars /\ Settled(j) => Settled(j)'
    BY SettledStays
  <1>3. Settled(j) => j \notin rows
    BY DEF Settled
  <1>. QED  BY <1>1, <1>2, <1>3, RemindersInvariant, PTL DEF RemindersSpec

\* Overlapping runs, reruns, losses and crashes keep the promise of the
\* Notification table: one reminder at most.
THEOREM RemindersKeepPromise == RemindersSpec => ReminderPromise
  <1>1. RemindersInit => Promise!Init
    BY DEF RemindersInit, Promise!Init
  <1>2. RemindersInv /\ [RemindersNext]_reminderVars =>
          [\E i \in Jobs : Promise!Record(i) \/ Promise!Deliver(i)]_Promise!ledgerVars
    BY PromiseStep
  <1>3. RemindersSpec => [][\E i \in Jobs : Promise!Record(i) \/ Promise!Deliver(i)]_Promise!ledgerVars
    BY <1>2, RemindersInvariant, PTL DEF RemindersSpec
  <1>4. RemindersSpec => Promise!Init
    BY <1>1, PTL DEF RemindersSpec
  <1>. QED
    BY <1>3, <1>4, PTL DEF ReminderPromise, Promise!Spec

-----------------------------------------------------------------------------
(* The daily report: the inductive invariant.                              *)

ReportTypes ==
  /\ age \in [JobEvents -> 0 .. MaxAge \union {Never}]
  /\ born \in [JobEvents -> 0 .. Day - 1 \union {Never}]
  /\ hour \in 0 .. Day - 1
  /\ wait \in 0 .. MaxWait \union {Never}
  /\ counted \in [JobEvents -> Nat] /\ missed \in [JobEvents -> Nat]
  /\ \A e \in JobEvents : age[e] = Never <=> born[e] = Never

\* A run that waits is the one that beat fired at 0.
DueAtMidnight == wait # Never => hour + wait <= MaxWait

\* How many midnights there were since the event; its age stops at MaxAge.
SameDay(e) == born[e] + age[e] = hour
DayAfter(e) == born[e] + age[e] = hour + Day
TwoDaysOn(e) == born[e] + age[e] = hour + Day + Day

EventKnown(e) == age[e] # Never /\ age[e] < MaxAge

Dated == \A e \in JobEvents : EventKnown(e) => SameDay(e) \/ DayAfter(e) \/ TwoDaysOn(e)

\* Born in the first units of a day, an event may be counted on that day and on
\* the next; the third report finds it too old.
CountedTwice ==
  \A e \in JobEvents :
    /\ age[e] = Never => Covered(e) = 0
    /\ Covered(e) <= 2
    /\ EventKnown(e) /\ SameDay(e) => Covered(e) <= IF wait = Never THEN 1 ELSE 0
    /\ EventKnown(e) /\ DayAfter(e) /\ wait # Never => Covered(e) <= 1

\* Born later than any run of that day, it is counted on the next day.
CountedNextDay ==
  \A e \in JobEvents :
    born[e] # Never /\ born[e] >= MaxWait =>
      /\ EventKnown(e) /\ SameDay(e) => Covered(e) = 0 /\ wait = Never
      /\ EventKnown(e) /\ DayAfter(e) => Covered(e) = IF wait = Never THEN 1 ELSE 0
      /\ EventKnown(e) /\ TwoDaysOn(e) => Covered(e) = 1
      /\ age[e] = MaxAge => Covered(e) = 1

ReportInv ==
  /\ ReportTypes
  /\ DueAtMidnight
  /\ Dated
  /\ CountedTwice
  /\ CountedNextDay

LEMMA ReportInitial == ReportInit => ReportInv
  <1>. SUFFICES ASSUME ReportInit PROVE ReportInv
    OBVIOUS
  <1>. USE ReportAssumption DEF ReportInit, MaxAge, EventKnown
  <1>1. ReportTypes
    BY DEF ReportTypes
  <1>2. DueAtMidnight /\ Dated
    BY DEF DueAtMidnight, Dated
  <1>3. CountedTwice /\ CountedNextDay
    BY DEF CountedTwice, CountedNextDay, Covered
  <1>. QED  BY <1>1, <1>2, <1>3 DEF ReportInv

\* The clock is a day's.
LEMMA NextHour ==
  ASSUME hour \in 0 .. Day - 1
  PROVE  (hour + 1) % Day = IF hour + 1 = Day THEN 0 ELSE hour + 1
  BY ReportAssumption

LEMMA LogEventKeeps == ReportInv /\ LogEvent => ReportInv'
  <1>. SUFFICES ASSUME ReportInv, NEW e \in JobEvents, wait # 0, age[e] = Never,
                       age' = [age EXCEPT ![e] = 0], born' = [born EXCEPT ![e] = hour],
                       UNCHANGED <<hour, wait, counted, missed>>
                PROVE  ReportInv'
    BY DEF LogEvent
  <1>. USE ReportAssumption DEF ReportInv, ReportTypes, MaxAge, EventKnown, SameDay,
                                DayAfter, TwoDaysOn
  <1>1. ReportTypes'
    OBVIOUS
  <1>2. \A f \in JobEvents \ {e} : age'[f] = age[f] /\ born'[f] = born[f]
    OBVIOUS
  <1>3. /\ \A f \in JobEvents : Covered(f)' = Covered(f)
        /\ age'[e] = 0 /\ born'[e] = hour /\ Covered(e)' = 0
    BY DEF CountedTwice, Covered
  <1>4. DueAtMidnight'
    BY DEF DueAtMidnight
  <1>5. Dated'
    BY <1>2, <1>3 DEF Dated
  <1>6. CountedTwice'
    BY <1>2, <1>3 DEF CountedTwice
  \* Past MaxWait the day's run is over.
  <1>7. hour >= MaxWait => wait = Never
    BY DEF DueAtMidnight
  <1>8. CountedNextDay'
    BY <1>2, <1>3, <1>7 DEF CountedNextDay
  <1>. QED  BY <1>1, <1>4, <1>5, <1>6, <1>8

\* An hour passes: either the day goes on and the same run waits, or none; or it
\* ends, no run is left of it and the next one is due.
LEMMA HourPassesMoves ==
  ASSUME ReportInv, HourPasses
  PROVE  /\ wait # 0
         /\ \/ /\ hour + 1 < Day /\ hour' = hour + 1
               /\ wait = Never <=> wait' = Never
            \/ /\ hour + 1 = Day /\ hour' = 0
               /\ wait = Never /\ wait' # Never
         /\ hour' \in 0 .. Day - 1 /\ wait' \in 0 .. MaxWait \union {Never}
         /\ DueAtMidnight'
         /\ UNCHANGED <<born, counted, missed>>
         /\ \A e \in JobEvents :
              age'[e] = IF age[e] \in {Never, MaxAge} THEN age[e] ELSE age[e] + 1
  <1>. USE ReportAssumption
  <1>1. /\ wait # 0 /\ hour \in 0 .. Day - 1
        /\ wait # Never => wait \in 1 .. MaxWait /\ hour + wait <= MaxWait
        /\ hour' = IF hour + 1 = Day THEN 0 ELSE hour + 1
        /\ wait' \in IF wait # Never THEN {wait - 1}
                     ELSE IF hour' = 0 THEN 0 .. MaxWait ELSE {Never}
    BY NextHour DEF HourPasses, ReportInv, ReportTypes, DueAtMidnight
  <1>5. /\ UNCHANGED <<born, counted, missed>>
        /\ \A e \in JobEvents :
             age'[e] = IF age[e] \in {Never, MaxAge} THEN age[e] ELSE age[e] + 1
    BY DEF HourPasses
  <1>2. CASE wait = Never /\ hour + 1 = Day
    <2>1. hour' = 0 /\ wait' \in 0 .. MaxWait /\ wait' # Never
      BY <1>1, <1>2
    <2>2. hour' + wait' <= MaxWait /\ hour' \in 0 .. Day - 1
      <3>1. \A w \in 0 .. MaxWait : 0 + w <= MaxWait
        OBVIOUS
      <3>2. 0 \in 0 .. Day - 1
        OBVIOUS
      <3>. QED  BY <2>1, <3>1, <3>2
    <2>3. DueAtMidnight'
      BY <2>2 DEF DueAtMidnight
    <2>. QED  BY <1>1, <1>2, <2>1, <2>2, <2>3, <1>5
  <1>4. CASE wait = Never /\ hour + 1 # Day
    <2>1. hour' = hour + 1 /\ hour + 1 < Day /\ hour' # 0
      BY <1>1, <1>4
    <2>2. wait' = Never
      BY <1>1, <1>4, <2>1
    <2>. QED  BY <1>1, <1>4, <2>1, <2>2, <1>5 DEF DueAtMidnight
  <1>3. CASE wait # Never
    <2>1. /\ hour + 1 < Day /\ hour' = hour + 1
          /\ wait' = wait - 1 /\ wait' \in 0 .. MaxWait /\ hour' + wait' <= MaxWait
      BY <1>1, <1>3
    <2>. QED  BY <1>1, <1>3, <2>1, <1>5 DEF DueAtMidnight
  <1>. QED  BY <1>2, <1>3, <1>4

LEMMA HourPassesKeeps == ReportInv /\ HourPasses => ReportInv'
  <1>. SUFFICES ASSUME ReportInv, HourPasses PROVE ReportInv'
    OBVIOUS
  <1>. USE ReportAssumption
  <1>1. ReportTypes'
    <2>1. \A e \in JobEvents : /\ age'[e] \in 0 .. MaxAge \union {Never}
                               /\ age'[e] = Never <=> age[e] = Never
      BY HourPassesMoves DEF ReportInv, ReportTypes, MaxAge
    <2>2. age' \in [JobEvents -> 0 .. MaxAge \union {Never}]
      BY <2>1 DEF HourPasses
    <2>. QED  BY <2>1, <2>2, HourPassesMoves DEF ReportInv, ReportTypes
  <1>2. DueAtMidnight'
    BY HourPassesMoves
  \* What becomes of an event, by the midnights since.
  <1>3. ASSUME NEW e \in JobEvents, EventKnown(e)'
        PROVE  /\ EventKnown(e) /\ age'[e] = age[e] + 1 /\ age[e] \in Nat
               /\ born[e] \in 0 .. Day - 1
    BY <1>3, HourPassesMoves DEF EventKnown, ReportInv, ReportTypes, MaxAge
  <1>4. ASSUME NEW e \in JobEvents, EventKnown(e)'
        PROVE  /\ hour + 1 < Day => /\ SameDay(e)' <=> SameDay(e)
                                    /\ DayAfter(e)' <=> DayAfter(e)
                                    /\ TwoDaysOn(e)' <=> TwoDaysOn(e)
               /\ hour + 1 = Day => /\ ~SameDay(e)'
                                    /\ DayAfter(e)' <=> SameDay(e)
                                    /\ TwoDaysOn(e)' <=> DayAfter(e)
                                    /\ ~TwoDaysOn(e)
    <2>1. /\ age'[e] = age[e] + 1 /\ age[e] \in Nat /\ age[e] < Day + MaxWait
          /\ born'[e] = born[e] /\ born[e] \in 0 .. Day - 1
          /\ hour \in 0 .. Day - 1
          /\ hour + 1 < Day => hour' = hour + 1
          /\ hour + 1 = Day => hour' = 0
      BY <1>3, <1>4, HourPassesMoves DEF EventKnown, MaxAge, ReportInv, ReportTypes
    <2>. QED  BY <2>1 DEF SameDay, DayAfter, TwoDaysOn
  <1>5. Dated'
    BY <1>3, <1>4, HourPassesMoves DEF ReportInv, Dated
  <1>6. CountedTwice'
    <2>. SUFFICES ASSUME NEW e \in JobEvents
                  PROVE  /\ age'[e] = Never => Covered(e)' = 0
                         /\ Covered(e)' <= 2
                         /\ (EventKnown(e) /\ SameDay(e))' =>
                              Covered(e)' <= IF wait' = Never THEN 1 ELSE 0
                         /\ (EventKnown(e) /\ DayAfter(e))' /\ wait' # Never => Covered(e)' <= 1
      BY DEF CountedTwice
    <2>1. Covered(e)' = Covered(e) /\ Covered(e) <= 2 /\ (age'[e] = Never => Covered(e) = 0)
      BY HourPassesMoves DEF ReportInv, ReportTypes, CountedTwice, Covered
    <2>2. ASSUME EventKnown(e)', SameDay(e)'
          PROVE  Covered(e) <= IF wait' = Never THEN 1 ELSE 0
      BY <1>3, <1>4, <2>2, HourPassesMoves DEF ReportInv, CountedTwice
    <2>3. ASSUME EventKnown(e)', DayAfter(e)', wait' # Never
          PROVE  Covered(e) <= 1
      BY <1>3, <1>4, <2>3, HourPassesMoves DEF ReportInv, CountedTwice
    <2>. QED  BY <2>1, <2>2, <2>3
  <1>7. CountedNextDay'
    <2>. SUFFICES ASSUME NEW e \in JobEvents, born[e] # Never, born[e] >= MaxWait
                  PROVE  /\ (EventKnown(e) /\ SameDay(e))' => Covered(e)' = 0 /\ wait' = Never
                         /\ (EventKnown(e) /\ DayAfter(e))' =>
                              Covered(e)' = IF wait' = Never THEN 1 ELSE 0
                         /\ (EventKnown(e) /\ TwoDaysOn(e))' => Covered(e)' = 1
                         /\ age'[e] = MaxAge => Covered(e)' = 1
      BY HourPassesMoves DEF CountedNextDay
    <2>1. /\ EventKnown(e) /\ SameDay(e) => Covered(e) = 0 /\ wait = Never
          /\ EventKnown(e) /\ DayAfter(e) => Covered(e) = IF wait = Never THEN 1 ELSE 0
          /\ EventKnown(e) /\ TwoDaysOn(e) => Covered(e) = 1
          /\ age[e] = MaxAge => Covered(e) = 1
          /\ EventKnown(e) => SameDay(e) \/ DayAfter(e) \/ TwoDaysOn(e)
      BY DEF ReportInv, CountedNextDay, Dated
    <2>2. Covered(e)' = Covered(e)
      BY HourPassesMoves DEF Covered
    <2>3. ASSUME EventKnown(e)', SameDay(e)' PROVE Covered(e) = 0 /\ wait' = Never
      BY <1>3, <1>4, <2>1, <2>3, HourPassesMoves
    <2>4. ASSUME EventKnown(e)', DayAfter(e)'
          PROVE  Covered(e) = IF wait' = Never THEN 1 ELSE 0
      BY <1>3, <1>4, <2>1, <2>4, HourPassesMoves
    <2>5. ASSUME EventKnown(e)', TwoDaysOn(e)' PROVE Covered(e) = 1
      BY <1>3, <1>4, <2>1, <2>5, HourPassesMoves
    \* It gets too old to be told apart when the second day's run has counted it.
    <2>6. ASSUME age'[e] = MaxAge, age[e] # MaxAge PROVE Covered(e) = 1
      <3>1. /\ age[e] = Day + MaxWait /\ EventKnown(e)
            /\ born[e] \in 0 .. Day - 1 /\ hour \in 0 .. Day - 1
            /\ wait # 0 /\ (wait # Never => wait \in Nat /\ hour + wait <= MaxWait)
        BY <2>6, HourPassesMoves
           DEF EventKnown, MaxAge, ReportInv, ReportTypes, DueAtMidnight
      <3>2. ~SameDay(e)
        BY <3>1 DEF SameDay
      <3>3. DayAfter(e) => wait = Never
        BY <3>1 DEF DayAfter
      <3>. QED  BY <2>1, <3>1, <3>2, <3>3
    <2>. QED  BY <2>1, <2>2, <2>3, <2>4, <2>5, <2>6
  <1>. QED  BY <1>1, <1>2, <1>5, <1>6, <1>7 DEF ReportInv

\* A run, made or lost, covers what is up to a day old.
LEMMA EndOfRunKeeps == ReportInv /\ (DailyOpsReport \/ LoseReport) => ReportInv'
  <1>. SUFFICES ASSUME ReportInv, DailyOpsReport \/ LoseReport PROVE ReportInv'
    OBVIOUS
  <1>. USE ReportAssumption
  <1>1. /\ wait = 0 /\ wait' = Never /\ UNCHANGED <<age, born, hour>>
        /\ 0 # Never /\ hour \in 0 .. MaxWait /\ hour \in 0 .. Day - 1
    BY DEF DailyOpsReport, LoseReport, EndRun, ReportInv, ReportTypes, DueAtMidnight
  <1>2. \A e \in JobEvents :
          /\ Covered(e) \in Nat
          /\ Covered(e)' = IF Since(e) THEN Covered(e) + 1 ELSE Covered(e)
    BY DEF DailyOpsReport, LoseReport, CountInto, ReportInv, ReportTypes, Covered
  <1>3. ReportTypes'
    BY <1>1 DEF DailyOpsReport, LoseReport, CountInto, ReportInv, ReportTypes
  <1>4. DueAtMidnight'
    BY <1>1 DEF DueAtMidnight
  <1>5. \A e \in JobEvents : /\ EventKnown(e)' <=> EventKnown(e)
                             /\ SameDay(e)' <=> SameDay(e)
                             /\ DayAfter(e)' <=> DayAfter(e)
                             /\ TwoDaysOn(e)' <=> TwoDaysOn(e)
    BY <1>1 DEF EventKnown, SameDay, DayAfter, TwoDaysOn
  <1>6. Dated'
    BY <1>5 DEF ReportInv, Dated
  \* Only a known event is counted, and none from before yesterday.
  <1>7. ASSUME NEW e \in JobEvents, Since(e)
        PROVE  EventKnown(e) /\ ~TwoDaysOn(e)
    <2>1. age[e] \in 0 .. Day /\ born[e] \in 0 .. Day - 1
      BY <1>7 DEF Since, ReportInv, ReportTypes
    <2>. QED  BY <1>1, <2>1 DEF EventKnown, MaxAge, TwoDaysOn
  <1>8. CountedTwice'
    <2>. SUFFICES ASSUME NEW e \in JobEvents
                  PROVE  /\ age[e] = Never => Covered(e)' = 0
                         /\ Covered(e)' <= 2
                         /\ EventKnown(e) /\ SameDay(e) => Covered(e)' <= 1
      BY <1>1, <1>5 DEF CountedTwice
    <2>1. /\ age[e] = Never => Covered(e) = 0
          /\ Covered(e) \in Nat /\ Covered(e) <= 2
          /\ EventKnown(e) /\ SameDay(e) => Covered(e) = 0
          /\ EventKnown(e) /\ DayAfter(e) => Covered(e) <= 1
      BY <1>1, <1>2 DEF ReportInv, CountedTwice
    <2>2. CASE Since(e)
      <3>1. EventKnown(e) /\ (SameDay(e) \/ DayAfter(e)) /\ age[e] # Never
        BY <1>7, <2>2 DEF ReportInv, Dated, EventKnown
      <3>. QED  BY <1>2, <2>1, <2>2, <3>1
    <2>3. CASE ~Since(e)
      BY <1>2, <2>1, <2>3
    <2>. QED  BY <2>2, <2>3
  <1>9. CountedNextDay'
    <2>. SUFFICES ASSUME NEW e \in JobEvents, born[e] # Never, born[e] >= MaxWait
                  PROVE  /\ EventKnown(e) => ~SameDay(e)
                         /\ EventKnown(e) /\ DayAfter(e) => Covered(e)' = 1
                         /\ EventKnown(e) /\ TwoDaysOn(e) => Covered(e)' = 1
                         /\ age[e] = MaxAge => Covered(e)' = 1
      BY <1>1, <1>5 DEF CountedNextDay
    <2>1. /\ EventKnown(e) => ~SameDay(e)
          /\ EventKnown(e) /\ DayAfter(e) => Covered(e) = 0
          /\ EventKnown(e) /\ TwoDaysOn(e) => Covered(e) = 1
          /\ age[e] = MaxAge => Covered(e) = 1
      BY <1>1 DEF ReportInv, CountedNextDay
    <2>2. EventKnown(e) /\ DayAfter(e) => Since(e)
      <3>. SUFFICES ASSUME EventKnown(e), DayAfter(e) PROVE Since(e)
        OBVIOUS
      <3>1. age[e] \in Nat /\ born[e] \in Nat /\ born[e] + age[e] = hour + Day
        BY DEF EventKnown, DayAfter, ReportInv, ReportTypes
      <3>2. age[e] <= Day
        BY <1>1, <3>1
      <3>. QED  BY <3>2 DEF Since, EventKnown
    <2>3. EventKnown(e) /\ TwoDaysOn(e) => ~Since(e)
      BY <1>7
    <2>4. age[e] = MaxAge => ~Since(e)
      BY <1>7 DEF EventKnown, MaxAge
    <2>. QED  BY <1>2, <2>1, <2>2, <2>3, <2>4
  <1>. QED  BY <1>3, <1>4, <1>6, <1>8, <1>9 DEF ReportInv

LEMMA ReportStep == ReportInv /\ [ReportNext]_reportVars => ReportInv'
  <1>. SUFFICES ASSUME ReportInv, UNCHANGED reportVars PROVE ReportInv'
    BY LogEventKeeps, HourPassesKeeps, EndOfRunKeeps DEF ReportNext
  <1>. QED  BY DEF reportVars, ReportInv, ReportTypes, DueAtMidnight, Dated, CountedTwice,
                   CountedNextDay, Covered, EventKnown, SameDay, DayAfter, TwoDaysOn

\* Every reachable state satisfies the inductive invariant.
THEOREM ReportInvariant == ReportSpec => []ReportInv
  BY ReportInitial, ReportStep, PTL DEF ReportSpec

\* Whatever the day, however late the runs and whichever are lost, one run is to
\* count an event, but for those of a day's first units, which may be in two.
THEOREM EventsCountedOnce == ReportSpec => []CountedOnce
  <1>1. ASSUME ReportInv PROVE CountedOnce
    <2>. SUFFICES ASSUME NEW e \in JobEvents
                  PROVE  /\ Covered(e) <= 2
                         /\ age[e] # Never /\ born[e] >= MaxWait =>
                              /\ Covered(e) <= 1
                              /\ age[e] = MaxAge => Covered(e) = 1
      BY DEF CountedOnce
    <2>1. Covered(e) <= 2
      BY <1>1 DEF ReportInv, CountedTwice
    <2>2. ASSUME age[e] # Never, born[e] >= MaxWait
          PROVE  Covered(e) <= 1 /\ (age[e] = MaxAge => Covered(e) = 1)
      <3>1. born[e] # Never /\ (age[e] = MaxAge \/ EventKnown(e))
        BY <1>1, <2>2, ReportAssumption DEF ReportInv, ReportTypes, EventKnown, MaxAge
      <3>. QED  BY <1>1, <2>2, <3>1 DEF ReportInv, CountedNextDay, Dated
    <2>. QED  BY <2>1, <2>2
  <1>. QED  BY <1>1, ReportInvariant, PTL
=============================================================================
