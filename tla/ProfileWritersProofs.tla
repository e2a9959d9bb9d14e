------------------------ MODULE ProfileWritersProofs ------------------------
(***************************************************************************)
(* What an AgentProfile row can be taken to, by any number of connections  *)
(* and forms, for any threshold and any delay between now() and the save.  *)
(***************************************************************************)
EXTENDS ProfileWriters, TLAPS

-----------------------------------------------------------------------------
(* The inductive invariant.                                                *)

\* NeverTooFresh of any age: no fresher than the newest ping or the newest entry.
Bounded(age) ==
  age # Never =>
    \/ newest # Never /\ newest <= age
    \/ entered # Never /\ entered <= age

\* What a form shows was true of the row.
FormsTrue == \A f \in Staff : form[f] # NoForm => Bounded(form[f])

\* Since the last ping only the sweep has written the status, or a form has.
OnlineUntilStale == ~restored => status = "online" \/ Stale

WritersInv ==
  /\ WritersTypeOK
  /\ FormsTrue
  /\ OnlineUntilStale
  /\ LastPingKept
  /\ NeverTooFresh

-----------------------------------------------------------------------------

\* Growing older keeps the order of two ages, and their distance from growing.
LEMMA OlderKeepsOrder ==
  ASSUME NEW m \in Ages, NEW n \in Ages
  PROVE  /\ Older(m) \in Ages
         /\ m \in 0 .. MaxAge \union {Never} => Older(m) \in 0 .. MaxAge \union {Never}
         /\ Older(m) = Never <=> m = Never
         /\ m # Never /\ n # Never =>
              /\ m <= n => Older(m) <= Older(n)
              /\ \A d \in Nat : n <= m + d => Older(n) <= Older(m) + d
         /\ m # Never => m <= Older(m) /\ Older(m) <= m + 1
  BY WritersAssumption DEF Ages, Instants, MaxAge, Older

LEMMA StallIsAge ==
  /\ MaxStall \in Nat
  /\ 0 .. MaxStall \subseteq 0 .. MaxAge
  /\ 0 .. MaxAge \subseteq Instants
  /\ Instants \subseteq Int
  /\ 0 \in Instants /\ 0 \in 0 .. MaxStall
  /\ Ages = Instants \union {Never} /\ Never \notin Instants
  BY WritersAssumption DEF Ages, Instants, MaxAge

\* The newest of two instants.
LEMMA NewerIsNewest ==
  ASSUME NEW m \in Int, NEW n \in Int \union {Never}
  PROVE  /\ Newer(m, n) \in {m, n} /\ Newer(m, n) \in Int /\ Newer(m, n) # Never
         /\ Newer(m, n) <= m
         /\ n # Never => Newer(m, n) <= n
  BY WritersAssumption DEF Newer

LEMMA WritersInitial == WritersInit => WritersInv
  BY WritersAssumption, StallIsAge
     DEF WritersInit, WritersInv, WritersTypeOK, FormsTrue, OnlineUntilStale, LastPingKept,
         NeverTooFresh

-----------------------------------------------------------------------------
(* One lemma for each action that has something to it.                     *)

LEMMA StampKeeps ==
  ASSUME WritersInv, NEW c \in Connections, Stamp(c)
  PROVE  WritersInv'
  <1>. USE DEF WritersInv, Stamp
  <1>1. WritersTypeOK'
    BY StallIsAge DEF WritersTypeOK
  <1>. QED
    BY <1>1 DEF FormsTrue, Bounded, OnlineUntilStale, Stale, LastPingKept, NeverTooFresh

\* The row gets the ping this connection holds, be it not the newest.
LEMMA SaveKeeps ==
  ASSUME WritersInv, NEW c \in Connections, SaveLocation(c)
  PROVE  WritersInv'
  <1>. USE DEF WritersInv
  <1>1. /\ stamp[c] \in 0 .. MaxStall
        /\ pc' = [pc EXCEPT ![c] = "idle"]
        /\ status' = "online" /\ pingAge' = stamp[c] /\ restored' = FALSE
        /\ newest' = Newer(stamp[c], newest)
        /\ UNCHANGED <<stamp, form, entered>>
    BY DEF SaveLocation, WritersTypeOK
  <1>2. /\ stamp[c] \in 0 .. MaxAge /\ stamp[c] \in Int /\ stamp[c] # Never
        /\ newest \in 0 .. MaxAge \union {Never} /\ newest \in Int \union {Never}
    BY <1>1, StallIsAge DEF WritersTypeOK
  <1>3. /\ newest' \in 0 .. MaxAge /\ newest' \in Int /\ newest' # Never
        /\ newest' <= stamp[c]
        /\ newest # Never => newest' <= newest
    <2>1. /\ newest' \in {stamp[c], newest} /\ newest' \in Int /\ newest' # Never
          /\ newest' <= stamp[c]
          /\ newest # Never => newest' <= newest
      BY <1>1, <1>2, NewerIsNewest
    <2>. QED  BY <1>2, <2>1
  <1>4. WritersTypeOK'
    BY <1>1, <1>2, <1>3, StallIsAge DEF WritersTypeOK, Statuses
  <1>5. FormsTrue'
    <2>. SUFFICES ASSUME NEW f \in Staff, form[f] # NoForm, form[f] # Never,
                         newest # Never, newest <= form[f]
                  PROVE  newest' <= form[f]
      BY <1>1, <1>3 DEF FormsTrue, Bounded
    <2>1. form[f] \in Int /\ newest \in Int
      BY <1>2, StallIsAge DEF WritersTypeOK
    <2>. QED  BY <1>3, <2>1
  <1>6. OnlineUntilStale' /\ LastPingKept' /\ NeverTooFresh'
    <2>1. stamp[c] <= newest' + MaxStall
      BY <1>1, <1>3, StallIsAge
    <2>. QED
      BY <1>1, <1>2, <1>3, <2>1 DEF OnlineUntilStale, LastPingKept, NeverTooFresh
  <1>. QED  BY <1>4, <1>5, <1>6

LEMMA OpenKeeps ==
  ASSUME WritersInv, NEW f \in Staff, OpenForm(f)
  PROVE  WritersInv'
  <1>. USE DEF WritersInv, OpenForm
  <1>1. WritersTypeOK'
    BY DEF WritersTypeOK
  <1>2. FormsTrue'
    BY DEF WritersTypeOK, FormsTrue, Bounded, NeverTooFresh
  <1>. QED
    BY <1>1, <1>2 DEF OnlineUntilStale, Stale, LastPingKept, NeverTooFresh

\* A form writes what it showed or nothing, or staff enter an instant.
LEMMA FormKeeps ==
  ASSUME WritersInv, NEW f \in Staff, SaveForm(f)
  PROVE  WritersInv'
  <1>. USE DEF WritersInv
  <1>0. /\ form[f] # NoForm /\ form[f] \in Ages
        /\ status' \in Statuses
        /\ form' = [form EXCEPT ![f] = NoForm] /\ restored'
        /\ UNCHANGED <<pc, newest, stamp>>
    BY DEF SaveForm, WritersTypeOK
  <1>1. CASE pingAge' \in {form[f], Never} /\ UNCHANGED entered
    <2>1. WritersTypeOK'
      BY <1>0, <1>1, StallIsAge DEF WritersTypeOK
    <2>2. FormsTrue' /\ NeverTooFresh'
      BY <1>0, <1>1 DEF FormsTrue, Bounded, NeverTooFresh, WritersTypeOK
    <2>. QED  BY <1>0, <2>1, <2>2 DEF OnlineUntilStale, LastPingKept
  <1>2. CASE \E t \in Instants : pingAge' = t /\ entered' = Newer(t, entered)
    <2>1. PICK t \in Instants : pingAge' = t /\ entered' = Newer(t, entered)
      BY <1>2
    <2>2. /\ t \in Int /\ entered \in Int \union {Never}
      BY StallIsAge DEF WritersTypeOK
    <2>3. /\ entered' \in Ages /\ entered' # Never /\ entered' \in Int /\ entered' <= t
          /\ entered # Never => entered' <= entered
      <3>1. /\ entered' \in {t, entered} /\ entered' \in Int /\ entered' # Never
            /\ entered' <= t
            /\ entered # Never => entered' <= entered
        BY <2>1, <2>2, NewerIsNewest
      <3>2. t \in Ages /\ entered \in Ages
        BY StallIsAge DEF WritersTypeOK
      <3>. QED  BY <3>1, <3>2
    <2>4. WritersTypeOK'
      BY <1>0, <2>1, <2>3, StallIsAge DEF WritersTypeOK
    <2>5. ASSUME NEW g \in Staff, form[g] # NoForm, form[g] # Never,
                 entered # Never, entered <= form[g]
          PROVE  entered' <= form[g]
      <3>1. form[g] \in Int /\ entered \in Int
        BY <2>2, <2>5, StallIsAge DEF WritersTypeOK
      <3>. QED  BY <2>3, <2>5, <3>1
    <2>6. FormsTrue'
      BY <1>0, <2>3, <2>5 DEF FormsTrue, Bounded, WritersTypeOK
    <2>7. NeverTooFresh'
      BY <2>1, <2>3 DEF NeverTooFresh
    <2>. QED  BY <1>0, <2>4, <2>6, <2>7 DEF OnlineUntilStale, LastPingKept
  <1>. QED  BY <1>1, <1>2 DEF SaveForm

LEMMA SweepKeeps ==
  ASSUME WritersInv, Sweep
  PROVE  WritersInv'
  BY DEF Sweep, WritersInv, WritersTypeOK, Statuses, FormsTrue, Bounded, OnlineUntilStale,
         Stale, LastPingKept, NeverTooFresh

\* All ages grow together.
LEMMA TickKeeps ==
  ASSUME WritersInv, Tick
  PROVE  WritersInv'
  <1>. USE DEF WritersInv
  <1>1. /\ stamp' = [c \in Connections |-> Older(stamp[c])]
        /\ pingAge' = Older(pingAge) /\ newest' = Older(newest) /\ entered' = Older(entered)
        /\ UNCHANGED <<pc, status, restored>>
        /\ pingAge \in Ages /\ newest \in Ages /\ entered \in Ages
        /\ newest \in 0 .. MaxAge \union {Never}
        /\ \A c \in Connections : stamp[c] \in 0 .. MaxAge \union {Never}
        /\ MaxStall \in Nat
    BY StallIsAge DEF Tick, WritersTypeOK
  <1>2. ASSUME NEW f \in Staff, form'[f] # NoForm
        PROVE  form[f] # NoForm /\ form[f] \in Ages /\ form'[f] = Older(form[f])
    BY <1>2 DEF Tick, WritersTypeOK
  <1>3. form' \in [Staff -> Ages \union {NoForm}]
    <2>. SUFFICES ASSUME NEW f \in Staff, form[f] # NoForm
                  PROVE  Older(form[f]) \in Ages
      BY DEF Tick
    <2>. QED  BY OlderKeepsOrder DEF WritersTypeOK
  <1>4. ASSUME NEW c \in Connections
        PROVE  /\ stamp'[c] \in 0 .. MaxAge \union {Never}
               /\ pc[c] = "stamped" => stamp'[c] \in 0 .. MaxStall
    <2>1. stamp[c] \in Ages
      BY <1>1, StallIsAge
    <2>2. Older(stamp[c]) \in 0 .. MaxAge \union {Never}
      BY <1>1, <2>1, OlderKeepsOrder
    <2>3. ASSUME pc[c] = "stamped"
          PROVE  Older(stamp[c]) \in 0 .. MaxStall
      <3>1. stamp[c] \in 0 .. MaxStall /\ stamp[c] # MaxStall
        BY <2>3 DEF Tick, WritersTypeOK
      <3>. QED  BY <3>1, WritersAssumption DEF Older, MaxAge
    <2>. QED  BY <1>1, <2>2, <2>3
  <1>5. WritersTypeOK'
    BY <1>1, <1>3, <1>4, OlderKeepsOrder DEF WritersTypeOK
  <1>6. FormsTrue'
    <2>. SUFFICES ASSUME NEW f \in Staff, form'[f] # NoForm
                  PROVE  Bounded(form[f])'
      BY DEF FormsTrue, Bounded
    <2>. QED  BY <1>1, <1>2, OlderKeepsOrder DEF FormsTrue, Bounded
  <1>7. OnlineUntilStale'
    <2>1. Stale => Stale'
      <3>. SUFFICES ASSUME pingAge # Never, pingAge > StaleAfter
                    PROVE  Older(pingAge) # Never /\ Older(pingAge) > StaleAfter
        BY <1>1 DEF Stale
      <3>1. pingAge \in Int
        BY <1>1, StallIsAge
      <3>2. Older(pingAge) \in Ages /\ Older(pingAge) # Never /\ pingAge <= Older(pingAge)
        BY <1>1, OlderKeepsOrder
      <3>3. Older(pingAge) \in Int
        BY <3>2, StallIsAge
      <3>. QED  BY <3>1, <3>2, <3>3, WritersAssumption
    <2>. QED  BY <1>1, <2>1 DEF OnlineUntilStale
  <1>8. LastPingKept' /\ NeverTooFresh'
    BY <1>1, OlderKeepsOrder DEF LastPingKept, NeverTooFresh
  <1>. QED  BY <1>5, <1>6, <1>7, <1>8

LEMMA WritersStep == WritersInv /\ [WritersNext]_writersVars => WritersInv'
  <1>. SUFFICES ASSUME WritersInv, UNCHANGED writersVars PROVE WritersInv'
    BY StampKeeps, SaveKeeps, SweepKeeps, OpenKeeps, FormKeeps, TickKeeps DEF WritersNext
  <1>. QED
    BY DEF writersVars, WritersInv, WritersTypeOK, FormsTrue, Bounded, OnlineUntilStale, Stale,
           LastPingKept, NeverTooFresh

-----------------------------------------------------------------------------

\* Every reachable state satisfies the invariant.
THEOREM WritersInvariant == WritersSpec => []WritersInv
  BY WritersInitial, WritersStep, PTL DEF WritersSpec

\* Types; a ping that is being saved has an instant of its own, and a recent one.
THEOREM WritersTypesCorrect == WritersSpec => []WritersTypeOK
  <1>1. WritersInv => WritersTypeOK
    BY DEF WritersInv
  <1>. QED  BY <1>1, WritersInvariant, PTL

\* record_location: unless a form was saved since, last_ping_at lags behind the
\* newest ping by no more than a save may be held up.
THEOREM PingsKept == WritersSpec => []LastPingKept
  <1>1. WritersInv => LastPingKept
    BY DEF WritersInv
  <1>. QED  BY <1>1, WritersInvariant, PTL

\* The sweep and the saves that overtake each other leave an agent online whose
\* newest ping is within the threshold, less the time a save may be held up.
THEOREM HeardOnline == WritersSpec => []HeardIsOnline
  <1>1. WritersInv => HeardIsOnline
    <2>. SUFFICES ASSUME WritersInv, newest # Never, newest + MaxStall <= StaleAfter, ~restored
                  PROVE  status = "online"
      BY DEF HeardIsOnline
    <2>1. /\ pingAge \in Int /\ newest \in Int /\ pingAge <= newest + MaxStall
      BY StallIsAge DEF WritersInv, WritersTypeOK, LastPingKept
    <2>2. ~ Stale
      BY <2>1, WritersAssumption DEF Stale
    <2>. QED  BY <2>2 DEF WritersInv, OnlineUntilStale
  <1>. QED  BY <1>1, WritersInvariant, PTL

\* Nobody counts as heard of later than the newest ping and the newest entry of
\* staff, however often forms write old values back.
THEOREM NobodyTooFresh == WritersSpec => []NeverTooFresh
  <1>1. WritersInv => NeverTooFresh
    BY DEF WritersInv
  <1>. QED  BY <1>1, WritersInvariant, PTL
=============================================================================
