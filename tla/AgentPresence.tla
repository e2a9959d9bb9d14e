--------------------------- MODULE AgentPresence ----------------------------
(***************************************************************************)
(* Who is online: the location pings of the agents' sockets                *)
(* (consumers.py, accounts/services.py), the sweep that expires the silent *)
(* ones (tasks.py), and what the sockets of the organizations' groups get  *)
(* to see of it.                                                           *)
(*                                                                         *)
(* Time is counted in minutes, and instants are kept as ages so that       *)
(* behaviours go on forever.  A ping is saved in the minute it arrives in; *)
(* a sweep may wait in the queue for MaxLate minutes.  Staff, who may set  *)
(* every column of a profile in the admin, do so before the behaviour      *)
(* begins; ProfileWriters has their forms among the other writers.         *)
(***************************************************************************)
EXTENDS Accounts, Integers

CONSTANTS
  Sockets,     \* WebSocket connections to /ws/dispatch/ and /ws/agent/
  UserOf,      \* the user whose token a connection carries
  Never,       \* the age of a last_ping_at that is NULL
  StaleAfter,  \* stale_after_minutes of expire_stale_locations
  SweepEvery,  \* its period in CELERY_BEAT_SCHEDULE
  MaxLate,     \* bound: the minutes a sweep may wait for a worker
  Entered      \* the ages of the last_ping_at that staff enter

\* Where the counters stop: nothing is distinguished beyond.
MaxAge == StaleAfter + SweepEvery + MaxLate + 1

ASSUME PresenceAssumption ==
  /\ UserOf \in [Sockets -> Users]
  /\ StaleAfter \in Nat /\ SweepEvery \in Nat \ {0} /\ MaxLate \in Nat
  /\ Never \notin Nat
  /\ Entered \subseteq 0 .. MaxAge

VARIABLES
  presence,    \* AgentProfile.status, "none" while there is no row
  pingAge,     \* minutes since last_ping_at, or Never
  heard,       \* the agents who have pinged
  socket,      \* per connection: "closed", "open", or "saved" between the two
               \* awaits of receive_json
  group,       \* the channel layer: the connections in each organization's group
  view,        \* per connection, the agents whose location it was sent
  minute,      \* the clock, modulo SweepEvery
  sweep        \* minutes the due sweep has waited, or Never

presenceVars == <<presence, pingAge, heard, socket, group, view, minute, sweep>>

Agents == {u \in Users : Role[u] = "agent"}

Older(n) == IF n = Never \/ n = MaxAge THEN n ELSE n + 1

\* A profile nobody uses yet is as staff left it: with any status, and with
\* last_ping_at blank or entered by hand.
PresenceInit ==
  /\ presence \in [Agents -> {"none", "offline", "online", "busy"}]
  /\ pingAge \in [Agents -> Entered \union {Never}]
  /\ \A a \in Agents : presence[a] = "none" => pingAge[a] = Never
  /\ heard = {}
  /\ socket = [s \in Sockets |-> "closed"]
  /\ group = [o \in Orgs \union {NoOrg} |-> {}]
  /\ view = [s \in Sockets |-> {}]
  /\ minute = 0
  /\ sweep = Never

-----------------------------------------------------------------------------
(* The sockets.                                                            *)

\* org_group: one group per organization.  The mutant has one for all.
AnyGroup(u) == CHOOSE o \in Orgs : TRUE
OrgGroup(u) == OrgOf[u]

\* DispatchConsumer and AgentConsumer refuse every other role.  (A superuser
\* with the dispatcher role and no organization joins "org.None".)
MayConnect(u) == Role[u] \in {"dispatcher", "agent"}

Connect(s) ==
  /\ socket[s] = "closed"
  /\ MayConnect(UserOf[s])
  /\ socket' = [socket EXCEPT ![s] = "open"]
  /\ group' = [group EXCEPT ![OrgGroup(UserOf[s])] = @ \union {s}]
  /\ UNCHANGED <<presence, pingAge, heard, view, minute, sweep>>

\* record_location: update_or_create of the profile.  The mutant leaves
\* last_ping_at as it is.
RecordOnline(a) ==
  /\ presence' = [presence EXCEPT ![a] = "online"]
  /\ UNCHANGED pingAge
RecordLocation(a) ==
  /\ presence' = [presence EXCEPT ![a] = "online"]
  /\ pingAge' = [pingAge EXCEPT ![a] = 0]

\* receive_json up to the await of record_location.
Ping(s) ==
  /\ socket[s] = "open"
  /\ Role[UserOf[s]] = "agent"
  /\ RecordLocation(UserOf[s])
  /\ heard' = heard \union {UserOf[s]}
  /\ socket' = [socket EXCEPT ![s] = "saved"]
  /\ UNCHANGED <<group, view, minute, sweep>>

\* group_send, and agent_location on every consumer of the group.
Broadcast(s) ==
  LET a == UserOf[s]
  IN  /\ socket[s] = "saved"
      /\ view' = [t \in Sockets |->
                    IF t \in group[OrgGroup(a)] THEN view[t] \union {a} ELSE view[t]]
      /\ socket' = [socket EXCEPT ![s] = "open"]
      /\ UNCHANGED <<presence, pingAge, heard, group, minute, sweep>>

\* The client goes, the consumer raises on a malformed ping, or the process
\* dies with the ping saved and not sent.
Disconnect(s) ==
  /\ socket[s] # "closed"
  /\ socket' = [socket EXCEPT ![s] = "closed"]
  /\ group' = [group EXCEPT ![OrgGroup(UserOf[s])] = @ \ {s}]
  /\ view' = [view EXCEPT ![s] = {}]
  /\ UNCHANGED <<presence, pingAge, heard, minute, sweep>>

-----------------------------------------------------------------------------
(* The sweep.                                                              *)

\* last_ping_at__lt = threshold; a NULL is not less than anything.  The
\* mutant is late by the period of the sweep.
StaleLate(a) == pingAge[a] # Never /\ pingAge[a] > StaleAfter + SweepEvery
Stale(a) == pingAge[a] # Never /\ pingAge[a] > StaleAfter

\* expire_stale_locations: one UPDATE, of profiles that are online.  Nothing
\* is sent to a group.  The mutant goes by the agents who are connected.
ExpireConnected ==
  /\ sweep # Never
  /\ presence' = [a \in Agents |->
       IF /\ presence[a] = "online"
          /\ Stale(a)
          /\ \E s \in group[OrgGroup(a)] : UserOf[s] = a
       THEN "offline" ELSE presence[a]]
  /\ sweep' = Never
  /\ UNCHANGED <<pingAge, heard, socket, group, view, minute>>

ExpireStaleLocations ==
  /\ sweep # Never
  /\ presence' = [a \in Agents |->
       IF presence[a] = "online" /\ Stale(a) THEN "offline" ELSE presence[a]]
  /\ sweep' = Never
  /\ UNCHANGED <<pingAge, heard, socket, group, view, minute>>

\* A minute passes; beat schedules the sweep when its time has come.
Tick ==
  /\ sweep # MaxLate
  /\ pingAge' = [a \in Agents |-> Older(pingAge[a])]
  /\ minute' = (minute + 1) % SweepEvery
  /\ sweep' = IF sweep # Never THEN sweep + 1
              ELSE IF minute' = 0 THEN 0 ELSE Never
  /\ UNCHANGED <<presence, heard, socket, group, view>>

PresenceNext ==
  \/ \E s \in Sockets : Connect(s) \/ Ping(s) \/ Broadcast(s) \/ Disconnect(s)
  \/ ExpireStaleLocations
  \/ Tick

PresenceSpec == PresenceInit /\ [][PresenceNext]_presenceVars

\* Time passes, beat and a worker are up, and a consumer that awaits goes on.
PresenceFairness ==
  /\ WF_presenceVars(Tick)
  /\ WF_presenceVars(ExpireStaleLocations)
  /\ \A s \in Sockets : WF_presenceVars(Broadcast(s))

FairPresenceSpec == PresenceSpec /\ PresenceFairness

-----------------------------------------------------------------------------
(* Properties.                                                             *)

\* Types; an agent who has pinged has a profile, and a last_ping_at for the sweep
\* to compare.
PresenceTypeOK ==
  /\ presence \in [Agents -> {"none", "offline", "online", "busy"}]
  /\ pingAge \in [Agents -> 0 .. MaxAge \union {Never}]
  /\ heard \subseteq Agents
  /\ socket \in [Sockets -> {"closed", "open", "saved"}]
  /\ group \in [Orgs \union {NoOrg} -> SUBSET Sockets]
  /\ view \in [Sockets -> SUBSET Agents]
  /\ minute \in 0 .. SweepEvery - 1
  /\ sweep \in 0 .. MaxLate \union {Never}
  /\ \A a \in heard : presence[a] # "none" /\ pingAge[a] # Never

\* architecture.md #7: a silent agent goes offline.  The threshold and the
\* period of the sweep add up: no agent who has pinged is online with a last
\* ping that is older.
OnlineIsFresh ==
  \A a \in heard :
    presence[a] = "online" => pingAge[a] <= StaleAfter + SweepEvery + MaxLate

\* system-design.md #2: a connection is sent the locations of its own
\* organization's agents and of no others.
LocationStaysInTenant ==
  \A s \in Sockets : \A a \in view[s] : OrgOf[a] = OrgOf[UserOf[s]]

\* Connected or not, an agent who is online pings again or is taken offline,
\* whoever set him online; except that the sweep never finds a profile that
\* staff set online and left without a last_ping_at.
SilentGoesOffline ==
  \A a \in Agents :
    presence[a] = "online" /\ pingAge[a] # Never
      ~> presence[a] = "offline" \/ pingAge[a] = 0
=============================================================================
