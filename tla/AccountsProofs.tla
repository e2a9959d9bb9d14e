---------------------------- MODULE AccountsProofs ---------------------------
(***************************************************************************)
(* The accounts app.  Presence: nobody who has pinged stays online once he *)
(* has gone silent, and locations stay in their tenant, for any number of  *)
(* agents, sockets and organizations, any threshold, any period and any    *)
(* lateness of the sweep.                                                  *)
(*                                                                         *)
(* Bootstrap, for any e-mails, any number of processes and of crashes: the *)
(* table holds normalized e-mails only, a process that ended has left a    *)
(* row, which its next lookup finds; and a process with a mailbox of its   *)
(* own is in between its queries only while the row is not there, because  *)
(* nobody else can have inserted it.                                       *)
(***************************************************************************)
EXTENDS AgentPresence, Bootstrap, TLAPS

-----------------------------------------------------------------------------
(* Presence: the inductive invariant.                                      *)

\* Only an agent's connection gets to broadcast a location.
SavedByAgents == \A s \in Sockets : socket[s] = "saved" => Role[UserOf[s]] = "agent"

\* How old an online agent's ping may be by now.  A sweep leaves nobody beyond
\* the threshold; since then the clock went once round at most, and the sweep
\* that is due waits since it did.
SilenceAllowed == StaleAfter + (IF sweep = Never THEN minute ELSE SweepEvery + sweep)

Fresh == \A a \in heard : presence[a] = "online" => pingAge[a] <= SilenceAllowed

\* A group has members of its organization only.
GroupsApart ==
  \A o \in Orgs \union {NoOrg} : \A s \in group[o] : OrgOf[UserOf[s]] = o

PresenceInv ==
  /\ PresenceTypeOK
  /\ SavedByAgents
  /\ Fresh
  /\ GroupsApart
  /\ LocationStaysInTenant

-----------------------------------------------------------------------------

\* The clock of the beat.
LEMMA ClockTurns ==
  ASSUME NEW n \in Nat \ {0}, NEW m \in 0 .. n - 1
  PROVE  /\ (m + 1) % n \in 0 .. n - 1
         /\ (m + 1) % n = IF m + 1 = n THEN 0 ELSE m + 1
  <1>1. CASE m + 1 = n
    <2>1. n % n = 0
      OBVIOUS
    <2>. QED  BY <1>1, <2>1
  <1>2. CASE m + 1 # n
    <2>1. m + 1 \in 0 .. n - 1
      BY <1>2
    <2>2. (m + 1) % n = m + 1
      BY <2>1
    <2>. QED  BY <1>2, <2>1, <2>2
  <1>. QED  BY <1>1, <1>2

LEMMA OlderByOne ==
  ASSUME NEW n \in 0 .. MaxAge \union {Never}
  PROVE  /\ Older(n) \in 0 .. MaxAge \union {Never}
         /\ Older(n) = Never <=> n = Never
         /\ n # Never => Older(n) <= n + 1
  BY PresenceAssumption DEF MaxAge, Older

LEMMA PresenceInitial == PresenceInit => PresenceInv
  <1>. SUFFICES ASSUME PresenceInit PROVE PresenceInv
    OBVIOUS
  <1>. USE PresenceAssumption DEF PresenceInit
  <1>0. pingAge \in [Agents -> 0 .. MaxAge \union {Never}]
    <2>1. Entered \union {Never} \subseteq 0 .. MaxAge \union {Never}
      OBVIOUS
    <2>. QED  BY <2>1
  <1>1. PresenceTypeOK
    BY <1>0 DEF PresenceTypeOK
  <1>. QED
    BY <1>1 DEF PresenceInv, SavedByAgents, Fresh, GroupsApart, LocationStaysInTenant

-----------------------------------------------------------------------------
(* One lemma for each action.                                              *)

LEMMA ConnectKeeps ==
  ASSUME PresenceInv, NEW s \in Sockets, Connect(s) \/ Disconnect(s)
  PROVE  PresenceInv'
  <1>. USE DEF PresenceInv
  <1>. DEFINE o == OrgGroup(UserOf[s])
  <1>1. o \in Orgs \union {NoOrg} /\ OrgOf[UserOf[s]] = o
    BY AccountsAssumption, PresenceAssumption DEF OrgGroup
  <1>2. /\ UNCHANGED <<presence, pingAge, heard, minute, sweep>>
        /\ socket' \in [Sockets -> {"closed", "open", "saved"}]
        /\ \A t \in Sockets : socket'[t] = "saved" => socket[t] = "saved"
        /\ view' \in [Sockets -> SUBSET Agents]
        /\ \A t \in Sockets : view'[t] \subseteq view[t]
    BY DEF Connect, Disconnect, PresenceTypeOK
  <1>3. /\ group' \in [Orgs \union {NoOrg} -> SUBSET Sockets]
        /\ \A p \in Orgs \union {NoOrg} : group'[p] \subseteq group[p] \union IF p = o THEN {s} ELSE {}
    BY <1>1 DEF Connect, Disconnect, PresenceTypeOK
  <1>4. PresenceTypeOK' /\ Fresh'
    BY <1>2, <1>3 DEF PresenceTypeOK, Fresh, SilenceAllowed
  <1>5. GroupsApart'
    BY <1>1, <1>3 DEF GroupsApart
  <1>6. SavedByAgents' /\ LocationStaysInTenant'
    BY <1>2 DEF SavedByAgents, LocationStaysInTenant
  <1>. QED  BY <1>4, <1>5, <1>6

\* record_location: online and fresh in one write.
LEMMA PingKeeps ==
  ASSUME PresenceInv, NEW s \in Sockets, Ping(s)
  PROVE  PresenceInv'
  <1>. USE PresenceAssumption DEF PresenceInv
  <1>. DEFINE a == UserOf[s]
  <1>1. /\ a \in Agents
        /\ presence' = [presence EXCEPT ![a] = "online"]
        /\ pingAge' = [pingAge EXCEPT ![a] = 0]
        /\ heard' = heard \union {a}
        /\ socket' = [socket EXCEPT ![s] = "saved"]
        /\ UNCHANGED <<group, view, minute, sweep>>
    BY DEF Ping, RecordLocation, Agents
  <1>2. PresenceTypeOK'
    BY <1>1 DEF PresenceTypeOK, MaxAge
  <1>3. SilenceAllowed \in Nat /\ SilenceAllowed' = SilenceAllowed
    BY <1>1 DEF PresenceTypeOK, SilenceAllowed
  <1>4. Fresh'
    BY <1>1, <1>3 DEF Fresh, PresenceTypeOK
  <1>5. SavedByAgents' /\ GroupsApart' /\ LocationStaysInTenant'
    BY <1>1 DEF SavedByAgents, GroupsApart, LocationStaysInTenant, PresenceTypeOK, Agents
  <1>. QED  BY <1>2, <1>4, <1>5

\* A location reaches the group of the agent's organization.
LEMMA BroadcastKeeps ==
  ASSUME PresenceInv, NEW s \in Sockets, Broadcast(s)
  PROVE  PresenceInv'
  <1>. USE DEF PresenceInv
  <1>. DEFINE a == UserOf[s]
              o == OrgGroup(a)
  <1>1. a \in Agents /\ o \in Orgs \union {NoOrg} /\ OrgOf[a] = o
    BY AccountsAssumption, PresenceAssumption DEF Broadcast, SavedByAgents, Agents, OrgGroup
  <1>2. /\ socket' = [socket EXCEPT ![s] = "open"]
        /\ UNCHANGED <<presence, pingAge, heard, group, minute, sweep>>
        /\ view' = [t \in Sockets |-> IF t \in group[o] THEN view[t] \union {a} ELSE view[t]]
    BY DEF Broadcast
  <1>3. PresenceTypeOK'
    BY <1>1, <1>2 DEF PresenceTypeOK
  <1>4. Fresh' /\ GroupsApart'
    BY <1>2 DEF Fresh, SilenceAllowed, GroupsApart
  <1>5. SavedByAgents'
    BY <1>2 DEF SavedByAgents, PresenceTypeOK
  <1>6. LocationStaysInTenant'
    BY <1>1, <1>2 DEF LocationStaysInTenant, GroupsApart
  <1>. QED  BY <1>3, <1>4, <1>5, <1>6

\* The UPDATE leaves online whose ping is within the threshold.
LEMMA ExpireKeeps ==
  ASSUME PresenceInv, ExpireStaleLocations
  PROVE  PresenceInv'
  <1>. USE PresenceAssumption DEF PresenceInv, ExpireStaleLocations
  <1>1. \A a \in heard :
          presence'[a] = "online" => presence[a] = "online" /\ pingAge[a] <= StaleAfter
    BY DEF PresenceTypeOK, Stale, MaxAge
  <1>2. PresenceTypeOK'
    BY <1>1 DEF PresenceTypeOK
  <1>3. SilenceAllowed' \in Nat /\ SilenceAllowed' >= StaleAfter
    BY DEF PresenceTypeOK, SilenceAllowed
  <1>4. Fresh'
    <2>. SUFFICES ASSUME NEW a \in heard, presence'[a] = "online"
                  PROVE  pingAge[a] <= SilenceAllowed'
      BY DEF Fresh
    <2>1. pingAge[a] \in Nat /\ pingAge[a] <= StaleAfter
      BY <1>1 DEF PresenceTypeOK, MaxAge
    <2>. QED  BY <1>3, <2>1
  <1>5. SavedByAgents' /\ GroupsApart' /\ LocationStaysInTenant'
    BY DEF SavedByAgents, GroupsApart, LocationStaysInTenant
  <1>. QED  BY <1>2, <1>4, <1>5

\* Everybody grows a minute older, and so does what is allowed.
LEMMA TickKeeps ==
  ASSUME PresenceInv, Tick
  PROVE  PresenceInv'
  <1>. USE PresenceAssumption DEF PresenceInv
  <1>1. /\ minute \in 0 .. SweepEvery - 1
        /\ sweep \in 0 .. MaxLate \union {Never} /\ sweep # MaxLate
        /\ pingAge' = [a \in Agents |-> Older(pingAge[a])]
        /\ minute' = (minute + 1) % SweepEvery
        /\ sweep' = IF sweep # Never THEN sweep + 1 ELSE IF minute' = 0 THEN 0 ELSE Never
        /\ UNCHANGED <<presence, heard, socket, group, view>>
    BY DEF Tick, PresenceTypeOK
  <1>2. /\ minute' \in 0 .. SweepEvery - 1
        /\ minute' = IF minute + 1 = SweepEvery THEN 0 ELSE minute + 1
    BY <1>1, ClockTurns
  <1>3. sweep' \in 0 .. MaxLate \union {Never}
    BY <1>1
  <1>4. SilenceAllowed \in Nat /\ SilenceAllowed' \in Nat /\ SilenceAllowed + 1 <= SilenceAllowed'
    BY <1>1, <1>2, <1>3 DEF SilenceAllowed
  <1>5. PresenceTypeOK'
    BY <1>1, <1>2, <1>3, OlderByOne DEF PresenceTypeOK
  <1>6. Fresh'
    <2>. SUFFICES ASSUME NEW a \in heard, presence[a] = "online"
                  PROVE  Older(pingAge[a]) <= SilenceAllowed'
      BY <1>1 DEF Fresh, PresenceTypeOK
    <2>1. /\ pingAge[a] \in 0 .. MaxAge /\ pingAge[a] <= SilenceAllowed
      BY DEF PresenceTypeOK, Fresh
    <2>2. MaxAge \in Nat
      BY DEF MaxAge
    <2>3. Older(pingAge[a]) \in 0 .. MaxAge /\ Older(pingAge[a]) <= pingAge[a] + 1
      BY <2>1, <2>2, OlderByOne
    <2>. QED  BY <1>4, <2>1, <2>2, <2>3
  <1>7. SavedByAgents' /\ GroupsApart' /\ LocationStaysInTenant'
    BY <1>1 DEF SavedByAgents, GroupsApart, LocationStaysInTenant
  <1>. QED  BY <1>5, <1>6, <1>7

LEMMA PresenceStep == PresenceInv /\ [PresenceNext]_presenceVars => PresenceInv'
  <1>. SUFFICES ASSUME PresenceInv, UNCHANGED presenceVars PROVE PresenceInv'
    BY ConnectKeeps, PingKeeps, BroadcastKeeps, ExpireKeeps, TickKeeps DEF PresenceNext
  <1>. QED
    BY DEF presenceVars, PresenceInv, PresenceTypeOK, SavedByAgents, Fresh, SilenceAllowed,
           GroupsApart, LocationStaysInTenant

-----------------------------------------------------------------------------

\* Every reachable state satisfies the invariant.
THEOREM PresenceInvariant == PresenceSpec => []PresenceInv
  BY PresenceInitial, PresenceStep, PTL DEF PresenceSpec

\* Types; an agent who has pinged has a last_ping_at for the sweep to compare.
THEOREM PresenceTypesCorrect == PresenceSpec => []PresenceTypeOK
  <1>1. PresenceInv => PresenceTypeOK
    BY DEF PresenceInv
  <1>. QED  BY <1>1, PresenceInvariant, PTL

\* expire_stale_locations: the threshold, the period and the lateness of the
\* sweep add up, and that is all.
THEOREM SilentAreOffline == PresenceSpec => []OnlineIsFresh
  <1>1. PresenceInv => OnlineIsFresh
    <2>. SUFFICES ASSUME PresenceInv, NEW a \in heard, presence[a] = "online"
                  PROVE  pingAge[a] <= StaleAfter + SweepEvery + MaxLate
      BY DEF OnlineIsFresh
    <2>. USE PresenceAssumption
    <2>1. pingAge[a] \in 0 .. MaxAge /\ pingAge[a] <= SilenceAllowed
      BY DEF PresenceInv, PresenceTypeOK, Fresh
    <2>2. SilenceAllowed \in Nat /\ SilenceAllowed <= StaleAfter + SweepEvery + MaxLate
      BY DEF PresenceInv, PresenceTypeOK, SilenceAllowed
    <2>. QED  BY <2>1, <2>2 DEF MaxAge
  <1>. QED  BY <1>1, PresenceInvariant, PTL

\* A connection is sent the locations of its own organization's agents only.
THEOREM LocationsStayInTenant == PresenceSpec => []LocationStaysInTenant
  <1>1. PresenceInv => LocationStaysInTenant
    BY DEF PresenceInv
  <1>. QED  BY <1>1, PresenceInvariant, PTL

-----------------------------------------------------------------------------
(* Bootstrap: the inductive invariant.                                     *)

BootTypeOK ==
  /\ users \in SUBSET Emails
  /\ pc \in [Runs -> {"idle", "create", "save"}]
  /\ told \in [Runs -> {"nothing", "created", "exists", "error"}]

Normalized == \A e \in users : Normalize[e] = e

\* A process that no other process can get in the way of.
Lone(r) ==
  /\ Normalize[Wanted[r]] = Wanted[r]
  /\ \A q \in Runs \ {r} : EmailOf(q) # EmailOf(r)

LoneRunsFind ==
  \A r \in Runs : Lone(r) =>
    /\ told[r] # "error"
    /\ pc[r] # "idle" => EmailOf(r) \notin users

\* A process that has ended once gets no further than its lookup.
EndedRunsFind ==
  \A r \in Runs : Normalize[Wanted[r]] = Wanted[r] /\ told[r] # "nothing" => pc[r] = "idle"

BootInv == BootTypeOK /\ Normalized /\ AccountIsThere /\ LoneRunsFind /\ EndedRunsFind

-----------------------------------------------------------------------------

\* normalize_email returns an e-mail that it leaves as it is.
LEMMA EmailIsNormal ==
  ASSUME NEW r \in Runs
  PROVE  EmailOf(r) \in Emails /\ Normalize[EmailOf(r)] = EmailOf(r)
  BY BootstrapAssumption DEF EmailOf

\* The table is empty and no process has run.
LEMMA BootInitInv == BootInit => BootInv
  BY DEF BootInit, BootInv, BootTypeOK, Normalized, AccountIsThere, LoneRunsFind, EndedRunsFind

\* A query of one process keeps the invariant for all of them.
LEMMA BootStep == BootInv /\ [BootNext]_bootVars => BootInv'
  <1>. SUFFICES ASSUME BootInv, [BootNext]_bootVars PROVE BootInv'
    OBVIOUS
  <1>. USE DEF BootInv, BootTypeOK, Normalized
  <1>1. CASE UNCHANGED bootVars
    BY <1>1 DEF bootVars, AccountIsThere, LoneRunsFind, EndedRunsFind, Lone, EmailOf
  <1>2. ASSUME NEW r \in Runs, Lookup(r) PROVE BootInv'
    <2>1. (BootTypeOK /\ Normalized)'
      BY <1>2 DEF Lookup, Exit, Goto
    <2>2. LoneRunsFind'
      BY <1>2 DEF Lookup, Exit, Goto, Found, LoneRunsFind, Lone, EmailOf
    <2>3. (AccountIsThere /\ EndedRunsFind)'
      BY <1>2 DEF Lookup, Exit, Goto, Found, AccountIsThere, EndedRunsFind
    <2>. QED  BY <2>1, <2>2, <2>3
  <1>3. ASSUME NEW r \in Runs, FullClean(r) PROVE BootInv'
    <2>1. (BootTypeOK /\ Normalized)'
      BY <1>3 DEF FullClean, Exit, Goto
    <2>2. LoneRunsFind'
      BY <1>3 DEF FullClean, Exit, Goto, LoneRunsFind, Lone, EmailOf
    <2>3. (AccountIsThere /\ EndedRunsFind)'
      BY <1>3 DEF FullClean, Exit, Goto, EmailOf, AccountIsThere, EndedRunsFind
    <2>. QED  BY <2>1, <2>2, <2>3
  <1>4. ASSUME NEW r \in Runs, Save(r) PROVE BootInv'
    <2>1. (BootTypeOK /\ Normalized)'
      BY <1>4, EmailIsNormal DEF Save, Exit
    <2>2. LoneRunsFind'
      BY <1>4 DEF Save, Exit, LoneRunsFind, Lone, EmailOf
    <2>3. (AccountIsThere /\ EndedRunsFind)'
      BY <1>4 DEF Save, Exit, EmailOf, AccountIsThere, EndedRunsFind
    <2>. QED  BY <2>1, <2>2, <2>3
  <1>5. ASSUME NEW r \in Runs, CutShort(r) PROVE BootInv'
    <2>1. (BootTypeOK /\ Normalized)'
      BY <1>5 DEF CutShort, Goto
    <2>2. LoneRunsFind'
      BY <1>5 DEF CutShort, Goto, LoneRunsFind, Lone, EmailOf
    <2>3. (AccountIsThere /\ EndedRunsFind)'
      BY <1>5 DEF CutShort, Goto, AccountIsThere, EndedRunsFind
    <2>. QED  BY <2>1, <2>2, <2>3
  <1>. QED  BY <1>1, <1>2, <1>3, <1>4, <1>5 DEF BootNext

\* The invariant holds of every run of the command.
THEOREM BootInvariant == BootSpec => []BootInv
  BY BootInitInv, BootStep, PTL DEF BootSpec

\* A process that ended, with whatever result, has left its mailbox with an account.
THEOREM AccountsAreThere == BootSpec => []AccountIsThere
  <1>1. BootInv => AccountIsThere
    BY DEF BootInv
  <1>. QED  BY <1>1, BootInvariant, PTL

\* bootstrap_superuser may be cut short and run again: with a normalized e-mail it
\* ends at its lookup once it has ended before, whatever others do, and it never
\* fails if nobody else asks for the mailbox.
THEOREM RerunsAreSafe == BootSpec => []RerunIsSafe
  <1>1. BootInv => RerunIsSafe
    BY DEF BootInv, LoneRunsFind, EndedRunsFind, Lone, RerunIsSafe
  <1>. QED  BY <1>1, BootInvariant, PTL
=============================================================================
