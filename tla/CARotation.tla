------------------------------ MODULE CARotation ------------------------------
(***************************************************************************)
(* Rotation of the host certificate authority.  The CA is an item of the   *)
(* backend; administrators and auth servers take it from phase to phase    *)
(* (lib/auth/rotate.go), every auth server sees it through a cache that    *)
(* lags behind, and every agent, the auth servers' own among them, follows *)
(* the phases: it gets a new identity, writes it and its rotation state to *)
(* disk, and uses it as client and as server (lib/service/connect.go).     *)
(*                                                                         *)
(* The key sets of the CA are numbered in the order in which they are      *)
(* made.  An identity is signed by one of them, and trusts those of the CA *)
(* that signed it.  A rotation state is its CurrentID and its phase.       *)
(***************************************************************************)
EXTENDS Integers, Sequences

CONSTANTS Auths,          \* auth servers, with their own agents
          Nodes,          \* other agents
          Patient,        \* a phase is left only when everybody has followed it
          Asked,          \* bound: auth servers that administrators ask for a phase
          AskedModes,     \* bound: modes that administrators ask for
          MaxRotations,   \* bound: rotations that are started
          MaxFaults       \* bound: crashes, and steps of agents that fail

Agents == Auths \cup Nodes
Modes == {"manual", "auto"}

ASSUME CARotationAssumption ==
    /\ Auths \cap Nodes = {}
    /\ Patient \in BOOLEAN /\ AskedModes \subseteq Modes /\ Asked \subseteq Auths
    /\ MaxRotations \in Nat /\ MaxFaults \in Nat

VARIABLES
    ca,        \* the CA in the backend
    cache,     \* the CA as an auth server has it cached
    events,    \* versions of the CA on their way to the cache
    request,   \* an auth server's request for another phase, between its read and its write
    original,  \* history: the active keys when the rotation was started
    disk,      \* an agent's rotation state, current and replacement identity on disk
    client, server,   \* the identities that it uses
    up,        \* it is running
    task,      \* what it is doing about the phase
    faults

caVars == <<ca, cache, events, request, original>>
agentVars == <<disk, client, server, up, task, faults>>
vars == <<caVars, agentVars>>

NoKeys == -1
Phases == {"standby", "init", "update_clients", "update_servers", "rollback"}

\* GetTLSCerts and GetSSHCheckingKeys
Trusted(a) == {a.active, a.additional} \ {NoKeys}

\* The identity that GenerateHostCerts returns.
SignedBy(a) == [signer |-> a.active, trusts |-> Trusted(a)]

NoIdentity == [signer |-> NoKeys, trusts |-> {}]
NoRequest == [at |-> "none", next |-> NoKeys]
Stale == [at |-> "stale", next |-> NoKeys]
Idle == [at |-> "idle", remote |-> [id |-> 0, phase |-> "standby"], id |-> NoIdentity]

FirstCA == [active |-> 0, additional |-> NoKeys, mode |-> "manual",
            rotation |-> [id |-> 0, phase |-> "standby"]]

Init ==
    /\ ca = FirstCA
    /\ cache = [s \in Auths |-> FirstCA]
    /\ events = [s \in Auths |-> <<>>]
    /\ request = [s \in Auths |-> NoRequest]
    /\ original = 0
    /\ disk = [a \in Agents |-> [state |-> FirstCA.rotation, current |-> SignedBy(FirstCA),
                                 replacement |-> NoIdentity]]
    /\ client = [a \in Agents |-> SignedBy(FirstCA)]
    /\ server = [a \in Agents |-> SignedBy(FirstCA)]
    /\ up = [a \in Agents |-> TRUE]
    /\ task = [a \in Agents |-> Idle]
    /\ faults = 0

-----------------------------------------------------------------------------
(* processRotationRequest *)

Swapped(c) ==
    [active |-> c.additional, additional |-> c.active, mode |-> c.mode,
     rotation |-> c.rotation]

InPhase(c, phase, mode) ==
    [active |-> c.active, additional |-> c.additional, mode |-> mode,
     rotation |-> [id |-> c.rotation.id, phase |-> phase]]

startNewRotation(c, mode) ==
    [active |-> c.active, additional |-> c.rotation.id + 1, mode |-> mode,
     rotation |-> [id |-> c.rotation.id + 1, phase |-> "init"]]

updateClients(c, mode) == InPhase(Swapped(c), "update_clients", mode)

\* Faulty variant: the keys are swapped whatever the phase.
startRollingBackRotationSwaps(c) == InPhase(Swapped(c), "rollback", "manual")

startRollingBackRotation(c) ==
    InPhase(IF c.rotation.phase = "init" THEN c ELSE Swapped(c), "rollback", "manual")

\* Faulty variant: the old keys stay trusted.
completeRotationKeeps(c) == InPhase(c, "standby", "manual")

completeRotation(c) == InPhase([c EXCEPT !.additional = NoKeys], "standby", "manual")

\* The phases from which a phase can be requested.
From(target) ==
    CASE target = "init" -> {"standby"}
      [] target = "update_clients" -> {"init"}
      [] target = "update_servers" -> {"update_clients"}
      [] target = "rollback" -> {"init", "update_clients", "update_servers"}
      [] target = "standby" -> {"update_servers", "rollback"}

processRotationRequest(c, target, mode) ==
    CASE target = "init" -> startNewRotation(c, mode)
      [] target = "update_clients" -> updateClients(c, mode)
      [] target = "update_servers" -> InPhase(c, "update_servers", mode)
      [] target = "rollback" -> startRollingBackRotation(c)
      [] target = "standby" -> completeRotation(c)

-----------------------------------------------------------------------------
(* RotateCertAuthority, AutoRotateCertAuthorities, and the caches *)

\* Every cache and every agent has followed the phase.
Settled ==
    /\ \A s \in Auths : events[s] = <<>>
    /\ \A a \in Agents : up[a] /\ task[a] = Idle /\ disk[a].state = ca.rotation

\* An auth server reads the CA from the backend and decides on the next version.
Decide(s, target, mode) ==
    /\ request[s] = NoRequest
    /\ ca.rotation.phase \in From(target)
    /\ Patient /\ target # "rollback" => Settled
    /\ request' = [request EXCEPT ![s] =
                     [at |-> "read", next |-> processRotationRequest(ca, target, mode)]]
    /\ UNCHANGED <<ca, cache, events, original, agentVars>>

Rotate(s, target, mode) ==
    /\ target = "init" => ca.rotation.id < MaxRotations
    /\ Decide(s, target, mode)

\* autoRotate, when the time of the schedule has come.
autoRotate(s) ==
    /\ ca.mode = "auto"
    /\ \/ ca.rotation.phase = "init" /\ Decide(s, "update_clients", "auto")
       \/ ca.rotation.phase = "update_clients" /\ Decide(s, "update_servers", "auto")
       \/ ca.rotation.phase = "update_servers" /\ Decide(s, "standby", "auto")

\* Faulty variant: the CA is written whatever its revision.
WrittenAlways(s) ==
    /\ ca' = request[s].next
    /\ events' = [t \in Auths |-> Append(events[t], request[s].next)]
    /\ request' = [request EXCEPT ![s] = NoRequest]

\* UpdateCertAuthority writes the CA, and every request that has read the former one will
\* fail its comparison of revisions.
Written(s) ==
    /\ ca' = request[s].next
    /\ events' = [t \in Auths |-> Append(events[t], request[s].next)]
    /\ request' = [t \in Auths |-> IF t = s \/ request[t].at = "none" THEN NoRequest
                                   ELSE Stale]

UpdateCertAuthority(s) ==
    /\ request[s].at = "read"
    /\ Written(s)
    /\ original' = IF ca.rotation.phase = "standby" THEN ca.active ELSE original
    /\ UNCHANGED <<cache, agentVars>>

\* The revisions differ, or the write fails.
UpdateFails(s) ==
    /\ request[s].at \in {"read", "stale"}
    /\ request' = [request EXCEPT ![s] = NoRequest]
    /\ UNCHANGED <<ca, cache, events, original, agentVars>>

\* An event of the backend reaches an auth server's cache.
CacheEvent(s) ==
    /\ events[s] # <<>>
    /\ cache' = [cache EXCEPT ![s] = Head(events[s])]
    /\ events' = [events EXCEPT ![s] = Tail(@)]
    /\ UNCHANGED <<ca, request, original, agentVars>>

-----------------------------------------------------------------------------
(* Agents *)

\* Agent a can talk to auth server s.
Reaches(a, s) ==
    IF a \in Auths THEN a = s   \* the local auth server
    ELSE /\ up[s]
         /\ client[a].signer \in Trusted(cache[s])
         /\ server[s].signer \in client[a].trusts

InProgress(r) == r.phase # "standby"

\* Faulty variant: an agent leaves a rotation only when it was rolled back.
FollowsRollbackOnly(l, r) ==
    /\ l # r
    /\ CASE r.phase = "standby" -> l.phase = "rollback"
         [] r.phase = "init" -> ~InProgress(l)
         [] r.phase = "update_clients" -> l.phase = "init" \/ l.id = r.id
         [] r.phase = "update_servers" -> l.phase = "update_clients" \/ l.id = r.id
         [] r.phase = "rollback" -> TRUE

\* Whether rotate follows the remote rotation state from the local one.
Follows(l, r) ==
    /\ l # r
    /\ CASE r.phase = "standby" -> InProgress(l) /\ (l.phase = "rollback" \/ l.id = r.id)
         [] r.phase = "init" -> ~InProgress(l)
         [] r.phase = "update_clients" -> l.phase = "init" \/ l.id = r.id
         [] r.phase = "update_servers" -> l.phase = "update_clients" \/ l.id = r.id
         [] r.phase = "rollback" -> TRUE

\* What it does first: register again, or write what it has.
FirstStep(r) ==
    CASE r.phase \in {"standby", "update_clients", "rollback"} -> "register"
      [] r.phase = "update_servers" -> "identity"
      [] r.phase = "init" -> "state"

\* syncRotationState reads the CA from an auth server.
syncRotationState(a, s) ==
    /\ up[a] /\ task[a] = Idle /\ Reaches(a, s)
    /\ LET remote == cache[s].rotation
       IN  /\ Follows(disk[a].state, remote)
           /\ task' = [task EXCEPT ![a] =
                         [at |-> FirstStep(remote), remote |-> remote, id |-> client[a]]]
    /\ UNCHANGED <<caVars, disk, client, server, up, faults>>

\* Faulty variant: an auth server signs with the CA that it has cached.
GenerateHostCertsCached(a, s, id) == id = SignedBy(cache[s])

\* GenerateHostCerts: the cached CA if it is in the phase that the agent follows, or the
\* one in the backend; an auth server does not state the phase for its own identity.
GenerateHostCerts(a, s, id) ==
    \/ (a \in Auths \/ cache[s].rotation = task[a].remote) /\ id = SignedBy(cache[s])
    \/ /\ a \notin Auths /\ cache[s].rotation # task[a].remote
       /\ ca.rotation = task[a].remote /\ id = SignedBy(ca)

reRegister(a, s) ==
    /\ up[a] /\ task[a].at = "register" /\ Reaches(a, s)
    /\ \E id \in {SignedBy(ca), SignedBy(cache[s])} :
         /\ GenerateHostCerts(a, s, id)
         /\ task' = [task EXCEPT ![a].at = "identity", ![a].id = id]
    /\ UNCHANGED <<caVars, disk, client, server, up, faults>>

\* The rotation state that the agent sent is out of date.
reRegisterRefused(a, s) ==
    /\ up[a] /\ task[a].at = "register" /\ Reaches(a, s)
    /\ \A id \in {SignedBy(ca), SignedBy(cache[s])} : ~GenerateHostCerts(a, s, id)
    /\ task' = [task EXCEPT ![a] = Idle]
    /\ UNCHANGED <<caVars, disk, client, server, up, faults>>

Replaces(r) == r.phase = "update_clients"

WriteIdentity(a) ==
    /\ up[a] /\ task[a].at = "identity"
    /\ disk' = [disk EXCEPT
         ![a] = IF Replaces(task[a].remote) THEN [@ EXCEPT !.replacement = task[a].id]
                ELSE [@ EXCEPT !.current = task[a].id]]
    /\ task' = [task EXCEPT ![a].at = "state"]
    /\ UNCHANGED <<caVars, client, server, up, faults>>

\* WriteState, and the identities that the connector is given.
WriteState(a) ==
    /\ up[a] /\ task[a].at = "state"
    /\ LET r == task[a].remote
       IN  /\ disk' = [disk EXCEPT ![a].state = r]
           /\ client' = [client EXCEPT ![a] = IF r.phase = "init" THEN @ ELSE task[a].id]
           /\ server' = [server EXCEPT
                ![a] = IF r.phase \in {"init", "update_clients"} THEN @ ELSE task[a].id]
    /\ task' = [task EXCEPT ![a] = Idle]
    /\ UNCHANGED <<caVars, up, faults>>

\* A call or a write fails, and the cycle starts again.
SyncFails(a) ==
    /\ up[a] /\ task[a] # Idle /\ faults < MaxFaults
    /\ task' = [task EXCEPT ![a] = Idle]
    /\ faults' = faults + 1
    /\ UNCHANGED <<caVars, disk, client, server, up>>

Crash(a) ==
    /\ up[a] /\ faults < MaxFaults
    /\ up' = [up EXCEPT ![a] = FALSE]
    /\ task' = [task EXCEPT ![a] = Idle]
    /\ faults' = faults + 1
    /\ UNCHANGED <<caVars, disk, client, server>>

\* connect: the identities that go with the rotation state on disk.
Restart(a) ==
    /\ ~up[a]
    /\ up' = [up EXCEPT ![a] = TRUE]
    /\ client' = [client EXCEPT
         ![a] = IF disk[a].state.phase = "update_clients" /\ disk[a].replacement # NoIdentity
                THEN disk[a].replacement ELSE disk[a].current]
    /\ server' = [server EXCEPT ![a] = disk[a].current]
    /\ UNCHANGED <<caVars, disk, task, faults>>

-----------------------------------------------------------------------------

Sync(a) ==
    \/ \E s \in Auths : syncRotationState(a, s) \/ reRegister(a, s) \/ reRegisterRefused(a, s)
    \/ WriteIdentity(a) \/ WriteState(a)

Next ==
    \/ \E s \in Asked, target \in Phases, mode \in AskedModes : Rotate(s, target, mode)
    \/ \E s \in Auths :
         \/ autoRotate(s) \/ UpdateCertAuthority(s) \/ UpdateFails(s) \/ CacheEvent(s)
    \/ \E a \in Agents : Sync(a) \/ SyncFails(a) \/ Crash(a) \/ Restart(a)

Spec == Init /\ [][Next]_vars

\* Caches follow the backend, agents poll, and a process that stopped is started again.
Fairness ==
    /\ WF_vars(\E s \in Auths : CacheEvent(s))
    /\ WF_vars(\E a \in Agents : Sync(a))
    /\ WF_vars(\E a \in Agents : Restart(a))

FairSpec == Spec /\ Fairness

-----------------------------------------------------------------------------
(* Properties *)

Keys == 0..MaxRotations
Rotations == [id : Keys, phase : Phases]
CAs == [active : Keys, additional : Keys \cup {NoKeys}, mode : Modes, rotation : Rotations]
Identities == [signer : Keys, trusts : SUBSET Keys]

\* Types; there are trusted keys beside the active ones exactly while a rotation is in
\* progress.
TypeOK ==
    /\ ca \in CAs /\ (ca.additional = NoKeys <=> ca.rotation.phase = "standby")
    /\ cache \in [Auths -> CAs]
    /\ \A s \in Auths : \A i \in 1..Len(events[s]) : events[s][i] \in CAs
    /\ request \in [Auths -> {NoRequest, Stale} \cup [at : {"read"}, next : CAs]]
    /\ original \in Keys
    /\ disk \in [Agents -> [state : Rotations, current : Identities,
                            replacement : Identities \cup {NoIdentity}]]
    /\ client \in [Agents -> Identities] /\ server \in [Agents -> Identities]
    /\ up \in [Agents -> BOOLEAN]
    /\ task \in [Agents -> [at : {"idle", "register", "identity", "state"},
                            remote : Rotations, id : Identities \cup {NoIdentity}]]
    /\ faults \in 0..MaxFaults

\* At every moment of a rotation, every agent can talk to every other: its client identity
\* is signed by keys that every auth server trusts, and it trusts the keys that signed the
\* server identity of the other.
MutualTrust ==
    \A a, b \in Agents : up[a] /\ up[b] =>
      /\ \A s \in Auths : client[a].signer \in Trusted(cache[s])
      /\ server[b].signer \in client[a].trusts

\* Auth servers and administrators that act at the same time take the CA through one
\* rotation, phase by phase; a rollback ends with the keys the rotation started from ("the
\* cluster goes back to the original state"), and a completed rotation with the new ones.
PhasesInOrder ==
    [][ca'.rotation # ca.rotation =>
         /\ ca.rotation.phase \in From(ca'.rotation.phase)
         /\ ca'.rotation.phase = "standby" =>
              (ca.rotation.phase = "rollback" <=> ca'.active = original)]_vars

\* Every agent follows the CA in the end: none is left in a phase from which rotate, or the
\* auth server, does not let it go on.
EverybodyFollows ==
    (\E a \in Agents : disk[a].state # ca.rotation)
      ~> (\A a \in Agents : disk[a].state = ca.rotation)

\* "Allow transition to this phase only if the previous phase was 'Update clients'": an
\* agent goes to update_servers from update_clients (rotate, in connect.go).
ServersAfterClients ==
    [][\A a \in Agents :
         disk'[a].state # disk[a].state /\ disk'[a].state.phase = "update_servers"
           => disk[a].state.phase = "update_clients"]_vars

=============================================================================
