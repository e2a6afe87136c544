-------------------------- MODULE CARotationProofs --------------------------
(***************************************************************************)
(* The rotation of the CA, for any number of auth servers, agents,         *)
(* administrators and rotations.  Whoever writes the CA has computed what  *)
(* it writes from what is there, so the keys are always those of the       *)
(* phase; and where a phase is left only when everybody has followed it,   *)
(* agents and auth servers trust each other throughout.                    *)
(***************************************************************************)
EXTENDS CARotation, TLAPS, SequenceTheorems

\* The keys that belong to the phase of the CA: a rotation's id names the keys it made.
KeysOfPhase ==
    /\ ca.rotation.phase = "standby" => ca.active <= ca.rotation.id
    /\ ca.rotation.phase # "standby" => original < ca.rotation.id
    /\ ca.rotation.phase \in {"init", "rollback"} =>
         ca.active = original /\ ca.additional = ca.rotation.id
    /\ ca.rotation.phase \in {"update_clients", "update_servers"} =>
         ca.active = ca.rotation.id /\ ca.additional = original

\* A request that has not been overtaken leads on from the CA that is in the backend.
LeadsOn(s) ==
    request[s].at = "read" =>
      \E target \in Phases, mode \in Modes :
        /\ ca.rotation.phase \in From(target)
        /\ request[s].next = processRotationRequest(ca, target, mode)

Versions == [active : Int, additional : Int, mode : Modes,
             rotation : [id : Int, phase : Phases]]

CAType ==
    /\ ca \in Versions
    /\ original \in Int
    /\ DOMAIN request = Auths

RInv == CAType /\ KeysOfPhase /\ \A s \in Auths : LeadsOn(s)

-----------------------------------------------------------------------------

\* The initial states satisfy the invariant.
LEMMA RInit == Init => RInv
<1> SUFFICES ASSUME Init PROVE RInv OBVIOUS
<1>1. CAType /\ KeysOfPhase
  BY SMT DEF Init, FirstCA, NoKeys, Modes, Phases, Versions, CAType, KeysOfPhase
<1>2. \A s \in Auths : LeadsOn(s)
  BY SMT DEF Init, NoRequest, LeadsOn
<1> QED BY <1>1, <1>2 DEF RInv

\* InPhase changes the phase and the mode.
LEMMA InPhaseFields ==
    ASSUME NEW c \in Versions, NEW phase \in Phases, NEW mode \in Modes
    PROVE  LET d == InPhase(c, phase, mode)
           IN  /\ d \in Versions /\ d.active = c.active /\ d.additional = c.additional
               /\ d.rotation.id = c.rotation.id /\ d.rotation.phase = phase
BY SMT DEF InPhase, Versions

\* Swapped exchanges the keys as well.
LEMMA SwappedFields ==
    ASSUME NEW c \in Versions, NEW phase \in Phases, NEW mode \in Modes
    PROVE  LET d == InPhase(Swapped(c), phase, mode)
           IN  /\ d \in Versions /\ d.active = c.additional /\ d.additional = c.active
               /\ d.rotation.id = c.rotation.id /\ d.rotation.phase = phase
BY SMT DEF InPhase, Swapped, Versions

\* completeRotation drops the additional keys.
LEMMA CompleteFields ==
    ASSUME NEW c \in Versions
    PROVE  LET d == completeRotation(c)
           IN  /\ d \in Versions /\ d.active = c.active
               /\ d.rotation.id = c.rotation.id /\ d.rotation.phase = "standby"
<1> DEFINE e == [c EXCEPT !.additional = NoKeys]
<1>1. e \in Versions /\ e.active = c.active /\ e.rotation = c.rotation
  BY SMT DEF Versions, NoKeys
<1>2. completeRotation(c) = InPhase(e, "standby", "manual")
  BY DEF completeRotation
<1>3. "standby" \in Phases /\ "manual" \in Modes
  BY SMT DEF Phases, Modes
<1> HIDE DEF e
<1> QED BY <1>1, <1>2, <1>3, InPhaseFields, SMT

\* What a request makes of a CA: its next version is typed, its phase the one that was
\* asked for, and its keys those of that phase.
LEMMA NextVersion ==
    ASSUME CAType, KeysOfPhase, NEW target \in Phases, NEW mode \in Modes,
           ca.rotation.phase \in From(target),
           NEW c, c = processRotationRequest(ca, target, mode)
    PROVE  /\ c \in Versions
           /\ c.rotation.phase = target
           /\ target = "init" => /\ ca.rotation.phase = "standby" /\ c.active = ca.active
                                 /\ c.rotation.id = ca.rotation.id + 1
                                 /\ c.additional = c.rotation.id
           /\ target # "init" => /\ ca.rotation.phase # "standby"
                                 /\ c.rotation.id = ca.rotation.id
           /\ target = "rollback" => /\ c.active = original
                                     /\ c.additional = c.rotation.id
           /\ target \in {"update_clients", "update_servers"} =>
                c.active = c.rotation.id /\ c.additional = original
           /\ target = "standby" =>
                /\ ca.rotation.phase = "rollback" => c.active = original
                /\ ca.rotation.phase # "rollback" => c.active = c.rotation.id
<1>0. /\ ca \in Versions /\ original \in Int /\ ca.active \in Int /\ ca.additional \in Int
      /\ ca.rotation.id \in Int /\ ca.rotation.phase \in Phases /\ "manual" \in Modes
  BY SMT DEF CAType, Versions, Modes
<1>1. CASE target = "init"
  <2>1. c = startNewRotation(ca, mode) /\ ca.rotation.phase = "standby"
    BY <1>1, Zenon DEF processRotationRequest, From
  <2> QED BY <1>0, <1>1, <2>1, SMT DEF startNewRotation, Versions, Phases
<1>2. CASE target = "update_clients"
  <2>1. c = InPhase(Swapped(ca), "update_clients", mode) /\ ca.rotation.phase = "init"
    BY <1>2, SMT DEF processRotationRequest, From, updateClients
  <2>2. /\ c \in Versions /\ c.active = ca.additional /\ c.additional = ca.active
        /\ c.rotation.id = ca.rotation.id /\ c.rotation.phase = "update_clients"
    BY <1>0, <1>2, <2>1, SwappedFields, SMT
  <2> QED BY <1>0, <1>2, <2>1, <2>2, SMT DEF KeysOfPhase
<1>3. CASE target = "update_servers"
  <2>1. c = InPhase(ca, "update_servers", mode) /\ ca.rotation.phase = "update_clients"
    BY <1>3, SMT DEF processRotationRequest, From
  <2>2. /\ c \in Versions /\ c.active = ca.active /\ c.additional = ca.additional
        /\ c.rotation.id = ca.rotation.id /\ c.rotation.phase = "update_servers"
    BY <1>0, <1>3, <2>1, InPhaseFields, SMT
  <2> QED BY <1>0, <1>3, <2>1, <2>2, SMT DEF KeysOfPhase
<1>4. CASE target = "rollback"
  <2>1. /\ c = startRollingBackRotation(ca)
        /\ ca.rotation.phase \in {"init", "update_clients", "update_servers"}
    BY <1>4, SMT DEF processRotationRequest, From
  <2>2. CASE ca.rotation.phase = "init"
    <3>1. c = InPhase(ca, "rollback", "manual")
      BY <2>1, <2>2, Zenon DEF startRollingBackRotation
    <3>2. /\ c \in Versions /\ c.active = ca.active /\ c.additional = ca.additional
          /\ c.rotation.id = ca.rotation.id /\ c.rotation.phase = "rollback"
      BY <1>0, <1>4, <3>1, InPhaseFields, SMT
    <3> QED BY <1>0, <1>4, <2>2, <3>2, SMT DEF KeysOfPhase
  <2>3. CASE ca.rotation.phase # "init"
    <3>1. c = InPhase(Swapped(ca), "rollback", "manual")
      BY <2>1, <2>3, Zenon DEF startRollingBackRotation
    <3>2. /\ c \in Versions /\ c.active = ca.additional /\ c.additional = ca.active
          /\ c.rotation.id = ca.rotation.id /\ c.rotation.phase = "rollback"
      BY <1>0, <1>4, <3>1, SwappedFields, SMT
    <3> QED BY <1>0, <1>4, <2>1, <2>3, <3>2, SMT DEF KeysOfPhase
  <2> QED BY <2>2, <2>3
<1>5. CASE target = "standby"
  <2>1. c = completeRotation(ca) /\ ca.rotation.phase \in {"update_servers", "rollback"}
    BY <1>5, SMT DEF processRotationRequest, From
  <2>2. /\ c \in Versions /\ c.active = ca.active
        /\ c.rotation.id = ca.rotation.id /\ c.rotation.phase = "standby"
    BY <1>0, <2>1, CompleteFields, SMT
  <2> QED BY <1>0, <1>5, <2>1, <2>2, SMT DEF KeysOfPhase
<1> QED BY <1>1, <1>2, <1>3, <1>4, <1>5, Zenon DEF Phases

\* Writing a version that was computed from the CA keeps the keys in step with the phase,
\* and is a step that PhasesInOrder allows.
LEMMA WriteStep ==
    ASSUME RInv, NEW s \in Auths, UpdateCertAuthority(s)
    PROVE  /\ RInv'
           /\ ca.rotation.phase \in From(ca'.rotation.phase)
           /\ ca'.rotation.phase = "standby" =>
                (ca.rotation.phase = "rollback" <=> ca'.active = original)
<1>1. PICK target \in Phases, mode \in Modes :
        /\ ca.rotation.phase \in From(target)
        /\ request[s].next = processRotationRequest(ca, target, mode)
  BY Zenon DEF RInv, LeadsOn, UpdateCertAuthority
<1>2. ca' = processRotationRequest(ca, target, mode)
  BY <1>1, Zenon DEF UpdateCertAuthority, Written
<1>3. original' = IF ca.rotation.phase = "standby" THEN ca.active ELSE original
  BY Zenon DEF UpdateCertAuthority
<1>4. CAType /\ KeysOfPhase
  BY DEF RInv
<1> DEFINE c == processRotationRequest(ca, target, mode)
<1>5. /\ c \in Versions
      /\ c.rotation.phase = target
      /\ target = "init" => /\ ca.rotation.phase = "standby" /\ c.active = ca.active
                            /\ c.rotation.id = ca.rotation.id + 1
                            /\ c.additional = c.rotation.id
      /\ target # "init" => /\ ca.rotation.phase # "standby"
                            /\ c.rotation.id = ca.rotation.id
      /\ target = "rollback" => /\ c.active = original
                                /\ c.additional = c.rotation.id
      /\ target \in {"update_clients", "update_servers"} =>
           c.active = c.rotation.id /\ c.additional = original
      /\ target = "standby" =>
           /\ ca.rotation.phase = "rollback" => c.active = original
           /\ ca.rotation.phase # "rollback" => c.active = c.rotation.id
  BY <1>1, <1>4, NextVersion, Zenon
<1> HIDE DEF c
<1>6. ca' = c
  BY <1>2 DEF c
<1>7. CAType'
  <2>1. ca.active \in Int /\ original \in Int
    BY <1>4, SMT DEF CAType, Versions
  <2>2. DOMAIN request' = Auths
    BY Zenon DEF UpdateCertAuthority, Written
  <2> QED BY <1>3, <1>5, <1>6, <2>1, <2>2, Zenon DEF CAType
<1>8. KeysOfPhase' /\ (ca'.rotation.phase = "standby" =>
                        (ca.rotation.phase = "rollback" <=> ca'.active = original))
  <2>1. /\ ca.rotation.id \in Int /\ ca.active \in Int /\ original \in Int
        /\ c.rotation.id \in Int
    BY <1>4, <1>5, SMT DEF CAType, Versions
  <2> QED BY <1>3, <1>4, <1>5, <1>6, <2>1, SMT DEF KeysOfPhase
<1>9. ASSUME NEW t \in Auths PROVE LeadsOn(t)'
  <2>1. request'[t] = NoRequest \/ request'[t] = Stale
    BY Zenon DEF UpdateCertAuthority, Written
  <2>2. NoRequest.at # "read" /\ Stale.at # "read"
    BY SMT DEF NoRequest, Stale
  <2> QED BY <2>1, <2>2, Zenon DEF LeadsOn
<1> QED BY <1>1, <1>5, <1>6, <1>7, <1>8, <1>9, Zenon DEF RInv

\* A new request leads on from the CA.
LEMMA DecideStep ==
    ASSUME RInv, NEW s \in Auths, NEW target \in Phases, NEW mode \in Modes,
           Decide(s, target, mode)
    PROVE  RInv' /\ ca' = ca
<1>1. /\ ca' = ca /\ original' = original
      /\ ca.rotation.phase \in From(target)
      /\ request' = [request EXCEPT ![s] =
                       [at |-> "read", next |-> processRotationRequest(ca, target, mode)]]
  BY Zenon DEF Decide
<1>2. CAType' /\ KeysOfPhase'
  BY <1>1, Zenon DEF RInv, CAType, KeysOfPhase
<1>3. ASSUME NEW t \in Auths PROVE LeadsOn(t)'
  <2>1. CASE t = s
    <3>1. request'[s].next = processRotationRequest(ca, target, mode)
      <4> DEFINE n == processRotationRequest(ca, target, mode)
      <4>1. request'[s] = [at |-> "read", next |-> n]
        BY <1>1, Zenon DEF RInv, CAType
      <4> HIDE DEF n
      <4>2. request'[s].next = n
        BY <4>1, SMT
      <4> QED BY <4>2 DEF n
    <3> QED BY <1>1, <2>1, <3>1, Zenon DEF LeadsOn
  <2>2. CASE t # s
    <3>1. request'[t] = request[t]
      BY <1>1, <2>2, Zenon DEF RInv, CAType
    <3> QED BY <1>1, <3>1, Zenon DEF RInv, LeadsOn
  <2> QED BY <2>1, <2>2
<1> QED BY <1>1, <1>2, <1>3, Zenon DEF RInv

\* A request that fails leaves the others as they are.
LEMMA FailStep ==
    ASSUME RInv, NEW s \in Auths, UpdateFails(s)
    PROVE  RInv' /\ ca' = ca
<1>1. /\ ca' = ca /\ original' = original
      /\ request' = [request EXCEPT ![s] = NoRequest]
  BY Zenon DEF UpdateFails
<1>2. CAType' /\ KeysOfPhase'
  BY <1>1, Zenon DEF RInv, CAType, KeysOfPhase
<1>3. ASSUME NEW t \in Auths PROVE LeadsOn(t)'
  <2>1. request'[t] = NoRequest \/ request'[t] = request[t]
    BY <1>1, Zenon DEF RInv, CAType
  <2>2. NoRequest.at # "read"
    BY SMT DEF NoRequest
  <2> QED BY <1>1, <2>1, <2>2, Zenon DEF RInv, LeadsOn
<1> QED BY <1>1, <1>2, <1>3, Zenon DEF RInv

\* The caches and the agents leave the CA and the requests alone.
LEMMA OtherStep ==
    ASSUME RInv, ca' = ca, original' = original, request' = request
    PROVE  RInv'
BY Zenon DEF RInv, CAType, KeysOfPhase, LeadsOn

\* Every step preserves the invariant, and is one that PhasesInOrder allows.
LEMMA RNext ==
    ASSUME RInv, [Next]_vars
    PROVE  /\ RInv'
           /\ ca'.rotation # ca.rotation =>
                /\ ca.rotation.phase \in From(ca'.rotation.phase)
                /\ ca'.rotation.phase = "standby" =>
                     (ca.rotation.phase = "rollback" <=> ca'.active = original)
<1>1. CASE \E s \in Asked, target \in Phases, mode \in AskedModes : Rotate(s, target, mode)
  BY <1>1, DecideStep, CARotationAssumption, Zenon DEF Rotate
<1>2. ASSUME NEW s \in Auths, autoRotate(s) PROVE RInv' /\ ca' = ca
  <2>1. "auto" \in Modes /\ {"update_clients", "update_servers", "standby"} \subseteq Phases
    BY SMT DEF Modes, Phases
  <2> QED BY <1>2, <2>1, DecideStep, Zenon DEF autoRotate
<1>3. ASSUME NEW s \in Auths, CacheEvent(s) PROVE RInv' /\ ca' = ca
  BY <1>3, OtherStep, Zenon DEF CacheEvent
<1>4. ASSUME NEW a \in Agents, Sync(a) \/ SyncFails(a) \/ Crash(a) \/ Restart(a)
      PROVE  RInv' /\ ca' = ca
  <2>1. UNCHANGED caVars
    BY <1>4, Zenon DEF Sync, syncRotationState, reRegister, reRegisterRefused,
       WriteIdentity, WriteState, SyncFails, Crash, Restart
  <2> QED BY <2>1, OtherStep, Zenon DEF caVars
<1>5. CASE UNCHANGED vars
  BY <1>5, OtherStep, Zenon DEF vars, caVars
<1> QED BY <1>1, <1>2, <1>3, <1>4, <1>5, WriteStep, FailStep, Zenon DEF Next

\* However many administrators and auth servers act at the same time, the CA goes through
\* its rotations phase by phase, and a rollback restores the keys it started from.
THEOREM RotationInOrder == Spec => PhasesInOrder
<1>1. RInv /\ [Next]_vars => RInv'
  BY RNext
<1>2. RInv /\ [Next]_vars
      => [ca'.rotation # ca.rotation =>
            /\ ca.rotation.phase \in From(ca'.rotation.phase)
            /\ ca'.rotation.phase = "standby" =>
                 (ca.rotation.phase = "rollback" <=> ca'.active = original)]_vars
  BY RNext
<1> QED BY RInit, <1>1, <1>2, PTL DEF Spec, PhasesInOrder

-----------------------------------------------------------------------------
(* Types *)

\* An agent that is doing something has an identity at hand, and is running.
TaskOK(a) ==
    /\ task[a].at # "idle" => task[a].id \in Identities
    /\ ~up[a] => task[a].at = "idle"

DiskOK == [state : Rotations, current : Identities, replacement : Identities \cup {NoIdentity}]
TaskType == [at : {"idle", "register", "identity", "state"}, remote : Rotations,
             id : Identities \cup {NoIdentity}]

\* The versions that the auth servers have and write, with the phase they belong to.
CAsOK ==
    /\ ca \in CAs /\ (ca.additional = NoKeys <=> ca.rotation.phase = "standby")
    /\ cache \in [Auths -> CAs] /\ events \in [Auths -> Seq(CAs)]
    /\ request \in [Auths -> {NoRequest, Stale} \cup [at : {"read"}, next : CAs]]
    /\ \A s \in Auths : request[s].at = "read" =>
         (request[s].next.additional = NoKeys <=> request[s].next.rotation.phase = "standby")
    /\ original \in Keys

AgentsOK ==
    /\ disk \in [Agents -> DiskOK]
    /\ client \in [Agents -> Identities] /\ server \in [Agents -> Identities]
    /\ up \in [Agents -> BOOLEAN] /\ task \in [Agents -> TaskType]
    /\ faults \in 0..MaxFaults
    /\ \A a \in Agents : TaskOK(a)

TInv == CAsOK /\ AgentsOK

\* The type invariant is a part of it.
LEMMA TInvTypes == TInv => TypeOK
<1> SUFFICES ASSUME TInv PROVE TypeOK
  OBVIOUS
<1>1. \A s \in Auths : \A i \in 1..Len(events[s]) : events[s][i] \in CAs
  BY ElementOfSeq DEF TInv, CAsOK
<1> QED BY <1>1, Zenon DEF TInv, CAsOK, AgentsOK, DiskOK, TaskType, TypeOK

\* Parts of a version.
LEMMA CAParts ==
    ASSUME NEW c \in CAs
    PROVE  /\ c.active \in Keys /\ c.additional \in Keys \cup {NoKeys} /\ c.mode \in Modes
           /\ c.rotation \in Rotations /\ c.rotation.id \in Keys /\ c.rotation.phase \in Phases
           /\ c.active \in Nat /\ c.active # NoKeys
BY CARotationAssumption DEF CAs, Rotations, Keys, NoKeys

\* An identity that is signed with a version of the CA.
LEMMA Signed ==
    ASSUME NEW c \in CAs
    PROVE  /\ SignedBy(c) \in Identities /\ SignedBy(c).signer = c.active
           /\ SignedBy(c).trusts = Trusted(c) /\ c.active \in Trusted(c)
<1>1. c.active \in Keys /\ c.active # NoKeys /\ Trusted(c) \subseteq Keys /\ c.active \in Trusted(c)
  BY CAParts DEF Trusted
<1>2. SignedBy(c) = [signer |-> c.active, trusts |-> Trusted(c)]
  BY DEF SignedBy
<1> QED BY <1>1, <1>2 DEF Identities

\* The first version, and what is not there.
LEMMA FirstOK ==
    /\ FirstCA \in CAs /\ FirstCA.additional = NoKeys /\ FirstCA.rotation.phase = "standby"
    /\ FirstCA.rotation \in Rotations /\ Idle \in TaskType /\ Idle.at = "idle"
    /\ NoRequest.at = "none" /\ Stale.at = "stale" /\ 0 \in Keys
<1>1. 0 \in Keys /\ "standby" \in Phases /\ "manual" \in Modes
  BY CARotationAssumption DEF Keys, Phases, Modes
<1>2. FirstCA \in CAs /\ FirstCA.additional = NoKeys /\ FirstCA.rotation.phase = "standby"
      /\ FirstCA.rotation \in Rotations
  BY <1>1 DEF FirstCA, CAs, Rotations, NoKeys
<1>3. Idle \in TaskType /\ Idle.at = "idle"
  BY <1>1 DEF Idle, TaskType, Rotations
<1>4. NoRequest.at = "none" /\ Stale.at = "stale"
  BY DEF NoRequest, Stale
<1> QED BY <1>1, <1>2, <1>3, <1>4

\* The initial states are typed.
LEMMA TInit == Init => TInv
<1> SUFFICES ASSUME Init PROVE TInv
  OBVIOUS
<1>1. CAsOK
  BY FirstOK, EmptySeq, Zenon DEF Init, CAsOK
<1>2. SignedBy(FirstCA) \in Identities
  BY FirstOK, Signed, Zenon
<1>3. disk \in [Agents -> DiskOK]
  <2> DEFINE d == [state |-> FirstCA.rotation, current |-> SignedBy(FirstCA),
                   replacement |-> NoIdentity]
  <2>1. d \in DiskOK
    BY <1>2, FirstOK DEF DiskOK
  <2>2. disk = [a \in Agents |-> d]
    BY Zenon DEF Init
  <2> HIDE DEF d
  <2> QED BY <2>1, <2>2
<1>4. /\ client \in [Agents -> Identities] /\ server \in [Agents -> Identities]
      /\ task \in [Agents -> TaskType] /\ up \in [Agents -> BOOLEAN]
  BY <1>2, FirstOK, Zenon DEF Init
<1>5. faults \in 0..MaxFaults
  BY CARotationAssumption DEF Init
<1>6. \A a \in Agents : TaskOK(a)
  BY FirstOK, Zenon DEF Init, TaskOK
<1> QED BY <1>1, <1>3, <1>4, <1>5, <1>6 DEF TInv, AgentsOK

\* A request makes a version of a version.
LEMMA NextTyped ==
    ASSUME NEW c \in CAs, c.additional = NoKeys <=> c.rotation.phase = "standby",
           NEW target \in Phases, NEW mode \in Modes, c.rotation.phase \in From(target),
           target = "init" => c.rotation.id < MaxRotations,
           NEW d, d = processRotationRequest(c, target, mode)
    PROVE  d \in CAs /\ (d.additional = NoKeys <=> d.rotation.phase = "standby")
<1>0. /\ c.active \in Keys /\ c.active # NoKeys /\ c.additional \in Keys \cup {NoKeys}
      /\ c.mode \in Modes /\ c.rotation.id \in Keys /\ c.rotation.phase \in Phases
      /\ "manual" \in Modes /\ c.rotation \in Rotations
  BY CAParts DEF Modes
<1>k. \A k \in Keys : k # NoKeys
  BY CARotationAssumption DEF Keys, NoKeys
<1>1. CASE target = "init"
  <2>1. d = startNewRotation(c, mode)
    BY <1>1, Zenon DEF processRotationRequest
  <2>2. c.rotation.id + 1 \in Keys
    BY <1>0, <1>1, CARotationAssumption DEF Keys
  <2>3. d.additional = c.rotation.id + 1 /\ d.rotation.phase = "init" /\ d \in CAs
    BY <1>0, <1>1, <2>1, <2>2 DEF startNewRotation, CAs, Rotations
  <2> QED BY <1>k, <2>2, <2>3
<1>2. CASE target = "update_clients"
  <2>1. d = InPhase(Swapped(c), "update_clients", mode) /\ c.rotation.phase = "init"
    BY <1>2 DEF processRotationRequest, From, updateClients
  <2>2. c.additional \in Keys
    BY <1>0, <2>1
  <2> QED BY <1>0, <1>2, <2>1, <2>2 DEF InPhase, Swapped, CAs, Rotations
<1>3. CASE target = "update_servers"
  <2>1. d = InPhase(c, "update_servers", mode) /\ c.rotation.phase = "update_clients"
    BY <1>3 DEF processRotationRequest, From
  <2> QED BY <1>0, <1>3, <2>1 DEF InPhase, CAs, Rotations
<1>4. CASE target = "rollback"
  <2>1. /\ d = startRollingBackRotation(c)
        /\ c.rotation.phase \in {"init", "update_clients", "update_servers"}
    BY <1>4 DEF processRotationRequest, From
  <2>2. c.additional \in Keys
    BY <1>0, <2>1
  <2>3. CASE c.rotation.phase = "init"
    <3>1. d = InPhase(c, "rollback", "manual")
      BY <2>1, <2>3, Zenon DEF startRollingBackRotation
    <3> QED BY <1>0, <1>4, <1>k, <2>2, <3>1 DEF InPhase, CAs, Rotations
  <2>4. CASE c.rotation.phase # "init"
    <3>1. d = InPhase(Swapped(c), "rollback", "manual")
      BY <2>1, <2>4, Zenon DEF startRollingBackRotation
    <3> QED BY <1>0, <1>4, <2>2, <3>1 DEF InPhase, Swapped, CAs, Rotations
  <2> QED BY <2>3, <2>4
<1>5. CASE target = "standby"
  <2>1. d = InPhase([c EXCEPT !.additional = NoKeys], "standby", "manual")
    BY <1>5 DEF processRotationRequest, completeRotation
  <2>2. "standby" \in Phases
    BY DEF Phases
  <2> QED BY <1>0, <2>1, <2>2 DEF InPhase, CAs, Rotations
<1> QED BY <1>1, <1>2, <1>3, <1>4, <1>5, Zenon DEF Phases

\* A decision.
LEMMA DecideTyped ==
    ASSUME TInv, NEW s \in Auths, NEW target \in Phases, NEW mode \in Modes,
           target = "init" => ca.rotation.id < MaxRotations, Decide(s, target, mode)
    PROVE  TInv'
<1> DEFINE d == processRotationRequest(ca, target, mode)
           q == [at |-> "read", next |-> d]
<1>1. /\ ca' = ca /\ cache' = cache /\ events' = events /\ original' = original
      /\ UNCHANGED agentVars /\ request' = [request EXCEPT ![s] = q]
      /\ ca.rotation.phase \in From(target)
  BY Zenon DEF Decide
<1>2. /\ ca \in CAs /\ (ca.additional = NoKeys <=> ca.rotation.phase = "standby")
      /\ request \in [Auths -> {NoRequest, Stale} \cup [at : {"read"}, next : CAs]]
  BY Zenon DEF TInv, CAsOK
<1>3. d \in CAs /\ (d.additional = NoKeys <=> d.rotation.phase = "standby")
  BY <1>1, <1>2, NextTyped, Zenon
<1> HIDE DEF d
<1>4. q \in {NoRequest, Stale} \cup [at : {"read"}, next : CAs] /\ q.next = d
  BY <1>3
<1> HIDE DEF q
<1>5. request' \in [Auths -> {NoRequest, Stale} \cup [at : {"read"}, next : CAs]]
      /\ request'[s] = q /\ \A t \in Auths : t # s => request'[t] = request[t]
  BY <1>1, <1>2, <1>4
<1>6. \A t \in Auths : request'[t].at = "read" =>
        (request'[t].next.additional = NoKeys <=> request'[t].next.rotation.phase = "standby")
  <2> SUFFICES ASSUME NEW t \in Auths, request'[t].at = "read"
               PROVE  request'[t].next.additional = NoKeys
                        <=> request'[t].next.rotation.phase = "standby"
    OBVIOUS
  <2>1. CASE t = s
    BY <1>3, <1>4, <1>5, <2>1, Zenon
  <2>2. CASE t # s
    BY <1>5, <2>2, Zenon DEF TInv, CAsOK
  <2> QED BY <2>1, <2>2
<1>7. CAsOK'
  BY <1>1, <1>5, <1>6, Zenon DEF TInv, CAsOK
<1>8. AgentsOK'
  BY <1>1, Zenon DEF TInv, AgentsOK, TaskOK, agentVars
<1> QED BY <1>7, <1>8 DEF TInv

\* The steps of the auth servers.
LEMMA AuthTyped ==
    ASSUME TInv, NEW s \in Auths, UpdateCertAuthority(s) \/ UpdateFails(s) \/ CacheEvent(s)
    PROVE  TInv'
<1>1. UNCHANGED agentVars
  BY Zenon DEF UpdateCertAuthority, UpdateFails, CacheEvent
<1>2. AgentsOK'
  BY <1>1, Zenon DEF TInv, AgentsOK, TaskOK, agentVars
<1>3. /\ ca \in CAs /\ (ca.additional = NoKeys <=> ca.rotation.phase = "standby")
      /\ cache \in [Auths -> CAs] /\ events \in [Auths -> Seq(CAs)] /\ original \in Keys
      /\ request \in [Auths -> {NoRequest, Stale} \cup [at : {"read"}, next : CAs]]
      /\ \A t \in Auths : request[t].at = "read" =>
           (request[t].next.additional = NoKeys <=> request[t].next.rotation.phase = "standby")
  BY Zenon DEF TInv, CAsOK
<1>4. CASE UpdateCertAuthority(s)
  <2>1. /\ request[s].at = "read" /\ ca' = request[s].next /\ cache' = cache
        /\ events' = [t \in Auths |-> Append(events[t], request[s].next)]
        /\ request' = [t \in Auths |-> IF t = s \/ request[t].at = "none" THEN NoRequest
                                       ELSE Stale]
        /\ original' = IF ca.rotation.phase = "standby" THEN ca.active ELSE original
    BY <1>4, Zenon DEF UpdateCertAuthority, Written
  <2>2. request[s].next \in CAs
    <3>1. request[s] \in [at : {"read"}, next : CAs]
      BY <1>3, <2>1, FirstOK
    <3> QED BY <3>1
  <2>3. events' \in [Auths -> Seq(CAs)]
    <3>1. \A t \in Auths : Append(events[t], request[s].next) \in Seq(CAs)
      BY <1>3, <2>2, AppendProperties
    <3> QED BY <2>1, <3>1, Zenon
  <2>4. \A t \in Auths : request'[t] \in {NoRequest, Stale}
    BY <2>1, Zenon
  <2>5. /\ request' \in [Auths -> {NoRequest, Stale} \cup [at : {"read"}, next : CAs]]
        /\ \A t \in Auths : request'[t].at # "read"
    <3>1. NoRequest.at # "read" /\ Stale.at # "read"
      BY FirstOK
    <3> QED BY <2>1, <2>4, <3>1, Zenon
  <2>6. original' \in Keys
    BY <1>3, <2>1, CAParts, Zenon
  <2>7. ca' \in CAs /\ (ca'.additional = NoKeys <=> ca'.rotation.phase = "standby")
    BY <1>3, <2>1, <2>2, Zenon
  <2> QED BY <1>2, <1>3, <2>1, <2>3, <2>5, <2>6, <2>7, Zenon DEF TInv, CAsOK
<1>5. CASE UpdateFails(s)
  <2>1. /\ ca' = ca /\ cache' = cache /\ events' = events /\ original' = original
        /\ request' = [request EXCEPT ![s] = NoRequest]
    BY <1>5, Zenon DEF UpdateFails
  <2>2. /\ request' \in [Auths -> {NoRequest, Stale} \cup [at : {"read"}, next : CAs]]
        /\ \A t \in Auths : request'[t] = NoRequest \/ request'[t] = request[t]
    BY <1>3, <2>1, Zenon
  <2>3. NoRequest.at # "read"
    BY FirstOK
  <2>4. \A t \in Auths : request'[t].at = "read" =>
          (request'[t].next.additional = NoKeys <=> request'[t].next.rotation.phase = "standby")
    BY <1>3, <2>2, <2>3, Zenon
  <2> QED BY <1>2, <1>3, <2>1, <2>2, <2>4, Zenon DEF TInv, CAsOK
<1>6. CASE CacheEvent(s)
  <2>1. /\ events[s] # <<>> /\ cache' = [cache EXCEPT ![s] = Head(events[s])]
        /\ events' = [events EXCEPT ![s] = Tail(@)]
        /\ ca' = ca /\ request' = request /\ original' = original
    BY <1>6, Zenon DEF CacheEvent
  <2>2. Head(events[s]) \in CAs /\ Tail(events[s]) \in Seq(CAs)
    BY <1>3, <2>1, HeadTailProperties
  <2>3. cache' \in [Auths -> CAs] /\ events' \in [Auths -> Seq(CAs)]
    BY <1>3, <2>1, <2>2, Zenon
  <2> QED BY <1>2, <1>3, <2>1, <2>3, Zenon DEF TInv, CAsOK
<1> QED BY <1>4, <1>5, <1>6

\* The steps of the agents.
LEMMA AgentTyped ==
    ASSUME TInv, NEW a \in Agents, Sync(a) \/ SyncFails(a) \/ Crash(a) \/ Restart(a)
    PROVE  TInv'
<1>1. UNCHANGED caVars
  BY Zenon DEF Sync, syncRotationState, reRegister, reRegisterRefused, WriteIdentity,
     WriteState, SyncFails, Crash, Restart
<1>2. CAsOK'
  BY <1>1, Zenon DEF TInv, CAsOK, caVars
<1>3. /\ disk \in [Agents -> DiskOK]
      /\ client \in [Agents -> Identities] /\ server \in [Agents -> Identities]
      /\ up \in [Agents -> BOOLEAN] /\ task \in [Agents -> TaskType]
      /\ faults \in 0..MaxFaults
      /\ (\A b \in Agents : TaskOK(b)) /\ cache \in [Auths -> CAs] /\ ca \in CAs
  BY Zenon DEF TInv, AgentsOK, CAsOK
<1>4. /\ disk[a] \in DiskOK /\ client[a] \in Identities /\ task[a] \in TaskType
      /\ disk[a].state \in Rotations /\ disk[a].current \in Identities
      /\ disk[a].replacement \in Identities \cup {NoIdentity}
      /\ task[a].remote \in Rotations /\ task[a].id \in Identities \cup {NoIdentity}
      /\ task[a].at \in {"idle", "register", "identity", "state"}
      /\ task[a].at # "idle" => task[a].id \in Identities
  BY <1>3 DEF DiskOK, TaskType, TaskOK
<1>5. ASSUME NEW t \in TaskType, task' = [task EXCEPT ![a] = t], up' = up,
             t.at # "idle" => t.id \in Identities /\ up[a]
      PROVE  task' \in [Agents -> TaskType] /\ \A b \in Agents : TaskOK(b)'
  <2>1. task' \in [Agents -> TaskType] /\ task'[a] = t
        /\ \A b \in Agents : b # a => task'[b] = task[b]
    BY <1>3, <1>5, Zenon
  <2> QED BY <1>3, <1>5, <2>1, Zenon DEF TaskOK
<1>6. ASSUME NEW s \in Auths, syncRotationState(a, s) PROVE AgentsOK'
  <2> DEFINE t == [at |-> FirstStep(cache[s].rotation), remote |-> cache[s].rotation,
                   id |-> client[a]]
  <2>1. /\ task' = [task EXCEPT ![a] = t] /\ up[a]
        /\ UNCHANGED <<disk, client, server, up, faults>>
    BY <1>6, Zenon DEF syncRotationState
  <2>2. cache[s].rotation \in Rotations /\ cache[s].rotation.phase \in Phases
    BY <1>3, CAParts
  <2>3. FirstStep(cache[s].rotation) \in {"register", "identity", "state"}
    BY <2>2 DEF FirstStep, Phases
  <2>4. t \in TaskType /\ t.id \in Identities
    BY <1>4, <2>2, <2>3 DEF TaskType
  <2> HIDE DEF t
  <2> QED BY <1>3, <1>5, <2>1, <2>4, Zenon DEF AgentsOK
<1>7. ASSUME NEW s \in Auths, reRegister(a, s) PROVE AgentsOK'
  <2>1. PICK id \in {SignedBy(ca), SignedBy(cache[s])} :
          task' = [task EXCEPT ![a].at = "identity", ![a].id = id]
    BY <1>7, Zenon DEF reRegister
  <2>2. id \in Identities
    BY <1>3, Signed
  <2> DEFINE t == [at |-> "identity", remote |-> task[a].remote, id |-> id]
  <2>3. task[a] = [at |-> task[a].at, remote |-> task[a].remote, id |-> task[a].id]
    BY <1>4 DEF TaskType
  <2>4. task' = [task EXCEPT ![a] = t]
    <3>1. /\ task' = [b \in Agents |-> task'[b]] /\ task'[a] = t
          /\ \A b \in Agents : b # a => task'[b] = task[b]
      BY <1>3, <2>1, <2>3
    <3> HIDE DEF t
    <3> QED BY <1>3, <3>1
  <2>5. t \in TaskType /\ t.id \in Identities
    BY <1>4, <2>2 DEF TaskType
  <2>6. up[a] /\ UNCHANGED <<disk, client, server, up, faults>>
    BY <1>7, Zenon DEF reRegister
  <2> HIDE DEF t
  <2> QED BY <1>3, <1>5, <2>4, <2>5, <2>6, Zenon DEF AgentsOK
<1>8. ASSUME NEW s \in Auths, reRegisterRefused(a, s) PROVE AgentsOK'
  <2>1. task' = [task EXCEPT ![a] = Idle] /\ UNCHANGED <<disk, client, server, up, faults>>
    BY <1>8, Zenon DEF reRegisterRefused
  <2> QED BY <1>3, <1>5, <2>1, FirstOK, Zenon DEF AgentsOK
<1>9. ASSUME WriteIdentity(a) PROVE AgentsOK'
  <2> DEFINE d == IF Replaces(task[a].remote) THEN [disk[a] EXCEPT !.replacement = task[a].id]
                  ELSE [disk[a] EXCEPT !.current = task[a].id]
             t == [at |-> "state", remote |-> task[a].remote, id |-> task[a].id]
  <2>1. /\ task[a].at = "identity" /\ up[a] /\ disk' = [disk EXCEPT ![a] = d]
        /\ task' = [task EXCEPT ![a].at = "state"] /\ UNCHANGED <<client, server, up, faults>>
    BY <1>9 DEF WriteIdentity
  <2>2. d \in DiskOK
    BY <1>4, <2>1 DEF DiskOK
  <2>3. task' = [task EXCEPT ![a] = t] /\ t \in TaskType /\ t.id = task[a].id
    <3>1. task[a] = [at |-> task[a].at, remote |-> task[a].remote, id |-> task[a].id]
      BY <1>4 DEF TaskType
    <3>2. /\ task' = [b \in Agents |-> task'[b]] /\ task'[a] = t
          /\ \A b \in Agents : b # a => task'[b] = task[b]
      BY <1>3, <2>1, <3>1
    <3>3. t \in TaskType /\ t.id = task[a].id
      BY <1>4 DEF TaskType
    <3> HIDE DEF t
    <3> QED BY <1>3, <3>2, <3>3
  <2> HIDE DEF d, t
  <2>4. disk' \in [Agents -> DiskOK]
    BY <1>3, <2>1, <2>2, Zenon
  <2>5. task[a].id \in Identities
    BY <1>4, <2>1
  <2> QED BY <1>3, <1>5, <2>1, <2>3, <2>4, <2>5, Zenon DEF AgentsOK
<1>10. ASSUME WriteState(a) PROVE AgentsOK'
  <2>1. /\ task[a].at = "state" /\ task' = [task EXCEPT ![a] = Idle] /\ UNCHANGED <<up, faults>>
        /\ disk' = [disk EXCEPT ![a].state = task[a].remote]
        /\ client' = [client EXCEPT ![a] = IF task[a].remote.phase = "init" THEN @
                                           ELSE task[a].id]
        /\ server' = [server EXCEPT
             ![a] = IF task[a].remote.phase \in {"init", "update_clients"} THEN @ ELSE task[a].id]
    BY <1>10, Zenon DEF WriteState
  <2>2. task[a].id \in Identities
    BY <1>4, <2>1
  <2>3. disk' \in [Agents -> DiskOK]
    BY <1>3, <1>4, <2>1 DEF DiskOK
  <2>4. client' \in [Agents -> Identities] /\ server' \in [Agents -> Identities]
    BY <1>3, <2>1, <2>2
  <2> QED BY <1>3, <1>5, <2>1, <2>3, <2>4, FirstOK, Zenon DEF AgentsOK
<1>11. ASSUME SyncFails(a) PROVE AgentsOK'
  <2>1. task' = [task EXCEPT ![a] = Idle] /\ UNCHANGED <<disk, client, server, up>>
        /\ faults < MaxFaults /\ faults' = faults + 1
    BY <1>11, Zenon DEF SyncFails
  <2>2. faults' \in 0..MaxFaults
    BY <1>3, <2>1, CARotationAssumption
  <2> QED BY <1>3, <1>5, <2>1, <2>2, FirstOK, Zenon DEF AgentsOK
<1>12. ASSUME Crash(a) PROVE AgentsOK'
  <2>1. task' = [task EXCEPT ![a] = Idle] /\ UNCHANGED <<disk, client, server>>
        /\ faults < MaxFaults /\ faults' = faults + 1 /\ up' = [up EXCEPT ![a] = FALSE]
    BY <1>12, Zenon DEF Crash
  <2>2. faults' \in 0..MaxFaults
    BY <1>3, <2>1, CARotationAssumption
  <2>3. task' \in [Agents -> TaskType] /\ up' \in [Agents -> BOOLEAN] /\ task'[a] = Idle
        /\ \A b \in Agents : b # a => task'[b] = task[b] /\ up'[b] = up[b]
    BY <1>3, <2>1, FirstOK, Zenon
  <2>4. \A b \in Agents : TaskOK(b)'
    BY <1>3, <2>3, FirstOK, Zenon DEF TaskOK
  <2> QED BY <1>3, <2>1, <2>2, <2>3, <2>4, Zenon DEF AgentsOK
<1>13. ASSUME Restart(a) PROVE AgentsOK'
  <2>1. /\ up' = [up EXCEPT ![a] = TRUE] /\ UNCHANGED <<disk, task, faults>>
        /\ client' = [client EXCEPT
             ![a] = IF disk[a].state.phase = "update_clients" /\ disk[a].replacement # NoIdentity
                    THEN disk[a].replacement ELSE disk[a].current]
        /\ server' = [server EXCEPT ![a] = disk[a].current]
    BY <1>13, Zenon DEF Restart
  <2>2. client' \in [Agents -> Identities] /\ server' \in [Agents -> Identities]
    BY <1>3, <1>4, <2>1
  <2>3. up' \in [Agents -> BOOLEAN] /\ up'[a]
        /\ \A b \in Agents : b # a => up'[b] = up[b]
    BY <1>3, <2>1, Zenon
  <2>4. \A b \in Agents : TaskOK(b)'
    BY <1>3, <2>1, <2>3, Zenon DEF TaskOK
  <2> QED BY <1>3, <2>1, <2>2, <2>3, <2>4, Zenon DEF AgentsOK
<1> QED BY <1>2, <1>6, <1>7, <1>8, <1>9, <1>10, <1>11, <1>12, <1>13, Zenon DEF Sync, TInv

\* Every step keeps the types.
LEMMA TNext == TInv /\ [Next]_vars => TInv'
<1> SUFFICES ASSUME TInv, [Next]_vars PROVE TInv'
  OBVIOUS
<1>1. ASSUME NEW s \in Asked, NEW target \in Phases, NEW mode \in AskedModes,
             Rotate(s, target, mode)
      PROVE  TInv'
  BY <1>1, DecideTyped, CARotationAssumption, Zenon DEF Rotate
<1>2. ASSUME NEW s \in Auths, autoRotate(s) PROVE TInv'
  <2>1. "auto" \in Modes /\ {"update_clients", "update_servers", "standby"} \subseteq Phases
        /\ "update_clients" # "init" /\ "update_servers" # "init" /\ "standby" # "init"
    BY DEF Modes, Phases
  <2> QED BY <1>2, <2>1, DecideTyped, Zenon DEF autoRotate
<1>3. CASE UNCHANGED vars
  BY <1>3, Zenon DEF TInv, CAsOK, AgentsOK, TaskOK, vars, caVars, agentVars
<1> QED BY <1>1, <1>2, <1>3, AuthTyped, AgentTyped, Zenon DEF Next

\* The types of the variables, among them that the CA has additional keys exactly while a
\* rotation is in progress.
THEOREM TypesAlways == Spec => []TypeOK
<1>1. Spec => []TInv
  BY TInit, TNext, PTL DEF Spec
<1> QED BY <1>1, TInvTypes, PTL

-----------------------------------------------------------------------------
(* Trust *)

\* The identities of before and of the phases in which both keys are trusted.
OldId(i, k) == i.signer = k /\ k \in i.trusts
NewId(i) ==
    /\ i.signer \in {original, ca.rotation.id}
    /\ {original, ca.rotation.id} \subseteq i.trusts
    /\ ca.rotation.phase # "rollback" => i.signer = ca.rotation.id
BackId(i) == i.signer = original /\ {original, ca.rotation.id} \subseteq i.trusts

\* The versions of the CA that an auth server has or will have.
Has(s) == {cache[s]} \cup {events[s][i] : i \in 1..Len(events[s])}

\* The last of them is the one in the backend.
Latest(s) ==
    IF events[s] = <<>> THEN cache[s] = ca ELSE events[s][Len(events[s])] = ca

\* Everybody has followed the phase.
Quiet ==
    /\ \A s \in Auths : events[s] = <<>>
    /\ \A a \in Agents : task[a].at = "idle" /\ disk[a].state = ca.rotation

\* A phase is left only then, unless for a rollback.
Waits(s) ==
    request[s].at = "read" => request[s].next.rotation.phase = "rollback" \/ Quiet

\* One set of keys is in use.
OneKeyHas(s) ==
    \A v \in Has(s) : v.active = ca.active /\ v.rotation.phase # "update_clients"
OneKeyUsed(a) ==
    /\ OldId(client[a], ca.active) /\ server[a].signer = ca.active
    /\ OldId(disk[a].current, ca.active) /\ disk[a].state.phase # "update_clients"
    /\ task[a].at # "idle" =>
         task[a].remote.phase # "update_clients" /\ OldId(task[a].id, ca.active)
OneKey ==
    /\ ca.rotation.phase \in {"standby", "init", "rollback"}
    /\ \A s \in Auths : OneKeyHas(s)
    /\ \A a \in Agents : OneKeyUsed(a)

\* Both keys are trusted, and a version in the phase rollback is the last one.
BothTrusted(s, phases) ==
    /\ \A v \in Has(s) :
         /\ Trusted(v) = {original, ca.rotation.id}
         /\ v.rotation.phase \in phases
         /\ v.rotation.phase \in {"update_clients", "update_servers"} => v.active = ca.rotation.id
         /\ v.rotation.phase \in {"init", "rollback"} => v.active = original
         /\ v.rotation.phase = "rollback" => ca.rotation.phase = "rollback"
    /\ cache[s].rotation.phase = "rollback" => events[s] = <<>>
    /\ \A i \in 1..Len(events[s]) :
         /\ events[s][i].rotation.phase # "init"
         /\ events[s][i].rotation.phase = "rollback" => i = Len(events[s])

\* What an auth server has cached is not older than the phase that its agent follows.
NotBefore(a) ==
    a \in Auths /\ task[a].at = "register" =>
      /\ task[a].remote.phase = "rollback" => cache[a].rotation.phase = "rollback"
      /\ task[a].remote.phase = "update_clients" => cache[a].rotation.phase # "init"

\* Servers have the old identity, and clients get the new one.
ClientOf(a) ==
    /\ server[a].signer = original /\ OldId(disk[a].current, original)
    /\ disk[a].state.phase \in {"init", "update_clients", "rollback"}
    /\ disk[a].state.phase = "update_clients" => NewId(client[a]) /\ NewId(disk[a].replacement)
    /\ disk[a].state.phase # "update_clients" => OldId(client[a], original)
    /\ task[a].at # "idle" => task[a].remote.phase \in {"update_clients", "rollback"}
    /\ task[a].at \in {"identity", "state"} =>
         /\ task[a].remote.phase = "update_clients" => NewId(task[a].id)
         /\ task[a].remote.phase = "rollback" => OldId(task[a].id, original)
    /\ task[a].at = "state" /\ task[a].remote.phase = "update_clients"
         => NewId(disk[a].replacement)
    /\ NotBefore(a)
ClientsChange ==
    /\ ca.rotation.phase \in {"update_clients", "rollback"}
    /\ \A s \in Auths : BothTrusted(s, {"init", "update_clients", "rollback"})
    /\ \A a \in Agents : ClientOf(a)

\* Clients trust both keys, and servers get the new identity.
ServerOf(a) ==
    /\ NewId(client[a])
    /\ server[a].signer \in {original, ca.rotation.id}
    /\ disk[a].current.signer \in {original, ca.rotation.id}
    /\ disk[a].state.phase \in {"update_clients", "update_servers", "rollback"}
    /\ disk[a].state.phase = "update_clients" => NewId(disk[a].replacement)
    /\ disk[a].state.phase # "update_clients" =>
         /\ NewId(disk[a].current)
         /\ ca.rotation.phase # "rollback" => server[a].signer = ca.rotation.id
    /\ disk[a].state.phase = "rollback" =>
         /\ ca.rotation.phase = "rollback"
         /\ BackId(client[a]) /\ BackId(disk[a].current) /\ server[a].signer = original
    /\ task[a].at # "idle" =>
         /\ task[a].remote.phase \in {"update_clients", "update_servers", "rollback"}
         /\ task[a].remote.phase = "rollback" => ca.rotation.phase = "rollback"
    /\ task[a].at = "register" => task[a].remote.phase # "update_servers"
    /\ task[a].at \in {"identity", "state"} =>
         /\ task[a].remote.phase = "update_clients" => NewId(task[a].id)
         /\ task[a].remote.phase = "update_servers" => task[a].id = client[a]
         /\ task[a].remote.phase = "rollback" => BackId(task[a].id)
    /\ task[a].at = "state" =>
         /\ task[a].remote.phase = "update_clients" => NewId(disk[a].replacement)
         /\ task[a].remote.phase # "update_clients" => disk[a].current = task[a].id
    /\ NotBefore(a)
ServersChange ==
    /\ ca.rotation.phase \in {"update_servers", "rollback"}
    /\ \A s \in Auths : BothTrusted(s, {"update_clients", "update_servers", "rollback"})
    /\ \A a \in Agents : ServerOf(a)

PInv ==
    /\ TInv /\ RInv
    /\ \A s \in Auths : Latest(s) /\ Waits(s)
    /\ OneKey \/ ClientsChange \/ ServersChange

\* A step of agent a leaves the CA and the others alone.
Others(a) ==
    /\ UNCHANGED caVars
    /\ \A b \in Agents \ {a} : /\ disk'[b] = disk[b] /\ client'[b] = client[b]
                               /\ server'[b] = server[b] /\ task'[b] = task[b]

\* syncRotationState starts a task.
LEMMA SyncEffect ==
    ASSUME TInv, NEW a \in Agents, NEW s \in Auths, syncRotationState(a, s)
    PROVE  /\ Others(a)
           /\ disk'[a] = disk[a] /\ client'[a] = client[a] /\ server'[a] = server[a]
           /\ task[a].at = "idle"
           /\ a \in Auths => a = s
           /\ task'[a].remote = cache[s].rotation /\ task'[a].id = client[a]
           /\ task'[a].at = FirstStep(cache[s].rotation)
           /\ Follows(disk[a].state, cache[s].rotation)
<1> DEFINE t == [at |-> FirstStep(cache[s].rotation), remote |-> cache[s].rotation,
                 id |-> client[a]]
<1>1. /\ task' = [task EXCEPT ![a] = t] /\ UNCHANGED <<caVars, disk, client, server>>
      /\ task[a] = Idle /\ Reaches(a, s) /\ Follows(disk[a].state, cache[s].rotation)
  BY Zenon DEF syncRotationState
<1>2. t.at = FirstStep(cache[s].rotation) /\ t.remote = cache[s].rotation /\ t.id = client[a]
  OBVIOUS
<1> HIDE DEF t
<1>3. task'[a] = t /\ \A b \in Agents \ {a} : task'[b] = task[b]
  BY <1>1, Zenon DEF TInv, AgentsOK
<1>4. task[a].at = "idle"
  BY <1>1, FirstOK
<1>5. a \in Auths => a = s
  BY <1>1, Zenon DEF Reaches
<1> QED BY <1>1, <1>2, <1>3, <1>4, <1>5, Zenon DEF Others

\* reRegister gets an identity, signed with the version that belongs to the phase or, for an
\* auth server, with the one that it has cached.
LEMMA RegisterEffect ==
    ASSUME TInv, NEW a \in Agents, NEW s \in Auths, reRegister(a, s)
    PROVE  /\ Others(a)
           /\ disk'[a] = disk[a] /\ client'[a] = client[a] /\ server'[a] = server[a]
           /\ task[a].at = "register" /\ task'[a].at = "identity"
           /\ task'[a].remote = task[a].remote
           /\ \E v \in {ca, cache[s]} :
                /\ v \in CAs /\ task'[a].id.signer = v.active /\ task'[a].id.trusts = Trusted(v)
                /\ v.active \in Trusted(v)
                /\ IF a \in Auths THEN v = cache[a] /\ s = a ELSE v.rotation = task[a].remote
<1>1. PICK id \in {SignedBy(ca), SignedBy(cache[s])} :
        /\ GenerateHostCerts(a, s, id)
        /\ task' = [task EXCEPT ![a].at = "identity", ![a].id = id]
  BY Zenon DEF reRegister
<1>2. task[a].at = "register" /\ Reaches(a, s) /\ UNCHANGED <<caVars, disk, client, server>>
  BY Zenon DEF reRegister
<1>3. task \in [Agents -> TaskType] /\ ca \in CAs /\ cache[s] \in CAs
  BY Zenon DEF TInv, AgentsOK, CAsOK
<1>4. task[a] = [at |-> task[a].at, remote |-> task[a].remote, id |-> task[a].id]
  BY <1>3 DEF TaskType
<1>5. /\ task'[a].at = "identity" /\ task'[a].remote = task[a].remote /\ task'[a].id = id
      /\ \A b \in Agents \ {a} : task'[b] = task[b]
  BY <1>1, <1>3, <1>4
<1>6. \E v \in {ca, cache[s]} :
        id = SignedBy(v) /\ IF a \in Auths THEN v = cache[a] /\ s = a
                            ELSE v.rotation = task[a].remote
  BY <1>1, <1>2, Zenon DEF GenerateHostCerts, Reaches
<1>7. \E v \in {ca, cache[s]} :
        /\ v \in CAs /\ id.signer = v.active /\ id.trusts = Trusted(v) /\ v.active \in Trusted(v)
        /\ IF a \in Auths THEN v = cache[a] /\ s = a ELSE v.rotation = task[a].remote
  BY <1>3, <1>6, Signed, Zenon
<1> QED BY <1>2, <1>5, <1>7, Zenon DEF Others

\* WriteIdentity writes the identity that the task has got.
LEMMA IdentityEffect ==
    ASSUME TInv, NEW a \in Agents, WriteIdentity(a)
    PROVE  /\ Others(a) /\ client'[a] = client[a] /\ server'[a] = server[a]
           /\ task[a].at = "identity" /\ task'[a].at = "state"
           /\ task'[a].remote = task[a].remote /\ task'[a].id = task[a].id
           /\ disk'[a].state = disk[a].state
           /\ task[a].remote.phase = "update_clients" =>
                disk'[a].replacement = task[a].id /\ disk'[a].current = disk[a].current
           /\ task[a].remote.phase # "update_clients" =>
                disk'[a].replacement = disk[a].replacement /\ disk'[a].current = task[a].id
<1>1. task \in [Agents -> TaskType] /\ disk \in [Agents -> DiskOK]
  BY Zenon DEF TInv, AgentsOK
<1>2. /\ task[a] = [at |-> task[a].at, remote |-> task[a].remote, id |-> task[a].id]
      /\ disk[a] = [state |-> disk[a].state, current |-> disk[a].current,
                    replacement |-> disk[a].replacement]
  BY <1>1 DEF TaskType, DiskOK
<1>3. /\ task[a].at = "identity" /\ task' = [task EXCEPT ![a].at = "state"]
      /\ UNCHANGED <<caVars, client, server>>
      /\ disk' = [disk EXCEPT
           ![a] = IF Replaces(task[a].remote) THEN [disk[a] EXCEPT !.replacement = task[a].id]
                  ELSE [disk[a] EXCEPT !.current = task[a].id]]
  BY DEF WriteIdentity
<1>4. /\ task'[a].at = "state" /\ task'[a].remote = task[a].remote /\ task'[a].id = task[a].id
      /\ \A b \in Agents \ {a} : task'[b] = task[b]
  BY <1>1, <1>2, <1>3
<1>5. \A b \in Agents \ {a} : disk'[b] = disk[b]
  BY <1>1, <1>3, Zenon
<1>6. disk'[a] = IF task[a].remote.phase = "update_clients"
                 THEN [disk[a] EXCEPT !.replacement = task[a].id]
                 ELSE [disk[a] EXCEPT !.current = task[a].id]
  BY <1>1, <1>3, Zenon DEF Replaces
<1>7. /\ disk'[a].state = disk[a].state
      /\ task[a].remote.phase = "update_clients" =>
           disk'[a].replacement = task[a].id /\ disk'[a].current = disk[a].current
      /\ task[a].remote.phase # "update_clients" =>
           disk'[a].replacement = disk[a].replacement /\ disk'[a].current = task[a].id
  BY <1>2, <1>6
<1> QED BY <1>3, <1>4, <1>5, <1>7, Zenon DEF Others

\* WriteState takes the identity into use.
LEMMA StateEffect ==
    ASSUME TInv, NEW a \in Agents, WriteState(a)
    PROVE  /\ Others(a) /\ task[a].at = "state" /\ task'[a].at = "idle"
           /\ disk'[a].state = task[a].remote /\ disk'[a].current = disk[a].current
           /\ disk'[a].replacement = disk[a].replacement
           /\ client'[a] = IF task[a].remote.phase = "init" THEN client[a] ELSE task[a].id
           /\ server'[a] = IF task[a].remote.phase \in {"init", "update_clients"} THEN server[a]
                           ELSE task[a].id
<1>1. /\ task \in [Agents -> TaskType] /\ disk \in [Agents -> DiskOK]
      /\ client \in [Agents -> Identities] /\ server \in [Agents -> Identities]
  BY Zenon DEF TInv, AgentsOK
<1>2. disk[a] = [state |-> disk[a].state, current |-> disk[a].current,
                 replacement |-> disk[a].replacement]
  BY <1>1 DEF DiskOK
<1>3. /\ task[a].at = "state" /\ task' = [task EXCEPT ![a] = Idle] /\ UNCHANGED caVars
      /\ disk' = [disk EXCEPT ![a].state = task[a].remote]
      /\ client' = [client EXCEPT ![a] = IF task[a].remote.phase = "init" THEN @ ELSE task[a].id]
      /\ server' = [server EXCEPT
           ![a] = IF task[a].remote.phase \in {"init", "update_clients"} THEN @ ELSE task[a].id]
  BY Zenon DEF WriteState
<1>4. task'[a].at = "idle" /\ \A b \in Agents \ {a} : task'[b] = task[b]
  BY <1>1, <1>3, FirstOK, Zenon
<1>5. /\ disk'[a].state = task[a].remote /\ disk'[a].current = disk[a].current
      /\ disk'[a].replacement = disk[a].replacement
      /\ \A b \in Agents \ {a} : disk'[b] = disk[b]
  BY <1>1, <1>2, <1>3
<1>6. /\ client'[a] = IF task[a].remote.phase = "init" THEN client[a] ELSE task[a].id
      /\ server'[a] = IF task[a].remote.phase \in {"init", "update_clients"} THEN server[a]
                      ELSE task[a].id
      /\ \A b \in Agents \ {a} : client'[b] = client[b] /\ server'[b] = server[b]
  BY <1>1, <1>3, Zenon
<1> QED BY <1>3, <1>4, <1>5, <1>6, Zenon DEF Others

\* A task ends without an effect.
LEMMA IdleEffect ==
    ASSUME TInv, NEW a \in Agents,
           (\E s \in Auths : reRegisterRefused(a, s)) \/ SyncFails(a) \/ Crash(a)
    PROVE  /\ Others(a) /\ task'[a].at = "idle"
           /\ disk'[a] = disk[a] /\ client'[a] = client[a] /\ server'[a] = server[a]
<1>1. task' = [task EXCEPT ![a] = Idle] /\ UNCHANGED <<caVars, disk, client, server>>
  BY Zenon DEF reRegisterRefused, SyncFails, Crash
<1>2. task'[a].at = "idle" /\ \A b \in Agents \ {a} : task'[b] = task[b]
  BY <1>1, FirstOK, Zenon DEF TInv, AgentsOK
<1> QED BY <1>1, <1>2, Zenon DEF Others

\* An agent is started, with what is on its disk.
LEMMA RestartEffect ==
    ASSUME TInv, NEW a \in Agents, Restart(a)
    PROVE  /\ Others(a) /\ task[a].at = "idle" /\ task'[a] = task[a] /\ disk'[a] = disk[a]
           /\ server'[a] = disk[a].current
           /\ client'[a] = IF disk[a].state.phase = "update_clients"
                              /\ disk[a].replacement # NoIdentity
                           THEN disk[a].replacement ELSE disk[a].current
<1>1. /\ ~up[a] /\ UNCHANGED <<caVars, disk, task>>
      /\ client' = [client EXCEPT
           ![a] = IF disk[a].state.phase = "update_clients" /\ disk[a].replacement # NoIdentity
                  THEN disk[a].replacement ELSE disk[a].current]
      /\ server' = [server EXCEPT ![a] = disk[a].current]
  BY Zenon DEF Restart
<1>2. task[a].at = "idle"
  BY <1>1, Zenon DEF TInv, AgentsOK, TaskOK
<1>3. /\ server'[a] = disk[a].current
      /\ client'[a] = IF disk[a].state.phase = "update_clients"
                         /\ disk[a].replacement # NoIdentity
                      THEN disk[a].replacement ELSE disk[a].current
      /\ \A b \in Agents \ {a} : client'[b] = client[b] /\ server'[b] = server[b]
  BY <1>1, Zenon DEF TInv, AgentsOK
<1> QED BY <1>1, <1>2, <1>3, Zenon DEF Others

AgentStep(a) == Sync(a) \/ SyncFails(a) \/ Crash(a) \/ Restart(a)

\* The CA in the backend, while both keys are trusted.
LEMMA BothInBackend ==
    ASSUME TInv, RInv, ca.rotation.phase # "standby"
    PROVE  /\ Trusted(ca) = {original, ca.rotation.id}
           /\ ca.rotation.phase \in {"update_clients", "update_servers"} =>
                ca.active = ca.rotation.id
           /\ ca.rotation.phase \in {"init", "rollback"} => ca.active = original
<1>1. /\ ca \in CAs /\ original \in Keys /\ ca.rotation.id \in Keys
      /\ ca.rotation.phase \in Phases
  BY CAParts DEF TInv, CAsOK
<1>2. original # NoKeys /\ ca.rotation.id # NoKeys
  BY <1>1, CARotationAssumption DEF Keys, NoKeys
<1>3. KeysOfPhase
  BY DEF RInv
<1>4. \/ ca.active = original /\ ca.additional = ca.rotation.id
      \/ ca.active = ca.rotation.id /\ ca.additional = original
  BY <1>1, <1>3 DEF KeysOfPhase, Phases
<1>5. Trusted(ca) = {original, ca.rotation.id}
  BY <1>2, <1>4 DEF Trusted
<1> QED BY <1>3, <1>5 DEF KeysOfPhase

\* One set of keys stays in use when an agent does something.
LEMMA OneKeyStep ==
    ASSUME TInv, RInv, OneKey, NEW a \in Agents, AgentStep(a)
    PROVE  OneKey'
<1>1. /\ OneKeyUsed(a)
      /\ \A s \in Auths : \A v \in {ca, cache[s]} :
           v.active = ca.active /\ v.rotation.phase # "update_clients"
  BY DEF OneKey, OneKeyHas, Has
<1>2. ASSUME Others(a), OneKeyUsed(a)' PROVE OneKey'
  <2>1. ca' = ca /\ cache' = cache /\ events' = events
    BY <1>2, Zenon DEF Others, caVars
  <2>2. ASSUME NEW s \in Auths PROVE OneKeyHas(s)'
    <3>1. Has(s)' = Has(s)
      BY <2>1 DEF Has
    <3> QED BY <2>1, <3>1 DEF OneKey, OneKeyHas
  <2>3. ASSUME NEW b \in Agents \ {a} PROVE OneKeyUsed(b)'
    <3>1. /\ disk'[b] = disk[b] /\ client'[b] = client[b]
          /\ server'[b] = server[b] /\ task'[b] = task[b] /\ OneKeyUsed(b)
      BY <1>2, Zenon DEF Others, OneKey
    <3> QED BY <2>1, <3>1 DEF OneKeyUsed, OldId
  <2>4. \A b \in Agents : OneKeyUsed(b)'
    BY <1>2, <2>3, Zenon
  <2> QED BY <2>1, <2>2, <2>4, Zenon DEF OneKey
<1>3. ASSUME Others(a) PROVE ca' = ca
  BY <1>3, Zenon DEF Others, caVars
<1>4. ASSUME NEW s \in Auths, syncRotationState(a, s) PROVE OneKey'
  BY <1>1, <1>2, <1>3, <1>4, SyncEffect, Zenon DEF OneKeyUsed, OldId
<1>5. ASSUME NEW s \in Auths, reRegister(a, s) PROVE OneKey'
  <2>1. /\ Others(a) /\ disk'[a] = disk[a] /\ client'[a] = client[a] /\ server'[a] = server[a]
        /\ task[a].at = "register" /\ task'[a].remote = task[a].remote
    BY <1>5, RegisterEffect, Zenon
  <2>2. PICK v \in {ca, cache[s]} :
          /\ task'[a].id.signer = v.active /\ task'[a].id.trusts = Trusted(v)
          /\ v.active \in Trusted(v)
    BY <1>5, RegisterEffect, ZenonT(40)
  <2>3. OldId(task'[a].id, ca.active)
    BY <1>1, <2>2, Zenon DEF OldId
  <2>4. task[a].remote.phase # "update_clients"
    <3>1. task[a].at # "idle"
      BY <2>1
    <3> QED BY <1>1, <3>1, Zenon DEF OneKeyUsed
  <2>5. OneKeyUsed(a)'
    BY <1>1, <1>3, <2>1, <2>3, <2>4, Zenon DEF OneKeyUsed, OldId
  <2> QED BY <1>2, <2>1, <2>5
<1>6. ASSUME WriteIdentity(a) PROVE OneKey'
  <2>1. task[a].at = "identity" /\ task[a].at # "idle"
    BY <1>6, IdentityEffect
  <2>2. task[a].remote.phase # "update_clients" /\ OldId(task[a].id, ca.active)
    BY <1>1, <2>1, Zenon DEF OneKeyUsed
  <2>3. OneKeyUsed(a)' /\ Others(a)
    BY <1>1, <1>3, <1>6, <2>2, IdentityEffect, Zenon DEF OneKeyUsed, OldId
  <2> QED BY <1>2, <2>3
<1>7. ASSUME WriteState(a) PROVE OneKey'
  <2>1. task[a].at = "state" /\ task[a].at # "idle"
    BY <1>7, StateEffect
  <2>2. task[a].remote.phase # "update_clients" /\ OldId(task[a].id, ca.active)
    BY <1>1, <2>1, Zenon DEF OneKeyUsed
  <2>3. OneKeyUsed(a)' /\ Others(a)
    BY <1>1, <1>3, <1>7, <2>2, StateEffect, Zenon DEF OneKeyUsed, OldId
  <2> QED BY <1>2, <2>3
<1>8. ASSUME (\E s \in Auths : reRegisterRefused(a, s)) \/ SyncFails(a) \/ Crash(a) PROVE OneKey'
  BY <1>1, <1>2, <1>3, <1>8, IdleEffect, Zenon DEF OneKeyUsed, OldId
<1>9. ASSUME Restart(a) PROVE OneKey'
  BY <1>1, <1>2, <1>3, <1>9, RestartEffect, Zenon DEF OneKeyUsed, OldId
<1> QED BY <1>4, <1>5, <1>6, <1>7, <1>8, <1>9, Zenon DEF AgentStep, Sync

\* An identity that trusts something is one.
LEMMA NewIsOne ==
    ASSUME NEW i, NewId(i) PROVE i # NoIdentity
<1>1. NoIdentity.trusts = {}
  BY DEF NoIdentity
<1> QED BY <1>1, Zenon DEF NewId

\* Clients go on changing.
LEMMA ClientsStep ==
    ASSUME TInv, RInv, ClientsChange, NEW a \in Agents, AgentStep(a)
    PROVE  ClientsChange'
<1>1. /\ ClientOf(a) /\ ca.rotation.phase # "standby" /\ ca.rotation.phase # "init"
  BY DEF ClientsChange
<1>2. ASSUME NEW s \in Auths, NEW v \in {ca, cache[s]}
      PROVE  /\ Trusted(v) = {original, ca.rotation.id}
             /\ v.rotation.phase \in {"init", "update_clients", "rollback"}
             /\ v.rotation.phase = "update_clients" => v.active = ca.rotation.id
             /\ v.rotation.phase \in {"init", "rollback"} => v.active = original
             /\ v.rotation.phase = "rollback" => ca.rotation.phase = "rollback"
  <2>1. CASE v = ca
    BY <1>1, <2>1, BothInBackend DEF ClientsChange
  <2>2. CASE v = cache[s]
    <3>1. v \in Has(s)
      BY <2>2 DEF Has
    <3> QED BY <3>1 DEF ClientsChange, BothTrusted
  <2> QED BY <2>1, <2>2
<1>3. ASSUME Others(a) PROVE ca' = ca /\ cache' = cache /\ events' = events /\ original' = original
  BY <1>3, Zenon DEF Others, caVars
<1>4. ASSUME Others(a), ClientOf(a)' PROVE ClientsChange'
  <2>1. ca' = ca /\ cache' = cache /\ events' = events /\ original' = original
    BY <1>3, <1>4
  <2>2. ASSUME NEW s \in Auths PROVE BothTrusted(s, {"init", "update_clients", "rollback"})'
    <3>1. Has(s)' = Has(s)
      BY <2>1 DEF Has
    <3> QED BY <2>1, <3>1 DEF ClientsChange, BothTrusted
  <2>3. ASSUME NEW b \in Agents \ {a} PROVE ClientOf(b)'
    <3>1. /\ disk'[b] = disk[b] /\ client'[b] = client[b]
          /\ server'[b] = server[b] /\ task'[b] = task[b] /\ ClientOf(b)
      BY <1>4, Zenon DEF Others, ClientsChange
    <3> QED BY <2>1, <3>1 DEF ClientOf, OldId, NewId, NotBefore
  <2>4. \A b \in Agents : ClientOf(b)'
    BY <1>4, <2>3, Zenon
  <2> QED BY <2>1, <2>2, <2>4, Zenon DEF ClientsChange
<1>5. ASSUME NEW s \in Auths, syncRotationState(a, s) PROVE ClientsChange'
  <2>1. /\ Others(a)
        /\ disk'[a] = disk[a] /\ client'[a] = client[a] /\ server'[a] = server[a]
        /\ a \in Auths => a = s
        /\ task'[a].remote = cache[s].rotation
        /\ task'[a].at = FirstStep(cache[s].rotation)
        /\ Follows(disk[a].state, cache[s].rotation)
    BY <1>5, SyncEffect, Zenon
  <2>2. cache[s].rotation.phase \in {"init", "update_clients", "rollback"}
    BY <1>2, Zenon
  <2>3. cache[s].rotation.phase # "init"
    BY <1>1, <2>1 DEF ClientOf, Follows, InProgress
  <2>4. task'[a].at = "register"
    BY <2>1, <2>2, <2>3 DEF FirstStep
  <2>5. ca' = ca /\ cache' = cache /\ events' = events /\ original' = original
    BY <1>3, <2>1
  <2>6. NotBefore(a)'
    BY <2>1, <2>3, <2>5, Zenon DEF NotBefore
  <2>7. ClientOf(a)'
    BY <1>1, <2>1, <2>2, <2>3, <2>4, <2>5, <2>6 DEF ClientOf, OldId, NewId
  <2> QED BY <1>4, <2>1, <2>7
<1>6. ASSUME NEW s \in Auths, reRegister(a, s) PROVE ClientsChange'
  <2>1. /\ Others(a) /\ disk'[a] = disk[a] /\ client'[a] = client[a] /\ server'[a] = server[a]
        /\ task[a].at = "register" /\ task'[a].remote = task[a].remote
        /\ task'[a].at = "identity"
    BY <1>6, RegisterEffect, Zenon
  <2>2. PICK v \in {ca, cache[s]} :
          /\ task'[a].id.signer = v.active /\ task'[a].id.trusts = Trusted(v)
          /\ IF a \in Auths THEN v = cache[a] /\ s = a ELSE v.rotation = task[a].remote
    BY <1>6, RegisterEffect, Zenon
  <2>3. ca' = ca /\ cache' = cache /\ events' = events /\ original' = original
    BY <1>3, <2>1
  <2>4. /\ Trusted(v) = {original, ca.rotation.id}
        /\ v.rotation.phase \in {"init", "update_clients", "rollback"}
        /\ v.rotation.phase = "update_clients" => v.active = ca.rotation.id
        /\ v.rotation.phase \in {"init", "rollback"} => v.active = original
        /\ v.rotation.phase = "rollback" => ca.rotation.phase = "rollback"
    BY <1>2, Zenon
  <2>5. /\ task[a].remote.phase = "rollback" => v.rotation.phase = "rollback"
        /\ task[a].remote.phase = "update_clients" => v.rotation.phase # "init"
    BY <1>1, <2>1, <2>2 DEF ClientOf, NotBefore
  <2>6. task[a].remote.phase = "rollback" => OldId(task'[a].id, original)
    BY <2>2, <2>4, <2>5 DEF OldId
  <2>7. task[a].remote.phase = "update_clients" => NewId(task'[a].id)
    BY <2>2, <2>4, <2>5 DEF NewId
  <2>8. ClientOf(a)'
    BY <1>1, <2>1, <2>3, <2>6, <2>7 DEF ClientOf, OldId, NewId, NotBefore
  <2> QED BY <1>4, <2>1, <2>8
<1>7. ASSUME WriteIdentity(a) PROVE ClientsChange'
  <2>1. /\ Others(a) /\ client'[a] = client[a] /\ server'[a] = server[a]
        /\ task[a].at = "identity" /\ task'[a].at = "state"
        /\ task'[a].remote = task[a].remote /\ task'[a].id = task[a].id
        /\ disk'[a].state = disk[a].state
        /\ task[a].remote.phase = "update_clients" =>
             disk'[a].replacement = task[a].id /\ disk'[a].current = disk[a].current
        /\ task[a].remote.phase # "update_clients" =>
             disk'[a].replacement = disk[a].replacement /\ disk'[a].current = task[a].id
    BY <1>7, IdentityEffect, Zenon
  <2>2. ca' = ca /\ cache' = cache /\ events' = events /\ original' = original
    BY <1>3, <2>1
  <2>3. ClientOf(a)'
    BY <1>1, <2>1, <2>2 DEF ClientOf, OldId, NewId, NotBefore
  <2> QED BY <1>4, <2>1, <2>3
<1>8. ASSUME WriteState(a) PROVE ClientsChange'
  <2>1. /\ Others(a) /\ task[a].at = "state" /\ task'[a].at = "idle"
        /\ disk'[a].state = task[a].remote /\ disk'[a].current = disk[a].current
        /\ disk'[a].replacement = disk[a].replacement
        /\ client'[a] = IF task[a].remote.phase = "init" THEN client[a] ELSE task[a].id
        /\ server'[a] = IF task[a].remote.phase \in {"init", "update_clients"} THEN server[a]
                        ELSE task[a].id
    BY <1>8, StateEffect, Zenon
  <2>2. ca' = ca /\ cache' = cache /\ events' = events /\ original' = original
    BY <1>3, <2>1
  <2>3. ClientOf(a)'
    BY <1>1, <2>1, <2>2 DEF ClientOf, OldId, NewId, NotBefore
  <2> QED BY <1>4, <2>1, <2>3
<1>9. ASSUME (\E s \in Auths : reRegisterRefused(a, s)) \/ SyncFails(a) \/ Crash(a)
      PROVE  ClientsChange'
  <2>1. /\ Others(a) /\ task'[a].at = "idle"
        /\ disk'[a] = disk[a] /\ client'[a] = client[a] /\ server'[a] = server[a]
    BY <1>9, IdleEffect, Zenon
  <2>2. ca' = ca /\ cache' = cache /\ events' = events /\ original' = original
    BY <1>3, <2>1
  <2>3. ClientOf(a)'
    BY <1>1, <2>1, <2>2 DEF ClientOf, OldId, NewId, NotBefore
  <2> QED BY <1>4, <2>1, <2>3
<1>10. ASSUME Restart(a) PROVE ClientsChange'
  <2>1. /\ Others(a) /\ task[a].at = "idle" /\ task'[a] = task[a] /\ disk'[a] = disk[a]
        /\ server'[a] = disk[a].current
        /\ client'[a] = IF disk[a].state.phase = "update_clients"
                           /\ disk[a].replacement # NoIdentity
                        THEN disk[a].replacement ELSE disk[a].current
    BY <1>10, RestartEffect, Zenon
  <2>2. ca' = ca /\ cache' = cache /\ events' = events /\ original' = original
    BY <1>3, <2>1
  <2>3. disk[a].state.phase = "update_clients" => disk[a].replacement # NoIdentity
    BY <1>1, NewIsOne, Zenon DEF ClientOf
  <2>4. ClientOf(a)'
    BY <1>1, <2>1, <2>2, <2>3 DEF ClientOf, OldId, NewId, NotBefore
  <2> QED BY <1>4, <2>1, <2>4
<1> QED BY <1>5, <1>6, <1>7, <1>8, <1>9, <1>10, Zenon DEF AgentStep, Sync

\* Servers go on changing.
LEMMA ServersStep ==
    ASSUME TInv, RInv, ServersChange, NEW a \in Agents, AgentStep(a)
    PROVE  ServersChange'
<1>1. /\ ServerOf(a) /\ ca.rotation.phase # "standby" /\ ca.rotation.phase # "init"
  BY DEF ServersChange
<1>2. ASSUME NEW s \in Auths, NEW v \in {ca, cache[s]}
      PROVE  /\ Trusted(v) = {original, ca.rotation.id}
             /\ v.rotation.phase \in {"update_clients", "update_servers", "rollback"}
             /\ v.rotation.phase # "rollback" => v.active = ca.rotation.id
             /\ v.rotation.phase = "rollback" => v.active = original
             /\ v.rotation.phase = "rollback" => ca.rotation.phase = "rollback"
  <2>1. CASE v = ca
    BY <1>1, <2>1, BothInBackend DEF ServersChange
  <2>2. CASE v = cache[s]
    <3>1. v \in Has(s)
      BY <2>2 DEF Has
    <3> QED BY <3>1 DEF ServersChange, BothTrusted
  <2> QED BY <2>1, <2>2
<1>3. ASSUME Others(a) PROVE ca' = ca /\ cache' = cache /\ events' = events /\ original' = original
  BY <1>3, Zenon DEF Others, caVars
<1>4. ASSUME Others(a), ServerOf(a)' PROVE ServersChange'
  <2>1. ca' = ca /\ cache' = cache /\ events' = events /\ original' = original
    BY <1>3, <1>4
  <2>2. ASSUME NEW s \in Auths PROVE BothTrusted(s, {"update_clients", "update_servers", "rollback"})'
    <3>1. Has(s)' = Has(s)
      BY <2>1 DEF Has
    <3> QED BY <2>1, <3>1 DEF ServersChange, BothTrusted
  <2>3. ASSUME NEW b \in Agents \ {a} PROVE ServerOf(b)'
    <3>1. /\ disk'[b] = disk[b] /\ client'[b] = client[b]
          /\ server'[b] = server[b] /\ task'[b] = task[b] /\ ServerOf(b)
      BY <1>4, Zenon DEF Others, ServersChange
    <3> QED BY <2>1, <3>1 DEF ServerOf, NewId, BackId, NotBefore
  <2>4. \A b \in Agents : ServerOf(b)'
    BY <1>4, <2>3, Zenon
  <2> QED BY <2>1, <2>2, <2>4, Zenon DEF ServersChange
<1>5. ASSUME NEW s \in Auths, syncRotationState(a, s) PROVE ServersChange'
  <2>1. /\ Others(a)
        /\ disk'[a] = disk[a] /\ client'[a] = client[a] /\ server'[a] = server[a]
        /\ a \in Auths => a = s
        /\ task'[a].remote = cache[s].rotation /\ task'[a].id = client[a]
        /\ task'[a].at = FirstStep(cache[s].rotation)
    BY <1>5, SyncEffect, Zenon
  <2>2. /\ cache[s].rotation.phase \in {"update_clients", "update_servers", "rollback"}
        /\ cache[s].rotation.phase = "rollback" => ca.rotation.phase = "rollback"
    BY <1>2, Zenon
  <2>3. /\ cache[s].rotation.phase = "update_servers" => task'[a].at = "identity"
        /\ cache[s].rotation.phase # "update_servers" => task'[a].at = "register"
    BY <2>1, <2>2 DEF FirstStep
  <2>4. ca' = ca /\ cache' = cache /\ events' = events /\ original' = original
    BY <1>3, <2>1
  <2>5. NotBefore(a)'
    <3>1. cache[s].rotation.phase # "init"
      BY <2>2
    <3> QED BY <2>1, <2>4, <3>1, Zenon DEF NotBefore
  <2>6. ServerOf(a)'
    BY <1>1, <2>1, <2>2, <2>3, <2>4, <2>5 DEF ServerOf, NewId, BackId
  <2> QED BY <1>4, <2>1, <2>6
<1>6. ASSUME NEW s \in Auths, reRegister(a, s) PROVE ServersChange'
  <2>1. /\ Others(a) /\ disk'[a] = disk[a] /\ client'[a] = client[a] /\ server'[a] = server[a]
        /\ task[a].at = "register" /\ task'[a].remote = task[a].remote
        /\ task'[a].at = "identity"
    BY <1>6, RegisterEffect, Zenon
  <2>2. PICK v \in {ca, cache[s]} :
          /\ task'[a].id.signer = v.active /\ task'[a].id.trusts = Trusted(v)
          /\ IF a \in Auths THEN v = cache[a] /\ s = a ELSE v.rotation = task[a].remote
    BY <1>6, RegisterEffect, Zenon
  <2>3. ca' = ca /\ cache' = cache /\ events' = events /\ original' = original
    BY <1>3, <2>1
  <2>4. /\ Trusted(v) = {original, ca.rotation.id}
        /\ v.rotation.phase \in {"update_clients", "update_servers", "rollback"}
        /\ v.rotation.phase # "rollback" => v.active = ca.rotation.id
        /\ v.rotation.phase = "rollback" => v.active = original
        /\ v.rotation.phase = "rollback" => ca.rotation.phase = "rollback"
    BY <1>2, Zenon
  <2>5. /\ task[a].remote.phase = "rollback" => v.rotation.phase = "rollback"
        /\ task[a].remote.phase # "update_servers"
    <3>1. task[a].remote.phase = "rollback" => v.rotation.phase = "rollback"
      BY <1>1, <2>1, <2>2 DEF ServerOf, NotBefore
    <3>2. task[a].remote.phase # "update_servers"
      BY <1>1, <2>1 DEF ServerOf
    <3> QED BY <3>1, <3>2
  <2>6. task[a].remote.phase = "rollback" => BackId(task'[a].id)
    BY <2>2, <2>4, <2>5 DEF BackId
  <2>7. task[a].remote.phase = "update_clients" => NewId(task'[a].id)
    BY <2>2, <2>4, <2>5 DEF NewId
  <2>8. ServerOf(a)'
    BY <1>1, <2>1, <2>3, <2>5, <2>6, <2>7 DEF ServerOf, NewId, BackId, NotBefore
  <2> QED BY <1>4, <2>1, <2>8
<1>7. ASSUME WriteIdentity(a) PROVE ServersChange'
  <2>1. /\ Others(a) /\ client'[a] = client[a] /\ server'[a] = server[a]
        /\ task[a].at = "identity" /\ task'[a].at = "state"
        /\ task'[a].remote = task[a].remote /\ task'[a].id = task[a].id
        /\ disk'[a].state = disk[a].state
        /\ task[a].remote.phase = "update_clients" =>
             disk'[a].replacement = task[a].id /\ disk'[a].current = disk[a].current
        /\ task[a].remote.phase # "update_clients" =>
             disk'[a].replacement = disk[a].replacement /\ disk'[a].current = task[a].id
    BY <1>7, IdentityEffect, Zenon
  <2>2. ca' = ca /\ cache' = cache /\ events' = events /\ original' = original
    BY <1>3, <2>1
  <2>3. ServerOf(a)'
    BY <1>1, <2>1, <2>2 DEF ServerOf, NewId, BackId, NotBefore
  <2> QED BY <1>4, <2>1, <2>3
<1>8. ASSUME WriteState(a) PROVE ServersChange'
  <2>1. /\ Others(a) /\ task[a].at = "state" /\ task'[a].at = "idle"
        /\ disk'[a].state = task[a].remote /\ disk'[a].current = disk[a].current
        /\ disk'[a].replacement = disk[a].replacement
        /\ client'[a] = IF task[a].remote.phase = "init" THEN client[a] ELSE task[a].id
        /\ server'[a] = IF task[a].remote.phase \in {"init", "update_clients"} THEN server[a]
                        ELSE task[a].id
    BY <1>8, StateEffect, Zenon
  <2>2. ca' = ca /\ cache' = cache /\ events' = events /\ original' = original
    BY <1>3, <2>1
  <2>3. ServerOf(a)'
    BY <1>1, <2>1, <2>2 DEF ServerOf, NewId, BackId, NotBefore
  <2> QED BY <1>4, <2>1, <2>3
<1>9. ASSUME (\E s \in Auths : reRegisterRefused(a, s)) \/ SyncFails(a) \/ Crash(a)
      PROVE  ServersChange'
  <2>1. /\ Others(a) /\ task'[a].at = "idle"
        /\ disk'[a] = disk[a] /\ client'[a] = client[a] /\ server'[a] = server[a]
    BY <1>9, IdleEffect, Zenon
  <2>2. ca' = ca /\ cache' = cache /\ events' = events /\ original' = original
    BY <1>3, <2>1
  <2>3. ServerOf(a)'
    BY <1>1, <2>1, <2>2 DEF ServerOf, NewId, BackId, NotBefore
  <2> QED BY <1>4, <2>1, <2>3
<1>10. ASSUME Restart(a) PROVE ServersChange'
  <2>1. /\ Others(a) /\ task[a].at = "idle" /\ task'[a] = task[a] /\ disk'[a] = disk[a]
        /\ server'[a] = disk[a].current
        /\ client'[a] = IF disk[a].state.phase = "update_clients"
                           /\ disk[a].replacement # NoIdentity
                        THEN disk[a].replacement ELSE disk[a].current
    BY <1>10, RestartEffect, Zenon
  <2>2. ca' = ca /\ cache' = cache /\ events' = events /\ original' = original
    BY <1>3, <2>1
  <2>3. disk[a].state.phase = "update_clients" => disk[a].replacement # NoIdentity
    BY <1>1, NewIsOne, Zenon DEF ServerOf
  <2>4. ServerOf(a)'
    BY <1>1, <2>1, <2>2, <2>3 DEF ServerOf, NewId, BackId, NotBefore
  <2> QED BY <1>4, <2>1, <2>4
<1> QED BY <1>5, <1>6, <1>7, <1>8, <1>9, <1>10, Zenon DEF AgentStep, Sync

\* While everybody has followed the phase, nobody has anything to do.
LEMMA QuietStep ==
    ASSUME TInv, Quiet, \A s \in Auths : Latest(s), NEW a \in Agents, AgentStep(a)
    PROVE  Quiet'
<1>1. task[a].at = "idle" /\ disk[a].state = ca.rotation
  BY DEF Quiet
<1>2. ASSUME Others(a), task'[a].at = "idle", disk'[a] = disk[a] PROVE Quiet'
  <2>1. ca' = ca /\ events' = events
    BY <1>2, Zenon DEF Others, caVars
  <2>2. ASSUME NEW b \in Agents PROVE task'[b].at = "idle" /\ disk'[b].state = ca'.rotation
    <3>1. CASE b = a
      BY <1>1, <1>2, <2>1, <3>1, Zenon
    <3>2. CASE b # a
      <4>1. task'[b] = task[b] /\ disk'[b] = disk[b]
        BY <1>2, <3>2, Zenon DEF Others
      <4> QED BY <2>1, <4>1, Zenon DEF Quiet
    <3> QED BY <3>1, <3>2
  <2> QED BY <2>1, <2>2, Zenon DEF Quiet
<1>3. ASSUME NEW s \in Auths, syncRotationState(a, s) PROVE FALSE
  <2>1. Follows(disk[a].state, cache[s].rotation)
    BY <1>3, SyncEffect, Zenon
  <2>2. cache[s] = ca
    BY Zenon DEF Quiet, Latest
  <2> QED BY <1>1, <2>1, <2>2, Zenon DEF Follows
<1>4. ASSUME NEW s \in Auths, reRegister(a, s) PROVE FALSE
  BY <1>1, <1>4 DEF reRegister
<1>5. ASSUME WriteIdentity(a) \/ WriteState(a) PROVE FALSE
  BY <1>1, <1>5 DEF WriteIdentity, WriteState
<1>6. ASSUME (\E s \in Auths : reRegisterRefused(a, s)) \/ SyncFails(a) \/ Crash(a) PROVE Quiet'
  BY <1>2, <1>6, IdleEffect, Zenon
<1>7. ASSUME Restart(a) PROVE Quiet'
  BY <1>1, <1>2, <1>7, RestartEffect, Zenon
<1> QED BY <1>3, <1>4, <1>5, <1>6, <1>7, Zenon DEF AgentStep, Sync

\* The versions of an auth server after an event.
LEMMA EventEffect ==
    ASSUME TInv, NEW s \in Auths, CacheEvent(s)
    PROVE  /\ ca' = ca /\ original' = original /\ request' = request
           /\ disk' = disk /\ client' = client /\ server' = server /\ task' = task
           /\ events[s] # <<>> /\ cache'[s] = events[s][1]
           /\ Len(events[s]) \in Nat \ {0} /\ events'[s] \in Seq(CAs)
           /\ Len(events'[s]) = Len(events[s]) - 1
           /\ \A i \in 1..Len(events'[s]) : events'[s][i] = events[s][i + 1]
           /\ Has(s)' \subseteq Has(s)
           /\ \A t \in Auths \ {s} :
                cache'[t] = cache[t] /\ events'[t] = events[t] /\ Has(t)' = Has(t)
<1>1. /\ events[s] # <<>> /\ cache' = [cache EXCEPT ![s] = Head(events[s])]
      /\ events' = [events EXCEPT ![s] = Tail(@)]
      /\ ca' = ca /\ request' = request /\ original' = original /\ UNCHANGED agentVars
  BY Zenon DEF CacheEvent
<1>2. cache \in [Auths -> CAs] /\ events \in [Auths -> Seq(CAs)]
  BY Zenon DEF TInv, CAsOK
<1>3. /\ cache'[s] = Head(events[s]) /\ events'[s] = Tail(events[s])
      /\ \A t \in Auths \ {s} : cache'[t] = cache[t] /\ events'[t] = events[t]
  BY <1>1, <1>2, Zenon
<1>4. /\ cache'[s] = events[s][1] /\ Len(events[s]) \in Nat \ {0} /\ events'[s] \in Seq(CAs)
      /\ Len(events'[s]) = Len(events[s]) - 1
      /\ \A i \in 1..Len(events'[s]) : events'[s][i] = events[s][i + 1]
  <2>1. events[s] \in Seq(CAs) /\ Len(events[s]) \in Nat /\ Len(events[s]) # 0
    BY <1>1, <1>2, EmptySeq, LenProperties
  <2>2. Tail(events[s]) \in Seq(CAs) /\ Len(Tail(events[s])) = Len(events[s]) - 1
        /\ \A i \in 1..Len(Tail(events[s])) : Tail(events[s])[i] = events[s][i + 1]
    BY <1>1, <2>1, HeadTailProperties
  <2>3. Head(events[s]) = events[s][1]
    BY <2>1
  <2> QED BY <1>3, <2>1, <2>2, <2>3
<1>5. Has(s)' \subseteq Has(s)
  <2>1. 1 \in 1..Len(events[s]) /\ \A i \in 1..Len(events'[s]) : i + 1 \in 1..Len(events[s])
    BY <1>4
  <2> QED BY <1>4, <2>1 DEF Has
<1>6. \A t \in Auths \ {s} : Has(t)' = Has(t)
  BY <1>3 DEF Has
<1>7. disk' = disk /\ client' = client /\ server' = server /\ task' = task
  BY <1>1, Zenon DEF agentVars
<1> QED BY <1>1, <1>3, <1>4, <1>5, <1>6, <1>7, Zenon

\* What an event keeps.
LEMMA EventStep ==
    ASSUME TInv, RInv, \A s \in Auths : Latest(s) /\ Waits(s),
           OneKey \/ ClientsChange \/ ServersChange, NEW s \in Auths, CacheEvent(s)
    PROVE  /\ \A t \in Auths : Latest(t)' /\ Waits(t)'
           /\ (OneKey \/ ClientsChange \/ ServersChange)'
<1>1. /\ ca' = ca /\ original' = original /\ request' = request
      /\ disk' = disk /\ client' = client /\ server' = server /\ task' = task
      /\ events[s] # <<>> /\ cache'[s] = events[s][1]
      /\ Len(events[s]) \in Nat \ {0} /\ events'[s] \in Seq(CAs)
      /\ Len(events'[s]) = Len(events[s]) - 1
      /\ \A i \in 1..Len(events'[s]) : events'[s][i] = events[s][i + 1]
      /\ Has(s)' \subseteq Has(s)
      /\ \A t \in Auths \ {s} :
           cache'[t] = cache[t] /\ events'[t] = events[t] /\ Has(t)' = Has(t)
  BY EventEffect, Zenon
<1>2. ASSUME NEW t \in Auths PROVE Has(t)' \subseteq Has(t)
  BY <1>1
<1>3. Latest(s)'
  <2>1. events[s][Len(events[s])] = ca
    BY <1>1, Zenon DEF Latest
  <2>2. CASE events'[s] = <<>>
    <3>1. Len(events[s]) = 1
      BY <1>1, <2>2
    <3> QED BY <1>1, <2>1, <2>2, <3>1 DEF Latest
  <2>3. CASE events'[s] # <<>>
    <3>1. Len(events'[s]) \in Nat /\ Len(events'[s]) # 0
      BY <1>1, <2>3, EmptySeq
    <3>n. Len(events'[s]) = Len(events[s]) - 1 /\ Len(events[s]) \in Nat
      BY <1>1, Zenon
    <3>2. Len(events'[s]) \in 1..Len(events'[s]) /\ Len(events'[s]) + 1 = Len(events[s])
      <4>1. \A m, n \in Nat : m # 0 /\ m = n - 1 => m \in 1..m /\ m + 1 = n
        OBVIOUS
      <4> QED BY <3>1, <3>n, <4>1, Zenon
    <3>3. events'[s][Len(events'[s])] = ca
      BY <1>1, <2>1, <3>2
    <3> QED BY <1>1, <2>3, <3>3, Zenon DEF Latest
  <2> QED BY <2>2, <2>3
<1>4. \A t \in Auths : Latest(t)'
  <2>1. \A t \in Auths \ {s} : Latest(t)'
    BY <1>1, Zenon DEF Latest
  <2> QED BY <1>3, <2>1, Zenon
<1>5. ASSUME NEW t \in Auths PROVE Waits(t)'
  <2>1. ~Quiet
    BY <1>1, Zenon DEF Quiet
  <2> QED BY <1>1, <2>1, Zenon DEF Waits
<1>6. ASSUME OneKey PROVE OneKey'
  <2>1. \A t \in Auths : OneKeyHas(t)'
    <3> SUFFICES ASSUME NEW t \in Auths, NEW v \in Has(t)'
                 PROVE  v.active = ca.active /\ v.rotation.phase # "update_clients"
      BY <1>1, Zenon DEF OneKeyHas
    <3> QED BY <1>2, <1>6, Zenon DEF OneKey, OneKeyHas
  <2>2. \A a \in Agents : OneKeyUsed(a)'
    BY <1>1, <1>6, Zenon DEF OneKey, OneKeyUsed, OldId
  <2> QED BY <1>1, <1>6, <2>1, <2>2, Zenon DEF OneKey
<1>7. ASSUME NEW phases, \A t \in Auths : BothTrusted(t, phases)
      PROVE  /\ \A t \in Auths : BothTrusted(t, phases)'
             /\ cache[s].rotation.phase # "rollback" /\ cache'[s].rotation.phase # "init"
  <2>1. ASSUME NEW t \in Auths, NEW v \in Has(t)'
        PROVE  /\ Trusted(v) = {original, ca.rotation.id}
               /\ v.rotation.phase \in phases
               /\ v.rotation.phase \in {"update_clients", "update_servers"} =>
                    v.active = ca.rotation.id
               /\ v.rotation.phase \in {"init", "rollback"} => v.active = original
               /\ v.rotation.phase = "rollback" => ca.rotation.phase = "rollback"
    <3>1. v \in Has(t)
      BY <1>2
    <3> QED BY <1>7, <3>1, Zenon DEF BothTrusted
  <2>2. /\ cache'[s].rotation.phase = "rollback" => events'[s] = <<>>
        /\ cache'[s].rotation.phase # "init"
    <3>1. 1 \in 1..Len(events[s])
      BY <1>1
    <3>2. /\ cache'[s].rotation.phase = "rollback" => 1 = Len(events[s])
          /\ cache'[s].rotation.phase # "init"
      BY <1>1, <1>7, <3>1, ZenonT(40) DEF BothTrusted
    <3>3. ASSUME 1 = Len(events[s]) PROVE events'[s] = <<>>
      BY <1>1, <3>3, EmptySeq
    <3> QED BY <3>2, <3>3
  <2>3. ASSUME NEW i \in 1..Len(events'[s])
        PROVE  /\ events'[s][i].rotation.phase # "init"
               /\ events'[s][i].rotation.phase = "rollback" => i = Len(events'[s])
    <3>1. i + 1 \in 1..Len(events[s]) /\ events'[s][i] = events[s][i + 1]
      BY <1>1
    <3>2. /\ events'[s][i].rotation.phase # "init"
          /\ events'[s][i].rotation.phase = "rollback" => i + 1 = Len(events[s])
      BY <1>7, <3>1, Zenon DEF BothTrusted
    <3>3. i + 1 = Len(events[s]) => i = Len(events'[s])
      BY <1>1
    <3> QED BY <3>2, <3>3
  <2>4. BothTrusted(s, phases)'
    BY <1>1, <2>1, <2>2, <2>3, Zenon DEF BothTrusted
  <2>5. ASSUME NEW t \in Auths, t # s PROVE BothTrusted(t, phases)'
    <3>1. cache'[t] = cache[t] /\ events'[t] = events[t]
      BY <1>1, <2>5
    <3>2. /\ cache[t].rotation.phase = "rollback" => events[t] = <<>>
          /\ \A i \in 1..Len(events[t]) :
               /\ events[t][i].rotation.phase # "init"
               /\ events[t][i].rotation.phase = "rollback" => i = Len(events[t])
      BY <1>7, Zenon DEF BothTrusted
    <3> QED BY <1>1, <2>1, <3>1, <3>2, Zenon DEF BothTrusted
  <2>6. cache[s].rotation.phase # "rollback"
    BY <1>1, <1>7, Zenon DEF BothTrusted
  <2> QED BY <2>2, <2>4, <2>5, <2>6, Zenon
<1>8. ASSUME NEW a \in Agents, NotBefore(a), cache[s].rotation.phase # "rollback",
             cache'[s].rotation.phase # "init"
      PROVE  NotBefore(a)'
  <2>1. CASE a = s
    BY <1>1, <1>8, <2>1, Zenon DEF NotBefore
  <2>2. CASE a # s
    BY <1>1, <1>8, <2>2, Zenon DEF NotBefore
  <2> QED BY <2>1, <2>2
<1>9. ASSUME ClientsChange PROVE ClientsChange'
  <2>1. /\ \A t \in Auths : BothTrusted(t, {"init", "update_clients", "rollback"})'
        /\ cache[s].rotation.phase # "rollback" /\ cache'[s].rotation.phase # "init"
    BY <1>7, <1>9, Zenon DEF ClientsChange
  <2>2. ASSUME NEW a \in Agents PROVE ClientOf(a)'
    <3>1. ClientOf(a) /\ NotBefore(a)
      BY <1>9, Zenon DEF ClientsChange, ClientOf
    <3>2. NotBefore(a)'
      BY <1>8, <2>1, <3>1
    <3> QED BY <1>1, <3>1, <3>2 DEF ClientOf, OldId, NewId
  <2> QED BY <1>1, <1>9, <2>1, <2>2, Zenon DEF ClientsChange
<1>10. ASSUME ServersChange PROVE ServersChange'
  <2>1. /\ \A t \in Auths : BothTrusted(t, {"update_clients", "update_servers", "rollback"})'
        /\ cache[s].rotation.phase # "rollback" /\ cache'[s].rotation.phase # "init"
    BY <1>7, <1>10, Zenon DEF ServersChange
  <2>2. ASSUME NEW a \in Agents PROVE ServerOf(a)'
    <3>1. ServerOf(a) /\ NotBefore(a)
      BY <1>10, Zenon DEF ServersChange, ServerOf
    <3>2. NotBefore(a)'
      BY <1>8, <2>1, <3>1
    <3> QED BY <1>1, <3>1, <3>2 DEF ServerOf, NewId, BackId
  <2> QED BY <1>1, <1>10, <2>1, <2>2, Zenon DEF ServersChange
<1> QED BY <1>4, <1>5, <1>6, <1>9, <1>10

\* What a write changes.
LEMMA WriteEffect ==
    ASSUME TInv, RInv, NEW s \in Auths, UpdateCertAuthority(s)
    PROVE  /\ ca' = request[s].next /\ request[s].at = "read"
           /\ cache' = cache /\ disk' = disk /\ client' = client /\ server' = server /\ task' = task
           /\ \A t \in Auths : request'[t].at # "read"
           /\ \A t \in Auths : /\ Len(events[t]) \in Nat
                               /\ Len(events'[t]) = Len(events[t]) + 1
                               /\ events'[t][Len(events[t]) + 1] = ca'
                               /\ \A i \in 1..Len(events[t]) : events'[t][i] = events[t][i]
                               /\ Has(t)' = Has(t) \cup {ca'}
                               /\ Latest(t)'
<1>1. /\ request[s].at = "read" /\ ca' = request[s].next /\ cache' = cache
      /\ events' = [t \in Auths |-> Append(events[t], ca')]
      /\ request' = [t \in Auths |-> IF t = s \/ request[t].at = "none" THEN NoRequest ELSE Stale]
      /\ UNCHANGED agentVars
  BY Zenon DEF UpdateCertAuthority, Written
<1>2. NoRequest.at # "read" /\ Stale.at # "read"
  BY FirstOK
<1>3. \A t \in Auths : request'[t] \in {NoRequest, Stale}
  BY <1>1, Zenon
<1>4. \A t \in Auths : request'[t].at # "read"
  BY <1>2, <1>3, Zenon
<1>5. ca' \in CAs
  <2>1. request[s] \in {NoRequest, Stale} \cup [at : {"read"}, next : CAs]
    BY Zenon DEF TInv, CAsOK
  <2> QED BY <1>1, <1>2, <2>1
<1>6. ASSUME NEW t \in Auths
      PROVE  /\ Len(events[t]) \in Nat /\ Len(events'[t]) = Len(events[t]) + 1
             /\ events'[t][Len(events[t]) + 1] = ca'
             /\ \A i \in 1..Len(events[t]) : events'[t][i] = events[t][i]
             /\ Has(t)' = Has(t) \cup {ca'} /\ Latest(t)'
  <2>1. events[t] \in Seq(CAs) /\ events'[t] = Append(events[t], ca')
    BY <1>1, Zenon DEF TInv, CAsOK
  <2>2. /\ Len(events[t]) \in Nat /\ Len(events'[t]) = Len(events[t]) + 1
        /\ events'[t][Len(events[t]) + 1] = ca'
        /\ \A i \in 1..Len(events[t]) : events'[t][i] = events[t][i]
    BY <1>5, <2>1, AppendProperties
  <2>3. Has(t)' = Has(t) \cup {ca'}
    <3>1. \A i : i \in 1..Len(events'[t]) <=> i \in 1..Len(events[t]) \/ i = Len(events[t]) + 1
      BY <2>2
    <3> QED BY <1>1, <2>2, <3>1 DEF Has
  <2>4. Latest(t)'
    <3>1. events'[t] # <<>>
      <4>1. events'[t] = <<>> => Len(events'[t]) = 0
        OBVIOUS
      <4> QED BY <2>2, <4>1
    <3> QED BY <2>2, <3>1 DEF Latest
  <2> QED BY <2>2, <2>3, <2>4
<1>7. disk' = disk /\ client' = client /\ server' = server /\ task' = task
  BY <1>1, Zenon DEF agentVars
<1> QED BY <1>1, <1>4, <1>6, <1>7, Zenon

\* The new version in the backend.
LEMMA WriteVersion ==
    ASSUME TInv, RInv, NEW s \in Auths, UpdateCertAuthority(s)
    PROVE  /\ RInv'
           /\ \/ /\ ca'.rotation.phase = "init" /\ ca.rotation.phase = "standby"
                 /\ ca'.active = ca.active
              \/ /\ ca'.rotation.phase = "update_clients" /\ ca.rotation.phase = "init"
                 /\ original' = original /\ ca'.rotation.id = ca.rotation.id
              \/ /\ ca'.rotation.phase = "update_servers" /\ ca.rotation.phase = "update_clients"
                 /\ original' = original /\ ca'.rotation.id = ca.rotation.id
              \/ /\ ca'.rotation.phase = "rollback"
                 /\ ca.rotation.phase \in {"init", "update_clients", "update_servers"}
                 /\ original' = original /\ ca'.rotation.id = ca.rotation.id
                 /\ ca'.active = original
              \/ /\ ca'.rotation.phase = "standby"
                 /\ ca.rotation.phase \in {"update_servers", "rollback"}
                 /\ ca'.active = ca.active
<1>1. PICK target \in Phases, mode \in Modes :
        /\ ca.rotation.phase \in From(target)
        /\ request[s].next = processRotationRequest(ca, target, mode)
  BY Zenon DEF RInv, LeadsOn, UpdateCertAuthority
<1>2. CAType /\ KeysOfPhase /\ ca.rotation.phase \in Phases
  BY DEF RInv, CAType, Versions
<1> DEFINE c == processRotationRequest(ca, target, mode)
<1>3. ca' = c
  BY <1>1, Zenon DEF UpdateCertAuthority, Written
<1>4. original' = IF ca.rotation.phase = "standby" THEN ca.active ELSE original
  BY Zenon DEF UpdateCertAuthority
<1>5. /\ c \in Versions
      /\ c.rotation.phase = target
      /\ target = "init" => /\ ca.rotation.phase = "standby" /\ c.active = ca.active
                            /\ c.rotation.id = ca.rotation.id + 1
                            /\ c.additional = c.rotation.id
      /\ target # "init" => /\ ca.rotation.phase # "standby"
                            /\ c.rotation.id = ca.rotation.id
      /\ target = "rollback" => /\ c.active = original
                                /\ c.additional = c.rotation.id
      /\ target \in {"update_clients", "update_servers"} =>
           c.active = c.rotation.id /\ c.additional = original
      /\ target = "standby" =>
           /\ ca.rotation.phase = "rollback" => c.active = original
           /\ ca.rotation.phase # "rollback" => c.active = c.rotation.id
  BY <1>1, <1>2, NextVersion, Zenon
<1> HIDE DEF c
<1>6. RInv'
  BY WriteStep
<1>7. CASE target = "init"
  BY <1>3, <1>5, <1>6, <1>7
<1>8. CASE target = "update_clients"
  BY <1>1, <1>3, <1>4, <1>5, <1>6, <1>8 DEF From
<1>9. CASE target = "update_servers"
  BY <1>1, <1>3, <1>4, <1>5, <1>6, <1>9 DEF From
<1>10. CASE target = "rollback"
  BY <1>1, <1>3, <1>4, <1>5, <1>6, <1>10 DEF From
<1>11. CASE target = "standby"
  BY <1>1, <1>2, <1>3, <1>5, <1>6, <1>11 DEF From, KeysOfPhase
<1> QED BY <1>7, <1>8, <1>9, <1>10, <1>11, Zenon DEF Phases

\* What a write keeps: it goes on to the next stage only when everybody has followed.
LEMMA WriteKeeps ==
    ASSUME TInv, TInv', RInv, \A t \in Auths : Latest(t) /\ Waits(t),
           OneKey \/ ClientsChange \/ ServersChange, NEW s \in Auths, UpdateCertAuthority(s)
    PROVE  /\ \A t \in Auths : Latest(t)' /\ Waits(t)'
           /\ (OneKey \/ ClientsChange \/ ServersChange)'
<1>1. /\ ca' = request[s].next /\ request[s].at = "read"
      /\ cache' = cache /\ disk' = disk /\ client' = client /\ server' = server /\ task' = task
      /\ \A t \in Auths : request'[t].at # "read"
      /\ \A t \in Auths : /\ Len(events[t]) \in Nat
                          /\ Len(events'[t]) = Len(events[t]) + 1
                          /\ events'[t][Len(events[t]) + 1] = ca'
                          /\ \A i \in 1..Len(events[t]) : events'[t][i] = events[t][i]
                          /\ Has(t)' = Has(t) \cup {ca'}
                          /\ Latest(t)'
  BY WriteEffect, Zenon
<1>2. \A t \in Auths : Latest(t)' /\ Waits(t)'
  BY <1>1, Zenon DEF Waits
<1>3. RInv'
  BY WriteVersion
<1>4. ASSUME ca'.rotation.phase # "rollback"
      PROVE  /\ \A t \in Auths : cache[t] = ca /\ Has(t) = {ca} /\ Len(events[t]) = 0
             /\ \A a \in Agents : task[a].at = "idle" /\ disk[a].state = ca.rotation
  <2>1. Quiet
    BY <1>1, <1>4, Zenon DEF Waits
  <2>2. ASSUME NEW t \in Auths PROVE cache[t] = ca /\ Has(t) = {ca} /\ Len(events[t]) = 0
    <3>1. events[t] = <<>> /\ cache[t] = ca
      BY <2>1, Zenon DEF Quiet, Latest
    <3>2. Len(events[t]) = 0
      BY <3>1
    <3>3. 1..Len(events[t]) = {}
      BY <3>2
    <3> QED BY <3>1, <3>2, <3>3 DEF Has
  <2> QED BY <2>1, <2>2, Zenon DEF Quiet
<1>5. ASSUME ca'.rotation.phase \in {"standby", "init", "rollback"},
             ca'.active = ca.active, ca'.rotation.phase # "update_clients",
             \A t \in Auths : OneKeyHas(t), \A a \in Agents : OneKeyUsed(a)
      PROVE  OneKey'
  <2>1. ASSUME NEW t \in Auths PROVE OneKeyHas(t)'
    BY <1>1, <1>5 DEF OneKeyHas
  <2>2. ASSUME NEW a \in Agents PROVE OneKeyUsed(a)'
    <3>1. OneKeyUsed(a)
      BY <1>5
    <3> QED BY <1>1, <1>5, <3>1 DEF OneKeyUsed, OldId
  <2> QED BY <1>5, <2>1, <2>2 DEF OneKey
<1>6. ASSUME ca'.rotation.phase # "standby", ca'.rotation.phase # "init",
             original' = original, ca'.rotation.id = ca.rotation.id, NEW phases,
             ca'.rotation.phase \in phases,
             ca.rotation.phase # "rollback",
             \A t \in Auths :
               /\ \A v \in Has(t) :
                    /\ Trusted(v) = {original, ca.rotation.id}
                    /\ v.rotation.phase \in phases
                    /\ v.rotation.phase \in {"update_clients", "update_servers"} =>
                         v.active = ca.rotation.id
                    /\ v.rotation.phase \in {"init", "rollback"} => v.active = original
                    /\ v.rotation.phase # "rollback"
               /\ \A i \in 1..Len(events[t]) : events[t][i].rotation.phase # "init"
      PROVE  \A t \in Auths : BothTrusted(t, phases)'
  <2>1. /\ Trusted(ca') = {original, ca.rotation.id}
        /\ ca'.rotation.phase \in {"update_clients", "update_servers"} =>
             ca'.active = ca.rotation.id
        /\ ca'.rotation.phase \in {"init", "rollback"} => ca'.active = original
    <3>1. (TInv /\ RInv /\ ca.rotation.phase # "standby" =>
             /\ Trusted(ca) = {original, ca.rotation.id}
             /\ ca.rotation.phase \in {"update_clients", "update_servers"} =>
                  ca.active = ca.rotation.id
             /\ ca.rotation.phase \in {"init", "rollback"} => ca.active = original)'
      BY BothInBackend, PTL
    <3> QED BY <1>3, <1>6, <3>1
  <2> SUFFICES ASSUME NEW t \in Auths PROVE BothTrusted(t, phases)'
    OBVIOUS
  <2>2. ASSUME NEW v \in Has(t)'
        PROVE  /\ Trusted(v) = {original, ca.rotation.id}
               /\ v.rotation.phase \in phases
               /\ v.rotation.phase \in {"update_clients", "update_servers"} =>
                    v.active = ca.rotation.id
               /\ v.rotation.phase \in {"init", "rollback"} => v.active = original
               /\ v.rotation.phase = "rollback" => ca'.rotation.phase = "rollback"
    <3>1. CASE v = ca'
      BY <1>6, <2>1, <3>1
    <3>2. CASE v \in Has(t)
      BY <1>6, <3>2, Zenon
    <3> QED BY <1>1, <3>1, <3>2
  <2>3. cache'[t].rotation.phase # "rollback"
    <3>1. cache[t] \in Has(t)
      BY DEF Has
    <3> QED BY <1>1, <1>6, <3>1, Zenon
  <2>4. ASSUME NEW i \in 1..Len(events'[t])
        PROVE  /\ events'[t][i].rotation.phase # "init"
               /\ events'[t][i].rotation.phase = "rollback" => i = Len(events'[t])
    <3>1. CASE i = Len(events[t]) + 1
      BY <1>1, <1>6, <3>1, Zenon
    <3>2. CASE i # Len(events[t]) + 1
      <4>1. i \in 1..Len(events[t])
        <5>1. \A m \in Nat, k \in Int : k \in 1..(m + 1) /\ k # m + 1 => k \in 1..m
          OBVIOUS
        <5>2. i \in Int /\ i \in 1..(Len(events[t]) + 1) /\ Len(events[t]) \in Nat
          BY <1>1
        <5> QED BY <3>2, <5>1, <5>2, Zenon
      <4>2. events'[t][i] = events[t][i] /\ events[t][i] \in Has(t)
        BY <1>1, <4>1 DEF Has
      <4> QED BY <1>6, <4>1, <4>2, Zenon
    <3> QED BY <3>1, <3>2
  <2> QED BY <1>6, <2>2, <2>3, <2>4, Zenon DEF BothTrusted
<1>7. CASE ca'.rotation.phase = "init" /\ ca.rotation.phase = "standby" /\ ca'.active = ca.active
  <2>1. OneKey
    BY <1>7 DEF ClientsChange, ServersChange
  <2>2. (\A t \in Auths : OneKeyHas(t)) /\ \A a \in Agents : OneKeyUsed(a)
    BY <2>1 DEF OneKey
  <2> QED BY <1>2, <1>5, <1>7, <2>2
<1>8. CASE /\ ca'.rotation.phase = "update_clients" /\ ca.rotation.phase = "init"
           /\ original' = original /\ ca'.rotation.id = ca.rotation.id
  <2>1. OneKey /\ ca'.rotation.phase # "rollback"
    BY <1>8 DEF ClientsChange, ServersChange
  <2>2. Trusted(ca) = {original, ca.rotation.id} /\ ca.active = original
    BY <1>8, BothInBackend
  <2>3. /\ \A t \in Auths : Has(t) = {ca} /\ Len(events[t]) = 0
        /\ \A a \in Agents : task[a].at = "idle" /\ disk[a].state = ca.rotation
    BY <1>4, <2>1
  <2>4. \A t \in Auths :
          /\ \A v \in Has(t) :
               /\ Trusted(v) = {original, ca.rotation.id}
               /\ v.rotation.phase \in {"init", "update_clients", "rollback"}
               /\ v.rotation.phase \in {"update_clients", "update_servers"} =>
                    v.active = ca.rotation.id
               /\ v.rotation.phase \in {"init", "rollback"} => v.active = original
               /\ v.rotation.phase # "rollback"
          /\ \A i \in 1..Len(events[t]) : events[t][i].rotation.phase # "init"
    BY <1>8, <2>2, <2>3
  <2>5. \A t \in Auths : BothTrusted(t, {"init", "update_clients", "rollback"})'
    <3>1. /\ ca'.rotation.phase # "standby" /\ ca'.rotation.phase # "init"
          /\ ca'.rotation.phase \in {"init", "update_clients", "rollback"}
          /\ ca.rotation.phase # "rollback"
      BY <1>8
    <3> QED BY <1>6, <1>8, <2>4, <3>1, Zenon
  <2>6. ASSUME NEW a \in Agents PROVE ClientOf(a)'
    <3>1. OneKeyUsed(a) /\ task[a].at = "idle" /\ disk[a].state.phase = "init"
      BY <1>8, <2>1, <2>3 DEF OneKey
    <3> QED BY <1>1, <1>8, <2>2, <3>1 DEF OneKeyUsed, ClientOf, OldId, NewId, NotBefore
  <2>7. ClientsChange'
    BY <1>8, <2>5, <2>6 DEF ClientsChange
  <2> QED BY <1>2, <2>7
<1>9. CASE /\ ca'.rotation.phase = "update_servers" /\ ca.rotation.phase = "update_clients"
           /\ original' = original /\ ca'.rotation.id = ca.rotation.id
  <2>1. ClientsChange /\ ca'.rotation.phase # "rollback"
    BY <1>9 DEF OneKey, ServersChange
  <2>2. Trusted(ca) = {original, ca.rotation.id} /\ ca.active = ca.rotation.id
    BY <1>9, BothInBackend
  <2>3. /\ \A t \in Auths : Has(t) = {ca} /\ Len(events[t]) = 0
        /\ \A a \in Agents : task[a].at = "idle" /\ disk[a].state = ca.rotation
    BY <1>4, <2>1
  <2>4. \A t \in Auths :
          /\ \A v \in Has(t) :
               /\ Trusted(v) = {original, ca.rotation.id}
               /\ v.rotation.phase \in {"update_clients", "update_servers", "rollback"}
               /\ v.rotation.phase \in {"update_clients", "update_servers"} =>
                    v.active = ca.rotation.id
               /\ v.rotation.phase \in {"init", "rollback"} => v.active = original
               /\ v.rotation.phase # "rollback"
          /\ \A i \in 1..Len(events[t]) : events[t][i].rotation.phase # "init"
    BY <1>9, <2>2, <2>3
  <2>5. \A t \in Auths : BothTrusted(t, {"update_clients", "update_servers", "rollback"})'
    <3>1. /\ ca'.rotation.phase # "standby" /\ ca'.rotation.phase # "init"
          /\ ca'.rotation.phase \in {"update_clients", "update_servers", "rollback"}
          /\ ca.rotation.phase # "rollback"
      BY <1>9
    <3> QED BY <1>6, <1>9, <2>4, <3>1, Zenon
  <2>6. ASSUME NEW a \in Agents PROVE ServerOf(a)'
    <3>1. ClientOf(a) /\ task[a].at = "idle" /\ disk[a].state.phase = "update_clients"
      BY <1>9, <2>1, <2>3 DEF ClientsChange
    <3> QED BY <1>1, <1>9, <2>2, <3>1 DEF ServerOf, ClientOf, OldId, NewId, NotBefore
  <2>7. ServersChange'
    BY <1>9, <2>5, <2>6 DEF ServersChange
  <2> QED BY <1>2, <2>7
<1>10. CASE /\ ca'.rotation.phase = "rollback"
            /\ ca.rotation.phase \in {"init", "update_clients", "update_servers"}
            /\ original' = original /\ ca'.rotation.id = ca.rotation.id
            /\ ca'.active = original
  <2>1. CASE ca.rotation.phase = "init"
    <3>1. OneKey /\ ca.active = original
      BY <2>1, BothInBackend DEF ClientsChange, ServersChange
    <3>2. (\A t \in Auths : OneKeyHas(t)) /\ \A a \in Agents : OneKeyUsed(a)
      BY <3>1 DEF OneKey
    <3> QED BY <1>2, <1>5, <1>10, <3>1, <3>2
  <2>2. ASSUME NEW phases, "rollback" \in phases, ca.rotation.phase # "rollback",
               \A t \in Auths : BothTrusted(t, phases)
        PROVE  \A t \in Auths : BothTrusted(t, phases)'
    <3>1. \A t \in Auths :
            /\ \A v \in Has(t) :
                 /\ Trusted(v) = {original, ca.rotation.id}
                 /\ v.rotation.phase \in phases
                 /\ v.rotation.phase \in {"update_clients", "update_servers"} =>
                      v.active = ca.rotation.id
                 /\ v.rotation.phase \in {"init", "rollback"} => v.active = original
                 /\ v.rotation.phase # "rollback"
            /\ \A i \in 1..Len(events[t]) : events[t][i].rotation.phase # "init"
      BY <2>2, Zenon DEF BothTrusted
    <3>2. /\ ca'.rotation.phase # "standby" /\ ca'.rotation.phase # "init"
          /\ ca'.rotation.phase \in phases
      BY <1>10, <2>2
    <3> QED BY <1>6, <1>10, <2>2, <3>1, <3>2, Zenon
  <2>3. CASE ca.rotation.phase = "update_clients"
    <3>1. ClientsChange
      BY <2>3 DEF OneKey, ServersChange
    <3>2. \A t \in Auths : BothTrusted(t, {"init", "update_clients", "rollback"})'
      <4>1. /\ "rollback" \in {"init", "update_clients", "rollback"}
            /\ ca.rotation.phase # "rollback"
        BY <2>3
      <4> QED BY <2>2, <3>1, <4>1, Zenon DEF ClientsChange
    <3>3. ASSUME NEW a \in Agents PROVE ClientOf(a)'
      <4>1. ClientOf(a)
        BY <3>1 DEF ClientsChange
      <4> QED BY <1>1, <1>10, <4>1 DEF ClientOf, OldId, NewId, NotBefore
    <3>4. ClientsChange'
      BY <1>10, <3>2, <3>3 DEF ClientsChange
    <3> QED BY <1>2, <3>4
  <2>4. CASE ca.rotation.phase = "update_servers"
    <3>1. ServersChange
      BY <2>4 DEF OneKey, ClientsChange
    <3>2. \A t \in Auths : BothTrusted(t, {"update_clients", "update_servers", "rollback"})'
      <4>1. /\ "rollback" \in {"update_clients", "update_servers", "rollback"}
            /\ ca.rotation.phase # "rollback"
        BY <2>4
      <4> QED BY <2>2, <3>1, <4>1, Zenon DEF ServersChange
    <3>3. ASSUME NEW a \in Agents PROVE ServerOf(a)'
      <4>1. ServerOf(a)
        BY <3>1 DEF ServersChange
      <4> QED BY <1>1, <1>10, <4>1 DEF ServerOf, NewId, BackId, NotBefore
    <3>4. ServersChange'
      BY <1>10, <3>2, <3>3 DEF ServersChange
    <3> QED BY <1>2, <3>4
  <2> QED BY <1>10, <2>1, <2>3, <2>4
<1>11. CASE /\ ca'.rotation.phase = "standby"
            /\ ca.rotation.phase \in {"update_servers", "rollback"}
            /\ ca'.active = ca.active
  <2>1. /\ \A t \in Auths : Has(t) = {ca}
        /\ \A a \in Agents : task[a].at = "idle" /\ disk[a].state = ca.rotation
    <3>1. ca'.rotation.phase # "rollback"
      BY <1>11
    <3> QED BY <1>4, <3>1
  <2>2. ASSUME NEW t \in Auths PROVE OneKeyHas(t)
    BY <1>11, <2>1 DEF OneKeyHas
  <2>3. /\ ca.rotation.phase = "update_servers" => ca.active = ca.rotation.id
        /\ ca.rotation.phase = "rollback" => ca.active = original
    BY <1>11, BothInBackend
  <2>4. ASSUME NEW a \in Agents PROVE OneKeyUsed(a)
    <3>1. task[a].at = "idle" /\ disk[a].state.phase = ca.rotation.phase
      BY <2>1
    <3>2. CASE OneKey
      BY <3>2 DEF OneKey
    <3>3. CASE ClientsChange
      <4>1. ClientOf(a) /\ ca.rotation.phase = "rollback"
        BY <1>11, <3>3 DEF ClientsChange
      <4> QED BY <2>3, <3>1, <4>1 DEF ClientOf, OneKeyUsed, OldId
    <3>4. CASE ServersChange
      <4>1. ServerOf(a)
        BY <3>4 DEF ServersChange
      <4>2. CASE ca.rotation.phase = "update_servers"
        <5>1. /\ NewId(client[a]) /\ NewId(disk[a].current)
              /\ server[a].signer = ca.rotation.id
          BY <3>1, <4>1, <4>2 DEF ServerOf
        <5> QED BY <2>3, <3>1, <4>2, <5>1 DEF OneKeyUsed, OldId, NewId
      <4>3. CASE ca.rotation.phase = "rollback"
        <5>1. BackId(client[a]) /\ BackId(disk[a].current) /\ server[a].signer = original
          BY <3>1, <4>1, <4>3 DEF ServerOf
        <5> QED BY <2>3, <3>1, <4>3, <5>1 DEF OneKeyUsed, OldId, BackId
      <4> QED BY <1>11, <4>2, <4>3
    <3> QED BY <3>2, <3>3, <3>4
  <2> QED BY <1>2, <1>5, <1>11, <2>2, <2>4
<1> QED BY <1>7, <1>8, <1>9, <1>10, <1>11, WriteVersion, Zenon


\* The stages depend on the CA, its versions, and what the agents have and do.
LEMMA SameKeeps ==
    ASSUME OneKey \/ ClientsChange \/ ServersChange,
           ca' = ca, cache' = cache, events' = events, original' = original,
           disk' = disk, client' = client, server' = server, task' = task
    PROVE  (OneKey \/ ClientsChange \/ ServersChange)'
<1>1. \A t \in Auths : Has(t)' = Has(t)
  BY DEF Has
<1>2. OneKey => OneKey'
  BY <1>1, Zenon DEF OneKey, OneKeyHas, OneKeyUsed, OldId
<1>3. ASSUME NEW t \in Auths, NEW phases, BothTrusted(t, phases) PROVE BothTrusted(t, phases)'
  BY <1>1, <1>3, Zenon DEF BothTrusted
<1>4. ClientsChange => ClientsChange'
  <2>1. ASSUME NEW a \in Agents, ClientOf(a) PROVE ClientOf(a)'
    BY <2>1 DEF ClientOf, OldId, NewId, NotBefore
  <2> QED BY <1>3, <2>1, Zenon DEF ClientsChange
<1>5. ServersChange => ServersChange'
  <2>1. ASSUME NEW a \in Agents, ServerOf(a) PROVE ServerOf(a)'
    BY <2>1 DEF ServerOf, NewId, BackId, NotBefore
  <2> QED BY <1>3, <2>1, Zenon DEF ServersChange
<1> QED BY <1>2, <1>4, <1>5, Zenon

\* What a request keeps: one for a phase that is not rollback is made when everybody has
\* followed the last one.
LEMMA RequestKeeps ==
    ASSUME Patient, TInv, RInv, \A t \in Auths : Latest(t) /\ Waits(t),
           OneKey \/ ClientsChange \/ ServersChange, NEW s \in Auths,
           UpdateFails(s) \/ \E target \in Phases, mode \in Modes : Decide(s, target, mode)
    PROVE  /\ \A t \in Auths : Latest(t)' /\ Waits(t)'
           /\ (OneKey \/ ClientsChange \/ ServersChange)'
<1>1. /\ ca' = ca /\ cache' = cache /\ events' = events /\ original' = original
      /\ UNCHANGED agentVars
  BY Zenon DEF UpdateFails, Decide
<1>2. disk' = disk /\ client' = client /\ server' = server /\ task' = task
  BY <1>1, Zenon DEF agentVars
<1>3. DOMAIN request = Auths
  BY Zenon DEF RInv, CAType
<1>4. Quiet' <=> Quiet
  BY <1>1, <1>2, Zenon DEF Quiet
<1>5. \A t \in Auths : Latest(t)'
  BY <1>1, Zenon DEF Latest
<1>6. ASSUME NEW t \in Auths, request'[t] = request[t] PROVE Waits(t)'
  BY <1>4, <1>6, Zenon DEF Waits
<1>7. ASSUME UpdateFails(s) PROVE \A t \in Auths : Waits(t)'
  <2>1. ASSUME NEW t \in Auths PROVE Waits(t)'
    <3>1. CASE t = s
      <4>1. request'[t] = NoRequest
        BY <1>3, <1>7, <3>1, Zenon DEF UpdateFails
      <4>2. request'[t].at # "read"
        BY <4>1, FirstOK
      <4> QED BY <4>2, Zenon DEF Waits
    <3>2. CASE t # s
      <4>1. request'[t] = request[t]
        BY <1>3, <1>7, <3>2, Zenon DEF UpdateFails
      <4> QED BY <1>6, <4>1
    <3> QED BY <3>1, <3>2
  <2> QED BY <2>1
<1>8. ASSUME NEW target \in Phases, NEW mode \in Modes, Decide(s, target, mode)
      PROVE  \A t \in Auths : Waits(t)'
  <2> DEFINE n == processRotationRequest(ca, target, mode)
  <2>1. /\ request' = [request EXCEPT ![s] = [at |-> "read", next |-> n]]
        /\ ca.rotation.phase \in From(target)
        /\ target # "rollback" => Settled
    BY <1>8, Zenon DEF Decide
  <2>2. n.rotation.phase = target
    <3>1. CAType /\ KeysOfPhase
      BY DEF RInv
    <3>2. /\ n \in Versions
          /\ n.rotation.phase = target
          /\ target = "init" => /\ ca.rotation.phase = "standby" /\ n.active = ca.active
                                /\ n.rotation.id = ca.rotation.id + 1
                                /\ n.additional = n.rotation.id
          /\ target # "init" => /\ ca.rotation.phase # "standby"
                                /\ n.rotation.id = ca.rotation.id
          /\ target = "rollback" => /\ n.active = original
                                    /\ n.additional = n.rotation.id
          /\ target \in {"update_clients", "update_servers"} =>
               n.active = n.rotation.id /\ n.additional = original
          /\ target = "standby" =>
               /\ ca.rotation.phase = "rollback" => n.active = original
               /\ ca.rotation.phase # "rollback" => n.active = n.rotation.id
      BY <2>1, <3>1, NextVersion, Zenon
    <3> QED BY <3>2, Zenon
  <2> HIDE DEF n
  <2>3. Settled => Quiet
    <3>1. Idle.at = "idle"
      BY FirstOK
    <3> QED BY <3>1, Zenon DEF Settled, Quiet
  <2>4. ASSUME NEW t \in Auths PROVE Waits(t)'
    <3>1. CASE t = s
      <4>1. request'[t] = [at |-> "read", next |-> n]
        BY <1>3, <2>1, <3>1, Zenon
      <4>2. request'[t].next = n
        BY <4>1
      <4> QED BY <1>4, <2>1, <2>2, <2>3, <4>2, Zenon DEF Waits
    <3>2. CASE t # s
      <4>1. request'[t] = request[t]
        BY <1>3, <2>1, <3>2, Zenon
      <4> QED BY <1>6, <4>1
    <3> QED BY <3>1, <3>2
  <2> QED BY <2>4
<1> QED BY <1>1, <1>2, <1>5, <1>7, <1>8, SameKeeps, Zenon

\* What a step of an agent keeps.
LEMMA AgentKeeps ==
    ASSUME TInv, RInv, \A t \in Auths : Latest(t) /\ Waits(t),
           OneKey \/ ClientsChange \/ ServersChange, NEW a \in Agents, AgentStep(a)
    PROVE  /\ \A t \in Auths : Latest(t)' /\ Waits(t)'
           /\ (OneKey \/ ClientsChange \/ ServersChange)'
<1>1. ca' = ca /\ cache' = cache /\ events' = events /\ request' = request
  <2>1. UNCHANGED caVars
    BY Zenon DEF AgentStep, Sync, syncRotationState, reRegister, reRegisterRefused,
       WriteIdentity, WriteState, SyncFails, Crash, Restart
  <2> QED BY <2>1, Zenon DEF caVars
<1>2. \A t \in Auths : Latest(t)'
  BY <1>1, Zenon DEF Latest
<1>3. Quiet => Quiet'
  BY QuietStep, Zenon
<1>4. \A t \in Auths : Waits(t)'
  BY <1>1, <1>3, Zenon DEF Waits
<1> QED BY <1>2, <1>4, OneKeyStep, ClientsStep, ServersStep, Zenon

\* The initial states satisfy the invariant: everybody uses the first keys.
LEMMA PInit == Init => PInv
<1> SUFFICES ASSUME Init PROVE PInv OBVIOUS
<1>1. TInv /\ RInv
  BY TInit, RInit
<1>2. /\ ca = FirstCA /\ cache = [s \in Auths |-> FirstCA] /\ events = [s \in Auths |-> <<>>]
      /\ request = [s \in Auths |-> NoRequest]
      /\ disk = [a \in Agents |-> [state |-> FirstCA.rotation, current |-> SignedBy(FirstCA),
                                   replacement |-> NoIdentity]]
      /\ client = [a \in Agents |-> SignedBy(FirstCA)]
      /\ server = [a \in Agents |-> SignedBy(FirstCA)]
      /\ task = [a \in Agents |-> Idle]
  BY Zenon DEF Init
<1>3. /\ FirstCA.active = 0 /\ FirstCA.rotation.phase = "standby"
      /\ OldId(SignedBy(FirstCA), 0)
  BY DEF FirstCA, SignedBy, OldId, Trusted, NoKeys
<1>4. NoRequest.at # "read" /\ Idle.at = "idle"
  BY FirstOK
<1>5. ASSUME NEW s \in Auths PROVE Latest(s) /\ Waits(s) /\ OneKeyHas(s)
  <2>1. cache[s] = FirstCA /\ events[s] = <<>> /\ request[s] = NoRequest
    BY <1>2, Zenon
  <2>2. Latest(s) /\ Waits(s)
    BY <1>2, <1>4, <2>1, Zenon DEF Latest, Waits
  <2>3. Has(s) = {ca}
    <3>1. 1..Len(events[s]) = {}
      BY <2>1
    <3> QED BY <1>2, <2>1, <3>1 DEF Has
  <2>4. OneKeyHas(s)
    BY <1>2, <1>3, <2>3 DEF OneKeyHas
  <2> QED BY <2>2, <2>4
<1>6. ASSUME NEW a \in Agents PROVE OneKeyUsed(a)
  <2> DEFINE d == [state |-> FirstCA.rotation, current |-> SignedBy(FirstCA),
                   replacement |-> NoIdentity]
  <2>1. disk[a] = d /\ client[a] = SignedBy(FirstCA) /\ server[a] = SignedBy(FirstCA)
        /\ task[a] = Idle
    BY <1>2, Zenon
  <2>2. d.state = FirstCA.rotation /\ d.current = SignedBy(FirstCA)
    OBVIOUS
  <2> HIDE DEF d
  <2>3. d.state.phase # "update_clients" /\ task[a].at = "idle"
    BY <1>3, <1>4, <2>1, <2>2
  <2> QED BY <1>2, <1>3, <2>1, <2>2, <2>3, Zenon DEF OneKeyUsed, OldId
<1>7. OneKey
  BY <1>2, <1>3, <1>5, <1>6 DEF OneKey
<1> QED BY <1>1, <1>5, <1>7, Zenon DEF PInv

\* Every step preserves the invariant.
LEMMA PNext ==
    ASSUME Patient, PInv, [Next]_vars PROVE PInv'
<1>1. TInv' /\ RInv'
  BY TNext, RNext, Zenon DEF PInv
<1>2. TInv /\ RInv /\ (\A s \in Auths : Latest(s) /\ Waits(s))
      /\ (OneKey \/ ClientsChange \/ ServersChange)
  BY Zenon DEF PInv
<1> DEFINE Kept == /\ \A t \in Auths : Latest(t)' /\ Waits(t)'
                   /\ (OneKey \/ ClientsChange \/ ServersChange)'
<1> SUFFICES Kept
  BY <1>1, Zenon DEF PInv
<1>3. ASSUME NEW s \in Asked, NEW target \in Phases, NEW mode \in AskedModes,
             Rotate(s, target, mode)
      PROVE  Kept
  <2>1. s \in Auths /\ mode \in Modes /\ Decide(s, target, mode)
    BY <1>3, CARotationAssumption, Zenon DEF Rotate
  <2> QED BY <1>2, <2>1, RequestKeeps, Zenon
<1>4. ASSUME NEW s \in Auths, autoRotate(s) PROVE Kept
  <2>1. "auto" \in Modes /\ {"update_clients", "update_servers", "standby"} \subseteq Phases
    BY DEF Modes, Phases
  <2>2. \E target \in Phases, mode \in Modes : Decide(s, target, mode)
    BY <1>4, <2>1, Zenon DEF autoRotate
  <2> QED BY <1>2, <2>2, RequestKeeps, Zenon
<1>5. ASSUME NEW s \in Auths, UpdateCertAuthority(s) PROVE Kept
  BY <1>1, <1>2, <1>5, WriteKeeps, Zenon
<1>6. ASSUME NEW s \in Auths, UpdateFails(s) PROVE Kept
  BY <1>2, <1>6, RequestKeeps, Zenon
<1>7. ASSUME NEW s \in Auths, CacheEvent(s) PROVE Kept
  BY <1>2, <1>7, EventStep, Zenon
<1>8. ASSUME NEW a \in Agents, Sync(a) \/ SyncFails(a) \/ Crash(a) \/ Restart(a) PROVE Kept
  BY <1>2, <1>8, AgentKeeps, Zenon DEF AgentStep
<1>9. CASE UNCHANGED vars
  <2>1. /\ ca' = ca /\ cache' = cache /\ events' = events /\ request' = request
        /\ original' = original
        /\ disk' = disk /\ client' = client /\ server' = server /\ task' = task
    BY <1>9, Zenon DEF vars, caVars, agentVars
  <2>2. \A t \in Auths : Latest(t)' /\ Waits(t)'
    BY <1>2, <2>1, Zenon DEF Latest, Waits, Quiet
  <2> QED BY <1>2, <2>1, <2>2, SameKeeps, Zenon
<1> QED BY <1>3, <1>4, <1>5, <1>6, <1>7, <1>8, <1>9, Zenon DEF Next

\* In each of the stages agents and auth servers trust each other.
LEMMA StagesTrust == PInv => MutualTrust
<1> SUFFICES ASSUME PInv, NEW a \in Agents, NEW b \in Agents
             PROVE  /\ \A s \in Auths : client[a].signer \in Trusted(cache[s])
                    /\ server[b].signer \in client[a].trusts
  BY Zenon DEF MutualTrust
<1>1. ASSUME NEW s \in Auths PROVE cache[s] \in Has(s)
  BY DEF Has
<1>2. CASE OneKey
  <2>1. ca.active # NoKeys
    <3>1. ca.active \in Keys
      BY CAParts DEF PInv, TInv, CAsOK
    <3> QED BY <3>1, CARotationAssumption DEF Keys, NoKeys
  <2>2. /\ OldId(client[a], ca.active) /\ server[b].signer = ca.active
        /\ \A s \in Auths : cache[s].active = ca.active
    BY <1>1, <1>2, Zenon DEF OneKey, OneKeyUsed, OneKeyHas
  <2> QED BY <2>1, <2>2 DEF OldId, Trusted
<1>3. CASE ClientsChange
  <2>1. ClientOf(a) /\ server[b].signer = original
    BY <1>3, Zenon DEF ClientsChange, ClientOf
  <2>2. \A s \in Auths : Trusted(cache[s]) = {original, ca.rotation.id}
    BY <1>1, <1>3, Zenon DEF ClientsChange, BothTrusted
  <2>3. NewId(client[a]) \/ OldId(client[a], original)
    BY <2>1, Zenon DEF ClientOf
  <2> QED BY <2>1, <2>2, <2>3 DEF NewId, OldId
<1>4. CASE ServersChange
  <2>1. NewId(client[a]) /\ server[b].signer \in {original, ca.rotation.id}
    BY <1>4, Zenon DEF ServersChange, ServerOf
  <2>2. \A s \in Auths : Trusted(cache[s]) = {original, ca.rotation.id}
    BY <1>1, <1>4, Zenon DEF ServersChange, BothTrusted
  <2> QED BY <2>1, <2>2 DEF NewId
<1> QED BY <1>2, <1>3, <1>4, Zenon DEF PInv

\* Where administrators and the schedule leave a phase only when everybody has followed it,
\* rollbacks apart, agents and auth servers can talk to each other at every moment of every
\* rotation: whichever caches lag behind, whichever agents fail or are started again, and
\* however the requests for phases overlap.
THEOREM TrustAlways ==
    ASSUME Patient PROVE Spec => []MutualTrust
<1>1. PInv /\ [Next]_vars => PInv'
  BY PNext
<1> QED BY PInit, <1>1, StagesTrust, PTL DEF Spec

=============================================================================
