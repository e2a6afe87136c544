------------------------------ MODULE Semaphores ------------------------------
(***************************************************************************)
(* Semaphores: the leases of one semaphore in the backend                  *)
(* (api/types/semaphore.go), the service that changes them by              *)
(* compare-and-swap (lib/services/local/presence.go), and the locks that   *)
(* keep a lease alive (lib/services/semaphore.go).  A holder is one call   *)
(* of AcquireSemaphoreLock; its lease ID is the holder itself.             *)
(*                                                                         *)
(* Every operation of the service reads the item and then updates it if    *)
(* nobody has: two steps.  Time passes in ticks, and expiries count down.  *)
(* Tick states what the code relies on: an acquisition ends within         *)
(* AcquireTime, and a keepalive loop reacts at once to its ticker and to   *)
(* the deadline of its context.                                            *)
(***************************************************************************)
EXTENDS Integers, FiniteSets

CONSTANTS Holders, MaxLeases, Expiry, TickRate, AcquireTime, leaseRetryAttempts

ASSUME SemaphoresAssumption ==
    /\ IsFiniteSet(Holders)
    /\ MaxLeases \in Nat \ {0} /\ leaseRetryAttempts \in Nat \ {0}
    /\ Expiry \in Nat /\ TickRate \in Nat \ {0} /\ AcquireTime \in Nat
    /\ AcquireTime + TickRate < Expiry

VARIABLES
    left,       \* time until the item expires; 0: there is no item
    lease,      \* time until a lease in the item expires; None: it is not in the item
    pc,         \* where the holder is
    fresh,      \* nobody has written the item since the holder read it
    kept,       \* the leases that had not expired then
    attempts,   \* how many attempts the current call has made
    next,       \* time until the expiry that the holder asks for
    local,      \* time until the holder's own lease expires
    sinceTick,  \* time since the last tick of its ticker that was received
    deleted     \* history: somebody called DeleteSemaphore

None == -1

item == <<left, lease, deleted>>
call == <<fresh, kept, attempts>>
times == <<next, local, sinceTick>>
vars == <<item, call, times, pc>>

Init ==
    /\ left = 0 /\ lease = [h \in Holders |-> None] /\ deleted = FALSE
    /\ pc = [h \in Holders |-> "idle"]
    /\ fresh = [h \in Holders |-> FALSE]
    /\ kept = [h \in Holders |-> {}]
    /\ attempts = [h \in Holders |-> 0]
    /\ next = [h \in Holders |-> 0]
    /\ local = [h \in Holders |-> 0]
    /\ sinceTick = [h \in Holders |-> 0]

Goto(h, where) == pc' = [pc EXCEPT ![h] = where]

\* The holder is done with the item it read.
Forget(h) ==
    /\ fresh' = [fresh EXCEPT ![h] = FALSE]
    /\ kept' = [kept EXCEPT ![h] = {}]

-----------------------------------------------------------------------------
(* The item *)

Listed == {h \in Holders : lease[h] # None}

\* Faulty variant: a lease is removed a moment before it expires.
UnexpiredEarly == {h \in Holders : lease[h] > 1}

\* RemoveExpiredLeases
Unexpired == {h \in Holders : lease[h] > 0}

\* Get, with the leases that the caller goes on with.
Get(h, leases) ==
    /\ fresh' = [fresh EXCEPT ![h] = TRUE]
    /\ kept' = [kept EXCEPT ![h] = leases]

\* Faulty variant: the item is overwritten.
UpToDateAlways(h) == TRUE

\* ConditionalUpdate succeeds: the item is there with the revision that was read.
UpToDate(h) == fresh[h] /\ left > 0

\* Faulty variant: the semaphore keeps its expiry.
CoveringNot(t) == IF left > 0 THEN left ELSE t

\* The semaphore's expiry is not before that of the lease.
Covering(t) == IF t > left THEN t ELSE left

\* The item is written with the leases in keep, and h's own with t left.
Put(h, keep, t) ==
    /\ lease' = [g \in Holders |-> IF g = h THEN t
                                   ELSE IF g \in keep THEN lease[g] ELSE None]
    /\ left' = Covering(t)
    /\ fresh' = [g \in Holders |-> FALSE]
    /\ kept' = [kept EXCEPT ![h] = {}]
    /\ UNCHANGED deleted

-----------------------------------------------------------------------------
(* AcquireSemaphore *)

Start(h) ==
    /\ pc[h] = "idle"
    /\ next' = [next EXCEPT ![h] = Expiry]
    /\ attempts' = [attempts EXCEPT ![h] = 1]
    /\ Goto(h, "acquiring")
    /\ UNCHANGED <<item, fresh, kept, local, sinceTick>>

\* acquireSemaphore up to its update; Acquire checks the number of leases.
AcquireGet(h) ==
    /\ pc[h] = "acquiring"
    /\ \/ /\ left > 0 /\ Cardinality(Unexpired) < MaxLeases
          /\ Get(h, Unexpired)
          /\ Goto(h, "updating")
       \/ /\ left > 0 /\ Cardinality(Unexpired) >= MaxLeases
          /\ Goto(h, "finished")
          /\ UNCHANGED <<fresh, kept>>
       \/ /\ left = 0
          /\ Goto(h, "creating")
          /\ UNCHANGED <<fresh, kept>>
    /\ UNCHANGED <<item, attempts, times>>

\* The lease is written: keepAlive starts, unless the answer was lost.
Acquired(h) ==
    /\ Put(h, kept[h], next[h])
    /\ \/ /\ Goto(h, "holding")
          /\ local' = [local EXCEPT ![h] = next[h]]
       \/ /\ Goto(h, "finished")
          /\ UNCHANGED local
    /\ sinceTick' = [sinceTick EXCEPT ![h] = 0]
    /\ UNCHANGED <<attempts, next>>

\* Somebody else wrote the item first.
Retry(h, where) ==
    /\ \/ /\ attempts[h] < leaseRetryAttempts
          /\ attempts' = [attempts EXCEPT ![h] = @ + 1]
          /\ Goto(h, where)
       \/ /\ attempts[h] >= leaseRetryAttempts
          /\ Goto(h, "finished")
          /\ UNCHANGED attempts
    /\ Forget(h)
    /\ UNCHANGED <<item, times>>

AcquireUpdate(h) ==
    /\ pc[h] = "updating"
    /\ \/ UpToDate(h) /\ Acquired(h)
       \/ ~UpToDate(h) /\ Retry(h, "acquiring")

\* initSemaphore
AcquireCreate(h) ==
    /\ pc[h] = "creating"
    /\ \/ left = 0 /\ Acquired(h)
       \/ left > 0 /\ Retry(h, "acquiring")

AcquireFails(h) ==
    /\ pc[h] \in {"acquiring", "updating", "creating"}
    /\ Goto(h, "finished")
    /\ Forget(h)
    /\ UNCHANGED <<item, attempts, times>>

-----------------------------------------------------------------------------
(* keepAlive, and KeepAliveSemaphoreLease *)

\* The ticker: the tick may have been waiting in its channel, and later ones were dropped.
RenewStart(h) ==
    /\ pc[h] = "holding" /\ sinceTick[h] >= TickRate
    /\ next' = [next EXCEPT ![h] = Expiry - (sinceTick[h] - TickRate)]
    /\ sinceTick' = [sinceTick EXCEPT ![h] = @ % TickRate]
    /\ Goto(h, "renewing")
    /\ UNCHANGED <<item, call, local>>

\* Faulty variant: a lease that is not there is added.
RenewableAlways(h) == TRUE

\* KeepAlive finds the lease, in what RemoveExpiredLeases left of the semaphore.
Renewable(h) == h \in Unexpired

\* The semaphore or the lease is gone: keepAlive ends without a cancellation.
RenewGet(h) ==
    /\ pc[h] = "renewing" /\ local[h] > 0
    /\ \/ /\ left > 0 /\ Renewable(h)
          /\ Get(h, Unexpired)
          /\ Goto(h, "extending")
       \/ /\ left = 0 \/ ~Renewable(h)
          /\ Goto(h, "finished")
          /\ UNCHANGED <<fresh, kept>>
    /\ UNCHANGED <<item, attempts, times>>

\* The lease is extended; keepAlive may not learn that it is.
RenewUpdate(h) ==
    /\ pc[h] = "extending" /\ UpToDate(h)
    /\ Put(h, kept[h], next[h])
    /\ \/ /\ Goto(h, "holding")
          /\ local' = [local EXCEPT ![h] = next[h]]
       \/ /\ Goto(h, "renewing")
          /\ UNCHANGED local
    /\ UNCHANGED <<attempts, next, sinceTick>>

\* Anything but NotFound: keepAlive waits and tries again.
RenewFails(h) ==
    /\ pc[h] = "extending"
    /\ Goto(h, "renewing")
    /\ Forget(h)
    /\ UNCHANGED <<item, attempts, times>>

\* A tick while it waits.
RenewTick(h) ==
    /\ pc[h] = "renewing" /\ sinceTick[h] >= TickRate /\ local[h] > 0
    /\ sinceTick' = [sinceTick EXCEPT ![h] = @ % TickRate]
    /\ UNCHANGED <<item, call, next, local, pc>>

\* leaseContext is done, or the tick is not before the lease's expiry.
RenewExpired(h) ==
    /\ pc[h] \in {"renewing", "extending"} /\ local[h] = 0
    /\ Goto(h, "finished")
    /\ Forget(h)
    /\ UNCHANGED <<item, attempts, times>>

\* Stop is called, or the parent context is done.
Stop(h) ==
    /\ pc[h] \in {"holding", "renewing"}
    /\ Goto(h, IF local[h] > 0 THEN "cancelling" ELSE "finished")
    /\ attempts' = [attempts EXCEPT ![h] = 1]
    /\ UNCHANGED <<item, fresh, kept, times>>

-----------------------------------------------------------------------------
(* CancelSemaphoreLease, DeleteSemaphore, and a holder that stops *)

CancelGet(h) ==
    /\ pc[h] = "cancelling"
    /\ \/ /\ h \in Listed
          /\ Get(h, Listed)
          /\ Goto(h, "removing")
       \/ /\ h \notin Listed
          /\ Goto(h, "finished")
          /\ UNCHANGED <<fresh, kept>>
    /\ UNCHANGED <<item, attempts, times>>

CancelUpdate(h) ==
    /\ pc[h] = "removing"
    /\ \/ /\ UpToDate(h)
          /\ lease' = [lease EXCEPT ![h] = None]
          /\ fresh' = [g \in Holders |-> FALSE]
          /\ kept' = [kept EXCEPT ![h] = {}]
          /\ Goto(h, "finished")
          /\ UNCHANGED <<left, deleted, attempts, times>>
       \/ ~UpToDate(h) /\ Retry(h, "cancelling")

CancelFails(h) ==
    /\ pc[h] \in {"cancelling", "removing"}
    /\ Goto(h, "finished")
    /\ Forget(h)
    /\ UNCHANGED <<item, attempts, times>>

Crash(h) ==
    /\ pc[h] \notin {"idle", "finished"}
    /\ Goto(h, "finished")
    /\ Forget(h)
    /\ UNCHANGED <<item, attempts, times>>

DeleteSemaphore ==
    /\ left > 0
    /\ left' = 0
    /\ lease' = [h \in Holders |-> None]
    /\ deleted' = TRUE
    /\ fresh' = [h \in Holders |-> FALSE]
    /\ UNCHANGED <<kept, attempts, times, pc>>

-----------------------------------------------------------------------------
(* Time *)

Active(h) == pc[h] \in {"holding", "renewing", "extending"}
Acquiring(h) == pc[h] \in {"acquiring", "updating", "creating"}

InTime(h) ==
    /\ Acquiring(h) => next[h] > Expiry - AcquireTime
    /\ pc[h] = "holding" => sinceTick[h] < TickRate
    /\ pc[h] \in {"renewing", "extending"} => local[h] > 0

Less(t) == IF t > 0 THEN t - 1 ELSE t

\* The backend drops an item that has expired.
Tick ==
    /\ \A h \in Holders : InTime(h)
    /\ left' = Less(left)
    /\ lease' = [h \in Holders |-> IF left <= 1 THEN None ELSE Less(lease[h])]
    /\ fresh' = [h \in Holders |-> left > 1 /\ fresh[h]]
    /\ next' = [h \in Holders |->
                  IF Acquiring(h) \/ pc[h] \in {"renewing", "extending"} THEN Less(next[h])
                  ELSE next[h]]
    /\ local' = [h \in Holders |-> Less(local[h])]
    /\ sinceTick' = [h \in Holders |-> IF Active(h) THEN sinceTick[h] + 1 ELSE 0]
    /\ UNCHANGED <<pc, kept, attempts, deleted>>

-----------------------------------------------------------------------------

Step(h) ==
    \/ Start(h) \/ AcquireGet(h) \/ AcquireUpdate(h) \/ AcquireCreate(h) \/ AcquireFails(h)
    \/ RenewStart(h) \/ RenewGet(h) \/ RenewUpdate(h) \/ RenewFails(h) \/ RenewTick(h)
    \/ RenewExpired(h) \/ Stop(h) \/ CancelGet(h) \/ CancelUpdate(h) \/ CancelFails(h)
    \/ Crash(h)

Next == Tick \/ DeleteSemaphore \/ \E h \in Holders : Step(h)

Spec == Init /\ [][Next]_vars

\* Time passes, and the goroutines of a lock run.
Fairness ==
    /\ WF_vars(Tick)
    /\ \A h \in Holders :
         /\ WF_vars(AcquireGet(h)) /\ WF_vars(AcquireUpdate(h)) /\ WF_vars(AcquireCreate(h))
         /\ WF_vars(RenewStart(h)) /\ WF_vars(RenewGet(h))
         /\ WF_vars(RenewUpdate(h) \/ RenewFails(h)) /\ WF_vars(RenewExpired(h))

FairSpec == Spec /\ Fairness

-----------------------------------------------------------------------------
(* Properties *)

\* The item does not expire before a lease in it.
ItemCovers == \A h \in Holders : lease[h] # None => lease[h] <= left /\ left > 0

\* Types, and the item outlives its leases.
TypeOK ==
    /\ left \in 0..Expiry
    /\ lease \in [Holders -> {None} \cup 0..Expiry]
    /\ pc \in [Holders -> {"idle", "acquiring", "updating", "creating", "holding", "renewing",
                           "extending", "cancelling", "removing", "finished"}]
    /\ fresh \in [Holders -> BOOLEAN]
    /\ kept \in [Holders -> SUBSET Holders]
    /\ attempts \in [Holders -> 0..leaseRetryAttempts]
    /\ next \in [Holders -> 0..Expiry]
    /\ local \in [Holders -> 0..Expiry]
    /\ sinceTick \in [Holders -> 0..Expiry]
    /\ deleted \in BOOLEAN
    /\ ItemCovers

\* A lock that is not Done and whose lease has time left has it in the backend, where it
\* counts, unless an administrator deleted the semaphore: nobody takes a lease for expired
\* while its holder goes on, and a keepalive that failed halfway is not relied on.
HolderHasLease ==
    ~deleted => \A h \in Holders : Active(h) /\ local[h] > 0 => lease[h] > 0

\* Two acquisitions that both found room do not both succeed, and a lease that is counted
\* out has no holder: at most MaxLeases locks are held at a time.
HoldersBounded ==
    ~deleted => Cardinality({h \in Holders : Active(h) /\ local[h] > 0}) <= MaxLeases

\* A lock whose lease is gone, because somebody deleted the semaphore, is Done in the end.
LossNoticed ==
    \A h \in Holders : (Active(h) /\ lease[h] = None) ~> ~Active(h)

=============================================================================
