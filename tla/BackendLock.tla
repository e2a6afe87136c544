----------------------------- MODULE BackendLock -----------------------------
(***************************************************************************)
(* The lock of lib/backend/lock.go: an item of the backend that expires,   *)
(* created by AcquireLock, prolonged by the refresher that RunWhileLocked  *)
(* starts, and removed by Release.  A call is one call of RunWhileLocked,  *)
(* by any auth server; its random id is the call itself.                   *)
(*                                                                         *)
(* Time passes in ticks of one clock, and nothing waits for it: a call of  *)
(* the backend may take effect, and a function may run, arbitrarily long   *)
(* after a deadline that it would have to meet to keep the lock.  What the *)
(* code promises then depends on the age of a lock, the time since the     *)
(* clock was read for the expiry that the backend stores.                  *)
(***************************************************************************)
EXTENDS Integers

CONSTANTS Calls, TTL, RefreshLockInterval

NoCall == "none"

ASSUME BackendLockAssumption ==
    /\ NoCall \notin Calls
    /\ TTL \in Nat \ {0} /\ RefreshLockInterval \in Nat

VARIABLES
    item,        \* the backend's item: who created it, and the time until it expires
    pc,          \* where the call is
    refresher,   \* its refresher: "none", "sleeping", or "got" the item in resetTTL
    age,         \* time since the stored expiry of its lock was computed; TTL: no lock
    elapsed,     \* time since the expiry of a Create or CompareAndSwap under way was
                 \* computed, or since the refresher's select began
    robbed       \* the calls whose lock the Release of another call has deleted

vars == <<item, pc, refresher, age, elapsed, robbed>>

Absent == [owner |-> NoCall, left |-> 0]

Init ==
    /\ item = Absent
    /\ pc = [c \in Calls |-> "acquiring"]
    /\ refresher = [c \in Calls |-> "none"]
    /\ age = [c \in Calls |-> TTL]
    /\ elapsed = [c \in Calls |-> 0]
    /\ robbed = {}

-----------------------------------------------------------------------------
(* AcquireLock *)

\* An item of call c whose expiry was computed d ago; it may have expired on its way.
Stored(c, d) == IF d < TTL THEN [owner |-> c, left |-> TTL - d] ELSE Absent

\* The expiry is computed, and Create is called.
CreateBegins(c) ==
    /\ pc[c] = "acquiring"
    /\ pc' = [pc EXCEPT ![c] = "creating"]
    /\ elapsed' = [elapsed EXCEPT ![c] = 0]
    /\ UNCHANGED <<item, refresher, age, robbed>>

\* Create takes effect.
Create(c) ==
    /\ pc[c] = "creating" /\ item = Absent
    /\ item' = Stored(c, elapsed[c])
    /\ age' = [age EXCEPT ![c] = elapsed[c]]
    /\ elapsed' = [elapsed EXCEPT ![c] = 0]

\* Create succeeds: fn and the refresher start.
Acquire(c) ==
    /\ Create(c)
    /\ pc' = [pc EXCEPT ![c] = "running"]
    /\ refresher' = [refresher EXCEPT ![c] = "sleeping"]
    /\ UNCHANGED robbed

\* AlreadyExists: wait and repeat.
AcquireWaits(c) ==
    /\ pc[c] = "creating" /\ item # Absent
    /\ pc' = [pc EXCEPT ![c] = "acquiring"]
    /\ elapsed' = [elapsed EXCEPT ![c] = 0]
    /\ UNCHANGED <<item, refresher, age, robbed>>

\* Another error, after which the item may be there or not, or the context is done
\* between two attempts.
AcquireFails(c) ==
    /\ pc[c] \in {"acquiring", "creating"}
    /\ pc' = [pc EXCEPT ![c] = "done"]
    /\ \/ Create(c)
       \/ elapsed' = [elapsed EXCEPT ![c] = 0] /\ UNCHANGED <<item, age>>
    /\ UNCHANGED <<refresher, robbed>>

-----------------------------------------------------------------------------
(* The refresher *)

\* Faulty variant: the function goes on without a refresher.
GiveUpQuietly(c) ==
    /\ refresher' = [refresher EXCEPT ![c] = "none"]
    /\ elapsed' = [elapsed EXCEPT ![c] = 0]
    /\ UNCHANGED <<pc, robbed>>

\* resetTTL fails: subContext is cancelled, and the refresher ends.
GiveUp(c) ==
    /\ refresher' = [refresher EXCEPT ![c] = "none"]
    /\ elapsed' = [elapsed EXCEPT ![c] = 0]
    /\ pc' = IF pc[c] = "running" THEN [pc EXCEPT ![c] = "cancelled"] ELSE pc
    /\ UNCHANGED robbed

\* resetTTL gets the item and computes the new expiry.
RefreshGet(c) ==
    /\ refresher[c] = "sleeping" /\ elapsed[c] >= RefreshLockInterval
    /\ \/ /\ item.owner = c
          /\ refresher' = [refresher EXCEPT ![c] = "got"]
          /\ elapsed' = [elapsed EXCEPT ![c] = 0]
          /\ UNCHANGED <<pc, robbed>>
       \/ GiveUp(c)   \* expired, ownership changed, or the call fails
    /\ UNCHANGED <<item, age>>

\* Faulty variant: Put instead of CompareAndSwap.
SwapsAlways(c) == TRUE

\* CompareAndSwap compares the value, which is the id.
Swaps(c) == item.owner = c

\* Faulty variant: the item is swapped for a copy with the old expiry.
RefreshedNot(c) == item

Refreshed(c) == Stored(c, elapsed[c])

\* CompareAndSwap takes effect or fails; when it has taken effect its answer may be lost.
RefreshSwap(c) ==
    /\ refresher[c] = "got"
    /\ \/ /\ Swaps(c)
          /\ item' = Refreshed(c)
          /\ age' = [age EXCEPT ![c] = elapsed[c]]
          /\ \/ /\ refresher' = [refresher EXCEPT ![c] = "sleeping"]
                /\ elapsed' = [elapsed EXCEPT ![c] = 0]
                /\ UNCHANGED <<pc, robbed>>
             \/ GiveUp(c)
       \/ GiveUp(c) /\ UNCHANGED <<item, age>>

\* Faulty variant: nobody closes stopRefresh.
StopRefreshNever(c) == FALSE

\* stopRefresh is closed once fn has returned.
StopRefresh(c) == pc[c] \notin {"running", "cancelled"}

\* The select takes the stop; it may take the timer instead when that has fired too.
RefreshStops(c) ==
    /\ refresher[c] = "sleeping" /\ StopRefresh(c)
    /\ refresher' = [refresher EXCEPT ![c] = "none"]
    /\ elapsed' = [elapsed EXCEPT ![c] = 0]
    /\ UNCHANGED <<item, pc, age, robbed>>

-----------------------------------------------------------------------------
(* fn, and Release *)

\* The context of the caller is cancelled.
CallerCancels(c) ==
    /\ pc[c] = "running"
    /\ pc' = [pc EXCEPT ![c] = "cancelled"]
    /\ UNCHANGED <<item, refresher, age, elapsed, robbed>>

FnReturns(c) ==
    /\ pc[c] \in {"running", "cancelled"}
    /\ pc' = [pc EXCEPT ![c] = "releasing"]
    /\ UNCHANGED <<item, refresher, age, elapsed, robbed>>

\* RunWhileLocked returns.
Return(c) ==
    /\ pc' = [pc EXCEPT ![c] = "done"]
    /\ UNCHANGED <<refresher, elapsed>>

\* Release gets the item; anything but its own is an error.
ReleaseGet(c) ==
    /\ pc[c] = "releasing"
    /\ \/ /\ item.owner = c
          /\ pc' = [pc EXCEPT ![c] = "deleting"]
          /\ UNCHANGED <<refresher, elapsed>>
       \/ item.owner # c /\ Return(c)
    /\ UNCHANGED <<item, age, robbed>>

\* Delete removes the key, whatever it holds now.  ReleaseCtxTimeout is no bound: it ends
\* the wait for the answer, and a request that was sent in time may take effect later.
ReleaseDelete(c) ==
    /\ pc[c] = "deleting"
    /\ item' = Absent
    /\ age' = [age EXCEPT ![c] = TTL]
    /\ robbed' = robbed \cup ({item.owner} \ {c, NoCall})
    /\ Return(c)

\* A call of Release fails or times out, and has no effect.
ReleaseFails(c) ==
    /\ pc[c] \in {"releasing", "deleting"}
    /\ Return(c)
    /\ UNCHANGED <<item, age, robbed>>

\* The auth server stops, and the refresher with it.
Crash(c) ==
    /\ pc[c] # "done" \/ refresher[c] # "none"
    /\ pc' = [pc EXCEPT ![c] = "done"]
    /\ refresher' = [refresher EXCEPT ![c] = "none"]
    /\ elapsed' = [elapsed EXCEPT ![c] = 0]
    /\ UNCHANGED <<item, age, robbed>>

-----------------------------------------------------------------------------
(* Time *)

\* A counter that stops at a bound, beyond which its value makes no difference.
Later(n, bound) == IF n < bound THEN n + 1 ELSE n

\* Time passes whatever is under way.  The backend drops an item that has expired.
Tick ==
    /\ item' = IF item.left > 1 THEN [item EXCEPT !.left = @ - 1] ELSE Absent
    /\ age' = [c \in Calls |-> Later(age[c], TTL)]
    /\ elapsed' = [c \in Calls |->
                     IF pc[c] = "creating" \/ refresher[c] = "got" THEN Later(elapsed[c], TTL)
                     ELSE IF refresher[c] = "sleeping" THEN Later(elapsed[c], RefreshLockInterval)
                     ELSE elapsed[c]]
    /\ UNCHANGED <<pc, refresher, robbed>>

-----------------------------------------------------------------------------

Next ==
    \/ Tick
    \/ \E c \in Calls :
         \/ CreateBegins(c) \/ Acquire(c) \/ AcquireWaits(c) \/ AcquireFails(c)
         \/ RefreshGet(c) \/ RefreshSwap(c) \/ RefreshStops(c)
         \/ CallerCancels(c) \/ FnReturns(c)
         \/ ReleaseGet(c) \/ ReleaseDelete(c) \/ ReleaseFails(c) \/ Crash(c)

Spec == Init /\ [][Next]_vars

\* Time passes, the refresher's goroutine runs and its calls end, however late, and a select
\* whose stop is ready takes it some time.  Nothing makes fn return.
Fairness ==
    /\ WF_vars(Tick)
    /\ \A c \in Calls :
         WF_vars(RefreshSwap(c)) /\ WF_vars(RefreshGet(c)) /\ SF_vars(RefreshStops(c))

FairSpec == Spec /\ Fairness

-----------------------------------------------------------------------------
(* Properties *)

Running(c) == pc[c] \in {"running", "cancelled"}
Releasing(c) == pc[c] \in {"releasing", "deleting"}

\* Types, with the range of what is left of the item and of the age of a lock.
TypeOK ==
    /\ item \in {Absent} \cup [owner : Calls, left : 1..TTL]
    /\ pc \in [Calls -> {"acquiring", "creating", "running", "cancelled", "releasing",
                         "deleting", "done"}]
    /\ refresher \in [Calls -> {"none", "sleeping", "got"}]
    /\ age \in [Calls -> 0..TTL]
    /\ elapsed \in [Calls -> Nat]
    /\ robbed \subseteq Calls

\* "RunWhileLocked allows you to run a function while a lock is held", and what that takes:
\* from AcquireLock until Release has deleted it, the lock is in the backend for TTL from
\* the last time its expiry was computed for an acquisition or a refresh that took effect,
\* unless the late Delete of another call removed it (OnlyOwnerReleases).  So two functions
\* run at a time only if one of them has not been refreshed for TTL, or was so robbed.
LockHeld ==
    \A c \in Calls :
      (Running(c) \/ Releasing(c)) /\ item.owner # c => age[c] = TTL \/ c \in robbed

\* However late a refresh or a release is.  A lock disappears when it expires, when its own
\* call deletes it, or by the Delete of a call that has lost its own lock in the same way
\* since its Get found it; Release does not go on to that Delete when its Get finds another
\* lock or none.  And a lock comes into being only by its Create: no refresh overwrites the
\* lock of another call or brings back one that is gone.
OnlyOwnerReleases ==
    [][\A c \in Calls :
         /\ item.owner = c /\ item'.owner # c =>
              \/ item.left = 1 /\ pc' = pc
              \/ \E d \in Calls : /\ pc[d] = "deleting" /\ pc'[d] = "done"
                                  /\ d = c \/ age[d] = TTL \/ d \in robbed
         /\ pc[c] # "deleting" /\ pc'[c] = "deleting" => item.owner = c
         /\ item.owner # c /\ item'.owner = c => pc[c] = "creating"]_vars

\* A function that has lost its lock, by expiry under a slow refresh or to a late Delete, is
\* told: its context is cancelled when the next refresh fails, unless it returns first.
LossStopsFn ==
    \A c \in Calls : (pc[c] = "running" /\ item.owner # c) ~> pc[c] # "running"

\* A lock whose call has ended or whose server has stopped is gone in the end, deleted or
\* expired: its refresher does not keep it.
LockFreed ==
    \A c \in Calls :
      (item.owner = c /\ pc[c] = "done") ~> item.owner # c

=============================================================================
