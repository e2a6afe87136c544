-------------------------- MODULE BackendLockProofs --------------------------
(***************************************************************************)
(* What BackendLock guarantees for every set of calls and every TTL and    *)
(* refresh interval, however slow the backend and the functions are.  The  *)
(* argument is about the age of a lock: an item and the age of its lock    *)
(* add up to TTL, a refresh under way is younger than the lock it          *)
(* prolongs, and so only time or a Delete takes the item from its call.    *)
(***************************************************************************)
EXTENDS BackendLock, TLAPS

Held(c) ==
    /\ item.owner = c => item.left + age[c] = TTL
    /\ pc[c] = "creating" => refresher[c] = "none" /\ elapsed[c] <= TTL
    /\ pc[c] = "acquiring" => refresher[c] = "none"
    /\ refresher[c] = "got" => elapsed[c] <= age[c]
    /\ (Running(c) \/ Releasing(c)) /\ item.owner # c => age[c] = TTL \/ c \in robbed

IInv == TypeOK /\ \A c \in Calls : Held(c)

-----------------------------------------------------------------------------

\* What the backend stores is a lock of its call, or has expired.
LEMMA StoredItem ==
    ASSUME NEW c \in Calls, NEW d \in Nat, d <= TTL
    PROVE  /\ Stored(c, d) \in {Absent} \cup [owner : Calls, left : 1..TTL]
           /\ d < TTL => Stored(c, d).owner = c /\ Stored(c, d).left + d = TTL
           /\ d = TTL => Stored(c, d) = Absent
BY BackendLockAssumption, SMT DEF Stored

\* No call owns the absent item.
LEMMA AbsentItem ==
    Absent.owner = NoCall /\ \A c \in Calls : Absent.owner # c
BY BackendLockAssumption DEF Absent

\* The initial states satisfy the invariant.
LEMMA InitHolds == Init => IInv
<1> SUFFICES ASSUME Init PROVE IInv OBVIOUS
<1>1. TypeOK
  BY BackendLockAssumption, SMT DEF Init, TypeOK, Absent
<1>2. ASSUME NEW c \in Calls PROVE Held(c)
  <2>1. pc[c] = "acquiring" /\ refresher[c] = "none" /\ item.owner # c
    BY AbsentItem, Zenon DEF Init
  <2> QED BY <2>1, Zenon DEF Held, Running, Releasing
<1> QED BY <1>1, <1>2 DEF IInv

\* A Create that takes effect stores a lock whose age is the time it took.
LEMMA CreateStep ==
    ASSUME IInv, NEW c \in Calls, Create(c)
    PROVE  /\ item' \in {Absent} \cup [owner : Calls, left : 1..TTL]
           /\ age' \in [Calls -> 0..TTL] /\ elapsed' \in [Calls -> Nat]
           /\ elapsed'[c] = 0 /\ age'[c] = elapsed[c]
           /\ item'.owner = c => item'.left + age'[c] = TTL
           /\ item'.owner # c => age'[c] = TTL
           /\ \A d \in Calls \ {c} : /\ age'[d] = age[d] /\ elapsed'[d] = elapsed[d]
                                     /\ item.owner # d /\ item'.owner # d
<1>1. elapsed[c] \in Nat /\ elapsed[c] <= TTL /\ TTL \in Nat \ {0}
  BY BackendLockAssumption DEF IInv, TypeOK, Held, Create
<1>2. item = Absent /\ item' = Stored(c, elapsed[c])
  BY DEF Create
<1>3. /\ age' = [age EXCEPT ![c] = elapsed[c]] /\ elapsed' = [elapsed EXCEPT ![c] = 0]
      /\ age \in [Calls -> 0..TTL] /\ elapsed \in [Calls -> Nat]
  BY DEF Create, IInv, TypeOK
<1>4. age' \in [Calls -> 0..TTL] /\ elapsed' \in [Calls -> Nat]
  BY <1>1, <1>3
<1>5. elapsed'[c] = 0 /\ age'[c] = elapsed[c]
  BY <1>3
<1>6. item' \in {Absent} \cup [owner : Calls, left : 1..TTL]
  BY <1>1, <1>2, StoredItem
<1>7. CASE elapsed[c] < TTL
  <2>1. item'.owner = c /\ item'.left + elapsed[c] = TTL
    BY <1>1, <1>2, <1>7, StoredItem
  <2> QED BY <1>2, <1>3, <1>4, <1>5, <1>6, <2>1, AbsentItem
<1>8. CASE elapsed[c] = TTL
  <2>1. item' = Absent
    BY <1>1, <1>2, <1>8, StoredItem
  <2> QED BY <1>2, <1>3, <1>4, <1>5, <1>6, <1>8, <2>1, AbsentItem
<1> QED BY <1>1, <1>7, <1>8

\* A CompareAndSwap that takes effect prolongs its call's own lock, and does not end it.
LEMMA SwapStep ==
    ASSUME IInv, NEW c \in Calls, refresher[c] = "got", Swaps(c), item' = Refreshed(c),
           age' = [age EXCEPT ![c] = elapsed[c]]
    PROVE  /\ item.owner = c /\ item'.owner = c
           /\ item' \in {Absent} \cup [owner : Calls, left : 1..TTL]
           /\ age' \in [Calls -> 0..TTL]
           /\ item'.left + age'[c] = TTL
           /\ \A d \in Calls \ {c} : age'[d] = age[d]
<1>1. /\ item.owner = c /\ age \in [Calls -> 0..TTL] /\ elapsed[c] \in Nat
      /\ TTL \in Nat /\ elapsed[c] <= age[c] /\ item.left + age[c] = TTL
  BY BackendLockAssumption DEF IInv, TypeOK, Held, Swaps
<1>2. item.left \in 1..TTL
  BY <1>1, AbsentItem DEF IInv, TypeOK
<1>3. elapsed[c] < TTL
  BY <1>1, <1>2
<1>4. /\ item' \in {Absent} \cup [owner : Calls, left : 1..TTL]
      /\ item'.owner = c /\ item'.left + elapsed[c] = TTL
  BY <1>1, <1>3, StoredItem DEF Refreshed
<1> QED BY <1>1, <1>3, <1>4

-----------------------------------------------------------------------------

\* Every step of a call preserves the invariant.
LEMMA CallStep ==
    ASSUME IInv, NEW c \in Calls,
           \/ CreateBegins(c) \/ Acquire(c) \/ AcquireWaits(c) \/ AcquireFails(c)
           \/ RefreshGet(c) \/ RefreshSwap(c) \/ RefreshStops(c)
           \/ CallerCancels(c) \/ FnReturns(c)
           \/ ReleaseGet(c) \/ ReleaseDelete(c) \/ ReleaseFails(c) \/ Crash(c)
    PROVE  IInv'
<1>t. TypeOK /\ (\A d \in Calls : Held(d)) /\ TTL \in Nat \ {0} /\ NoCall \notin Calls
  BY BackendLockAssumption DEF IInv
<1>1. CASE CreateBegins(c)
  <2>1. TypeOK'
    BY <1>t, <1>1, SMT DEF TypeOK, CreateBegins
  <2>2. ASSUME NEW d \in Calls PROVE Held(d)'
    BY <1>t, <1>1, SMT DEF TypeOK, CreateBegins, Held, Running, Releasing
  <2> QED BY <2>1, <2>2 DEF IInv
<1>2. CASE Acquire(c)
  <2>0. Create(c) BY <1>2 DEF Acquire
  <2>1. TypeOK'
    BY <1>t, <1>2, <2>0, CreateStep, SMT DEF TypeOK, Acquire
  <2>2. ASSUME NEW d \in Calls PROVE Held(d)'
    BY <1>t, <1>2, <2>0, CreateStep, SMT DEF TypeOK, Acquire, Held, Running, Releasing
  <2> QED BY <2>1, <2>2 DEF IInv
<1>3. CASE AcquireWaits(c)
  <2>1. TypeOK'
    BY <1>t, <1>3, SMT DEF TypeOK, AcquireWaits
  <2>2. ASSUME NEW d \in Calls PROVE Held(d)'
    BY <1>t, <1>3, SMT DEF TypeOK, AcquireWaits, Held, Running, Releasing
  <2> QED BY <2>1, <2>2 DEF IInv
<1>4. CASE AcquireFails(c)
  <2>1. CASE Create(c)
    <3>1. TypeOK'
      BY <1>t, <1>4, <2>1, CreateStep, SMT DEF TypeOK, AcquireFails
    <3>2. ASSUME NEW d \in Calls PROVE Held(d)'
      BY <1>t, <1>4, <2>1, CreateStep, SMT DEF TypeOK, AcquireFails, Held, Running, Releasing
    <3> QED BY <3>1, <3>2 DEF IInv
  <2>2. CASE elapsed' = [elapsed EXCEPT ![c] = 0] /\ UNCHANGED <<item, age>>
    <3>1. TypeOK'
      BY <1>t, <1>4, <2>2, SMT DEF TypeOK, AcquireFails
    <3>2. ASSUME NEW d \in Calls PROVE Held(d)'
      BY <1>t, <1>4, <2>2, SMT DEF TypeOK, AcquireFails, Held, Running, Releasing
    <3> QED BY <3>1, <3>2 DEF IInv
  <2> QED BY <1>4, <2>1, <2>2 DEF AcquireFails
<1>5. CASE RefreshGet(c)
  <2>1. TypeOK'
    BY <1>t, <1>5, SMT DEF TypeOK, RefreshGet, GiveUp
  <2>2. ASSUME NEW d \in Calls PROVE Held(d)'
    BY <1>t, <1>5, SMT DEF TypeOK, RefreshGet, GiveUp, Held, Running, Releasing
  <2> QED BY <2>1, <2>2 DEF IInv
<1>6. CASE RefreshSwap(c)
  <2>1. CASE Swaps(c) /\ item' = Refreshed(c) /\ age' = [age EXCEPT ![c] = elapsed[c]]
    <3>1. /\ item.owner = c /\ item'.owner = c
          /\ item' \in {Absent} \cup [owner : Calls, left : 1..TTL]
          /\ age' \in [Calls -> 0..TTL] /\ item'.left + age'[c] = TTL
          /\ \A d \in Calls \ {c} : age'[d] = age[d]
      BY <1>6, <2>1, SwapStep DEF RefreshSwap
    <3>2. /\ refresher' \in [Calls -> {"none", "sleeping", "got"}]
          /\ refresher'[c] # "got"
          /\ \A d \in Calls \ {c} : refresher'[d] = refresher[d]
      BY <1>t, <1>6, SMT DEF TypeOK, RefreshSwap, GiveUp
    <3>3. /\ elapsed' = [elapsed EXCEPT ![c] = 0] /\ robbed' = robbed
          /\ pc' = pc \/ (pc[c] = "running" /\ pc' = [pc EXCEPT ![c] = "cancelled"])
      BY <1>6, Zenon DEF RefreshSwap, GiveUp
    <3>4. refresher[c] = "got"
      BY <1>6 DEF RefreshSwap
    <3>5. TypeOK'
      BY <1>t, <3>1, <3>2, <3>3, SMT DEF TypeOK
    <3>6. ASSUME NEW d \in Calls PROVE Held(d)'
      BY <1>t, <3>1, <3>2, <3>3, <3>4, SMT DEF TypeOK, Held, Running, Releasing
    <3> QED BY <3>5, <3>6 DEF IInv
  <2>2. CASE GiveUp(c) /\ UNCHANGED <<item, age>>
    <3>1. TypeOK'
      BY <1>t, <2>2, SMT DEF TypeOK, GiveUp
    <3>2. ASSUME NEW d \in Calls PROVE Held(d)'
      BY <1>t, <2>2, SMT DEF TypeOK, GiveUp, Held, Running, Releasing
    <3> QED BY <3>1, <3>2 DEF IInv
  <2> QED BY <1>6, <2>1, <2>2 DEF RefreshSwap
<1>7. CASE RefreshStops(c)
  <2>1. TypeOK'
    BY <1>t, <1>7, SMT DEF TypeOK, RefreshStops
  <2>2. ASSUME NEW d \in Calls PROVE Held(d)'
    BY <1>t, <1>7, SMT DEF TypeOK, RefreshStops, Held, Running, Releasing
  <2> QED BY <2>1, <2>2 DEF IInv
<1>8. CASE CallerCancels(c) \/ FnReturns(c)
  <2>1. TypeOK'
    BY <1>t, <1>8, SMT DEF TypeOK, CallerCancels, FnReturns
  <2>2. ASSUME NEW d \in Calls PROVE Held(d)'
    BY <1>t, <1>8, SMT DEF TypeOK, CallerCancels, FnReturns, Held, Running, Releasing
  <2> QED BY <2>1, <2>2 DEF IInv
<1>9. CASE ReleaseGet(c) \/ ReleaseFails(c)
  <2>1. TypeOK'
    BY <1>t, <1>9, SMT DEF TypeOK, ReleaseGet, ReleaseFails, Return
  <2>2. ASSUME NEW d \in Calls PROVE Held(d)'
    BY <1>t, <1>9, SMT DEF TypeOK, ReleaseGet, ReleaseFails, Return, Held, Running, Releasing
  <2> QED BY <2>1, <2>2 DEF IInv
<1>10. CASE ReleaseDelete(c)
  <2>0. /\ item' = Absent /\ pc' = [pc EXCEPT ![c] = "done"]
        /\ age' = [age EXCEPT ![c] = TTL] /\ UNCHANGED <<refresher, elapsed>>
        /\ robbed' = robbed \cup ({item.owner} \ {c, NoCall})
    BY <1>10 DEF ReleaseDelete, Return
  <2>1. item.owner \in Calls \cup {NoCall}
    BY <1>t, AbsentItem DEF TypeOK
  <2>2. TypeOK'
    BY <1>t, <2>0, <2>1, SMT DEF TypeOK
  <2>3. ASSUME NEW d \in Calls PROVE Held(d)'
    <3>1. item'.owner # d
      BY <2>0, AbsentItem
    <3>2. CASE d = c
      BY <1>t, <2>0, <3>1, <3>2, SMT DEF TypeOK, Held, Running, Releasing
    <3>3. CASE d # c
      <4>1. item.owner = d => d \in robbed'
        BY <1>t, <2>0, <3>3
      <4>2. /\ pc'[d] = pc[d] /\ age'[d] = age[d] /\ refresher'[d] = refresher[d]
            /\ elapsed'[d] = elapsed[d] /\ (d \in robbed => d \in robbed')
        BY <1>t, <2>0, <3>3, SMT DEF TypeOK
      <4> QED
        BY <1>t, <3>1, <4>1, <4>2 DEF Held, Running, Releasing
    <3> QED BY <3>2, <3>3
  <2> QED BY <2>2, <2>3 DEF IInv
<1>11. CASE Crash(c)
  <2>1. TypeOK'
    BY <1>t, <1>11, SMT DEF TypeOK, Crash
  <2>2. ASSUME NEW d \in Calls PROVE Held(d)'
    BY <1>t, <1>11, SMT DEF TypeOK, Crash, Held, Running, Releasing
  <2> QED BY <2>1, <2>2 DEF IInv
<1> QED
  BY <1>1, <1>2, <1>3, <1>4, <1>5, <1>6, <1>7, <1>8, <1>9, <1>10, <1>11

\* The passing of time preserves the invariant: an item expires just when the age of its
\* lock reaches TTL.
LEMMA TickStep == IInv /\ Tick => IInv'
<1> SUFFICES ASSUME IInv, Tick PROVE IInv' OBVIOUS
<1>t. TypeOK /\ (\A d \in Calls : Held(d)) /\ TTL \in Nat \ {0} /\ RefreshLockInterval \in Nat
  BY BackendLockAssumption DEF IInv
<1>1. ASSUME NEW d \in Calls
      PROVE  /\ age[d] \in 0..TTL /\ age'[d] \in 0..TTL
             /\ age[d] < TTL => age'[d] = age[d] + 1
             /\ age[d] = TTL => age'[d] = TTL
  BY <1>t, SMT DEF TypeOK, Tick, Later
<1>2. ASSUME NEW d \in Calls PROVE elapsed'[d] \in Nat
  BY <1>t, SMT DEF TypeOK, Tick, Later
<1>3. /\ item' \in {Absent} \cup [owner : Calls, left : 1..TTL]
      /\ item.left > 1 => item'.owner = item.owner /\ item'.left = item.left - 1
      /\ ~(item.left > 1) => item' = Absent
  BY <1>t, SMT DEF TypeOK, Tick, Absent
<1>4. TypeOK'
  BY <1>t, <1>1, <1>2, <1>3, SMT DEF TypeOK, Tick
<1>5. ASSUME NEW d \in Calls PROVE Held(d)'
  <2>0. UNCHANGED <<pc, refresher, robbed>>
    BY DEF Tick
  <2>1. item.owner = d => item.left \in 1..TTL /\ item.left + age[d] = TTL
    BY <1>t, AbsentItem DEF TypeOK, Held
  <2>2. item'.owner = d => item.owner = d /\ item'.left + age'[d] = TTL
    BY <1>t, <1>1, <1>3, <2>1, AbsentItem
  <2>3. item.owner = d /\ item'.owner # d => age'[d] = TTL
    BY <1>t, <1>1, <1>3, <2>1
  <2>4. /\ pc[d] = "creating" => elapsed'[d] <= TTL
        /\ refresher[d] = "got" => elapsed'[d] <= age'[d]
    BY <1>t, <1>1, SMT DEF TypeOK, Held, Tick, Later
  <2> QED
    BY <1>t, <1>1, <2>0, <2>2, <2>3, <2>4 DEF Held, Running, Releasing
<1> QED BY <1>4, <1>5 DEF IInv

\* The invariant is inductive.
LEMMA StepHolds == IInv /\ [Next]_vars => IInv'
<1> SUFFICES ASSUME IInv, [Next]_vars PROVE IInv' OBVIOUS
<1>1. CASE Next
  BY <1>1, TickStep, CallStep DEF Next
<1>2. CASE UNCHANGED vars
  BY <1>2, Zenon DEF vars, IInv, TypeOK, Held, Running, Releasing
<1> QED BY <1>1, <1>2

\* Every reachable state satisfies the invariant.
LEMMA IInvAlways == Spec => []IInv
<1> QED BY InitHolds, StepHolds, PTL DEF Spec

\* The types of calls, refreshers and the lock; no item outlives its TTL.
THEOREM LockTypes == Spec => []TypeOK
<1>1. IInv => TypeOK BY DEF IInv
<1> QED BY <1>1, IInvAlways, PTL

\* However slow the backend and the functions are, a call that runs or releases has its lock
\* in the backend for TTL from the last expiry computed for it, unless a Delete of another
\* call removed it.
THEOREM LockIsHeld == Spec => []LockHeld
<1>1. IInv => LockHeld BY DEF IInv, Held, LockHeld
<1> QED BY <1>1, IInvAlways, PTL

\* What a step may do to a lock: it ends by expiry, by its own Delete, or by the Delete of a
\* call that lost its own lock between its Get and that Delete; it begins by its Create.
THEOREM LockIsOwn == Spec => OnlyOwnerReleases
<1> DEFINE Ends(c) ==
             item.owner = c /\ item'.owner # c =>
               \/ item.left = 1 /\ pc' = pc
               \/ \E d \in Calls : /\ pc[d] = "deleting" /\ pc'[d] = "done"
                                   /\ d = c \/ age[d] = TTL \/ d \in robbed
           Deletes(c) == pc[c] # "deleting" /\ pc'[c] = "deleting" => item.owner = c
           Begins(c) == item.owner # c /\ item'.owner = c => pc[c] = "creating"
<1>1. ASSUME IInv, Next, NEW c \in Calls PROVE Ends(c) /\ Deletes(c) /\ Begins(c)
  <2>t. /\ pc \in [Calls -> {"acquiring", "creating", "running", "cancelled", "releasing",
                             "deleting", "done"}]
        /\ item \in {Absent} \cup [owner : Calls, left : 1..TTL]
        /\ TTL \in Nat
    BY <1>1, BackendLockAssumption DEF IInv, TypeOK
  <2>1. CASE Tick
    <3>1. pc' = pc /\ item' = IF item.left > 1 THEN [item EXCEPT !.left = @ - 1] ELSE Absent
      BY <2>1 DEF Tick
    <3>2. item.owner = c => item.left \in 1..TTL
      BY <2>t, AbsentItem
    <3>3. item.left > 1 => item'.owner = item.owner
      BY <2>t, <3>1, AbsentItem DEF Absent
    <3>4. ~(item.left > 1) => item'.owner # c
      BY <3>1, AbsentItem
    <3> QED BY <2>t, <3>1, <3>2, <3>3, <3>4
  <2>2. ASSUME NEW d \in Calls,
               \/ CreateBegins(d) \/ AcquireWaits(d) \/ RefreshGet(d) \/ RefreshStops(d)
               \/ CallerCancels(d) \/ FnReturns(d)
               \/ ReleaseGet(d) \/ ReleaseFails(d) \/ Crash(d)
        PROVE  item' = item /\ Deletes(c)
    BY <2>t, <2>2, Zenon DEF CreateBegins, AcquireWaits, RefreshGet, GiveUp, RefreshStops,
         CallerCancels, FnReturns, ReleaseGet, ReleaseFails, Return, Crash
  <2>3. ASSUME NEW d \in Calls, Acquire(d) \/ AcquireFails(d)
        PROVE  Ends(c) /\ Deletes(c) /\ Begins(c)
    <3>1. Deletes(c)
      BY <2>t, <2>3, Zenon DEF Acquire, AcquireFails
    <3>2. CASE Create(d)
      <4>1. item.owner # c /\ pc[d] = "creating"
        BY <3>2, AbsentItem DEF Create
      <4>2. d # c => item'.owner # c
        BY <1>1, <3>2, CreateStep
      <4> QED BY <3>1, <4>1, <4>2
    <3>3. CASE item' = item
      BY <3>1, <3>3
    <3> QED BY <2>3, <3>2, <3>3 DEF Acquire, AcquireFails
  <2>4. ASSUME NEW d \in Calls, RefreshSwap(d) PROVE item'.owner = item.owner /\ Deletes(c)
    <3>1. Deletes(c)
      BY <2>t, <2>4, Zenon DEF RefreshSwap, GiveUp
    <3>2. item'.owner = item.owner
      BY <1>1, <2>4, SwapStep DEF RefreshSwap
    <3> QED BY <3>1, <3>2
  <2>5. ASSUME NEW d \in Calls, ReleaseDelete(d) PROVE Ends(c) /\ Deletes(c) /\ Begins(c)
    <3>1. pc[d] = "deleting" /\ pc' = [pc EXCEPT ![d] = "done"] /\ item'.owner # c
      BY <2>5, AbsentItem DEF ReleaseDelete, Return
    <3>2. pc'[d] = "done" /\ Deletes(c)
      BY <2>t, <3>1
    <3>3. item.owner = c => d = c \/ age[d] = TTL \/ d \in robbed
      BY <1>1, <3>1 DEF IInv, Held, Releasing
    <3> QED BY <3>1, <3>2, <3>3
  <2> QED BY <1>1, <2>1, <2>2, <2>3, <2>4, <2>5, Zenon DEF Next
<1>2. IInv /\ [Next]_vars =>
        [\A c \in Calls :
           /\ item.owner = c /\ item'.owner # c =>
                \/ item.left = 1 /\ pc' = pc
                \/ \E d \in Calls : /\ pc[d] = "deleting" /\ pc'[d] = "done"
                                    /\ d = c \/ age[d] = TTL \/ d \in robbed
           /\ pc[c] # "deleting" /\ pc'[c] = "deleting" => item.owner = c
           /\ item.owner # c /\ item'.owner = c => pc[c] = "creating"]_vars
  BY <1>1, Zenon
<1> QED BY <1>2, IInvAlways, PTL DEF Spec, OnlyOwnerReleases

=============================================================================
