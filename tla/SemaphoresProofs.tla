-------------------------- MODULE SemaphoresProofs --------------------------
(***************************************************************************)
(* What the semaphores guarantee for any number of holders and leases, and *)
(* for all times that satisfy SemaphoresAssumption.  Two arguments meet:   *)
(* about time, that a holder never believes in more than its lease has     *)
(* left in the backend, and about compare-and-swap, that an update which   *)
(* succeeds has counted every lease that has not expired.                  *)
(***************************************************************************)
EXTENDS Semaphores, FiniteSetTheorems, TLAPS

\* What a holder knows, asks for and waits for.
Timing(h) ==
    /\ Acquiring(h) => next[h] >= Expiry - AcquireTime
    /\ Active(h) => local[h] + sinceTick[h] <= Expiry
    /\ pc[h] \in {"renewing", "extending"} =>
         local[h] < next[h] /\ next[h] + sinceTick[h] <= Expiry

\* The lease of a holder lasts as long as it believes.
Backed(h) == ~deleted /\ Active(h) /\ local[h] > 0 => lease[h] >= local[h]

\* What an update will write has room for it, and leaves nobody out unless it fails.
Counted(h) ==
    /\ pc[h] = "updating" => Cardinality(kept[h]) < MaxLeases
    /\ pc[h] = "extending" => h \in kept[h] /\ Cardinality(kept[h]) <= MaxLeases
    /\ pc[h] \in {"updating", "extending"} /\ fresh[h] => Unexpired \subseteq kept[h]

LeasesBounded == Cardinality(Unexpired) <= MaxLeases

ItemOK ==
    /\ left \in 0..Expiry
    /\ lease \in [Holders -> {None} \cup 0..Expiry]
    /\ deleted \in BOOLEAN
    /\ ItemCovers

PCs == {"idle", "acquiring", "updating", "creating", "holding", "renewing", "extending",
        "cancelling", "removing", "finished"}

CallOK ==
    /\ pc \in [Holders -> PCs]
    /\ fresh \in [Holders -> BOOLEAN]
    /\ kept \in [Holders -> SUBSET Holders]
    /\ attempts \in [Holders -> 0..leaseRetryAttempts]

TimesOK ==
    /\ next \in [Holders -> 0..Expiry]
    /\ local \in [Holders -> 0..Expiry]
    /\ sinceTick \in [Holders -> 0..Expiry]

SInv ==
    /\ ItemOK /\ CallOK /\ TimesOK
    /\ \A h \in Holders : Timing(h)
    /\ \A h \in Holders : Backed(h)
    /\ \A h \in Holders : Counted(h)
    /\ LeasesBounded

-----------------------------------------------------------------------------
(* Facts about numbers and sets *)

\* After a late tick, the ticker's next one is due within the delay.
LEMMA LateTick ==
    ASSUME NEW s \in Int, NEW t \in Int, t > 0, s >= t
    PROVE  s % t \in Int /\ 0 <= s % t /\ s % t < t /\ s % t <= s - t
BY SMT

\* Sets of holders are finite, and their sizes are ordered by inclusion.
LEMMA Sizes ==
    ASSUME NEW S \in SUBSET Holders, NEW T \in SUBSET Holders, S \subseteq T
    PROVE  /\ Cardinality(S) \in Nat /\ Cardinality(T) \in Nat
           /\ Cardinality(S) <= Cardinality(T)
<1>1. IsFiniteSet(T)
  BY SemaphoresAssumption, FS_Subset
<1>2. IsFiniteSet(S) /\ Cardinality(S) <= Cardinality(T)
  BY <1>1, FS_Subset
<1> QED BY <1>1, <1>2, FS_CardinalityType

\* One more holder makes a set larger by at most one.
LEMMA OneMore ==
    ASSUME NEW S \in SUBSET Holders, NEW h \in Holders
    PROVE  Cardinality(S \cup {h}) <= Cardinality(S) + 1
<1>1. IsFiniteSet(S)
  BY SemaphoresAssumption, FS_Subset
<1>2. Cardinality(S) \in Nat
  BY <1>1, FS_CardinalityType
<1>3. Cardinality(S \cup {h}) = IF h \in S THEN Cardinality(S) ELSE Cardinality(S) + 1
  BY <1>1, FS_AddElement
<1> QED BY <1>2, <1>3, SMT

\* The initial states satisfy the invariant.
LEMMA SInit == Init => SInv
<1> SUFFICES ASSUME Init PROVE SInv OBVIOUS
<1>1. ItemOK /\ TimesOK
  <2>1. deleted \in BOOLEAN
    BY Zenon DEF Init
  <2>2. /\ left \in 0..Expiry /\ lease \in [Holders -> {None} \cup 0..Expiry] /\ ItemCovers
        /\ TimesOK
    BY SemaphoresAssumption, SMT DEF Init, TimesOK, ItemCovers, None
  <2> QED BY <2>1, <2>2 DEF ItemOK
<1>0. CallOK
  <2>1. fresh \in [Holders -> BOOLEAN] /\ kept \in [Holders -> SUBSET Holders]
    BY Zenon DEF Init
  <2>2. pc \in [Holders -> PCs] /\ attempts \in [Holders -> 0..leaseRetryAttempts]
    BY SemaphoresAssumption, SMT DEF Init, PCs
  <2> QED BY <2>1, <2>2 DEF CallOK
<1>2. \A h \in Holders : Timing(h) /\ Backed(h) /\ Counted(h)
  BY SMT DEF Init, Timing, Backed, Counted, Acquiring, Active
<1>3. LeasesBounded
  <2>1. Unexpired = {}
    BY SMT DEF Init, Unexpired, None
  <2> QED BY <2>1, FS_EmptySet, SemaphoresAssumption, SMT DEF LeasesBounded
<1> QED BY <1>0, <1>1, <1>2, <1>3 DEF SInv

-----------------------------------------------------------------------------
(* Steps that leave the item and the times alone *)

\* A holder goes on to where its update, if it has one, is not pending, and does not start
\* to hold, to renew or to acquire.
LEMMA Quiet ==
    ASSUME SInv, NEW h \in Holders, CallOK',
           UNCHANGED <<item, times>>,
           \A g \in Holders \ {h} : /\ pc'[g] = pc[g] /\ kept'[g] = kept[g]
                                    /\ fresh'[g] = fresh[g],
           pc'[h] \notin {"updating", "extending"},
           Acquiring(h)' => Acquiring(h),
           Active(h)' => pc'[h] = "renewing" /\ pc[h] \in {"renewing", "extending"}
    PROVE  SInv'
<1>1. Unexpired' = Unexpired
  BY Zenon DEF Unexpired, item
<1>2. ASSUME NEW g \in Holders PROVE Timing(g)'
  <2>1. next'[g] = next[g] /\ local'[g] = local[g] /\ sinceTick'[g] = sinceTick[g]
    BY Zenon DEF times
  <2>2. CASE g = h
    BY <2>1, <2>2, Zenon DEF SInv, Timing, Acquiring, Active
  <2>3. CASE g # h
    BY <2>1, <2>3, Zenon DEF SInv, Timing, Acquiring, Active
  <2> QED BY <2>2, <2>3
<1>3. ASSUME NEW g \in Holders PROVE Backed(g)'
  <2>1. local'[g] = local[g] /\ lease'[g] = lease[g] /\ deleted' = deleted
    BY Zenon DEF times, item
  <2> QED BY <2>1, Zenon DEF SInv, Backed, Active
<1>4. ASSUME NEW g \in Holders PROVE Counted(g)'
  BY <1>1, Zenon DEF SInv, Counted
<1>5. ItemOK' /\ TimesOK'
  BY Zenon DEF SInv, ItemOK, ItemCovers, TimesOK, item, times
<1> QED BY <1>1, <1>2, <1>3, <1>4, <1>5, Zenon DEF SInv, LeasesBounded

\* A holder has read the item, and goes on with all leases that have not expired.
LEMMA GetStep ==
    ASSUME SInv, NEW h \in Holders, CallOK', UNCHANGED <<item, times>>, Get(h, Unexpired),
           \/ /\ pc[h] = "acquiring" /\ Cardinality(Unexpired) < MaxLeases
              /\ Goto(h, "updating")
           \/ /\ pc[h] = "renewing" /\ h \in Unexpired
              /\ Goto(h, "extending")
    PROVE  SInv'
<1>1. Unexpired' = Unexpired
  BY Zenon DEF Unexpired, item
<1>2. /\ kept'[h] = Unexpired
      /\ \A g \in Holders \ {h} : /\ pc'[g] = pc[g] /\ kept'[g] = kept[g]
                                  /\ fresh'[g] = fresh[g]
  BY Zenon DEF Get, Goto, SInv, CallOK
<1>3. \/ pc[h] = "acquiring" /\ pc'[h] = "updating" /\ Cardinality(Unexpired) < MaxLeases
      \/ pc[h] = "renewing" /\ pc'[h] = "extending" /\ h \in Unexpired
  BY Zenon DEF Goto, SInv, CallOK
<1>4. ASSUME NEW g \in Holders PROVE Timing(g)'
  <2>1. next'[g] = next[g] /\ local'[g] = local[g] /\ sinceTick'[g] = sinceTick[g]
    BY Zenon DEF times
  <2>2. /\ Acquiring(g)' = Acquiring(g) /\ Active(g)' = Active(g)
        /\ pc'[g] \in {"renewing", "extending"} => pc[g] \in {"renewing", "extending"}
    BY <1>2, <1>3, SMT DEF Acquiring, Active
  <2> QED BY <2>1, <2>2, Zenon DEF SInv, Timing
<1>5. ASSUME NEW g \in Holders PROVE Backed(g)'
  <2>1. local'[g] = local[g] /\ lease'[g] = lease[g] /\ deleted' = deleted
    BY Zenon DEF times, item
  <2>2. Active(g)' = Active(g)
    BY <1>2, <1>3, SMT DEF Active
  <2> QED BY <2>1, <2>2, Zenon DEF SInv, Backed
<1>6. ASSUME NEW g \in Holders PROVE Counted(g)'
  <2>1. CASE g = h
    BY <1>1, <1>2, <1>3, <2>1, SMT DEF Counted, SInv, LeasesBounded
  <2>2. CASE g # h
    BY <1>1, <1>2, <2>2, Zenon DEF SInv, Counted
  <2> QED BY <2>1, <2>2
<1>7. ItemOK' /\ TimesOK'
  BY Zenon DEF SInv, ItemOK, ItemCovers, TimesOK, item, times
<1> QED BY <1>1, <1>4, <1>5, <1>6, <1>7, Zenon DEF SInv, LeasesBounded

\* The item is written with a lease for h: everybody who has one keeps it, and there is
\* room for it.
LEMMA PutStep ==
    ASSUME SInv, NEW h \in Holders, CallOK', TimesOK', Put(h, kept[h], next[h]),
           next[h] > 0, Unexpired \subseteq kept[h],
           Cardinality(Unexpired \cup {h}) <= MaxLeases,
           \A g \in Holders \ {h} :
             /\ pc'[g] = pc[g] /\ next'[g] = next[g] /\ local'[g] = local[g]
             /\ sinceTick'[g] = sinceTick[g],
           pc'[h] \in {"holding", "renewing", "finished"},
           Active(h)' => local'[h] <= next[h], Timing(h)'
    PROVE  SInv'
<1>1. /\ lease' = [g \in Holders |-> IF g = h THEN next[h]
                                     ELSE IF g \in kept[h] THEN lease[g] ELSE None]
      /\ left' = (IF next[h] > left THEN next[h] ELSE left)
      /\ fresh' = [g \in Holders |-> FALSE]
      /\ \A g \in Holders \ {h} : kept'[g] = kept[g]
      /\ deleted' = deleted
  BY Zenon DEF Put, Covering, SInv, CallOK
<1>2. /\ left \in 0..Expiry /\ next[h] \in 0..Expiry /\ Expiry \in Nat
      /\ \A g \in Holders : lease[g] \in {None} \cup 0..Expiry /\ local[g] \in 0..Expiry
      /\ \A g \in Holders : local'[g] \in 0..Expiry
  BY SemaphoresAssumption, SMT DEF SInv, ItemOK, TimesOK
<1>3. ItemOK'
  <2>1. \A g \in Holders : lease[g] # None => lease[g] <= left
    BY Zenon DEF SInv, ItemOK, ItemCovers
  <2>2. left' \in 0..Expiry /\ lease' \in [Holders -> {None} \cup 0..Expiry] /\ ItemCovers'
    BY <1>1, <1>2, <2>1, SMT DEF ItemCovers, None
  <2>3. deleted' \in BOOLEAN
    BY <1>1, Zenon DEF SInv, ItemOK
  <2> QED BY <2>2, <2>3 DEF ItemOK
<1>4. ASSUME NEW g \in Holders PROVE Timing(g)'
  <2>1. CASE g = h
    BY <2>1
  <2>2. CASE g # h
    BY <2>2, Zenon DEF SInv, Timing, Acquiring, Active
  <2> QED BY <2>1, <2>2
<1>5. ASSUME NEW g \in Holders PROVE Backed(g)'
  <2>1. CASE g = h
    BY <1>1, <1>2, <2>1, SMT DEF Backed
  <2>2. CASE g # h
    <3>1. SUFFICES ASSUME ~deleted, Active(g), local[g] > 0 PROVE lease'[g] >= local[g]
      BY <1>1, <2>2, Zenon DEF Backed, Active
    <3>2. lease[g] >= local[g] /\ lease[g] > 0
      BY <1>2, <3>1, SMT DEF SInv, Backed, None
    <3>3. g \in kept[h]
      BY <3>2, Zenon DEF Unexpired
    <3> QED BY <1>1, <2>2, <3>2, <3>3, Zenon
  <2> QED BY <2>1, <2>2
<1>6. ASSUME NEW g \in Holders PROVE Counted(g)'
  <2>1. ~fresh'[g]
    BY <1>1, Zenon
  <2>2. CASE g = h
    BY <2>1, <2>2, Zenon DEF Counted
  <2>3. CASE g # h
    BY <1>1, <2>1, <2>3, Zenon DEF SInv, Counted
  <2> QED BY <2>2, <2>3
<1>7. LeasesBounded'
  <2>1. Unexpired' \subseteq Unexpired \cup {h}
    BY <1>1, SMT DEF Unexpired, None
  <2>2. Unexpired \cup {h} \in SUBSET Holders /\ Unexpired' \in SUBSET Holders
    BY Zenon DEF Unexpired
  <2>3. Cardinality(Unexpired') <= Cardinality(Unexpired \cup {h})
        /\ Cardinality(Unexpired') \in Nat /\ Cardinality(Unexpired \cup {h}) \in Nat
    BY <2>1, <2>2, Sizes
  <2> QED BY <2>3, SemaphoresAssumption, SMT DEF LeasesBounded
<1> QED BY <1>3, <1>4, <1>5, <1>6, <1>7 DEF SInv

-----------------------------------------------------------------------------
(* The steps of a holder *)

\* Going somewhere, having forgotten the item or not, keeps the call typed.
LEMMA CallTyped ==
    ASSUME CallOK, NEW h \in Holders, NEW where \in PCs, Goto(h, where),
           \/ UNCHANGED <<fresh, kept>>
           \/ Forget(h)
           \/ \E S \in SUBSET Holders : Get(h, S),
           \/ UNCHANGED attempts
           \/ attempts' = [attempts EXCEPT ![h] = 1]
           \/ attempts' = [attempts EXCEPT ![h] = @ + 1] /\ attempts[h] < leaseRetryAttempts
    PROVE  CallOK'
<1>1. pc' \in [Holders -> PCs]
  BY Zenon DEF CallOK, Goto
<1>2. fresh' \in [Holders -> BOOLEAN]
  BY Zenon DEF CallOK, Forget, Get
<1>3. kept' \in [Holders -> SUBSET Holders]
  BY Zenon DEF CallOK, Forget, Get
<1>4. attempts' \in [Holders -> 0..leaseRetryAttempts]
  BY SemaphoresAssumption, SMT DEF CallOK
<1> QED BY <1>1, <1>2, <1>3, <1>4 DEF CallOK

\* A call starts.
LEMMA StartStep ==
    ASSUME SInv, NEW h \in Holders, Start(h)
    PROVE  SInv'
<1>1. CallOK'
  <2>1. "acquiring" \in PCs /\ Goto(h, "acquiring")
    BY Zenon DEF Start, PCs
  <2>2. UNCHANGED <<fresh, kept>> /\ attempts' = [attempts EXCEPT ![h] = 1]
    BY Zenon DEF Start
  <2> QED BY <2>1, <2>2, CallTyped, Zenon DEF SInv
<1>2. /\ pc'[h] = "acquiring" /\ next'[h] = Expiry
      /\ \A g \in Holders \ {h} : pc'[g] = pc[g] /\ next'[g] = next[g]
      /\ UNCHANGED <<left, lease, deleted, fresh, kept, local, sinceTick>>
  BY Zenon DEF Start, Goto, item, SInv, CallOK, TimesOK
<1>3. TimesOK'
  BY <1>2, SemaphoresAssumption, SMT DEF Start, SInv, TimesOK
<1>4. Unexpired' = Unexpired /\ ItemOK'
  BY <1>2, Zenon DEF Unexpired, SInv, ItemOK, ItemCovers
<1>5. ASSUME NEW g \in Holders PROVE Timing(g)' /\ Backed(g)' /\ Counted(g)'
  <2>1. CASE g = h
    BY <1>2, <2>1, SemaphoresAssumption, SMT DEF Timing, Backed, Counted, Acquiring, Active
  <2>2. CASE g # h
    BY <1>2, <1>4, <2>2, Zenon DEF SInv, Timing, Backed, Counted, Acquiring, Active
  <2> QED BY <2>1, <2>2
<1> QED BY <1>1, <1>3, <1>4, <1>5, Zenon DEF SInv, LeasesBounded

\* A call ends, or begins its next attempt, without having written anything.
LEMMA EndStep ==
    ASSUME SInv, NEW h \in Holders, NEW where, Goto(h, where), UNCHANGED <<item, times>>,
           \/ UNCHANGED <<fresh, kept>>
           \/ Forget(h)
           \/ \E S \in SUBSET Holders : Get(h, S),
           \/ UNCHANGED attempts
           \/ attempts' = [attempts EXCEPT ![h] = 1]
           \/ attempts' = [attempts EXCEPT ![h] = @ + 1] /\ attempts[h] < leaseRetryAttempts,
           \/ where \in {"finished", "cancelling", "removing"}
           \/ where \in {"acquiring", "creating"} /\ Acquiring(h)
           \/ where = "renewing" /\ pc[h] = "extending"
    PROVE  SInv'
<1>1. where \in PCs
  BY SMT DEF PCs
<1>2. CallOK'
  BY <1>1, CallTyped, Zenon DEF SInv
<1>3. /\ pc'[h] = where
      /\ \A g \in Holders \ {h} : /\ pc'[g] = pc[g] /\ kept'[g] = kept[g]
                                  /\ fresh'[g] = fresh[g]
  BY Zenon DEF Goto, Forget, Get, SInv, CallOK
<1>4. /\ pc'[h] \notin {"updating", "extending"}
      /\ Acquiring(h)' => Acquiring(h)
      /\ Active(h)' => pc'[h] = "renewing" /\ pc[h] \in {"renewing", "extending"}
  BY <1>3, SMT DEF Acquiring, Active
<1> QED BY <1>2, <1>3, <1>4, Quiet, Zenon

\* The update of a call failed.
LEMMA RetryStep ==
    ASSUME SInv, NEW h \in Holders, NEW where, Retry(h, where),
           where = "cancelling" \/ (where = "acquiring" /\ Acquiring(h))
    PROVE  SInv'
<1>1. UNCHANGED <<item, times>> /\ Forget(h)
  BY Zenon DEF Retry
<1>2. CASE Goto(h, where) /\ attempts' = [attempts EXCEPT ![h] = @ + 1]
           /\ attempts[h] < leaseRetryAttempts
  BY <1>1, <1>2, EndStep, Zenon
<1>3. CASE Goto(h, "finished") /\ UNCHANGED attempts
  BY <1>1, <1>3, EndStep, Zenon
<1> QED BY <1>2, <1>3, Zenon DEF Retry

\* An acquisition reads the item: it goes on to its update if there is room.
LEMMA AcquireGetStep ==
    ASSUME SInv, NEW h \in Holders, AcquireGet(h)
    PROVE  SInv'
<1>1. UNCHANGED <<item, times>> /\ UNCHANGED attempts /\ pc[h] = "acquiring"
  BY Zenon DEF AcquireGet
<1>2. Acquiring(h)
  BY <1>1, Zenon DEF Acquiring
<1>3. CASE Cardinality(Unexpired) < MaxLeases /\ Get(h, Unexpired) /\ Goto(h, "updating")
  <2>1. Unexpired \in SUBSET Holders /\ "updating" \in PCs
    BY Zenon DEF Unexpired, PCs
  <2>2. CallOK'
    BY <1>1, <1>3, <2>1, CallTyped, Zenon DEF SInv
  <2> QED BY <1>1, <1>3, <2>2, GetStep, Zenon
<1>4. CASE (Goto(h, "finished") \/ Goto(h, "creating")) /\ UNCHANGED <<fresh, kept>>
  BY <1>1, <1>2, <1>4, EndStep, Zenon
<1> QED BY <1>3, <1>4, Zenon DEF AcquireGet

\* A renewal reads the item: it goes on to its update if its lease is there.
LEMMA RenewGetStep ==
    ASSUME SInv, NEW h \in Holders, RenewGet(h)
    PROVE  SInv'
<1>1. UNCHANGED <<item, times>> /\ UNCHANGED attempts /\ pc[h] = "renewing"
  BY Zenon DEF RenewGet
<1>2. CASE h \in Unexpired /\ Get(h, Unexpired) /\ Goto(h, "extending")
  <2>1. Unexpired \in SUBSET Holders /\ "extending" \in PCs
    BY Zenon DEF Unexpired, PCs
  <2>2. CallOK'
    BY <1>1, <1>2, <2>1, CallTyped, Zenon DEF SInv
  <2> QED BY <1>1, <1>2, <2>2, GetStep, Zenon
<1>3. CASE Goto(h, "finished") /\ UNCHANGED <<fresh, kept>>
  BY <1>1, <1>3, EndStep, Zenon
<1> QED BY <1>2, <1>3, Zenon DEF RenewGet, Renewable
\* Acquired and RenewUpdate keep the types of what they change.
LEMMA PutTyped ==
    ASSUME SInv, NEW h \in Holders, NEW S, NEW t, Put(h, S, t),
           NEW where \in PCs, Goto(h, where), UNCHANGED <<attempts, next>>,
           local' = [local EXCEPT ![h] = next[h]] \/ UNCHANGED local,
           sinceTick' = [sinceTick EXCEPT ![h] = 0] \/ UNCHANGED sinceTick
    PROVE  /\ CallOK' /\ TimesOK'
           /\ pc'[h] = where
           /\ \A g \in Holders \ {h} :
                /\ pc'[g] = pc[g] /\ next'[g] = next[g] /\ local'[g] = local[g]
                /\ sinceTick'[g] = sinceTick[g]
<1>1. pc' \in [Holders -> PCs] /\ pc'[h] = where
  BY Zenon DEF Goto, SInv, CallOK
<1>2. fresh' \in [Holders -> BOOLEAN] /\ kept' \in [Holders -> SUBSET Holders]
  BY Zenon DEF Put, SInv, CallOK
<1>3. CallOK'
  BY <1>1, <1>2, Zenon DEF SInv, CallOK
<1>4. TimesOK'
  BY SemaphoresAssumption, SMT DEF SInv, TimesOK
<1>5. \A g \in Holders \ {h} :
        /\ pc'[g] = pc[g] /\ next'[g] = next[g] /\ local'[g] = local[g]
        /\ sinceTick'[g] = sinceTick[g]
  BY Zenon DEF Goto, SInv, CallOK, TimesOK
<1> QED BY <1>1, <1>3, <1>4, <1>5

\* A lease that was acquired.
LEMMA AcquiredStep ==
    ASSUME SInv, NEW h \in Holders, Acquired(h), Acquiring(h),
           Unexpired \subseteq kept[h], Cardinality(Unexpired \cup {h}) <= MaxLeases
    PROVE  SInv'
<1>1. /\ next[h] > 0 /\ next[h] \in 0..Expiry /\ local[h] \in 0..Expiry
      /\ Expiry \in Nat
  BY SemaphoresAssumption, SMT DEF SInv, Timing, TimesOK
<1>2. PICK where \in {"holding", "finished"} :
        /\ Put(h, kept[h], next[h]) /\ Goto(h, where)
        /\ \/ where = "holding" /\ local' = [local EXCEPT ![h] = next[h]]
           \/ where = "finished" /\ UNCHANGED local
        /\ sinceTick' = [sinceTick EXCEPT ![h] = 0]
        /\ UNCHANGED <<attempts, next>>
  BY Zenon DEF Acquired
<1>3. where \in PCs
  BY Zenon DEF PCs
<1>4. /\ CallOK' /\ TimesOK'
      /\ pc'[h] = where
      /\ \A g \in Holders \ {h} :
           /\ pc'[g] = pc[g] /\ next'[g] = next[g] /\ local'[g] = local[g]
           /\ sinceTick'[g] = sinceTick[g]
  BY <1>2, <1>3, PutTyped, Zenon
<1>5. Timing(h)' /\ (Active(h)' => local'[h] <= next[h])
  BY <1>1, <1>2, <1>4, SMT DEF Timing, Acquiring, Active, SInv, TimesOK
<1> QED BY <1>1, <1>2, <1>4, <1>5, PutStep, Zenon
LEMMA AcquireUpdateStep ==
    ASSUME SInv, NEW h \in Holders, AcquireUpdate(h)
    PROVE  SInv'
<1>1. pc[h] = "updating" /\ Acquiring(h)
  BY Zenon DEF AcquireUpdate, Acquiring
<1>2. CASE UpToDate(h) /\ Acquired(h)
  <2>1. Unexpired \subseteq kept[h] /\ Cardinality(kept[h]) < MaxLeases
    BY <1>1, <1>2, Zenon DEF SInv, Counted, UpToDate
  <2>2. kept[h] \in SUBSET Holders /\ Unexpired \in SUBSET Holders
    BY Zenon DEF SInv, CallOK, Unexpired
  <2>3. /\ Cardinality(Unexpired \cup {h}) <= Cardinality(kept[h] \cup {h})
        /\ Cardinality(Unexpired \cup {h}) \in Nat /\ Cardinality(kept[h] \cup {h}) \in Nat
    BY <2>1, <2>2, Sizes
  <2>4. Cardinality(kept[h] \cup {h}) <= Cardinality(kept[h]) + 1
    BY <2>2, OneMore
  <2>5. Cardinality(kept[h]) \in Nat
    BY <2>2, Sizes
  <2>6. Cardinality(Unexpired \cup {h}) <= MaxLeases
    BY <2>1, <2>3, <2>4, <2>5, SemaphoresAssumption, SMT
  <2> QED BY <1>1, <1>2, <2>1, <2>6, AcquiredStep
<1>3. CASE Retry(h, "acquiring")
  BY <1>1, <1>3, RetryStep, Zenon
<1> QED BY <1>2, <1>3, Zenon DEF AcquireUpdate

\* An item that is created has one lease.
LEMMA AcquireCreateStep ==
    ASSUME SInv, NEW h \in Holders, AcquireCreate(h)
    PROVE  SInv'
<1>1. pc[h] = "creating" /\ Acquiring(h)
  BY Zenon DEF AcquireCreate, Acquiring
<1>2. CASE left = 0 /\ Acquired(h)
  <2>1. Unexpired = {}
    BY <1>2, SMT DEF SInv, ItemOK, ItemCovers, Unexpired, None
  <2>2. Cardinality(Unexpired \cup {h}) <= Cardinality(Unexpired) + 1
    BY <2>1, OneMore
  <2>3. Cardinality(Unexpired) = 0 /\ Cardinality(Unexpired \cup {h}) \in Nat
    BY <2>1, FS_EmptySet, Sizes
  <2>4. Cardinality(Unexpired \cup {h}) <= MaxLeases
    BY <2>2, <2>3, SemaphoresAssumption, SMT
  <2> QED BY <1>1, <1>2, <2>1, <2>4, AcquiredStep
<1>3. CASE Retry(h, "acquiring")
  BY <1>1, <1>3, RetryStep, Zenon
<1> QED BY <1>2, <1>3, Zenon DEF AcquireCreate

\* A renewal that succeeds adds no lease, even if its own has expired meanwhile.
LEMMA RenewUpdateStep ==
    ASSUME SInv, NEW h \in Holders, RenewUpdate(h)
    PROVE  SInv'
<1>1. pc[h] = "extending" /\ fresh[h]
  BY Zenon DEF RenewUpdate, UpToDate
<1>2. /\ next[h] \in 0..Expiry /\ local[h] \in 0..Expiry /\ sinceTick[h] \in 0..Expiry
      /\ local[h] < next[h] /\ next[h] + sinceTick[h] <= Expiry /\ next[h] > 0
      /\ Expiry \in Nat
  BY <1>1, SemaphoresAssumption, SMT DEF SInv, Timing, TimesOK
<1>3. PICK where \in {"holding", "renewing"} :
        /\ Put(h, kept[h], next[h]) /\ Goto(h, where)
        /\ \/ where = "holding" /\ local' = [local EXCEPT ![h] = next[h]]
           \/ where = "renewing" /\ UNCHANGED local
        /\ UNCHANGED <<attempts, next, sinceTick>>
  BY Zenon DEF RenewUpdate
<1>4. where \in PCs
  BY Zenon DEF PCs
<1>5. /\ CallOK' /\ TimesOK'
      /\ pc'[h] = where
      /\ \A g \in Holders \ {h} :
           /\ pc'[g] = pc[g] /\ next'[g] = next[g] /\ local'[g] = local[g]
           /\ sinceTick'[g] = sinceTick[g]
  BY <1>3, <1>4, PutTyped, Zenon
<1>6. Timing(h)' /\ local'[h] <= next[h]
  BY <1>2, <1>3, <1>5, SMT DEF Timing, Acquiring, Active, SInv, TimesOK
<1>7. Unexpired \subseteq kept[h] /\ h \in kept[h] /\ Cardinality(kept[h]) <= MaxLeases
  BY <1>1, Zenon DEF SInv, Counted
<1>8. Cardinality(Unexpired \cup {h}) <= MaxLeases
  <2>1. kept[h] \in SUBSET Holders /\ Unexpired \cup {h} \in SUBSET Holders
        /\ Unexpired \cup {h} \subseteq kept[h]
    BY <1>7, Zenon DEF SInv, CallOK, Unexpired
  <2>2. /\ Cardinality(Unexpired \cup {h}) <= Cardinality(kept[h])
        /\ Cardinality(Unexpired \cup {h}) \in Nat /\ Cardinality(kept[h]) \in Nat
    BY <2>1, Sizes
  <2> QED BY <1>7, <2>2, SemaphoresAssumption, SMT
<1> QED BY <1>2, <1>3, <1>5, <1>6, <1>7, <1>8, PutStep, Zenon

\* The ticks of the ticker change the times of a holder, and nothing else.
LEMMA TickerStep ==
    ASSUME SInv, NEW h \in Holders, RenewStart(h) \/ RenewTick(h)
    PROVE  SInv'
<1>1. /\ sinceTick[h] >= TickRate /\ sinceTick' = [sinceTick EXCEPT ![h] = @ % TickRate]
      /\ UNCHANGED <<left, lease, deleted, fresh, kept, attempts, local>>
      /\ \A g \in Holders \ {h} : pc'[g] = pc[g] /\ next'[g] = next[g]
      /\ pc[h] \in {"holding", "renewing"} /\ pc'[h] = "renewing"
  BY Zenon DEF RenewStart, RenewTick, Goto, item, call, SInv, CallOK, TimesOK
<1>2. \/ /\ next' = [next EXCEPT ![h] = Expiry - (sinceTick[h] - TickRate)]
         /\ pc[h] = "holding"
      \/ UNCHANGED next /\ pc[h] = "renewing"
  BY Zenon DEF RenewStart, RenewTick
<1>3. /\ Expiry \in Nat /\ TickRate \in Nat \ {0}
      /\ sinceTick[h] \in 0..Expiry /\ local[h] \in 0..Expiry /\ next[h] \in 0..Expiry
      /\ local[h] + sinceTick[h] <= Expiry
      /\ pc[h] = "renewing" => local[h] < next[h] /\ next[h] + sinceTick[h] <= Expiry
  BY <1>1, SemaphoresAssumption, SMT DEF SInv, TimesOK, Timing, Active
<1> DEFINE r == sinceTick[h] % TickRate
<1>4. r \in Int /\ 0 <= r /\ r <= sinceTick[h] - TickRate
  BY <1>1, <1>3, LateTick, SMT
<1>5. sinceTick'[h] = r /\ \A g \in Holders \ {h} : sinceTick'[g] = sinceTick[g]
  BY <1>1, Zenon DEF SInv, TimesOK
<1>6. /\ next'[h] \in 0..Expiry /\ local[h] < next'[h]
      /\ next'[h] + r <= Expiry /\ local[h] + r <= Expiry /\ r \in 0..Expiry
  <2> HIDE DEF r
  <2>1. CASE pc[h] = "holding"
    <3>1. next'[h] = Expiry - (sinceTick[h] - TickRate)
      BY <1>2, <2>1, SMT DEF SInv, TimesOK
    <3> QED BY <1>1, <1>3, <1>4, <3>1, SMT
  <2>2. CASE pc[h] = "renewing"
    <3>1. next'[h] = next[h]
      BY <1>2, <2>2, SMT
    <3> QED BY <1>1, <1>3, <1>4, <2>2, <3>1, SMT
  <2> QED BY <1>1, <2>1, <2>2, Zenon
<1>7. TimesOK'
  <2> HIDE DEF r
  <2>1. sinceTick' = [sinceTick EXCEPT ![h] = r]
    BY <1>1 DEF r
  <2>2. sinceTick' \in [Holders -> 0..Expiry]
    BY <1>6, <2>1, Zenon DEF SInv, TimesOK
  <2>3. next' \in [Holders -> 0..Expiry]
    BY <1>2, <1>6, Zenon DEF SInv, TimesOK
  <2> QED BY <1>1, <2>2, <2>3, Zenon DEF SInv, TimesOK
<1>8. CallOK'
  <2>1. pc' \in [Holders -> PCs]
    BY Zenon DEF RenewStart, RenewTick, Goto, PCs, SInv, CallOK
  <2> QED BY <1>1, <2>1, Zenon DEF SInv, CallOK
<1>9. ASSUME NEW g \in Holders PROVE Timing(g)'
  <2> HIDE DEF r
  <2>1. CASE g = h
    BY <1>1, <1>5, <1>6, <2>1, SMT DEF Timing, Acquiring, Active
  <2>2. CASE g # h
    BY <1>1, <1>5, <2>2, Zenon DEF SInv, Timing, Acquiring, Active
  <2> QED BY <2>1, <2>2
<1>10. Unexpired' = Unexpired /\ ItemOK'
  BY <1>1, Zenon DEF Unexpired, SInv, ItemOK, ItemCovers
<1>11. ASSUME NEW g \in Holders PROVE Backed(g)' /\ Counted(g)'
  <2>1. Active(g)' = Active(g) /\ (pc'[g] \in {"updating", "extending"} => pc'[g] = pc[g])
    BY <1>1, SMT DEF Active
  <2> QED BY <1>1, <1>10, <2>1, Zenon DEF SInv, Backed, Counted
<1> QED BY <1>7, <1>8, <1>9, <1>10, <1>11, Zenon DEF SInv, LeasesBounded
\* The steps that fail, end a call or stop a holder.
LEMMA FinishStep ==
    ASSUME SInv, NEW h \in Holders,
           \/ AcquireFails(h) \/ RenewFails(h) \/ RenewExpired(h) \/ Stop(h)
           \/ CancelGet(h) \/ CancelFails(h) \/ Crash(h)
    PROVE  SInv'
<1>1. CASE AcquireFails(h) \/ RenewExpired(h) \/ CancelFails(h) \/ Crash(h)
  <2>1. Goto(h, "finished") /\ Forget(h) /\ UNCHANGED <<item, times>> /\ UNCHANGED attempts
    BY <1>1, Zenon DEF AcquireFails, RenewExpired, CancelFails, Crash
  <2> QED BY <2>1, EndStep, Zenon
<1>2. CASE RenewFails(h)
  <2>1. /\ Goto(h, "renewing") /\ Forget(h) /\ UNCHANGED <<item, times>>
        /\ UNCHANGED attempts /\ pc[h] = "extending"
    BY <1>2, Zenon DEF RenewFails
  <2> QED BY <2>1, EndStep, Zenon
<1>3. CASE Stop(h)
  <2>1. /\ Goto(h, "cancelling") \/ Goto(h, "finished")
        /\ UNCHANGED <<item, times>> /\ UNCHANGED <<fresh, kept>>
        /\ attempts' = [attempts EXCEPT ![h] = 1]
    BY <1>3, SMT DEF Stop
  <2> QED BY <2>1, EndStep, Zenon
<1>4. CASE CancelGet(h)
  <2>1. Listed \in SUBSET Holders
    BY Zenon DEF Listed
  <2>2. /\ \/ Get(h, Listed) /\ Goto(h, "removing")
           \/ UNCHANGED <<fresh, kept>> /\ Goto(h, "finished")
        /\ UNCHANGED <<item, times>> /\ UNCHANGED attempts
    BY <1>4, Zenon DEF CancelGet
  <2> QED BY <2>1, <2>2, EndStep, Zenon
<1> QED BY <1>1, <1>2, <1>3, <1>4

\* The item is written with fewer leases, none of them of an active holder.
LEMMA CancelUpdateStep ==
    ASSUME SInv, NEW h \in Holders, CancelUpdate(h)
    PROVE  SInv'
<1>1. CASE Retry(h, "cancelling")
  BY <1>1, RetryStep, Zenon
<1>2. CASE ~Retry(h, "cancelling")
  <2>1. /\ pc[h] = "removing" /\ pc'[h] = "finished"
        /\ lease' = [lease EXCEPT ![h] = None]
        /\ fresh' = [g \in Holders |-> FALSE]
        /\ \A g \in Holders \ {h} : pc'[g] = pc[g] /\ kept'[g] = kept[g]
        /\ UNCHANGED <<left, deleted, attempts, next, local, sinceTick>>
    BY <1>2, Zenon DEF CancelUpdate, Goto, times, SInv, CallOK
  <2>2. CallOK'
    <3>1. pc' \in [Holders -> PCs] /\ kept' \in [Holders -> SUBSET Holders]
      BY <1>2, Zenon DEF CancelUpdate, Goto, PCs, SInv, CallOK
    <3>2. fresh' \in [Holders -> BOOLEAN] /\ attempts' \in [Holders -> 0..leaseRetryAttempts]
      BY <2>1, Zenon DEF SInv, CallOK
    <3> QED BY <3>1, <3>2 DEF CallOK
  <2>3. ItemOK'
    <3>1. lease' \in [Holders -> {None} \cup 0..Expiry]
      BY <2>1, Zenon DEF SInv, ItemOK
    <3>2. ItemCovers'
      BY <2>1, Zenon DEF SInv, ItemOK, ItemCovers
    <3> QED BY <2>1, <3>1, <3>2, Zenon DEF SInv, ItemOK
  <2>4. ASSUME NEW g \in Holders PROVE Timing(g)' /\ Backed(g)' /\ Counted(g)'
    <3>1. CASE g = h
      BY <2>1, <3>1, SMT DEF Timing, Backed, Counted, Acquiring, Active
    <3>2. CASE g # h
      <4>1. lease'[g] = lease[g] /\ ~fresh'[g]
        BY <2>1, <3>2, Zenon DEF SInv, ItemOK
      <4> QED BY <2>1, <3>2, <4>1, Zenon DEF SInv, Timing, Backed, Counted, Acquiring, Active
    <3> QED BY <3>1, <3>2
  <2>5. LeasesBounded'
    <3>1. Unexpired' \subseteq Unexpired
      BY <2>1, SMT DEF SInv, ItemOK, Unexpired, None
    <3>2. Unexpired \in SUBSET Holders /\ Unexpired' \in SUBSET Holders
      BY Zenon DEF Unexpired
    <3>3. /\ Cardinality(Unexpired') <= Cardinality(Unexpired)
          /\ Cardinality(Unexpired') \in Nat /\ Cardinality(Unexpired) \in Nat
      BY <3>1, <3>2, Sizes
    <3> QED BY <3>3, SemaphoresAssumption, SMT DEF SInv, LeasesBounded
  <2> QED BY <2>1, <2>2, <2>3, <2>4, <2>5, Zenon DEF SInv, TimesOK
<1> QED BY <1>1, <1>2

\* DeleteSemaphore leaves no lease.
LEMMA DeleteStep ==
    ASSUME SInv, DeleteSemaphore
    PROVE  SInv'
<1>1. /\ left' = 0 /\ lease' = [h \in Holders |-> None] /\ deleted' = TRUE
      /\ fresh' = [h \in Holders |-> FALSE]
      /\ UNCHANGED <<kept, attempts, next, local, sinceTick, pc>>
  BY Zenon DEF DeleteSemaphore, times
<1>2. ItemOK'
  <2>1. left' \in 0..Expiry /\ lease' \in [Holders -> {None} \cup 0..Expiry] /\ ItemCovers'
    BY <1>1, SemaphoresAssumption, SMT DEF ItemCovers
  <2> QED BY <1>1, <2>1, Zenon DEF ItemOK
<1>3. CallOK' /\ TimesOK'
  BY <1>1, Zenon DEF SInv, CallOK, TimesOK
<1>4. ASSUME NEW g \in Holders PROVE Timing(g)' /\ Backed(g)' /\ Counted(g)'
  BY <1>1, Zenon DEF SInv, Timing, Backed, Counted, Acquiring, Active
<1>5. LeasesBounded'
  <2>1. Unexpired' = {}
    BY <1>1, SMT DEF Unexpired, None
  <2> QED BY <2>1, FS_EmptySet, SemaphoresAssumption, SMT DEF LeasesBounded
<1> QED BY <1>2, <1>3, <1>4, <1>5 DEF SInv

\* Time passes, for the lease in the backend as for its holder.
LEMMA TickStep ==
    ASSUME SInv, Tick
    PROVE  SInv'
<1>1. /\ left' = Less(left)
      /\ lease' = [h \in Holders |-> IF left <= 1 THEN None ELSE Less(lease[h])]
      /\ next' = [h \in Holders |->
                    IF Acquiring(h) \/ pc[h] \in {"renewing", "extending"} THEN Less(next[h])
                    ELSE next[h]]
      /\ local' = [h \in Holders |-> Less(local[h])]
      /\ sinceTick' = [h \in Holders |-> IF Active(h) THEN sinceTick[h] + 1 ELSE 0]
      /\ UNCHANGED <<pc, kept, attempts, deleted>>
      /\ fresh' = [h \in Holders |-> left > 1 /\ fresh[h]]
      /\ \A h \in Holders : InTime(h)
  BY Zenon DEF Tick
<1>2. ASSUME NEW h \in Holders
      PROVE  /\ left \in 0..Expiry /\ lease[h] \in {None} \cup 0..Expiry
             /\ next[h] \in 0..Expiry /\ local[h] \in 0..Expiry
             /\ sinceTick[h] \in 0..Expiry
             /\ lease[h] # None => lease[h] <= left /\ left > 0
             /\ Expiry \in Nat /\ TickRate \in Nat \ {0} /\ AcquireTime \in Nat
             /\ AcquireTime + TickRate < Expiry
  BY SemaphoresAssumption, SMT DEF SInv, ItemOK, ItemCovers, TimesOK
<1>3. ASSUME NEW h \in Holders
      PROVE  /\ lease'[h] \in {None} \cup 0..Expiry
             /\ lease'[h] # None => lease'[h] <= left' /\ left' > 0
             /\ lease'[h] > 0 => lease[h] > 0
  BY <1>1, <1>2, SMT DEF Less, None
<1>4. ItemOK'
  <2>1. left \in 0..Expiry /\ Expiry \in Nat
    BY SemaphoresAssumption DEF SInv, ItemOK
  <2>2. left' \in 0..Expiry
    BY <1>1, <2>1, SMT DEF Less
  <2>3. lease' \in [Holders -> {None} \cup 0..Expiry]
    BY <1>1, <1>3, Zenon
  <2>4. ItemCovers'
    BY <1>3, Zenon DEF ItemCovers
  <2>5. deleted' \in BOOLEAN
    BY <1>1, Zenon DEF SInv, ItemOK
  <2> QED BY <2>2, <2>3, <2>4, <2>5 DEF ItemOK
<1>5. ASSUME NEW h \in Holders
      PROVE  /\ Timing(h)' /\ next'[h] \in 0..Expiry /\ local'[h] \in 0..Expiry
             /\ sinceTick'[h] \in 0..Expiry
  <2>1. InTime(h) /\ Timing(h)
    BY <1>1 DEF SInv
  <2>2. /\ next'[h] = IF Acquiring(h) \/ pc[h] \in {"renewing", "extending"}
                      THEN Less(next[h]) ELSE next[h]
        /\ local'[h] = Less(local[h])
        /\ sinceTick'[h] = IF Active(h) THEN sinceTick[h] + 1 ELSE 0
        /\ pc'[h] = pc[h]
    BY <1>1, Zenon
  <2> QED BY <1>2, <2>1, <2>2, SMT DEF Timing, InTime, Acquiring, Active, Less
<1>6. TimesOK'
  BY <1>1, <1>5, Zenon DEF TimesOK
<1>7. CallOK'
  <2>1. fresh' \in [Holders -> BOOLEAN]
    BY <1>1, Zenon
  <2> QED BY <1>1, <2>1, Zenon DEF SInv, CallOK
<1>8. ASSUME NEW h \in Holders PROVE Backed(h)'
  <2>1. SUFFICES ASSUME ~deleted, Active(h), local'[h] > 0 PROVE lease'[h] >= local'[h]
    BY <1>1, Zenon DEF Backed, Active
  <2>2. local[h] > 0 => lease[h] >= local[h]
    BY <2>1, Zenon DEF SInv, Backed
  <2> QED BY <1>1, <1>2, <2>1, <2>2, SMT DEF Less, None
<1>9. Unexpired' \subseteq Unexpired
  BY <1>3, Zenon DEF Unexpired
<1>10. ASSUME NEW h \in Holders PROVE Counted(h)'
  <2>1. fresh'[h] => fresh[h]
    BY <1>1, Zenon
  <2> QED BY <1>1, <1>9, <2>1, Zenon DEF SInv, Counted
<1>11. LeasesBounded'
  <2>1. Unexpired \in SUBSET Holders /\ Unexpired' \in SUBSET Holders
    BY Zenon DEF Unexpired
  <2>2. /\ Cardinality(Unexpired') <= Cardinality(Unexpired)
        /\ Cardinality(Unexpired') \in Nat /\ Cardinality(Unexpired) \in Nat
    BY <1>9, <2>1, Sizes
  <2> QED BY <2>2, SemaphoresAssumption, SMT DEF SInv, LeasesBounded
<1> QED BY <1>4, <1>5, <1>6, <1>7, <1>8, <1>10, <1>11 DEF SInv

\* Every step preserves the invariant.
LEMMA SNext == SInv /\ [Next]_vars => SInv'
<1> SUFFICES ASSUME SInv, [Next]_vars PROVE SInv' OBVIOUS
<1>1. ASSUME NEW h \in Holders, Step(h) PROVE SInv'
  BY <1>1, StartStep, AcquireGetStep, AcquireUpdateStep, AcquireCreateStep, RenewGetStep,
     RenewUpdateStep, TickerStep, FinishStep, CancelUpdateStep, Zenon DEF Step
<1>2. CASE UNCHANGED vars
  BY <1>2, Zenon DEF SInv, ItemOK, ItemCovers, CallOK, TimesOK, Timing, Backed, Counted,
     LeasesBounded, Unexpired, Acquiring, Active, vars, item, call, times
<1> QED BY <1>1, <1>2, TickStep, DeleteStep, Zenon DEF Next

-----------------------------------------------------------------------------

\* The invariant holds in every reachable state.
LEMMA SAlways == Spec => []SInv
BY SInit, SNext, PTL DEF Spec

\* The state stays typed, and the item in the backend outlives every lease in it.
THEOREM SemaphoreTypes == Spec => []TypeOK
<1>1. SInv => TypeOK
  BY Zenon DEF SInv, ItemOK, CallOK, TimesOK, PCs, TypeOK
<1> QED BY <1>1, SAlways, PTL

\* Unless an administrator deletes the semaphore, a lock whose lease has time left has it
\* in the backend.
THEOREM LeaseIsThere == Spec => []HolderHasLease
<1>1. SInv => HolderHasLease
  BY SMT DEF SInv, ItemOK, TimesOK, Backed, HolderHasLease, None
<1> QED BY <1>1, SAlways, PTL

\* However many compete, at most MaxLeases locks are held at a time.
THEOREM SemaphoreBounded == Spec => []HoldersBounded
<1>1. SInv => HoldersBounded
  <2> SUFFICES ASSUME SInv, ~deleted
               PROVE  Cardinality({h \in Holders : Active(h) /\ local[h] > 0}) <= MaxLeases
    BY DEF HoldersBounded
  <2> DEFINE S == {h \in Holders : Active(h) /\ local[h] > 0}
  <2>1. S \subseteq Unexpired
    BY SMT DEF SInv, ItemOK, TimesOK, Backed, Unexpired, None
  <2>2. Unexpired \in SUBSET Holders /\ S \in SUBSET Holders
    BY Zenon DEF Unexpired
  <2> HIDE DEF S
  <2>3. /\ Cardinality(S) <= Cardinality(Unexpired)
        /\ Cardinality(S) \in Nat /\ Cardinality(Unexpired) \in Nat
    BY <2>1, <2>2, Sizes
  <2>4. Cardinality(S) <= MaxLeases
    BY <2>3, SemaphoresAssumption, SMT DEF SInv, LeasesBounded
  <2> QED BY <2>4 DEF S
<1> QED BY <1>1, SAlways, PTL

=============================================================================
