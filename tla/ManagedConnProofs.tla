-------------------------- MODULE ManagedConnProofs --------------------------
(***************************************************************************)
(* The deadlines, the buffers and the condition variable of managedConn,   *)
(* for any number of goroutines that set deadlines and buffers of any      *)
(* size.  The argument has three parts:                                    *)
(*   - deadlines (DInv): as long as the connection is open, a timer that   *)
(*     is neither running nor marked as stopped has its function under     *)
(*     way, and nobody touches the timer until that function has marked it;*)
(*   - buffers (BInv): the byte at position i is in slot i % cap, and what *)
(*     a transport fills without the mutex are the slots after the window; *)
(*   - waiters (WInv): whoever waits has nothing to do.                    *)
(***************************************************************************)
EXTENDS ManagedConn, TLAPS, WellFoundedInduction

\* A deadline and its timer's function agree.
Agree(k) ==
    /\ Deadline(k) \in TimerState /\ callbacks[k] \in {0, 1}
    /\ callbacks[k] = 1 =>
         Deadline(k).timer = "idle" /\ ~Deadline(k).stopped /\ due[k]
    /\ Deadline(k).timer # "idle" => ~Deadline(k).stopped
    /\ Deadline(k).timeout => due[k]
    /\ ~localClosed /\ Deadline(k).timer = "idle" /\ ~Deadline(k).stopped
         => callbacks[k] = 1

\* Whoever waits will be woken by a timer's function.
Awaited(s) ==
    /\ setter[s].kinds \subseteq Kinds /\ setter[s].time \in Times
    /\ setter[s].at = "wait" /\ ~localClosed => \E k \in setter[s].kinds : callbacks[k] = 1

DInv ==
    /\ DOMAIN callbacks = Kinds /\ DOMAIN due = Kinds /\ DOMAIN setter = Setters
    /\ \A k \in Kinds : Agree(k)
    /\ \A s \in Setters : Awaited(s)

-----------------------------------------------------------------------------

\* The initial states satisfy the invariant.
LEMMA DInit == Init => DInv
<1> SUFFICES ASSUME Init PROVE DInv OBVIOUS
<1>1. ASSUME NEW k \in Kinds PROVE Agree(k)
  <2>1. Deadline(k) = Unset /\ callbacks[k] = 0
    BY Zenon DEF Init, Deadline
  <2>2. Unset \in TimerState /\ Unset.timer = "nil" /\ ~Unset.timeout /\ ~Unset.stopped
    BY SMT DEF Unset, TimerState
  <2> QED BY <2>1, <2>2, SMT DEF Agree
<1>2. ASSUME NEW s \in Setters PROVE Awaited(s)
  <2>1. setter[s] = Returned
    BY Zenon DEF Init
  <2>2. Returned.kinds = {} /\ Returned.at # "wait" /\ Returned.time \in Times
    BY SMT DEF Returned, Times
  <2> QED BY <2>1, <2>2, Zenon DEF Awaited
<1> QED BY <1>1, <1>2, Zenon DEF DInv, Init

\* A Broadcast leaves nobody waiting, and changes nothing else of a call.
LEMMA Awake ==
    ASSUME NEW s \in Setters
    PROVE  /\ SettersAwake[s].at # "wait"
           /\ SettersAwake[s].kinds = setter[s].kinds /\ SettersAwake[s].time = setter[s].time
<1>1. CASE setter[s].at = "wait"
  <2>1. SettersAwake[s] = [setter[s] EXCEPT !.at = "woken"]
    BY <1>1, Zenon DEF SettersAwake
  <2> QED BY <2>1, SMT
<1>2. CASE setter[s].at # "wait"
  BY <1>2, Zenon DEF SettersAwake
<1> QED BY <1>1, <1>2

\* What leaves the deadlines alone, and wakes the setters or does not.
LEMMA FrameStep ==
    ASSUME DInv, UNCHANGED <<deadlines, localClosed>>, setter' = setter \/ setter' = SettersAwake
    PROVE  DInv'
<1>1. ASSUME NEW k \in Kinds PROVE Agree(k)'
  BY Zenon DEF DInv, Agree, Deadline, deadlines
<1>2. ASSUME NEW s \in Setters PROVE Awaited(s)'
  BY Awake, Zenon DEF DInv, Awaited, deadlines
<1>3. DOMAIN setter' = Setters
  BY Zenon DEF DInv, SettersAwake
<1> QED BY <1>1, <1>2, <1>3, Zenon DEF DInv, deadlines

\* The fields of a deadline.
LEMMA Fields ==
    ASSUME NEW x \in {"nil", "armed", "idle"}, NEW y \in BOOLEAN, NEW z \in BOOLEAN
    PROVE  LET r == [timer |-> x, timeout |-> y, stopped |-> z]
           IN  r \in TimerState /\ r.timer = x /\ r.timeout = y /\ r.stopped = z
BY SMT DEF TimerState

\* What setDeadlineLocked leaves in a deadline.
LEMMA SetToFields ==
    ASSUME NEW d \in TimerState, NEW t \in Times
    PROVE  LET e == SetTo(d, t)
           IN  /\ e \in TimerState
               /\ e.timer # "idle" => ~e.stopped
               /\ e.timer = "idle" => e.stopped
               /\ e.timeout => t = "past"
<1>1. CASE t = "future"
  BY <1>1, SMT DEF SetTo, TimerState
<1>2. CASE t # "future"
  <2> DEFINE x == IF d.timer = "nil" THEN "nil" ELSE "idle"
             y == t = "past"
             z == d.timer # "nil"
  <2>1. /\ x \in {"nil", "armed", "idle"} /\ y \in BOOLEAN /\ z \in BOOLEAN
        /\ (x = "idle" <=> z) /\ (y <=> t = "past")
    BY SMT
  <2>2. SetTo(d, t) = [timer |-> x, timeout |-> y, stopped |-> z]
    BY <1>2, Zenon DEF SetTo
  <2> HIDE DEF x, y, z
  <2>3. LET r == [timer |-> x, timeout |-> y, stopped |-> z]
        IN  r \in TimerState /\ r.timer = x /\ r.timeout = y /\ r.stopped = z
    BY <2>1, Fields
  <2> QED BY <2>1, <2>2, <2>3, Zenon
<1> QED BY <1>1, <1>2

\* A call sets what it can, and waits for a timer's function if something is left.
LEMMA SetStep ==
    ASSUME DInv, NEW s \in Setters, NEW kinds \in SUBSET Kinds, NEW t \in Times,
           SetBody(s, kinds, t)
    PROVE  DInv'
<1> DEFINE now == SetNow(kinds)
<1>1. PICK time \in [Kinds -> Times] :
        /\ readDeadline' = IF "read" \in now THEN SetTo(readDeadline, time["read"])
                           ELSE readDeadline
        /\ writeDeadline' = IF "write" \in now THEN SetTo(writeDeadline, time["write"])
                            ELSE writeDeadline
        /\ due' = [k \in Kinds |-> IF k \in now THEN time[k] = "past" ELSE due[k]]
        /\ LET awake == \E k \in now : time[k] = "past"
           IN  setter' = [(IF awake THEN SettersAwake ELSE setter) EXCEPT
                    ![s] = IF now = kinds THEN Returned
                           ELSE [at |-> "wait", kinds |-> kinds \ now, time |-> t]]
        /\ UNCHANGED <<callbacks, localClosed>>
  BY Zenon DEF SetBody, closedVars
<1>2. now \subseteq kinds /\ \A k \in now : ~MustWait(k)
  BY Zenon DEF SetNow
<1>3. now # kinds => \E k \in kinds \ now : MustWait(k)
  BY Zenon DEF SetNow
<1> HIDE DEF now
<1>4. ASSUME NEW k \in Kinds PROVE Agree(k)'
  <2>1. Deadline(k)' = IF k \in now THEN SetTo(Deadline(k), time[k]) ELSE Deadline(k)
    BY <1>1, SMT DEF Deadline, Kinds
  <2>2. due'[k] = IF k \in now THEN time[k] = "past" ELSE due[k]
    BY <1>1, Zenon
  <2>3. CASE k \in now
    <3>1. callbacks[k] = 0
      BY <1>2, <2>3, Zenon DEF DInv, Agree, MustWait
    <3>2. Deadline(k) \in TimerState /\ time[k] \in Times
      BY <1>1, Zenon DEF DInv, Agree
    <3> DEFINE e == SetTo(Deadline(k), time[k])
    <3>3. /\ e \in TimerState
          /\ e.timer # "idle" => ~e.stopped
          /\ e.timer = "idle" => e.stopped
          /\ e.timeout => time[k] = "past"
      BY <3>2, SetToFields, Zenon
    <3>4. Deadline(k)' = e /\ (due'[k] <=> time[k] = "past")
      BY <2>1, <2>2, <2>3, Zenon
    <3>5. callbacks'[k] \in {0, 1} /\ callbacks'[k] # 1
      BY <1>1, <3>1, SMT
    <3> HIDE DEF e
    <3> QED BY <3>3, <3>4, <3>5, Zenon DEF Agree
  <2>4. CASE k \notin now
    <3>1. Deadline(k)' = Deadline(k) /\ due'[k] = due[k]
      BY <2>1, <2>2, <2>4, Zenon
    <3> QED BY <1>1, <3>1, Zenon DEF DInv, Agree
  <2> QED BY <2>3, <2>4
<1>5. ASSUME NEW g \in Setters PROVE Awaited(g)'
  <2>1. CASE g = s
    <3>1. setter'[s] = IF now = kinds THEN Returned
                       ELSE [at |-> "wait", kinds |-> kinds \ now, time |-> t]
      BY <1>1, Zenon DEF DInv, SettersAwake
    <3>2. CASE now = kinds
      <4>1. /\ setter'[s] = Returned /\ Returned.kinds = {}
            /\ Returned.at # "wait" /\ Returned.time \in Times
        BY <3>1, <3>2, SMT DEF Returned, Times
      <4> QED BY <2>1, <4>1, Zenon DEF Awaited
    <3>3. CASE now # kinds
      <4>1. setter'[s].kinds = kinds \ now /\ setter'[s].time = t
        BY <3>1, <3>3, SMT
      <4>2. ~localClosed => \E k \in kinds \ now : callbacks[k] = 1
        BY <1>3, <3>3, Zenon DEF DInv, Agree, MustWait
      <4> QED BY <1>1, <2>1, <4>1, <4>2, Zenon DEF Awaited
    <3> QED BY <3>2, <3>3
  <2>2. CASE g # s
    <3>1. setter'[g] = setter[g] \/ setter'[g] = SettersAwake[g]
      BY <1>1, <2>2, Zenon DEF DInv, SettersAwake
    <3> QED BY <1>1, <3>1, Awake, Zenon DEF DInv, Awaited
  <2> QED BY <2>1, <2>2
<1>6. DOMAIN callbacks' = Kinds /\ DOMAIN due' = Kinds /\ DOMAIN setter' = Setters
  BY <1>1, Zenon DEF DInv, SettersAwake
<1> QED BY <1>4, <1>5, <1>6 DEF DInv

\* A timer fires: its function is under way, and nobody has one already.
LEMMA FireStep ==
    ASSUME DInv, NEW k \in Kinds, Fire(k)
    PROVE  DInv'
<1>1. /\ Deadline(k).timer = "armed"
      /\ callbacks' = [callbacks EXCEPT ![k] = @ + 1] /\ due' = [due EXCEPT ![k] = TRUE]
      /\ UNCHANGED <<setter, localClosed>>
  BY Zenon DEF Fire, waiters, closedVars
<1>2. /\ Deadline(k)' = [Deadline(k) EXCEPT !.timer = "idle"]
      /\ \A j \in Kinds \ {k} : Deadline(j)' = Deadline(j)
  <2>1. CASE k = "read"
    BY <2>1, Zenon DEF Fire, Deadline, Kinds
  <2>2. CASE k = "write"
    BY <2>2, Zenon DEF Fire, Deadline, Kinds
  <2> QED BY <2>1, <2>2, Zenon DEF Kinds
<1>3. callbacks[k] = 0 /\ Deadline(k) \in TimerState /\ ~Deadline(k).stopped
  BY <1>1, Zenon DEF DInv, Agree
<1>4. /\ callbacks'[k] = 1 /\ due'[k] = TRUE
      /\ \A j \in Kinds \ {k} : callbacks'[j] = callbacks[j] /\ due'[j] = due[j]
      /\ DOMAIN callbacks' = Kinds /\ DOMAIN due' = Kinds
  BY <1>1, <1>3, SMT DEF DInv
<1>5. ASSUME NEW j \in Kinds PROVE Agree(j)'
  <2>1. CASE j = k
    <3> DEFINE d == Deadline(k)
    <3>1. LET e == [d EXCEPT !.timer = "idle"]
          IN  e \in TimerState /\ e.timer = "idle" /\ e.stopped = d.stopped
      BY <1>3, SMT DEF TimerState
    <3> QED BY <1>2, <1>3, <1>4, <2>1, <3>1, Zenon DEF Agree
  <2>2. CASE j # k
    <3>1. Deadline(j)' = Deadline(j) /\ callbacks'[j] = callbacks[j] /\ due'[j] = due[j]
      BY <1>2, <1>4, <2>2, Zenon
    <3> QED BY <1>1, <3>1, Zenon DEF DInv, Agree
  <2> QED BY <2>1, <2>2
<1>6. ASSUME NEW s \in Setters PROVE Awaited(s)'
  <2>1. \A j \in Kinds : callbacks[j] = 1 => callbacks'[j] = 1
    BY <1>4, Zenon
  <2> QED BY <1>1, <2>1, Zenon DEF DInv, Awaited
<1> QED BY <1>1, <1>4, <1>5, <1>6, Zenon DEF DInv

\* The function of a timer marks it, and wakes whoever waits for that.
LEMMA CallbackStep ==
    ASSUME DInv, NEW k \in Kinds, Callback(k)
    PROVE  DInv'
<1>1. /\ callbacks[k] > 0 /\ callbacks' = [callbacks EXCEPT ![k] = @ - 1]
      /\ setter' = SettersAwake /\ UNCHANGED <<localClosed, due>>
  BY Zenon DEF Callback, Broadcast, closedVars
<1>2. /\ Deadline(k)' = TimedOut(Deadline(k))
      /\ \A j \in Kinds \ {k} : Deadline(j)' = Deadline(j)
  BY SMT DEF Callback, Deadline, Kinds
<1>3. callbacks[k] = 1 /\ Deadline(k) \in TimerState
  BY <1>1, SMT DEF DInv, Agree
<1>4. Deadline(k).timer = "idle" /\ due[k]
  BY <1>3, Zenon DEF DInv, Agree
<1>5. /\ callbacks'[k] = 0
      /\ \A j \in Kinds \ {k} : callbacks'[j] = callbacks[j]
      /\ DOMAIN callbacks' = Kinds
  BY <1>1, <1>3, SMT DEF DInv
<1>6. ASSUME NEW j \in Kinds PROVE Agree(j)'
  <2>1. CASE j = k
    <3> DEFINE e == TimedOut(Deadline(k))
    <3>1. e \in TimerState /\ e.timer = "idle" /\ e.stopped
      <4>1. e = [timer |-> "idle", timeout |-> TRUE, stopped |-> TRUE]
        BY <1>4, Zenon DEF TimedOut
      <4> HIDE DEF e
      <4> QED BY <4>1, SMT DEF TimerState
    <3>2. callbacks'[k] \in {0, 1} /\ callbacks'[k] # 1
      BY <1>5, SMT
    <3> HIDE DEF e
    <3>3. Deadline(k)' = e
      BY <1>2 DEF e
    <3> QED BY <1>1, <1>4, <2>1, <3>1, <3>2, <3>3, Zenon DEF Agree
  <2>2. CASE j # k
    <3>1. Deadline(j)' = Deadline(j) /\ callbacks'[j] = callbacks[j]
      BY <1>2, <1>5, <2>2, Zenon
    <3> QED BY <1>1, <3>1, Zenon DEF DInv, Agree
  <2> QED BY <2>1, <2>2
<1>7. ASSUME NEW s \in Setters PROVE Awaited(s)'
  BY <1>1, Awake, Zenon DEF DInv, Awaited
<1>8. DOMAIN setter' = Setters
  BY <1>1, Zenon DEF SettersAwake
<1> QED BY <1>1, <1>5, <1>6, <1>7, <1>8, Zenon DEF DInv

\* Close stops the timers.
LEMMA CloseStep ==
    ASSUME DInv, Close
    PROVE  DInv'
<1>1. /\ localClosed' = TRUE /\ UNCHANGED <<callbacks, due>> /\ setter' = SettersAwake
      /\ \A k \in Kinds : Deadline(k)' = StopTimer(Deadline(k))
  BY SMT DEF Close, Broadcast, Deadline
<1>2. ASSUME NEW k \in Kinds PROVE Agree(k)'
  <2> DEFINE e == StopTimer(Deadline(k))
  <2>1. Deadline(k) \in TimerState
    BY Zenon DEF DInv, Agree
  <2>2. CASE Deadline(k).timer = "armed"
    <3>1. callbacks[k] # 1 /\ ~Deadline(k).stopped
      BY <2>2, Zenon DEF DInv, Agree
    <3>2. /\ e \in TimerState /\ e.timer = "idle" /\ e.timeout = Deadline(k).timeout
      BY <2>1, <2>2, SMT DEF StopTimer, TimerState
    <3> HIDE DEF e
    <3>3. Deadline(k)' = e
      BY <1>1 DEF e
    <3> QED BY <1>1, <3>1, <3>2, <3>3, Zenon DEF DInv, Agree
  <2>3. CASE Deadline(k).timer # "armed"
    <3>1. Deadline(k)' = Deadline(k)
      BY <1>1, <2>3, Zenon DEF StopTimer
    <3> QED BY <1>1, <3>1, Zenon DEF DInv, Agree
  <2> QED BY <2>2, <2>3
<1>3. ASSUME NEW s \in Setters PROVE Awaited(s)'
  BY <1>1, Awake, Zenon DEF DInv, Awaited
<1>4. DOMAIN setter' = Setters
  BY <1>1, Zenon DEF SettersAwake
<1> QED BY <1>1, <1>2, <1>3, <1>4, Zenon DEF DInv

\* Every step keeps the invariant.
LEMMA DNext == DInv /\ [Next]_vars => DInv'
<1> SUFFICES ASSUME DInv, [Next]_vars PROVE DInv' OBVIOUS
<1> USE DEF closedVars, waiters, Broadcast
<1>1. ASSUME NEW c \in Calls, SetDeadline(c[1], c[2], c[3]) PROVE DInv'
  <2>1. c[1] \in Setters /\ c[2] \in SUBSET Kinds /\ c[3] \in Times
    BY ManagedConnAssumption, SMT DEF Times, Kinds
  <2>2. SetBody(c[1], c[2], c[3])
    BY <1>1, Zenon DEF SetDeadline
  <2> QED BY <2>1, <2>2, SetStep, Zenon
<1>2. ASSUME NEW s \in Setters, SetDeadlineAgain(s) PROVE DInv'
  <2>1. setter[s].kinds \in SUBSET Kinds /\ setter[s].time \in Times
    BY Zenon DEF DInv, Awaited
  <2>2. SetBody(s, setter[s].kinds, setter[s].time)
    BY <1>2, Zenon DEF SetDeadlineAgain
  <2> QED BY <2>1, <2>2, SetStep, Zenon
<1>3. CASE Read
  BY <1>3, FrameStep, Zenon DEF Read, ReadTurn
<1>4. CASE ReadAgain
  BY <1>4, FrameStep, Zenon DEF ReadAgain, ReadTurn
<1>5. ASSUME NEW n \in 1..SendBytes, Write(n) PROVE DInv'
  BY <1>5, FrameStep, Zenon DEF Write, WriteTurn
<1>6. CASE WriteAgain
  BY <1>6, FrameStep, Zenon DEF WriteAgain, WriteTurn
<1>7. ASSUME NEW n \in 1..ReceiveBytes, TakeTail(n) PROVE DInv'
  BY <1>7, FrameStep, Zenon DEF TakeTail
<1>8. CASE Arrive
  BY <1>8, FrameStep, Zenon DEF Arrive
<1>9. CASE AppendTail
  BY <1>9, FrameStep, Zenon DEF AppendTail
<1>10. CASE RemoteClose
  BY <1>10, FrameStep, Zenon DEF RemoteClose
<1>11. ASSUME NEW n \in 1..len(sendBuffer), Acknowledged(n) PROVE DInv'
  BY <1>11, FrameStep, Zenon DEF Acknowledged
<1>12. CASE UNCHANGED vars
  BY <1>12, FrameStep, Zenon DEF vars
<1> QED
  BY <1>1, <1>2, <1>3, <1>4, <1>5, <1>6, <1>7, <1>8, <1>9, <1>10, <1>11, <1>12,
     CloseStep, FireStep, CallbackStep, Zenon DEF Next, Application, Run, Timer

-----------------------------------------------------------------------------

\* For any number of setters: an operation times out only when the deadline in force has
\* been reached.  A function that was already running when setDeadlineLocked stopped its
\* timer never times out the deadline that is set next.
THEOREM TimeoutIsDue == Spec => []TimeoutOnlyWhenDue
<1>1. DInv => TimeoutOnlyWhenDue
  BY Zenon DEF DInv, Agree, TimeoutOnlyWhenDue
<1> QED BY <1>1, DInit, DNext, PTL DEF Spec

\* For any number of setters: while the connection is open, a goroutine that waits in
\* setDeadlineLocked waits for a timer's function that has started and that will wake it.
THEOREM SetterAwaits == Spec => []WaitsForCallback
<1>1. DInv => WaitsForCallback
  <2> SUFFICES ASSUME DInv, NEW s \in Setters, setter[s].at = "wait", ~localClosed
               PROVE  \E k \in setter[s].kinds : callbacks[k] > 0
    BY Zenon DEF WaitsForCallback
  <2>1. PICK k \in setter[s].kinds : callbacks[k] = 1
    BY Zenon DEF DInv, Awaited
  <2>2. callbacks[k] > 0
    BY <2>1, SMT
  <2> QED BY <2>2
<1> QED BY <1>1, DInit, DNext, PTL DEF Spec

-----------------------------------------------------------------------------
(* Induction, for the size of the array *)

\* Every nonempty set of natural numbers has a least element.
LEMMA LeastNat ==
    ASSUME NEW T \in SUBSET Nat, T # {}
    PROVE  \E x \in T : \A y \in T : x <= y
<1> DEFINE R == OpToRel(<, Nat)
<1>1. IsWellFoundedOn(R, Nat)
  BY NatLessThanWellFounded
<1>2. \A y, x \in Nat : y < x => <<y, x>> \in R
  BY DEF OpToRel
<1> HIDE DEF R
<1>3. PICK x \in T : \A y \in T : ~(<<y, x>> \in R)
  BY <1>1, WFMin
<1>4. ASSUME NEW y \in T PROVE x <= y
  <2>1. ~(y < x)
    BY <1>2, <1>3
  <2>2. x \in Nat /\ y \in Nat
    OBVIOUS
  <2> QED BY <2>1, <2>2
<1> QED BY <1>4

\* Induction, with the set of the numbers that have the property.
LEMMA Induction ==
    ASSUME NEW G \in SUBSET Nat, 0 \in G, \A n \in G : n + 1 \in G
    PROVE  G = Nat
<1> DEFINE T == Nat \ G
<1>1. SUFFICES ASSUME T # {} PROVE FALSE
  OBVIOUS
<1>2. PICK x \in T : \A y \in T : x <= y
  BY <1>1, LeastNat
<1>3. x \in Nat /\ x # 0 /\ x - 1 \in Nat
  BY <1>2
<1>4. CASE x - 1 \in G
  BY <1>3, <1>4
<1>5. CASE x - 1 \notin G
  BY <1>2, <1>3, <1>5
<1> QED BY <1>4, <1>5

\* A table of the powers of two up to n.
Powers(g, n) == g \in [0..n -> Nat] /\ \A k \in 0..n : g[k] = IF k = 0 THEN 1 ELSE 2 * g[k - 1]

LEMMA PowersExist == ASSUME NEW n \in Nat PROVE \E g : Powers(g, n)
<1> DEFINE G == {m \in Nat : \E g : Powers(g, m)}
<1>1. 0 \in G
  <2>1. Powers([k \in 0..0 |-> 1], 0)
    BY DEF Powers
  <2> QED BY <2>1
<1>2. ASSUME NEW m \in G PROVE m + 1 \in G
  <2>1. PICK g : Powers(g, m)
    OBVIOUS
  <2> DEFINE h == [k \in 0..(m + 1) |-> IF k = m + 1 THEN 2 * g[m] ELSE g[k]]
  <2>2. h \in [0..(m + 1) -> Nat]
    BY <2>1 DEF Powers
  <2>3. ASSUME NEW k \in 0..(m + 1) PROVE h[k] = IF k = 0 THEN 1 ELSE 2 * h[k - 1]
    BY <2>1 DEF Powers
  <2>4. Powers(h, m + 1)
    BY <2>2, <2>3, Zenon DEF Powers
  <2> HIDE DEF h
  <2> QED BY <2>4
<1> HIDE DEF G
<1>3. G = Nat
  <2>1. G \in SUBSET Nat BY DEF G
  <2> QED BY <1>1, <1>2, <2>1, Induction
<1> QED BY <1>3 DEF G

LEMMA PowersAgree ==
    ASSUME NEW g, NEW h, NEW n \in Nat, NEW m \in Nat, n <= m, Powers(g, n), Powers(h, m)
    PROVE  \A k \in 0..n : g[k] = h[k]
<1> DEFINE G == {k \in Nat : k <= n => g[k] = h[k]}
<1>1. 0 \in G
  BY DEF Powers
<1>2. ASSUME NEW k \in G PROVE k + 1 \in G
  <2>1. SUFFICES ASSUME k + 1 <= n PROVE g[k + 1] = h[k + 1]
    OBVIOUS
  <2>2. k \in Nat /\ k + 1 \in 0..n /\ k + 1 \in 0..m /\ k + 1 # 0 /\ (k + 1) - 1 = k
    BY <2>1
  <2>3. g[k] = h[k]
    BY <2>1, <2>2
  <2>4. g[k + 1] = 2 * g[k] /\ h[k + 1] = 2 * h[k]
    BY <2>2 DEF Powers
  <2> QED BY <2>3, <2>4
<1> HIDE DEF G
<1>3. G = Nat
  <2>1. G \in SUBSET Nat BY DEF G
  <2> QED BY <1>1, <1>2, <2>1, Induction
<1> QED BY <1>3 DEF G

\* The recursive definition of Power defines a function.
LEMMA PowerDef ==
    /\ Power \in [Nat -> Nat]
    /\ \A k \in Nat : Power[k] = IF k = 0 THEN 1 ELSE 2 * Power[k - 1]
<1> DEFINE T(n) == CHOOSE g : Powers(g, n)
           F == [n \in Nat |-> T(n)[n]]
<1>1. \A n \in Nat : Powers(T(n), n)
  BY PowersExist
<1> HIDE DEF T
<1>2. F \in [Nat -> Nat]
  BY <1>1 DEF Powers
<1>3. ASSUME NEW k \in Nat PROVE F[k] = IF k = 0 THEN 1 ELSE 2 * F[k - 1]
  <2>1. CASE k = 0
    BY <1>1, <2>1 DEF Powers
  <2>2. CASE k # 0
    <3>1. k - 1 \in Nat /\ k - 1 <= k /\ Powers(T(k - 1), k - 1) /\ Powers(T(k), k)
      BY <1>1, <2>2
    <3>2. T(k - 1)[k - 1] = T(k)[k - 1]
      BY <3>1, PowersAgree
    <3>3. T(k)[k] = 2 * T(k)[k - 1]
      BY <3>1, <2>2 DEF Powers
    <3> QED BY <2>2, <3>1, <3>2, <3>3
  <2> QED BY <2>1, <2>2
<1>4. F = [k \in Nat |-> IF k = 0 THEN 1 ELSE 2 * F[k - 1]]
  BY <1>2, <1>3
<1> HIDE DEF F
<1>5. Power = [k \in Nat |-> IF k = 0 THEN 1 ELSE 2 * Power[k - 1]]
  <2>1. Power = CHOOSE f : f = [k \in Nat |-> IF k = 0 THEN 1 ELSE 2 * f[k - 1]]
    BY DEF Power
  <2> QED BY <1>4, <2>1
<1>6. ASSUME NEW k \in Nat PROVE Power[k] = IF k = 0 THEN 1 ELSE 2 * Power[k - 1]
  BY <1>5
<1>7. \A k \in Nat : Power[k] \in Nat
  <2> DEFINE G == {k \in Nat : Power[k] \in Nat}
  <2>1. 0 \in G
    BY <1>6
  <2>2. ASSUME NEW k \in G PROVE k + 1 \in G
    BY <1>6
  <2> HIDE DEF G
  <2>3. G \in SUBSET Nat
    BY DEF G
  <2>4. G = Nat
    BY <2>1, <2>2, <2>3, Induction
  <2> QED BY <2>4 DEF G
<1> QED BY <1>5, <1>6, <1>7

LEMMA PowerGrows == \A k \in Nat : Power[k] > k
<1> DEFINE G == {k \in Nat : Power[k] > k}
<1>1. 0 \in G
  BY PowerDef
<1>2. ASSUME NEW k \in G PROVE k + 1 \in G
  BY PowerDef
<1> HIDE DEF G
<1>3. G \in SUBSET Nat
  BY DEF G
<1>4. G = Nat
  BY <1>1, <1>2, <1>3, Induction
<1> QED BY <1>4 DEF G

\* The loop of reserve ends, with enough room.
LEMMA DoubledFits ==
    ASSUME NEW base \in Nat \ {0}, NEW n \in Nat
    PROVE  Doubled(base, n) \in Nat /\ Doubled(base, n) >= n
<1> DEFINE sizes == {base * Power[k] : k \in 0..n}
           T == {c \in sizes : c >= n}
<1>1. sizes \subseteq Nat
  BY PowerDef
<1>2. base * Power[n] \in sizes
  BY PowerDef
<1>3. base * Power[n] >= n
  <2>1. Power[n] \in Nat /\ Power[n] > n
    BY PowerDef, PowerGrows
  <2>2. \A p \in Nat : base * p >= p
    OBVIOUS
  <2> QED BY <2>1, <2>2
<1> HIDE DEF sizes
<1>4. T \in SUBSET Nat /\ T # {}
  BY <1>1, <1>2, <1>3
<1>5. PICK c \in T : \A d \in T : c <= d
  BY <1>4, LeastNat
<1>6. c \in sizes /\ c >= n /\ \A d \in sizes : d >= n => c <= d
  BY <1>5
<1>7. Doubled(base, n) \in sizes /\ Doubled(base, n) >= n
  BY <1>6 DEF Doubled, sizes
<1> QED BY <1>1, <1>7

-----------------------------------------------------------------------------
(* Slots *)

\* Division with a remainder.
LEMMA DivMod ==
    ASSUME NEW a \in Nat, NEW c \in Nat \ {0}
    PROVE  a % c \in 0..(c - 1) /\ a \div c \in Nat /\ a = c * (a \div c) + (a % c)
OBVIOUS

\* The remainder is unique.
LEMMA RemainderUnique ==
    ASSUME NEW c \in Nat \ {0}, NEW p \in Int, NEW q \in Int, NEW r \in 0..(c - 1),
           NEW t \in 0..(c - 1), c * p + r = c * q + t
    PROVE  r = t
<1>1. CASE p = q
  BY <1>1
<1>2. CASE p > q
  <2>1. c * (p - q) >= c
    <3>1. \A d \in Nat \ {0} : c * d >= c
      OBVIOUS
    <3> QED BY <1>2, <3>1
  <2>2. c * (p - q) = c * p - c * q
    OBVIOUS
  <2> QED BY <2>1, <2>2
<1>3. CASE q > p
  <2>1. c * (q - p) >= c
    <3>1. \A d \in Nat \ {0} : c * d >= c
      OBVIOUS
    <3> QED BY <1>3, <3>1
  <2>2. c * (q - p) = c * q - c * p
    OBVIOUS
  <2> QED BY <2>1, <2>2
<1> QED BY <1>1, <1>2, <1>3

\* The slot that is d after the slot of a.
LEMMA SlotAfter ==
    ASSUME NEW a \in Nat, NEW c \in Nat \ {0}, NEW d \in 0..c
    PROVE  (a + d) % c = IF (a % c) + d < c THEN (a % c) + d ELSE (a % c) + d - c
<1> DEFINE p == a \div c
           q == (a + d) \div c
           r == (a + d) % c
           x == a % c
<1>1. x \in 0..(c - 1) /\ p \in Nat /\ a = c * p + x
  BY DivMod
<1>2. r \in 0..(c - 1) /\ q \in Nat /\ a + d = c * q + r
  <2>1. a + d \in Nat
    OBVIOUS
  <2> QED BY <2>1, DivMod, Zenon
<1> HIDE DEF p, q, r, x
<1>3. CASE x + d < c
  <2>1. x + d \in 0..(c - 1) /\ c * p + (x + d) = c * q + r
    BY <1>1, <1>2, <1>3
  <2>2. x + d = r
    BY <1>1, <1>2, <2>1, RemainderUnique
  <2> QED BY <1>3, <2>2 DEF x, r
<1>4. CASE ~(x + d < c)
  <2>1. x + d - c \in 0..(c - 1)
    BY <1>1, <1>4
  <2>2. c * (p + 1) = c * p + c
    BY <1>1
  <2>3. c * (p + 1) + (x + d - c) = c * q + r
    BY <1>1, <1>2, <2>2
  <2> DEFINE y == x + d - c
             s == p + 1
  <2>4. y \in 0..(c - 1) /\ s \in Int /\ c * s + y = c * q + r
    BY <1>1, <2>1, <2>3
  <2> HIDE DEF y, s
  <2>5. y = r
    <3>1. q \in Int
      BY <1>2
    <3> QED BY <1>2, <2>4, <3>1, RemainderUnique, Zenon
  <2> QED BY <1>4, <2>5 DEF x, y, r
<1> QED BY <1>3, <1>4

\* Two positions that are less than cap apart are in different slots.
LEMMA SlotsDiffer ==
    ASSUME NEW c \in Nat \ {0}, NEW i \in Nat, NEW j \in Nat, i < j, j < i + c
    PROVE  i % c # j % c
<1> DEFINE d == j - i
<1>1. d \in 0..c /\ d > 0 /\ d < c /\ i + d = j
  OBVIOUS
<1> HIDE DEF d
<1>2. (i + d) % c = IF (i % c) + d < c THEN (i % c) + d ELSE (i % c) + d - c
  BY <1>1, SlotAfter
<1>3. i % c \in 0..(c - 1)
  BY DivMod
<1> QED BY <1>1, <1>2, <1>3

\* A buffer whose window fits its array.
Ring(w) ==
    /\ w = [cap |-> w.cap, data |-> w.data, start |-> w.start, end |-> w.end]
    /\ w.cap \in Nat /\ w.start \in Nat /\ w.end \in Nat
    /\ w.start <= w.end /\ w.end <= w.start + w.cap
    /\ w.data = [s \in 0..(w.cap - 1) |-> w.data[s]]

\* A slice of the array.
LEMMA SlotsAre ==
    ASSUME NEW l \in Nat, NEW r \in Nat, l <= r
    PROVE  /\ Slots(l, r) \in Seq(Nat) /\ Len(Slots(l, r)) = r - l
           /\ \A i \in 1..(r - l) : Slots(l, r)[i] = l + i - 1
<1>1. r - l \in Nat
  OBVIOUS
<1>2. \A i \in 1..(r - l) : l + i - 1 \in Nat
  OBVIOUS
<1> QED BY <1>1, <1>2 DEF Slots

\* Two slices, one after the other.
LEMMA Joined ==
    ASSUME NEW s \in Seq(Nat), NEW t \in Seq(Nat)
    PROVE  /\ s \o t \in Seq(Nat) /\ Len(s \o t) = Len(s) + Len(t)
           /\ \A i \in 1..Len(s \o t) :
                (s \o t)[i] = IF i <= Len(s) THEN s[i] ELSE t[i - Len(s)]
OBVIOUS

\* The slots that a slice or two from the slot of position a hold the next n positions.
SlotsFrom(s, a, n, c) ==
    s \in Seq(Nat) /\ Len(s) = n /\ \A i \in 1..n : s[i] = (a + i - 1) % c

LEMMA OneSlice ==
    ASSUME NEW a \in Nat, NEW c \in Nat \ {0}, NEW r \in 0..c, a % c <= r
    PROVE  SlotsFrom(Slots(a % c, r), a, r - (a % c), c)
<1> DEFINE l == a % c
<1>1. l \in Nat /\ l < c /\ r \in Nat /\ l <= r
  BY DivMod
<1>2. /\ Slots(l, r) \in Seq(Nat) /\ Len(Slots(l, r)) = r - l
      /\ \A i \in 1..(r - l) : Slots(l, r)[i] = l + i - 1
  BY <1>1, SlotsAre, Zenon
<1>3. ASSUME NEW i \in 1..(r - l) PROVE (a + i - 1) % c = l + i - 1
  <2>1. i - 1 \in 0..c /\ a + (i - 1) = a + i - 1 /\ l + (i - 1) < c
    BY <1>1
  <2>2. (a + (i - 1)) % c = l + (i - 1)
    BY <2>1, SlotAfter
  <2> QED BY <1>1, <2>1, <2>2
<1> HIDE DEF l
<1>4. SlotsFrom(Slots(l, r), a, r - l, c)
  BY <1>2, <1>3 DEF SlotsFrom
<1> QED BY <1>4 DEF l

LEMMA TwoSlices ==
    ASSUME NEW a \in Nat, NEW c \in Nat \ {0}, NEW r \in Nat, r <= a % c
    PROVE  SlotsFrom(Slots(a % c, c) \o Slots(0, r), a, (c - (a % c)) + r, c)
<1> DEFINE l == a % c
           s == Slots(l, c)
           t == Slots(0, r)
<1>1. l \in Nat /\ l < c /\ l <= c /\ c \in Nat /\ r <= l
  BY DivMod
<1>2. s \in Seq(Nat) /\ Len(s) = c - l /\ \A i \in 1..(c - l) : s[i] = l + i - 1
  BY <1>1, SlotsAre, Zenon
<1>3. t \in Seq(Nat) /\ Len(t) = r /\ \A i \in 1..r : t[i] = i - 1
  BY SlotsAre
<1> HIDE DEF s, t
<1>4. /\ s \o t \in Seq(Nat) /\ Len(s \o t) = Len(s) + Len(t)
      /\ \A i \in 1..Len(s \o t) :
           (s \o t)[i] = IF i <= Len(s) THEN s[i] ELSE t[i - Len(s)]
  BY <1>2, <1>3, Joined
<1>5. ASSUME NEW i \in 1..((c - l) + r) PROVE (s \o t)[i] = (a + i - 1) % c
  <2>1. i - 1 \in 0..c /\ a + (i - 1) = a + i - 1
    BY <1>1
  <2>2. (a + (i - 1)) % c = IF l + (i - 1) < c THEN l + (i - 1) ELSE l + (i - 1) - c
    BY <2>1, SlotAfter
  <2> HIDE DEF l
  <2>3. i \in 1..Len(s \o t)
    BY <1>1, <1>2, <1>3, <1>4
  <2>4. CASE i <= c - l
    <3>1. l + (i - 1) < c /\ l + (i - 1) = l + i - 1 /\ i \in 1..(c - l)
      BY <1>1, <2>4
    <3> QED BY <1>2, <1>4, <2>1, <2>2, <2>3, <2>4, <3>1
  <2>5. CASE ~(i <= c - l)
    <3>1. ~(l + (i - 1) < c) /\ l + (i - 1) - c = (i - (c - l)) - 1 /\ i - (c - l) \in 1..r
      BY <1>1, <2>5
    <3> QED BY <1>2, <1>3, <1>4, <2>1, <2>2, <2>3, <2>5, <3>1
  <2> QED BY <2>4, <2>5
<1> HIDE DEF l
<1>6. SlotsFrom(s \o t, a, (c - l) + r, c)
  BY <1>1, <1>2, <1>3, <1>4, <1>5 DEF SlotsFrom
<1> QED BY <1>6 DEF l, s, t

\* Where a window of at most cap positions ends.
LEMMA Ends ==
    ASSUME NEW w, Ring(w), w.cap # 0
    PROVE  LET l == w.start % w.cap
               r == w.end % w.cap
               n == len(w)
           IN  /\ l \in 0..(w.cap - 1) /\ r \in 0..(w.cap - 1)
               /\ r = IF l + n < w.cap THEN l + n ELSE l + n - w.cap
<1>1. /\ w.cap \in Nat \ {0} /\ w.start \in Nat /\ w.end \in Nat
      /\ len(w) \in 0..w.cap /\ w.start + len(w) = w.end
  BY DEF Ring, len
<1>2. (w.start + len(w)) % w.cap =
        IF (w.start % w.cap) + len(w) < w.cap THEN (w.start % w.cap) + len(w)
        ELSE (w.start % w.cap) + len(w) - w.cap
  BY <1>1, SlotAfter, Zenon
<1>3. w.start % w.cap \in 0..(w.cap - 1) /\ w.end % w.cap \in 0..(w.cap - 1)
  BY <1>1, DivMod, Zenon
<1> QED BY <1>1, <1>2, <1>3, Zenon

\* The used slots hold the window, in order.
LEMMA BufferedFrom ==
    ASSUME NEW w, Ring(w)
    PROVE  SlotsFrom(buffered(w), w.start, len(w), w.cap)
<1>1. len(w) \in Nat /\ len(w) <= w.cap /\ w.cap \in Nat /\ w.start \in Nat
  BY DEF Ring, len
<1>2. CASE len(w) = 0
  BY <1>2 DEF buffered, SlotsFrom
<1>3. CASE len(w) # 0
  <2> DEFINE l == w.start % w.cap
             r == w.end % w.cap
  <2>1. w.cap \in Nat \ {0} /\ w.cap # 0
    BY <1>1, <1>3
  <2>2. /\ l \in 0..(w.cap - 1) /\ r \in 0..(w.cap - 1)
        /\ r = IF l + len(w) < w.cap THEN l + len(w) ELSE l + len(w) - w.cap
    BY <2>1, Ends, Zenon
  <2>3. buffered(w) = IF l >= r THEN Slots(l, w.cap) \o Slots(0, r) ELSE Slots(l, r)
    BY <1>3, Zenon DEF buffered
  <2>4. CASE l >= r
    <3>1. SlotsFrom(Slots(l, w.cap) \o Slots(0, r), w.start, (w.cap - l) + r, w.cap)
      <4>1. r \in Nat /\ r <= l
        BY <2>2, <2>4
      <4> QED BY <1>1, <2>1, <4>1, TwoSlices, Zenon
    <3> HIDE DEF l, r
    <3>2. (w.cap - l) + r = len(w)
      BY <1>1, <1>3, <2>2, <2>4
    <3> QED BY <2>3, <2>4, <3>1, <3>2
  <2>5. CASE ~(l >= r)
    <3>1. SlotsFrom(Slots(l, r), w.start, r - l, w.cap)
      <4>1. r \in 0..w.cap /\ l <= r
        <5> HIDE DEF l, r
        <5> QED BY <1>1, <2>2, <2>5
      <4> QED BY <1>1, <2>1, <4>1, OneSlice, Zenon
    <3> HIDE DEF l, r
    <3>2. r - l = len(w)
      BY <1>1, <1>3, <2>2, <2>5
    <3> QED BY <2>3, <2>5, <3>1, <3>2
  <2> QED BY <2>4, <2>5
<1> QED BY <1>2, <1>3

\* The free slots are those of the next positions, in order.
LEMMA FreeFrom ==
    ASSUME NEW w, Ring(w), w.cap # 0
    PROVE  /\ SlotsFrom(free1(w) \o free2(w), w.end, w.cap - len(w), w.cap)
           /\ SlotsFrom(free1(w), w.end, Len(free1(w)), w.cap)
           /\ Len(free1(w)) <= w.cap - len(w)
<1> DEFINE l == w.start % w.cap
           r == w.end % w.cap
<1>1. /\ len(w) \in Nat /\ len(w) <= w.cap /\ w.cap \in Nat \ {0} /\ w.cap \in Nat
      /\ w.end \in Nat /\ w.cap \in 0..w.cap
  BY DEF Ring, len
<1>2. /\ l \in 0..(w.cap - 1) /\ r \in 0..(w.cap - 1)
      /\ r = IF l + len(w) < w.cap THEN l + len(w) ELSE l + len(w) - w.cap
  BY Ends, Zenon
<1>3. CASE len(w) > 0 /\ l >= r
  <2>1. free1(w) = Slots(r, l) /\ free2(w) = <<>>
    BY <1>1, <1>3 DEF free1, free2
  <2>2. SlotsFrom(Slots(r, l), w.end, l - r, w.cap)
    <3>1. l \in 0..w.cap /\ r <= l
      <4> HIDE DEF l, r
      <4> QED BY <1>1, <1>2, <1>3
    <3> QED BY <1>1, <3>1, OneSlice, Zenon
  <2> HIDE DEF l, r
  <2>3. l - r = w.cap - len(w)
    BY <1>1, <1>2, <1>3
  <2>4. Slots(r, l) \o <<>> = Slots(r, l)
    BY <2>2 DEF SlotsFrom
  <2>5. Len(Slots(r, l)) = w.cap - len(w) /\ w.cap - len(w) <= w.cap - len(w)
    BY <1>1, <2>2, <2>3 DEF SlotsFrom
  <2> QED BY <2>1, <2>2, <2>3, <2>4, <2>5, Zenon
<1>4. CASE ~(len(w) > 0 /\ l >= r)
  <2>1. free1(w) = Slots(r, w.cap) /\ free2(w) = Slots(0, l) /\ l <= r
    <3>1. CASE len(w) = 0
      <4>1. l = r
        <5>1. w.start = w.end
          BY <3>1 DEF Ring, len
        <5> QED BY <5>1
      <4> QED BY <1>1, <1>2, <1>4, <3>1, <4>1 DEF free1, free2
    <3>2. CASE len(w) # 0
      <4>1. len(w) > 0 /\ ~(l >= r)
        BY <1>1, <1>4, <3>2
      <4> QED BY <1>2, <3>2, <4>1 DEF free1, free2
    <3> QED BY <3>1, <3>2
  <2>2. SlotsFrom(Slots(r, w.cap) \o Slots(0, l), w.end, (w.cap - r) + l, w.cap)
    <3>1. l \in Nat /\ l <= r
      BY <1>2, <2>1
    <3> QED BY <1>1, <3>1, TwoSlices, Zenon
  <2>3. SlotsFrom(Slots(r, w.cap), w.end, w.cap - r, w.cap)
    <3>1. r <= w.cap
      BY <1>1, <1>2
    <3> QED BY <1>1, <3>1, OneSlice, Zenon
  <2> HIDE DEF l, r
  <2>4. (w.cap - r) + l = w.cap - len(w)
    BY <1>1, <1>2, <1>4, <2>1
  <2>5. Len(Slots(r, w.cap)) = w.cap - r /\ w.cap - r <= w.cap - len(w)
    BY <1>1, <1>2, <2>1, <2>3, <2>4 DEF SlotsFrom
  <2> QED BY <2>1, <2>2, <2>3, <2>4, <2>5
<1> QED BY <1>3, <1>4

-----------------------------------------------------------------------------
(* The operations of the buffer *)

\* The array holds the bytes of the window, each in its slot.
Holds(w) == \A i \in w.start..(w.end - 1) : w.data[i % w.cap] = i

\* The next bytes of the stream after position a.
NextIn(b, a) == b = [i \in 1..Len(b) |-> b[i]] /\ Len(b) \in Nat /\ \A i \in 1..Len(b) : b[i] = a + i - 1

\* What fits is written where it belongs, and nothing else is touched.
LEMMA PutStep ==
    ASSUME NEW w, Ring(w), Holds(w), w.cap # 0,
           NEW b, NextIn(b, w.end), Len(b) <= w.cap - len(w)
    PROVE  /\ Ring(Put(w, b)) /\ Holds(Put(w, b))
           /\ Put(w, b).start = w.start /\ Put(w, b).end = w.end + Len(b)
           /\ Put(w, b).cap = w.cap
<1> DEFINE free == free1(w) \o free2(w)
           n == Len(b)
           D == [s \in DOMAIN w.data |->
                   IF \E i \in 1..n : free[i] = s THEN b[CHOOSE i \in 1..n : free[i] = s]
                   ELSE w.data[s]]
           v == Put(w, b)
<1>1. /\ w.cap \in Nat \ {0} /\ w.start \in Nat /\ w.end \in Nat /\ n \in Nat
      /\ w.start <= w.end /\ w.end + n <= w.start + w.cap
  BY DEF Ring, len, NextIn
<1>2. \A i \in 1..n : free[i] = (w.end + i - 1) % w.cap
  <2>1. SlotsFrom(free, w.end, w.cap - len(w), w.cap)
    BY FreeFrom, Zenon
  <2>2. n <= w.cap - len(w)
    OBVIOUS
  <2>3. w.cap - len(w) \in Int
    BY DEF Ring, len
  <2>4. \A i \in 1..n : i \in 1..(w.cap - len(w))
    BY <1>1, <2>2, <2>3
  <2> HIDE DEF free, n
  <2> QED BY <2>1, <2>4 DEF SlotsFrom
<1>3. DOMAIN w.data = 0..(w.cap - 1)
  BY DEF Ring
<1>4. /\ v.data = D /\ v.end = w.end + n /\ v.start = w.start /\ v.cap = w.cap
      /\ v = [cap |-> v.cap, data |-> v.data, start |-> v.start, end |-> v.end]
  <2>1. v = [w EXCEPT !.data = D, !.end = w.end + n]
    BY Zenon DEF Put
  <2> HIDE DEF v, D, n
  <2>2. w = [cap |-> w.cap, data |-> w.data, start |-> w.start, end |-> w.end]
    BY DEF Ring
  <2>3. v = [cap |-> w.cap, data |-> D, start |-> w.start, end |-> w.end + n]
    BY <2>1, <2>2
  <2> QED BY <2>3
<1> HIDE DEF free, v, D
<1>5. ASSUME NEW i \in 1..n, NEW j \in 1..n, free[i] = free[j] PROVE i = j
  <2> DEFINE p == w.end + i - 1
             q == w.end + j - 1
  <2>1. p \in Nat /\ q \in Nat /\ (p = q => i = j)
        /\ (p < q => q < p + w.cap) /\ (q < p => p < q + w.cap)
    <3> HIDE DEF n
    <3>1. w.cap \in Nat /\ w.end \in Nat /\ n \in Nat /\ n <= w.cap
      BY <1>1
    <3> QED BY <3>1
  <2>2. p % w.cap = q % w.cap
    BY <1>2, <1>5
  <2> HIDE DEF p, q
  <2>3. ~(p < q) /\ ~(q < p)
    BY <1>1, <2>1, <2>2, SlotsDiffer, Zenon
  <2> QED BY <2>1, <2>3
<1>6. ASSUME NEW i \in 1..n PROVE v.data[(w.end + i - 1) % w.cap] = w.end + i - 1
  <2> DEFINE s == free[i]
  <2>1. w.end + i - 1 \in Nat /\ s = (w.end + i - 1) % w.cap
    BY <1>1, <1>2
  <2>2. s \in DOMAIN w.data
    BY <1>1, <1>3, <2>1, DivMod, Zenon
  <2>3. (CHOOSE j \in 1..n : free[j] = s) = i
    BY <1>5
  <2>4. D[s] = b[i]
    BY <2>2, <2>3 DEF D
  <2> QED BY <1>4, <2>1, <2>4 DEF NextIn
<1>7. ASSUME NEW p \in w.start..(w.end - 1) PROVE v.data[p % w.cap] = p
  <2>1. p \in Nat
    BY <1>1
  <2>2. p % w.cap \in DOMAIN w.data
    BY <1>1, <1>3, <2>1, DivMod, Zenon
  <2>3. ASSUME NEW i \in 1..n PROVE free[i] # p % w.cap
    <3> DEFINE q == w.end + i - 1
    <3>1. q \in Nat /\ p < q /\ q < p + w.cap
      BY <1>1, SMTT(30)
    <3>2. free[i] = q % w.cap
      BY <1>2
    <3> HIDE DEF q
    <3> QED BY <1>1, <2>1, <3>1, <3>2, SlotsDiffer, Zenon
  <2>4. D[p % w.cap] = w.data[p % w.cap]
    BY <2>2, <2>3 DEF D
  <2> QED BY <1>4, <2>4 DEF Holds
<1>8. Holds(v)
  <2> SUFFICES ASSUME NEW p \in v.start..(v.end - 1) PROVE v.data[p % v.cap] = p
    BY DEF Holds
  <2>1. p \in Nat /\ p \in w.start..(w.end + n - 1)
    BY <1>1, <1>4
  <2>2. CASE p < w.end
    BY <1>1, <1>4, <1>7, <2>1, <2>2
  <2>3. CASE ~(p < w.end)
    <3>1. p - w.end + 1 \in 1..n /\ w.end + (p - w.end + 1) - 1 = p
      BY <1>1, <2>1, <2>3
    <3> QED BY <1>4, <1>6, <3>1
  <2> QED BY <2>2, <2>3
<1>9. Ring(v)
  <2>1. D = [s \in 0..(w.cap - 1) |-> D[s]]
    BY <1>3 DEF D
  <2>2. w.end + n \in Nat /\ w.start <= w.end + n
    BY <1>1
  <2> QED BY <1>1, <1>4, <2>1, <2>2 DEF Ring
<1> QED BY <1>4, <1>8, <1>9 DEF v

\* The window read out of the array is the stream, from start to end.
LEMMA BytesInOrder ==
    ASSUME NEW w, Ring(w), Holds(w)
    PROVE  /\ Bytes(w, buffered(w)) = [i \in 1..len(w) |-> w.start + i - 1]
           /\ NextIn(Bytes(w, buffered(w)), w.start) /\ Len(Bytes(w, buffered(w))) = len(w)
<1> DEFINE b == Bytes(w, buffered(w))
<1>1. len(w) \in Nat /\ w.start \in Nat /\ w.end = w.start + len(w)
  BY DEF Ring, len
<1>2. /\ Len(buffered(w)) = len(w)
      /\ \A i \in 1..len(w) : buffered(w)[i] = (w.start + i - 1) % w.cap
  BY BufferedFrom DEF SlotsFrom
<1>3. b = [i \in 1..len(w) |-> w.data[buffered(w)[i]]]
  BY <1>2 DEF Bytes
<1>4. ASSUME NEW i \in 1..len(w) PROVE w.data[buffered(w)[i]] = w.start + i - 1
  <2>1. w.start + i - 1 \in w.start..(w.end - 1)
    BY <1>1
  <2> QED BY <1>2, <2>1 DEF Holds
<1>5. b = [i \in 1..len(w) |-> w.start + i - 1]
  BY <1>3, <1>4
<1> HIDE DEF b
<1>6. Len(b) = len(w) /\ \A i \in 1..len(w) : b[i] = w.start + i - 1
  BY <1>1, <1>5
<1>7. NextIn(b, w.start)
  BY <1>1, <1>5, <1>6 DEF NextIn
<1> QED BY <1>5, <1>6, <1>7 DEF b

\* What an operation keeps of a buffer that it does not read or write.
SameWindow(v, w) == v.start = w.start /\ v.end = w.end

\* There is room afterwards, and the window is what it was.
LEMMA ReserveStep ==
    ASSUME initialBufferSize \in Nat \ {0}, NEW w, Ring(w), Holds(w), NEW n \in Nat
    PROVE  /\ Ring(reserve(w, n)) /\ Holds(reserve(w, n)) /\ SameWindow(reserve(w, n), w)
           /\ n + len(w) <= reserve(w, n).cap
           /\ n + len(w) <= w.cap => reserve(w, n) = w
<1> DEFINE need == n + len(w)
           base == IF 2 * w.cap > initialBufferSize THEN 2 * w.cap ELSE initialBufferSize
           cap == Doubled(base, need)
           v == [cap |-> cap, data |-> [s \in 0..(cap - 1) |-> Zero],
                 start |-> w.start, end |-> w.start]
           b == Bytes(w, buffered(w))
<1>1. /\ len(w) \in Nat /\ need \in Nat /\ w.cap \in Nat /\ w.start \in Nat
      /\ w.end = w.start + len(w)
  BY DEF Ring, len
<1>2. reserve(w, n) = IF need <= w.cap THEN w ELSE Put(v, b)
  BY Zenon DEF reserve
<1>3. CASE need <= w.cap
  BY <1>2, <1>3 DEF SameWindow
<1>4. CASE ~(need <= w.cap)
  <2>1. base \in Nat \ {0}
    BY <1>1
  <2>2. cap \in Nat /\ cap >= need
    BY <1>1, <2>1, DoubledFits, Zenon
  <2> HIDE DEF cap, base
  <2>3. cap # 0 /\ len(w) <= cap
    BY <1>1, <1>4, <2>2
  <2>4. v.cap = cap /\ v.start = w.start /\ v.end = w.start /\ Ring(v) /\ len(v) = 0
    <3>1. v.cap = cap /\ v.start = w.start /\ v.end = w.start
          /\ v.data = [s \in 0..(cap - 1) |-> Zero]
      OBVIOUS
    <3>2. v = [cap |-> v.cap, data |-> v.data, start |-> v.start, end |-> v.end]
      OBVIOUS
    <3> HIDE DEF v
    <3>3. v.data = [s \in 0..(v.cap - 1) |-> v.data[s]]
      BY <3>1
    <3> QED BY <1>1, <2>2, <3>1, <3>2, <3>3 DEF Ring, len
  <2>5. Holds(v)
    <3> HIDE DEF v
    <3> QED BY <1>1, <2>4 DEF Holds
  <2>6. NextIn(b, v.end) /\ Len(b) = len(w)
    BY <2>4, BytesInOrder, Zenon
  <2> HIDE DEF v, b
  <2>7. v.cap # 0 /\ Len(b) <= v.cap - len(v)
    BY <1>1, <2>2, <2>3, <2>4, <2>6
  <2>8. /\ Ring(Put(v, b)) /\ Holds(Put(v, b))
        /\ Put(v, b).start = v.start /\ Put(v, b).end = v.end + Len(b)
        /\ Put(v, b).cap = v.cap
    BY <2>4, <2>5, <2>6, <2>7, PutStep, Zenon
  <2> QED BY <1>1, <1>2, <1>4, <2>2, <2>4, <2>6, <2>8 DEF SameWindow
<1> QED BY <1>3, <1>4

\* The bytes that follow are appended.
LEMMA AppendStep ==
    ASSUME initialBufferSize \in Nat \ {0}, NEW w, Ring(w), Holds(w),
           NEW b, NextIn(b, w.end), Len(b) # 0
    PROVE  LET v == append(w, b)
           IN  Ring(v) /\ Holds(v) /\ v.start = w.start /\ v.end = w.end + Len(b)
<1> DEFINE v == reserve(w, Len(b))
<1>1. Len(b) \in Nat
  BY DEF NextIn
<1>2. Ring(v) /\ Holds(v) /\ SameWindow(v, w) /\ Len(b) + len(w) <= v.cap
  BY <1>1, ReserveStep, Zenon
<1>3. append(w, b) = Put(v, b)
  BY DEF append
<1> HIDE DEF v
<1>4. v.cap # 0 /\ Len(b) <= v.cap - len(v) /\ NextIn(b, v.end)
  BY <1>1, <1>2 DEF Ring, len, SameWindow
<1>5. /\ Ring(Put(v, b)) /\ Holds(Put(v, b))
      /\ Put(v, b).start = v.start /\ Put(v, b).end = v.end + Len(b)
  BY <1>2, <1>4, PutStep, Zenon
<1> QED BY <1>2, <1>3, <1>5 DEF SameWindow

\* Bytes at the start of the window are given up.
LEMMA AdvanceStep ==
    ASSUME NEW w, Ring(w), Holds(w), NEW n \in 1..len(w)
    PROVE  LET v == advance(w, n)
           IN  /\ Ring(v) /\ Holds(v) /\ v.start = w.start + n /\ v.end = w.end
               /\ v.cap = w.cap /\ v.data = w.data
<1> DEFINE v == advance(w, n)
<1>1. /\ w.start \in Nat /\ w.end \in Nat /\ w.cap \in Nat /\ n \in Nat
      /\ w.start + n <= w.end /\ w.end <= w.start + w.cap
      /\ w = [cap |-> w.cap, data |-> w.data, start |-> w.start, end |-> w.end]
  BY DEF Ring, len
<1>2. v = [w EXCEPT !.start = w.start + n, !.end = w.end]
  <2>1. ~(w.start + n > w.end)
    BY <1>1
  <2> QED BY <2>1, Zenon DEF advance
<1> HIDE DEF v
<1>3. v = [cap |-> w.cap, data |-> w.data, start |-> w.start + n, end |-> w.end]
  BY <1>1, <1>2
<1>4. v.start = w.start + n /\ v.end = w.end /\ v.cap = w.cap /\ v.data = w.data
  BY <1>3
<1>5. Ring(v)
  BY <1>1, <1>3, <1>4 DEF Ring
<1>6. Holds(v)
  <2>1. \A p \in v.start..(v.end - 1) : p \in w.start..(w.end - 1)
    BY <1>1, <1>4
  <2> QED BY <1>4, <2>1 DEF Holds
<1> QED BY <1>4, <1>5, <1>6 DEF v

-----------------------------------------------------------------------------
(* The buffers of a connection *)

\* The slice that a transport fills is the start of the free part of the receive buffer,
\* and what it has filled are the next bytes of the stream.
TailAt ==
    /\ SlotsFrom(tail, receiveBuffer.end, Len(tail), receiveBuffer.cap)
    /\ Len(tail) <= receiveBuffer.cap - len(receiveBuffer)
    /\ filled \in 0..Len(tail)
    /\ \A i \in 1..filled : receiveBuffer.data[tail[i]] = receiveBuffer.end + i - 1

BInv ==
    /\ Ring(receiveBuffer) /\ Holds(receiveBuffer) /\ Ring(sendBuffer) /\ Holds(sendBuffer)
    /\ TailAt

\* A connection starts with two buffers without an array.
LEMMA BInit == Init => BInv
<1> SUFFICES ASSUME Init PROVE BInv
  OBVIOUS
<1>1. receiveBuffer = Empty /\ sendBuffer = Empty /\ tail = <<>> /\ filled = 0
  BY DEF Init
<1>2. /\ Empty.cap = 0 /\ Empty.start = 0 /\ Empty.end = 0 /\ Empty.data = <<>>
      /\ Empty = [cap |-> 0, data |-> <<>>, start |-> 0, end |-> 0]
  BY DEF Empty
<1>3. Ring(Empty) /\ Holds(Empty)
  <2>1. <<>> = [s \in 0..(0 - 1) |-> (<<>>)[s]]
    OBVIOUS
  <2> QED BY <1>2, <2>1 DEF Ring, Holds
<1>4. TailAt
  BY <1>1, <1>2 DEF TailAt, SlotsFrom, len
<1> QED BY <1>1, <1>3, <1>4 DEF BInv

\* Read takes bytes from the start of the receive buffer.
LEMMA BRead ==
    ASSUME BInv, NEW n \in 1..len(receiveBuffer), receiveBuffer' = advance(receiveBuffer, n),
           UNCHANGED <<sendBuffer, transport>>
    PROVE  BInv'
<1> DEFINE v == advance(receiveBuffer, n)
<1>1. /\ Ring(v) /\ Holds(v) /\ v.start = receiveBuffer.start + n /\ v.end = receiveBuffer.end
      /\ v.cap = receiveBuffer.cap /\ v.data = receiveBuffer.data
  BY AdvanceStep, Zenon DEF BInv
<1> HIDE DEF v
<1>2. receiveBuffer' = v /\ UNCHANGED <<sendBuffer, tail, filled>>
  BY DEF v, transport
<1>3. Len(tail) <= v.cap - len(v)
  <2>1. receiveBuffer.start \in Nat /\ receiveBuffer.end \in Nat /\ receiveBuffer.cap \in Nat
    BY DEF BInv, Ring
  <2>2. Len(tail) \in Nat /\ Len(tail) <= receiveBuffer.cap - len(receiveBuffer)
    BY DEF BInv, TailAt, SlotsFrom
  <2> QED BY <1>1, <2>1, <2>2 DEF len
<1>4. TailAt'
  BY <1>1, <1>2, <1>3, Zenon DEF BInv, TailAt
<1> QED BY <1>1, <1>2, <1>4, Zenon DEF BInv

\* How much of a Write fits.
LEMMA Writable ==
    ASSUME Ring(sendBuffer), NEW left \in Nat
    PROVE  LET n == writable(sendBuffer, left, sendBufferSize)
           IN  /\ n \in 0..left
               /\ n # left => len(sendBuffer) + n >= sendBufferSize
<1>1. len(sendBuffer) \in Nat /\ sendBufferSize \in Nat
  BY ManagedConnAssumption DEF Ring, len
<1> QED BY <1>1 DEF writable

\* Write appends the next bytes of the stream.
LEMMA BWrite ==
    ASSUME BInv, NEW left \in Nat, WriteTurn(left), UNCHANGED <<receiveBuffer, transport>>
    PROVE  /\ BInv'
           /\ len(sendBuffer)' = len(sendBuffer) + writable(sendBuffer, left, sendBufferSize)
<1> DEFINE n == writable(sendBuffer, left, sendBufferSize)
           b == NextBytes(sendBuffer, n)
<1>1. n \in Nat /\ Ring(sendBuffer) /\ Holds(sendBuffer)
  BY Writable DEF BInv
<1>2. sendBuffer' = IF n = 0 THEN sendBuffer ELSE append(sendBuffer, b)
  BY Zenon DEF WriteTurn
<1>3. UNCHANGED <<receiveBuffer, tail, filled>>
  BY DEF transport
<1> HIDE DEF n
<1>4. /\ Ring(sendBuffer') /\ Holds(sendBuffer')
      /\ sendBuffer'.start = sendBuffer.start /\ sendBuffer'.end = sendBuffer.end + n
  <2>1. CASE n = 0
    BY <1>1, <1>2, <2>1 DEF Ring
  <2>2. CASE n # 0
    <3>1. Len(b) = n /\ NextIn(b, sendBuffer.end)
      BY <1>1 DEF NextBytes, NextIn
    <3> HIDE DEF b
    <3>2. initialBufferSize \in Nat \ {0}
      BY ManagedConnAssumption
    <3> QED BY <1>1, <1>2, <2>2, <3>1, <3>2, AppendStep, Zenon
  <2> QED BY <2>1, <2>2
<1>5. BInv'
  BY <1>3, <1>4, Zenon DEF BInv, TailAt
<1>6. len(sendBuffer)' = len(sendBuffer) + n
  BY <1>1, <1>4 DEF Ring, len
<1> QED BY <1>5, <1>6 DEF n

\* The peer's acknowledgement gives up bytes at the start of the send buffer.
LEMMA BAcknowledged ==
    ASSUME BInv, NEW n \in 1..len(sendBuffer), sendBuffer' = advance(sendBuffer, n),
           UNCHANGED <<receiveBuffer, transport>>
    PROVE  BInv'
<1>1. Ring(sendBuffer') /\ Holds(sendBuffer')
  BY AdvanceStep, Zenon DEF BInv
<1> QED BY <1>1, Zenon DEF BInv, TailAt, transport

\* A transport takes a slice: the window is what it was, though the array may be another.
LEMMA BTakeTail ==
    ASSUME BInv, NEW n \in Nat \ {0}, TakeTail(n)
    PROVE  BInv' /\ len(receiveBuffer)' = len(receiveBuffer)
<1> DEFINE room == receiveBufferSize - len(receiveBuffer)
           next == IF room < n THEN room ELSE n
           w == reserve(receiveBuffer, next)
           slots == free1(w)
<1>1. /\ len(receiveBuffer) < receiveBufferSize
      /\ receiveBuffer' = w /\ filled' = 0 /\ sendBuffer' = sendBuffer
      /\ tail' = IF Len(slots) > n THEN SubSeq(slots, 1, n) ELSE slots
  BY Zenon DEF TakeTail
<1>2. Ring(receiveBuffer) /\ Holds(receiveBuffer) /\ len(receiveBuffer) \in Nat
  BY DEF BInv, Ring, len
<1>3. next \in Nat /\ next # 0
  BY <1>1, <1>2, ManagedConnAssumption
<1> HIDE DEF next
<1>4. /\ Ring(w) /\ Holds(w) /\ SameWindow(w, receiveBuffer)
      /\ next + len(receiveBuffer) <= w.cap
  BY <1>2, <1>3, ManagedConnAssumption, ReserveStep, Zenon
<1> HIDE DEF w
<1>5. len(w) = len(receiveBuffer) /\ w.cap # 0 /\ w.cap - len(w) \in Nat
  BY <1>2, <1>3, <1>4 DEF SameWindow, Ring, len
<1>6. SlotsFrom(slots, w.end, Len(slots), w.cap) /\ Len(slots) <= w.cap - len(w)
  BY <1>4, <1>5, FreeFrom, Zenon
<1> HIDE DEF slots
<1>7. SlotsFrom(tail', w.end, Len(tail'), w.cap) /\ Len(tail') <= w.cap - len(w)
  <2>1. CASE Len(slots) > n
    <3>1. /\ SubSeq(slots, 1, n) \in Seq(Nat) /\ Len(SubSeq(slots, 1, n)) = n
          /\ \A i \in 1..n : SubSeq(slots, 1, n)[i] = slots[i] /\ i \in 1..Len(slots)
      BY <1>6, <2>1 DEF SlotsFrom
    <3>2. tail' = SubSeq(slots, 1, n)
      BY <1>1, <2>1
    <3>3. n <= w.cap - len(w)
      BY <1>5, <1>6, <2>1 DEF SlotsFrom
    <3> QED BY <1>6, <3>1, <3>2, <3>3, Zenon DEF SlotsFrom
  <2>2. CASE ~(Len(slots) > n)
    BY <1>1, <1>6, <2>2
  <2> QED BY <2>1, <2>2
<1>8. 0 \in 0..Len(tail') /\ \A i \in 1..0 : FALSE
  BY <1>7 DEF SlotsFrom
<1>9. TailAt'
  BY <1>1, <1>7, <1>8, Zenon DEF TailAt
<1> QED BY <1>1, <1>2, <1>4, <1>5, <1>9, Zenon DEF BInv

\* A byte arrives in the free part of the array: no byte of the window is touched, and
\* none that arrived before it.
LEMMA BArrive ==
    ASSUME BInv, Arrive
    PROVE  BInv' /\ len(receiveBuffer)' = len(receiveBuffer)
<1> DEFINE w == receiveBuffer
           at == tail[filled + 1]
           q == w.end + filled
           v == [w EXCEPT !.data[at] = q]
<1>1. /\ filled < Len(tail) /\ filled' = filled + 1 /\ receiveBuffer' = v
      /\ UNCHANGED <<sendBuffer, tail>>
  BY Zenon DEF Arrive
<1>2. /\ Ring(w) /\ Holds(w) /\ SlotsFrom(tail, w.end, Len(tail), w.cap) /\ Len(tail) \in Nat
      /\ Len(tail) <= w.cap - len(w) /\ filled \in 0..Len(tail)
      /\ \A i \in 1..filled : w.data[tail[i]] = w.end + i - 1
  BY DEF BInv, TailAt, SlotsFrom
<1>3. /\ w.cap \in Nat \ {0} /\ w.start \in Nat /\ w.end \in Nat /\ filled \in Nat
      /\ w.start <= w.end /\ w.end + filled < w.start + w.cap
  BY <1>1, <1>2 DEF Ring, len
<1>4. at = q % w.cap /\ q \in Nat
  <2>1. filled + 1 \in 1..Len(tail) /\ w.end + (filled + 1) - 1 = q
    BY <1>1, <1>2, <1>3, SMTT(30)
  <2> QED BY <1>2, <1>3, <2>1 DEF SlotsFrom
<1>5. at \in 0..(w.cap - 1)
  BY <1>3, <1>4, DivMod, Zenon
<1> HIDE DEF w, at, q, v
<1>6. /\ v = [cap |-> w.cap, data |-> v.data, start |-> w.start, end |-> w.end]
      /\ v.cap = w.cap /\ v.start = w.start /\ v.end = w.end
      /\ v.data = [w.data EXCEPT ![at] = q]
  <2>1. w = [cap |-> w.cap, data |-> w.data, start |-> w.start, end |-> w.end]
    BY <1>2 DEF Ring
  <2>2. v = [w EXCEPT !.data = [w.data EXCEPT ![at] = q]]
    BY DEF v
  <2> QED BY <2>1, <2>2
<1>7. /\ v.data = [s \in 0..(w.cap - 1) |-> v.data[s]]
      /\ v.data[at] = q /\ \A s \in 0..(w.cap - 1) : s # at => v.data[s] = w.data[s]
  <2>1. w.data = [s \in 0..(w.cap - 1) |-> w.data[s]]
    BY <1>2 DEF Ring
  <2> QED BY <1>5, <1>6, <2>1
<1>8. ASSUME NEW p \in w.start..(q - 1) PROVE v.data[p % w.cap] = w.data[p % w.cap]
  <2>1. p \in Nat /\ p < q /\ q < p + w.cap
    BY <1>3, <1>4 DEF q
  <2>2. p % w.cap # at
    BY <1>3, <1>4, <2>1, SlotsDiffer, Zenon
  <2>3. p % w.cap \in 0..(w.cap - 1)
    BY <1>3, <2>1, DivMod, Zenon
  <2> QED BY <1>7, <2>2, <2>3
<1>9. Ring(v) /\ len(v) = len(w)
  BY <1>2, <1>6, <1>7 DEF Ring, len
<1>10. Holds(v)
  <2>1. \A p \in w.start..(w.end - 1) : p \in w.start..(q - 1)
    BY <1>3 DEF q
  <2> QED BY <1>2, <1>6, <1>8, <2>1 DEF Holds
<1>11. ASSUME NEW i \in 1..(filled + 1) PROVE v.data[tail[i]] = w.end + i - 1
  <2>1. i \in 1..Len(tail) /\ tail[i] = (w.end + i - 1) % w.cap
    BY <1>1, <1>2, <1>3 DEF SlotsFrom
  <2>2. CASE i = filled + 1
    BY <1>3, <1>7, <2>2 DEF at, q
  <2>3. CASE i # filled + 1
    <3>1. w.end + i - 1 \in w.start..(q - 1) /\ i \in 1..filled
      BY <1>3, <2>3 DEF q
    <3> QED BY <1>2, <1>8, <2>1, <3>1
  <2> QED BY <2>2, <2>3
<1>12. filled + 1 \in 0..Len(tail)
  BY <1>1, <1>2
<1>13. TailAt'
  <2>1. receiveBuffer' = v /\ tail' = tail /\ filled' = filled + 1
    BY <1>1
  <2> QED BY <1>2, <1>6, <1>9, <1>11, <1>12, <2>1, Zenon DEF TailAt
<1>14. receiveBuffer' = v /\ sendBuffer' = sendBuffer /\ w = receiveBuffer
  BY <1>1 DEF w
<1> QED BY <1>9, <1>10, <1>13, <1>14, Zenon DEF BInv

\* The bytes that have arrived join the window.
LEMMA BAppendTail ==
    ASSUME BInv, AppendTail
    PROVE  BInv'
<1> DEFINE w == receiveBuffer
           b == Bytes(w, SubSeq(tail, 1, filled))
<1>1. /\ receiveBuffer' = IF filled = 0 THEN w ELSE append(w, b)
      /\ tail' = <<>> /\ filled' = 0 /\ sendBuffer' = sendBuffer
  BY Zenon DEF AppendTail
<1>2. /\ Ring(w) /\ Holds(w) /\ SlotsFrom(tail, w.end, Len(tail), w.cap)
      /\ filled \in 0..Len(tail) /\ \A i \in 1..filled : w.data[tail[i]] = w.end + i - 1
  BY DEF BInv, TailAt
<1>3. Len(b) = filled /\ NextIn(b, w.end)
  <2> DEFINE s == SubSeq(tail, 1, filled)
  <2>1. Len(s) = filled /\ filled \in Nat /\ \A i \in 1..filled : s[i] = tail[i]
    BY <1>2 DEF SlotsFrom
  <2> HIDE DEF s
  <2>2. b = [i \in 1..filled |-> w.data[s[i]]]
    BY <2>1 DEF Bytes, s
  <2> HIDE DEF b
  <2>3. Len(b) = filled /\ \A i \in 1..filled : b[i] = w.end + i - 1
    BY <1>2, <2>1, <2>2
  <2>4. b = [i \in 1..Len(b) |-> b[i]]
    BY <2>2, <2>3
  <2> QED BY <2>1, <2>3, <2>4 DEF NextIn
<1> HIDE DEF w, b
<1>4. Ring(receiveBuffer') /\ Holds(receiveBuffer')
  <2>1. CASE filled = 0
    BY <1>1, <1>2, <2>1
  <2>2. CASE filled # 0
    <3>1. initialBufferSize \in Nat \ {0}
      BY ManagedConnAssumption
    <3> QED BY <1>1, <1>2, <1>3, <2>2, <3>1, AppendStep, Zenon
  <2> QED BY <2>1, <2>2
<1>5. TailAt'
  <2>1. len(receiveBuffer') <= receiveBuffer'.cap /\ receiveBuffer'.cap - len(receiveBuffer') \in Nat
    BY <1>4 DEF Ring, len
  <2> QED BY <1>1, <2>1 DEF TailAt, SlotsFrom
<1> QED BY <1>1, <1>4, <1>5 DEF BInv

-----------------------------------------------------------------------------
(* Whoever waits *)

States == {"returned", "wait", "woken"}

ReaderIdle ==
    reader = "wait" =>
      ~localClosed /\ ~remoteClosed /\ ~readDeadline.timeout /\ len(receiveBuffer) = 0
WriterIdle == writer.at = "wait" => ~WriteFails /\ len(sendBuffer) >= sendBufferSize
SettersIdle == \A s \in Setters : setter[s].at = "wait" => SetNow(setter[s].kinds) = {}

WaitersOK ==
    /\ setter \in [Setters -> [at : States, kinds : SUBSET Kinds, time : Times]]
    /\ reader \in States
    /\ writer \in [at : States, left : 0..SendBytes]

WInv ==
    /\ DeadlinesOK /\ localClosed \in BOOLEAN /\ remoteClosed \in BOOLEAN
    /\ WaitersOK /\ ReaderIdle /\ WriterIdle /\ SettersIdle

\* The invariant: deadlines, buffers and waiters.
MInv == DInv /\ BInv /\ WInv

\* The invariant implies the properties.
LEMMA MInvImplies == MInv => TypeOK /\ NoMissedWakeup /\ StreamInOrder
<1> SUFFICES ASSUME MInv PROVE TypeOK /\ NoMissedWakeup /\ StreamInOrder
  OBVIOUS
<1>1. TypeOK
  BY Zenon DEF MInv, WInv, WaitersOK, States, TypeOK
<1>2. NoMissedWakeup
  BY Zenon DEF MInv, WInv, ReaderIdle, WriterIdle, SettersIdle, NoMissedWakeup
<1>3. StreamInOrder
  BY BytesInOrder, Zenon DEF MInv, BInv, StreamInOrder
<1> QED BY <1>1, <1>2, <1>3

\* The initial states satisfy it.
LEMMA WInit == Init => WInv
<1> SUFFICES ASSUME Init PROVE WInv
  OBVIOUS
<1>1. DeadlinesOK
  <2>1. Unset \in TimerState
    BY DEF Unset, TimerState
  <2>2. callbacks \in [Kinds -> {0, 1}]
    BY DEF Init
  <2>3. due \in [Kinds -> BOOLEAN]
    BY Zenon DEF Init
  <2> QED BY <2>1, <2>2, <2>3, Zenon DEF Init, DeadlinesOK
<1>2. setter \in [Setters -> [at : States, kinds : SUBSET Kinds, time : Times]]
  <2>1. Returned \in [at : States, kinds : SUBSET Kinds, time : Times]
    BY DEF Returned, States, Times
  <2> QED BY <2>1, Zenon DEF Init
<1>3. NotWriting \in [at : States, left : 0..SendBytes] /\ NotWriting.at # "wait"
  BY ManagedConnAssumption DEF NotWriting, States
<1>4. Returned.at # "wait" /\ "returned" # "wait" /\ "returned" \in States
  BY DEF Returned, States
<1>5. \A s \in Setters : setter[s].at # "wait"
  BY <1>4, Zenon DEF Init
<1> QED BY <1>1, <1>2, <1>3, <1>4, <1>5, Zenon
           DEF Init, WInv, WaitersOK, ReaderIdle, WriterIdle, SettersIdle

\* A Broadcast leaves nobody waiting.
LEMMA NobodyWaits ==
    ASSUME WaitersOK
    PROVE  /\ SettersAwake \in [Setters -> [at : States, kinds : SUBSET Kinds, time : Times]]
           /\ \A s \in Setters : SettersAwake[s].at # "wait"
           /\ ReaderAwake \in States /\ ReaderAwake # "wait"
           /\ WriterAwake \in [at : States, left : 0..SendBytes] /\ WriterAwake.at # "wait"
<1> DEFINE C == [at : States, kinds : SUBSET Kinds, time : Times]
<1>1. ASSUME NEW c \in C PROVE [c EXCEPT !.at = "woken"] \in C
  BY DEF States
<1>2. SettersAwake \in [Setters -> C]
  <2> HIDE DEF C
  <2> QED BY <1>1, Zenon DEF WaitersOK, SettersAwake, C
<1>3. \A s \in Setters : SettersAwake[s].at # "wait"
  BY Awake, Zenon
<1>4. ReaderAwake \in States /\ ReaderAwake # "wait"
  BY DEF WaitersOK, ReaderAwake, States
<1>5. WriterAwake \in [at : States, left : 0..SendBytes] /\ WriterAwake.at # "wait"
  BY DEF WaitersOK, WriterAwake, States
<1> QED BY <1>2, <1>3, <1>4, <1>5

\* So whatever a step that broadcasts changes, the invariant holds after it.
LEMMA WBroadcast ==
    ASSUME WInv, Broadcast, DeadlinesOK', localClosed' \in BOOLEAN, remoteClosed' \in BOOLEAN
    PROVE  WInv'
BY NobodyWaits, Zenon DEF WInv, WaitersOK, Broadcast, ReaderIdle, WriterIdle, SettersIdle

\* The deadlines decide what a call may set.
LEMMA SameSetNow ==
    ASSUME UNCHANGED deadlines, NEW kinds
    PROVE  SetNow(kinds)' = SetNow(kinds)
BY Zenon DEF SetNow, MustWait, Deadline, deadlines

\* What leaves deadlines, the ends of the stream and the setters alone, or wakes them.
LEMMA WFrame ==
    ASSUME WInv, UNCHANGED <<deadlines, closedVars>>,
           setter' = setter \/ setter' = SettersAwake,
           reader' \in States, writer' \in [at : States, left : 0..SendBytes],
           ReaderIdle', WriterIdle'
    PROVE  WInv'
<1>1. DeadlinesOK' /\ localClosed' \in BOOLEAN /\ remoteClosed' \in BOOLEAN
  BY Zenon DEF WInv, DeadlinesOK, deadlines, closedVars
<1>2. setter' \in [Setters -> [at : States, kinds : SUBSET Kinds, time : Times]]
  BY NobodyWaits, Zenon DEF WInv, WaitersOK
<1>3. SettersIdle'
  <2>1. CASE setter' = SettersAwake
    BY <2>1, NobodyWaits, Zenon DEF WInv, SettersIdle
  <2>2. CASE setter' = setter
    BY <2>2, SameSetNow, Zenon DEF WInv, SettersIdle
  <2> QED BY <2>1, <2>2
<1> QED BY <1>1, <1>2, <1>3, Zenon DEF WInv, WaitersOK

\* Read waits only when there is nothing to return.
LEMMA WRead ==
    ASSUME WInv, BInv, ~localClosed, ReadTurn, UNCHANGED <<deadlines, closedVars, sendBuffer>>
    PROVE  WInv'
<1>1. reader' \in States
  BY DEF ReadTurn, States
<1>2. setter' = setter \/ setter' = SettersAwake
  BY Zenon DEF ReadTurn
<1>3. writer' = writer \/ writer' = WriterAwake
  BY Zenon DEF ReadTurn
<1>4. writer' \in [at : States, left : 0..SendBytes] /\ WriterIdle'
  BY <1>3, NobodyWaits, Zenon DEF WInv, WaitersOK, WriterIdle, WriteFails, deadlines, closedVars
<1>5. ReaderIdle'
  <2> SUFFICES ASSUME reader' = "wait"
               PROVE  (~localClosed /\ ~remoteClosed /\ ~readDeadline.timeout
                        /\ len(receiveBuffer) = 0)'
    BY Zenon DEF ReaderIdle
  <2>1. /\ ~readDeadline.timeout /\ len(receiveBuffer) = 0 /\ ~remoteClosed
        /\ receiveBuffer' = receiveBuffer
    BY DEF ReadTurn
  <2> QED BY <2>1, Zenon DEF deadlines, closedVars
<1> QED BY <1>1, <1>2, <1>4, <1>5, WFrame, Zenon

\* Write waits only when the buffer is full.
LEMMA WWrite ==
    ASSUME WInv, BInv, NEW left \in 0..SendBytes, ~WriteFails, WriteTurn(left),
           UNCHANGED <<deadlines, closedVars, receiveBuffer, transport>>
    PROVE  WInv'
<1> DEFINE n == writable(sendBuffer, left, sendBufferSize)
<1>1. left \in Nat /\ SendBytes \in Nat
  BY ManagedConnAssumption
<1>2. n \in 0..left /\ (n # left => len(sendBuffer) + n >= sendBufferSize)
  BY <1>1, Writable, Zenon DEF BInv
<1>3. len(sendBuffer)' = len(sendBuffer) + n
  BY <1>1, BWrite, Zenon
<1>4. /\ writer' = IF n = left THEN NotWriting ELSE [at |-> "wait", left |-> left - n]
      /\ setter' = setter \/ setter' = SettersAwake
      /\ reader' = reader \/ reader' = ReaderAwake
  BY Zenon DEF WriteTurn
<1> HIDE DEF n
<1>5. reader' \in States /\ ReaderIdle'
  BY <1>4, NobodyWaits, Zenon DEF WInv, WaitersOK, ReaderIdle, deadlines, closedVars
<1>6. writer' \in [at : States, left : 0..SendBytes]
  BY <1>1, <1>2, <1>4 DEF NotWriting, States
<1>7. WriterIdle'
  <2> SUFFICES ASSUME writer'.at = "wait"
               PROVE  ~WriteFails' /\ len(sendBuffer)' >= sendBufferSize
    BY Zenon DEF WriterIdle
  <2>1. n # left
    BY <1>4 DEF NotWriting
  <2> QED BY <1>2, <1>3, <2>1, Zenon DEF WriteFails, deadlines, closedVars
<1> QED BY <1>4, <1>5, <1>6, <1>7, WFrame, Zenon

\* A step that wakes nobody and changes nothing that anybody waits for.
LEMMA WQuiet ==
    ASSUME WInv, UNCHANGED <<deadlines, closedVars, waiters>>,
           len(receiveBuffer)' = len(receiveBuffer), len(sendBuffer)' = len(sendBuffer)
    PROVE  WInv'
<1>1. ReaderIdle' /\ WriterIdle'
  BY Zenon DEF WInv, ReaderIdle, WriterIdle, WriteFails, deadlines, closedVars, waiters
<1>2. /\ reader' \in States /\ writer' \in [at : States, left : 0..SendBytes]
      /\ setter' = setter
  BY Zenon DEF WInv, WaitersOK, waiters
<1> QED BY <1>1, <1>2, WFrame, Zenon

\* More timers to wait for: a call that could set nothing still can set nothing.
LEMMA SetNowStays ==
    ASSUME NEW kinds \in SUBSET Kinds, SetNow(kinds) = {},
           \A k \in kinds : MustWait(k) => MustWait(k)'
    PROVE  SetNow(kinds)' = {}
<1>1. CASE "read" \in kinds /\ MustWait("read")
  BY <1>1, Zenon DEF SetNow
<1>2. CASE ~("read" \in kinds /\ MustWait("read"))
  <2>1. \A k \in kinds : MustWait(k)
    BY <1>2, Zenon DEF SetNow
  <2> QED BY <2>1, Zenon DEF SetNow
<1> QED BY <1>1, <1>2

\* The two deadlines are what DInv says of each kind.
LEMMA BothDeadlines ==
    ASSUME DInv
    PROVE  readDeadline \in TimerState /\ writeDeadline \in TimerState
<1>1. "read" \in Kinds /\ "write" \in Kinds
  BY DEF Kinds
<1>2. Deadline("read") = readDeadline /\ Deadline("write") = writeDeadline
  BY DEF Deadline
<1> QED BY <1>1, <1>2, Zenon DEF DInv, Agree

\* A call sets what it can, wakes the others if that is a timeout, and waits only for
\* what it could not set.
LEMMA WSet ==
    ASSUME MInv, NEW s \in Setters, NEW kinds \in SUBSET Kinds, NEW t \in Times,
           SetBody(s, kinds, t)
    PROVE  WInv'
<1> DEFINE now == SetNow(kinds)
           C == [at : States, kinds : SUBSET Kinds, time : Times]
           mine == IF now = kinds THEN Returned
                   ELSE [at |-> "wait", kinds |-> kinds \ now, time |-> t]
<1>1. PICK time \in [Kinds -> Times] :
        /\ readDeadline' = IF "read" \in now THEN SetTo(readDeadline, time["read"])
                           ELSE readDeadline
        /\ writeDeadline' = IF "write" \in now THEN SetTo(writeDeadline, time["write"])
                            ELSE writeDeadline
        /\ due' = [k \in Kinds |-> IF k \in now THEN time[k] = "past" ELSE due[k]]
        /\ LET awake == \E k \in now : time[k] = "past"
           IN  /\ setter' = [(IF awake THEN SettersAwake ELSE setter) EXCEPT ![s] = mine]
               /\ reader' = IF awake THEN ReaderAwake ELSE reader
               /\ writer' = IF awake THEN WriterAwake ELSE writer
        /\ UNCHANGED <<callbacks, closedVars, buffers, transport>>
  BY Zenon DEF SetBody
<1>2. now \subseteq kinds /\ \A k \in now : ~MustWait(k)
  BY Zenon DEF SetNow
<1>3. DInv /\ BInv /\ WInv /\ DInv'
  BY SetStep, Zenon DEF MInv
<1> DEFINE awake == \E k \in now : time[k] = "past"
<1>4. /\ setter' = [(IF awake THEN SettersAwake ELSE setter) EXCEPT ![s] = mine]
      /\ reader' = IF awake THEN ReaderAwake ELSE reader
      /\ writer' = IF awake THEN WriterAwake ELSE writer
  BY <1>1, Zenon
<1>5. SettersAwake \in [Setters -> C] /\ setter \in [Setters -> C]
  BY <1>3, NobodyWaits, Zenon DEF WInv, WaitersOK
<1>6. mine \in C
  <2>1. Returned \in C
    BY DEF Returned, States, Times
  <2>2. [at |-> "wait", kinds |-> kinds \ now, time |-> t] \in C
    BY DEF States
  <2> QED BY <2>1, <2>2, Zenon
<1>7. /\ setter' \in [Setters -> C] /\ setter'[s] = mine
      /\ \A g \in Setters \ {s} : setter'[g] = IF awake THEN SettersAwake[g] ELSE setter[g]
  <2> HIDE DEF C, mine, now
  <2> QED BY <1>4, <1>5, <1>6, Zenon
<1>8. ASSUME NEW k \in Kinds
      PROVE  /\ k \notin now => (Deadline(k)' = Deadline(k) /\ MustWait(k)' = MustWait(k))
             /\ k \in now /\ ~awake => ~Deadline(k)'.timeout
  <2>1. Deadline(k)' = IF k \in now THEN SetTo(Deadline(k), time[k]) ELSE Deadline(k)
    <3> HIDE DEF now
    <3> QED BY <1>1, SMT DEF Deadline, Kinds
  <2>2. Deadline(k) \in TimerState /\ time[k] \in Times
    BY <1>1, <1>3, Zenon DEF DInv, Agree
  <2>3. SetTo(Deadline(k), time[k]).timeout => time[k] = "past"
    BY <2>2, SetToFields, Zenon
  <2> HIDE DEF now
  <2> QED BY <2>1, <2>3, Zenon DEF MustWait
<1>9. DeadlinesOK'
  <2>1. (readDeadline \in TimerState /\ writeDeadline \in TimerState)'
    BY <1>3, BothDeadlines, PTL
  <2>2. callbacks' \in [Kinds -> {0, 1}]
    BY <1>1, <1>3, Zenon DEF WInv, DeadlinesOK
  <2>3. due' \in [Kinds -> BOOLEAN]
    BY <1>1, <1>3, Zenon DEF WInv, DeadlinesOK
  <2> QED BY <2>1, <2>2, <2>3, Zenon DEF DeadlinesOK
<1>10. reader' \in States /\ writer' \in [at : States, left : 0..SendBytes]
  BY <1>3, <1>4, NobodyWaits, Zenon DEF WInv, WaitersOK
<1>11. UNCHANGED <<localClosed, remoteClosed, receiveBuffer, sendBuffer>>
  BY <1>1, Zenon DEF closedVars, buffers
<1>12. ReaderIdle'
  <2> SUFFICES ASSUME reader' = "wait"
               PROVE  (~localClosed /\ ~remoteClosed /\ ~readDeadline.timeout
                        /\ len(receiveBuffer) = 0)'
    BY Zenon DEF ReaderIdle
  <2>1. reader = "wait" /\ ~awake
    BY <1>3, <1>4, NobodyWaits, Zenon DEF WInv
  <2>2. "read" \in Kinds /\ Deadline("read") = readDeadline /\ Deadline("read")' = readDeadline'
    BY DEF Kinds, Deadline
  <2>3. ~readDeadline'.timeout
    BY <1>3, <1>8, <2>1, <2>2, Zenon DEF WInv, ReaderIdle
  <2> QED BY <1>3, <1>11, <2>1, <2>3, Zenon DEF WInv, ReaderIdle
<1>13. WriterIdle'
  <2> SUFFICES ASSUME writer'.at = "wait"
               PROVE  ~WriteFails' /\ len(sendBuffer)' >= sendBufferSize
    BY Zenon DEF WriterIdle
  <2>1. writer' = writer /\ ~awake
    BY <1>3, <1>4, NobodyWaits, Zenon DEF WInv
  <2>2. "write" \in Kinds /\ Deadline("write") = writeDeadline
        /\ Deadline("write")' = writeDeadline'
    BY DEF Kinds, Deadline
  <2>3. ~writeDeadline'.timeout
    BY <1>3, <1>8, <2>1, <2>2, Zenon DEF WInv, WriterIdle, WriteFails
  <2> QED BY <1>3, <1>11, <2>1, <2>3, Zenon DEF WInv, WriterIdle, WriteFails
<1>14. SettersIdle'
  <2> SUFFICES ASSUME NEW g \in Setters, setter'[g].at = "wait"
               PROVE  SetNow(setter[g].kinds)' = {}
    BY Zenon DEF SettersIdle
  <2>1. PICK left : left = setter'[g].kinds
    OBVIOUS
  <2>2. left \in SUBSET Kinds /\ SetNow(left) = {} /\ \A k \in left : MustWait(k) => MustWait(k)'
    <3>1. CASE g = s
      <4>1. now # kinds /\ mine.kinds = kinds \ now
        <5> HIDE DEF now
        <5> QED BY <1>7, <3>1 DEF Returned
      <4>2. left = kinds \ now
        <5> HIDE DEF now, mine
        <5> QED BY <1>7, <2>1, <3>1, <4>1
      <4>3. SetNow(kinds \ now) = {}
        BY <4>1, Zenon DEF SetNow
      <4>4. \A k \in kinds \ now : MustWait(k) => MustWait(k)'
        <5> HIDE DEF now
        <5> QED BY <1>8, Zenon
      <4> HIDE DEF now
      <4> QED BY <4>2, <4>3, <4>4, Zenon
    <3>2. CASE g # s
      <4>1. setter'[g] = setter[g] /\ setter[g].at = "wait"
        <5> HIDE DEF now, mine
        <5> QED BY <1>3, <1>7, <3>2, NobodyWaits, Zenon DEF WInv
      <4>2. left = setter[g].kinds
        BY <2>1, <4>1
      <4>3. SetNow(left) = {} /\ left \in SUBSET Kinds
        BY <1>3, <4>1, <4>2, Zenon DEF WInv, SettersIdle, DInv, Awaited
      <4> HIDE DEF now
      <4> QED BY <1>2, <1>8, <4>3, Zenon
    <3> QED BY <3>1, <3>2
  <2>3. SetNow(left)' = {}
    BY <2>2, SetNowStays, Zenon
  <2> QED BY <2>1, <2>3, Zenon DEF SetNow
<1> QED BY <1>3, <1>7, <1>9, <1>10, <1>11, <1>12, <1>13, <1>14, Zenon DEF WInv, WaitersOK

\* The deadlines keep their types when a timer fires, runs its function, or is stopped.
LEMMA DeadlinesStay ==
    ASSUME MInv, DInv', callbacks' = callbacks \/ \E k \in Kinds, n \in {0, 1} :
                                                    callbacks' = [callbacks EXCEPT ![k] = n],
           due' = due \/ \E k \in Kinds : due' = [due EXCEPT ![k] = TRUE]
    PROVE  DeadlinesOK'
<1>1. (readDeadline \in TimerState /\ writeDeadline \in TimerState)'
  BY BothDeadlines, PTL
<1>2. callbacks' \in [Kinds -> {0, 1}]
  BY Zenon DEF MInv, WInv, DeadlinesOK
<1>3. due' \in [Kinds -> BOOLEAN]
  BY Zenon DEF MInv, WInv, DeadlinesOK
<1> QED BY <1>1, <1>2, <1>3, Zenon DEF DeadlinesOK

\* When a timer fires nobody is woken: there is one more function to wait for.
LEMMA WFire ==
    ASSUME MInv, NEW k \in Kinds, Fire(k)
    PROVE  WInv'
<1>1. DInv /\ BInv /\ WInv /\ DInv'
  BY FireStep, Zenon DEF MInv
<1>2. /\ Deadline(k).timer = "armed"
      /\ readDeadline' = IF k = "read" THEN [readDeadline EXCEPT !.timer = "idle"]
                         ELSE readDeadline
      /\ writeDeadline' = IF k = "write" THEN [writeDeadline EXCEPT !.timer = "idle"]
                          ELSE writeDeadline
      /\ callbacks' = [callbacks EXCEPT ![k] = @ + 1] /\ due' = [due EXCEPT ![k] = TRUE]
      /\ UNCHANGED <<setter, reader, writer, localClosed, remoteClosed, buffers>>
  BY Zenon DEF Fire, waiters, closedVars
<1>3. DeadlinesOK'
  <2>1. callbacks[k] = 0
    BY <1>1, <1>2, Zenon DEF DInv, Agree
  <2>2. callbacks' = [callbacks EXCEPT ![k] = 1]
    BY <1>2, <2>1
  <2> QED BY <1>1, <1>2, <2>2, DeadlinesStay, Zenon
<1>4. readDeadline \in TimerState /\ writeDeadline \in TimerState
  BY <1>1, BothDeadlines
<1>5. /\ readDeadline'.timeout = readDeadline.timeout
      /\ writeDeadline'.timeout = writeDeadline.timeout
      /\ readDeadline'.stopped = readDeadline.stopped
      /\ writeDeadline'.stopped = writeDeadline.stopped
      /\ readDeadline.timer = "idle" => readDeadline'.timer = "idle"
      /\ writeDeadline.timer = "idle" => writeDeadline'.timer = "idle"
  BY <1>2, <1>4 DEF TimerState
<1>6. ReaderIdle' /\ WriterIdle'
  BY <1>1, <1>2, <1>5, Zenon DEF WInv, ReaderIdle, WriterIdle, WriteFails, buffers
<1>7. \A j \in Kinds : MustWait(j) => MustWait(j)'
  BY <1>5, Zenon DEF MustWait, Deadline
<1>8. SettersIdle'
  <2> SUFFICES ASSUME NEW g \in Setters, setter'[g].at = "wait"
               PROVE  SetNow(setter[g].kinds)' = {}
    BY Zenon DEF SettersIdle
  <2>1. PICK left : left = setter'[g].kinds
    OBVIOUS
  <2>2. left = setter[g].kinds /\ setter[g].at = "wait"
    BY <1>2, <2>1, Zenon
  <2>3. left \in SUBSET Kinds /\ SetNow(left) = {}
    BY <1>1, <2>2, Zenon DEF WInv, SettersIdle, DInv, Awaited
  <2>4. SetNow(left)' = {}
    BY <1>7, <2>3, SetNowStays, Zenon
  <2> QED BY <2>1, <2>4, Zenon DEF SetNow
<1> QED BY <1>1, <1>2, <1>3, <1>6, <1>8, Zenon DEF WInv, WaitersOK

\* The timer's function wakes everybody.
LEMMA WCallback ==
    ASSUME MInv, NEW k \in Kinds, Callback(k)
    PROVE  WInv'
<1>1. DInv /\ WInv /\ DInv'
  BY CallbackStep, Zenon DEF MInv
<1>2. /\ callbacks[k] > 0 /\ callbacks' = [callbacks EXCEPT ![k] = @ - 1] /\ due' = due
      /\ Broadcast /\ UNCHANGED <<localClosed, remoteClosed>>
  BY Zenon DEF Callback, closedVars
<1>3. callbacks' = [callbacks EXCEPT ![k] = 0]
  <2>1. callbacks[k] \in {0, 1}
    BY <1>1, Zenon DEF DInv, Agree
  <2>2. callbacks[k] - 1 = 0
    BY <1>2, <2>1
  <2> QED BY <1>2, <2>2, Zenon
<1>4. DeadlinesOK'
  BY <1>1, <1>2, <1>3, DeadlinesStay, Zenon
<1> QED BY <1>1, <1>2, <1>4, WBroadcast, Zenon DEF WInv

\* Close wakes everybody.
LEMMA WClose ==
    ASSUME MInv, Close
    PROVE  WInv'
<1>1. WInv /\ DInv'
  BY CloseStep, Zenon DEF MInv
<1>2. Broadcast /\ localClosed' = TRUE /\ UNCHANGED <<callbacks, due, remoteClosed>>
  BY Zenon DEF Close
<1>3. DeadlinesOK'
  BY <1>1, <1>2, DeadlinesStay, Zenon
<1> QED BY <1>1, <1>2, <1>3, WBroadcast, Zenon DEF WInv

\* A step that leaves the deadlines and the ends of the stream alone, and broadcasts.
LEMMA WWake ==
    ASSUME WInv, Broadcast, UNCHANGED <<deadlines, localClosed>>, remoteClosed' \in BOOLEAN
    PROVE  WInv'
BY WBroadcast, Zenon DEF WInv, DeadlinesOK, deadlines

\* Every step keeps the whole invariant.
LEMMA MNext == MInv /\ [Next]_vars => MInv'
<1> SUFFICES ASSUME MInv, [Next]_vars PROVE BInv' /\ WInv'
  BY DNext DEF MInv
<1>1. DInv /\ BInv /\ WInv
  BY DEF MInv
<1>2. ASSUME UNCHANGED <<buffers, transport>> PROVE BInv'
  BY <1>1, <1>2, Zenon DEF BInv, TailAt, buffers, transport
<1>3. ASSUME NEW c \in Calls, SetDeadline(c[1], c[2], c[3]) PROVE BInv' /\ WInv'
  <2>1. c[1] \in Setters /\ c[2] \in SUBSET Kinds /\ c[3] \in Times
    BY ManagedConnAssumption, SMT DEF Times, Kinds
  <2>2. SetBody(c[1], c[2], c[3])
    BY <1>3, Zenon DEF SetDeadline
  <2>3. UNCHANGED <<buffers, transport>>
    BY <2>2, Zenon DEF SetBody
  <2> QED BY <1>2, <2>1, <2>2, <2>3, WSet, Zenon
<1>4. ASSUME NEW s \in Setters, SetDeadlineAgain(s) PROVE BInv' /\ WInv'
  <2>1. setter[s].kinds \in SUBSET Kinds /\ setter[s].time \in Times
    BY <1>1, Zenon DEF DInv, Awaited
  <2>2. SetBody(s, setter[s].kinds, setter[s].time)
    BY <1>4, Zenon DEF SetDeadlineAgain
  <2>3. UNCHANGED <<buffers, transport>>
    BY <2>2, Zenon DEF SetBody
  <2> QED BY <1>2, <2>1, <2>2, <2>3, WSet, Zenon
<1>5. ASSUME ~localClosed, ReadTurn, UNCHANGED <<deadlines, closedVars, sendBuffer, transport>>
      PROVE  BInv' /\ WInv'
  <2>1. WInv'
    BY <1>1, <1>5, WRead, Zenon
  <2>2. CASE receiveBuffer' = receiveBuffer
    BY <1>2, <1>5, <2>1, <2>2, Zenon DEF buffers
  <2>3. CASE \E n \in 1..len(receiveBuffer) : receiveBuffer' = advance(receiveBuffer, n)
    BY <1>1, <1>5, <2>1, <2>3, BRead, Zenon
  <2> QED BY <1>5, <2>2, <2>3, Zenon DEF ReadTurn
<1>6. CASE Read
  BY <1>5, <1>6, Zenon DEF Read
<1>7. CASE ReadAgain
  <2>1. CASE localClosed /\ reader' = "returned" /\ UNCHANGED <<receiveBuffer, setter, writer>>
    <3>1. UNCHANGED <<deadlines, closedVars, buffers, transport, setter, writer>>
      BY <1>7, <2>1, Zenon DEF ReadAgain, buffers
    <3>2. reader' \in States /\ reader' # "wait"
      BY <2>1 DEF States
    <3>3. ReaderIdle' /\ WriterIdle' /\ writer' \in [at : States, left : 0..SendBytes]
      BY <1>1, <3>1, <3>2, Zenon
         DEF WInv, WaitersOK, ReaderIdle, WriterIdle, WriteFails, deadlines, closedVars, buffers
    <3> QED BY <1>1, <1>2, <3>1, <3>2, <3>3, WFrame, Zenon
  <2> QED BY <1>5, <1>7, <2>1, Zenon DEF ReadAgain
<1>8. ASSUME NEW left \in 0..SendBytes, ~WriteFails, WriteTurn(left),
             UNCHANGED <<deadlines, closedVars, receiveBuffer, transport>>
      PROVE  BInv' /\ WInv'
  <2>1. left \in Nat
    BY ManagedConnAssumption
  <2> QED BY <1>1, <1>8, <2>1, BWrite, WWrite, Zenon
<1>9. ASSUME NEW n \in 1..SendBytes, Write(n) PROVE BInv' /\ WInv'
  <2>1. n \in 0..SendBytes
    BY ManagedConnAssumption
  <2> QED BY <1>8, <1>9, <2>1, Zenon DEF Write
<1>10. CASE WriteAgain
  <2>1. CASE WriteFails /\ writer' = NotWriting /\ UNCHANGED <<sendBuffer, setter, reader>>
    <3>1. UNCHANGED <<deadlines, closedVars, buffers, transport, setter, reader>>
      BY <1>10, <2>1, Zenon DEF WriteAgain, buffers
    <3>2. writer' \in [at : States, left : 0..SendBytes] /\ writer'.at # "wait"
      BY <2>1, ManagedConnAssumption DEF States, NotWriting
    <3>3. ReaderIdle' /\ WriterIdle' /\ reader' \in States
      BY <1>1, <3>1, <3>2, Zenon
         DEF WInv, WaitersOK, ReaderIdle, WriterIdle, deadlines, closedVars, buffers
    <3> QED BY <1>1, <1>2, <3>1, <3>2, <3>3, WFrame, Zenon
  <2>2. CASE ~WriteFails /\ WriteTurn(writer.left)
    <3>1. writer.left \in 0..SendBytes
      BY <1>1 DEF WInv, WaitersOK
    <3> QED BY <1>8, <1>10, <2>2, <3>1, Zenon DEF WriteAgain
  <2> QED BY <1>10, <2>1, <2>2, Zenon DEF WriteAgain
<1>11. ASSUME NEW n \in 1..ReceiveBytes, TakeTail(n) PROVE BInv' /\ WInv'
  <2>1. n \in Nat \ {0}
    BY ManagedConnAssumption
  <2>2. BInv' /\ len(receiveBuffer)' = len(receiveBuffer)
    BY <1>1, <1>11, <2>1, BTakeTail, Zenon
  <2> QED BY <1>1, <1>11, <2>2, WQuiet, Zenon DEF TakeTail
<1>12. CASE Arrive
  <2>1. BInv' /\ len(receiveBuffer)' = len(receiveBuffer)
    BY <1>1, <1>12, BArrive, Zenon
  <2> QED BY <1>1, <1>12, <2>1, WQuiet, Zenon DEF Arrive
<1>13. CASE AppendTail
  <2>1. BInv'
    BY <1>1, <1>13, BAppendTail
  <2>2. CASE filled = 0
    BY <1>1, <1>13, <2>1, <2>2, WQuiet, Zenon DEF AppendTail
  <2>3. CASE filled # 0
    <3>1. Broadcast /\ UNCHANGED <<deadlines, localClosed, remoteClosed>>
      BY <1>13, <2>3, Zenon DEF AppendTail, closedVars
    <3> QED BY <1>1, <2>1, <3>1, WWake, Zenon DEF WInv
  <2> QED BY <2>2, <2>3
<1>14. CASE RemoteClose
  BY <1>1, <1>2, <1>14, WWake, Zenon DEF RemoteClose
<1>15. ASSUME NEW n \in 1..len(sendBuffer), Acknowledged(n) PROVE BInv' /\ WInv'
  <2>1. BInv'
    BY <1>1, <1>15, BAcknowledged, Zenon DEF Acknowledged
  <2>2. WInv'
    BY <1>1, <1>15, WWake, Zenon DEF Acknowledged, closedVars, WInv
  <2> QED BY <2>1, <2>2
<1>16. CASE UNCHANGED vars
  <2>1. UNCHANGED <<deadlines, closedVars, waiters, buffers, transport, receiveBuffer, sendBuffer>>
    BY <1>16, Zenon DEF vars, buffers
  <2> QED BY <1>1, <1>2, <2>1, WQuiet, Zenon
<1>17. CASE Close
  BY <1>2, <1>17, WClose, Zenon DEF Close
<1>18. ASSUME NEW k \in Kinds, Fire(k) PROVE BInv' /\ WInv'
  BY <1>2, <1>18, WFire, Zenon DEF Fire
<1>19. ASSUME NEW k \in Kinds, Callback(k) PROVE BInv' /\ WInv'
  BY <1>2, <1>19, WCallback, Zenon DEF Callback
<1> QED
  BY <1>3, <1>4, <1>6, <1>7, <1>9, <1>10, <1>11, <1>12, <1>13, <1>14, <1>15, <1>16, <1>17,
     <1>18, <1>19, Zenon DEF Next, Application, Run, Timer

\* The invariant holds of every state.
LEMMA MAlways == Spec => []MInv
<1>1. Init => MInv
  BY DInit, BInit, WInit, Zenon DEF MInv
<1> QED BY <1>1, MNext, PTL DEF Spec

-----------------------------------------------------------------------------

\* For buffers of any size and any number of setters: the types of the deadlines and of
\* the calls; a timer never has two functions under way.
THEOREM TypesAlways == Spec => []TypeOK
BY MAlways, MInvImplies, PTL

\* For buffers of any size and any number of setters: whoever changes what another
\* goroutine waits for also wakes it, so that a Read, a Write or a call that sets a
\* deadline never waits while it could go on.
THEOREM NeverMissedWakeup == Spec => []NoMissedWakeup
BY MAlways, MInvImplies, PTL

\* For buffers of any size: the bytes between start and end are those of the stream, in
\* order, however the array was wrapped around, reallocated at a power of two, or filled
\* by a transport without the mutex.
THEOREM BuffersInOrder == Spec => []StreamInOrder
BY MAlways, MInvImplies, PTL

=============================================================================
