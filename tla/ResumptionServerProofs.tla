------------------------ MODULE ResumptionServerProofs ------------------------
(***************************************************************************)
(* The safety properties of ResumptionServer hold for any processes,       *)
(* connections, transports and addresses.  ServerInv is the inductive      *)
(* invariant; each of its parts is preserved by every step (one lemma per  *)
(* part), given all of it before the step.                                 *)
(***************************************************************************)
EXTENDS ResumptionServer, FiniteSetTheorems, TLAPS

Opening == {"tracked", "bound", "ready", "first"}
Holding == Opening \cup {"found", "accepted", "counted", "run"}

\* A transport has a connection from its exchange on, and the goroutine that works on
\* the entry is in the process that owns it, which is alive.
PlaceAt(a) ==
    /\ pc[a] = "idle" => at[a] = None
    /\ pc[a] # "idle" => conn[a] \in Conns /\ owner[conn[a]] \in Processes
    /\ pc[a] \in Holding => at[a] = owner[conn[a]] /\ alive[owner[conn[a]]]

Places == \A a \in Attempts : PlaceAt(a)

\* What is known of a connection before it has an owner, after its owner has died, and
\* when it is in the table or has a listener.
OwnedAt(c) ==
    /\ owner[c] = None => /\ server[c] = "none" /\ listener[c] = "none"
                          /\ timeout[c] = "stopped" /\ ~expiring[c] /\ running[c] = 0
    /\ owner[c] \in Processes /\ ~alive[owner[c]] =>
         /\ server[c] = "crashed" /\ timeout[c] = "stopped"
         /\ listener[c] \in {"none", "closed"}
    /\ server[c] = "crashed" => owner[c] \in Processes /\ ~alive[owner[c]]
    /\ \A p \in Processes : c \in conns[p] => owner[c] = p /\ remoteIP[c] # Invalid
    /\ listener[c] # "none" => remoteIP[c] # Invalid

Owned == \A c \in Conns : OwnedAt(c)

\* A connection is being opened by one transport, which alone drives its server
\* goroutine and its listener.
OpenerAt(a) ==
    /\ pc[a] \in {"tracked", "bound", "ready"} => server[conn[a]] = "none"
    /\ pc[a] = "first" => server[conn[a]] = "serving"
    /\ pc[a] = "tracked" => listener[conn[a]] = "none" /\ remoteIP[conn[a]] # Invalid
    /\ pc[a] = "bound" => listener[conn[a]] = "bound" /\ remoteIP[conn[a]] # Invalid
    /\ pc[a] \in Opening => locked[conn[a]]
    /\ \A b \in Attempts :
         pc[a] \in Opening /\ pc[b] \in Opening /\ conn[a] = conn[b] => a = b

Openers == \A a \in Attempts : OpenerAt(a)

\* running counts the transports in use, and one more when the session is over.
RunningAt(c) == running[c] = Cardinality(Using(c)) + (IF ServerOver(c) THEN 1 ELSE 0)

RunningExact == \A c \in Conns : RunningAt(c)

\* The timer runs only when the count is zero, and then it does until the connection is
\* closed.
GraceAt(c) ==
    LET Unused == owner[c] \in Processes /\ alive[owner[c]] /\ running[c] = 0 IN
    /\ timeout[c] = "armed" => Unused
    /\ Unused => timeout[c] = "armed" \/ expiring[c] \/ closed[c]

GraceCount == \A c \in Conns : GraceAt(c)

\* A listener that accepts connections has its socket; a socket had a listener; what a
\* cleanup has checked twice has none any more.
SocketsKept ==
    /\ \A c \in Conns : listener[c] \in {"bound", "listening"} => c \in sockets
    /\ \A c \in sockets : listener[c] # "none"
    /\ \A p \in Processes :
         /\ \A c \in paths[p] \cup filtered[p] : listener[c] # "none"
         /\ cleanup[p] \in {"second", "removal"} =>
              \A c \in paths[p] \cup filtered[p] : listener[c] # "bound"
         /\ cleanup[p] \in {"second", "removal"} =>
              \A c \in filtered[p] : listener[c] = "closed"

\* Where a cleanup still has the sockets it found without an owner and met no error on.
CleanupAt(p) ==
    /\ \A c \in leftover[p] : owner[c] \in Processes /\ ~alive[owner[c]]
    /\ None \notin errs[p] =>
         /\ cleanup[p] = "todo" => leftover[p] = {}
         /\ cleanup[p] \in {"first", "second"} =>
              leftover[p] \cap sockets \subseteq paths[p] \cup filtered[p] \cup errs[p]
         /\ cleanup[p] \in {"delay", "removal"} =>
              leftover[p] \cap sockets \subseteq filtered[p] \cup errs[p]
         /\ cleanup[p] = "done" => leftover[p] \cap sockets \subseteq errs[p]

CleanupKeeps == \A p \in Processes : CleanupAt(p)

\* The address that is compared is the one the transport comes from, without its form.
AddressAt(a) ==
    /\ source[a] \in Addresses \cup {Invalid}
    /\ clientIP[a] \in {Unmap(source[a]), Forwarded(source[a])}
    /\ pc[a] = "found" => remoteIP[conn[a]] # Invalid
    /\ answer[a] = "success" => source[a].host = remoteIP[conn[a]].host
    /\ answer[a] = "badAddress" => source[a].host # remoteIP[conn[a]].host
    /\ answer[a] # "none" => pc[a] # "idle"

RemoteIPs == \A c \in Conns : remoteIP[c] \in [host : Hosts,
form : {"4"}] \cup {Invalid}

AddressesKept == RemoteIPs /\ \A a \in Attempts : AddressAt(a)

ServerInv ==
    /\ TypeOK /\ Places /\ Owned /\ Openers
    /\ RunningExact /\ GraceCount
    /\ SocketsKept /\ CleanupKeeps /\ AddressesKept

-----------------------------------------------------------------------------
(***************************************************************************)
(* Counting.                                                               *)
(***************************************************************************)

\* The transports that use a connection are finitely many, and none are counted as zero.
LEMMA UsingFacts ==
    ASSUME NEW c
    PROVE  /\ IsFiniteSet(Using(c)) /\ Cardinality(Using(c)) \in Nat
           /\ Cardinality(Using(c)) = 0 <=> Using(c) = {}
<1>1. Using(c) \subseteq Attempts
  BY DEF Using
<1>2. IsFiniteSet(Using(c))
  BY <1>1, ServerAssumption, FS_Subset
<1> QED BY <1>2, FS_CardinalityType, FS_EmptySet

\* The same in the next state.
LEMMA UsingFactsNext ==
    ASSUME NEW c
    PROVE  /\ IsFiniteSet(Using(c)') /\ Cardinality(Using(c)') \in Nat
           /\ Cardinality(Using(c)') = 0 <=> Using(c)' = {}
<1>1. Using(c)' \subseteq Attempts
  BY DEF Using
<1>2. IsFiniteSet(Using(c)')
  BY <1>1, ServerAssumption, FS_Subset
<1> QED BY <1>2, FS_CardinalityType, FS_EmptySet

\* Transports that do not move do not change who uses a connection.
LEMMA UsingSame ==
    ASSUME NEW c, UNCHANGED <<pc, conn>>
    PROVE  Using(c)' = Using(c)
BY DEF Using

\* A transport that starts using a connection adds one to their number,
LEMMA UsingOneMore ==
    ASSUME NEW c, NEW b, b \notin Using(c), Using(c)' = Using(c) \cup {b}
    PROVE  Cardinality(Using(c)') = Cardinality(Using(c)) + 1
BY UsingFacts, FS_AddElement

\* and one that stops takes one away.
LEMMA UsingOneLess ==
    ASSUME NEW c, NEW b, b \in Using(c), Using(c)' = Using(c) \ {b}
    PROVE  Cardinality(Using(c)') = Cardinality(Using(c)) - 1
BY UsingFacts, FS_RemoveElement

\* A connection that a transport uses has a positive count.
LEMMA UsedPositive ==
    ASSUME ServerInv, NEW c \in Conns, NEW b \in Using(c)
    PROVE  running[c] \in Nat /\ running[c] >= 1
<1>1. Cardinality(Using(c)) \in Nat /\ Cardinality(Using(c)) # 0
  BY UsingFacts
<1> QED BY <1>1 DEF ServerInv, RunningExact, RunningAt

\* The state of the processes keeps its types.
LEMMA ProcessTypes ==
    ASSUME ServerInv, [Next]_vars
    PROVE  ProcessesOK'
<1> USE DEF ServerInv, TypeOK
<1>1. ASSUME NEW b \in Attempts, Transport(b) PROVE ProcessesOK'
  <2>1. CASE \E p \in Processes, d \in Conns, i \in Addresses : NewConn(b, p, d, i)
    <3> PICK p \in Processes, d \in Conns, i \in Addresses : NewConn(b, p, d, i)
      BY <2>1
    <3> QED BY DEF NewConn, Goto, Arrives, cleaning, ProcessesOK
  <2>2. CASE \/ Bind(b) \/ NoListener(b) \/ Listen(b) \/ StartServer(b) \/ RunFirst(b)
             \/ RefuseAddress(b) \/ AcceptAddress(b) \/ ExchangeFails(b)
             \/ CountRun(b) \/ Run(b) \/ EndRun(b) \/ DialHandover(b) \/ NotFound(b)
             \/ HandoverRefused(b) \/ AcceptHandover(b)
             \/ (\E p \in Processes, d \in Conns, i \in Addresses : Lookup(b, p, d, i))
    BY <2>2 DEF Lookup, Goto, Arrives, procs, cleaning, Bind, NoListener, Listen,
         StartServer, increaseRunning, RunFirst, RefuseAddress, AcceptAddress,
         ExchangeFails, CountRun, Run, EndRun, decreaseRunning, DialHandover,
         NotFound, HandoverRefused, AcceptHandover, ProcessesOK
  <2> QED BY <1>1, <2>1, <2>2 DEF Transport
<1>2. ASSUME NEW d \in Conns, Connection(d) PROVE ProcessesOK'
  <2>1. CASE DeleteEntry(d)
    BY <2>1 DEF DeleteEntry, ServerAt, cleaning, ProcessesOK
  <2>2. CASE \/ Expire(d) \/ CloseExpired(d) \/ ServerReturns(d) \/ CountServer(d)
             \/ HandoverCancel(d) \/ CloseServed(d) \/ CloseListener(d) \/ AcceptFails(d)
    BY <2>2 DEF Expire, procs, cleaning, CloseExpired, ServerReturns, ServerAt,
         CountServer, increaseRunning, HandoverCancel, CloseServed, CloseListener, AcceptFails,
         ProcessesOK
  <2> QED BY <1>2, <2>1, <2>2 DEF Connection
<1>3. ASSUME NEW q \in Processes, Process(q) PROVE ProcessesOK'
  <2>1. CASE ListSockets(q)
    BY <2>1 DEF EntriesOK, ListSockets, CleanupTo, procs, ProcessesOK
  <2>2. CASE ListFails(q)
    BY <2>2 DEF ListFails, CleanupTo, procs, ProcessesOK
  <2>3. CASE NothingFound(q)
    BY <2>3 DEF NothingFound, CleanupTo, procs, ProcessesOK
  <2>4. CASE Delay(q)
    BY <2>4 DEF Delay, CleanupTo, procs, ProcessesOK
  <2>5. CASE DelayOver(q)
    BY <2>5 DEF DelayOver, CleanupTo, procs, ProcessesOK
  <2>6. CASE Canceled(q)
    BY <2>6 DEF Canceled, CleanupTo, procs, ProcessesOK
  <2>7. CASE StartRemoval(q)
    BY <2>7 DEF StartRemoval, CleanupTo, procs, ProcessesOK
  <2>8. CASE CleanupDone(q)
    BY <2>8 DEF CleanupDone, CleanupTo, procs, ProcessesOK
  <2>9. CASE Crash(q)
    BY <2>9 DEF Crash, cleaning, ProcessesOK
  <2>10. CASE \E d \in Conns : Probe(q, d)
    BY <2>10 DEF Probe, procs, ProcessesOK
  <2>11. CASE \E d \in Conns : ProbeFails(q, d)
    BY <2>11 DEF ProbeFails, procs, ProcessesOK
  <2>12. CASE \E d \in Conns : RemoveSocket(q, d)
    <3> PICK d \in Conns : RemoveSocket(q, d)
      BY <2>12
    <3>1. /\ filtered' = [filtered EXCEPT ![q] = @ \ {d}]
          /\ errs' \in [Processes -> SUBSET (Conns \cup {None})]
      BY DEF RemoveSocket, ProcessesOK
    <3> QED BY <3>1 DEF RemoveSocket, procs, ProcessesOK
  <2> QED BY <1>3, <2>1, <2>2, <2>3, <2>4, <2>5, <2>6, <2>7, <2>8, <2>9, <2>10,
       <2>11, <2>12
   DEF Process
<1>4. CASE UNCHANGED vars
  BY <1>4 DEF vars, procs, cleaning, ProcessesOK
<1> QED BY <1>1, <1>2, <1>3, <1>4 DEF Next

\* The state of the connections keeps its types: running stays above zero because the
\* transport that ends was counted.
LEMMA EntryTypes ==
    ASSUME ServerInv, [Next]_vars
    PROVE  EntriesOK'
<1> USE DEF ServerInv, TypeOK
<1>1. ASSUME NEW b \in Attempts, Transport(b) PROVE EntriesOK'
  <2>1. CASE \E p \in Processes, d \in Conns, i \in Addresses : NewConn(b, p, d, i)
    <3> PICK p \in Processes, d \in Conns, i \in Addresses : NewConn(b, p, d, i)
      BY <2>1
    <3>1. Unmap(i) \in AddressType
      BY ServerAssumption DEF Unmap, AddressType, Invalid
    <3> QED BY <3>1 DEF NewConn, Goto, Arrives, disk, EntriesOK
  <2>2. CASE Bind(b)
    <3>1. conn[b] \in Conns
      BY <2>2 DEF Bind, Places, PlaceAt
    <3> QED BY <2>2, <3>1 DEF Bind, Goto, timers, entries, EntriesOK
  <2>3. CASE Listen(b)
    <3>1. conn[b] \in Conns
      BY <2>3 DEF Listen, Places, PlaceAt
    <3> QED BY <2>3, <3>1 DEF Listen, Goto, timers, entries, EntriesOK
  <2>4. CASE StartServer(b)
    <3>1. conn[b] \in Conns
      BY <2>4 DEF StartServer, Places, PlaceAt
    <3> QED BY <2>4, <3>1 DEF StartServer, Goto, increaseRunning, disk, EntriesOK
  <2>5. CASE RunFirst(b)
    <3>1. conn[b] \in Conns
      BY <2>5 DEF RunFirst, Places, PlaceAt
    <3> QED BY <2>5, <3>1 DEF RunFirst, Goto, timers, disk, EntriesOK
  <2>6. CASE CountRun(b)
    <3>1. conn[b] \in Conns
      BY <2>6 DEF CountRun, Places, PlaceAt
    <3> QED BY <2>6, <3>1 DEF CountRun, Goto, increaseRunning, entries, disk, EntriesOK
  <2>7. CASE EndRun(b)
    <3>1. conn[b] \in Conns /\ b \in Using(conn[b])
      BY <2>7 DEF EndRun, Places, PlaceAt, Using
    <3>2. running[conn[b]] - 1 \in Nat
      BY <3>1, UsedPositive
    <3> QED BY <2>7, <3>1, <3>2 DEF EndRun, Goto, decreaseRunning, entries, disk,
         EntriesOK
  <2>8. CASE \/ NoListener(b) \/ RefuseAddress(b) \/ AcceptAddress(b)
             \/ ExchangeFails(b) \/ Run(b) \/ DialHandover(b) \/ NotFound(b)
             \/ HandoverRefused(b) \/ AcceptHandover(b)
             \/ (\E p \in Processes, d \in Conns, i \in Addresses : Lookup(b, p, d, i))
    BY <2>8 DEF Lookup, Goto, Arrives, timers, entries, disk, NoListener,
         RefuseAddress, AcceptAddress, ExchangeFails, Run, DialHandover, NotFound,
         HandoverRefused, AcceptHandover, EntriesOK
  <2> QED BY <1>1, <2>1, <2>2, <2>3, <2>4, <2>5, <2>6, <2>7, <2>8 DEF Transport
<1>2. ASSUME NEW d \in Conns, Connection(d) PROVE EntriesOK'
  <2>1. CASE Expire(d)
    BY <2>1 DEF Expire, entries, disk, EntriesOK
  <2>2. CASE CloseExpired(d)
    BY <2>2 DEF CloseExpired, disk, EntriesOK
  <2>3. CASE ServerReturns(d)
    BY <2>3 DEF ServerReturns, ServerAt, timers, disk, EntriesOK
  <2>4. CASE CountServer(d)
    BY <2>4 DEF CountServer, ServerAt, increaseRunning, disk, EntriesOK
  <2>5. CASE DeleteEntry(d)
    BY <2>5 DEF DeleteEntry, ServerAt, timers, disk, EntriesOK
  <2>6. CASE HandoverCancel(d)
    BY <2>6 DEF HandoverCancel, ServerAt, timers, disk, EntriesOK
  <2>7. CASE CloseServed(d)
    BY <2>7 DEF CloseServed, ServerAt, timers, disk, EntriesOK
  <2>8. CASE CloseListener(d) \/ AcceptFails(d)
    BY <2>8 DEF CloseListener, AcceptFails, timers, entries, EntriesOK
  <2> QED BY <1>2, <2>1, <2>2, <2>3, <2>4, <2>5, <2>6, <2>7, <2>8 DEF Connection
<1>3. ASSUME NEW q \in Processes, Process(q) PROVE EntriesOK'
  <2>1. CASE Crash(q)
    BY <2>1 DEF Crash, EntriesOK
  <2>2. CASE \E d \in Conns : RemoveSocket(q, d)
    BY <2>2 DEF RemoveSocket, timers, entries, EntriesOK
  <2>3. CASE \/ ListSockets(q) \/ ListFails(q) \/ NothingFound(q) \/ Delay(q)
             \/ DelayOver(q) \/ Canceled(q) \/ StartRemoval(q) \/ CleanupDone(q)
             \/ (\E d \in Conns : Probe(q, d))
             \/ (\E d \in Conns : ProbeFails(q, d))
    BY <2>3 DEF ListSockets, CleanupTo, timers, entries, disk, ListFails,
         NothingFound, Delay, DelayOver, Canceled, StartRemoval, CleanupDone, Probe,
         ProbeFails, EntriesOK
  <2> QED BY <1>3, <2>1, <2>2, <2>3 DEF Process
<1>4. CASE UNCHANGED vars
  BY <1>4 DEF vars, timers, entries, disk, EntriesOK
<1> QED BY <1>1, <1>2, <1>3, <1>4 DEF Next

\* The conversions of an address give an address.
LEMMA AddressFacts ==
    ASSUME NEW i \in Addresses \cup {Invalid}
    PROVE  /\ i \in AddressType
           /\ Unmap(i) \in AddressType /\ Forwarded(i) \in AddressType
           /\ i = Invalid => Unmap(i) = Invalid /\ Forwarded(i).form = "6"
           /\ i # Invalid =>
                /\ i.host \in Hosts
                /\ Unmap(i) = [host |-> i.host, form |-> "4"]
                /\ Forwarded(i) = [host |-> i.host, form |-> "4"]
<1>1. CASE i = Invalid
  BY <1>1 DEF Unmap, As16, Forwarded, AddressType, Invalid
<1>2. CASE i # Invalid
  <2>1. i \in [host : Hosts, form : {"4", "4in6"}]
    BY <1>2, ServerAssumption
  <2>2. i.host \in Hosts /\ i.form \in {"4", "4in6"} /\ i = [host |-> i.host,
       form |-> i.form]
    BY <2>1
  <2>3. CASE i.form = "4"
    BY <1>2, <2>2, <2>3 DEF Unmap, As16, Forwarded, AddressType
  <2>4. CASE i.form = "4in6"
    BY <1>2, <2>2, <2>4 DEF Unmap, As16, Forwarded, AddressType
  <2> QED BY <2>2, <2>3, <2>4
<1> QED BY <1>1, <1>2

\* The state of the transports keeps its types.
LEMMA AttemptTypes ==
    ASSUME ServerInv, [Next]_vars
    PROVE  AttemptsOK'
<1> USE DEF ServerInv, TypeOK
<1>1. ASSUME NEW b \in Attempts, Transport(b) PROVE AttemptsOK'
  <2>1. CASE \E p \in Processes, d \in Conns, i \in Addresses : NewConn(b, p, d, i)
    <3> PICK p \in Processes, d \in Conns, i \in Addresses : NewConn(b, p, d, i)
      BY <2>1
    <3>1. i \in AddressType /\ Unmap(i) \in AddressType
      BY AddressFacts
    <3> QED BY <3>1 DEF NewConn, Goto, Arrives, AttemptsOK, Labels
  <2>2. CASE \E p \in Processes, d \in Conns, i \in Addresses : Lookup(b, p, d, i)
    <3> PICK p \in Processes, d \in Conns, i \in Addresses : Lookup(b, p, d, i)
      BY <2>2
    <3>1. i \in AddressType /\ Unmap(i) \in AddressType
      BY AddressFacts
    <3> QED BY <3>1 DEF Lookup, Goto, Arrives, AttemptsOK, Labels
  <2>3. CASE Bind(b)
    BY <2>3 DEF Bind, Goto, AttemptsOK, Labels
  <2>4. CASE NoListener(b)
    BY <2>4 DEF NoListener, Goto, AttemptsOK, Labels
  <2>5. CASE Listen(b)
    BY <2>5 DEF Listen, Goto, AttemptsOK, Labels
  <2>6. CASE StartServer(b)
    BY <2>6 DEF StartServer, Goto, increaseRunning, AttemptsOK, Labels
  <2>7. CASE RunFirst(b)
    BY <2>7 DEF RunFirst, Goto, AttemptsOK, Labels
  <2>8. CASE RefuseAddress(b)
    BY <2>8 DEF RefuseAddress, Goto, AttemptsOK, Labels
  <2>9. CASE AcceptAddress(b)
    BY <2>9 DEF AcceptAddress, Goto, AttemptsOK, Labels
  <2>10. CASE ExchangeFails(b)
    BY <2>10 DEF ExchangeFails, Goto, AttemptsOK, Labels
  <2>11. CASE CountRun(b)
    BY <2>11 DEF CountRun, Goto, increaseRunning, AttemptsOK, Labels
  <2>12. CASE Run(b)
    BY <2>12 DEF Run, Goto, AttemptsOK, Labels
  <2>13. CASE EndRun(b)
    BY <2>13 DEF EndRun, Goto, decreaseRunning, AttemptsOK, Labels
  <2>14. CASE DialHandover(b)
    BY <2>14 DEF DialHandover, Goto, AttemptsOK, Labels
  <2>15. CASE NotFound(b)
    BY <2>15 DEF NotFound, Goto, AttemptsOK, Labels
  <2>16. CASE HandoverRefused(b)
    BY <2>16 DEF HandoverRefused, Goto, AttemptsOK, Labels
  <2>17. CASE AcceptHandover(b)
    <3>1. conn[b] \in Conns /\ owner[conn[b]] \in Processes
      BY <2>17 DEF AcceptHandover, Places, PlaceAt
    <3>2. Forwarded(source[b]) \in AddressType
      BY AddressFacts DEF AddressesKept, AddressAt
    <3> QED BY <2>17, <3>1, <3>2 DEF AcceptHandover, Goto, AttemptsOK, Labels
  <2> QED BY <1>1, <2>1, <2>2, <2>3, <2>4, <2>5, <2>6, <2>7, <2>8, <2>9, <2>10,
       <2>11, <2>12,
     <2>13, <2>14, <2>15, <2>16, <2>17
   DEF Transport
<1>2. ASSUME NEW d \in Conns, Connection(d) PROVE AttemptsOK'
  BY <1>2 DEF Connection, Expire, handling, CloseExpired, ServerReturns, ServerAt,
       CountServer, increaseRunning, DeleteEntry, HandoverCancel, CloseServed,
       CloseListener, AcceptFails, AttemptsOK, Labels
<1>3. ASSUME NEW q \in Processes, Process(q) PROVE AttemptsOK'
  <2>1. CASE Crash(q)
    BY <2>1 DEF Crash, AttemptsOK, Labels
  <2>2. CASE \/ ListSockets(q) \/ ListFails(q) \/ NothingFound(q) \/ Delay(q)
             \/ DelayOver(q) \/ Canceled(q) \/ StartRemoval(q) \/ CleanupDone(q)
             \/ (\E d \in Conns : Probe(q, d))
             \/ (\E d \in Conns : ProbeFails(q, d))
             \/ (\E d \in Conns : RemoveSocket(q, d))
    BY <2>2 DEF ListSockets, CleanupTo, handling, ListFails, NothingFound, Delay,
         DelayOver, Canceled, StartRemoval, CleanupDone, Probe, ProbeFails,
         RemoveSocket, AttemptsOK, Labels
  <2> QED BY <1>3, <2>1, <2>2 DEF Process
<1>4. CASE UNCHANGED vars
  BY <1>4 DEF vars, handling, AttemptsOK, Labels
<1> QED BY <1>1, <1>2, <1>3, <1>4 DEF Next

\* A transport works on an entry only in the process that owns it.
LEMMA PlacesStep ==
    ASSUME ServerInv, [Next]_vars
    PROVE  Places'
<1> USE ServerAssumption DEF ServerInv, TypeOK, ProcessesOK, EntriesOK, AttemptsOK,
     Places,
          Holding, Opening
<1> SUFFICES ASSUME NEW a \in Attempts PROVE PlaceAt(a)'
  OBVIOUS
<1>1. ASSUME NEW b \in Attempts, Transport(b) PROVE PlaceAt(a)'
  <2>1. CASE \E p \in Processes, d \in Conns, i \in Addresses : NewConn(b, p, d, i)
    BY <2>1 DEF NewConn, Goto, Arrives, PlaceAt
  <2>2. CASE \E p \in Processes, d \in Conns, i \in Addresses : Lookup(b, p, d, i)
    BY <2>2 DEF Owned, OwnedAt, Lookup, Goto, Arrives, procs, entries, PlaceAt
  <2>3. CASE Bind(b)
    BY <2>3 DEF Bind, Goto, procs, entries, PlaceAt
  <2>4. CASE NoListener(b)
    BY <2>4 DEF NoListener, Goto, procs, entries, PlaceAt
  <2>5. CASE Listen(b)
    BY <2>5 DEF Listen, Goto, procs, entries, PlaceAt
  <2>6. CASE StartServer(b)
    BY <2>6 DEF StartServer, Goto, increaseRunning, procs, PlaceAt
  <2>7. CASE RunFirst(b)
    BY <2>7 DEF RunFirst, Goto, procs, PlaceAt
  <2>8. CASE RefuseAddress(b)
    BY <2>8 DEF RefuseAddress, Goto, procs, entries, PlaceAt
  <2>9. CASE AcceptAddress(b)
    BY <2>9 DEF AcceptAddress, Goto, procs, entries, PlaceAt
  <2>10. CASE ExchangeFails(b)
    BY <2>10 DEF ExchangeFails, Goto, procs, entries, PlaceAt
  <2>11. CASE CountRun(b)
    BY <2>11 DEF CountRun, Goto, increaseRunning, procs, entries, PlaceAt
  <2>12. CASE Run(b)
    BY <2>12 DEF Run, Goto, procs, entries, PlaceAt
  <2>13. CASE EndRun(b)
    BY <2>13 DEF EndRun, Goto, decreaseRunning, procs, entries, PlaceAt
  <2>14. CASE DialHandover(b)
    BY <2>14 DEF DialHandover, Goto, procs, entries, PlaceAt
  <2>15. CASE NotFound(b)
    BY <2>15 DEF NotFound, Goto, procs, entries, PlaceAt
  <2>16. CASE HandoverRefused(b)
    BY <2>16 DEF HandoverRefused, Goto, procs, entries, PlaceAt
  <2>17. CASE AcceptHandover(b)
    BY <2>17 DEF Owned, OwnedAt, AcceptHandover, Goto, procs, entries, PlaceAt
  <2> QED BY <1>1, <2>1, <2>2, <2>3, <2>4, <2>5, <2>6, <2>7, <2>8, <2>9, <2>10,
       <2>11, <2>12,
     <2>13, <2>14, <2>15, <2>16, <2>17
   DEF Transport
<1>2. ASSUME NEW d \in Conns, Connection(d) PROVE PlaceAt(a)'
  BY <1>2 DEF Connection, Expire, procs, entries, handling, CloseExpired,
       ServerReturns, ServerAt, CountServer, increaseRunning, DeleteEntry,
       HandoverCancel, CloseServed, CloseListener, AcceptFails, PlaceAt
<1>3. ASSUME NEW q \in Processes, Process(q) PROVE PlaceAt(a)'
  <2>1. CASE Crash(q)
    <3>1. CASE at[a] = q
      BY <2>1, <3>1 DEF Crash, PlaceAt
    <3>2. CASE at[a] # q
      <4>1. /\ pc'[a] = pc[a] /\ conn'[a] = conn[a] /\ at'[a] = at[a]
            /\ owner' = owner
        BY <2>1, <3>2 DEF Crash
      <4>2. pc[a] \in Holding => alive'[at[a]] = alive[at[a]]
        BY <2>1, <3>2 DEF Crash, PlaceAt
      <4> QED BY <4>1, <4>2 DEF PlaceAt
    <3> QED BY <3>1, <3>2
  <2>2. CASE \/ ListSockets(q) \/ ListFails(q) \/ NothingFound(q) \/ Delay(q)
             \/ DelayOver(q) \/ Canceled(q) \/ StartRemoval(q) \/ CleanupDone(q)
             \/ (\E d \in Conns : Probe(q, d))
             \/ (\E d \in Conns : ProbeFails(q, d))
             \/ (\E d \in Conns : RemoveSocket(q, d))
    BY <2>2 DEF ListSockets, CleanupTo, procs, entries, handling, ListFails,
         NothingFound, Delay, DelayOver, Canceled, StartRemoval, CleanupDone, Probe,
         ProbeFails, RemoveSocket, PlaceAt
  <2> QED BY <1>3, <2>1, <2>2 DEF Process
<1>4. CASE UNCHANGED vars
  BY <1>4 DEF vars, procs, entries, handling, PlaceAt
<1> QED BY <1>1, <1>2, <1>3, <1>4 DEF Next

\* What is known of connections without a living owner, and of those in the table.
LEMMA OwnedStep ==
    ASSUME ServerInv, [Next]_vars
    PROVE  Owned'
<1> USE ServerAssumption DEF ServerInv, TypeOK, ProcessesOK, EntriesOK, AttemptsOK,
     Owned
<1> SUFFICES ASSUME NEW c \in Conns PROVE OwnedAt(c)'
  OBVIOUS
<1>1. ASSUME NEW b \in Attempts, Transport(b) PROVE OwnedAt(c)'
  <2>1. CASE \E p \in Processes, d \in Conns, i \in Addresses : NewConn(b, p, d, i)
    <3> PICK p \in Processes, d \in Conns, i \in Addresses : NewConn(b, p, d, i)
      BY <2>1
    <3>1. i # Invalid => Unmap(i) # Invalid
      BY AddressFacts DEF Invalid
    <3> QED BY <3>1 DEF NewConn, Goto, Arrives, disk, OwnedAt
  <2>2. CASE Bind(b)
    BY <2>2 DEF Places, PlaceAt, Openers, OpenerAt, Holding, Opening, Bind, Goto,
         procs, timers, entries, OwnedAt
  <2>3. CASE Listen(b)
    BY <2>3 DEF Places, PlaceAt, Openers, OpenerAt, Holding, Opening, Listen, Goto,
         procs, timers, entries, OwnedAt
  <2>4. CASE StartServer(b)
    BY <2>4 DEF Places, PlaceAt, Openers, OpenerAt, Holding, Opening, StartServer,
         Goto, increaseRunning, procs, disk, OwnedAt
  <2>5. CASE CountRun(b)
    BY <2>5 DEF Places, PlaceAt, Openers, OpenerAt, Holding, Opening, CountRun, Goto,
         increaseRunning, procs, entries, disk, OwnedAt
  <2>6. CASE EndRun(b)
    BY <2>6 DEF Places, PlaceAt, Openers, OpenerAt, Holding, Opening, EndRun, Goto,
         decreaseRunning, procs, entries, disk, OwnedAt
  <2>7. CASE \/ NoListener(b) \/ RunFirst(b) \/ RefuseAddress(b) \/ AcceptAddress(b)
             \/ ExchangeFails(b) \/ Run(b) \/ DialHandover(b) \/ NotFound(b)
             \/ HandoverRefused(b) \/ AcceptHandover(b)
             \/ (\E p \in Processes, d \in Conns, i \in Addresses : Lookup(b, p, d, i))
    BY <2>7 DEF Lookup, Goto, Arrives, procs, timers, entries, disk, NoListener,
         RunFirst, RefuseAddress, AcceptAddress, ExchangeFails, Run, DialHandover,
         NotFound, HandoverRefused, AcceptHandover, OwnedAt
  <2> QED BY <1>1, <2>1, <2>2, <2>3, <2>4, <2>5, <2>6, <2>7 DEF Transport
<1>2. ASSUME NEW d \in Conns, Connection(d) PROVE OwnedAt(c)'
  <2>1. CASE Expire(d)
    BY <2>1 DEF Expire, procs, entries, disk, OwnedAt
  <2>2. CASE CloseExpired(d)
    BY <2>2 DEF CloseExpired, procs, disk, OwnedAt
  <2>3. CASE ServerReturns(d)
    BY <2>3 DEF ServerReturns, ServerAt, procs, timers, disk, OwnedAt
  <2>4. CASE CountServer(d)
    BY <2>4 DEF CountServer, ServerAt, increaseRunning, procs, disk, OwnedAt
  <2>5. CASE DeleteEntry(d)
    BY <2>5 DEF DeleteEntry, ServerAt, timers, disk, OwnedAt
  <2>6. CASE HandoverCancel(d)
    BY <2>6 DEF HandoverCancel, ServerAt, procs, timers, disk, OwnedAt
  <2>7. CASE CloseServed(d)
    BY <2>7 DEF CloseServed, ServerAt, procs, timers, disk, OwnedAt
  <2>8. CASE CloseListener(d) \/ AcceptFails(d)
    BY <2>8 DEF CloseListener, AcceptFails, procs, timers, entries, OwnedAt
  <2> QED BY <1>2, <2>1, <2>2, <2>3, <2>4, <2>5, <2>6, <2>7, <2>8 DEF Connection
<1>3. ASSUME NEW q \in Processes, Process(q) PROVE OwnedAt(c)'
  <2>1. CASE Crash(q)
    BY <2>1 DEF Crash, OwnedAt
  <2>2. CASE \/ ListSockets(q) \/ ListFails(q) \/ NothingFound(q) \/ Delay(q)
             \/ DelayOver(q) \/ Canceled(q) \/ StartRemoval(q) \/ CleanupDone(q)
             \/ (\E d \in Conns : Probe(q, d))
             \/ (\E d \in Conns : ProbeFails(q, d))
             \/ (\E d \in Conns : RemoveSocket(q, d))
    BY <2>2 DEF ListSockets, CleanupTo, procs, timers, entries, disk, ListFails,
         NothingFound, Delay, DelayOver, Canceled, StartRemoval, CleanupDone, Probe,
         ProbeFails, RemoveSocket, OwnedAt
  <2> QED BY <1>3, <2>1, <2>2 DEF Process
<1>4. CASE UNCHANGED vars
  BY <1>4 DEF vars, procs, timers, entries, disk, OwnedAt
<1> QED BY <1>1, <1>2, <1>3, <1>4 DEF Next

\* A connection is opened by one transport.
LEMMA OpenersStep ==
    ASSUME ServerInv, [Next]_vars
    PROVE  Openers'
<1> USE DEF ServerInv, TypeOK, ProcessesOK, EntriesOK, AttemptsOK, Openers, Places,
     PlaceAt,
          Owned, OwnedAt, Opening, Holding
<1> SUFFICES ASSUME NEW a \in Attempts PROVE OpenerAt(a)'
  OBVIOUS
<1>1. ASSUME NEW b \in Attempts, Transport(b) PROVE OpenerAt(a)'
  <2>1. CASE \E p \in Processes, d \in Conns, i \in Addresses : NewConn(b, p, d, i)
    <3> PICK p \in Processes, d \in Conns, i \in Addresses : NewConn(b, p, d, i)
      BY <2>1
    <3>1. i # Invalid => Unmap(i) # Invalid
      BY AddressFacts DEF Invalid
    <3> QED BY <3>1, ServerAssumption DEF NewConn, Goto, Arrives, disk, OpenerAt
  <2>2. CASE \E p \in Processes, d \in Conns, i \in Addresses : Lookup(b, p, d, i)
    BY <2>2 DEF Lookup, Goto, Arrives, entries, disk, OpenerAt
  <2>3. CASE Bind(b)
    BY <2>3 DEF Bind, Goto, entries, OpenerAt
  <2>4. CASE NoListener(b)
    BY <2>4 DEF NoListener, Goto, entries, disk, OpenerAt
  <2>5. CASE Listen(b)
    BY <2>5 DEF Listen, Goto, entries, OpenerAt
  <2>6. CASE StartServer(b)
    BY <2>6 DEF StartServer, Goto, increaseRunning, disk, OpenerAt
  <2>7. CASE RunFirst(b)
    BY <2>7 DEF RunFirst, Goto, disk, OpenerAt
  <2>8. CASE RefuseAddress(b)
    BY <2>8 DEF RefuseAddress, Goto, entries, disk, OpenerAt
  <2>9. CASE AcceptAddress(b)
    BY <2>9 DEF AcceptAddress, Goto, entries, disk, OpenerAt
  <2>10. CASE ExchangeFails(b)
    BY <2>10 DEF ExchangeFails, Goto, entries, disk, OpenerAt
  <2>11. CASE CountRun(b)
    BY <2>11 DEF CountRun, Goto, increaseRunning, entries, disk, OpenerAt
  <2>12. CASE Run(b)
    BY <2>12 DEF Run, Goto, entries, disk, OpenerAt
  <2>13. CASE EndRun(b)
    BY <2>13 DEF EndRun, Goto, decreaseRunning, entries, disk, OpenerAt
  <2>14. CASE DialHandover(b)
    BY <2>14 DEF DialHandover, Goto, entries, disk, OpenerAt
  <2>15. CASE NotFound(b)
    BY <2>15 DEF NotFound, Goto, entries, disk, OpenerAt
  <2>16. CASE HandoverRefused(b)
    BY <2>16 DEF HandoverRefused, Goto, entries, disk, OpenerAt
  <2>17. CASE AcceptHandover(b)
    BY <2>17 DEF AcceptHandover, Goto, entries, disk, OpenerAt
  <2> QED BY <1>1, <2>1, <2>2, <2>3, <2>4, <2>5, <2>6, <2>7, <2>8, <2>9, <2>10,
       <2>11, <2>12,
     <2>13, <2>14, <2>15, <2>16, <2>17
   DEF Transport
<1>2. ASSUME NEW d \in Conns, Connection(d) PROVE OpenerAt(a)'
  <2>1. CASE ServerReturns(d)
    BY <2>1 DEF ServerReturns, ServerAt, disk, handling, OpenerAt
  <2>2. CASE CountServer(d)
    BY <2>2 DEF CountServer, ServerAt, increaseRunning, disk, handling, OpenerAt
  <2>3. CASE DeleteEntry(d)
    BY <2>3 DEF DeleteEntry, ServerAt, disk, handling, OpenerAt
  <2>4. CASE HandoverCancel(d)
    BY <2>4 DEF HandoverCancel, ServerAt, disk, handling, OpenerAt
  <2>5. CASE CloseServed(d)
    BY <2>5 DEF CloseServed, ServerAt, disk, handling, OpenerAt
  <2>6. CASE CloseListener(d) \/ AcceptFails(d)
    BY <2>6 DEF CloseListener, AcceptFails, entries, handling, OpenerAt
  <2>7. CASE Expire(d) \/ CloseExpired(d)
    BY <2>7 DEF Expire, entries, disk, handling, CloseExpired, OpenerAt
  <2> QED BY <1>2, <2>1, <2>2, <2>3, <2>4, <2>5, <2>6, <2>7 DEF Connection
<1>3. ASSUME NEW q \in Processes, Process(q) PROVE OpenerAt(a)'
  <2>1. CASE Crash(q)
    BY <2>1 DEF Crash, OpenerAt
  <2>2. CASE \/ ListSockets(q) \/ ListFails(q) \/ NothingFound(q) \/ Delay(q)
             \/ DelayOver(q) \/ Canceled(q) \/ StartRemoval(q) \/ CleanupDone(q)
             \/ (\E d \in Conns : Probe(q, d))
             \/ (\E d \in Conns : ProbeFails(q, d))
             \/ (\E d \in Conns : RemoveSocket(q, d))
    BY <2>2 DEF ListSockets, CleanupTo, entries, disk, handling, ListFails,
         NothingFound, Delay, DelayOver, Canceled, StartRemoval, CleanupDone, Probe,
         ProbeFails, RemoveSocket, OpenerAt
  <2> QED BY <1>3, <2>1, <2>2 DEF Process
<1>4. CASE UNCHANGED vars
  BY <1>4 DEF vars, entries, disk, handling, OpenerAt
<1> QED BY <1>1, <1>2, <1>3, <1>4 DEF Next

\* running stays exact: every transport that starts or stops using a connection, and the
\* end of its session, is counted once.
LEMMA RunningStep ==
    ASSUME ServerInv, [Next]_vars
    PROVE  RunningExact'
<1> USE DEF ServerInv, TypeOK, ProcessesOK, EntriesOK, AttemptsOK, RunningExact,
     RunningAt
<1> SUFFICES ASSUME NEW c \in Conns PROVE RunningAt(c)'
  OBVIOUS
<1>1. ASSUME NEW b \in Attempts, Transport(b) PROVE RunningAt(c)'
  <2>1. CASE \E p \in Processes, d \in Conns, i \in Addresses : NewConn(b, p, d, i)
    <3> PICK p \in Processes, d \in Conns, i \in Addresses : NewConn(b, p, d, i)
      BY <2>1
    <3>1. Using(c)' = Using(c)
      BY DEF Using, NewConn, Goto, Arrives
    <3> QED BY <3>1 DEF ServerOver, NewConn, Goto, Arrives
  <2>2. CASE \E p \in Processes, d \in Conns, i \in Addresses : Lookup(b, p, d, i)
    <3> PICK p \in Processes, d \in Conns, i \in Addresses : Lookup(b, p, d, i)
      BY <2>2
    <3>1. Using(c)' = Using(c)
      BY DEF Using, Lookup, Goto, Arrives, timers, entries
    <3> QED BY <3>1 DEF ServerOver, Lookup, Goto, Arrives, timers, entries
  <2>3. CASE Bind(b)
    <3>1. Using(c)' = Using(c)
      BY <2>3 DEF Using, Bind, Goto, timers, entries
    <3> QED BY <2>3, <3>1 DEF ServerOver, Bind, Goto, timers, entries
  <2>4. CASE NoListener(b)
    <3>1. Using(c)' = Using(c)
      BY <2>4 DEF Using, NoListener, Goto, timers, entries
    <3> QED BY <2>4, <3>1 DEF ServerOver, NoListener, Goto, timers, entries
  <2>5. CASE Listen(b)
    <3>1. Using(c)' = Using(c)
      BY <2>5 DEF Using, Listen, Goto, timers, entries
    <3> QED BY <2>5, <3>1 DEF ServerOver, Listen, Goto, timers, entries
  <2>6. CASE StartServer(b)
    <3>1. conn[b] \in Conns /\ b \notin Using(conn[b]) /\ ~ServerOver(conn[b])
      BY <2>6 DEF StartServer, Openers, OpenerAt, Using, ServerOver, Places, PlaceAt
    <3>2. /\ c = conn[b] => Using(c)' = Using(c) \cup {b}
          /\ c # conn[b] => Using(c)' = Using(c)
      BY <2>6, <3>1 DEF Using, StartServer, Goto, increaseRunning
    <3>3. ServerOver(c)' = ServerOver(c)
      BY <2>6, <3>1 DEF ServerOver, StartServer, Goto, increaseRunning
    <3>4. c = conn[b] => Cardinality(Using(c)') = Cardinality(Using(c)) + 1
      BY <3>1, <3>2, UsingOneMore
    <3>5. running' = [running EXCEPT ![conn[b]] = @ + 1]
      BY <2>6 DEF StartServer, Goto, increaseRunning
    <3> QED BY <3>1, <3>2, <3>3, <3>4, <3>5, UsingFacts
  <2>7. CASE RunFirst(b)
    <3>1. Using(c)' = Using(c)
      BY <2>7 DEF Using, RunFirst, Goto, timers
    <3> QED BY <2>7, <3>1 DEF ServerOver, RunFirst, Goto, timers
  <2>8. CASE RefuseAddress(b)
    <3>1. Using(c)' = Using(c)
      BY <2>8 DEF Using, RefuseAddress, Goto, timers, entries
    <3> QED BY <2>8, <3>1 DEF ServerOver, RefuseAddress, Goto, timers, entries
  <2>9. CASE AcceptAddress(b)
    <3>1. Using(c)' = Using(c)
      BY <2>9 DEF Using, AcceptAddress, Goto, timers, entries
    <3> QED BY <2>9, <3>1 DEF ServerOver, AcceptAddress, Goto, timers, entries
  <2>10. CASE ExchangeFails(b)
    <3>1. Using(c)' = Using(c)
      BY <2>10 DEF Using, ExchangeFails, Goto, timers, entries
    <3> QED BY <2>10, <3>1 DEF ServerOver, ExchangeFails, Goto, timers, entries
  <2>11. CASE CountRun(b)
    <3>1. conn[b] \in Conns /\ b \notin Using(conn[b])
      BY <2>11 DEF CountRun, Using, Places, PlaceAt
    <3>2. /\ c = conn[b] => Using(c)' = Using(c) \cup {b}
          /\ c # conn[b] => Using(c)' = Using(c)
      BY <2>11, <3>1 DEF Using, CountRun, Goto, increaseRunning, entries
    <3>3. ServerOver(c)' = ServerOver(c)
      BY <2>11, <3>1 DEF ServerOver, CountRun, Goto, increaseRunning, entries
    <3>4. c = conn[b] => Cardinality(Using(c)') = Cardinality(Using(c)) + 1
      BY <3>1, <3>2, UsingOneMore
    <3>5. running' = [running EXCEPT ![conn[b]] = @ + 1]
      BY <2>11 DEF CountRun, Goto, increaseRunning, entries
    <3> QED BY <3>1, <3>2, <3>3, <3>4, <3>5, UsingFacts
  <2>12. CASE Run(b)
    <3>1. Using(c)' = Using(c)
      BY <2>12 DEF Using, Run, Goto, timers, entries
    <3> QED BY <2>12, <3>1 DEF ServerOver, Run, Goto, timers, entries
  <2>13. CASE EndRun(b)
    <3>1. conn[b] \in Conns /\ b \in Using(conn[b])
      BY <2>13 DEF EndRun, Using, Places, PlaceAt
    <3>2. /\ c = conn[b] => Using(c)' = Using(c) \ {b}
          /\ c # conn[b] => Using(c)' = Using(c)
      BY <2>13, <3>1 DEF Using, EndRun, Goto, decreaseRunning, entries
    <3>3. ServerOver(c)' = ServerOver(c)
      BY <2>13, <3>1 DEF ServerOver, EndRun, Goto, decreaseRunning, entries
    <3>4. c = conn[b] => Cardinality(Using(c)') = Cardinality(Using(c)) - 1
      BY <3>1, <3>2, UsingOneLess
    <3>5. running' = [running EXCEPT ![conn[b]] = @ - 1]
      BY <2>13 DEF EndRun, Goto, decreaseRunning, entries
    <3> QED BY <3>1, <3>2, <3>3, <3>4, <3>5, UsingFacts
  <2>14. CASE DialHandover(b)
    <3>1. Using(c)' = Using(c)
      BY <2>14 DEF Using, DialHandover, Goto, timers, entries
    <3> QED BY <2>14, <3>1 DEF ServerOver, DialHandover, Goto, timers, entries
  <2>15. CASE NotFound(b)
    <3>1. Using(c)' = Using(c)
      BY <2>15 DEF Using, NotFound, Goto, timers, entries
    <3> QED BY <2>15, <3>1 DEF ServerOver, NotFound, Goto, timers, entries
  <2>16. CASE HandoverRefused(b)
    <3>1. Using(c)' = Using(c)
      BY <2>16 DEF Using, HandoverRefused, Goto, timers, entries
    <3> QED BY <2>16, <3>1 DEF ServerOver, HandoverRefused, Goto, timers, entries
  <2>17. CASE AcceptHandover(b)
    <3>1. Using(c)' = Using(c)
      BY <2>17 DEF Using, AcceptHandover, Goto, timers, entries
    <3> QED BY <2>17, <3>1 DEF ServerOver, AcceptHandover, Goto, timers, entries
  <2> QED BY <1>1, <2>1, <2>2, <2>3, <2>4, <2>5, <2>6, <2>7, <2>8, <2>9, <2>10,
       <2>11, <2>12,
     <2>13, <2>14, <2>15, <2>16, <2>17
   DEF Transport
<1>2. ASSUME NEW d \in Conns, Connection(d) PROVE RunningAt(c)'
  <2>1. CASE ServerReturns(d)
    <3>1. Using(c)' = Using(c)
      BY <2>1 DEF Using, ServerReturns, ServerAt, timers, handling
    <3> QED BY <2>1, <3>1 DEF ServerOver, ServerReturns, ServerAt, timers, handling
  <2>2. CASE CountServer(d)
    <3>1. Using(c)' = Using(c)
      BY <2>2 DEF Using, CountServer, ServerAt, increaseRunning, handling
    <3> QED BY <2>2, <3>1, UsingFacts DEF ServerOver, CountServer, ServerAt,
         increaseRunning, handling
  <2>3. CASE DeleteEntry(d)
    <3>1. Using(c)' = Using(c)
      BY <2>3 DEF Using, DeleteEntry, ServerAt, timers, handling
    <3> QED BY <2>3, <3>1 DEF ServerOver, DeleteEntry, ServerAt, timers, handling
  <2>4. CASE HandoverCancel(d)
    <3>1. Using(c)' = Using(c)
      BY <2>4 DEF Using, HandoverCancel, ServerAt, timers, handling
    <3> QED BY <2>4, <3>1 DEF ServerOver, HandoverCancel, ServerAt, timers, handling
  <2>5. CASE CloseServed(d)
    <3>1. Using(c)' = Using(c)
      BY <2>5 DEF Using, CloseServed, ServerAt, timers, handling
    <3> QED BY <2>5, <3>1 DEF ServerOver, CloseServed, ServerAt, timers, handling
  <2>6. CASE Expire(d) \/ CloseExpired(d) \/ CloseListener(d) \/ AcceptFails(d)
    <3>1. UNCHANGED <<running, pc, conn, server>>
      BY <2>6 DEF Expire, entries, handling, CloseExpired, CloseListener, AcceptFails, timers
    <3> QED BY <3>1, UsingSame DEF ServerOver
  <2> QED BY <1>2, <2>1, <2>2, <2>3, <2>4, <2>5, <2>6 DEF Connection
<1>3. ASSUME NEW q \in Processes, Process(q) PROVE RunningAt(c)'
  <2>1. CASE Crash(q)
    <3>1. CASE owner[c] = q
      <4>1. Using(c)' = {}
        BY <2>1, <3>1 DEF Using, Places, PlaceAt, Holding, Opening, Crash
      <4>2. Cardinality(Using(c)') = 0
        BY <4>1, UsingFactsNext
      <4>3. running'[c] = 0 /\ ~ServerOver(c)'
        BY <2>1, <3>1 DEF ServerOver, Crash
      <4> QED BY <4>2, <4>3
    <3>2. CASE owner[c] # q
      <4>1. Using(c)' = Using(c)
        BY <2>1, <3>2 DEF Using, Places, PlaceAt, Holding, Opening, Crash
      <4> QED BY <2>1, <3>2, <4>1 DEF ServerOver, Crash
    <3> QED BY <3>1, <3>2
  <2>2. CASE \/ ListSockets(q) \/ ListFails(q) \/ NothingFound(q) \/ Delay(q)
             \/ DelayOver(q) \/ Canceled(q) \/ StartRemoval(q) \/ CleanupDone(q)
             \/ (\E d \in Conns : Probe(q, d))
             \/ (\E d \in Conns : ProbeFails(q, d))
             \/ (\E d \in Conns : RemoveSocket(q, d))
    <3>1. UNCHANGED <<running, pc, conn, server>>
      BY <2>2 DEF ListSockets, CleanupTo, timers, entries, handling, ListFails,
           NothingFound, Delay, DelayOver, Canceled, StartRemoval, CleanupDone,
           Probe, ProbeFails, RemoveSocket
    <3> QED BY <3>1, UsingSame DEF ServerOver
  <2> QED BY <1>3, <2>1, <2>2 DEF Process
<1>4. CASE UNCHANGED vars
  <2>1. UNCHANGED <<running, pc, conn, server>>
    BY <1>4 DEF vars, timers, entries, handling
  <2> QED BY <2>1, UsingSame DEF ServerOver
<1> QED BY <1>1, <1>2, <1>3, <1>4 DEF Next

\* The timer and the count stay in step.
LEMMA GraceStep ==
    ASSUME ServerInv, [Next]_vars
    PROVE  GraceCount'
<1> USE ServerAssumption DEF ServerInv, TypeOK, ProcessesOK, EntriesOK, AttemptsOK,
     GraceCount,
          Owned, OwnedAt, Places, PlaceAt, Holding, Opening
<1> SUFFICES ASSUME NEW c \in Conns PROVE GraceAt(c)'
  OBVIOUS
<1>1. ASSUME NEW b \in Attempts, Transport(b) PROVE GraceAt(c)'
  <2>1. CASE \E p \in Processes, d \in Conns, i \in Addresses : NewConn(b, p, d, i)
    BY <2>1 DEF NewConn, Goto, Arrives, GraceAt
  <2>2. CASE StartServer(b)
    BY <2>2 DEF StartServer, Goto, increaseRunning, procs, GraceAt
  <2>3. CASE CountRun(b)
    BY <2>3 DEF CountRun, Goto, increaseRunning, procs, entries, GraceAt
  <2>4. CASE EndRun(b)
    <3>1. conn[b] \in Conns /\ b \in Using(conn[b])
      BY <2>4 DEF EndRun, Using
    <3>2. running[conn[b]] \in Nat /\ running[conn[b]] >= 1
      BY <3>1, UsedPositive
    <3> QED BY <2>4, <3>1, <3>2 DEF EndRun, Goto, decreaseRunning, procs, entries,
         GraceAt
  <2>5. CASE \/ Bind(b) \/ NoListener(b) \/ Listen(b) \/ RunFirst(b)
             \/ RefuseAddress(b) \/ AcceptAddress(b) \/ ExchangeFails(b) \/ Run(b)
             \/ DialHandover(b) \/ NotFound(b) \/ HandoverRefused(b)
             \/ AcceptHandover(b)
             \/ (\E p \in Processes, d \in Conns, i \in Addresses : Lookup(b, p, d, i))
    BY <2>5 DEF Lookup, Goto, Arrives, procs, timers, entries, Bind, NoListener,
         Listen, RunFirst, RefuseAddress, AcceptAddress, ExchangeFails, Run,
         DialHandover, NotFound, HandoverRefused, AcceptHandover, GraceAt
  <2> QED BY <1>1, <2>1, <2>2, <2>3, <2>4, <2>5 DEF Transport
<1>2. ASSUME NEW d \in Conns, Connection(d) PROVE GraceAt(c)'
  <2>1. CASE Expire(d)
    BY <2>1 DEF Expire, procs, entries, GraceAt
  <2>2. CASE CloseExpired(d)
    BY <2>2 DEF CloseExpired, procs, GraceAt
  <2>3. CASE CountServer(d)
    BY <2>3 DEF CountServer, ServerAt, increaseRunning, procs, GraceAt
  <2>4. CASE CloseServed(d)
    BY <2>4 DEF CloseServed, ServerAt, procs, timers, GraceAt
  <2>5. CASE \/ ServerReturns(d) \/ DeleteEntry(d) \/ HandoverCancel(d)
             \/ CloseListener(d) \/ AcceptFails(d)
    BY <2>5 DEF ServerReturns, ServerAt, procs, timers, DeleteEntry, HandoverCancel,
         CloseListener, AcceptFails, entries, GraceAt
  <2> QED BY <1>2, <2>1, <2>2, <2>3, <2>4, <2>5 DEF Connection
<1>3. ASSUME NEW q \in Processes, Process(q) PROVE GraceAt(c)'
  <2>1. CASE Crash(q)
    BY <2>1 DEF Crash, GraceAt
  <2>2. CASE \/ ListSockets(q) \/ ListFails(q) \/ NothingFound(q) \/ Delay(q)
             \/ DelayOver(q) \/ Canceled(q) \/ StartRemoval(q) \/ CleanupDone(q)
             \/ (\E d \in Conns : Probe(q, d))
             \/ (\E d \in Conns : ProbeFails(q, d))
             \/ (\E d \in Conns : RemoveSocket(q, d))
    BY <2>2 DEF ListSockets, CleanupTo, procs, timers, entries, ListFails,
         NothingFound, Delay, DelayOver, Canceled, StartRemoval, CleanupDone, Probe,
         ProbeFails, RemoveSocket, GraceAt
  <2> QED BY <1>3, <2>1, <2>2 DEF Process
<1>4. CASE UNCHANGED vars
  BY <1>4 DEF vars, procs, timers, entries, GraceAt
<1> QED BY <1>1, <1>2, <1>3, <1>4 DEF Next

\* A connection is idle exactly when its process lives and its count is zero.
LEMMA IdleCounted ==
    ASSUME ServerInv, NEW c \in Conns
    PROVE  Idle(c) <=> owner[c] \in Processes /\ alive[owner[c]] /\ running[c] = 0
<1>1. running[c] = Cardinality(Using(c)) + (IF ServerOver(c) THEN 1 ELSE 0)
  BY DEF ServerInv, RunningExact, RunningAt
<1>2. Cardinality(Using(c)) \in Nat /\ (Cardinality(Using(c)) = 0 <=> Using(c) = {})
  BY UsingFacts
<1>3. running[c] = 0 <=> Using(c) = {} /\ ~ServerOver(c)
  BY <1>1, <1>2
<1> QED BY <1>3 DEF Idle

\* A cleanup takes away no socket that has a listener.
LEMMA SocketsStep ==
    ASSUME ServerInv, [Next]_vars
    PROVE  SocketsKept'
<1> USE DEF ServerInv, TypeOK, ProcessesOK, EntriesOK, AttemptsOK
<1>1. ASSUME NEW b \in Attempts, Transport(b) PROVE SocketsKept'
  <2>1. CASE Bind(b)
    BY <2>1 DEF Openers, OpenerAt, Places, PlaceAt, Bind, Goto, cleaning, SocketsKept
  <2>2. CASE Listen(b)
    BY <2>2 DEF Openers, OpenerAt, Places, PlaceAt, Listen, Goto, cleaning, SocketsKept
  <2>3. CASE \/ NoListener(b) \/ StartServer(b) \/ RunFirst(b) \/ RefuseAddress(b)
             \/ AcceptAddress(b) \/ ExchangeFails(b) \/ CountRun(b) \/ Run(b)
             \/ EndRun(b) \/ DialHandover(b) \/ NotFound(b) \/ HandoverRefused(b)
             \/ AcceptHandover(b)
             \/ (\E p \in Processes, d \in Conns, i \in Addresses : NewConn(b, p, d, i))
             \/ (\E p \in Processes, d \in Conns, i \in Addresses : Lookup(b, p, d, i))
    BY <2>3 DEF NewConn, Goto, Arrives, cleaning, disk, Lookup, NoListener,
         StartServer, increaseRunning, RunFirst, RefuseAddress, AcceptAddress,
         ExchangeFails, CountRun, Run, EndRun, decreaseRunning, DialHandover,
         NotFound, HandoverRefused, AcceptHandover, SocketsKept
  <2> QED BY <1>1, <2>1, <2>2, <2>3 DEF Transport
<1>2. ASSUME NEW d \in Conns, Connection(d) PROVE SocketsKept'
  <2>1. CASE CloseListener(d) \/ AcceptFails(d)
    <3>1. /\ listener[d] = "listening" /\ sockets' = sockets \ {d} /\ UNCHANGED cleaning
          /\ listener' = [listener EXCEPT ![d] = "closed"]
      BY <2>1 DEF CloseListener, AcceptFails
    <3> QED BY <3>1 DEF cleaning, SocketsKept
  <2>2. CASE \/ Expire(d) \/ CloseExpired(d) \/ ServerReturns(d) \/ CountServer(d)
             \/ DeleteEntry(d) \/ HandoverCancel(d) \/ CloseServed(d)
    BY <2>2 DEF Expire, cleaning, disk, CloseExpired, ServerReturns, ServerAt,
         CountServer, increaseRunning, DeleteEntry, HandoverCancel, CloseServed,
         SocketsKept
  <2> QED BY <1>2, <2>1, <2>2 DEF Connection
<1>3. ASSUME NEW q \in Processes, Process(q) PROVE SocketsKept'
  <2>1. CASE ListSockets(q)
    BY <2>1 DEF ListSockets, CleanupTo, disk, SocketsKept
  <2>2. CASE ListFails(q)
    BY <2>2 DEF ListFails, CleanupTo, disk, SocketsKept
  <2>3. CASE NothingFound(q)
    <3>1. /\ cleanup' = [cleanup EXCEPT ![q] = "done"]
          /\ UNCHANGED <<paths, filtered, listener, sockets>>
      BY <2>3 DEF NothingFound, CleanupTo, disk
    <3> QED BY <3>1 DEF SocketsKept
  <2>4. CASE Delay(q)
    BY <2>4 DEF Delay, CleanupTo, disk, SocketsKept
  <2>5. CASE DelayOver(q)
    BY <2>5 DEF DelayOver, CleanupTo, disk, SocketsKept
  <2>6. CASE Canceled(q)
    BY <2>6 DEF Canceled, CleanupTo, disk, SocketsKept
  <2>7. CASE StartRemoval(q)
    BY <2>7 DEF StartRemoval, CleanupTo, disk, SocketsKept
  <2>8. CASE CleanupDone(q)
    BY <2>8 DEF CleanupDone, CleanupTo, disk, SocketsKept
  <2>9. CASE Crash(q)
    BY <2>9 DEF Crash, cleaning, SocketsKept
  <2>10. CASE \E d \in Conns : Probe(q, d)
    BY <2>10 DEF Connectable, Probe, disk, SocketsKept
  <2>11. CASE \E d \in Conns : ProbeFails(q, d)
    BY <2>11 DEF ProbeFails, disk, SocketsKept
  <2>12. CASE \E d \in Conns : RemoveSocket(q, d)
    BY <2>12 DEF RemoveSocket, SocketsKept
  <2> QED BY <1>3, <2>1, <2>2, <2>3, <2>4, <2>5, <2>6, <2>7, <2>8, <2>9, <2>10,
       <2>11, <2>12
   DEF Process
<1>4. CASE UNCHANGED vars
  BY <1>4 DEF vars, cleaning, disk, SocketsKept
<1> QED BY <1>1, <1>2, <1>3, <1>4 DEF Next

\* A cleanup keeps hold of the sockets that were left over.
LEMMA CleanupStep ==
    ASSUME ServerInv, [Next]_vars
    PROVE  CleanupKeeps'
<1> USE ServerAssumption DEF ServerInv, TypeOK, ProcessesOK, EntriesOK, AttemptsOK,
     CleanupKeeps
<1> SUFFICES ASSUME NEW r \in Processes PROVE CleanupAt(r)'
  OBVIOUS
<1>1. ASSUME NEW b \in Attempts, Transport(b) PROVE CleanupAt(r)'
  <2>1. CASE \E p \in Processes, d \in Conns, i \in Addresses : NewConn(b, p, d, i)
    BY <2>1 DEF NewConn, Goto, Arrives, cleaning, disk, CleanupAt
  <2>2. CASE Bind(b)
    BY <2>2 DEF Owned, OwnedAt, Places, PlaceAt, Holding, Opening, Bind, Goto, procs,
         cleaning, entries, CleanupAt
  <2>3. CASE \/ NoListener(b) \/ Listen(b) \/ StartServer(b) \/ RunFirst(b)
             \/ RefuseAddress(b) \/ AcceptAddress(b) \/ ExchangeFails(b)
             \/ CountRun(b) \/ Run(b) \/ EndRun(b) \/ DialHandover(b) \/ NotFound(b)
             \/ HandoverRefused(b) \/ AcceptHandover(b)
             \/ (\E p \in Processes, d \in Conns, i \in Addresses : Lookup(b, p, d, i))
    BY <2>3 DEF Lookup, Goto, Arrives, procs, cleaning, entries, disk, NoListener,
         Listen, StartServer, increaseRunning, RunFirst, RefuseAddress,
         AcceptAddress, ExchangeFails, CountRun, Run, EndRun, decreaseRunning,
         DialHandover, NotFound, HandoverRefused, AcceptHandover, CleanupAt
  <2> QED BY <1>1, <2>1, <2>2, <2>3 DEF Transport
<1>2. ASSUME NEW d \in Conns, Connection(d) PROVE CleanupAt(r)'
  <2>1. CASE CloseListener(d) \/ AcceptFails(d)
    BY <2>1 DEF CloseListener, AcceptFails, procs, cleaning, entries, CleanupAt
  <2>2. CASE \/ Expire(d) \/ CloseExpired(d) \/ ServerReturns(d) \/ CountServer(d)
             \/ DeleteEntry(d) \/ HandoverCancel(d) \/ CloseServed(d)
    BY <2>2 DEF Expire, procs, cleaning, entries, disk, CloseExpired, ServerReturns,
         ServerAt, CountServer, increaseRunning, DeleteEntry, HandoverCancel,
         CloseServed, CleanupAt
  <2> QED BY <1>2, <2>1, <2>2 DEF Connection
<1>3. ASSUME NEW q \in Processes, Process(q) PROVE CleanupAt(r)'
  <2>1. CASE ListSockets(q)
    BY <2>1 DEF Ownerless, SocketsKept, Owned, OwnedAt, ListSockets, CleanupTo,
         procs, entries, disk, CleanupAt
  <2>2. CASE ListFails(q)
    BY <2>2 DEF ListFails, CleanupTo, procs, entries, disk, CleanupAt
  <2>3. CASE NothingFound(q)
    <3>1. /\ cleanup[q] \in {"first", "second"} /\ paths[q] = {} /\ filtered[q] = {}
          /\ cleanup' = [cleanup EXCEPT ![q] = "done"]
          /\ UNCHANGED <<leftover, errs, paths, filtered, sockets, owner, alive>>
      BY <2>3 DEF NothingFound, CleanupTo, procs, entries, disk
    <3>2. CASE r = q
      BY <3>1, <3>2 DEF CleanupAt
    <3>3. CASE r # q
      BY <3>1, <3>3 DEF CleanupAt
    <3> QED BY <3>2, <3>3
  <2>4. CASE Delay(q)
    BY <2>4 DEF Delay, CleanupTo, procs, entries, disk, CleanupAt
  <2>5. CASE DelayOver(q)
    BY <2>5 DEF DelayOver, CleanupTo, procs, entries, disk, CleanupAt
  <2>6. CASE Canceled(q)
    BY <2>6 DEF Canceled, CleanupTo, procs, entries, disk, CleanupAt
  <2>7. CASE StartRemoval(q)
    BY <2>7 DEF StartRemoval, CleanupTo, procs, entries, disk, CleanupAt
  <2>8. CASE CleanupDone(q)
    BY <2>8 DEF CleanupDone, CleanupTo, procs, entries, disk, CleanupAt
  <2>9. CASE Crash(q)
    BY <2>9 DEF Crash, cleaning, CleanupAt
  <2>10. CASE \E d \in Conns : Probe(q, d)
    BY <2>10, SMTT(30) DEF Connectable, Owned, OwnedAt, Probe, procs, entries, disk, CleanupAt
  <2>11. CASE \E d \in Conns : ProbeFails(q, d)
    BY <2>11 DEF ProbeFails, procs, entries, disk, CleanupAt
  <2>12. CASE \E d \in Conns : RemoveSocket(q, d)
    BY <2>12 DEF RemoveSocket, procs, entries, CleanupAt
  <2> QED BY <1>3, <2>1, <2>2, <2>3, <2>4, <2>5, <2>6, <2>7, <2>8, <2>9, <2>10,
       <2>11, <2>12
   DEF Process
<1>4. CASE UNCHANGED vars
  BY <1>4 DEF vars, procs, cleaning, entries, disk, CleanupAt
<1> QED BY <1>1, <1>2, <1>3, <1>4 DEF Next

\* The addresses that are compared are those of the transports.
LEMMA AddressStep ==
    ASSUME ServerInv, [Next]_vars
    PROVE  \A a \in Attempts : AddressAt(a)'
<1> USE DEF ServerInv, TypeOK, ProcessesOK, EntriesOK, AttemptsOK, AddressesKept
<1> SUFFICES ASSUME NEW a \in Attempts PROVE AddressAt(a)'
  OBVIOUS
<1>1. ASSUME NEW b \in Attempts, Transport(b) PROVE AddressAt(a)'
  <2>1. CASE \E p \in Processes, d \in Conns, i \in Addresses : NewConn(b, p, d, i)
    <3> PICK p \in Processes, d \in Conns, i \in Addresses : NewConn(b, p, d, i)
      BY <2>1
    <3> QED BY ServerAssumption DEF Owned, OwnedAt, Places, PlaceAt, NewConn, Goto,
         Arrives, AddressAt
  <2>2. CASE \E p \in Processes, d \in Conns, i \in Addresses : Lookup(b, p, d, i)
    <3> PICK p \in Processes, d \in Conns, i \in Addresses : Lookup(b, p, d, i)
      BY <2>2
    <3> QED BY ServerAssumption DEF Owned, OwnedAt, Places, PlaceAt, Lookup, Goto,
         Arrives, entries, AddressAt
  <2>3. CASE Bind(b)
    BY <2>3 DEF Bind, Goto, entries, AddressAt
  <2>4. CASE NoListener(b)
    BY <2>4 DEF NoListener, Goto, entries, AddressAt
  <2>5. CASE Listen(b)
    BY <2>5 DEF Listen, Goto, entries, AddressAt
  <2>6. CASE StartServer(b)
    BY <2>6 DEF StartServer, Goto, increaseRunning, AddressAt
  <2>7. CASE RunFirst(b)
    BY <2>7 DEF RunFirst, Goto, AddressAt
  <2>8. CASE RefuseAddress(b)
    <3>1. /\ remoteIP[conn[b]] \in [host : Hosts, form : {"4"}]
          /\ source[b] \in Addresses \cup {Invalid}
          /\ clientIP[b] \in {Unmap(source[b]), Forwarded(source[b])}
      BY <2>8 DEF RefuseAddress, RemoteIPs, AddressAt, Places, PlaceAt
    <3>2. source[b].host # remoteIP[conn[b]].host
      BY <2>8, <3>1, AddressFacts, ServerAssumption DEF RefuseAddress, Invalid
    <3> QED BY <2>8, <3>1, <3>2 DEF RefuseAddress, Goto, entries, AddressAt
  <2>9. CASE AcceptAddress(b)
    <3>1. /\ remoteIP[conn[b]] \in [host : Hosts, form : {"4"}]
          /\ source[b] \in Addresses \cup {Invalid}
          /\ clientIP[b] \in {Unmap(source[b]), Forwarded(source[b])}
      BY <2>9 DEF AcceptAddress, RemoteIPs, AddressAt, Places, PlaceAt
    <3>2. source[b].host = remoteIP[conn[b]].host
      BY <2>9, <3>1, AddressFacts, ServerAssumption DEF AcceptAddress, Invalid
    <3> QED BY <2>9, <3>1, <3>2 DEF AcceptAddress, Goto, entries, AddressAt
  <2>10. CASE ExchangeFails(b)
    BY <2>10 DEF ExchangeFails, Goto, entries, AddressAt
  <2>11. CASE CountRun(b)
    BY <2>11 DEF CountRun, Goto, increaseRunning, entries, AddressAt
  <2>12. CASE Run(b)
    BY <2>12 DEF Run, Goto, entries, AddressAt
  <2>13. CASE EndRun(b)
    BY <2>13 DEF EndRun, Goto, decreaseRunning, entries, AddressAt
  <2>14. CASE DialHandover(b)
    BY <2>14 DEF DialHandover, Goto, entries, AddressAt
  <2>15. CASE NotFound(b)
    BY <2>15 DEF NotFound, Goto, entries, AddressAt
  <2>16. CASE HandoverRefused(b)
    BY <2>16 DEF HandoverRefused, Goto, entries, AddressAt
  <2>17. CASE AcceptHandover(b)
    BY <2>17 DEF Owned, OwnedAt, Places, PlaceAt, AcceptHandover, Goto, entries,
         AddressAt
  <2> QED BY <1>1, <2>1, <2>2, <2>3, <2>4, <2>5, <2>6, <2>7, <2>8, <2>9, <2>10,
       <2>11, <2>12,
     <2>13, <2>14, <2>15, <2>16, <2>17
   DEF Transport
<1>2. ASSUME NEW d \in Conns, Connection(d) PROVE AddressAt(a)'
  BY <1>2 DEF Connection, Expire, entries, handling, CloseExpired, ServerReturns,
       ServerAt, CountServer, increaseRunning, DeleteEntry, HandoverCancel,
       CloseServed, CloseListener, AcceptFails, AddressAt
<1>3. ASSUME NEW q \in Processes, Process(q) PROVE AddressAt(a)'
  <2>1. CASE Crash(q)
    BY <2>1 DEF Crash, AddressAt
  <2>2. CASE \/ ListSockets(q) \/ ListFails(q) \/ NothingFound(q) \/ Delay(q)
             \/ DelayOver(q) \/ Canceled(q) \/ StartRemoval(q) \/ CleanupDone(q)
             \/ (\E d \in Conns : Probe(q, d))
             \/ (\E d \in Conns : ProbeFails(q, d))
             \/ (\E d \in Conns : RemoveSocket(q, d))
    BY <2>2 DEF ListSockets, CleanupTo, entries, handling, ListFails, NothingFound,
         Delay, DelayOver, Canceled, StartRemoval, CleanupDone, Probe, ProbeFails,
         RemoveSocket, AddressAt
  <2> QED BY <1>3, <2>1, <2>2 DEF Process
<1>4. CASE UNCHANGED vars
  BY <1>4 DEF vars, entries, handling, AddressAt
<1> QED BY <1>1, <1>2, <1>3, <1>4 DEF Next

\* An entry keeps the plain form of the address that opened it.
LEMMA RemoteIPStep ==
    ASSUME ServerInv, [Next]_vars
    PROVE  RemoteIPs'
<1> USE DEF ServerInv, TypeOK, EntriesOK, AddressesKept
<1>1. ASSUME NEW b \in Attempts, Transport(b) PROVE RemoteIPs'
  <2>1. CASE \E p \in Processes, d \in Conns, i \in Addresses : NewConn(b, p, d, i)
    <3> PICK p \in Processes, d \in Conns, i \in Addresses : NewConn(b, p, d, i)
      BY <2>1
    <3>1. Unmap(i) \in [host : Hosts, form : {"4"}] \cup {Invalid}
      BY AddressFacts
    <3> QED BY <3>1 DEF NewConn, Goto, Arrives, RemoteIPs
  <2>2. CASE \/ Bind(b) \/ NoListener(b) \/ Listen(b) \/ StartServer(b) \/ RunFirst(b)
             \/ RefuseAddress(b) \/ AcceptAddress(b) \/ ExchangeFails(b)
             \/ CountRun(b) \/ Run(b) \/ EndRun(b) \/ DialHandover(b) \/ NotFound(b)
             \/ HandoverRefused(b) \/ AcceptHandover(b)
             \/ (\E p \in Processes, d \in Conns, i \in Addresses : Lookup(b, p, d, i))
    BY <2>2 DEF Lookup, Goto, Arrives, entries, Bind, NoListener, Listen,
         StartServer, increaseRunning, RunFirst, RefuseAddress, AcceptAddress,
         ExchangeFails, CountRun, Run, EndRun, decreaseRunning, DialHandover,
         NotFound, HandoverRefused, AcceptHandover, RemoteIPs
  <2> QED BY <1>1, <2>1, <2>2 DEF Transport
<1>2. ASSUME NEW d \in Conns, Connection(d) PROVE RemoteIPs'
  BY <1>2 DEF Connection, Expire, entries, CloseExpired, ServerReturns, ServerAt,
       CountServer, increaseRunning, DeleteEntry, HandoverCancel, CloseServed,
       CloseListener, AcceptFails, RemoteIPs
<1>3. ASSUME NEW q \in Processes, Process(q) PROVE RemoteIPs'
  BY <1>3 DEF Process, ListSockets, CleanupTo, entries, ListFails, NothingFound,
       Delay, DelayOver, Canceled, StartRemoval, CleanupDone, Crash, Probe,
       ProbeFails, RemoveSocket, RemoteIPs
<1>4. CASE UNCHANGED vars
  BY <1>4 DEF vars, entries, RemoteIPs
<1> QED BY <1>1, <1>2, <1>3, <1>4 DEF Next

-----------------------------------------------------------------------------
\* The invariant holds when the processes start.
LEMMA ServerInit == Init => ServerInv
<1> SUFFICES ASSUME Init PROVE ServerInv
  OBVIOUS
<1>1. TypeOK
  BY DEF Init, TypeOK, ProcessesOK, EntriesOK, AttemptsOK, Labels, AddressType, Invalid
<1>2. Places /\ Owned /\ Openers
  BY ServerAssumption DEF Init, Places, PlaceAt, Owned, OwnedAt, Openers, OpenerAt,
       Holding, Opening
<1>3. RunningExact
  <2> SUFFICES ASSUME NEW c \in Conns PROVE running[c] = Cardinality(Using(c)) /\ ~ServerOver(c)
    BY UsingFacts DEF RunningExact, RunningAt
  <2>1. Using(c) = {}
    BY DEF Init, Using
  <2> QED BY <2>1, UsingFacts DEF Init, ServerOver
<1>4. GraceCount
  BY ServerAssumption DEF Init, GraceCount, GraceAt
<1>5. SocketsKept /\ CleanupKeeps
  BY DEF Init, SocketsKept, CleanupKeeps, CleanupAt
<1>6. AddressesKept
  BY DEF Init, AddressesKept, RemoteIPs, AddressAt, Unmap, Invalid
<1> QED BY <1>1, <1>2, <1>3, <1>4, <1>5, <1>6 DEF ServerInv

\* Every step preserves it.
LEMMA ServerStep == ServerInv /\ [Next]_vars => ServerInv'
<1> SUFFICES ASSUME ServerInv, [Next]_vars PROVE ServerInv'
  OBVIOUS
<1>1. TypeOK'
  BY ProcessTypes, EntryTypes, AttemptTypes DEF TypeOK
<1>2. AddressesKept'
  BY AddressStep, RemoteIPStep DEF AddressesKept
<1> QED BY <1>1, <1>2, PlacesStep, OwnedStep, OpenersStep, RunningStep, GraceStep,
     SocketsStep, CleanupStep DEF ServerInv

\* The invariant, always.
THEOREM ServerInvAlways == Spec => []ServerInv
BY ServerInit, ServerStep, PTL DEF Spec

\* TypeOK for any processes and transports: connEntry.running never wraps below zero,
\* since every call of decreaseRunning follows a call of increaseRunning.
THEOREM ServerTypeCorrect == Spec => []TypeOK
<1>1. ServerInv => TypeOK
  BY DEF ServerInv
<1> QED BY <1>1, ServerInvAlways, PTL

\* GraceTimer for any number of transports: the timer that closes a connection runs
\* exactly while no transport is counted and the session is not over.
THEOREM GraceTimerCorrect == Spec => []GraceTimer
<1>1. ServerInv => GraceTimer
  <2> SUFFICES ASSUME ServerInv, NEW c \in Conns
               PROVE  /\ timeout[c] = "armed" => Idle(c)
                      /\ Idle(c) => timeout[c] = "armed" \/ expiring[c] \/ closed[c]
    BY DEF GraceTimer
  <2> QED BY IdleCounted DEF ServerInv, GraceCount, GraceAt
<1> QED BY <1>1, ServerInvAlways, PTL

\* AddressDecides for any addresses: the answer of resumeConnection depends on the host
\* alone, also after the address went through a handover socket.
THEOREM AddressCorrect == Spec => []AddressDecides
<1>1. ServerInv => AddressDecides
  BY DEF ServerInv, AddressesKept, AddressAt, AddressDecides
<1> QED BY <1>1, ServerInvAlways, PTL

\* CleanupComplete for any number of sockets and processes: a cleanup goes through all the
\* sockets it found, whichever of them it meets an error on.
THEOREM CleanupCorrect == Spec => []CleanupComplete
<1>1. ServerInv => CleanupComplete
  BY DEF ServerInv, CleanupKeeps, CleanupAt, CleanupComplete
<1> QED BY <1>1, ServerInvAlways, PTL

\* NotFoundMeansGone for any number of processes that clean up at the same time: a client
\* is sent notFoundServerExchangeTag only when its connection cannot be resumed.
THEOREM NotFoundCorrect == Spec => NotFoundMeansGone
<1> DEFINE Told == \A a \in Attempts :
             answer[a] # "notFound" /\ answer'[a] = "notFound" => ~Resumable(conn[a])
<1>1. ServerInv /\ [Next]_vars => [Told]_vars
  <2> SUFFICES ASSUME ServerInv, [Next]_vars, NEW a \in Attempts,
                      answer[a] # "notFound", answer'[a] = "notFound",
                      Resumable(conn[a])
               PROVE  FALSE
    OBVIOUS
  <2> USE DEF ServerInv, TypeOK, AttemptsOK
  <2>1. ASSUME NEW b \in Attempts, Transport(b) PROVE FALSE
    <3>1. CASE NotFound(b)
      BY <3>1 DEF NotFound, Places, PlaceAt, SocketsKept, Resumable
    <3>2. CASE ~NotFound(b)
      BY <2>1, <3>2
         DEF Transport, NewConn, Lookup, Arrives, Bind, NoListener, Listen, StartServer,
             RunFirst, RefuseAddress, AcceptAddress, ExchangeFails, CountRun, Run,
             EndRun,
             DialHandover, HandoverRefused, AcceptHandover
    <3> QED BY <3>1, <3>2
  <2>2. ASSUME NEW d \in Conns, Connection(d) PROVE FALSE
    BY <2>2 DEF Connection, Expire, CloseExpired, ServerReturns, CountServer,
         DeleteEntry,
         HandoverCancel, CloseServed, CloseListener, AcceptFails, handling
  <2>3. ASSUME NEW q \in Processes, Process(q) PROVE FALSE
    BY <2>3 DEF Process, ListSockets, ListFails, NothingFound, Delay, DelayOver,
         Canceled,
         StartRemoval, CleanupDone, Crash, Probe, ProbeFails, RemoveSocket, handling
  <2>4. CASE UNCHANGED vars
    BY <2>4 DEF vars, handling
  <2> QED BY <2>1, <2>2, <2>3, <2>4 DEF Next
<1> QED BY <1>1, ServerInvAlways, PTL DEF Spec, NotFoundMeansGone

=============================================================================
