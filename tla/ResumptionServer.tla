--------------------------- MODULE ResumptionServer ---------------------------
(***************************************************************************)
(* The server's side of resumption around the connections themselves:      *)
(* SSHServerWrapper (lib/resumption/server_detect.go) with its table of    *)
(* resumable connections, the exchange that creates or resumes one         *)
(* (server_exchange.go), the grace timer of a connection without           *)
(* transports, and the handover sockets through which a Teleport process   *)
(* reaches the connections of another one (handover.go).                   *)
(*                                                                         *)
(* What a run does with its transport is the subject of ResumableConn: here*)
(* it starts, and ends at any time.  Several processes share a data        *)
(* directory, as they do during a graceful restart, and may crash.         *)
(***************************************************************************)
EXTENDS Integers, FiniteSets

CONSTANTS Processes,   \* Teleport processes with the same data directory
          Conns,       \* resumable connections, one token each
          Attempts,    \* transports that clients open to a process
          Hosts,       \* where clients are
          Addresses,   \* remote addresses they come from
          Crashable,   \* bound: processes that may crash
          Cleaners     \* bound: processes that clean up while the others run

None == "none"
Invalid == [host |-> None, form |-> "invalid"]   \* the zero netip.Addr

ASSUME ServerAssumption ==
    /\ None \notin Processes \cup Conns \cup Attempts
    /\ IsFiniteSet(Attempts)
    /\ {None, "::"} \cap Hosts = {}
    /\ Addresses \subseteq [host : Hosts, form : {"4", "4in6"}] \cup {Invalid}
    /\ Crashable \subseteq Processes
    /\ Cleaners \subseteq Processes

VARIABLES
    \* each process
    alive,
    conns,       \* SSHServerWrapper.conns, by token
    cleanup,     \* where HandoverCleanup is
    paths,       \* sockets it has yet to look at
    filtered,    \* sockets that refused a connection
    errs,        \* the sockets it met an error on; None: it was cut short
    \* each resumable connection and its connEntry
    owner,       \* the process that created it
    remoteIP,
    timeout,     \* the timer: "stopped" or "armed"
    expiring,    \* its function runs, and has not closed the connection yet
    running,
    locked,      \* Conn.mu is held from creation until the first run
    closed,      \* Conn.Close() was called
    server,      \* where the goroutine is that runs sshServer
    listener,    \* its handover listener
    sockets,     \* handover sockets on disk
    \* each transport
    pc,          \* where the goroutine is that handles it
    at,          \* the process that goroutine is in
    conn,        \* the connection that is asked for, or created
    clientIP,    \* the address that is compared with remoteIP
    answer,      \* the server exchange tag that was sent
    \* history
    source,      \* the address a transport really comes from
    leftover     \* sockets without an owner when a cleanup listed them

procs    == <<alive, conns>>
cleaning == <<cleanup, paths, filtered, errs, leftover>>
timers   == <<timeout, expiring, running>>
entries  == <<owner, remoteIP, locked, closed, server>>
disk     == <<listener, sockets>>
handling == <<pc, at, conn, clientIP, answer, source>>

vars == <<procs, cleaning, timers, entries, disk, handling>>

Init ==
    /\ alive = [p \in Processes |-> TRUE]
    /\ conns = [p \in Processes |-> {}]
    /\ cleanup = [p \in Processes |-> "todo"]
    /\ paths = [p \in Processes |-> {}]
    /\ filtered = [p \in Processes |-> {}]
    /\ errs = [p \in Processes |-> {}]
    /\ owner = [c \in Conns |-> None]
    /\ remoteIP = [c \in Conns |-> Invalid]
    /\ timeout = [c \in Conns |-> "stopped"]
    /\ expiring = [c \in Conns |-> FALSE]
    /\ running = [c \in Conns |-> 0]
    /\ locked = [c \in Conns |-> FALSE]
    /\ closed = [c \in Conns |-> FALSE]
    /\ server = [c \in Conns |-> "none"]
    /\ listener = [c \in Conns |-> "none"]
    /\ sockets = {}
    /\ pc = [a \in Attempts |-> "idle"]
    /\ at = [a \in Attempts |-> None]
    /\ conn = [a \in Attempts |-> None]
    /\ clientIP = [a \in Attempts |-> Invalid]
    /\ answer = [a \in Attempts |-> "none"]
    /\ source = [a \in Attempts |-> Invalid]
    /\ leftover = [p \in Processes |-> {}]

-----------------------------------------------------------------------------
(***************************************************************************)
(* Addresses.  An IPv4 address may come as such or in its IPv6 form.  A    *)
(* handover socket carries 16 bytes, in which the zero Addr is "::".       *)
(***************************************************************************)
Unmap(i) == IF i.form = "4in6" THEN [i EXCEPT !.form = "4"] ELSE i
As16(i)  == CASE i = Invalid -> [host |-> "::", form |-> "6"]
              [] i.form = "4" -> [i EXCEPT !.form = "4in6"]
              [] OTHER -> i

\* Faulty variant: the owner does not undo the IPv6 form.
ForwardedNoUnmap(i) == As16(i)

\* What the owner makes of the 16 bytes that attemptHandover forwards.
Forwarded(i) == Unmap(As16(i))

-----------------------------------------------------------------------------
(***************************************************************************)
(* connEntry: the transports of a connection are counted; the timer runs   *)
(* when there is none.  Stop does not call back a function that has been   *)
(* started.                                                                *)
(***************************************************************************)
\* Faulty variant: the timer is not stopped.
increaseRunningNoStop(c) ==
    /\ running' = [running EXCEPT ![c] = @ + 1]
    /\ UNCHANGED <<timeout, expiring>>

increaseRunning(c) ==
    /\ timeout' = [timeout EXCEPT ![c] = "stopped"]
    /\ running' = [running EXCEPT ![c] = @ + 1]
    /\ UNCHANGED expiring

\* Faulty variant: the timer is not started again.
decreaseRunningNoReset(c) ==
    /\ running' = [running EXCEPT ![c] = @ - 1]
    /\ UNCHANGED <<timeout, expiring>>

decreaseRunning(c) ==
    /\ running' = [running EXCEPT ![c] = @ - 1]
    /\ timeout' = [timeout EXCEPT ![c] = IF running[c] = 1 THEN "armed" ELSE @]
    /\ UNCHANGED expiring

\* The timer fires: its function is started.
Expire(c) ==
    /\ timeout[c] = "armed"
    /\ timeout' = [timeout EXCEPT ![c] = "stopped"]
    /\ expiring' = [expiring EXCEPT ![c] = TRUE]
    /\ UNCHANGED <<procs, cleaning, running, entries, disk, handling>>

\* The function closes the connection, once it gets Conn.mu.
CloseExpired(c) ==
    /\ expiring[c] /\ ~locked[c]
    /\ expiring' = [expiring EXCEPT ![c] = FALSE]
    /\ closed' = [closed EXCEPT ![c] = TRUE]
    /\ UNCHANGED <<procs, cleaning, timeout, running, owner, remoteIP, locked,
                   server, disk, handling>>

-----------------------------------------------------------------------------
(***************************************************************************)
(* The exchange on a transport.                                            *)
(***************************************************************************)
Goto(a, label) == pc' = [pc EXCEPT ![a] = label]

\* A new transport reaches a process, comes from i and asks for c.
Arrives(a, p, c, i) ==
    /\ alive[p] /\ pc[a] = "idle"
    /\ at' = [at EXCEPT ![a] = p]
    /\ conn' = [conn EXCEPT ![a] = c]
    /\ source' = [source EXCEPT ![a] = i]
    /\ clientIP' = [clientIP EXCEPT ![a] = Unmap(i)]
    /\ UNCHANGED answer

\* newConnClientExchangeTag: the entry is made with its timer running, and put in
\* the table if the client has an address.  Conn.mu is held.
NewConn(a, p, c, i) ==
    /\ owner[c] = None
    /\ Arrives(a, p, c, i)
    /\ owner' = [owner EXCEPT ![c] = p]
    /\ remoteIP' = [remoteIP EXCEPT ![c] = Unmap(i)]
    /\ timeout' = [timeout EXCEPT ![c] = "armed"]
    /\ locked' = [locked EXCEPT ![c] = TRUE]
    /\ conns' = [conns EXCEPT ![p] = IF i = Invalid THEN @ ELSE @ \cup {c}]
    /\ Goto(a, IF i = Invalid THEN "ready" ELSE "tracked")
    /\ UNCHANGED <<alive, cleaning, running, expiring, closed, server, disk>>

\* createHandoverListener: the socket is on disk before it accepts connections.
Bind(a) ==
    /\ pc[a] = "tracked"
    /\ Goto(a, "bound")
    /\ listener' = [listener EXCEPT ![conn[a]] = "bound"]
    /\ sockets' = sockets \cup {conn[a]}
    /\ UNCHANGED <<procs, cleaning, timers, entries, at, conn, clientIP, answer,
                   source>>

\* No data directory, or the socket cannot be made: only a warning.
NoListener(a) ==
    /\ pc[a] = "tracked"
    /\ Goto(a, "ready")
    /\ UNCHANGED <<procs, cleaning, timers, entries, disk, at, conn, clientIP,
                   answer, source>>

Listen(a) ==
    /\ pc[a] = "bound"
    /\ Goto(a, "ready")
    /\ listener' = [listener EXCEPT ![conn[a]] = "listening"]
    /\ UNCHANGED <<procs, cleaning, timers, entries, sockets, at, conn, clientIP,
                   answer, source>>

\* The SSH server gets the connection, and the transport is counted.
StartServer(a) ==
    /\ pc[a] = "ready"
    /\ Goto(a, "first")
    /\ server' = [server EXCEPT ![conn[a]] = "serving"]
    /\ increaseRunning(conn[a])
    /\ UNCHANGED <<procs, cleaning, owner, remoteIP, locked, closed, disk, at, conn,
                   clientIP, answer, source>>

\* runResumeV1Unlocking with firstConn: attached, and Conn.mu is released.
RunFirst(a) ==
    /\ pc[a] = "first"
    /\ Goto(a, "run")
    /\ locked' = [locked EXCEPT ![conn[a]] = FALSE]
    /\ UNCHANGED <<procs, cleaning, timers, owner, remoteIP, closed, server, disk,
                   at, conn, clientIP, answer, source>>

\* existingConnClientExchangeTag: the token is looked up.
Lookup(a, p, c, i) ==
    /\ owner[c] # None
    /\ Arrives(a, p, c, i)
    /\ Goto(a, IF c \in conns[p] THEN "found" ELSE "missing")
    /\ UNCHANGED <<procs, cleaning, timers, entries, disk>>

\* resumeConnection: another address is refused.
RefuseAddress(a) ==
    /\ pc[a] = "found" /\ clientIP[a] # remoteIP[conn[a]]
    /\ answer' = [answer EXCEPT ![a] = "badAddress"]
    /\ Goto(a, "done")
    /\ UNCHANGED <<procs, cleaning, timers, entries, disk, at, conn, clientIP,
                   source>>

AcceptAddress(a) ==
    /\ pc[a] = "found" /\ clientIP[a] = remoteIP[conn[a]]
    /\ answer' = [answer EXCEPT ![a] = "success"]
    /\ Goto(a, "accepted")
    /\ UNCHANGED <<procs, cleaning, timers, entries, disk, at, conn, clientIP,
                   source>>

\* The transport breaks before the exchange is over.
ExchangeFails(a) ==
    /\ pc[a] \in {"found", "missing", "forwarded"}
    /\ Goto(a, "done")
    /\ UNCHANGED <<procs, cleaning, timers, entries, disk, at, conn, clientIP,
                   answer, source>>

\* Faulty variant: the transport of a resumed connection is not counted.
CountRunNever(a) ==
    /\ pc[a] = "accepted"
    /\ Goto(a, "counted")
    /\ UNCHANGED <<procs, cleaning, timers, entries, disk, at, conn, clientIP,
                   answer, source>>

CountRun(a) ==
    /\ pc[a] = "accepted"
    /\ Goto(a, "counted")
    /\ increaseRunning(conn[a])
    /\ UNCHANGED <<procs, cleaning, entries, disk, at, conn, clientIP, answer,
                   source>>

\* entry.conn.mu.Lock(), then runResumeV1Unlocking
Run(a) ==
    /\ pc[a] = "counted" /\ ~locked[conn[a]]
    /\ Goto(a, "run")
    /\ UNCHANGED <<procs, cleaning, timers, entries, disk, at, conn, clientIP,
                   answer, source>>

\* The run is over, for whatever reason.
EndRun(a) ==
    /\ pc[a] = "run"
    /\ Goto(a, "done")
    /\ decreaseRunning(conn[a])
    /\ UNCHANGED <<procs, cleaning, entries, disk, at, conn, clientIP, answer,
                   source>>

-----------------------------------------------------------------------------
(***************************************************************************)
(* attemptHandover: a token that is not in the table may belong to another *)
(* process, which listens on the token's socket.                           *)
(***************************************************************************)
Connectable(c) == c \in sockets /\ listener[c] = "listening"

DialHandover(a) ==
    /\ pc[a] = "missing" /\ Connectable(conn[a])
    /\ Goto(a, "forwarded")
    /\ UNCHANGED <<procs, cleaning, timers, entries, disk, at, conn, clientIP,
                   answer, source>>

NotFound(a) ==
    /\ pc[a] = "missing" /\ conn[a] \notin sockets
    /\ answer' = [answer EXCEPT ![a] = "notFound"]
    /\ Goto(a, "done")
    /\ UNCHANGED <<procs, cleaning, timers, entries, disk, at, conn, clientIP,
                   source>>

\* A socket nobody listens on: the transport is closed without an answer.
HandoverRefused(a) ==
    /\ pc[a] = "missing" /\ conn[a] \in sockets /\ ~Connectable(conn[a])
    /\ Goto(a, "done")
    /\ UNCHANGED <<procs, cleaning, timers, entries, disk, at, conn, clientIP,
                   answer, source>>

\* runHandoverListener and handleHandoverConnection in the owner: the entry is the
\* listener's, the address the one that was forwarded.
AcceptHandover(a) ==
    /\ pc[a] = "forwarded" /\ listener[conn[a]] = "listening"
    /\ Goto(a, "found")
    /\ at' = [at EXCEPT ![a] = owner[conn[a]]]
    /\ clientIP' = [clientIP EXCEPT ![a] = Forwarded(source[a])]
    /\ UNCHANGED <<procs, cleaning, timers, entries, disk, conn, answer, source>>

-----------------------------------------------------------------------------
(***************************************************************************)
(* The goroutine that runs the SSH server, and what it defers, in order.   *)
(***************************************************************************)
ServerAt(c, from, to) ==
    /\ server[c] = from
    /\ server' = [server EXCEPT ![c] = to]

\* sshServer returns: the session is over.  It cannot be before the first run, since
\* the connection is locked until then.
ServerReturns(c) ==
    /\ ~locked[c]
    /\ ServerAt(c, "serving", "returned")
    /\ UNCHANGED <<procs, cleaning, timers, owner, remoteIP, locked, closed, disk,
                   handling>>

\* entry.increaseRunning(): stop grace timeouts
CountServer(c) ==
    /\ ServerAt(c, "returned", "counted")
    /\ increaseRunning(c)
    /\ UNCHANGED <<procs, cleaning, owner, remoteIP, locked, closed, disk, handling>>

DeleteEntry(c) ==
    /\ ServerAt(c, "counted", "deleted")
    /\ conns' = [conns EXCEPT ![owner[c]] = @ \ {c}]
    /\ UNCHANGED <<alive, cleaning, timers, owner, remoteIP, locked, closed, disk,
                   handling>>

HandoverCancel(c) ==
    /\ ServerAt(c, "deleted", "cancelled")
    /\ UNCHANGED <<procs, cleaning, timers, owner, remoteIP, locked, closed, disk,
                   handling>>

CloseServed(c) ==
    /\ ServerAt(c, "cancelled", "done")
    /\ closed' = [closed EXCEPT ![c] = TRUE]
    /\ UNCHANGED <<procs, cleaning, timers, owner, remoteIP, locked, disk, handling>>

\* Faulty variant: closing the listener leaves the socket on disk.
CloseListenerOnly(c) ==
    /\ server[c] \in {"cancelled", "done"} /\ listener[c] = "listening"
    /\ listener' = [listener EXCEPT ![c] = "closed"]
    /\ UNCHANGED <<procs, cleaning, timers, entries, sockets, handling>>

\* An error of Accept that is not temporary ends the accept loop, which closes the
\* listener: the connection lives on, but no other process can reach it.
AcceptFails(c) ==
    /\ listener[c] = "listening"
    /\ listener' = [listener EXCEPT ![c] = "closed"]
    /\ sockets' = sockets \ {c}
    /\ UNCHANGED <<procs, cleaning, timers, entries, handling>>

\* context.AfterFunc, in a goroutine of its own: l.Close() also removes the socket.
CloseListener(c) ==
    /\ server[c] \in {"cancelled", "done"} /\ listener[c] = "listening"
    /\ listener' = [listener EXCEPT ![c] = "closed"]
    /\ sockets' = sockets \ {c}
    /\ UNCHANGED <<procs, cleaning, timers, entries, handling>>

-----------------------------------------------------------------------------
(***************************************************************************)
(* HandoverCleanup: the sockets that refuse a connection now and again     *)
(* after a delay are removed.                                              *)
(***************************************************************************)
CleanupTo(p, from, to) ==
    /\ alive[p] /\ cleanup[p] = from
    /\ cleanup' = [cleanup EXCEPT ![p] = to]

Ownerless(c) == c \in sockets /\ ~alive[owner[c]]

ListSockets(p) ==
    /\ p \in Cleaners
    /\ CleanupTo(p, "todo", "first")
    /\ paths' = [paths EXCEPT ![p] = sockets]
    /\ leftover' = [leftover EXCEPT ![p] = {c \in sockets : Ownerless(c)}]
    /\ UNCHANGED <<procs, filtered, errs, timers, entries, disk, handling>>

\* The directory cannot be read.
ListFails(p) ==
    /\ p \in Cleaners
    /\ CleanupTo(p, "todo", "done")
    /\ errs' = [errs EXCEPT ![p] = @ \cup {None}]
    /\ UNCHANGED <<procs, paths, filtered, leftover, timers, entries, disk, handling>>

\* retainNonConnectableSockets, one socket: it exists and refuses the connection.
Probe(p, c) ==
    /\ alive[p] /\ cleanup[p] \in {"first", "second"} /\ c \in paths[p]
    /\ paths' = [paths EXCEPT ![p] = @ \ {c}]
    /\ filtered' = [filtered EXCEPT ![p] =
         IF c \in sockets /\ ~Connectable(c) THEN @ \cup {c} ELSE @]
    /\ UNCHANGED <<procs, cleanup, errs, leftover, timers, entries, disk, handling>>

\* Another error, or a canceled context: the socket is left alone.
ProbeFails(p, c) ==
    /\ alive[p] /\ cleanup[p] \in {"first", "second"} /\ c \in paths[p]
    /\ paths' = [paths EXCEPT ![p] = @ \ {c}]
    /\ errs' = [errs EXCEPT ![p] = @ \cup {c}]
    /\ UNCHANGED <<procs, cleanup, filtered, leftover, timers, entries, disk,
                   handling>>

\* Faulty variant: done as soon as the first check is over.
NothingFoundEarly(p) ==
    /\ paths[p] = {}
    /\ \/ CleanupTo(p, "first", "done")
       \/ CleanupTo(p, "second", "done")
    /\ UNCHANGED <<procs, paths, filtered, errs, leftover, timers, entries, disk,
                   handling>>

NothingFound(p) ==
    /\ paths[p] = {} /\ filtered[p] = {}
    /\ \/ CleanupTo(p, "first", "done")
       \/ CleanupTo(p, "second", "done")
    /\ UNCHANGED <<procs, paths, filtered, errs, leftover, timers, entries, disk,
                   handling>>

\* Faulty variant: sockets are removed after one check.
DelaySkipped(p) ==
    /\ paths[p] = {} /\ filtered[p] # {}
    /\ CleanupTo(p, "first", "removal")
    /\ UNCHANGED <<procs, paths, filtered, errs, leftover, timers, entries, disk,
                   handling>>

Delay(p) ==
    /\ paths[p] = {} /\ filtered[p] # {}
    /\ CleanupTo(p, "first", "delay")
    /\ UNCHANGED <<procs, paths, filtered, errs, leftover, timers, entries, disk,
                   handling>>

\* cleanupDelay is over: it is longer than the time between bind and listen.
DelayOver(p) ==
    /\ \A c \in filtered[p] : listener[c] # "bound"
    /\ CleanupTo(p, "delay", "second")
    /\ paths' = [paths EXCEPT ![p] = filtered[p]]
    /\ filtered' = [filtered EXCEPT ![p] = {}]
    /\ UNCHANGED <<procs, errs, leftover, timers, entries, disk, handling>>

Canceled(p) ==
    /\ CleanupTo(p, "delay", "done")
    /\ errs' = [errs EXCEPT ![p] = @ \cup {None}]
    /\ UNCHANGED <<procs, paths, filtered, leftover, timers, entries, disk, handling>>

StartRemoval(p) ==
    /\ paths[p] = {} /\ filtered[p] # {}
    /\ CleanupTo(p, "second", "removal")
    /\ UNCHANGED <<procs, paths, filtered, errs, leftover, timers, entries, disk,
                   handling>>

RemoveSocket(p, c) ==
    /\ alive[p] /\ cleanup[p] = "removal" /\ c \in filtered[p]
    /\ filtered' = [filtered EXCEPT ![p] = @ \ {c}]
    /\ \/ sockets' = sockets \ {c} /\ UNCHANGED errs
       \/ c \in sockets /\ errs' = [errs EXCEPT ![p] = @ \cup {c}] /\ UNCHANGED sockets
    /\ UNCHANGED <<procs, cleanup, paths, leftover, timers, entries, listener,
                   handling>>

CleanupDone(p) ==
    /\ filtered[p] = {}
    /\ CleanupTo(p, "removal", "done")
    /\ UNCHANGED <<procs, paths, filtered, errs, leftover, timers, entries, disk,
                   handling>>

-----------------------------------------------------------------------------
\* A process dies: what it held in memory is gone, its sockets stay on disk.
Crash(p) ==
    /\ alive[p] /\ p \in Crashable
    /\ alive' = [alive EXCEPT ![p] = FALSE]
    /\ conns' = [conns EXCEPT ![p] = {}]
    /\ LET Lost == {c \in Conns : owner[c] = p} IN
       /\ timeout' = [c \in Conns |-> IF c \in Lost THEN "stopped" ELSE timeout[c]]
       /\ expiring' = [c \in Conns |-> c \notin Lost /\ expiring[c]]
       /\ running' = [c \in Conns |-> IF c \in Lost THEN 0 ELSE running[c]]
       /\ locked' = [c \in Conns |-> c \notin Lost /\ locked[c]]
       /\ closed' = [c \in Conns |-> c \in Lost \/ closed[c]]
       /\ server' = [c \in Conns |-> IF c \in Lost THEN "crashed" ELSE server[c]]
       /\ listener' = [c \in Conns |->
            IF c \in Lost /\ listener[c] # "none" THEN "closed" ELSE listener[c]]
    /\ pc' = [a \in Attempts |-> IF at[a] = p THEN "done" ELSE pc[a]]
    /\ UNCHANGED <<cleaning, owner, remoteIP, sockets, at, conn, clientIP, answer,
                   source>>

-----------------------------------------------------------------------------
Transport(a) ==
    \/ \E p \in Processes, c \in Conns, i \in Addresses :
         NewConn(a, p, c, i) \/ Lookup(a, p, c, i)
    \/ Bind(a) \/ NoListener(a) \/ Listen(a) \/ StartServer(a) \/ RunFirst(a)
    \/ RefuseAddress(a) \/ AcceptAddress(a) \/ ExchangeFails(a)
    \/ CountRun(a) \/ Run(a) \/ EndRun(a)
    \/ DialHandover(a) \/ NotFound(a) \/ HandoverRefused(a) \/ AcceptHandover(a)

Connection(c) ==
    \/ Expire(c) \/ CloseExpired(c)
    \/ ServerReturns(c) \/ CountServer(c) \/ DeleteEntry(c) \/ HandoverCancel(c)
    \/ CloseServed(c) \/ CloseListener(c) \/ AcceptFails(c)

Process(p) ==
    \/ ListSockets(p) \/ ListFails(p) \/ NothingFound(p) \/ Delay(p) \/ DelayOver(p)
    \/ Canceled(p) \/ StartRemoval(p) \/ CleanupDone(p) \/ Crash(p)
    \/ \E c \in Conns : Probe(p, c) \/ ProbeFails(p, c) \/ RemoveSocket(p, c)

Next ==
    \/ \E a \in Attempts : Transport(a)
    \/ \E c \in Conns : Connection(c)
    \/ \E p \in Processes : Process(p)

Spec == Init /\ [][Next]_vars

(***************************************************************************)
(* Fairness: goroutines proceed and an armed timer fires.  The SSH server  *)
(* returns once its connection is closed, since its reads then fail.       *)
(* Nothing is assumed about runs, transports or crashes.                   *)
(***************************************************************************)
Fairness ==
    /\ \A a \in Attempts :
         WF_vars(Bind(a) \/ NoListener(a) \/ Listen(a) \/ StartServer(a) \/ RunFirst(a))
    /\ \A c \in Conns :
         /\ WF_vars(Expire(c)) /\ WF_vars(CloseExpired(c))
         /\ WF_vars(closed[c] /\ ServerReturns(c))
         /\ WF_vars(CountServer(c) \/ DeleteEntry(c) \/ HandoverCancel(c)
                    \/ CloseServed(c))
         /\ WF_vars(CloseListener(c))

FairSpec == Spec /\ Fairness

-----------------------------------------------------------------------------
Labels == {"idle", "tracked", "bound", "ready", "first", "found", "missing",
           "forwarded", "accepted", "counted", "run", "done"}

AddressType == [host : Hosts \cup {None, "::"},
                form : {"invalid", "4", "4in6", "6"}]

ProcessesOK ==
    /\ alive \in [Processes -> BOOLEAN]
    /\ conns \in [Processes -> SUBSET Conns]
    /\ cleanup \in [Processes ->
         {"todo", "first", "delay", "second", "removal", "done"}]
    /\ paths \in [Processes -> SUBSET Conns]
    /\ filtered \in [Processes -> SUBSET Conns]
    /\ leftover \in [Processes -> SUBSET Conns]
    /\ errs \in [Processes -> SUBSET (Conns \cup {None})]

EntriesOK ==
    /\ owner \in [Conns -> Processes \cup {None}]
    /\ remoteIP \in [Conns -> AddressType]
    /\ timeout \in [Conns -> {"stopped", "armed"}]
    /\ expiring \in [Conns -> BOOLEAN]
    /\ running \in [Conns -> Nat]
    /\ locked \in [Conns -> BOOLEAN]
    /\ closed \in [Conns -> BOOLEAN]
    /\ server \in [Conns -> {"none", "serving", "returned", "counted", "deleted",
                             "cancelled", "done", "crashed"}]
    /\ listener \in [Conns -> {"none", "bound", "listening", "closed"}]
    /\ sockets \subseteq Conns

AttemptsOK ==
    /\ pc \in [Attempts -> Labels]
    /\ at \in [Attempts -> Processes \cup {None}]
    /\ conn \in [Attempts -> Conns \cup {None}]
    /\ clientIP \in [Attempts -> AddressType]
    /\ source \in [Attempts -> AddressType]
    /\ answer \in [Attempts -> {"none", "success", "badAddress", "notFound"}]

\* Types; in particular connEntry.running, a uint, never goes below zero.
TypeOK == ProcessesOK /\ EntriesOK /\ AttemptsOK

\* The transports of a connection that are counted.
Using(c) == {a \in Attempts : conn[a] = c /\ pc[a] \in {"first", "counted", "run"}}

\* The server goroutine holds its own count from "stop grace timeouts" on.
ServerOver(c) == server[c] \in {"counted", "deleted", "cancelled", "done"}

\* A connection of a living process that no transport uses.
Idle(c) == /\ owner[c] \in Processes /\ alive[owner[c]]
           /\ Using(c) = {} /\ ~ServerOver(c)

\* The grace timer runs exactly when it should: never while a transport uses the
\* connection or after the session has ended, and a connection without transports has
\* its timer running, unless it is closed or about to be.  This is what keeping
\* running and timeout in step, in increaseRunning and decreaseRunning, is for.
GraceTimer ==
    \A c \in Conns :
      /\ timeout[c] = "armed" => Idle(c)
      /\ Idle(c) => timeout[c] = "armed" \/ expiring[c] \/ closed[c]

\* A client may resume a connection exactly from the host that opened it, whichever
\* form its address has, and whichever process it reaches (resumeConnection).
AddressDecides ==
    \A a \in Attempts : conn[a] # None =>
      /\ answer[a] = "success"    => source[a].host = remoteIP[conn[a]].host
      /\ answer[a] = "badAddress" => source[a].host # remoteIP[conn[a]].host

\* A connection that can be resumed through any process: it is in its owner's table
\* and its handover listener accepts connections.
Resumable(c) == /\ owner[c] \in Processes /\ alive[owner[c]]
                /\ c \in conns[owner[c]] /\ listener[c] = "listening"

\* A client is told that its connection does not exist (notFoundServerExchangeTag, on
\* which it gives up) only when it cannot be resumed: no process's cleanup takes away
\* the socket of a connection that another process still serves.
NotFoundMeansGone ==
    [][\A a \in Attempts :
         answer[a] # "notFound" /\ answer'[a] = "notFound" => ~Resumable(conn[a])]_vars

\* A cleanup that could list the sockets and was not canceled in its delay has removed
\* every socket that a dead process had left when it started, but for those that it met
\* an error on itself ("exhaustively clean up the current left over sockets"): an error
\* on one of them does not keep it from the others.
CleanupComplete ==
    \A p \in Processes :
      cleanup[p] = "done" /\ None \notin errs[p] => leftover[p] \cap sockets \subseteq errs[p]

\* "Connections that stay without an active underlying connection for a given time are
\* forcibly closed": no connection stays idle and open for ever.
IdleExpires == \A c \in Conns : Idle(c) ~> (~Idle(c) \/ closed[c])

\* A closed connection leaves the table and takes its handover socket with it, unless
\* its process crashes: the deferred calls of the server goroutine.
Forgotten ==
    \A c \in Conns :
      closed[c] ~> \/ server[c] = "crashed"
                   \/ c \notin sockets /\ \A p \in Processes : c \notin conns[p]

=============================================================================
