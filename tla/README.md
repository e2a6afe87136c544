# Teleport: a verification project

This directory holds TLA+ modules that model parts of Teleport, the TLC
configurations that check them on small instances, and TLAPS proofs of what
holds for every instance. Its core is the part whose correctness is hardest
to test: SSH connection resumption (`lib/resumption`), which promises an SSH
session one unbroken stream of bytes over network connections that come and go.
Around it are four protocols of the cluster: the backend lock, semaphores, the
rotation of the host certificate authority, and the fan-out buffer behind the
caches' watchers.

## Inventory

Teleport is an access plane: an auth server with a key-value backend, proxies,
and agents that join through reverse tunnels. Most of the repository is protocol
proxying, policy evaluation and integrations. The parts whose own logic is a
concurrent or distributed protocol are these.

| part | state | operations | what is hard | what makes it correct |
|---|---|---|---|---|
| Resumption protocol v1 (`lib/resumption/resumable.go`) | per `Conn`: replay and receive buffers, `localClosed`, `remoteClosed`, `requestDetachLocked`; per run: positions, two loops | attach, detach, handshake, read loop, write loop | two goroutines per transport, several runs for one `Conn`, I/O without the lock, loss of everything in flight | the stream is intact over any sequence of transports; one run at a time; a detach completes; a close arrives after the data |
| Managed connection (`managedconn.go`) | ring buffers with absolute positions, deadlines | Read, Write, Close, SetDeadline | slices used outside the lock, timers that fire late | buffers stay within limits; EOF means everything was read; a stale timer times nothing out |
| Resumption client (`client.go`) | current transport, replacement timer, backoff | dial, replace, give up | a replacement overlaps with the transport it replaces | at most one dial at a time; a lost connection is dialed again |
| Resumption server (`server_exchange.go`, `server_detect.go`, `handover.go`) | table of connections, running count and grace timer, handover sockets | new, resume, expire, hand over, clean up | timers that already fired, entries removed while a resume holds them, a second process | a connection with a transport is not expired; one without is, in time |
| Backend lock (`lib/backend/lock.go`) | a key with an owner and an expiry | acquire, refresh, release, run while locked | expiry between two calls, refreshes and deletes that come late | a lock that is refreshed in time is held; it is lost only to expiry, its owner or a Delete that came too late; whoever lost it is told |
| CA rotation (`lib/auth/rotate.go`, `lib/service/connect.go`) | phase, mode, schedule, key sets; on every agent a rotation state and identities | manual and automatic transitions, rollback; agents that follow | several auth servers with caches that lag, crashes between two writes | everybody trusts everybody at every moment; only the documented transitions happen; everybody follows |
| Semaphores (`lib/services/local/presence.go`, `lib/services/semaphore.go`) | leases with expiry | acquire, keep alive, cancel | compare-and-swap with bounded retries, lost answers | never more holders than allowed; a holder's lease is in the backend |
| Fan-out buffer (`lib/utils/fanoutbuffer`) | ring of items, backlog, cursors | append, read, close | slow readers, counters decreased under a shared lock, wake-ups outside it | no gap is silent; no reader sleeps on |
| Backend event buffer (`lib/backend/buffer.go`) | ring of events, watchers | emit, watch, close | slow watchers | no gap is silent |
| Caches (`lib/cache`, `lib/utils/fncache.go`) | resources, generation, watch | init, apply event, reset | events raced by reads, single flight | reads are as fresh as promised |
| Inventory, reverse tunnel tracker, circuit breaker | streams, leases, counters | announce, claim, trip | reconnects, expiry | see the source; not planned |

How they interact, for resumption: the SSH client (`tsh`, a proxy) holds a `Conn`
whose bytes it reads and writes; a goroutine (`runClientResumableUnlocking`)
attaches transports to it, and dials a new one every `replacementInterval` or
when the current run ends. The server finds the `Conn` of a token in its table
and attaches the same transport on its side. Each attached transport is one call
of `runResumeV1Unlocking`, with a read and a write goroutine; all share the
`Conn` under one mutex and one condition variable.

The others meet in the backend: an auth server runs migrations and periodic work
under the lock, keeps session limits with semaphores, and writes each phase of a
rotation by compare-and-swap; other auth servers learn of it through their caches,
whose events a fan-out buffer passes on to the watchers.

`PROJECT.json` lists under `hazards` what can go wrong at which line, with the
properties that watch for it.

## Modules

| module | what it is |
|---|---|
| `DuplexStream` | the abstract specification: two applications and one stream in each direction, no transports |
| `ResumableConn` | the detailed model of both ends, their runs and the transports; all properties |
| `ResumableConnInv` | the inductive invariant: `TInv` (types, attachment) and `IInv` (everything) |
| `MCResumableConn` | the instances TLC checks |
| `ResumableConnTypes` | the proofs of `TypeOK` and `SingleRun`, and the facts about buffers and helpers that the actions share |
| `ResumableConnSafety` | the proofs that `IInv` is inductive, of the stream and close properties, and of the refinement of `DuplexStream` |
| `ResumptionServer` | the server around the connections: table, grace timer, exchange, handover, clean-up; all its properties |
| `MCResumptionServer` | its instances for TLC |
| `ResumptionServerProofs` | its inductive invariant `ServerInv` and the proofs of its safety properties |
| `RingBuffer` | the growing power-of-two ring of `managedconn.go`, as operators |
| `ManagedConn` | `managedConn` with that ring, its condition variable, deadlines and timers; `MCManagedConn` has its instances |
| `ManagedConnProofs` | its invariant `MInv` (deadlines, ring buffers, waiting calls) and the proofs of all its safety properties |
| `BackendLock` | `RunWhileLocked`, its refresher, and the lock in the backend |
| `BackendLockProofs` | its inductive invariant and the proofs of the lock's safety |
| `Semaphores` | the leases of a semaphore, the service that changes them, the locks that keep them alive |
| `SemaphoresProofs` | its inductive invariant `SInv` and the proofs of its safety properties |
| `CARotation` | the host CA in the backend, auth servers and their caches, agents and their disks |
| `CARotationProofs` | the invariants `RInv` of the CA in the backend, `TInv` of the types and `PInv` of who trusts whom; the proofs that phases come in order and that trust is never lost |
| `FanoutBuffer` | the fan-out buffer and its cursors |
| `FanoutBufferProofs` | its invariant `FInv` and the proofs of its safety properties |

### How ResumableConn corresponds to the code

*Atomicity.* A critical section under `Conn.mu` is one action, and so is an I/O
call. `cond.Wait()` is a guard; a `Broadcast` wakes whoever's guard has become
true, so it needs no state. What the code does outside the lock is a step of its
own: `ReserveChunk` takes the free slice under the lock, `FillChunk` is the
`io.ReadFull` and the critical section after it. The slice is bounded by the frame and
by what is free of the array, as in the code, not by what is free of the limit
`receiveBufferSize`, which is only compared before; `receiveCapacity` is the array that
`reserve` makes for a buffer at that limit, and `TypeOK` bounds the buffer by it. With the
sizes of the code both are 128 KiB, and the runs have them equal; the proofs hold for any
capacity that is not below the limit.

*Runs.* `phase[s][t]` says how far side `s` has got in
`runResumeV1Unlocking` for transport `t`: `idle`, `dialing` (the client is in
`dialResumable`), `wait` (the loop at the top), `handshake` (attached, position
not sent), `greeted` (position sent), `loops` (both goroutines run), `done`.
`attached[s]` is the transport whose closure is in `requestDetachLocked`.
`reader`, `label`, `remainingSize` and `tail` are the read loop's program counter
and local variables, `writer`, `localPosition` and `peerPosition` those of the
write loop.

*Data.* A byte is its label, the number of bytes its application wrote before
it. A send buffer holds byte `p` at position `p`, so only its positions are
kept. A receive buffer keeps the label at each position: a byte that is lost,
repeated or out of order shows as a label that is not its position. Frames
carry the label of their first byte and a size. The ring array, the varint
encoding and logging are abstracted; a frame is read in the same pieces as in
the code (acknowledgement, size, chunks of data), each of which may fail.

*Transports* (external). A transport may be cut at any moment; then what was in
flight may arrive, or its end may be lost, and nothing new arrives. A side that
closes its end loses what was travelling to it, except what its read loop has
buffered. An I/O call may fail when the transport is cut or either end is closed.

*Merged steps.* `RejectHello` joins marking the connection closed, sending the
errorTag and detaching; no one else can act differently in between, since every
other run then finds `remoteClosed`. A frame is written whole; a partial write
is a write followed by a cut and a partial read. `Close` stands for every caller
of `Conn.Close`: the application, the client's loop when it gives up, and the
server's grace timer.

### How ResumptionServer corresponds to the code

`pc[a]` is where the goroutine is that handles transport `a`
(`handleResumptionExchangeV1`, `resumeConnection`, `attemptHandover` and, past a
handover, `handleHandoverConnection` in the owner's process). A step ends where a
lock is released or a system call returns: looking up the token, writing the
answer, `increaseRunning` and locking the `Conn` are separate, and anything may
happen between them. `server[c]` is the goroutine that runs the SSH server, with
its deferred calls in the order they run. A timer is `armed` or not; firing starts
its function (`expiring`), which `Stop` no longer reaches and which has to wait
for `Conn.mu` to close the connection.

Several processes share the data directory. A socket is on disk from bind on,
accepts connections from listen on, and stays when its process crashes.
`HandoverCleanup` looks at one socket at a time. `DelayOver` assumes what the
comment in `handoverCleanup` does: the time between bind and listen is shorter
than `cleanupDelay`. `errs[p]` are the sockets that a clean-up met an error on (the code keeps no
more than ten of the errors themselves), with `None` when it could not list them or was canceled in
its delay. An error of Accept that is not temporary closes the listener while the
connection lives (`AcceptFails`); other processes then take it for gone, and `Resumable`, of which
`NotFoundMeansGone` speaks, is false. An address is a host and a form (IPv4, or IPv4 in IPv6), and
`Unmap` and `As16` convert it as netip does.

*Merged or left out.* `StartServer` joins starting the SSH server's goroutine and
the first `increaseRunning`: that goroutine can do nothing with the connection
while the handler holds `Conn.mu`. A transport that fails before its token or
tag has been read leaves no trace. The key exchange and a connection that does
not ask for resumption touch none of this state. A run may end at any time; what
it does is in `ResumableConn`.

### How ManagedConn corresponds to the code

`ResumableConn` keeps positions and labels of bytes and takes `cond.Wait()` for a
guard. `ManagedConn` looks at what that leaves out. The ring is there slot by
slot: `buffered`, `free1`/`free2`, `reserve`, `append` and `advance` compute the same
slices as the code, and the transport fills the slice it was given without the
mutex while the application reads. A goroutine that waits goes on only after a
`Broadcast` (`wait` becomes `woken`), so that a forgotten one shows. A timer is
`nil`, `armed` or `idle` (fired or stopped); `callbacks` counts its functions that
have started and wait for the mutex, which `Stop` no longer reaches. A deadline ahead
may have passed by the time a call that waited comes to it, and once passed it stays
so. `due` remembers that the deadline in force was reached. One reader, one writer and one
transport are modelled, as `ResumableConn` shows one run at a time; reads and
writes of length zero, which return at once, are left out.

### How BackendLock corresponds to the code

A call is one `RunWhileLocked`. Its goroutine goes through `acquiring`, `creating`
(the expiry is computed and Create is under way), `running` or `cancelled` (the
function runs), `releasing` (before Release's Get), `deleting` (between its Get and its
Delete) and `done`; its refresher sleeps, or is in `resetTTL` between Get and
CompareAndSwap (`got`). The id is the call, so a value compared is an owner compared.
An answer that is lost is an error after an effect. The Get before each Create, whose
result is ignored, is left out.

*Timing.* Time passes by `Tick`, which nothing holds up: a Create, a CompareAndSwap or a
Delete may take effect arbitrarily late, a refresh may hang, a function may ignore its
context for ever, as nothing in the code bounds them (`ReleaseCtxTimeout` bounds the
wait for an answer, not when a request takes effect). So locks are lost under running
functions, two functions run at the same time, and a late Delete removes the lock
of another call; TLC reaches all three. The properties say what holds nevertheless, in
terms of two things the code does not record: `age[c]`, the time since the clock was
read for the expiry that is in the backend, and `robbed`, the calls whose lock the Delete of another
call removed. Counters stop at the last value that makes a difference. There is one
clock, as for semaphores.

### How Semaphores corresponds to the code

`lease[h]` and `left` are the item in the backend; `fresh[h]` says that nobody has
written it since `h` read it, which is what a conditional update compares. An
operation of the service is its Get and its update, two steps; acquisitions and
cancellations retry up to `leaseRetryAttempts`, renewals are tried again by
`keepAlive`. The answer to any write may be lost. `local[h]` is the expiry the holder
believes in, `next[h]` the one it asks for, which is computed from the tick that was
received, possibly late. `SemaphoresAssumption` asks that an acquisition and one tick
fit in the expiry, and there is one clock: skew between auth servers is left out.
`deleted` remembers that an administrator deleted the semaphore; a new one may then
be filled while old holders have yet to notice, so the bound on the holders is not
claimed (`LossNoticed` says that they do notice).

### How CARotation corresponds to the code

The key sets of the CA are numbered. `ca` is the item in the backend with its active
and additional keys, mode and rotation; `request[s]` is a rotation request of auth
server `s` between its read and its compare-and-swap, by an administrator
(`RotateCertAuthority`) or by the schedule (`autoRotate`); `cache[s]` follows with the
events on their way to it. An agent polls an auth server it can reach
(`Reaches`: each side's certificate is signed by keys the other trusts), decides
(`Follows`) and works in steps that may fail or be cut off by a crash: register
again, write the identity, write the rotation state. `Restart` loads the
identities that go with the state on disk.

*Patience.* `MutualTrust` holds only if a phase is left when everybody has followed it,
as the documentation tells administrators and as the schedule is meant to give
time for. `Patient` says so; a rollback may come at any time. Without it,
`rotation_skip` shows what an agent that is late does.

### How FanoutBuffer corresponds to the code

An action is what a goroutine does under the buffer's lock; reads under the shared
lock only decrease atomic counters, and are one step each. `pos`, `len`, `ring` and
`overflow` are the code's; an item is the number of items before it, so a cursor
that is given a wrong one shows. A notify channel is its number; `notifying`
holds those that an Append has replaced and not yet closed. A cursor that closes does so
in the two critical sections of `closeLocked` (`closing` between them). `Elapse` ends
grace periods, of older entries first. Append is guarded by `~closed`, since it
panics otherwise and FanoutV2's Emit checks under its own lock. TryRead
is a Read that does not wait; the finalizer is Close.

## What is checked

| run | bounds | shows |
|---|---|---|
| `resume_stream` | 2 transports, both can be cut, both sides may close; the server writes 2 bytes, receive buffer of 1 | `TypeOK`, `StreamIntact`, `ReplayCovers`, `CleanCloseComplete`, `NoProtocolError`, and that the connection implements `DuplexStream` (so EOF is final) |
| `resume_three` | 3 transports (the replacements symmetric), one byte in each direction, no close, no cut (ends may still time out and close transports) | `SingleRun`, and `DataSafe`, the stream properties together, when several runs wait and when a stale position is read |
| `resume_progress` | 2 transports, no cut; the server writes 2 bytes and may close | `DetachCompletes`, `WaiterProceeds`, `EventuallyReceived`, `CloseReaches` |
| `server_handover` | 2 processes, one may crash, the other cleans up; 1 connection, 2 transports, 2 hosts and every form of address | `TypeOK`, `AddressDecides`, `GraceTimer`, `CleanupComplete`, `NotFoundMeansGone`, `IdleExpires`, `Forgotten` |
| `managed_conn` | 2 goroutines that set deadlines, arrays that grow from 1 slot to 2, 3 bytes in and 2 out | `TypeOK`, `TimeoutOnlyWhenDue`, `NoMissedWakeup`, `StreamInOrder`, `WaitsForCallback`, `ReadUnblocked` |
| `backend_lock` | 3 calls, TTL 2, refreshes after 1; no bound on how late anything is | `LockHeld`, `OnlyOwnerReleases`, `LossStopsFn`, `LockFreed`; no deadlock |
| `semaphore` | 2 holders, 1 lease, expiry 6, a tick every 2 | `TypeOK`, `HoldersBounded`, `HolderHasLease`, `LossNoticed`; no deadlock |
| `rotation` | 2 auth servers and an agent, one rotation, automatic or hurried on or rolled back by an administrator, one fault | `TypeOK`, `MutualTrust`, `PhasesInOrder`, `EverybodyFollows` |
| `fanout` | 2 cursors, a ring of 2, 3 Appends of 2 items, 2 of them at a time, reads of 1 or 2 items | `WaitExact`, `NoSilentGap`, `ReadersWoken` |
| `stale_attach` | 3 transports | finding: violates `UnbrokenStream` |
| `deadline_hang` | 2 goroutines that set deadlines, no data | finding: violates `SetterReturns` |
| `rotation_skip` | an auth server and an agent, an administrator who does not wait | finding: violates `ServersAfterClients` |

*Bounds.* A receive buffer of one byte and a frame of two make every frame span
several chunks and make the read loop wait for room; a replay buffer of two bytes
fills up. Two transports are one replacement, with the old and the new run
overlapping on both sides; with three the server can hold two waiting runs, one
of which the client has abandoned. `WriteBound`, `Closers` and `Cuttable` bound
what the environment does; `Transports` bounds the number of dials. For the
server, one transport opens a connection and another resumes it. `Crashable` and
`Cleaners` bound crashes and clean-ups. That a clean-up goes on with the other sockets after an error on one takes
two connections, which TLC does not finish in minutes; `CleanupCorrect` proves it for any number. Since the server's safety properties are proved for
every instance, these bounds matter only for `IdleExpires` and `Forgotten`. In
`managed_conn` a ring of two slots wraps around and grows while a slice of it is out,
and three calls that set deadlines (`MCCalls`) overlap with each other, with timers
that fire and with Close. In `backend_lock` a TTL of two ticks
and an interval of one let a refresh come in time, late or never; with three calls, one that
lost its lock can meet the next owner, and a call it robbed can rob the third (the proofs
hold for all calls and times). `semaphore` lets a renewal be lost or late, and
a lease expire and be taken by the other. `rotation` has every phase, both ways out
of it and a fault at every step; a second rotation starts from the same state with other
numbers. In `fanout` the backlog holds up to four items and expires in parts, the ring wraps
around, and a cursor can fall behind, fail and be closed while an Append is half done.
With 4 items in Appends of 1 or 2 it passes as well.

Deadlock is not checked where the system may stop: transports are used up, items
appended or rotations done.

*Fairness.* A goroutine that can proceed does, a process that stopped is started again, and a
timer that runs fires. In `resume_progress`: weak fairness of the run's steps, of the attach and
detach steps and of the handshake watchdog. An I/O call on a transport that its
own side closed returns an error; that a call notices the failure of the
network is not assumed, nor anything about new transports, the application's
reads or writes. What needs the network or the application says so in the
property: `Healthy(t)` for a transport that stays up, `KeepsReading(s)` for an
application that does not leave the receive buffer full for ever. For the
server: an armed timer fires, its function gets the lock, the goroutines that open
a connection and that end its session proceed, and the SSH server returns once its
connection is closed, as its reads and writes then fail. Nothing is assumed of
runs, new transports, clean-ups or crashes. `ManagedConn`: a goroutine that was woken gets
the mutex, timers fire and their functions run. `BackendLock`: time passes, and
the refresher runs and its calls end, however late; that a function returns is not assumed. A select for which both the stop and the timer are ready again and again takes the stop
some time (strong fairness; Go chooses among ready cases at random). `Semaphores`: time
passes and the keepalive goroutine runs; nothing about its calls succeeding. `CARotation`: caches
follow the backend, agents poll, processes restart; nothing about administrators. `FanoutBuffer`: an
Append that has released the lock closes its channel, a reader that was woken reads; nothing
about new items or Close.

*Refinement.* `ImplementsStream` maps the receive position to `received`,
`localClosed` to `closed` and `remoteClosed` to `gone`. It holds with one
replacement. With two the finding `stale_attach` breaks it, since a side can then
see its peer as gone although the peer never closed; the safety of the data
(`DataSafe`) does not depend on it and is checked with three transports.

Every property has a mutant in `PROJECT.json`: a plausible slip in the code (an
early acknowledgement, a missing check of `stopRequested`, a Put for a
compare-and-swap), written as a "Faulty variant" next to the definition it
replaces, that TLC finds out through that property.

### Findings

1. `stale_attach`. A run waiting on the server is not ordered with the client's
   runs. The client times out on transport B and continues on C; the server
   attaches C, exchanges data, then lets the run that waited with B take over. B
   still holds the position the client sent on it; acknowledgements on C have
   moved the replay buffer past it, so the server takes the connection for
   closed by the peer (`resumable.go:194`) although neither application closed
   it, against the doc comment of `Conn`. No data is corrupted.
2. `deadline_hang`. `Close` stops the deadline timers and leaves `stopped` false
   (`managedconn.go:97`). A goroutine in `setDeadlineLocked` that was woken by a timer's
   function, and that finds before it has the mutex that another goroutine armed the timer again and
   Close stopped it, waits for a function that is not under way: the call never
   returns. It takes two goroutines that set the same deadline and a Close.
3. `rotation_skip`. The comment in `rotate` allows `update_servers` "only if the previous phase
   was 'Update clients'"; the condition (`connect.go:1017`) also lets an agent pass whose
   `CurrentID` matches, which it does throughout one rotation. An agent that was away during
   `update_clients` writes its old identity as current and records the phase. With `Patient`
   this does not happen.

### Observations

Met while modelling, and not shown by a run of their own:

* When the write loop fails, its stop request makes the read loop give up the frame it
  is parsing (`resumable.go:271`), although the comment in the write goroutine (`:166`) keeps the
  transport open because "the read loop might have data still worth parsing". The data
  comes again on the next transport, so `StreamIntact` and `EventuallyReceived` hold.
* `closeLocked` of a fan-out cursor takes the cursor off the count before it counts off
  the unread items. Items that are appended in between may be seen by everybody else and leave the
  ring while older ones in the backlog still wait for the closing cursor; its positions in the backlog
  are then off, and the count-off misses entries or hits other ones that no open cursor
  will read. They stay until their grace period ends. `WaitExact` is therefore stated for items
  that some open cursor will read, and those are exact.
* `cleanupSlots` never clears the last entry of the backlog, seen or expired, so a cursor at
  exactly that entry goes on, where the doc comment of `Buffer` has all cursors in an expired backlog
  fail. `NoSilentGap` holds either way.
* The backend lock has no fencing. A function whose refresh hangs beyond the TTL runs on while the next
  one runs, until the refresh returns and fails (`lock.go:218`); and Release, which compares the owner in a Get and then deletes
  in another call (`lock.go:142`), removes the next owner's lock when its own expires in between, with a conditional
  delete it could not. `LockHeld` and `OnlyOwnerReleases` are stated with these cases in them; `LossStopsFn`
  says that the function is told in the end.
* The doc comment of `RotateCertAuthority`'s schedule (`rotate.go:124`) has an automatic rotation
  that fails switch to manual mode; `autoRotate` returns the error and tries again on the next tick.

## What is proved

Every invariant and every action property that a passing run checks is a theorem as
well: the runs show it on a small instance, with liveness, and the proofs for every value of the
constants that satisfies the named assumptions. Each proof has an inductive invariant, a lemma for
each action or group of actions, and in it a step for each part of the invariant that
the action can disturb.

### Resumption

For all transports, buffer sizes and bounds that satisfy `ConstAssumption`
(sizes are positive, `First` is a transport):

* `TypeCorrect`: `Spec => []TypeOK`. The interesting part is capacity: the read
  loop reserves room, releases the lock, reads, and appends later.
* `OneRun`: `Spec => []SingleRun`.
* `StreamAlwaysIntact`, `ReplayAlwaysCovers`, `NeverProtocolError`, `DataAlwaysSafe`,
  `CloseAlwaysComplete`: `Spec => []P` for `StreamIntact`, `ReplayCovers`,
  `NoProtocolError`, `DataSafe`, `CleanCloseComplete`.
* `StreamImplemented`: `Spec /\ [][NoReject]_vars => ImplementsStream`, the refinement of
  `DuplexStream`; with it `BrokenOnlyByReject` (`UnbrokenStream`) and `EOFIsTheEnd`
  (`EOFMeansAll` of the abstract stream).

Neither of the first two is inductive alone. A reserved chunk still fits when it is
filled because no other run appends to the same buffer, which is `SingleRun`;
`SingleRun` needs to know that a run that ends was the attached one and that
nothing is attached to a new `Conn`. `TInv` adds `RunShape`: which loops exist
in which phase, that a chunk being filled fits the frame and the free space,
and that acknowledgements never run ahead of the receive buffer.

The stream properties follow from `IInv`. Its idea: on every transport, the frames in flight
continue the receiver's stream (`DataAt`) and the acknowledgements in flight add up to what
the receiver has (`AckAt`), as long as the receiver can still take them; a resume position in
flight is the receiver's own position until its run ends (`HelloAt`); no
frame is in flight before both positions were exchanged (`OrderAt`); and a write loop is at a
position that its replay buffer still covers (`HeldAt`). All of these speak of one transport and
its two runs. A step on one transport changes the buffers, which the others also speak of; that
this disturbs nothing there rests on `SingleRun`: no other run of that side is past its
handshake, and what travels to a run that is over no longer matters. TLC has checked `IInv` on the instances of `resume_stream`
and `resume_three`.

The refinement is proved for behaviours in which no end rejects a resume position (`NoReject`). That
condition is needed and is exactly the finding `stale_attach`: `RejectHello` is the only action that
sets `remoteClosed` without the peer's errorTag. With one replacement it is never enabled, as TLC
finds on the instance of `resume_stream`; with two it can happen. The five data properties need no such condition, so a rejected
position closes a connection early but never corrupts it.

### Resumption server

For all processes, connections, transports and addresses that satisfy
`ServerAssumption` (finitely many transports, hosts that are not mistaken for the
zero address):

* `GraceTimerCorrect`, `AddressCorrect`, `CleanupCorrect`, `ServerTypeCorrect`:
  `Spec => []P` for `GraceTimer`, `AddressDecides`, `CleanupComplete`, `TypeOK`;
* `NotFoundCorrect`: `Spec => NotFoundMeansGone`, an action property.

They follow from `ServerInv`. The timer is right because `running` is exact: it is
the number of transports between `increaseRunning` and the end of their run, plus
one once the session is over (`RunningExact`), which holds through a crash because
whoever works on an entry is in the process that owns it (`Places`). A live socket
is never removed because what a clean-up still suspects after the delay had a
listener before and is not between bind and listen, and a closed listener stays
closed (`SocketsKept`). A clean-up misses nothing because its two lists always hold
the left-over sockets (`CleanupKeeps`). There is one lemma for each part, with a
step for each action that can disturb it. TLC has checked `ServerInv` on the
instance of `server_handover`.

### Backend lock

For all callers, TTLs and intervals, with no assumption on how late the backend, the refresher
or a function is:

* `LockTypes`: `Spec => []TypeOK` (not among the properties of the run); `LockIsHeld`: `Spec => []LockHeld`;
* `LockIsOwn`: `Spec => OnlyOwnerReleases`, an action property.

`LockHeld` says when a function may be without its lock: when TTL has passed since the last expiry that took
effect was computed, or when another call robbed it. `OnlyOwnerReleases` says who can do that: a call whose own
lock was there at its Get and was lost before its Delete. So as long as every call is refreshed and released in time, the lock
excludes; a call that is late endangers itself, and through its Delete one other. They follow from `IInv` of
`BackendLockProofs`. Its heart is that what is left of a lock and its age
always add up to TTL, which a refresh keeps only because the expiry it computed is not older than the one in the
backend (`elapsed[c] <= age[c]` while it has `got` the item): so a lock whose age is below TTL cannot have expired, nobody else
can have created one, and a late compare-and-swap of another's refresher fails on the owner.

### Semaphores

For all holders, leases and times that satisfy `SemaphoresAssumption`:

* `SemaphoreTypes`: `Spec => []TypeOK`; `LeaseIsThere`: `Spec => []HolderHasLease`;
* `SemaphoreBounded`: `Spec => []HoldersBounded`.

They follow from `SInv`, in which two arguments meet. About time: what a holder believes it has left and the time
since the last tick add up to at most `Expiry`, what it asks for is not less than what it has
(`Timing`), and the lease in the backend lasts at least as long as it believes (`Backed`).
About compare-and-swap: an update whose item nobody has written since it was read keeps every unexpired
lease and has room for its own (`Counted`). The bound on the leases in the backend (`LeasesBounded`)
then holds, and bounds the holders, as each has a lease there.

### CA rotation

For all auth servers, agents, requests and rotations that satisfy `CARotationAssumption`:

* `RotationInOrder`: `Spec => PhasesInOrder`, an action property;
* `TypesAlways`: `Spec => []TypeOK`;
* `TrustAlways`: if `Patient`, then `Spec => []MutualTrust`.

The order of the phases follows from the comparison in the compare-and-swap: a request that
has not been overtaken was computed from the CA that is in the backend (`LeadsOn`). That a rollback
gives back the old keys needs to know which keys each phase has (`KeysOfPhase`). Nothing is
assumed of patience, caches or agents, and neither is for the types.

`MutualTrust` needs `Patient`, as `rotation` has it: a phase is left only when everybody has followed it, a
rollback excepted. The invariant `PInv` says that the cluster is in one of three stages:

* `OneKey` (standby, init, and a rollback from init): whatever is cached, on its way to a cache, on a
  disk or in use is signed by the active keys and trusts them;
* `ClientsChange` (update_clients, and a rollback from it): servers and disks still have identities of the original
  keys, clients those or new ones that trust both;
* `ServersChange` (update_servers, and a rollback from it): every client trusts both keys, and servers
  have either.

In the last two every version of the CA that an auth server has or will have trusts both keys, and one in
the phase rollback is the last one (`BothTrusted`). The delicate case is an auth server that signs its own
identity with what it has cached, whatever the phase: that is not older than the
phase its agent follows (`NotBefore`). A request for a phase that is not rollback is pending only while
nobody has anything left to do (`Waits`), and steps of agents keep it so (`QuietStep`); so a write moves on to the next stage
from a state in which all have followed (`WriteKeeps`). TLC has checked `PInv` with one auth server, a fault and two rotations,
and with two auth servers.

### Managed connection

For all goroutines, calls and buffer sizes that satisfy `ManagedConnAssumption`:

* `TimeoutIsDue`: `Spec => []TimeoutOnlyWhenDue`;
* `SetterAwaits`: `Spec => []WaitsForCallback`;
* `TypesAlways`, `NeverMissedWakeup`, `BuffersInOrder`: `Spec => []P` for `TypeOK`,
  `NoMissedWakeup`, `StreamInOrder`.

The first two follow from `DInv`: a function under way belongs to a timer that is idle, not marked as stopped
and due, so no deadline is set in between; and as long as the connection is open the
converse holds, a timer that is idle and not marked has its function under way (`Agree`). Close
breaks the converse, which is the finding `deadline_hang`. The others follow from `MInv`, which adds `BInv` and
`WInv`. `BInv`: byte `i` of the window is in slot `i % cap` (`Holds`), and the slice that the transport
fills without the mutex is the free slots that come next, still free (`TailAt`); below it are lemmas on what `buffered`, `free1`,
`free2`, `append`, `advance` and `reserve` compute, for any positions and capacity, with the fact that
doubling reaches any size. `WInv`: a call that waits has nothing to do.

### Fan-out buffer

For all cursors, capacities and sizes that satisfy `FanoutAssumption` (fewer cursors than the unsigned counter
can count):

* `BufferAlwaysAgrees`: `Spec => []FInv`;
* `WaitAlwaysExact`, `NeverSilentGap`: `Spec => []P` for `WaitExact`, `NoSilentGap`.

In `FInv` the ring is in its place and the backlog is in order (`Shape`), and what an open cursor has yet to
read is at its position and counts the cursor, unless the grace period of the first such item is over
(`Exact`). The order alone must do for the backlog before the slowest open cursor: there, `closeLocked` may leave
counts and positions that are off (see the observations), and `Exact` says nothing of them. Append is a recursive function of
the number of items; that it keeps the invariant is proved by induction on that number.

### Induction

Two of these proofs need induction on numbers. The library's induction theorems take an operator as a
parameter, which the installed provers cannot instantiate; `LeastNat` and `Induction` get round it by taking
the *set* of the numbers that have the property, and follow from `NatLessThanWellFounded` and `WFMin`. That
a recursive function exists and satisfies its equation is proved in the same way, from tables of its first values.

### Only model-checked

The liveness properties (`DetachCompletes`, `WaiterProceeds`, `EventuallyReceived`, `CloseReaches`,
`IdleExpires`, `Forgotten`, `ReadUnblocked`, `LossStopsFn`, `LockFreed`, `LossNoticed`, `EverybodyFollows`, `ReadersWoken`): fairness
and ENABLED are out of the prover's reach. That no position is rejected with one replacement was checked on the instance of
`resume_stream` only.

## Plan

1. Prove that under `Patient` an agent goes to `update_servers` only from `update_clients`
   (`ServersAfterClients`), the converse of the finding `rotation_skip`.
2. Prove the safety that the liveness properties rest on: that a run asked to detach, a server whose
   timer is armed, or a reader that waits always has a step that leads on.

## Not modelled

Of resumption: the key exchange, token and version strings (data that no
property here is about), byte encodings. Of CA rotation: a rotation with no grace
period, keys in hardware modules (`ensureLocalAdditionalKeys`), an agent that joins for the first
time during a rotation, an agent with several roles, CAs other than the host CA. Of semaphores:
clock skew. The backend event buffer (a smaller relative of the fan-out buffer), the function
cache, the resource cache, the inventory control stream, the reverse tunnel tracker and
the circuit breaker have state machines that could be modelled in the same way; the rest of
Teleport, listed in `PROJECT.json`, is policy evaluation, protocol proxying and generated code, where
a model would restate the program. Logging and metrics are left out everywhere.
