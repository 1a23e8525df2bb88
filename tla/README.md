# A verification project for coast

coast is a C++ framework for multithreaded application servers. This directory
holds TLA+ models of its concurrency core, of the server, its sessions, pages and
modules, and of the array behind its data type `Anything`; the TLC configurations
that check them on small instances; and proofs, checked by TLAPS, that hold for
every instance. `PROJECT.json` maps each definition to the lines it models and
lists runs, mutants, findings, hazards and theorems.

## 1. Inventory

| Component | State | Operations | What makes it correct |
|---|---|---|---|
| read/write lock (`mtfoundation/SystemAPI.cpp` `rwl_*`, `RWLock.cpp`) | `valid`, two active and two waiting counters, a mutex, two conditions | lock, trylock, unlock for readers and writers, destroy | exclusion; no waiter stranded; never destroyed under a user |
| `Thread` (`Threads.cpp`) | `fState`, `fRunningState`, `fSignature`, `fThreadId` | Start, Terminate, SetState, CheckState, IntRun, Exit | states in order; terminated means over; waits end |
| `QueueBase` (`modules/Queueing/Queue.h`) | container, two semaphores, two counters of callers, blocked sides, alive mark | Put, Get, Block, UnBlock, EmptyQueue, destruction | bounded FIFO; slots accounted for; blocked callers released |
| `ThreadPoolManager` (`ThreadPools.cpp`) | thread objects, three counters, `fTerminated` | Init, Start, Join, Terminate, Update, destruction | counters agree with the threads; only ended threads deleted; Join means done |
| `WorkerPoolManager`, `WorkerThread` | workers' running state, number of requests in work, block flag | Enter, FindNextRunnable, BlockRequests, AwaitEmpty, Terminate, Finis | a request goes to exactly one ready worker; the count returns to zero |
| `LeaderFollowerPool`, `Reactor` | leader id, pool state | WaitForRequest, PromoteNewLeader, RequestTermination | one leader at a time; someone leads |
| `Mutex` (recursive) | owner and depth in thread-local storage | Lock, TryLock, Unlock, TryLock-based wait | release by the owner only, depth restored |
| `ObjectList_r` | list, shutdown flag, two conditions | insert, remove head with timeout, shutdown | no element lost, waiters leave on shutdown |
| `QueueWorkingModule` | a queue and a put-back queue | PutElement, GetElement, PutBackElement, FlushQueuedElements, Finis | no element lost between queue and put-back |
| `SessionListManager`, `Session` | lists of sessions, reference counts, session mutexes | lookup, make, cleanup, disable, reset | a session in use is not destroyed; none leaked or deleted twice; no wait for ever |
| `Server`, `RequestBlocker`, `Server*ThreadPoolsManager` | readiness, blocked requests, reinit flag | Run, BlockRequests, UnblockRequests, PrepareShutdown, ReInit | no request in work during reinit; shutdown ends and aborts only what outlasts its wait |
| request path (listeners, `RequestProcessor`, dispatchers) | connection, context | accept, verify, process, keep-alive | one processor per connection |
| `WDModule`, `AppBooter`, `Registry` | installed modules and objects | Install, Init, ResetInit, ResetFinis, Finis | reverse order on the way down, also after a failure; what runs is what is configured |
| `Context`, `Role`, `Page`, `Action` | current role, query, delayed query, page and transition | verify, finish, change role, prepare, delay and take up a query | what a client asked for survives the login and is not done again by a later request |
| connection pools (Oracle, LDAP, Sybase) | free and used connections | borrow, give back, time out | a connection has one user and returns |
| `AppLog`, `PeriodicAction`, `CacheHandler`, `MT_Storage` | channels, timer thread, caches, allocators | log, rotate, load, ref and unref | no line lost on rotation; freed once |
| `Anything` arrays (`foundation/base`) | buffers, index table, hash table | At, Remove, insert, sort, clone | a list of optionally named elements |
| data access, renderers, security, `String`, streams, codecs | data | conversions | sequential data code, left to its unit tests |

How they interact. `Thread` broadcasts each state change, with its state mutex
held, to the `Update` of the pool manager that observes it. Pool managers own
thread objects and call `Init`, `Start` and `Terminate` on them. A server's main
thread waits in `Join(0)` on its acceptor pool or leader/follower pool; accepted
connections go through `WorkerPoolManager::Enter` to a worker, which processes a
request within a session. Queues connect producers to pool threads that sit in
`Get`. Every component takes the locks of `mtfoundation`.

What is hard here: Start, Terminate and the new system thread interleave on one
`fState`; timeouts let a manager go on while a thread is still on its way out;
thread creation may fail half way through a pool; blocking and destruction of a
queue race with callers that cannot be seen yet; counters are kept by observers
and reset by re-initialisation. The list with source lines is under `hazards`.

## 2. Modules and the code

### RWLock, RWLockAbs, RWLockProofs
`RWLock` has one action per `rwl_` function. A lock call tests `rwl->valid` without
the mutex (`Call`) and does the rest under `rwl->mutex`; the code between two points
where that mutex is free is one step. `rwl_destroy` may come between the two: then
the caller enters the dead lock as if nothing had happened, or finds its mutex gone
(`MutexGone`), and an unlock returns `EINVAL` and leaves its caller counted
(`UnlockInvalid`). `pthread_cond_wait` splits a lock call in two: the first step counts the
waiter and blocks it, `ReadWoken`/`WriteWoken` is the loop after a wakeup.
`SignalWrite` wakes any one waiter (nondeterministically), `BroadcastRead` all;
wakeups may be spurious. A call that finds the lock destroyed changes nothing and
is no step. Other errors of pthread calls and cancellation are left out; coast
never cancels threads. `RWLockAbs` is the promise: many readers or one writer.

### ThreadStates, ThreadObject, ThreadObjectProofs
`ThreadStates` has the eight states and the rules of `SetState`, shared with the
pool. `ThreadObject` is one `Thread` with the threads that control it and the
system threads `pthread_create` makes. `SetState`, `GetState` and `CheckState`
hold `fStateMutex` and are one step each; everything between them in `Start` is
a step of its own, as are the unprotected writes of `fSignature` and `fThreadId`.
A hook may refuse only `eStartRequested`; a missing allocator takes the same
path. A timed `CheckState` may give up at any time. `Run` is opaque: it may
return whenever it likes. `POOL_STARTEDHOOK` is not defined in the build, so
`eStarted` is set by the starter. `RegisterThread` and `CleanupThreadStorage`
touch thread-local storage only and are part of the neighbouring steps.

### CoastQueue, BoundedFifo, CoastQueueProofs
Put and Get are mirror images: `pc`, `count` and `sema` are indexed by the side.
A step is one critical section (`fBlockedLock`, `fQueueLock`, the lock of the
counters) or one semaphore operation. `fQueueLock` is a variable only because
`Block` keeps it over several steps; every other use is within a step.
`Block` releases one token per round and waits for the signal of a leaving
caller; `Leave` sends it. One controlling thread calls Block, UnBlock,
EmptyQueue and the destructor. `FlowSpec` is the part of the specification
without that thread. `fPutCount`, `fGetCount`, `fMaxLoad` and the copies of
elements between allocators are left out. `BoundedFifo` is the promise.

### ThreadPool, ThreadPoolProofs
`ThreadPoolManager` with its threads, a managing thread (Init, Start, Terminate,
Init again) and a second thread in `Join(0)`. A state change and the `Update` it
triggers are one step, because `SetState` broadcasts while it holds the state
mutex. Starting one thread is one step: `ThreadObject` shows that with a single
owner the new system thread waits until `Thread::Start` is through. What may go
wrong is chosen by `Faults`: allocation (`alloc`), `Thread::Init` (`init`), pool
storage (`storage`), a refusing hook (`veto`), `pthread_create` (`fork`).
`Terminate` also stands for the destructor. Start is only called after a
successful Init, as in the servers. `Terminate` sets `fTerminated` whether or not all
threads have ended, and Init asks for nothing else: it resets two counters and puts
new thread objects into the entries of the pool while earlier threads are still on
their way out. Those whose entry is kept are in `kept`, those that lost it are counted
in `left`; both still report to the manager, and `late` (history) counts these reports.
`AwaitReady` is left out, and that a manager may be deleted while such threads run is
not followed up.

### WorkerPool, ServerPools, RequestService, ServerPoolsProofs
`WorkerPool` is `WorkerPoolManager` with its workers and the statistics handler:
what a listener does inside `Enter` (wait under `fMutex` until the pool is not
blocked and has room, find a ready worker, hand over the request), what a worker
does in `Run`, and blocking, emptying, termination and re-creation of the pool.
Terminating a worker sets the bad bit on the stream of the request it still has
(`HandleRequest::DoTerminationRequestHook`): `aborted` has these requests, and the
worker ends them without an answer. The hook reads `fClientSocket` without a lock while
the worker may be deleting it; that race is not followed up. `InitPool` does not look
at the result of `Start`: a worker without an allocator is terminated at once and
passed over, one without a system thread makes `CheckState(eRunning)` wait for ever
(`InitPoolHangs`).
`SetRunningState` informs the manager with the state mutex held, so a change of
the running state and of `fCurrentParallelRequests` is one step.
`ServerPools` composes it with the listeners (`Acceptor`, `ListenerThread`), the
interrupt handler and the main thread: accepts, SIGHUP with `GlobalReinit` and
each of its failures (a reset that finds no request processor shuts down from inside
`MakeProcessor`, before the pool is taken down), SIGTERM with `StopAcceptLoop`, `Join(0)` and the end of the
pools. Interrupt handler and main thread act one after the other and share `ctl`.
`RequestService` is the promise: an accepted request is given to one free worker,
never while the workers are renewed; the server closes when none waits, may then
abort those its workers still have, and goes down when none is left.

### LeaderFollower, LeaderFollowerProofs
The other kind of server: threads in `WaitForRequest`, the leader in `poll` over
the acceptors, promotion, the processing of events, and `LFListenerPool` as used
by a reset (block, await empty, unblock) and by the shutdown. The two special
leader ids `cNoCurrentLeader` and `cBlockPromotion` are those of the code. `poll` may
return nothing although connections are pending, when it fails (`PollTimeout`).

### Sessions, ModulesProofs
`SessionListManager`, the mutex, references and flags of `Session`, and the part
of `Context` that refers to a session. Requests look a session up, verify it or
make one, hold it while they render, and let it go; the cleaner deletes timed-out
and disabled ones; DisableSession, a reset with another failing module, and Finis
are the other actors. A lookup tests `IsBusy`, `IsTerminated` and sets the time under
`fSessionsMutex`, but tries the mutex of the session three times: these are three
steps. A cleanup holds `fSessionsMutex` over both lists; looking at a session
(`IsDeletable`) and taking it off its list are two steps, because the session's own
mutex is free in between and `ctx.Push` needs no other. Finis may be called after a
reset that failed, and waits for ever then. Use of a freed session is undefined behaviour: a behaviour
of the model ends there (`Defined`), and `SessionInUse` says whether it happens.
The names of its specification carry the prefix `Sessions`, because its proofs
share the module `ModulesProofs` with those of `Modules`.

### AnyArray, AnyList
`AnyArrayImpl` with `AnyIndTable` and `AnyKeyTable`, every operation a step: At by
name and by position, Remove, insert, sort in both directions, DeepClone. Hash
values, capacities and buffer sizes are constants, small enough that tables
collide, keep marks of deleted entries, fill up and are rehashed. `AnyList` is the
promise: a list whose elements may have names. No call is excluded. Where the code
leaves the promise the model follows it: an unnamed element that takes the place of a
removed one shows the name of that one (`stale` has these places, `mixed` says that
they got into a key table by a sort or a clone), and a name written outside the buffers
ends the behaviour (`lost`). `Assert` is empty, as in a production build; in a debug
build `AnyIndTable::InsertReserve` asserts `fSize + pos <= fCapacity`
(`AnyImpls.cpp:459`), which an insert at 2 into an array of 3 does not satisfy.

### Modules, ModulesProofs
`WDModule::Install`, `Terminate` and `Reset` over the configured list of modules,
as driven by `AppBooter` and `DoGlobalReinit`. Any module may fail to initialise or
to finish, a module may be missing, not static (then it is deleted when finished)
or mandatory, a list may name a module twice, and every reset may bring another list.
A call of a module need not return (Finis of the session list does not after a failed
reset), so the module has no fairness and no liveness property.

### Pages, PagesProofs
`Session::DoFindNextPage` and what it calls in `Role`, `Page` and `Action`, one
step per hook that an application may fill in. A request brings a query; the
configuration (map of pages, role changes, results of scripts) is given by
constants. `delayed` is `fStore["delayed"]`, a sequence of slots, including the empty
ones that looking at any index makes (`NullQuery`). What `DoVerify` answers is open in
every round. `executedIn` is a history variable: the request that last executed an
action for each query.

## 3. Runs

| Run | Instance | Shows |
|---|---|---|
| `rwlock` | 4 threads | no lost wakeup, no destruction under a holder or a waiter, every waiter of a living lock is served once requests stop; refinement of `RWLockAbs`, which is exclusion |
| `thread_owner` | 1 owner, 4 system threads | terminated means over, one thread of control, no call hangs |
| `queue_flow` | 2 putters, 2 getters, size 2, 2 elements, blocking and not | slots exact, FIFO refinement, no lost wakeup |
| `queue_block` | 2 putters, 1 getter, size 1, 2 control calls, blocking and not | counters of callers exact; no blocking Put lands after a returned Block |
| `pool_faults` | 2 threads, 3 Inits, all faults | counters agree up to late reports of earlier threads, only ended threads deleted, Join(0) lets no more threads run on than there are reports of threads that never ran or late ones, Terminate and Join end |
| `server` | 2 workers, 2 listeners, 3 requests, 2 SIGHUPs | refinement of `RequestService`: no request in work during a reset, none handed over twice, none aborted but by a shutdown that waited in vain, none open at the end; none lost, accepted requests served, resets and shutdown end, but for the failures of a reset that are named below |
| `leader_follower` | 3 threads, 2 acceptors, 2 SIGHUPs | one leader, a block holds, every connection accepted, all threads leave |
| `sessions` | 2 requests at a time and 3 in all, 1 session allowed, a reset or a disable | no session leaked or deleted twice, none destroyed under a context, none found again after it was disabled, replaced or taken by a cleanup; requests, resets and deletion of disabled sessions end |
| `sessions_lookup` | the same | *violation*: a session is used after it was deleted |
| `any_array` | 3 names, at most 4 elements, 8 calls, buffers of 2, table of 3 | places inside the buffers and apart, buffers filled by a jump only, names found, refinement of `AnyList`, up to taken-over names |
| `modules` | 5 modules, 6 lists, 3 resets | what runs is what is configured, none initialised twice unless its list names it twice, proper nesting |
| `pages` | 3 requests, 3 roles, 4 pages, 4 actions, 3 values of delayedIndex | what a client asked for survives the login and is not executed again by a later request, unless it was refused after its execution |

Why the bounds are enough. Four threads at the lock give a holder, two waiters of one
kind and one of the other, or a caller that is overtaken by `rwl_destroy` next to them;
the proofs cover any number. Four
system threads give three restarts; the state between two restarts does not
depend on their number (the proof removes the bound). Queue size 2 with two
callers per side gives a full, a half full and an empty queue with callers
waiting on either side; the proof covers every size. In `queue_block` two control
calls give every pair (Block then UnBlock, EmptyQueue then destructor, and so
on) and `MaxTokens` bounds only how often `Block` may be woken spuriously.
Two threads let one fail and one run or end in a pool; three Inits let the reports of
earlier threads come late, twice over; the safety properties are proved for any size. Two workers and two listeners with three requests
give a full pool, a listener waiting in Enter and one accepting when a signal
arrives; a second SIGHUP meets a pool that was re-created. With three threads a
leader/follower pool has a leader, a follower and a thread at work. Two requests
meet in one session, or make two at the limit of one, while the cleaner and
DisableSession take it, or a reset comes (`NumEvents`, one of the two); a third finds
what they left. Clients come
with ids the manager has given (`Given` would add others; the proofs cover them). Three names in a table of
three force collisions, deleted marks and a rehash; four elements in buffers of
two force every expansion and a jump to twice the buffers; eight calls fill an array,
take elements out again and reuse their places (`MaxCalls` is there because what an
array keeps of removed elements depends on the calls). Three resets change the list
there and back with a failure in between; one list names a module twice. In `pages` three requests are a refused one, a login and one
more; three roles let a login lead to another role than the one asked for.

`thread_owner` and `queue_flow` check for deadlock; elsewhere the system may come to
rest (a destroyed lock or queue, no more requests, signals or calls).

Each property of a passing run has a mutant in the module it is about: a changed
definition, as a plausible error would change the code, under which TLC reports
the property violated.

### Where code and documentation disagree
`sessions_lookup` expects a violation, which is the finding: `IntLookupSession`
leaves the list unlocked before the context refers to the session, and the mark it
sets does not keep the cleaner, or a request that wants room, from deleting it.

The models show more of this kind, without a run of their own; most are the
exceptions that properties name.

* `rwl->valid` is tested before the mutex is taken and not again: a caller past the
  test enters a lock that was destroyed meanwhile.

* A second controller's Terminate between `eStartRequested` and the fork makes a
  `Thread` `eTerminated` just before its system thread is born (`Controllers` of
  two). With one owner it is safe, which is proved.
* `Queue::Block`: a caller past `IsBlocked` but not yet counted is not released
  and waits for ever; Block waits, with `fQueueLock` held, for a caller that waits
  for `fQueueLock`; a token given to a putter that is leaving anyway remains, so
  that the reopened queue takes more than `fQueueSize` elements. EmptyQueue takes
  an element whose token a getter already holds.
* Terminating a pool thread that was never forked takes one from
  `fRunningThreads`: Join may return before the others have ended, and the counter
  is negative after Init and Terminate without Start. Threads that outlast a timed
  Terminate do the same to the pool of the next Init (`ThreadPools.cpp:193`).
* A worker whose system thread cannot be created makes a reset wait for ever; a reset
  that could start no worker at all leaves a listener searching for one, with `fMutex`
  held (`StartHangs` and `NoWorker` in the properties).
* A failed reset leaves the worker pool blocked (`ServerUtils.cpp:187`): a
  listener inside Enter then never comes back and the shutdown waits for it.
* A leader that is in `poll` when the pool is blocked still accepts a connection
  and processes it while the reset assumes that no request is in work.
* A reset in which another module fails never reaches `ResetInit` of the session list:
  `fSessionsMutex` stays locked, and the Finis of the shutdown waits for it for ever.
* Two requests that disable each other's session wait for ever; `GetASessionsInfo`
  holds the list while it waits for a session (not modelled).
* `AnyArrayImpl::Remove` says "reset it to initial empty assoc", but
  `AnyKeyAssoc::operator=` keeps the old name for an empty one: the next element
  without a name that takes the place gets the name of the removed one; it is not found
  under it until the array is sorted or cloned. An array that a jump has made exactly as
  large as its buffers (`any[7L]` on a new one) names a place outside them at the next
  new name (`PutOutside`).
* Halt finishes the modules of the configuration read at boot time; modules that a
  reset brought and that list does not name are not finished.
* A query whose action changed the role still names the old one. If the new page
  cannot be prepared, the query is refused, delayed, and executed a second time
  after the next change of role; with a login page that logs in by itself the
  request goes round for ever, as it does on a site whose pages fail into each other:
  the comments at `Session.cpp:559` and `729` are about one cause of endless loops only,
  and no property says that the search for a page ends. A stale `delayedIndex` makes an empty delayed query
  that the next login takes up, for the default role.

## 4. Fairness

Fairness is assumed only for threads inside a call: the scheduler runs every
thread that can go on (a pthread mutex, a semaphore with a token, a condition
that has been signalled). Nobody has to make a call, to connect or to send a
signal. It is weak fairness, except that threads that compete for a mutex again
and again get it some time (strong fairness for the listener in Enter and the
reset in `ServerPools`, for requests, the cleaner and DisableSession in
`Sessions`). In addition:

* the holder of a read/write lock gives it back: `LockUnlockEntry` unlocks in its
  destructor;
* `Run` returns once termination is requested: `Thread` asks this of its
  subclasses, and its loops test the state. Nothing is assumed before that;
* the timed waits of the pool end. `Join(0)` and a Terminate without timeout are
  not timed: for these the properties show that the condition comes true. The
  timed waits of the server outlast the time a woken thread needs to run;
* requests are processed and sessions' pages rendered in the end; a client of the
  leader/follower pool does not keep its connection for ever, and `poll` does not fail
  every time there is a connection (strong fairness of `WaitForEvents`); the cleaner
  comes back periodically.

`Modules` and `Pages` have no fairness: calls of modules and rounds of a request need
not end.

A writer can starve at the lock while readers keep coming; `WaitersServed` is
therefore about what happens once requests stop.

## 5. Proofs

Every theorem is for all values of the constants, under the assumptions named in
the modules: finite sets of threads or callers, positive sizes, special values
apart from ordinary ones (`cBlockPromotion` is no thread, `None` is no role and no
query; in `Sessions` the cleaner, the handlers and the requests are different threads,
and ids that clients bring are none that `GetNextId` gives). Each inductive invariant was checked by TLC on
the instance of its run before it was proved. A component's `Invariance` (or
`SpecIInv`) is its inductive invariant; the others follow from it.

**RWLockProofs**: `Exclusion`, `ExactCounters`, `WakeupsSuffice`, `DestroySafe`,
`TypeCorrect`, `Refinement`. None of the properties is inductive alone. Exclusion
needs the exact counters (a thread is let in because of `w_active` and
`r_active`, not because of who is in), and the wakeup property needs both.
`IInv` joins typing, the counters, the writer being alone and `WakeupsDue`; lemmas
about cardinality say how the counted sets change when one thread moves. After a
destruction the counters of the holders are only bounds, because an unlock then leaves
its caller counted; a counter that is too large lets nobody in, so exclusion, and with
it the refinement, survive. `DestroySafe` says who may be outside when the lock goes:
threads that do not use it or have passed the test of `valid` and no more. The refinement maps the abstract readers and
writers to the threads at `reading` and `writing`.

**ThreadObjectProofs**: `OwnerSeesTheEnd`, `SingleThread`, `IdentityKept`,
`NoZombie`, `StatesInOrder`, `TypeCorrect`, all assuming `OneOwner` (one
controller; section 3 tells what happens with two).
`IInv` adds to the properties what the owner knows at each step of Start
(`CtlInv`: no system thread before the fork, a waiting one after it) and which
states go with each place of the system thread (`OsInv`). `ForwardOnly` follows
from `SetStateForward`, a lemma about the rules alone, and `OsInv`.

**CoastQueueProofs**, in two parts. For `FlowSpec`, the queue in normal service:
`SlotsAccounted`, `GetterFindsElement`, `FlowIsFifo`, `TypeCorrect`. `TokensExact`
is inductive together with typing and with the control state being at rest: a
getter that holds a token proves that the container is not empty, a putter that
holds one that it is not full, which is what the refinement needs. These
statements fail for `Spec`, which has Block and EmptyQueue (section 3). For `Spec`:
`CallersAreCounted` and `BlockedPutsNothing`, with `TypeCorrectWhole`. `BInv` adds
which places go with which mode of a call (a caller in `leave` is a blocking one,
so the counter goes down for the right callers), that Block has sides to release
only while it runs, and `BlockedSideQuiet`: a blocked side that Block is through
with has no blocking caller past its last `IsBlocked`. The step that
matters is Block striking off a side: it does so on a zero counter, and because
the counter is exact, nobody is inside.

**ThreadPoolProofs**: `CountersAreExact`, `DeletedWhenTerminated`, `JoinedWhenDone`,
`TypeCorrect`, whatever `Faults` contains. The counters are exact for the observed
threads only, up to the late reports, so `IInv` also says which threads report and which state goes with
each place of a system thread (`LiveObserved`), that threads still to be started are
new (`NotStartedYet`), that a Terminate that has not failed so far is through with
terminated threads only (`TerminatedSoFar`), that the threads of earlier Inits have been
asked to terminate, so that their end is all they have left to report (`AskedSoFar`),
and how far the loops have counted. `JoinedWhenDone` follows by counting: Join returns
when as many threads are reported ended as were started, so each thread still at work
is matched by a report of a thread that never ran or of an earlier one.

**ServerPoolsProofs**: `ReinitFindsNoRequest`, `NoRequestLost`,
`WorkersFinishTheirRequest`, `TypeCorrect`. The first needs more than that the pool is
blocked: a listener that passed the test before the block must not hand over its
request after `AwaitEmpty` looked. It cannot, because it holds `fMutex` from the
test to the hand-over and the block takes that mutex (`MutexHeld`,
`BlockedNoEntry`), and the counter that `AwaitEmpty` reads is the number of
working workers in every phase (`RequestsCounted`), also of those whose termination
keeps `SetReady` from counting them out. `NoRequestLost` needs that `SetWorking`
never refuses the worker found (`FoundReady`: otherwise the request would be
dropped without a trace), and that requests are held apart (`HeldApart`) and none is
missing. `WorkersFinishTheirRequest` (not a property of a run) says that a worker
which left `Run` holds no request; it rests on `AwaitGivesUp`, that is on a worker
having woken up within the seconds for which `AwaitEmpty` waits.
`ServerImplementsService` is the refinement of `RequestService`. The waiting requests
are the workloads of the listeners, the state of the service follows from `ctl`. A
hand-over maps to `Assign` because the worker found is ready, hence without a request;
the step into the reset maps to `Renew` by the first theorem; terminating a worker maps to
`Abort` when it has a request, which by the first theorem it has in the shutdown only; the
end of the server maps to `GoDown` because the listeners have left and every worker is terminated. That a
terminated worker has no request is the one new fact: a worker in `Run` is running or
asked to terminate (`LiveInRun`), so a terminated one has left `Run`, and by
`AwaitLastEmpty` before it no worker leaves `Run` with a request.

**LeaderFollowerProofs**: `AtMostOneLeader`, `BlockStaysInForce`, `LeaderIsKnown`,
`RequestsCounted`, `TypeCorrect`. One leader is inductive only with the two fields that
record it: `fCurrentLeader`, or `fOldLeader` while a block has put it aside
(`LeaderRecorded`), and with the steps at which the mark of a block is set
(`MarkExact`). `NextAcceptorPending` is the lemma about the search of
`WaitForEvents`: started anywhere, it ends at an acceptor with a connection.

**ModulesProofs**: `InitialisedOnce`, `ModulesNest`, `RunsConfigured`, `TypeCorrect`, for any
lists. `IInv` says what an iteration has done up to its index, forward
(`InitialisedSoFar`) and backward (`FinishedSoFar`), that a reset which gets as far as
initialising has finished the mandatory modules (`MandatoryFinished`), and which modules
are on between iterations.

**ModulesProofs**, second part, on `Sessions`: `SessionsKnownOnce`,
`SessionsNotDestroyedInUse`, `SessionsNeverListedAgain`, `SessionsTypes`. The invariant is
`SInv`. What a cleanup has tested may be out of date when it removes the session, so the
reference count protects nobody; what does is the mutex of the session, for which
`Notify` and `~Session` wait. `ContextHolds` says that a context refers to a session
exactly while its thread holds that mutex, and then the count is one; with it
`NotDestroyedInUse` follows for other threads, and for the deleting thread because a
cleanup lets its own session go. `MutexHeld` and `CleaningKnown` say who has
`fSessionsMutex` over the steps of a lookup or a cleanup and that what it has still to
look at or to remove is in a list. `KnownOnce` counts the places of a session;
the proof splits it into "no two places" (`PlacesApart`) and "a place if and only if it
was made and not freed" (`PlacesFound`), where `LocalsKnown` says what a request or a deleting
thread has in its hands at each step. `OneSessionEach` is needed because the objects are
numbered up to `NumRequests`: a request makes at most one session, so there is a number
left for it. The invariant holds also in behaviours that come to the use of a freed session
(section 3): what the lists and the cleaner do is right up to that step, and the defect is
the window between lookup and reference.

**PagesProofs**: `DelayedQueryIsClients`, `QueryNotExecutedAgain`, `TypeCorrect`. `IInv` says
when a login is pending (`LoginPending`), that the ids of queries are known
(`IdsKnown`), that the queries in the slots and the one in work are apart (`Apart`), and
`NotExecutedAgain` itself, which is inductive with these.

Some of these theorems are about invariants that no run lists (`TypeOK`,
`NeverEmptyError`, `NoPendingRequests`, `CountersExact`, `ReadersWriterExclusion`, `OwnThreadKnown`, `NoZombieState`,
`ForwardOnly`, `LeaderRecorded`, `CounterExact`, `NothingAbandoned`): they are parts
or direct consequences of the inductive invariants.

Only model-checked: every liveness property (TLAPS has no ENABLED), and of `AnyArray`
`PlacesInBuffers`, `FullOnlyByJump`, `NamesFound` and the refinement of `AnyList`. Its operations search
hash chains, sort and rehash by recursive definitions over data: what they return for
every input would need induction, which is out of the prover's reach.

## 6. Not modelled, and the plan

Left out for good: pure data code (renderers, codecs, `String`, parsing and path
lookup of `Anything`), stream I/O, the memory layout of pool allocators, database
and directory clients, vendored code, tests and applications. They are by far the
larger part of the repository's lines and keep no state that steps of several
actors, or a long sequence of calls, could bring out of order. `ObjectList_r` is
used by its tests only. `sem_wait` interrupted by a signal, `MasterServer` with
several servers, sessions with `CopySessionStore`, the statistics of sessions and
the iteration over modules without a configured list are not modelled.

Could be added: the recursive `Mutex`; `QueueWorkingModule` on top of
`CoastQueue` (put back, Finis); `CacheHandler`; log rotation; connection pools.

Theorems that could follow: that `CoastQueue` with Block and UnBlock, but without
EmptyQueue, still is a FIFO of some larger bound; that `LeaderFollower` implements a
service like `RequestService`, without the promise about renewal, which it does not keep.
