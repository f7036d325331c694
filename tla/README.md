# CTR_SDK: a TLA+ model of its concurrent core

CTR_SDK is a decompilation to C++ of the SDK of the Nintendo 3DS: some fifty
libraries under `src/sources/libraries` and their headers under
`src/include/nn`. It has no tests. Most of it is the client side of system
services (marshalling of IPC messages) or computation on data. The parts with a
logic of their own that tests hardly reach are the synchronisation primitives
of `os`, built by hand from exclusive updates and a kernel address arbiter, and
the engine that runs graphics command lists (`gxlow` and `gles2`), in which
application threads, an interrupt thread and a server in another process work
on the same few words. They are modelled here first, and with them three
libraries in which a program shares its state with somebody it cannot lock out:
the threads of `snd`, the message boxes of `cec` and the rings of samples of
`hid`.

Source paths below are relative to `src/`; `os_X` is
`sources/libraries/os/os_X.cpp` or `include/nn/os/os_X.h`.

## 1. Inventory

| Component | State it keeps | Operations | Interacts through | What is hard |
|---|---|---|---|---|
| os: SimpleLock | one counter: sign = locked, size = waiters + 1 | Lock, TryLock, Unlock | the kernel's address arbiter | registering, sleeping, unlocking and waking are separate steps; barging |
| os: CriticalSection | lock, identity of the owner, nesting count | Enter, TryEnter, Leave | SimpleLock; identity read without it | order of clearing and unlocking |
| os: LightSemaphore | permits, number of waiting threads | Acquire, TryAcquire, Release | arbiter | two words looked at one after the other |
| os: LightEvent | one state word, a lock | Signal, ClearSignal, Wait, TryWait | arbiter, SimpleLock | test, store and wake are separate |
| os: BlockingQueue | ring buffer, two counts, two semaphores | Enqueue, Jam, Dequeue, GetFront, Try…, ForceEnqueue | CriticalSection, LightSemaphore | counts read under a lock that does not protect them |
| os: threads, memory | thread objects, address space blocks, TLS bitmap | create, join, Allocate, Free, Switch | system calls | unsigned arithmetic of gaps; unlocked bitmap |
| gxlow: interrupts | relay queue in shared memory, table of handlers, wait status, finalize request | receiver thread, RegisterInterruptHandler, WaitAnyHandlerDone, Finalize | server (another process), events | plain reads beside exclusive updates; lost wake-ups; shutdown |
| gxlow: requests | command request queue in shared memory, general lock | SetCommandlist and other requests, Lock, Unlock, Finalize | server | overflow is silent; the lock is held while joining |
| gles2: command lists | per list: recorded, issued and run counts, stop marks; run state | bind, record, run, stop, clear, delete, wait for the end or for the vertical blank, finalize; interrupt handlers | gxlow | application and handlers change the same run state, partly without the lock |
| gles2: the rest | OpenGL state | translation to register commands | command lists | sequential |
| fnd | heaps, intrusive list and queue | allocate, free; link, unlink | called under the caller's locks | coalescing; handles taken for two different things (section 5) |
| snd | two threads, two events, flags of each thread, voices | start, finalize, frames, callbacks, voice allocation | DSP service, events | flags set by the threads themselves; hand-over of frames; signals left over from earlier threads |
| hid, hidlow | rings in shared memory; in the reader, how far it has read | ReadData of five rings; Read and ReadLatest of their readers | input server | no lock: the reader copies while the server overwrites; counting across the wrap |
| cec | copies of two info files and an index, the number of messages put off, whether the daemon is stopped | create, open, write, delete, commit, close, delete a box | daemon cecd, ndm | several calls make one change and each may fail; copies grow stale |
| srv | notification thread, handler list | register, receive | service manager | handlers against registration |
| applet | lifecycle flags and events | client thread, polls and waits | applet manager | order of notifications |
| fs, cfg, ndm, ptm, dsp, mic, camera, ro, … | sessions | IPC calls | services | state is in the services, which are not here |
| gr, math, font, jpeg, crypto, cx | none shared | computation | – | data, not control |

`PROJECT.json` lists the same components with their files, and under `hazards`
every place in this code where something could go wrong in a way that a test
would hardly show, with the properties that cover it.

## 2. The modules

    AddressArbiter                      the kernel's part (external)
      |-- SimpleLock        implements  Mutex
      |     '-- CriticalSection         implements  ReentrantMutex
      |                                                      Locks_proofs (of both)
      |-- LightSemaphore                                     LightSemaphore_proofs
      |     '-- BlockingQueue           implements  BoundedDeque
      |                                                      BlockingQueue_proofs
      '-- LightEvent                                         LightEvent_proofs
            '-- InterruptReceiver       implements  InterruptDelivery
                                                      |      InterruptReceiver_proofs
                                                      '-- CommandList
                                                             CommandList_proofs
    SoundThreads                        the threads of snd
    MessageBox                          a box of cec and its daemon
                                                             MessageBox_proofs
    LifoRing                            the rings of hid and hidlow
                                                             LifoRing_proofs

Every `MC…` module gives one of them small sets to check. A component is built
on the *promise* of the one below where that promise is shown to be kept and its
steps do not matter (CommandList on InterruptDelivery, BlockingQueue on a section
that is exclusive, LightEvent on a lock that is), and on its steps where they do
(CriticalSection extends SimpleLock, BlockingQueue instances LightSemaphore).
The last three rest on no other module; what they use of `os` is one waiter on an
event, which is a flag.

Names follow the source. A thread's place in a call is a value of `pc` (or of
`receiver`, `app`, `handler`), and one action is what the code does between two
points at which another thread can make a difference: one exclusive update
(`AtomicUpdateConditional`, `__ldrex`/`__strex` loop), one plain load or store
of a shared word, one system call, or all that is done under a lock that
excludes the others. Definitions marked "Fault" are plausible mistakes in the
definition that follows them; with such a definition in its place the property
that is about it fails, which shows that the property can fail.

**AddressArbiter** is the kernel service: `Sleeps` and `WakeSets` say who goes
to sleep and which sets of sleepers may be woken. Nothing is assumed of the
order in which sleepers are chosen.

**SimpleLock** (`os_SimpleLock`): `counter` is positive when the lock is free
and negative when it is held, and its size is one more than the number of threads
that are registered as waiting. `TryLock`, `Lock`, `Register`, `Retry`, `Wait`,
`Take`, `Unlock` and `Signal` are the exclusive updates and arbiter calls of the
three functions, with the updater classes as operators of the same name.

**CriticalSection** (`os_CriticalSection`): the variables of its SimpleLock, the
identity `m_ThreadUniqueValue`, the count. `LockedByCurrentThread` is read without the
lock, at the start of Enter, TryEnter and Leave.

**LightSemaphore** (`os_LightSemaphore`): `count` and `numWaiting` are two words,
and Acquire's "announce, wait, withdraw, try again" and Release's "add, look,
signal" interleave step by step. `LimitedAdd` caps at the maximum as the updater
does.

**LightEvent** (`os_LightEvent`): the four values of the state word have their
numbers, because the arbiter compares them. Wait reads the word once a round;
to compare and sleep, or to take the signal, is a further step.

**BlockingQueue** (`os_BlockingQueue`): all operations. `buffer`, `firstIndex`
and `usedCount` are the ring; the critical section is held from the Try to the
end of the notification; the two counts change outside it.

**InterruptReceiver** (`gxlow_InterruptReceiver.cpp`,
`gxlow_InterruptTable.h`): the relay queue with its control word; the receiver
thread's loop, statement by statement; `table` under its lock;
`WaitAnyHandlerDone` with its status and its event; `Finalize`. The server's
actions `Post` and `SignalRx` are external. `InterruptDelivery` is what it all
promises: interrupts handled once, in order, one at a time, until stopped, and
a waiting thread told of the first handler that is done.

**CommandList** (`gles2/systemmanager.c` on `gxlow_RegAccess.cpp`,
`gxlow_Management.cpp`): `used`, `run`, `issued` are the three counts of each
list, `stopAt` its requests with `stop_enabled`; `runList`, `startRun`,
`isRunning` and `stopSpeculative` are the run state in `__sysman`. What is done
under the general lock is one action, except where others look without the
lock: `RunCmdlist` and `RunIssues` are the two halves of `nngxRunCmdlist`, the
first without the lock, and `CountAndIssue` and `StopRunning` are the handler's,
because `is_running` is read without the lock. Nine of the functions that record a
request end in the same few lines under the lock, which count the request and
start the list if it is idle (`CountRequests`, `AddRequests`). The tenth,
`nngxTransferRenderImage`, needs two requests if commands were recorded since the last
split: it counts the first without the lock and without starting the list
(`TransferRenderImage`), returns the error 8028 if there is no room for the second, and
else comes to those lines (`CountTransfer`); handlers may act in between. The server
(external) executes the requests in order and raises their interrupts. The
application waits in two ways, both of which test and then yield until some handler
is done: `nngxWaitCmdlistDone`, whose timeout is a choice at each test, and
`nngxWaitVSync` for one display. Of its counter the model keeps in `vsync`
whether it has moved since it was read.

**SoundThreads** (`snd_ThreadManager.cpp`): the sound thread's frame, from the
sync of the DSP to the sending of the parameters; the user thread, which takes
the frame over for the program's callbacks when the library runs on core 1; and the
program, which starts and finalizes both again and again. Every flag is read and
written in a step of its own, because none is protected: `ReadUser` and
`ReadCallbacks` are the two halves of one condition, `PublishCallback` and
`PublishCore` come after the thread runs.

**MessageBox** (`cec_MessageBox.cpp`): `store`, `info` and `index` are the
daemon's files, `cache`, `order`, `skipped` and `tmp` the program's copies and the
notes on what it put off (the number in `tmp` is read only while `skipped` says so, and
is 0 otherwise). An operation is one step with the calls it makes in
their order; a failing call is a choice `f`, after which the operation goes on or
returns as the code does, so that a later part of the change is made or missing.
`scanning` is whether the daemon may change the box by itself (`Receive`).
To read the index is no pure read (`ReadOutBoxIndex`): if the file cannot be opened,
is empty, or has not the header it should have, the code has cecd make it anew
(`SetData` with option 0) and reads again. Whether cecd then makes an empty index or
one of the messages there are is not in the repository, and is a choice (`ResetIndex`);
what a failed reading leaves in the program's copy is a choice of any entries
(`ReadInto`). `behind` and `torn` are history: which info files a failed call
left behind, and of which messages it left the place in the index in doubt.
An operation is one step because the module is about one thread that uses the box at a
time. `OpenMessageBox`, `CloseMessageBox`, `WriteMessage`, `DeleteMessage` and
`DeleteAllMessages` take the box's lock; `CreateMessageBox`, `CommitMessageBox`,
`DeleteMessageBox` and `DeleteSentMessages` do not, and with a second thread in one
of these the properties are not claimed: a write put off while `CommitMessageBox`
writes the file is forgotten when `WriteBoxInfo` resets the flag (1045).

**LifoRing** (`hidlow_PadLifoRing.cpp` and its four siblings, `ReadData`, and how the
readers of `hid` call it): the five rings differ in their payload only, and the lines of
all five are mapped. There are two kinds of call. `ReadOn` reads on from the tick and
slot that the reader has kept: `Read` of each reader, and of the gyroscope also
`ReadLatest`. `ReadNewest` asks for one entry as if nothing had been read: `ReadLatest` of
the other four. The module ends where `ReadData` returns; section 5 says what two of
the readers then do with entries that count as read. The reader's loads of the three words of the ring, each word
it copies and each word of the second look are steps. The server is not in the
repository. Its steps are inferred from the cases that `ReadData` tells apart: it keeps
the tick of slot 0 in `oldTickWriteZero`, moves the pointer to 0, writes the
entry, and stores the new tick, so that equal ticks say that slot 0 is not yet good;
any other slot is written before the pointer moves to it.

## 3. What the runs check

| Run | Bounds | Distinct states | Properties |
|---|---|---|---|
| SimpleLock | 4 threads, any calls | 2889 | the lock is a mutex; counter exact; no lost wake-up; the lock is passed on |
| CriticalSection | 4 threads, depth 2 | 26 thousand | reentrant mutex; owner holds lock; count is depth; assertions hold; section is passed on |
| LightSemaphore | 4 threads, 3 permits, releases of 1 or 2 | 30 thousand | waiting count exact; no permit stranded; sleepers wake or permits run out |
| BlockingQueueCalls | 3 threads, all calls, ring of 2, 2 values | 2.3 million | bounded deque |
| BlockingQueueWaits | 3 threads, blocking calls, ring of 2 | 77 thousand | no item stranded; blocked threads are served |
| LightEvent | 4 threads, both kinds of event | 66 thousand | no signal lost; Wait returns only on a signal; sleepers woken |
| InterruptReceiver | queue of 2, 2 interrupts, 2 handlers, 1 waiter | 244 thousand | delivery; no lost wake-up; handler registered while it runs; liveness of receiver, waits and Finalize |
| CommandList | lists of 3 and 1 requests, 2 ahead, request queue of 4, relay queue of 3 | 493 thousand | see below |
| SoundThreads | none: one program, both threads, started and finalized without limit | 5410 | callbacks do not overlap; frames end; joins return |
| MessageBox | 2 messages, boxes of 2, 1 failing operation | 1.3 million | copies fresh; info files committed; index kept |
| MessageBoxLimit | 3 messages, boxes of 2, no failing operation | (stops) | the finding below |
| LifoRing | ring of 4, entries of 2 words, 10 entries written, buffers of 0, 1, 2 and 4 | 225 thousand | what ReadData returns is whole and of one moment; calls from the position kept continue; assertions hold |

The types of SimpleLock, CriticalSection, InterruptReceiver, BlockingQueue and
LightEvent are proved (section 4) and not checked again by a run, and so is
BlockingQueue's `CountsAreExact`.

Why these bounds are enough for the cases to happen. Three threads suffice for
one that holds, one that is between registering and sleeping, and one that
barges in; a fourth lets two sleep while two interfere. A ring of two is full,
empty, half full and wraps round. Two permits in one release are more than one
waiter and less than two waiters and a barging thread. In CommandList a list of
three with a window of two issues ahead, waits for the window, and issues again
from the handler, and a second list can be bound, run and deleted in between;
the request queue of four is exactly full with two requests (a flush and a
command each), so that one request too many is lost; the relay queue holds the
interrupts of both and a vertical blank. In MessageBox two messages and boxes of two are
an empty, a half full and a full box and, with a count kept apart, one that is
believed less full than it is; one failing operation is enough to tear any two of
the files apart, and what it leaves is worked on by operations that succeed. In
LifoRing ten entries go round a ring of four twice and a half: the pointer and
the tick of slot 0 take every relation to those the reader kept, and a pass of the
loop may see up to three entries overwritten; two words make an entry that can be
torn; the buffers are nothing, less than the ring, and more than may be read.

The properties of CommandList: the requests issued and not yet counted are
exactly, and in order, those in the two queues and in the handler
(`InFlightIsExact`); `is_running` is true exactly while something is in flight
that will keep the engine going, a stop is marked where it will be seen, and no
recorded request of a started list waits with nothing in flight to start it, but for
one, the last, which `nngxTransferRenderImage` has counted: until it counts the second,
or for good when the list was then full and it returned the error (`RunningIsExact`,
`LeftBehind`); after a stop nothing is issued until the next run
(`StopIsObeyed`); `nngxWaitCmdlistDone` returns, also without its timeout
(`WaitReturns`); `nngxWaitVSync` returns if vertical blanks go on (`VSyncReturns`);
and `nngxFinalize` returns under a precondition (`FinalizeReturns`).

### Fairness

Weak fairness of each thread's own steps in the middle of a call: a thread that
can go on does. Nothing obliges a thread to begin a call. In SimpleLock a holder
unlocks; in CriticalSection callers promise nothing, and `SectionIsPassedOn`
names its precondition, that all of them keep leaving. The server signals what it
has posted and executes what it has in its queue. In CommandList `YieldThread` has strong fairness:
it needs the lock of the handler table, which the receiver takes for every
interrupt and gives back; the thread that wants it gets it in the end, which is
what `LockIsPassedOn` and `SectionIsPassedOn` describe for the lock it is made
of. The receiver has only weak fairness, and vertical blanks and calls of the
application have none; `VSyncReturns` names the vertical blanks that it needs. In
SoundThreads the two threads run, the DSP interrupts, and a call of the program
goes on once it is made; the program need not make one. MessageBox and LifoRing
have safety properties only: the operations of the one are single steps, and the
loop of the other ends only if the server pauses, which nothing obliges it to.

### A finding

**The outbox takes more messages than its index has room for.** `WriteMessage` may
put off the writing of the info file; the number of messages is then kept apart, in
`tmp_cecOutboxInfo`, and `b_SkippedWriteOutboxInfo` says that it counts. When the
info file is written, `WriteBoxInfo` takes back the flag of the inbox
(`cec_MessageBox.cpp:1045`) and, in the branch of the outbox (1047-1060), none.
From then on `WriteMessage` compares the limit with a number that stands still, and
`AppendOutBoxIndex` adds to the index without end. The run MessageBoxLimit finds the
state in which the assertion of `ReadOutBoxIndex` (1224) fails.

### What the model shows about the limits of the code

None of these contradicts a doc or a comment of the repository; they are
the preconditions under which the properties hold.

* **GetFront beside Dequeue.** `GetFront` (`os_BlockingQueue.cpp:248`) takes a
  wake-up from the semaphore and leaves the item. With one thread in each of
  Dequeue and GetFront, and one Enqueue, the Dequeue may sleep on although the
  item is there. BlockingQueueWaits leaves GetFront out; BlockingQueueCalls has it.
* **Two threads in WaitAnyHandlerDone.** The status is one value and the event
  resets itself: of two sleeping threads one is woken. InterruptReceiver has one waiter.
* **Finalize of the receiver while interrupts keep coming.** The request is
  tested only when the queue has been found empty. `WaitsEnd` and
  `FinalizeReturns` assume that interrupts end.
* **nngxFinalize while a list runs.** The general lock is held while the
  receiver is joined (`gxlow_Management.cpp:99`), and the handler needs it:
  neither goes on. `FinalizeReturns` is stated for calls with no list running.
* **A request counted by a call that fails.** `nngxTransferRenderImage` counts the
  request that ends the commands recorded so far (`systemmanager.c:1477`) and only then
  finds out that there is no room for the transfer's own (1478). If the list had been
  started and was idle, that request now waits in it with nothing in flight:
  `nngxWaitCmdlistDone` returns at once without it, and only `nngxRunCmdlist` starts it.
  `RunningIsExact` names the case (`LeftBehind`) and has no other.
* **The queues must suffice.** `2 * num_speculative` entries must fit in the
  command request queue, because the result of putting one there is not looked
  at (`gxlow_RegAccess.cpp:174`). It is the assumption `QueuesSuffice`.
* **Finalizing a sound thread that has not begun.** Each thread sets its own
  enabled flag when it begins (`snd_ThreadManager.cpp:48`). One that is finalized before
  that sets the flag again and runs on, and the join does not return. The user
  thread looks at its flag only after a frame has been handed to it: with no
  callback at all it is never woken, and its join does not return
  (`snd_ThreadManager.cpp:226`). `JoinsReturn` names both preconditions.
* **A box destroyed with info files put off.** The destructor's `Finalize` forgets
  the title before it closes the box (`cec_MessageBox.cpp:100`), and
  `CommitMessageBox` then writes nothing. The same holds when another box is opened or
  created over an open one. The history variable `behind` has these boxes.
* **An index made anew.** A reading of the outbox's index that fails at the wrong
  moment has cecd make the index anew, also as a part of a `WriteMessage` that
  appends one message (`cec_MessageBox.cpp:1153`, 1187); if cecd makes it empty, the
  messages there are have lost their places. And a message that is written again after
  its deletion, but before the info file says so, is taken for one that is there and not
  put back in the index (1593). `IndexIsKept` excuses these messages, and those that a
  failed call was about, and says that the index is right for all others.
* **A reader of a ring that is suspended for a whole round.** `ReadData` compares
  the pointer and the ticks with what they were. If the server goes once around
  the ring between two loads, they may be the same again while the entries are
  not; the assertion at `hidlow_PadLifoRing.cpp:61` may then fail as well.
  `NotLapped` is the precondition; without it each of the three properties fails.

## 4. What is proved

The proofs hold for every value of the constants (every finite set of threads,
every depth), where a run shows a few.

**Locks_proofs**, the lock. The inductive invariant `IInv` is the type invariant and
`CounterEncodesState`: the counter is `-(n+1)` when a thread holds the lock and
`n+1` when none does, n being the number of registered threads, and at most one
thread holds it. The second conjunct is what makes the updates right: each
updater sees only the number. There is a lemma for each action. From `IInv`:
`CounterCorrect`, `TypeCorrect`. `NoWakeupIsLost` (`NoLostWakeup`) is inductive
relative to `IInv`: only `Unlock` makes the lock free, and it goes on to
`Signal` when, by `IInv`, somebody is registered; only a step that sends a
thread to sleep could spoil it otherwise, and `Wait` sleeps only if the counter
is negative. `SimpleLockIsAMutex` maps places to the modes of Mutex and takes
each action to a step or a stutter.

**Locks_proofs**, the critical section. It extends SimpleLock with the owner, the count
and what a thread still has to do, and each of its steps is one of SimpleLock or leaves
the lock alone, so that its invariant `SectionIInv` begins with `IInv` and the lock's
lemmas are used as they are. It goes on to say that the recorded owner is the holder,
except in the short stretches after locking and before unlocking where it is nobody; so
a thread finds itself to be the owner exactly if it is inside. From it
`SectionTypeCorrect`, `InsideIsSafe`, `CountIsRight`, `AssertionsNeverFire` (the
assertions in Leave), and the refinement `CriticalSectionIsAReentrantMutex`.
`SectionUsesSimpleLock` says that a critical section is a run of SimpleLock, and that
what is proved there of lost wake-ups therefore holds of Enter and Leave.

**LightSemaphore_proofs.** The invariant is the type of the two words and that
`numWaiting` is the number of threads between their announcement and their
withdrawal. There is a lemma for each action: announcing adds a thread to that
set, withdrawing takes one out, sleeping and being woken leave it alone. The
upper bound in `TypeOK` is a consequence, not part of the induction.
`PermitsAreTaken` (`NoPermitStranded`) compares the permits that are free with the
threads that are on their way to take one and the permits whose Release has yet to
signal. Those last are a set, `PermitsAdded`, of pairs of a thread and a number up to
what it adds, because the sum of what several threads add would be a recursion. A
step that sleeps is the one that could spoil the bound, and it sleeps only when no
permit is free.

**LightEvent_proofs.** `NoLostSignal` is not inductive for a manual event, whose
signal is not used up: `IInv` adds `NoLostManualSignal`, that no thread sleeps on a manual
event that is set unless a Signal is still to wake all of them. From it
`SignalsAreNotLost`, and with the history of the signals seen during a wait
`WaitsAreLetThroughBySignals`.

**BlockingQueue_proofs.** First the ring as data: where an item lies after one is put
behind the last or before the first, or taken off, for any size. Then `IInv`: each
place in a call says which locks, counts and tokens go with it (`CallInv`), the slots
in use hold values (`RingInv`), and the two counts are exact (`CountsAreExact`).
Both semaphores take only steps of LightSemaphore (`SemaphoresTakeTheirSteps`), so that
what is proved of it is true of them through two instances of its proofs
(`SemaphoresCorrect`). `ImplementationCorrect` takes each step to a step of BoundedDeque
or a stutter. `ItemsReachGetters` (`NoItemStranded`) counts: the items over which a
Dequeue waits are at most the tokens of the semaphore, the getters about to try and
the putters about to release a token. Its hypothesis, that nobody calls GetFront, is
the one that section 3 gives a counterexample for. `Size <= MaxTokens` is needed where
the semaphore caps what is released. `SlotsReachPutters` (`NoSlotStranded`) is the same
for the free slots over which an Enqueue or a Jam waits, and needs no hypothesis: no
call takes a token there without filling a slot. No run states it; that waiting putters
are served is checked by `WaitersAreServed`.

**CommandList_proofs.** The invariant `IInv` says what the queue of command requests looks
like from its end (`QueueShape`: flush and command in turn, of the list that runs,
down from the last one issued), how many requests are in flight (`FlightInv`), at most
how many (`WindowInv`), which marks of a stop are still to be met (`StopInv`: one, on the
last request issued), that a transfer between its two requests has room for the second
(`TransferInv`), what the handler may rely on that it read before it had the lock
(`HandlerInv`), and what `nngxRunCmdlist` may rely on between its two halves
(`IssueInv`). `IssueEffect` is the lemma about `sys_issueSpeculativeCommandRequests`: no
mark is met while it may issue, and nothing is cut off at the end of the queue. That
the relay queue has room for each interrupt follows from the window and from the
watermark for vertical blanks (`BlanksInv`), by `QueuesSuffice`. `IInv` gives `TypeCorrect`,
`RunningFlagIsExact`, `RequestsInFlightAreExact` (with the number of even places of a
sequence, by a bijection), `RequestsFindRoom` (`NothingIsDropped`: the window keeps both
queues from being filled beyond their sizes, so no request or interrupt is dropped) and
`StopsAreObeyed`.

**InterruptReceiver_proofs.** Three parts. First the relay queue as data, for any
length: putting an item behind the last one appends it, moving the head on takes
the first off, and an item's place does not depend on where the head has wrapped.
Then `IInv`: the counted slots hold interrupts, and the receiver finds what it has
tested for, because nobody else takes any out; the receiver and the waiting
thread are signalled or about to be; a request to end comes before its signal,
and a signal used up leads to the test of the request; the running handler is
the table's. It gives `NoSignalIsLost` and `HandlerIsRegistered`. Last
`ReceiverDelivers`: with `DeliveryInv`, which adds that the item read is still
the first when it is taken off, and that a thread announced as waiting sleeps with
no old signal left over, each step is a step of InterruptDelivery or a stutter.
The assumption `OneWaiter` is needed: with two threads in WaitAnyHandlerDone
it fails, as section 3 says.

**MessageBox_proofs.** The three properties of MessageBox are inductive together
with two facts: a box that is open is there and the daemon has been stopped for it
(`OpenIsSuspended`), and a box that is not there has no messages
(`NoBoxNoMessages`). One lemma says what a write of the info files does to the copies,
one what putting it off does, one what abandoning a box does; each operation is then
such a step, and a change of the index beside it. Of the index, `ReadKeepsIndex` says
that a reading leaves the entries it found or an index made anew, and
`ChangeKeepsIndex` that a change is made, or leaves in doubt no more than what it adds or
removes. The run has two messages and
one failing operation; `CopiesAreFresh`, `InfoIsWritten` and `IndexIsRight` hold for
any set of messages, any limit and any number of failures.

**LifoRing_proofs.** Reader and server share no lock, so nothing is true of what a reader
holds but how far the server may have gone on meanwhile. A tick is 1 more than a
multiple of the ring's size; two of them that differ lie a whole round apart
(`TicksAreSpaced`, from quotients and remainders). `IInv` has these parts:
* of the ring alone, at every step of the server: the three words are determined by the
  number of entries written and by whether slot 0 is being written again (`WordsInv`), and
  each slot but the next holds the last entry that belongs there (`BuffersInv`). From the
  words alone, loaded at one moment, the number of entries follows (`WordsSayWritten`);
* of what has been loaded one word after the other (`PointerInv`, `LoadedInv`): tick plus
  slot, the number of the newest entry according to them (`NewestNumber`), is that of an
  entry which has been written already, or it lies a whole round after the beginning of
  the pass (`LoadedWords`); and no entry that was there then is newer;
* of the copy (`WhileCopying`): if no entry has been written since that newest one, all
  words copied so far and the number of entries are right. The hard cases are the count
  across the wrap (`EntriesAreCounted`) and that no slot that is copied is the one that
  is written next (`EntryIsInItsSlot`);
* of the three loads at the end (`AfterCopying`): once the pointer has been found the same,
  the tick or the old tick has changed for good and the check of it is going to fail, or
  the three words were the ring's at the moment of that first check, and the copy is right.

So each reload has its part: the first fixes the moment, the other two find out whether
the words of that moment were those that had been loaded. From `IInv`:
`ReadsAreConsistentAlways`, `ReadsContinueAlways` and `AssertionsHoldAlways`, for any size
of the ring and of an entry, any buffers and any number of entries.

The assumptions on constants are named in the modules: finite sets of threads,
a positive depth, a queue with room, one waiter, a semaphore with as many tokens as
the ring has slots, queues of requests and interrupts that suffice for the window, rings
of at least two entries of at least one word, and model values that differ from threads,
interrupts, handlers and lists. ItemsReachGetters has the only further hypothesis.
`NotLapped`, the precondition of section 3, is part of the three properties of LifoRing.

What is only model-checked. Liveness: `ENABLED` and fairness are out of the prover's
reach. `CallbacksDoNotOverlap` is the one safety property of the runs without a theorem:
SoundThreads has no constants, and its run covers all of its states; a proof would say
nothing more.

## 5. What is not modelled

In the components that are modelled:

* **os**: calls with a timeout of their own; memory ordering weaker than the barriers
  in the code, which surround each of the exclusive updates. Threads run to the end
  and are not killed.
* **gles2, gxlow**: user callbacks that call the engine from a handler; run modes
  other than SERIAL_RUN, for which `sys_RunCmdlistCore` issues nothing; saving and
  exporting of lists; display buffers; waiting for both displays, and the wrap of the
  counter of vertical blanks; the contents of commands; the loop by which
  `TryEnqueue` puts a request in its queue.
* **snd**: the voices (the functions that allocate and free them have no complete
  bodies here), effects and mixing, and sleep and wake-up, whose state is in the dsp
  service.
* **cec**: two threads that use one box, where one of them is in an operation that takes
  no lock; the format of messages, settings of boxes, groups and sessions, and the
  functions that have no body here.
* **hid**: what the readers do after `ReadData`. `PadReader::Read` drops what it has
  read while the extra pad samples (`hid_PadReader.cpp:85-94`), after the position has
  moved on, and `PadReader::ReadLatest` then reads nothing (41); the gyroscope's
  `ReadLatest` puts what it reads in a buffer of its own, which `Read` hands out
  later with what is new (`hid_GyroscopeReader.cpp:229-291`), and whose entries are moved
  by a memcpy that overlaps (274). So `ReadsContinue` is about calls of `ReadData` and
  not about what a program gets from these two. Also what is computed from the
  entries, and the ring of the extra pad, for which
  nothing here says how it is written; loads of a 64-bit tick that are torn in
  two.

The **expanded heap of fnd** has been looked at and left out because the code does
not define what it does: it takes its handle for the start of the heap in some
functions and for the list inside it in others, and so reads and writes outside the
object (`fnd_DetailHeap.cpp:57-60`, 256-278, 439-452). Of the users of the **address
space manager** of os, memory and stack blocks allocate through a pointer that is never
set (`os_MemoryBlock.cpp:30-34`); shared and transfer memory blocks use one that is set up, and
are planned.

The components that are left out are listed with the reason in `PROJECT.json`.
Most are IPC clients whose state is in services outside the repository, or
computation on data.

## 6. Plan

Order: what other parts rely on, and the hardest interleavings, first.

1. Done: the five primitives of `os`, interrupt delivery, command lists with both of
   their waits, the sound threads, message boxes, the rings of samples; proofs of
   every safety property that a run checks, but for that of SoundThreads,
   which has no constants.
2. Next to model: shared and transfer memory blocks on the address space manager
   (`os_SharedMemory.cpp`, `os_TransferMemoryBlock.cpp`), where a mapping that fails
   half way leaves a block listed; the loop of the command request queue's `TryEnqueue` against the
   server that takes requests off; the notification thread of `srv`.

## 7. Running it

`tlc -config X.cfg M` for the run X of module M as `PROJECT.json` lists them,
and `tlapm M_proofs.tla`. Each run ends within two minutes on two cores; the longest are MessageBox (about 85
seconds), CommandList (65) and BlockingQueueCalls.
