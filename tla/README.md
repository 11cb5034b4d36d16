# A verification development for faster-fifo

faster-fifo is a first-in first-out queue of Python objects between threads and
processes. The objects are serialized, and the bytes go through a circular
buffer in shared memory that is guarded by one process-shared mutex and two
condition variables. This directory holds TLA+ modules translated from
`src/cpp_faster_fifo/cpp_lib/faster_fifo.cpp` and `src/faster_fifo.pyx`, TLC
configurations that check them on small instances, and proofs checked by TLAPS
that hold for every value of the constants. "cpp", "pyx" and "tests" below are
`faster_fifo.cpp`, `faster_fifo.pyx` and `tests/test_faster_fifo.py`.

## 1. Inventory

| component | state | operations | what makes it correct | module |
|---|---|---|---|---|
| circular buffer, `Queue::circular_buffer_write/read` (cpp 53-96) | `head`, `tail`, `size`, the memory | write, read, peek | it is a FIFO of bytes wherever it wraps; the cursors stay inside | `CircularBuffer`, abstract: `ByteFifo` |
| message framing, `queue_put`, `queue_get` (cpp 172-282), `parse_messages` (pyx 242-258) | the buffer and `num_elem`; the caller's receive buffer and counters | put a batch, get as many messages as the limits allow, take the bytes apart | all of a batch or nothing; the longest run of the oldest messages that the limits allow; no message misread, no byte behind the caller's buffer | `MessageRing`, `Messages`, abstract: `FifoQueue` |
| locking and waiting, `LockGuard`, `wait` and the signals (cpp 115-122, 148-166, 182-192, 206-214, 231-236, 268-278) | mutex, `not_empty`, `not_full`, their waiter counts | lock, wait, time out, signal, unlock | mutual exclusion; exact counts; nobody sleeps beside work; every call returns; calls act at one instant; a killed process hurts the others no more than it must | `QueueSync`, `LockedRing`, `UniformQueue`, `OneSidedQueue`, `QueueCrash`, abstract: `FifoQueue` |
| timers, `float_seconds_to_timeval`, `wait`, `timer_positive` (cpp 137-170) | `wait_remaining`, `wait_until`, the wall clock | start, wait, wake, give up | the timeout of a call is exact over all its waits | `WaitTimer` |
| Python queue, `get_many`, `put_many`, `reallocate_msg_buffer` (pyx 111-262) | a receive buffer per thread | get, retry with a larger buffer, parse, raise | the retry gets the message it was made for; it ends; it wakes whom the first call did not | `PyQueue` |
| unlocked observers, `qsize`, `data_size`, `empty`, `full` (pyx 264-284, cpp 284-299) | none | read `num_elem` and `size` without the mutex | no answer that was right at no instant of the question | `Observers` |
| closing, `close`, `is_closed` (pyx 97-109) | the shared flag `closed` | set, read | a program that polls it ends, and leaves behind only what was put in the one window there is | `Shutdown` |
| thread-local buffers, `TLSBuffer` (pyx 28-41) | one buffer per thread | pickled as its size | threads do not share a receive buffer; a copy keeps within the bound | `PyQueue` (`Unpickle`) |

Not modelled: `faster_fifo_reduction` (commented-out code only), the C header
and the pxd (declarations), the unit tests, the timing of the benchmarks and
packaging (no behaviour of the product), the vendored googletest. The serializers are the caller's: a
message is whatever `dumps` made of the object, and `loads` may fail.

How they interact. `put_many` and `get_many` call `queue_put` and `queue_get`
with the GIL released. Each of these holds the mutex from its first line to its
return, except inside `wait`, and writes or reads the circular buffer while it
does. All state that processes share lies in two shared arrays, the buffer and
the C++ object with the counters, the mutex and the condition variables. A
message is framed by its size, eight bytes, in front of it. Waiting threads are
woken by signals only, never by a broadcast: a put wakes a consumer or, if none
is counted as waiting, another producer; a get wakes a producer or, if none is
counted, another consumer; and one that is woken passes the signal on by the
same rule when its own call ends.

What is hard here: a signal that is lost or spent on the wrong thread (it times
out at that moment, or finds that its batch does not fit, or has no room in its
buffer); the recheck after a wakeup, with others barging in; the deadline over
several waits; frames and sizes split by the end of the memory; two calls of
`queue_get` behind one `get_many`; readers without the mutex between two stores;
a process that dies with the mutex or in the wait; and consumers that leave
after `close` while messages may still come. The list with lines is `hazards` in
PROJECT.json.

## 2. Modules

    ByteFifo <--implements-- CircularBuffer <--INSTANCE-- MessageRing --implements--> FifoQueue
                                                              ^                         ^   ^
                                       Observers, LockedRing -+ (extend it)             |   |
                                                      |                                 |   |
                                                  implements                            |   |
                                                      v                                 |   |
    WaitTimer (the deadline, alone)               QueueSync --------implements----------+   |
                                                      ^                                     |
    UniformQueue, OneSidedQueue, QueueCrash, PyQueue -+ (extend it)     Shutdown --INSTANCE-+

**ByteFifo** is what `queue_put` and `queue_get` expect of the buffer: a
sequence of bytes, appended to and read or peeked from the front.

**CircularBuffer** has the variables and the two functions of the code, with
their two cases, before and at the wrapping point. `circular_buffer_read` and
`circular_buffer_write` are the operators of that name. They check nothing;
`Write` and `Read` add what the callers owe them (room, enough bytes). The
refinement mapping reads the `size` bytes from `head` on off the memory. Bytes
are abstract values.

**Messages** has what a put and a get compute of a sequence of messages (the
bytes it takes, whether a batch fits, how many messages a get takes), and the
lemmas about it. The sum over a sequence is a recursive function. FifoQueue
extends it, and the proofs about every other module cite its lemmas through
their instance of FifoQueue.

**FifoQueue** is what the README of the program promises: a bounded sequence of
messages. A call begins with what it asks for (`BeginPut`, `BeginGet`) and does
its whole work in one step (`Put`, `PutFull`, `Get`, `GetEmpty`) that also says
what it returns, the `messages_size` for the caller's next buffer included. The
bound in bytes counts the sizes in front of the messages.

**MessageRing** takes `queue_put` and `queue_get` apart into their stores: a
size, a message, the increment of `num_elem`, a peek, a pop, a decrement; `pc`
names the place between them. The calls are alone, as the mutex makes them. A
size in memory is `HeaderSize` bytes that only together say which size it is, so
that a misread size or a message read as a size is an error of evaluation. `Offsets` and `SizeAt` are the walk of
`parse_messages` over the frames, the one place where the code finds out where
a message begins. The mapping to FifoQueue parses the queue out of the memory: what a put has written
counts when the put is done, and what a get has taken is still in the queue
until the get is done. `MeetsRing` says that the calls meet the obligations of
the buffer.

**Observers** extends MessageRing by somebody who calls `qsize`, `data_size`,
`empty` or `full` at any moment. Each of the first three reads one number;
`full` reads `size` (`ReadSize`) and then `num_elem` (`ReadNumElem`), and any
steps of the call under way may lie between. The source order of the two reads,
and of the stores of `circular_buffer_write` and `++num_elem`, is the one the
compiler keeps in builds for x86-64, whose loads and stores stay in order; a
weaker memory model is not covered. `truths` is history: what `full` would have
answered at each instant since its first read.

**QueueSync** has any number of producers and consumers, the mutex, the two
condition variables (the threads with pc "asleep", by kind), the two counts, and
for each call whether it may still wait (`block && timer_positive(...)`).
Between lock and unlock, or lock and wait, a call is one step; that its stores
amount to that step is what LockedRing shows. `PutWait` includes the signal to
a consumer before the wait, `PutWrite` and `GetRead` the signals behind the loop,
each decided by the counts and delivered to a thread that really sleeps, or
lost. A thread in the wait is "asleep", or "awake" and in need of the mutex; it
is uncounted only in `Relock`, with the mutex. The deadline passes in either
state (`Expire`); a wait may end for no reason (`WakeSpuriously`).

**LockedRing** is the C++ code as a whole. It extends MessageRing, whose actions
are the stores, by any number of producers and consumers, the mutex, the waits
and the signals, and splits what QueueSync does at once: the decision to wait
and the signal to a consumer (`PutWait`, `GetWait`), the count (`CountWaiter`),
the sleep that gives the mutex back (`Sleep`), its return with the mutex
(`Relock`), the end of the count and the next look at the queue
(`UncountWaiter`); and at the end of a call the signal and the result
(`FinishPut`, `FinishGet`, `GiveUp`) before the unlocking (`Unlock`). `where`
says where a thread stands, `pc` where the one that computes stands in its
section. There is one copy of the local variables (`msgs`, `i`, `request` and so
on); they are empty outside of a section, since a call that goes to wait starts
its loop anew (`Withdraw`), and `OneInside` says that they are never needed
twice. The mapping to QueueSync (`Sync`): the queue is parsed out of the memory
as in MessageRing (`VisibleQueue`); the mutex counts as held while a thread
computes (`Holder`); a thread on its way to sleep is asleep already, and one that
has the mutex back and is still counted is awake (`Shown`, `Place`); and whoever
has decided to wait is counted (`ToCount`).

**UniformQueue** is QueueSync under one assumption: every put has one message,
all messages have one size of at least one byte, every get has room for one. For
this use the signals suffice, and `SomebodyIsUp` says why.

**OneSidedQueue** is QueueSync under another: the programs keep to one of three
uses, in which all threads may call with `block`, or the producers alone, or the
consumers alone, the others calling `put_nowait` and `get_nowait` (`patient`),
and they keep to one set of batches (`batches`, one of `Choices`). These are
assumptions about the callers: `KeptTo`, `UseInit` and `UseNext` translate none
of the code and are not in `map`. Where one kind
waits alone every signal reaches that kind, and each call passes it on. Consumers
are then served whatever is put (`ConsumersServedAlone`). Producers are served if
their batches take the same room, as many bytes and as many messages
(`ProducersServedAlone`): with unequal batches the signal may go to one that
cannot use it.

**QueueCrash** extends QueueSync by `Kill`: the process of one of the `Mortal`
threads dies with the mutex, in its wait, or awake and in need of the mutex. All
shared state stays as it is: a thread killed with the mutex keeps it for ever
(the mutex is not robust, and the result of `pthread_mutex_lock` is not looked
at), one killed in its wait stays counted, and a later signal may be spent on
it. Who is killed before it has the mutex is as one who never called. What a
killed process has written before it died is not visible: nobody reads the
queue without its mutex but the observers. Two things are taken for granted:
that `pthread_cond_signal` returns although a waiter is dead (POSIX promises
nothing; glibc's groups of waiters may in the end make a signaller wait for the
dead), and that a thread's death is its process's.

**WaitTimer** is the arithmetic behind `Expire`: timevals, the deadline computed
from what the last wait left, the subtraction with its borrow, the test for
positive. `waited` and `skew` are history: the time spent in waits, and by how
much somebody set the wall clock meanwhile. The timeout is given in whole
microseconds.

**PyQueue** extends QueueSync by the Python layer: the receive buffer of each
consumer (its size), `get_many`, and the second, non-blocking `queue_get` when
the first had no room for one message (`GetAgain`, `Retry`). `GetMessages` grows
the buffer behind `parse_messages` and not when `loads` raises. `overtaken` is
history. `put_many` adds nothing to `queue_put`. `Unpickle` is what TLSBuffer
does when a queue is passed to another process: a new buffer of the same size.
The limits of the calls that arise are assumed to be among `Request`
(`RequestAssumption`).

**Shutdown** is the program around the queue that the tests and the benchmark
have in common (tests 35-63, 73-100): producers that repeat a put while it
raises Full, consumers that get until Empty is raised and then look at
`is_closed`, and a main program that joins the producers, closes the queue and
joins the consumers. A put or get is one step, as QueueSync justifies. The store
to `closed` may reach other processes late, as its docstring says; since the
main program does nothing after it but join, that is a `close` that happens
later. `late` is history: what was put since the Empty after which a consumer
looks, or looked for the last time, at the flag.

`...Proofs` extend the module they prove about (MessageRingProofs also
Observers and LockedRing, QueueSyncProofs also UniformQueue); QueueUseProofs has the proofs of
OneSidedQueue and QueueCrash, and those about sums and prefixes of messages are
in Messages.
`MC...` give the constants; `MCPyUniform` and `MCUniformQueue` add
`UniformQueue` to the other instance of PyQueue and of QueueSync.

## 3. Runs

| run | instance | shows |
|---|---|---|
| `ring` | 5 bytes of memory, blocks of 0 to 5 bytes | no write or read, wrapped anywhere, breaks the byte FIFO; tail and (head, size) agree |
| `messages` | 13 bytes, at most 3 messages, sizes of 2 bytes, messages of 1 and 3 bytes, batches of 0 to 2, and an observer | the stores implement FifoQueue; frames stay whole; the caller's buffer is not overrun; the errors the Python code guards against cannot happen, but to a get of no messages, which is in the run and takes none; `qsize`, `data_size` and `empty` show a number between those before and after the call under way, `full` an answer that was right at some instant between its reads |
| `timer` | seconds of 3 microseconds, 11 instants, settings of the clock by up to 4 | the time left is exact; a call gives up when it is used up and no sooner |
| `sync_mixed` | 2+2 threads, room for 6 bytes or 2 messages, batches <>, <s>, <s,s>, <b>, <s,b>, <b,s>, a receive buffer for one small message; all threads wait, or those of one kind | mutual exclusion, counts, capacity, and the protocol implements FifoQueue; where one kind waits alone, none of it is left asleep beside work |
| `sync_uniform` | 3+3 threads, one message of one size per put | no thread is left asleep beside work, and the invariant that is why |
| `sync_live` | 2+2 threads, batches of one and two messages, one of p1 and c1 may be killed | every call of a thread that lives returns, unless the mutex died with its holder, and then none does |
| `py_uniform` | 2+2 threads, receive buffers that start too small | no thread is left asleep, with the retries |
| `py_mixed` | 1+2 threads, two sizes, one message that `loads` rejects | buffers grow, to no more than half as much again as the queue unless they start larger; a retry nobody overtakes gets its message; the recursion of `get_many` ends |
| `locked_ring` | 2+2 threads, 5 bytes or 2 messages, messages of 1 and 2 bytes, batches of one long or two short ones, room for one message in the receive buffer | one thread at a time inside; whole frames after every store; the stores, waits and signals of all threads implement QueueSync |
| `shutdown` | 2 producers of 3 messages, 3 consumers, room for two messages | the program ends with all messages put; what is left was put between Empty and the look at the flag |
| `sync_lost_consumer`, `sync_lost_producer` | 2+2 threads, batches of two sizes | expected violations, section 5 |

Why the bounds are enough. In `ring` the blocks are as short as nothing and as
long as the memory, in `messages` the memory is no multiple of a frame, so each
of them gets split at every byte; no counter is capped, the graph is finite by
itself and explored to its end. In the sync runs three threads of a kind are
needed for one to be woken, one to time out and one to stay asleep; two suffice
for the safety of the protocol, where threads interact in pairs through the
mutex. 6 bytes against 2 messages lets either capacity be the tighter one.
In `locked_ring` a long message leaves room for a short one only and two short
ones for none, so that producers wait for different reasons, each get takes one
message and leaves the other, and frames and sizes are split by the end of the
memory; with two threads of a kind one can be at any place of the wait while
another is in its section and a third calls. `MCChoices` has three sets of
batches: some of any size; <s,b> and <b,s>, which take the same room with
messages of different sizes; and single small messages.
Threads of a kind are interchangeable, so the safety runs use symmetry; the
liveness runs do not. `timer` bounds the clock (`MaxClock`) and the settings
(`MaxSkew`) in the guards of `Tick` and `SetClock`.

`sync_uniform` and `py_uniform` are restricted to batches of one size, because
with two sizes the property is false (section 5), and to
`max_messages_to_get > 0`: a get that asks for nothing spends a signal and takes
no message; the Python code raises QueueError then. Such gets are among those of
`messages`, and the theorems about PyQueue (but for `RetriesPassSignalsOn`) hold
with them. `MaxCrashes` bounds the processes killed by one: a second one in its wait adds one more waiter whose
count is wrong and whom a signal may reach, and after one with the mutex nothing
happens any more; the theorems of QueueCrash hold for any `MaxCrashes`. In `shutdown` six messages
against room for two make producers find the queue full and consumers find it
empty, also after one of them has gone.

Deadlock is checked where a thread outside the queue can always call. It is not
in `sync_live`, where the queue stops for good once the holder of the mutex is
killed, as `NobodyPassesTheDead` states, nor in `shutdown`, a program that ends.

## 4. Fairness

`FairSpec` of QueueSync, and `FairCrashSpec` of QueueCrash for the threads that
live: weak fairness of `Lock` and `Relock`, of the steps with
the mutex, and strong fairness of `Expire`. A thread that holds the mutex
computes and does not block, so it goes on. Weak fairness of the lock is what
pthread mutexes give when the mutex stays free; they promise no order, so a
thread may starve while others call for ever, and `EveryCallReturns` excludes
just that (`[]<>` of new calls). Strong fairness of `Expire` stands for time: a
deadline is a fixed instant, as WaitTimer shows, so it cannot stay ahead while
the thread is woken again and again. Wakeups are not assumed to be fair, nor
that anybody calls. `PyFairSpec` adds weak fairness of the retry, a thread that
runs Python code. `FairSpec` of Shutdown: every process is scheduled; a producer
whose put finds no room waits or tries again, so its put is made in the end if
there is room from some time on (weak fairness, not strong: nothing promises a
producer its turn while others take the room). Nothing is assumed of crashes:
they need not happen.

## 5. Findings

The comments of the code (cpp 209-211, 271-275) state the idea that who is woken
wakes the next one. TLC shows where it breaks when batches differ in size:

* *A consumer stays asleep beside a message.* A get signals `not_full` when a
  producer is counted as waiting, and then wakes no consumer. The count includes
  a producer whose deadline has passed and that waits for the mutex; when its
  batch does not fit it returns Full and wakes nobody. (`sync_lost_consumer`)
* *A producer stays asleep beside room.* The `not_full` signal reaches a producer
  whose batch still does not fit. It waits again, or returns Full, and does not
  pass the signal on; one with a smaller batch sleeps on. (`sync_lost_producer`)

In both cases the thread sleeps until the next call of anybody or its own
timeout: `EveryCallReturns` holds, and that is why tests do not see more than a
delay. With one message of one size per put neither happens, and neither does
the first where no producer waits, nor the second where no consumer waits and
all batches take the same room (OneSidedQueue).

## 6. Proofs

All for every value of the constants that the named assumptions admit.

* `CircularBufferProofs` (`TypeCorrect`, `TailCorrect`, `ImplementsByteFifo`).
  The inductive invariant is `TypeOK` with `TailBehindContents`: without
  knowing that `tail` is right behind the queued bytes one cannot tell that a
  write leaves them alone. From it each write and read is shown to be that of
  ByteFifo, case by case of the wrapping. Assumed: a positive capacity, blocks
  that are sequences of bytes.
* `QueueSyncProofs` (`TypeCorrect`, `MutexCorrect`, `CountsCorrect`,
  `NumberCorrect`, `ImplementsFifoQueue`, and below). `IInv` joins the types, the kind of
  each call's parameters, mutual exclusion, exact counts, the bound in messages,
  and `ResultPending`: the thread with the mutex is the one whose call has begun
  in FifoQueue. Every step moves one thread and at most wakes others (`Moves`),
  so that counting comes down to adding or removing one thread of a finite set.
  Mutual exclusion is needed for the counts and for `ResultPending`; the types
  of the counts follow only from their being cardinalities. Assumed: finitely
  many threads, producers and consumers disjoint, batches that are sequences of
  messages, capacities that are natural numbers.
  `CapacityCorrect` adds the bytes: with `IInv`, `BytesBounded` is inductive, for
  only a put adds bytes, and it has checked that they fit. Assumed besides: sizes
  that are natural numbers.
  For UniformQueue (`SignalsHandedOn`, `ConsumersServed`, `ProducersServed`): that
  nobody sleeps beside work when nothing goes on is not inductive;
  `SomebodyIsUp` is, with `IInv` and `BytesBounded`: where a consumer sleeps
  beside messages, another consumer is awake or has the mutex, or a producer is
  and will find room; and where a producer sleeps beside room, another producer
  is up, or a consumer that will find a message. The argument goes through the
  four ends of a call. Who finds no room, or no message, takes nothing from the
  other disjunct, since that promised room, or a message. A put signals a
  consumer if one is counted, and by exact counts one is then up. A get takes a
  message at least (`GetTakes`) and so leaves room for any producer
  (`RoomAfterGet`): here the messages must have one size, and this is the step
  that the findings of section 5 break. Timeouts and spurious wakeups only raise
  threads. These theorems assume `Uniform`, which is `OneSize` (a batch is one
  message, messages have one size, of one byte at least because of
  `MIN_MSG_SIZE`, cpp 99-100) and `RoomForOne`.
* `QueueUseProofs`. About QueueCrash (`CrashesKeepSafety`, `TheDeadBlockAll`):
  `Kill` changes no variable of QueueSync and a killed thread takes no step, so by
  the construction of the model every theorem about QueueSync holds among any
  number of crashes (the lemma `CrashesAddNothing`). That nobody gets past a dead
  holder of the mutex is an action property from mutual exclusion.
  About OneSidedQueue (`ConsumersServedByPuts`, `ProducersServedByGets`): the
  inductive invariants are `ConsumersAlone`, that where a consumer sleeps beside
  messages another one is awake or has the mutex, and `ProducersAlone`, the same
  of producers and room, each with the counts of the other kind at zero, so that
  no signal can go astray. A step of a thread that ends its call is up to the
  lemmas `NextConsumersAlone` and `NextProducersAlone`: it leaves nothing
  behind, or wakes the next one. For producers this needs `EqualRoom`: where one
  batch of the program fits all do, and so does the smallest message, which is
  what `queue_put` tests before it signals. No bound on the sizes of messages or
  gets is assumed.
* `PyQueueProofs` (`PyImplementsSync`, `PyTypesCorrect`, `BuffersGrow`,
  `RetriesServed`, `RetriesPassSignalsOn`). The invariant adds to that of
  QueueSync that a consumer inside the queue asked for what fits its receive
  buffer (`Asked`). A get that says its buffer was too small needed more bytes
  than the buffer has and no more than are queued (`ReplySize`), so the new
  buffer, half as much again, is larger and within the bound.
  For `RetriesServed` a consumer that is to retry knows more (`RetryKnows`):
  it asks for a message at least, and unless another consumer took messages
  since, the first one is still there and has room in the buffer. What a put
  appends leaves the first message alone; what another get takes sets
  `overtaken`.
  For `RetriesPassSignalsOn` the signal is followed through the retry. A get
  that takes nothing for want of room leaves the queue with a consumer that is
  not in it, so `SomebodyIsUp` breaks there; `ServerIsUp` counts a consumer that
  is to retry as up, and is inductive: that consumer was woken, or came by
  itself, and its retry ends like any other get. Assumed: `OneSize`, and that no
  get asks for nothing (`0 \notin MaxMessages`), since such a get lets its signal
  go. The sizes of the receive buffers are arbitrary: that replaces `RoomForOne`.
* `MessageRingProofs`, about MessageRing (`MeetsRingCorrect`, `TypeCorrect`,
  `WholeFramesCorrect`, `NoOverrunCorrect`, `NeverMisreadCorrect`,
  `ImplementsFifoQueue`), Observers (`SizesHonestCorrect`, `FullHonestCorrect`)
  and LockedRing. The layers, in the order of the module:
  - *Frames.* `StartsWith(bytes, q)`: the bytes begin with the frames of the
    messages `q`, each a size and a message, one behind the other. From bytes of
    which that is so `parse_messages` gets exactly these messages and their
    length (`Parsed`), by induction over the frames. Appending a frame and
    dropping the first one preserve it (`StartsAppend`, `StartsOthers`).
  - *The circular buffer.* The theorems of CircularBufferProofs, taken through an
    instance: a write appends to the contents, a read returns the front
    (`RingWrites`, `RingReads`). No wrapping is left above this line.
  - *The invariant* `IInv`. `Framed`: what the call has taken (`Taken`) and what
    the ring holds (`Left`) are whole frames, as many and as long as `num_elem`,
    `size`, `messages_read` and `bytes_read` say, and together within the
    capacities. `BatchAdded`: the last `i` messages of `Left` are the first `i` of
    the batch, the rest still fits, and the frame that is being written is that of
    the next. `MessagesTaken`: each message of `Taken` was one the limits allow,
    and after a peek `msg_size` is the size of the first of `Left`. `CallKnown`:
    the local variables of the calls that are not under way are clear. None of
    the properties is inductive without these: that a pop leaves whole frames
    needs that the size peeked is the size stored; that a write has room needs
    what `can_fit` found some stores before; that nothing is written behind the
    caller's buffer needs that the size added up is the one compared. TLC
    checked `IInv` on the instance of `messages` before it was proved.
  - *The refinement.* The queue that callers see (`Visible`) is `Taken`, then
    `Left` without the `i` messages of a batch that is not complete. All stores
    but the last of a call leave it as it is (`SameVisible`, `CountRefines`,
    `PopRefines`), and the last one is the step of FifoQueue (`EndPutRefines`,
    `EndGetRefines`). The number of messages a get took is the `Count` of
    FifoQueue because it may take each of them (`MessagesTaken`) and not the
    next one, for whichever reason the loop ended (`Messages!CountIs`).
  - *Observers.* They change nothing of the queue, so `IInv` holds with them.
    `SizesHonest` follows from it: a put has written no more than its batch, a
    get has taken no more than it may. For `full` an invariant of its own,
    `FullRemembered`: while the last place is taken no put can begin, so between
    the two reads only gets move, and the one that gives the place back leaves
    room in bytes as well; at that instant there was room, and `truths` has it.
  - *The threads* (`OneInsideCorrect`, `LockedSectionsCorrect`, `ImplementsSync`,
    `LockedImplementsFifoQueue`, `LockedCountsExact`, `LockedWakeups`). The
    invariant `LInv` is `IInv` with `OneInside`, the kind of each call's
    parameters, and `LocalsOfHolder`: the local variables are those of the call of
    the thread that computes. A step moves one thread and wakes at most one other
    (`Moves`), and what it must do for `LInv` is said once, in `ThreadsKept`:
    the mutex follows the thread in and out, and so do the local variables. A
    start finds them free, for whoever is inside has the mutex (`StartInv`);
    so each section runs as MessageRing has it, alone, and its `IInv` holds
    among the threads. For the refinement, steps that QueueSync does not see
    leave its whole state alone: the stores but the last of a section
    (`StoreHidden`), and the steps between the decision to wait and the sleep,
    behind the signal of a return, and on waking (`HiddenStep`). The last store
    is the whole call (`FinishPutShown`, `FinishGetShown`, `GiveUpShown`), and
    whom it wakes is decided by what QueueSync sees: while a thread computes
    nobody is on his way into or out of the wait (`OthersAsleep`), so that the
    counts (`CountsTaken`) and the sleepers agree with those of QueueSync, and
    so do the room and the number of messages read (`EndPutRefines`,
    `EndGetRefines`). With this every safety theorem of QueueSyncProofs, taken
    through an instance (`SP`), is one about the stores: the last three.
  Assumed: `ThreadAssumption` (finitely many threads, producers and consumers
  disjoint; for `LockedWakeups` also `Uniform`), `HeaderAssumption` (a size has at least one byte), a positive
  capacity, batches of messages, limits that are natural numbers, and
  `MessageAssumption`: messages are sequences of bytes.
* `ShutdownProofs` (`ShutdownTypes`, `LossWindow`). A consumer that has seen the
  queue empty knows that whatever is in it now came since (`LateCoversQueue`).
* `WaitTimerProofs` (`TimerPositive`, `TypeCorrect`, `TimeKeptCorrect`,
  `GivesUpCorrect`). `TimeKept` is inductive with the types. The lemmas say of
  each operator what it does to the number of microseconds.

So every invariant that a run checks, every action property and every refinement
is also a theorem. Only model-checked: liveness (`EveryCallReturns`,
`EveryGetReturns`, `Terminates`), which the prover does not reach because it has
no rules for ENABLED and fairness. The expected violations of section 5 are, of
course, only found.

The induction over frames, sums and offsets is on a set of numbers closed under
successor up to a bound (`Induction` in Messages), from the well-foundedness of
the natural numbers: an induction theorem over an operator is beyond the installed
provers. `SumsDef` and `OffsetsDef` show that the recursive functions unfold.

## 7. Not modelled, and the plan

Abstracted: contents of messages, serializers, the width of `size_t` (all
counters stay within the capacities, which `TypeOK` checks), the rounding of
`float` timeouts and undefined conversions of negative or huge ones, the memory
model (every access to shared state but the observers' is under the mutex), the
GIL, errors of the pthread calls, whose results the code ignores.

Not modelled, and why. A call that crashes between two of its stores and is then
observed by `qsize`: the mutex stays locked, so the number is of no use to
anybody. Restart: nothing is kept on disk, and no code repairs a queue.
`pthread_cond_signal` blocking behind a dead waiter is a matter of glibc's
version. Stores that other processes see in another order than the source's
(processors other than x86-64) matter for the observers and for `closed` only,
which make no promise beyond what is checked here. Most of the repository's lines
are the vendored googletest, which is not part of the program; the code of the
queue itself is two files of some 600 lines, and every function of theirs that
changes or reads shared state is mapped.

What is left to do:

1. Messages of no bytes, which a custom `dumps` can make: the wake of another
   producer after a put then asks for one byte more than it needs. `OneSize`
   excludes them.
2. With messages of several sizes and both kinds waiting, what does hold of the
   signals: that a thread left asleep beside work is one whose signal went to a
   call that could not use it.
