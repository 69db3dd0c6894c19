# OOBase in TLA+

OOBase is a C++ base library: mutexes, condition variables, events, threads and
thread pools, reference-counted pointers, one-time initialisation, containers,
allocators, signals and slots, a logger, parsers of configuration, and wrappers of
POSIX and Windows. It has no test suite and hardly any documentation, so the
reference for everything here is the source itself. Paths below are relative to
the root of the repository.

This directory holds TLA+ modules of the parts where the difficulty is in the order
of events, TLC configurations that check them on small instances, and proofs of their
main properties for every instance, checked by TLAPS.

Contents: 1 inventory, 2 plan, 3 the modules, 4 the runs, 5 fairness, 6 the proofs,
7 what the code does wrong, 8 what is not modelled.

## 1. Inventory

### Components with concurrency

| Component | Source | State | Operations | What is hard |
|---|---|---|---|---|
| Condition variable (POSIX) | `src/Condition.cpp` | the wait set | wait with a deadline, signal, broadcast | spurious wake-ups, a signal spent on a thread that times out |
| BoundedQueue | `include/OOBase/BoundedQueue.h` | ring, capacity, `m_closed`, `m_pulsed`, `m_errored`, `m_waiters` | push, pop, close, pulse | two wait sets, barging, closing and pulsing under way, a failed allocation |
| Event (POSIX) | `src/Condition.cpp` | `m_bAuto`, `m_bSet` | set, reset, is_set, wait | it signals only on a change |
| Future | `include/OOBase/Condition.h` | `m_complete`, `m_value` | signal, broadcast, wait, wait and reset | waiters with different wishes |
| SharedPtr, WeakPtr | `include/OOBase/SharedPtr.h` | two atomic counts | copy, drop, promote | the last release against a promotion |
| Once | `src/Once.cpp`, `src/Win32.cpp` | one word, a named mutex | Run | threads that arrive meanwhile; an initialiser that fails or uses the key |
| RWMutex (legacy Windows) | `src/Win32.cpp` | a count, two events, a mutex | acquire, try, release, for reading and writing | no lock protects these four against each other |
| Condition variable (legacy Windows) | `src/Win32.cpp` | count, flag, semaphore, event | wait, signal, broadcast | the last waiter's handshake with the broadcaster |
| Thread (POSIX) | `src/Thread.cpp` | pthread, `m_finished`, references | run, join, abort, destruction | the start handshake, the life of the object |
| ThreadPool | `src/Thread.cpp` | a list of threads, a mutex | run, join, abort | threads end while they are looked at |
| Mutex, RWMutex and guards | `include/OOBase/Mutex.h`, `src/Mutex.cpp` | the lock, a flag per guard | acquire, try, timed, release, destruction | nested guards of a recursive lock; which clock a deadline is of |
| LockedAllocator | `include/OOBase/Mutex.h` | a buffer under a SpinLock, an allocator behind it | allocate, reallocate, free | whose block it is, after the lock is given up |
| Atomic | `include/OOBase/Atomic.h`, `src/Builtins.cpp` | one word | add, exchange, compare and swap | operations made from others where the build lacks them |
| Logger | `src/Logger.cpp` | outputs under a recursive mutex | log, connect, disconnect | an output that changes the vector being walked |
| Singleton, DLLDestructor | `include/OOBase/Singleton.h`, `Destructor.h` | an instance, a stack of destructors | instance_ptr, exit of the process | constructors that ask for other singletons, threads that ask during exit |
| TLS, TLSSingleton | `src/TLS.cpp`, `include/OOBase/TLSSingleton.h` | a table of values and an arena per thread | Get, Set, allocation, end of thread or process | destructors that use what is being destroyed |

They are composed as follows. BoundedQueue, Event and Future each own a mutex and
one or two condition variables; the wait set is a set of threads in a state of the
component, so the module Condition is a collection of operators on the threads'
program counters, which the three share. A Thread owns an Event (`m_finished`) and
is owned through SharedPtrs, its own pthread being one of the owners. A ThreadPool
owns Threads through SharedPtrs under a mutex. On legacy Windows, Once, RWMutex and
Condition are implemented in `src/Win32.cpp` from kernel objects; elsewhere they
are calls of the system. A Singleton is made under Once and registered with the
DLLDestructor; the Logger is one. A TLSGlobal, which holds a thread's table, holds an
arena too and lives as long as a block of it is in use.

### Sequential components

| Component | Source | What makes it correct |
|---|---|---|
| HashTable | `include/OOBase/HashTable.h` | every key that has been inserted and not removed is found, wherever displacement has put it and whatever tombstones lie before it |
| List, Cache | `include/OOBase/List.h`, `Cache.h` | the links form one chain in both directions |
| Queue, Stack | `include/OOBase/Queue.h` | order is kept while the ring wraps and grows |
| Vector, ScopedArrayPtr | `include/OOBase/Vector.h`, `ScopedArrayPtr.h` | items stay, in order, while the array grows, moves and cannot grow |
| Set, Table | `include/OOBase/Set.h`, `Table.h` | binary search finds the first of equal keys, insertion keeps the order |
| BTree | `include/OOBase/BTree.h` | keys in order, pages full enough, parents' keys right, over splits, steals and merges |
| ScratchAllocator | `src/ScratchAllocator.cpp` | live blocks are disjoint, free neighbours are merged, all memory comes back |
| ArenaAllocator | `src/ArenaAllocator.cpp`, `src/dl_malloc.c` | chunks tile the segments, a free one is in exactly the bin that later calls search, blocks are as large and as aligned as asked |
| Memory, UniquePtr, SharedPtr in one thread | `include/OOBase/Memory.h`, `UniquePtr.h`, `SharedPtr.h` | what has an owner lives, what has none is freed, once, by the allocator it is from |
| String | `include/OOBase/String.h` | copies share a text until one is changed |
| Timeout, Clock | `src/Timeout.cpp` | subtraction with carry; the forms of the time left agree |
| ConfigFile, CmdArgs, Environment | `src/*.cpp` | what a user means is what the program reads |
| utf8 | `src/utf8.cpp` | what is measured is what is written; a text comes back |
| Morton, ByteSwap | `include/OOBase/Morton.h`, `ByteSwap.h` | coordinates and words come back |
| File, SmartFD | `src/File.cpp`, `include/OOBase/Posix.h` | map and unmap agree on pages; descriptors are closed once |
| SignalSlot, Delegate, Random, Error, DLL, Win32Security, Win32Debugger, tr24731 | several | see section 8 |

`PROJECT.json` lists all of them under "components", with what is modelled of each,
and under "hazards" the places where this code can go wrong in ways that a test
would hardly reach, with the properties that watch them.

## 2. Plan

The modules were written in the order of what other code depends on: first what
threads wait on, then what keeps objects alive, then the locks the library implements
itself, then threads, then the sequential structures and conversions.

| Step | Modules | Abstract specification | Composed of | Proofs |
|---|---|---|---|---|
| 1, done | Condition, BoundedQueue, Event, Future | ClosableFifo (atomic calls of a closable FIFO), AtomicEvent (one flag) | BoundedQueue, Event and Future with Condition | SharingProofs (BoundedQueue), WaitingProofs |
| 1, done | SharedCount | | | LifetimeProofs |
| 1, done | InitOnce, RWMutex, ConditionVariable | | | Win32Proofs |
| 1, done | Thread | | the pool with its threads and other clients | ThreadProofs |
| 1, done | ScratchAllocator, HashTable, BTree | FiniteMap for HashTable | | ContainersProofs (HashTable), StorageProofs (ScratchAllocator) |
| 2, done | Queue, Vector (with ScopedArrayPtr and Table), List | a FIFO as an action property; sequences of items | | SharingProofs (Queue), VectorProofs (Vector, ScopedArrayPtr, Table), ContainersProofs (List) |
| 2, done | SmartPtrs, Allocating, Strings, Mspace | | | LifetimeProofs (SmartPtrs, Allocating, Strings) |
| 2, done | Guards, LockedAllocator, Logger, Atomic, TLS, Singleton | | the Logger with its recursive mutex, TLS with its arena, Singleton with Once and the DLLDestructor | SharingProofs, LifetimeProofs (Singleton) |
| 2, done | Timeouts, Utf8, Settings, Bits, File | what the user meant, exact arithmetic | | StorageProofs (Timeouts, File) |
| 3 and 4, done | the proof modules | | | |

The number of runs is kept small by letting a composite module choose at the start
which of several unrelated components the program uses (the variable `used`): the
state graphs are side by side, nothing is multiplied, and each property speaks of one
of them, or of a few of a kind. The composite modules are `MCBoundedQueue`,
`MCWaiting`, `MCShared`, `MCWin32` and `MCContainers`. They get the constants' values
from their `.cfg` files, and define those that a `.cfg` cannot write.

## 3. The modules

An action is one atomic step of one thread: a critical section, one kernel call, or
one atomic instruction. A variable has the member's name, without `m_`, where there is
one; `pc` says where a thread is inside a call and, outside, how its last call ended.
Definitions whose names have a suffix (`SetSignalsOne`, `PushWakesHeedless`) stand just
before the one they are variants of; they are the plausible mistakes that
`PROJECT.json` lists under "mutants", and no specification uses them.

**Condition** holds the wait sets of `src/Condition.cpp` (POSIX) as operators on the
program counters of the modules that use it. A thread in the wait set leaves it by a
signal, by a broadcast, spuriously or because its deadline passes. A signal given to a
thread that has left already is lost, as it is in the program.

**BoundedQueue** has one action for each critical section of push, pop, close and
pulse: from the Guard's acquisition to the wait, the release or the return.
`PushWakes` and `PopWakes` are the turns of the wait loop. The queue inside is a
sequence with the capacity of the ring, because growing it may fail, which sets
`errored`. That is the queue of a type of objects: a ring of plain data that grows while
it is wrapped is no sequence (`Queue.h:265`, section 7), so that nothing is claimed of a
BoundedQueue of plain data. `pulse` gives up the lock in a loop; `PulseEnds` is the turn that finds
`m_waiters` 0. **ClosableFifo** is the abstract specification: a call is blocked or
returns in one step, a push appends if there is room and the queue is open, and a close
or a pulse makes blocked calls return. `Fifo` in BoundedQueue is the instance: a thread
is blocked in the call whose wait it is in.

**Event** and **Future** follow `src/Condition.cpp` and `include/OOBase/Condition.h` in
the same way. `Event.Set` signals only if the flag changes. **AtomicEvent** is one flag
that a wait tests, and takes if the event resets itself, in one step. A Future's program
either never uses signal(), or lets every waiter reset (`signalsOne`): a signal() that
wakes one waiter of several that do not reset strands the others, and the code offers
both calls for that reason. A wait that copies the value does so under the lock;
wait(bReset) of a type that is not passed by value returns a reference to `m_value`,
and its caller reads in a step of its own (`Reads`), after others may have had the lock.
`late` is the history of that: the future has been completed in between, so that the
caller reads the newer value or, where it is being assigned, neither (`NoValue`).

**SharedCount** has the two atomic counts of a `SharedCountBase`, and handles, which
are SharedPtrs and WeakPtrs. Every atomic instruction is a step: release() is the
decrement, dispose(), and weak_release(), which are steps that others can come
between. addref_lock() is four steps. `promoteAlone` is a choice made at the start: a
program that keeps promotions apart from other uses of the hard count
(`Apart`) and one that does not; the properties hold of the first kind and the run
`shared_count_racing` shows why the second is excluded.

**InitOnce** is `Win32Thunk::impl_InitOnceExecuteOnce` with the named mutex, which exists
as long as a handle to it is open. **RWMutex** is `Win32::rwmutex_t`: each step is one
kernel call or one interlocked instruction. `early` is a history variable: a reader has
passed the reader event before the last reader, counted out already, had reset it. It
takes three readers (section 7); the properties are about the executions before that,
with any number of readers, and nothing but this step is excluded. **ConditionVariable** is
`Win32::condition_variable_t` with the parts of `condition_mutex_t` it calls; the
blocks under its critical section are single steps. `withMutex` tells whether callers
hold the mutex when they signal and broadcast. Owning the mutex twice
(`depth`), which follows from a timeout that had expired on entry, is part of the model.

**Thread** is the POSIX form: the run() handshake with a wrapper on the creator's stack,
the references of creator and pthread, join with a timeout, cancellation, and the last
drop, which deletes the object. A joined or aborted thread is not joined again
(`Unjoined`): pthread_join() forbids it and the code does not prevent it.
The second half of the module is ThreadPool: the list under its mutex, of which run()
looks at one entry at a time; `Spec` has clients alone, `PoolSpec` both.
shared_from_this() in `oobase_thread_fn` is a promotion in
SharedCount's sense, and it is kept apart from others, because run() waits for
`m_started` before its caller can touch the SharedPtr again.

**ScratchAllocator** works on a buffer of units with the headers of blocks, the links
of free blocks and the offsets in the buffer, so that sizes and alignments that leave
gaps too small for a header occur. The helpers are functions on a record, because a
reallocation allocates, copies and frees in one call.

**HashTable** has one action for each round of the insertion loop, because what is hard
is between the rounds: an item is carried round displacing others (`Swaps`), growth
moves the old table into the new one item by item, and lookups are right only at the
end. `ripple()` stops at once, since it compares two positions it has just made equal,
so an erased slot always becomes a tombstone. `lapped` is a history variable: an
item has been carried past a whole table. **FiniteMap** is the abstract specification:
an insertion takes effect at its start and rebuilding changes nothing.

**BTree** works on pages by address; a call is one step, computed by functions that
take the tree and return it, with the number of allocations that still succeed, since
split() may fail at each of three allocations and leaves what it has linked.
Addresses are renumbered after each call, so that the same tree is the same state.
`astray` is a history variable: an array of a page has been used beyond its end, after
which the program's behaviour is undefined and the model stops.

**Queue** is the ring, for plain data (`pod`), whose bytes grow() moves with
reallocate(), and for objects, which it copies out in order. `torn` is a history
variable: a ring of plain data has grown while it was wrapped, after which values are
lost; the property `ActsAsFifo` is about the rest. **Vector** begins with the array,
as operators on a record: growth in both forms, insertion, removal, and what
becomes undefined behaviour (`ok` becomes FALSE and the program stops). Three machines
use them: a Vector with its public operations and an iterator; ScopedArrayPtr, whose
array inside the object is left for the vector when it grows too small; and Table and
Set, which keep a Vector sorted, with equal keys. Calls whose result the code gets wrong
for plain data set `faulty` (section 7). Lifetimes of old objects are not observed: with
exceptions, reallocation copies the objects into the new block and never destroys the
old ones (`Vector.h:196`). **List** works on the links of nodes.

**SmartPtrs** is SharedPtr as one thread sees it: pointers inside the objects, which go
when their object does, aliases and promotions after expiry; and UniquePtr, which is the
same for one owner. An assignment to a SharedPtr runs the cascade of releases that it
causes to the end, as the code does: `Released` works on a list of the calls to come.
**Allocating** follows allocator instances through copies, assignments
and swaps of containers; `mixed` is set once two containers with different allocators
have been swapped, since swap() does not exchange the allocators. **Strings** has the
shared nodes of SharedString, with texts as sequences and the buffer of each node;
`expected` is what each string was given, and changes through a reference from
operator ScopedStringImpl&() are told apart.

**Mspace** is the space under ArenaAllocator: dl_malloc's mspace functions with the
build's settings (footers, no locks, segments from mmap). Chunks are records by
address in a heap that the system gives; a treebin is the set of its chunks, as the
trie decides only which of equal fits is found first; addresses count units of the
alignment. Allocation through small bins, the victim, tree bins, top, a new
segment or direct mapping, freeing with merges both ways, trimming and release of
segments, reallocation in place or by moving, and aligned allocation are there, with
system calls that may fail.

**Guards** has a recursive lock or a reader/writer lock and the guards on the stacks of
threads that nest; **LockedAllocator** the buffer under a SpinLock and the allocator
behind it; **Logger** outputs that log, connect and disconnect, to a depth
of `MaxDepth`; **Atomic** the primitives of Builtins.cpp in three builds: with all
instructions, with those of Windows, and with compare-and-swap only, where an operation
is a loop of reads and a swap. There a word that has changed and changed back makes the
swap succeed; `apart` says that the two reads of an add() have found different words,
the one case in which what it then stores is wrong. **TLS** has one thread, its table, its arena's
references and its end, where destructors set values, free and allocate.
**Singleton** has threads that race through Once for two singletons, the constructor of
one asking for the other, and the exit of the process at any moment.

**Timeouts** keeps time as seconds and nanoseconds of a scaled second, and asks for all
forms of the time left at each moment; `GivesUp` is Mutex::acquire(timeout), whose
deadline is measured by another clock, `SinceEpoch` ahead. **Utf8** converts texts of
code points by measuring first and then writing into buffers that are too small, right
or too large, and bytes that are given, whole, malformed or cut off, with a length or up
to the terminator. Where the decoder reads outside of what it was given the conversion is
`astray`, and over. Of the locale's encoding the model has what mbrtowc() and
wcrtomb() return: a character, part of one (which the state keeps), or a failure, after which
the code goes on at the place before, as it tests an unsigned count for being above 0
(`failed`). **Settings** spells what a user means (lines, arguments, variables) as
symbolic characters and reads it with the parsers' control. **Bits** has words as sets
of bits. **File** has the file's length, the open file description, the table of
descriptors, and pages that mappings hold.

Common to these: a record of history (`items`, `expected`, `home`, `owed`) tells what
the program is entitled to, and the property compares it with the state.

## 4. The runs

`tlc -config X.cfg M` in this directory repeats any of them.

| Run | What is small | Why that is enough |
|---|---|---|
| `bq_safety` (MCBoundedQueue) | BoundedQueue: 3 threads, 2 values, both symmetric, Bound 2, first ring of 2 slots. Queue: rings of 3 and 6 slots, 2 values. Guards: 2 threads, 2 nested scopes. LockedAllocator: 3 blocks, room for one. Logger: 3 outputs, depth 2. Atomic: 2 threads, words of 3 values. TLS: 2 keys, 2 values, 2 blocks, 2 rounds of destruction | a pusher, a popper and one who takes what was meant for either; a ring that wraps and then grows; an output before and one behind the one that changes the vector; a value that changes and changes back |
| `waiting` (MCWaiting) | 3 threads, 2 values; a queue for one value | two waiters and a setter; two completions that can be told apart; Bound 1 makes push and pop block each other |
| `shared` (MCShared) | SharedCount: 4 handles, counts up to MaxRefs 2. SmartPtrs: 3 objects, and 2 SharedPtrs and 1 WeakPtr or 2 UniquePtrs. Allocating: 2 allocators, 2 containers, 1 object, 4 blocks. Strings: 2 strings, texts up to 3, 2 inside the node. Singleton: 2 threads, 2 singletons. Mspace: 2 blocks of 2, 6 or 12 units in segments of 16 | a promotion, the last release, a copy and a WeakPtr together; a chain of objects; a text that leaves the array inside its node; small, large and directly mapped blocks, segments that are trimmed and released |
| `win32` (MCWin32) | InitOnce: 3 threads, an initialiser that may fail or recurse. RWMutex: readers {t1, t2, t3}, of whom t1 and t2 also try, writers {t3, t4}. ConditionVariable: 3 threads, at most 3 tokens, ownership at most twice | one initialises, one waits, one arrives later; a reader that slips in and one that does not, one thread that reads and writes, a waiting writer behind a writing one; two waiters and a broadcaster, who also waits |
| `threads` (Thread) | threads o1, p1, p2; clients c1, c2 that run, join and abort; u1, u2 that use the pool | an owner race over one thread and a pool that has to reuse a place |
| `containers` (MCContainers) | ScratchAllocator: 16 units, requests of 1, 3, 4, 6, alignments 1 and 4, Skew 1. HashTable: keys {0, 1, 4} in tables of 4 to 8 slots, Part 3, 2 values. BTree: ten keys, orders 3 and 4. Vector, ScopedArrayPtr, Table: capacities up to 4, ranges up to 3, two keys. List: 4 nodes. Utf8: the code points on either side of each limit, alone and in pairs, 12 malformed sequences and 9 that are cut short, alone, with a letter behind and, for those, before; in the locale's encoding up to 3 parts, whole, cut or refused, room for 8. Settings: up to 3 of each kind of line, argument, piece and variable. Bits: inputs that differ in one bit from 0 or all ones. Timeouts: 12 nanoseconds to a second. File: pages of 2 bytes, files up to 3, 2 descriptors | blocks too small to split, gaps too small for a header; two keys with one home, growth under way; three levels of pages, steals and merges of leaves and of internal pages; arrays that grow, grow again and cannot; a file that ends within a page |
| `shared_count_racing` | 3 handles | a violation is expected, see section 7 |
| `init_once_early` | 2 threads | a violation is expected |
| `rw_three` | readers r1, r2, r3 and writer w1 | a violation is expected of WriterAlone without proviso; with two readers it holds (TwoReadersKeepOut) |
| `hash_lapped` | a table of 4 that never grows | a violation is expected |
| `btree_inside` | 6 keys, orders 3 and 4 | a violation is expected |
| `timed_mutex` | two seconds, the realtime clock one second ahead | a violation is expected |

What each property says is in the comment before it. Of the composite ones:
NothingForgotten (BoundedQueue) is that nobody sleeps on a closed queue or through a
pulse, that while somebody sleeps in pop (push) there is a woken popper (pusher) for
each value (place); that no push fails while another waits is part of
ImplementsClosableFifo. LocksAreKept is that
the lock is held exactly as often as live guards say, and that blocks go back where they
came from. OwnersHold is about three kinds of owners, ComesBack about three kinds of
conversions, OnceAndForAll about InitOnce as in sections 3 and 7.

Bounds on counters are guards of the actions named in the modules: `MaxRefs` (copies are
not made beyond it), `MaxTokens` (no broadcast or signal beyond it), `MaxDepth`,
`MaxScopes`, `MaxBlocks`, `Rounds`, `MaxLen`, `MaxText`, `LastSecond`, `MaxSize` (a
table does not grow beyond it), `MaxCapacity` (allocations beyond it fail), `MaxAllocs`
(no insertion asks for more pages), and in BTree an insertion may fail only while no
leaf is left stranded in the chain by an earlier failure. HashTable was also checked
with keys {0, 1, 4, 6} in tables of 4 to 8 slots, Part 4, and with keys {0, 1, 4, 5} in
tables of 2 to 8, Part 2; SharedCount with MaxRefs 3.

In BTree, a steal of several pages between internal pages needs order 7 or more and
trees that TLC does not reach; the text of the model follows the code there too
(the pages arrive in the reverse of their order). TreeValues has one value, so
that replacing a value is an empty step.

Runs that do not check for deadlock say why in their `.cfg`: everybody may be asleep
with nobody left to call, a try of the reader/writer lock that fails may strand it, a
thread that owns a mutex twice blocks the others, a count gone wrong leaks its block, an
insertion may go round and round, a process or a text comes to its end, and a program
ends where it writes beyond an array.

## 5. Fairness

Nobody is obliged to begin a call. What is assumed is that a call that has begun goes on:

- BoundedQueue: weak fairness of a woken thread's turn, of a timed-out thread's return
  and of the turn of pulse() that finds nobody waiting, since no lock is held across a
  step; strong fairness of a deadline that passes, because it is an absolute time
  (`Timeout::get_abs_timespec`) and the same in every turn of the wait loop.
- SharedCount: weak fairness of the steps of a release or a promotion that has begun.
- InitOnce: weak fairness of a thread's steps, strong fairness of acquiring the kernel
  mutex, since a thread that waits for a kernel mutex is not passed over for ever.
- RWMutex: weak fairness of steps, strong fairness of the three waits (reader event,
  event, event and mutex together). That is the most a fair scheduler gives: a writer
  still has to find both objects free at one moment, which is why WriterGetsInAfterReaders
  speaks of executions in which readers stop coming.
- ConditionVariable: strong fairness of releasing and regaining the mutex and of a
  semaphore's token, weak fairness of the rest.
- Thread with the pool: weak fairness of the pthread's steps and of a client's
  steps inside a call.

In MCWin32 the three components' conditions are merged: for each thread, weak fairness of
the steps of the component in use and strong fairness of its waits. Since `used` never
changes, a behaviour has the fairness of its component. MCWaiting assumes only that of
BoundedQueue, MCShared that of SharedCount.

The liveness properties of RWMutex are about executions without a failed
`try_acquire_read()` and without a reader that slips in (`early`), and those of ConditionVariable about executions in which nobody
owns the mutex twice: TLC shows that they fail otherwise (section 7).

## 6. The proofs

TLAPS checks all theorems for every value of the constants that satisfies the named
assumptions, which TLC evaluates in the runs. They say what a program has by its
nature: finitely many threads, handles, objects and pointers; that a bound is a natural
number, a ring has at least two slots and a thread's destructor is called at least once;
that NULL is no object and no node of a list; that the keys of HashTable are natural
numbers and the content of an unused slot is no item; that no pointer is
both the program's own and a member of an object; that allocators have a block to spare;
that a place that was never constructed holds no value, an array is never grown to nothing and
capacities are natural numbers;
that a ScratchAllocator's buffer has room for a block, and its requests and alignments
are positive; that a second is a whole number of milli- and of microseconds; that
descriptors are natural numbers and pages have at least one byte.

Each theorem has the same form: an inductive invariant, which TLC has checked on a small
instance before it was proved, a lemma for each kind of step, and the property from the
invariant. In the composite modules the components stand side by side, so that a step of
`MCNext` is a step of one component or changes nothing of it, and what is invariant of the
component is invariant of `MCSpec`.

| Module | Components | Theorems of which property |
|---|---|---|
| WaitingProofs | Event, Future | NoSleeperForgotten, ImplementsAtomicEvent, FutureForgetsNoSleeper, FutureGivesTheLatest |
| ThreadProofs | Thread, ThreadPool | NothingOutlived, FinishedMeansOver, RunForgetsOnlyFinished |
| LifetimeProofs | SharedCount, SmartPtrs, Allocating, Singleton, Strings | CountsMatch, NoUseAfterFree, OwnersHold, InstanceIsAlive, TextsAsGiven |
| Win32Proofs | InitOnce, RWMutex, ConditionVariable | OnceAndForAll, LocksExclude, OneBroadcastAtATime |
| SharingProofs | BoundedQueue, Atomic, Guards, LockedAllocator, Queue, Logger, TLS | NothingForgotten, ImplementsClosableFifo, and more of BoundedQueue; AtomicActsAtOneInstant, LocksAreKept, RingActsAsFifo, EveryOutputHears, EndsValuesOnce |
| ContainersProofs | List, HashTable | BothWaysInOrder, LookupAndWalk, ActsAsMap |
| VectorProofs | Vector, ScopedArrayPtr, Table | KeepsItems, FindsTheNewest |
| StorageProofs | ScratchAllocator, File, Timeouts | BufferInOrder, FilesHold, TimeLeftAgrees |

**BoundedQueue.** No wake-up is lost, which is not inductive by itself. The inductive
invariant `IInv` of SharingProofs adds: the types; the queue is within its bound and
the ring keeps a free slot; `m_waiters` counts the threads in pop's wait
(WaitersCounted), without which nothing follows from pulse() seeing 0; nobody sleeps on a
closed queue or through a pulse; at most one pulse is under way, exactly while `m_pulsed`
is set; and while somebody sleeps in pop (push) there is a woken popper (pusher) for each
value (free slot). ErrorMeansNobodyWaitsToPush needs the ring's free slot: a push can
fail to grow only when the queue is below its bound, and then nobody sleeps in push
unless a woken pusher will use the space. There is one lemma for each action;
the ones about Signal and Broadcast count woken threads before and after. From these
the same module proves, for a queue of objects, that every step of the monitor is one of ClosableFifo or
changes nothing that it sees: spurious wake-ups and turns of the loop are stutters.

**Event.** The invariant is that nobody sleeps on a set event unless a woken thread
will take it; with it, the early return of set() is right, and the event implements
AtomicEvent.

**Future.** The same, but with two kinds of waiters and two ways to wake: who resets, and
that a program which calls signal() has only waiters that do (WhoResets), are part of the
invariant, and so is that a reference leads to the value it was returned for, until the
future is completed again (RefersToIt). That two waiters that reset never share a completion is an action property.

**InitOnce, RWMutex, ConditionVariable.** InitOnceExecuteOnce: `*check` says how far the
call of the function is (CheckTells), the caller is the thread that came first and is
alone under the mutex (CallerIsFirst), and whoever is between opening and closing the named
mutex has a handle to it, so that it exists (HandlesAreOpen). rwmutex_t: the right to be inside is in exactly one
place, an object that is set or the hands of one thread (RightIsSomewhere), and the
reader who leaves last is alone between its two steps (LastIsAlone). Both hold for any
number of readers until one slips in (`early`), which RWMutexExcludes says. That a reader
cannot slip in if at most two threads read is a theorem of its own,
TwoReadersKeepOut: beside the last reader there is one other, which is the first to
be counted again and so goes for the event. With three it can (section 7). condition_variable_t: who is inside
broadcast() has `hMutex`, if callers hold it.

**SharedCount.** The invariant (`IInv`) says that in a program that keeps promotions
apart both counts are right, where a handle in the middle of release() counts in one way
before and another after its decrement; that the object lives while the hard count is
positive or its one disposer has not finished, and the block likewise (ObjectInv,
BlockInv); and that a promotion under way still sees the count it has read
(PromotionInv). CountsRight and NothingUsedAfterFree follow.

**Thread.** The life cycle: where the creator and the pthread are relative to each other
at each stage of the handshake. It gives that the object and the wrapper on the stack are
alive whenever the pthread uses them, and that `m_finished` tells the truth unless the
thread is cancelled. The steps of a pool change who owns a SharedPtr and what its callers
are doing; PoolInv adds that the caller that holds the pool's lock is
a user of the pool with a SharedPtr of its own and in no other call, so that the same
facts hold of PoolSpec; and run() gives away the place of a thread only when it has
finished.

**SharedPtr, WeakPtr and EnableSharedFromThis.** OwnersHold speaks of the states between
calls, and a call runs a cascade: the last release of an object destroys its member,
which may be the last reference to another, and so on. So the invariant (`Counted`) is one
of every point within a cascade: `m_ref_count` is the number of SharedPtrs that point to the
object, of releases of it that are still to come, and of references that the running
function has in its hands; the weak count likewise, with one for all hard references. An
object lives exactly while its hard count is positive and its block while the weak one is,
and `HeapInv` is the case with nothing to come. One lemma says that a release keeps
`Counted` whatever list of releases follows. That the cascade ends, so that `Released`
returns a heap with nothing to come, is by a measure that each release lowers, three for
each live object and one for each release to come, which the number of turns given to
`Released` bounds; the induction over turns is by the least turn at which the
claim would fail (`LeastOf`, from the well-foundedness of the natural numbers).

**UniquePtr and Allocating.** No two pointers own the same object, what is owned has not
been freed, and what has not been freed is owned or held by a plain pointer. Until two
containers with different allocators are swapped (`mixed`), a container's block is from
the allocator it would free it to; SpareIsFree, a pigeonhole, is why the next
allocation finds a block.

**Singleton.** The call inside the Once of a singleton is one, and finds it as far as that call
has brought it (CallsHold); a singleton is registered for the end of the process at most
once and before its constructor is called, and one that is freed is registered no more
(SingletonHolds); and the exit is at one that it has taken off the stack (ExitHolds).

**Strings.** A string's node has the text the string should have, as long as m_len says and
with the terminator behind it, unless a vprintf() that failed has cut it short
(`StringsOK`); and every node is some string's, which leaves a place for the next one, by
a pigeonhole. Each operation of a ScopedString is a set of nodes that it may leave, and a
lemma says which text each of them carries. compare() is strcmp(), for which the first
difference, the least of a set of positions, decides.

**Atomic, Guards, LockedAllocator.** A compare-and-swap loop that has read a value has the new
value that belongs to it, whatever the word has been since: if the swap finds it as it was
read, also after it has changed and changed back, the operation acts at that instant. The
exception is an add() whose two reads of the word (section 7) found different ones
(`apart`); the property excludes the swap of such an add(), and no other step. A thread has the lock at least as often as its guards on the stack say, and no
oftener unless one of them acquired twice. Who is inside the buffer of a
LockedAllocator has the lock, and each block is the program's, or the argument of exactly
one call under way; the room that is left counts the calls that ask.

**Queue.** The slots of the ring, from `m_front` on, are the contents; growing copies them
out in order, an append takes the next slot, and outside of them nothing is a live
object. `RingActsAsFifo` is the action property that relates the contents of two
successive states.

**Logger.** Of each loop over the outputs that is under way, on the stack of the thread
that has the recursive mutex: the outputs before the position have heard or were connected
since, the ones behind it have not, and none is in the vector twice. A disconnection
before the position marks the loop (`shifted`), of which the property does not speak.

**TLS.** As long as none of the four faults of the model has happened: a TLSGlobal is counted
once for each block and once for its thread, one that is being destroyed is counted no more
(CountsTell), and how far the end of the thread has come says which of them may exist
(PhaseTells). A value whose key is still listed has not been destroyed, one with a destructor
whose key is listed no more has been, once (ValuesWait); and no value is in two places
or, if it has a destructor, in none (ValuesKept), which is what makes "once" true when
destructors set values while the list is being worked off. A key that is listed has a
value, so that the destructor never finds one without.

**Vector and ScopedArrayPtr.** A vector is an array (IsArray), its places hold values below
the size and nothing from there on (IsClean), and its contents are the items of the
history until a call has gone wrong for plain data (`VecOK`). For growth there is one lemma for each
form, allocated anew or moved, for insertion and removal one at any place; assignment
of a range and of copies is by the places it writes. A ScopedArrayPtr has its data in one of its two arrays,
and the step from one to the other keeps as many as fit (`ArrayOK`).

**Table.** The items are in order of their keys (IsTable) until plain data is erased
before the end. find() is two recursions. The binary search, over the width of the interval,
ends at an item of the key if there is one, since those outside the interval are too
small or too large; the walk back ends at the first of its run, and what
comes before is smaller. An insertion at that place keeps the order; and of a range, the
second goes in before the first if their keys are equal, and if only one goes
in, there was no room left.

**List.** There is a sequence of all the nodes, none of them twice, in which each node's
links are its neighbours and its value is the item of the history at the same place
(`ListOK`). An insertion and a removal at any place are one lemma each. A walk along the
links, which is a recursive function, is that sequence in one direction and its reverse
in the other; that it is follows by induction over its steps.

**HashTable.** Of a table by itself (`TableGood`): a key has one slot, and every slot on the
way from its home to it is *passed*, which means that an item or a tombstone is there whose
own hash has brought it as far. That is what find_i() needs in order not to break off early.
It is kept by a tombstone, which keeps its hash, and by a displacement, which leaves an item
that has come further. Of the item that is carried (`Carrying`): the slots behind it are
passed, and its key is in none of them. In grow() the new table has what the loop has moved,
but the item it carries (`Growing`). There probe_distance() measures with the size of the
old table, half of the new; it comes to the same, because the slots on the way to an item
hold different items of the old table, so that there are fewer of them than that has
slots (`WayFits`, a pigeonhole). `HashOK` is all of this, until an item has been carried past
every slot (section 7), of which the properties do not speak. That `m_count` is right after
grow() is two injections, of each table's items into the other's. The iterators go by
rank, the number of slots in use before one. The refinement reads the abstract map from the
slots and the incoming item: a swap exchanges the two, and the old table stands for the
map until the new one has everything.

**ScratchAllocator.** The blocks tile the buffer, the free ones are a list in order of their
places, no two that are free touch, and those in use are the ones held, each with room for
what was asked (`ScratchOK`). The links are the hard part, and they are treated apart from
sizes: a set of places is *linked* if each one's links name its neighbours in the set
(`Linked`), and a set stays linked if one place leaves it, joins it, or takes the place of
another (LinksRemoved, LinksAdded, LinksMoved). A block that is split or merged changes the tiling at one place
(TileSplits, TileJoins), and a block that is freed touches at most one free block on
either side, so that merging once each way is enough. free_tag() has two ways to
find its place, a merge upwards and a walk along the list; the walk, a recursive
function, is the list of the free blocks from the top (FreeListIs). That
the buffer comes back whole follows: if nothing is held, the block at 0 is free, and a second one
would touch a free one.

**File.** While no close() has failed, the entry of a File's descriptor says that it is the
File's, which keeps two Files from one descriptor (Owned); the lowest free descriptor that open()
is given is nobody's. A page is mapped for exactly one mapping or for none (OneOf), and a mapping
lies in the file and shows what was asked for (`MapsOK`). The bytes of a mapping lie in the
pages that unmap() computes from its address and length (BytesLieInPages), which is why
neither another map() nor another unmap() touches them; and that a mapping shows the right
bytes is a fact about division by any size of a page (BytesAsAsked). A file never gets shorter:
ftruncate() is not among File's operations.

**Timeout and Clock.** That nanoseconds are in range is the whole invariant, beside a clock's
start not being later than now (`TimeOK`). timespec_subtract() then carries at most one second
into the subtrahend, and its second branch is never taken (CarriedIs); what it returns
stands for the difference (SubtractIs), of which every form is the quotient by its unit
(Rounded), since its seconds are negative exactly if it is (BelowZero).

Only model-checked:

- All liveness, since the prover handles neither fairness nor ENABLED in these modules.
- BTree (TreeHolds, OneEntryAtATime), whose functions recur over a tree that they change
  on the way, so that what holds of them would need an induction over trees.
- ComesBack of the conversions.
- HeapInOrder of Mspace.
- What a fold or a function of the library computes for every input where it would need the
  library's theorems that take an operator. An induction is possible with `LeastOf`, as
  for SharedPtr, and is worth it where a run of calls is the difficulty.

## 7. What the code does wrong

Six runs end in a violation of what a comment or an assertion of the source says:

- `rw_three`: three readers of the legacy Windows reader/writer lock can end up reading
  beside a writer. release_read() decrements the count, then resets the reader event and
  sets the event: a reader that counts itself in between is first, the next one passes
  the reader event that is still set.
- `init_once_early`: a thread that arrives while the initialiser runs is told that it
  is done.
- `shared_count_racing`: a promotion that overlaps another change of the hard count may
  count a reference nobody holds, or none where there is one.
- `hash_lapped`: in a table whose slots are all in use or tombstones an insertion carries
  its item round and a key is lost. Tombstones are not counted in `m_count`,
  so such a table never grows; the insertion may also never end.
- `btree_inside`: a removal that refills a leaf from the previous one swaps entries
  beyond the page's array, for every order; so do merges of internal pages of an even
  order, and a pointer beyond `m_pages` is cleared when the last of B pages is merged.
- `timed_mutex`: Mutex::acquire(timeout) gives a deadline of the monotonic clock to
  pthread_mutex_timedlock(), which measures by the realtime clock, so that it gives up
  at once when the mutex is taken.

Seen while reading or in an exploration, without a run of their own:

- A `try_acquire_read()` that fails may strand the lock for ever (`src/Win32.cpp:457`).
- The thread whose initialiser fails gets TRUE itself (`src/Win32.cpp:239`).
- ConditionVariable: if the timeout has expired on entry the thread owns hMutex twice on
  return (line 724); the last waiter may set m_waiters_done a second time, which lets
  the next broadcast clear `m_broadcast` early (lines 718, 733, 783);
  `condition_mutex_t`'s timed acquire returns false after it has acquired (line 592);
  the wait does not set ERROR_TIMEOUT as the other implementation does.
- Thread: abort() leaves `m_finished` unset (`src/Thread.cpp:173`), so that is_running()
  stays true; a thread that is never joined is never detached. ThreadPool's join() and
  abort() loop while pop_back() fails, so that they join nothing.
- Future: wait(bReset) of a type that is not passed by value returns a reference to
  `m_value` (`Condition.h:137`), which the caller reads when the lock has been released: a completion
  that comes before replaces it, one that overlaps may tear it.
- BoundedQueue: pthread_cancel() of a thread in pop() leaves `m_waiters` too high.
- Queue: the POD form of grow() does not unwrap the ring, so that a Queue or a
  BoundedQueue of plain data may lose values; copying a queue of plain data
  does not compile.
- HashTable: ripple() never moves anything; insert() returns an iterator to the slot of
  the item displaced last; a value that is replaced is not destroyed; an iterator moved
  back from end() does not arrive. Cache does not compile, and would remove the key it
  has just inserted.
- BTree: iterators, size(), back(), copies and exists() do not compile; a split that
  fails leaves an empty leaf in the chain, and may leak an internal page.
- Vector: remove_at() of plain data moves too few items (line 439); of objects it always
  returns the end; assign(n, value) of objects within the capacity destroys one too
  high; resize(0) reports failure; with exceptions, reallocation never destroys the old
  objects (line 196). List: the difference of iterators is off by one;
  insert(value, end()) dereferences NULL.
- String: a string compared with itself is unequal; assign() of no text or of a length of 0 keeps
  the old text of a SharedString; a
  reference from operator ScopedStringImpl&() changes all copies; a failed resize or
  vprintf() leaves a length that is not the text's.
- Memory: Allocating<AllocatorInstance>::swap() assigns through the reference and does
  not exchange the allocators, so that swapped containers free to the wrong one.
- WeakPtr: a copy of an expired pointer is still true as a boolean.
- dl_malloc: a reallocated, directly mapped block that had been aligned comes out
  smaller than asked; excluded by RemapsAligned. ArenaAllocator(true) locks nothing,
  since the build has USE_LOCKS 0; ArenaAllocator::reallocate() with an alignment over 8
  copies too much when a directly mapped block shrinks. StackAllocator and
  LockedAllocator do not fall back when reallocation in the buffer fails.
- Guards: a guard that acquires a recursive mutex twice releases it once.
- Atomic: add() without an instruction reads the word twice (`src/Builtins.cpp:327`): if
  the reads differ and the word is the first again at the swap, what is stored is not the
  sum. On Windows returns the old value instead of the new.
- TLS: a TLSSingleton's destructor is not called when its thread ends; a destructor
  given later to a key that had none is lost; a failed Set() leaves an entry in the
  list; reallocate(ptr, 0) gives up a reference although the block stays; a value's
  destructor that frees the last block deletes the TLSGlobal inside its own destructor.
- Singleton: a destructor is registered before the constructor runs, so that a singleton
  used by another's constructor is destroyed before it; the instance pointer is cleared
  only after the memory is freed.
- Logger: an output that disconnects itself or an earlier one makes the next miss the
  message; connect_stderr_log() writes to stdout.
- Timeout: operator == with an infinite right-hand side compares uninitialised times;
  Thread::sleep() may pass a negative time when it is preempted.
- utf8: the checks for overlong and reserved sequences are never true, since the table
  is of signed chars; the decoder reads beyond a sequence that is cut off by the length, and
  beyond an empty text with a length of 0; it takes the terminator for a byte of a sequence
  that is cut off by it, and goes on behind, or leaves the text without an end;
  measure_native() of a wide text without a length runs past its end; where mbrtowc() fails, or has
  part of a character, `count > 0` takes -1 and -2 for lengths (`utf8.cpp:680`), so
  that the place and the size go back by one or two, and measure_native() may go on for ever.
- Morton: MortonEncode64() loses bits 16 and up of each coordinate (`Morton.h:280`),
  which the model's inputs show.
- CmdArgs: a second "--" is dropped. ConfigFile: the value of a last line without a
  newline is lost. Environment: substitution is not repeated in what was substituted;
  strings without "=" go under the empty name.
- File: assigning a descriptor to a SmartFD does not close the old one; after a failed
  close it closes again; a writeable mapping is private and never reaches the file.

## 8. What is not modelled

Thread on Windows and Event on Windows: kernel objects in place of what is modelled; and
the Windows branches of TLS, Timeout, File and utf8, which call the system. Cache does
not compile, and of SignalSlot neither fire() nor Signal0::disconnect() does, so they
have no behaviour; Delegate is used only there. Logger's formatting and its writers to
the system's logs, the process and login functions of Posix, Random, Error, DLL,
Win32Security and Win32Debugger wrap system calls and keep no state that others share.
tr24731 is third-party code; of dl_malloc only the mspace functions that ArenaAllocator
calls are modelled. Of Environment, block() and the wide-character forms are Windows
only. Memory ordering is sequentially consistent in all modules: the library's atomics
are taken as full barriers, and plain reads as atomic.
