# A verification project for libcop

libcop is a small C library of portability helpers and data structures: two
stack-like allocators, an intrusive string dictionary, sorting macros, thread
and file-mapping wrappers, byte-order conversions, SIMD vector types and a
logger. This directory holds TLA+ models of its stateful core, TLC
configurations that check them on small instances, and TLAPS proofs of the
properties that matter most, for every value of the constants.

    tlc -config MCGrpTemps.cfg MCGrpTemps     # model-check one configuration
    tlapm GrpTempsProofs.tla                  # check the proofs of one module

`PROJECT.json` lists the components, the runs, the mutants that show each
property to be sensitive to a plausible bug, the source lines every definition
stands for, the hazards of the code, the findings and the theorems. A definition
whose comment starts with "Slip:" is such a mutant: the code with one plausible
mistake in it. No specification uses one.

## Inventory

| Component | Source | State | Operations | Status |
|---|---|---|---|---|
| Stack-allocator interface | `cop_alloc.h:48-96` | what a client holds | alloc, save, restore | `SAlloc` (abstract) |
| Group-temporaries allocator | `cop_alloc.c:196-305` | chain of malloc'd buffers, bytes before the head, growth limit, default alignment | init, alloc, save, restore, free | `GrpTemps` |
| Virtual-memory allocator | `cop_alloc.c:100-194` | reservation, protected prefix, used offset | init, alloc, save, restore, free | `VirtualAlloc` |
| Memory queries | `cop_alloc.c:44-98` | none | page size, physical memory, lockable memory | page size: an input of the allocator's init |
| String dictionary | `cop_strdict.c/.h` | the caller's root pointer, and in every node its key, data and four children | node_init, insert, get, update, delete, enumerate, and their `_by_cstr` forms | `StrMap` (abstract), `StrDict` |
| String handles, hash | `cop_strtypes.h` | none | length and hash of a C string | `StrHash` |
| Sorting | `cop_sort.h` | the array being sorted, and a scratch array | quick, heap, merge and insertion sort | `Sort` |
| Threads | `cop_thread.h` | the caller's `cop_thread`, the system's thread | create, join | `Thread` |
| Mutexes and conditions | `cop_thread.h` | the system's objects | create, destroy, lock, try, unlock, wait, signal, broadcast | `Buffer` (abstract), `Monitor` |
| Thread keys and ids | `cop_thread.h` | the system's | get, set, create, destroy a key; get an id | not modelled: one system call each |
| File mapping | `cop_filemap.c/.h` | open handles, the mapping, the file | open, close, dump | `FileMap` |
| Byte-order conversions | `cop_conversions.h` | none | loads and stores of 16, 24, 32 bits | `Conversions` |
| Vectors | `cop_vec.h` | none | arithmetic, lane permutations, horizontal extremes | `VecLanes` (all but the arithmetic) |
| Logging | `cop_log.h` | none | leveled macros or functions chosen by build flags | `Log` |
| Program entry, attributes | `cop_main.h`, `cop_attributes.h` | none | macros | not modelled: no behaviour |
| Tests | `tests/*.c` | - | - | read for intended use |

**Interactions.** The components are libraries, not a running system. A
client calls an allocator through `struct cop_salloc_iface`, whose function
pointers and context `init` fills in; the allocators call `malloc`/`free` or
`mmap`/`mprotect`/`munmap` and the page-size query. A client of the dictionary
owns all memory: it sets nodes up, inserts them, gets them back from delete,
and may free them from the callback of enumerate, which runs in the middle of
the library's recursion. The dictionary sees a string only through the length
and hash in its handle and `memcmp`. No component starts a thread; the
allocators are documented as not thread-safe (`cop_alloc.h:52`) and the
dictionary has no lock, so concurrency exists only in `cop_thread.h` and between
the processes that share a mapped file. Vectors, conversions, string handles and logging are
header-only; what they do depends on the compiler, the platform and build flags.

**What is hard.** The group allocator keeps one number (`pre_head_size`) in
step with a chain through pushes, pops, trims and a compaction that can fail
halfway; clients keep plain numbers (saves) across all of that. The virtual
allocator never compares with the size of what it reserved. Deleting from the
dictionary rotates nodes through one another while holding a pointer to a
pointer, and hands back a node that may be inserted again as it is. Enumerate
lets its callback free the node the recursion has just left. A wait gives up its
lock in the middle and may end for no reason. A header has up to three
implementations of one promise, of which a test runs one.

**What makes each correct.** Allocators: every block in use is backed by memory
the client may touch, overlaps no other, and is aligned; a save keeps
separating what came before from what came after; restore gives up exactly the
latter; a failed call changes nothing for the client. Dictionary: whatever the
hashes, it is a map; its tree stays a tree in which keys lead to nodes; what
leaves it is clean; enumeration meets every node once, leaves first, and reads
none that was freed. Sorting: a sorted permutation. Threads: no result is read
before the thread ended, and no failed creation leaves an object behind. Mutexes and
conditions: no update and no wake-up is lost. Files: every failure path closes what was opened.
Headers: every build keeps the same promises (not the same numbers: a
string with negative characters has different hashes where plain `char` is signed and where it is not).

## Plan

In order, the most important behaviour first:

1. `AllocCommon`, `SAlloc`, `GrpTemps`, `VirtualAlloc`: the allocators and their
   contract. **Done**, with proofs.
2. `StrMap`, `StrDict`: the dictionary and its contract. **Done**, with proofs.
3. `Sort`: the four macros against a sorted permutation. **Done**, with proofs.
4. `Thread`: create and join on POSIX and Windows, with every error path. **Done**, with proofs.
5. `FileMap`: open, close and dump with every failure. **Done**, with proofs.
6. `VecLanes`: the lane permutations of every vector implementation. **Done**, with proofs.
7. `Conversions`, `StrHash`, `Log`, and `MCHeaders`, which composes them with
   `VecLanes`: every build of the header-only parts. **Done**, with proofs.
8. `Buffer`, `Monitor`: threads that share a store under a mutex and
   conditions. **Done**, with proofs.

Every property of a passing run is proved but the three that need fairness (see "Only model-checked").
What remains unmodelled is in the last section.

## The modules

    SAlloc          contract of both allocators        StrMap   contract of the dictionary
       ^  refined by                                      ^  refined by
    GrpTemps   VirtualAlloc   (both EXTEND AllocCommon)   StrDict  (StrDictProofs)
    GrpTempsProofs, VirtualAllocProofs

    Buffer          what threads that share a store promise
       ^  refined by
    Monitor  (MonitorProofs)

    Thread  (ThreadProofs)     FileMap  (FileMapProofs)     Sort  (SortProofs)     (each on its own)

    MCHeaders  instantiates  VecLanes, Conversions, StrHash, Log   (HeaderProofs)

### SAlloc - what a stack allocator promises

State: the client's live blocks in order of allocation, its outstanding saves
(each as a number of blocks) and the last result. A grant must be disjoint from
everything live; a refusal changes nothing; `restore` truncates to a save.

### GrpTemps - the chain of buffers

| Variable | In the code |
|---|---|
| `bufs` | the chain through `prev`, head last; each buffer with its first user address, `alloc_sz` and `size` |
| `pre_head_size`, `max_grow`, `default_align` | `struct cop_alloc_grp_temps` |
| `s`, `total_size`, `deallocate` | argument and locals of restore |
| `pc` | which loop or branch of restore or free comes next |
| `heap` | what is malloc'd and not freed |
| `live`, `marks`, `ret` | the client: its blocks, its saves, the last result |

`bytes` (what malloc was asked for), `below` and `pos` (the coordinate save would
have had) are history values that no action reads. `restore` is `RestoreBegin`,
one `PopBuf` per iteration, `Trim`, then one of `CompactSkip`, `CompactReplace`
and `CompactFail`; `free` is `FreeBegin`, `FreeBuf` per buffer, `FreeDone`.
`alloc` is one action for each of its three outcomes. If restore's loop ran out
of buffers the code would read through a null head; the model then goes to
`pc = "lost"`, which `AssertionsHold` excludes. Every malloc may fail. Sums
that the code computes in `size_t` go through `Wrap`.

The client is one that follows the documentation: after restoring a save it no
longer uses the blocks and saves made since.

### VirtualAlloc - one reserved range

`reserve_sz`, `grow_sz`, `protect_sz`, `used_sz`, `default_align` and `base` are the
code's, `platform` the branch that was compiled. `accessible` is what the kernel allows, which can exceed `protect_sz`
after an `mprotect` that failed halfway; `neighbour` is how much happens to be
mapped right after the reservation, which `mprotect` would change as willingly.
On Windows a commit stays in the reservation and happens whole or not at all
(`Mapped`, `AllocFail`). No call loops, so each is one action per outcome; `init` has
three, since it stores its settings before it learns that there is no room
(`VirtualInitNoRoom`), and a client may call it again after that.

### StrMap and StrDict - the dictionary

`StrMap` is a map from keys to nodes; each call is made in one step and answered
in another. In `StrDict` `root`, `kids`, `key` and `data` are the caller's pointer
and node fields. `slot` is `pp_root` (the address of the root pointer or of one
child pointer), `cur` the node it points to, `level` the number of shifts made.
A search takes one `Descend` per iteration; `Get`, `Update`, `InsertExists`,
`InsertAttach`, `DeleteMissing` and `DeleteFound` are its ends; `Rotate` is one
iteration of delete's second loop and `Detach` its end. Enumeration keeps its
recursion in `stack`: `EnumKid` is one iteration of the loop over the children,
`EnumVisit` and `EnumStop` a callback that returns zero or not. The callback
looks, or frees the node it is given ("destroy"); freed or unset memory holds
arbitrary child pointers, modelled as pointers of the node to itself.

`inside` (the nodes in the tree), `at` (where each hangs) and `seen` (what the
callback was given) are history variables; no guard reads them except that the
caller sets up no node that is in the dictionary, which it is told not to do.
A key is a sequence of digits, one per shift: 32 digits of two bits in the code, length above hash,
`Width` digits below `NB` here; distinct strings may share it.

`p_kid->kids[kid_idx] = p_ret` in delete is kept in the model, although the next
iteration, or the detaching store, writes the same place.

### Sort - the four macros

`mem` is the array being sorted, followed by the scratch space merge sort gets;
elements are told apart although some rank equal, so that a lost or doubled one shows.
`calls` holds the calls in progress, the running one last, each with where it is and
the locals of its loop: quick sort leaves its two parts there, merge sort its two
halves under the merge that follows them. An action is one pass of a loop (`Insert`;
`Partition` and `Scan`; `TakeFirst` and `TakeSecond`; `SiftUp` and `SiftDown`) or the step
between two loops. `CM` is the comparator macro: free to answer as it likes (`Ties`) about two
elements that rank the same, so that one written with <= works as well as one with <. The
sizes at which quick and merge sort change their method (4, 16 and 8) are the constants `QuickSmall`,
`QuickMedian` and `MergeSmall`. `given` is a history variable.

### Thread - creation and join

| Variable | In the code |
|---|---|
| `status`, `kept`, `result` | the system's: whether a thread is being created, may run, runs or has ended; references to it; what its function returned |
| `obj` | `struct cop_thread_arg` in the caller's `cop_thread`, on Windows |
| `attrs` | `pthread_attr_t` initialised and not destroyed |
| `call`, `answer` | the call each thread is in, with its locals, and what its last one returned |
| `at`, `asked`, `took` | history: the object, the argument and the detach flag of its creation; the argument its function got |

On POSIX a creation is `AttrInit`, `PosixSpawn` or `PosixRefused` (the stack size, the
detach state or pthread_create) and `AttrDestroy`. On Windows the object is
filled in by `CreateBegin`, then come `WindowsSpawn` or `WindowsRefused` and, if detached,
`CloseDetached`. The new thread starts and ends at any time after it was spawned.
`JoinBegin` takes the object by value, which on Windows copies the result stored
in it; `JoinEnd` is what follows the wait. The clients keep to the documentation: one
thread joins another, once, if it is not detached and its creation has returned;
an object serves one thread at a time, until that has ended.

Its invariant `IInv` says what each call may rely on while others run: no two
calls are about one thread (`CallsInPhase`), an object is one thread's own until it has
started (`ObjectsOwned`), and attributes and handles exist exactly where a call will
give them back (`ReferencesMatch`).

### Monitor and Buffer - mutexes and conditions at work

The functions of this part are one system call each and a translation of its
result; what is hard is using them. `Monitor` exercises them with a client of this project's making (its
loop and its turns are no code of the repository), which relies on all of them: a main
thread creates a mutex and one or two conditions, any of which may fail; threads put into and
take from a store of bounded size; then all is destroyed again. `mutex` and `cond` are
the system's objects, `pc` where each thread stands in its turn:

    Begin, MutexLock or MutexTrylock, { CondWait, CondWaitReturns }, Test, Act,
    MutexTrylock again (a helper that locks for itself), CondSignal or
    CondBroadcast, and MutexUnlock before or after

`Test` reads the store and `Act` writes it back, as two steps (`saw` in between), so that
a lock that does not exclude loses an update. `late` holds the threads that unlock
before they signal. `WakeUp` is a wait that ends by itself. `misused` becomes true where the code
has an abort or an assertion (a condition destroyed under a sleeper, a lock given back by a
thread that does not own it). The two systems differ in `MayEnter`, a critical section being open to its
owner, and in `Answers`. `Buffer` is what the threads see of it: turns one at a time.

### FileMap - maps and dumps of one file

`pc` is each client's next call to the system; `file` the accesses with which it has
the file open, `held` the rest of what it has taken, `rights` what its view allows.
`amount` is `map->size`, or how much of a dump the file has got; `content` the size of the
file and who wrote it last. Each system call is one action, with the clean-up
that follows when it fails. `Grants` is the sharing rule of Windows: two handles
coexist when each allows (`FILE_SHARE_READ`) what the other does. A `CreateFileMapping` that
fails goes on without a mapping, as the code does. `IInv` says what is held at each
of these calls (`HeldInCall`, `NothingLeaks`) and that on Windows the size a client has measured
stays that of the file until its map is closed (`SizeInStep`).

### VecLanes - where elements go

`cop_vec.h` has up to three implementations of each operation: compiler builtins
named for their index lists, SSE and AVX intrinsics (which work on halves of 128 bits), NEON;
and generic macros over whichever there is. `Pick`, `Unpack`, `Shuffle`, `Halves` and
`Blend` model the instructions; everything else is the code's use of them. A vector is a
function on its lanes and elements are distinct numbers, which is enough because the
operations move or compare elements and nothing more. A client has four or eight
vectors (`regs`) and an array (`mem`); `last` and `steps` are history. `Transposed` gives every
transposition that a type has, with the generic one for `v8f`, which is never used. The macros
assign an output before they have read all inputs, so that outputs must not be
inputs; the client keeps to that.

### Conversions, StrHash, Log - the other headers

A client of `Conversions` loads and stores numbers in a buffer of four bytes with any
initial content; `clang` is the branch of `cop_ld_sle24` that shifts a signed word instead
of rebuilding the sign. `RoundTrips` relates each load or store to the one before, and a load's low byte to the buffer.
`StrHash` reads two strings one character at a time, with plain `char` signed or not, and compares the handles as the
dictionary does. `Log` has the flags of a build in `build`, each undefined, zero or
one; `LogMacro` is the C99 form, `LogFunction` the other. `LogsDelivered` says of each build which
messages exist (`Exists`) and with which tags they arrive (`TagsOf`).

`MCHeaders` composes the three with `VecLanes`: one client of one of them, in one build. Their
constants are constrained by plain definitions which `HeadersConstants` asserts together.

## The runs

| Run | Checks | Instance | Shows |
|---|---|---|---|
| `grp_safety` | backing, disjointness, alignment, accounting, restore's assertions, nothing stranded (`UsedIsHeld`), `IInv` (types and separation by saves included) | 3 buffers, 2 buffer addresses, sizes 0, 1, 3, two alignments, 3 live blocks, 2 saves (symmetry on buffers) | no order of calls and malloc failures breaks the chain or the client's view |
| `grp_refine` | `SAlloc`, leaks, termination | the same with one alignment and one save, no symmetry | the chain implements the contract; only one branch leaks; calls return |
| `grp_leak` | `FreeReleasesAll`, **violated** | 4 buffers | a leak against `cop_alloc.h:111` |
| `virt_safety` | accessibility, alignment, `IInv`, `SAlloc` | both platforms, reservations of 5 and 9 bytes, pages of 2, bases 0 and 6, with and without a neighbour | no rounding, failed call or restore hands out memory the client may not touch; that it is in the reservation is claimed on Windows, and on POSIX without a neighbour |
| `dict` | tree invariant, clean detachment, height, enumeration, progress, `StrMap` | 5 keys, three of which share length and hash; 4 nodes; 2 values; 2 children per node, 2 digits (symmetry on nodes and values) | every rotation keeps every key findable; enumeration is safe and complete; calls end; it cannot be told from a map |
| `sort` | the assertions on sizes, loop invariants, sorted permutation on return, termination | up to 7 elements of 3 ranks, `QuickSmall` 4, `QuickMedian` 6, `MergeSmall` 3 | the four sorts, their index arithmetic and their calls to one another are right for every order and all ties |
| `thread` | `IInv`, arguments, references left over, truth of the error codes | 2 created threads and the first one, 2 objects, 2 arguments, both platforms (symmetry) | no schedule and no failing call loses an argument, keeps a handle or reports what did not happen |
| `thread_join` | `JoinGivesResult`, **violated** | the same with one argument | a join on Windows gives a stale result |
| `filemap` | `IInv` (what is held at every call), rights of maps, changes under a map | 2 clients, files of 0 to 2 bytes, all flags, both platforms (symmetry) | every failure path cleans up; flags mean what the header says; the share mode protects a map |
| `file_dump` | `DumpSucceeds`, **violated** | 1 client | a dump on POSIX can lose its data and report success |
| `headers` | lanes and extremes, round trips, handles, log calls | vectors: all four types in each implementation, two operations; bytes of 4 values, 3 moves; strings of up to 3 characters of 4 values; 2 log calls under every setting of 7 flags | each build of the header-only parts keeps the same promises |
| `monitor` | `IInv`, `Buffer`, everyone served | 2 threads that put and 2 that take, 3 turns each way, 1 place, 2 spurious wake-ups, both platforms, one or two conditions | no update and no wake-up is lost; no abort or assertion is reached; all that was created is destroyed |

**Why these bounds.** Three buffers are the least in which a restore can pop
one buffer, keep an empty one and stop in a third, and sizes 0, 1, 3 against a
first buffer of 1 or 3 bytes make requests that fit, fit exactly and do not
fit; two buffer addresses of different parity make alignment depend on where
malloc put a buffer. The virtual instance has a reservation that the growth unit
does not divide, an alignment (4) coarser than a page (2), and a base that is a
multiple of the page only. For the dictionary, two digits and a chain of three
colliding strings put nodes above, at and below the depth where keys run out of
digits (the shifts then bring in zeros); four nodes allow a victim with children
on both sides and a grandchild. `MaxHeap`, `MaxSpace`, `MaxLive` and `MaxMarks`
bound the environment and the client, not the code. Seven elements with the
thresholds scaled down (in the code they are 4, 16 and 8) reach every branch:
a pivot that is the last element and one that is the middle of three, parts of every size
on both sides of it, merge sort two levels deep with halves of even and odd length, and
heaps of three levels. Three threads suffice for
chains and cycles of joins and for an object to be used again while its first thread's handle is
closed. Files are shared pairwise, so that two clients show every conflict; sizes 0 to 2
tell an empty, a partly written and a whole file apart. One place and two threads of each kind
let both kinds be asleep on one condition, which is where waking one instead of all loses a
wake-up. Bytes and characters of four values have the bits that matter (a sign and one more) and
let every content of a buffer and every pair of strings be tried; widths scale with them,
and the loops do not depend on how many bits a byte has. A lane permutation does the same to
any elements; for the extremes, a first operation puts the greatest and the least in
other lanes. `SIZE_MAX` is 63, above every sum of an instance (see `Representable`). Symmetry (of buffers, nodes, data
pointers, threads) is used only in runs without liveness.

**Fairness.** In `GrpTemps` and `Sort` only `WF_vars(Running)`: a call that has been
entered is run until it returns, which holds for a single thread of control. Nothing
forces a client to make a call or malloc to succeed. The dictionary needs none:
`CallsAdvance` is an action property, by which every step inside a call leaves a finite
set (`Remaining`) with fewer elements, and the run has no deadlock, so that a call has
always a next step; a callback of enumerate is one step. In `Monitor` the main thread and each thread are
weakly fair: the system schedules what can run. That is enough although locks may be
contended, because each thread has finitely many turns and waits; spurious wake-ups are not
fair, they just may happen. `VirtualAlloc` has no loop, and
`Thread` and `FileMap` wait for the system; they have no liveness property.

Four runs are checked without deadlock: `headers`, whose clients
stop after a bounded number of operations; `monitor`, whose threads end; `thread` and
`thread_join`, where threads that join one another on Windows wait for ever and a program whose
threads have ended stops.

## What is proved

Each theorem holds for every value of the constants that satisfies the named
assumptions: `SizeMaxOK` and `ConstantsOK` (sizes are natural numbers and
alignments are powers of two up to 4096) and, as an explicit hypothesis,
`Representable`: no sum of a request and the sizes at hand exceeds `SIZE_MAX`. The code
does not check the last; near `SIZE_MAX` a sum would wrap and a block would seem
to fit. The hypothesis says where the guarantee ends.

The proofs of both allocators start with facts of the operators: that `AlignOffset` is below the
alignment and leads to a multiple of it, that rounding up reaches the number
and does not pass a unit beyond, that `Wrap` is exact in range.

`GrpTempsProofs`: `Inductive`, then from it `TypeCorrect`, `Backing`,
`Disjointness`, `Assertions`, `Separation`, `Alignment`, `NothingStranded`
(of `UsedIsHeld`: what is counted as used ends where the client's last block ends, so that a
restore gives back every byte handed out since its save and a refused request costs nothing),
`NoOtherLeak` (every step but a compaction of several buffers keeps what is malloc'd and
what can be reached in step), `Counts` (of `Accounting`) and `Refinement` (every behaviour of the chain is
one of `SAlloc`).

None of these invariants is inductive alone: that a block is backed does not say
that the next pop leaves it backed, and that a save is at most the used size
does not survive a restore of another save. `IInv` adds that the buffers tile the
range from 0 to `TotalSize` in the coordinate save reports (`ChainInv`), that
during restore `s + deallocate = TotalSize` (`RestoreInv`), so that the loop
stops before it runs out of buffers, and that blocks and saves are ordered in that range and
end before `Limit` (`ClientInv`): what is popped is then above everything the
client kept. Each action preserves each part, one step of the proof per action. `Counts` follows from
the tiling: the running sum of the sizes is where each buffer begins, for otherwise there
would be a first buffer at which the two differ.

`VirtualAllocProofs`: the same way, `IInv` (blocks in order below `used_sz`,
`used_sz <= protect_sz <= accessible <= Mapped`, which on Windows is the reservation) gives
`TypeCorrect`, `Accessibility`, `Alignment`, `Separation` and `Refinement`.

`MonitorProofs`: `Inductive`, `MutualExclusion` and `Refinement` (of `Buffer`), from
`MonitorConstants` alone, which leaves the threads, their turns, the capacity and the number
of spurious wake-ups open. That nobody else is inside does not survive a step by itself: it needs
that who holds the lock is who believes to, and how often (`LockInv`: a critical section entered
twice must be left twice), that a condition's sleepers are those that wait on it (`WaitInv`), so that
a wake-up moves no other thread, and that objects exist while a thread is in its turn (`LifeInv`). A turn
that writes back what it read then finds the level unchanged (last part of `LockInv`), which is the
step of `Buffer`.

`StrDictProofs`: `Inductive`, `CleanOutside`, `ReadsLive`, `LeavesAreFirst`, `VisitsAll`,
`Bounded`, `Advances` and `Refinement` (of `StrMap`), for any keys, hashes, digits, widths and nodes, from `ConstantsOK`
of `StrDict`, which says only that an integer key is a sequence of `Width` digits below `NB`. The tree invariant
does not stand alone: an insertion keeps it only if the node it hangs in has no children
(`DetachedClean`), and while the caller frees nodes from an enumeration the tree dissolves, so that what
remains of it has to be said differently. `StrongInv` has these parts.
`Shape` says what pointers and places have to do with each other, for nodes that are freed too: where a pointer
leads is one digit further down, no two nodes share a place, every node below the root has a
parent and at every level above it hangs some node (`AboveInv`), and the nodes without a key are those the
callback was given to free (`LiveInv`). `CallInv` and `OpInv` tie the running call to the tree:
`slot` leads to `cur`, at the place the digits of the call's key spell, and a node with that key is no higher.
`EnumInv` describes the recursion: its activations are one below another (`StackInv`), and a node
has been given out exactly when no activation has still to come to it (`SeenInv`).

Rotation is the step that needs an argument. It exchanges the victim with a child, at two adjacent
places, and rewrites the pointers of both. The lemma `Exchange` is about any tree whose nodes
trade places, and pointers with them, pairwise: it is a tree again. What is left is that keys still lead
to their nodes: the child moves up, to a place above its own. That
`findkid` finds a child if there is one (a `CHOOSE` of the nearest) rests on `SmallestNat`, every set of natural
numbers having a least one. For `Bounded`, `HeightInv` adds that the victim, whose key need not lead to where it
has sunk, either has the integer key of that place or there is a string with that integer key at
the last level above the end of the digits (`VictimInv`), from when it passed the victim there.
From the end of the digits down, then, every place on the way to a node accounts for
another string with its integer key, and counting them (`FS_Injection`) bounds the depth.

`Advances` counts what a call has left to do. A search passes a node at each step, and what is below the next
one was below the last. A rotation puts one node above the victim for good. An enumeration moves past an index of
a node, or past a node; `EnumInv` says that nothing it has passed is put on the stack again.

The refinement maps `StrMap`'s map to the nodes inside by their keys, and to the empty one from when a caller
begins to free all nodes; the other variables are the same. `Descend`, `DeleteFound`, `Rotate` and
`EnumKid` stutter; the last step of a call is its one step there. That a search which misses may answer
so follows from the tree invariant: the node would be where the digits lead, or below.

`ThreadProofs`: `Inductive`, `Arguments`, `NoReferenceLeaks` and `TrueAnswers`, for any threads,
objects, arguments and values. `StrongInv` joins `IInv` with the first two results and with `Started`:
what tells a creation that its thread was started, once that thread has ended and its creator may not have
returned yet, is the value it left. `ObjectsOwned` is what makes the late read of the argument
safe: until a thread has started nobody else is given its object.

`FileMapProofs`: `Inductive`, `Stable` and `AsAsked`, for any clients, sizes and flags on both
systems. Its `StrongInv` states, client by client and for each point of a call, which handles
it holds and with which accesses (`Local`); the rule of sharing then makes two handles on Windows both read-only,
so that no step of another client moves the size that was measured.

`SortProofs`: `Always`, `Loops`, `Assertions` and `Sorts`, for any arrays, ranks, ties, answers
of the comparator to them and sizes at which the methods change (`ConstantsOK` wants those of quick and merge sort
to be 3 at least, where the code has 4 and 8). `LoopInv` does not stand alone. That the
elements still to be sorted are those that were given is no part of it, and is false while they are
copied back and forth; that a pending call finds its part of the array as it was left says something of every item of the
stack, not of the running one. `StrongInv` therefore says which method runs and where it has got to:

- `HeapMode`: the one item's heap is in order but for the element on its way (`Rising`, `Sinking`), and
  what was taken off is in order and above it (`Beyond`). The parent's index is the arithmetic of
  `ParentFacts`: `Parent(k) = p` just for `k = 2p + 1` and `2p + 2`. That the root of a heap ranks highest
  (`RootIsMost`) rests on the least element that would rank higher.
- `QuickMode`: the parts on the stack lie behind one another (`QuickStack`), elements of different
  parts are in order (`Parted`), and while the partition runs, the pivot it holds is the element the
  array lacks (`PivotApart`): its last place holds another one twice. `PartsReplaced` says that the
  top part may be exchanged for parts within it, as long as what leaves it is in order with the
  rest; each step of quick and insertion sort is such an exchange.
- `MergeMode`: each item answers for certain elements (`Keeps`), together they hold what was given, and no
  item writes what another one below it keeps (`MergeStack`). A merge that waits knows the calls
  above it: those that sort its halves, its own target being their scratch space (`Waiting`). `StackReplaced` is about any
  replacement of the top item, `MergeReturns` about a call that returns what the merge below waits for.

Insertion sort serves both, with what it has sorted so far (`Sorted`, `Ordered`) as its part of either
mode. From `StrongInv` follow the asserted sizes, every part of `LoopInv`, and, when
the stack is empty (`ReturnInv`), the sorted permutation: given elements differ, there are as
many places as elements, so that equal sets mean each element once.

`HeaderProofs`, about `MCHeaders` (one client of one header, in one build): `LogsDeliver`,
`HandlesMatchStrings`, `ConversionsRoundTrip` and `LanesGoRight`, for the constants that `HeadersConstants` allows.

- Logging (`LogInv`): what has reached the callback tells of calls that were made, in their order and with the tags
  of this build (`LogTags`), and a call is among them if and only if its type is enabled. That what the defaults enable
  (`Enabled`) is what `LogsDelivered` says of the flags (`Exists`) is `EnabledExists`.
- Handles (`HashInv`): a handle made of a string has its length, terminator included, and the hash of a
  trace of the loop over it (`IsHash`). Two such traces of strings with the same characters agree, for else there
  would be a first character after which they do not. Nothing is assumed of the hash: `Xor` is not expanded.
- Conversions (`ConvInv`): after each move, number and buffer agree in so many bytes (`Done`, `Agrees`). That joining
  undoes splitting, and the other way round, goes digit by digit (`SplitJoined`, `JoinedSplit`), so that the low byte of
  a load is the first one or, of a big-endian number, the last (`LowByteFirst`); the sign is
  taken off by the shift or by the complement with the same result (`SignedLoads`), the most negative number included.
- Vectors: for each implementation of each type a lemma says which lanes its instruction yields (`Instr4f` and its
  kin), and interleaving, deinterleaving, rotation and reversal follow for all implementations at once. The 8x8
  transposition is three equal passes, each of which rotates the six bits of row and lane by one
  (`PassLanes`); three rotations exchange row and lane. An extreme is an element that beats both halves (`Best`),
  round after round.

**Only model-checked.** Termination (`CallsReturn` of `GrpTemps` and `Sort`) and that everyone is served
(`EveryoneServed`): they need fairness, which is out of the prover's reach. For the dictionary
`Advances` says the same without fairness, but for the fact that a running call always has a
step, which TLC checks as the absence of deadlock.

## Findings

- **Leak when a chain is compacted** (`cop_alloc.c:258`, run `grp_leak`). The
  replacement of the head gets `prev = NULL`. Buffers of size zero can lie
  below it: they arise when a first request does not fit an unused first buffer.
  They are never freed, against "Free all memory associated with a group
  allocator" (`cop_alloc.h:111`). `LeakOnlyByCompaction` holds: nothing else
  leaks.
- **Comment on delete** (`cop_strdict.c:125`, seen in `DeleteMissing`, without a run):
  "Returns non-zero if the key did not exist." The function returns the deleted node,
  and NULL if there was none, as `cop_strdict.h:129` says.
- **Join gives a stale result on Windows** (`cop_thread.h:227`, run `thread_join`). The
  thread object is passed by value; the thread writes its result in the
  caller's object (`cop_thread.h:196`) after the copy was made, unless it ended before the
  call.
- **A dump that failed reports success** (`cop_filemap.c:191`, run `file_dump`). What fwrite
  buffered is written by fclose, whose result is ignored, against "The function
  returns zero on success" (`cop_filemap.h:69-70`).
- **A flag of zero turns warnings and errors off** (`cop_log.h:122-127`, run `headers`). The comment
  at `cop_log.h:68-71` says that they "will exist if" their flag "is not defined or is defined to be
  zero"; the code compares with zero the other way round (`:176`, `:183`, `:238`, `:243`). `LogsDelivered`, which
  holds, states the code's rule.

Other differences between builds or from the documentation:

- A string's length (`cop_strtypes.h:29`) counts the terminator, which `cop_strtypes.h:20-22`
  says is not included. The dictionary is not disturbed: `HandlesAgree`.
- As C99 macros log calls without tags get the file as a tag, as functions none (`Log`).
- `cop_mutex_trylock` by the owner returns 1 on Windows, where `cop_thread.h:93-96` says 0
  for a mutex that is "already held"; `Monitor` has both.

## Not modelled, and why

- Callbacks of enumerate that change the dictionary: the documentation allows
  freeing nodes of a dictionary being torn down, nothing else.
- Clients that break the documentation: inserting a node twice, restoring a save
  that was already undone, calling from two threads.
- Detached threads whose `cop_thread` goes away before they end: on Windows they
  then write to memory that is no longer theirs. The model's clients keep it.
- Thread keys and ids: one system call each; on Windows they are compiled out.
- Clients of mutexes and conditions that break the documentation: waiting outside a loop,
  unlocking what another thread locked, locking twice with `cop_mutex_lock` on POSIX.
- Programs other than libcop that change a mapped file.
- Requests beyond `Representable`; see above.
- NaN in the horizontal extremes of vectors: the elements are ordered numbers.
- What an enumeration's callback returns beyond zero or not zero: that the very value reaches the caller
  (`cop_strdict.c:175-178`) is not stated.
- `v4f_ste0` on NEON (`cop_vec.h:594`), which stores four elements where the others store one: single
  stores are not in `VecLanes`.
- Vector arithmetic, logging format, program entry, compiler attributes, queries of physical and
  lockable memory: no state, or one instruction or system call each.
