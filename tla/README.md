# TLA+ models of libntech

libntech is the C library under CFEngine: thread-safe containers, plain data
structures, logging, file helpers, and text formats. These modules model them
as state machines and operators translated from `libutils/`: the containers and
their locking, files, locks and exits, logging, and the JSON, CSV, IP address
and string code. TLC checks them on small instances. TLAPS proves, for every
number of threads, items, processes and bytes, what matters most of the three
threaded containers (that they are linearizable, and the invariants behind it),
of maps and sets (that they are partial functions which own their objects), of
lists that share their nodes, of red-black trees (that they are balanced and
hold the right keys), of the ring buffer and the linked queue, and of the file,
lock and exit code.

## The system

| part | state | operations | hard behaviour | what makes it correct |
|---|---|---|---|---|
| mutex.c | a mutex, condition variables | ThreadLock, ThreadUnlock, ThreadWait | spurious wakeups, a timeout that races a signal | the mutex is held exactly in critical sections |
| threaded_queue.c | circular array, head, tail, size, capacity, two conditions | Pop, PopN, PopNIntoArray, Push, PushN, Count, Capacity, IsEmpty, WaitEmpty, Copy, Clear, ClearAndPush, Destroy, SoftDestroy | wraps and expansion, lost wakeups, early returns | linearizable FIFO; no stranded waiter; slots and indices agree |
| threaded_deque.c | the same with left and right | pushes and pops at both ends, the rest as the queue | left = right is both full and empty | linearizable at the end named |
| stack.c, threaded_stack.c | growing array | Push, Pop, Top, Copy, Count | growth | linearizable LIFO |
| list.c, refcount.c | linked nodes shared by copies, users of a RefCount, light and mutable iterators | additions, removals, copies, iterator moves and changes | copy on write after any sequence of copies and changes; iterators across removals | lists behave as independent sequences with cursors; no leak |
| map.c, array_map.c, hash_map.c, set.c | array, then table of chained buckets | Insert, Remove, Get, Clear, Destroy, iteration, SetJoin | conversion at a limit, resizing with hysteresis, ownership of keys and values | a partial function; each object has one owner |
| logging.c, cleanup.c | thread contexts, global levels, a global buffer, a list of functions | Log, level setters, Start/Commit/Discard, register and run | globals without a lock, contexts that copy globals once | messages reach their outputs once, in order |
| file_lib.c | descriptors, fcntl locks | FileLock operations, safe_open, sparse copies, full reads and writes | other processes between two system calls | mutual exclusion of lock holders; bounded retries |
| passopenfile.c | a local socket | Put, Get | a peer that fails between messages | exactly one end owns the descriptor |
| rb-tree.c | nodes with colour, parent and children, two sentinels | Put, Remove, Get, Clear, Copy, iteration | mirrored fix-up cases, rotations around a node that is being replaced | balance, order, exact contents |
| sequence.c, string_sequence.c | growing array of pointers, length prefixed text | append, remove, split, filter, sort, search; serialize, deserialize | who owns an item after a removal or a filter | every item has one owner; what is written is read back |
| ring_buffer.c, queue.c | circular array with iterators, linked nodes | append, clear, head, iteration; enqueue, dequeue | the oldest item moves when the buffer is full | the newest items, in order |
| buffer.c, writer.c, csv_writer.c | memory with a capacity, a mode | append, print, set, trim, filter, switch of mode; write | room for the NUL in both modes | agreement with a sequence of bytes |
| json.c | a tree of elements, iterators, a parser position | append, remove, detach, copy, compare, merge, select, walk, write, parse | conversions, double decoding, writing that sorts | documents agree with what they mean; write and parse are inverse |
| csv_parser.c, ip_address.c | the state of an automaton and its buffers | one character at a time | errors at the last character, stale buffers | agreement with a reference definition |
| string_lib.c, path.c, version_comparison.c | none, or a fixed buffer | copying, replacing, splitting, numbers, names | boundaries | agreement with a reference definition |
| mustache.c, glob_lib.c, regex.c, hash.c, xml_writer.c, json-yaml.c | none | text generation, matching, digests | | not modelled |

Interactions. The threaded containers call mutex.c for every access; their
threads meet only through the mutex, the two conditions and the fields under
them. The list calls refcount.c when it is copied, changed and destroyed. The
map chooses between array_map.c and hash_map.c, and set.c is a map of elements
to themselves. Callers hand over items, keys and values, and the containers
call back `ItemDestroy`, `destroy_key_fn` and so on; the models record which
items those callbacks receive. Everything else calls Log, and the wrappers of
mutex.c end the process when a pthread call fails. Logging holds its messages in
a sequence, a JSON container holds its children in one, and the JSON parser, the
CSV code and FileReadFromFd write to writers. A process that exits calls the
functions registered with cleanup.c under its mutex.

## Modules

| module | models | role |
|---|---|---|
| `Monitor` | mutex.c and the pthread conditions | locking layer, extended by the three threaded containers |
| `ThreadedQueue` | threaded_queue.c | detailed specification |
| `ThreadedDeque` | threaded_deque.c | detailed specification |
| `ThreadedStack` | stack.c, stack_base.c, threaded_stack.c | detailed specification |
| `BlockingDeque` | what threaded_queue.h, threaded_deque.h and threaded_stack.h promise | abstract specification: calls take effect in one step |
| `List` | list.c, refcount.c | detailed specification |
| `IndependentLists` | what list.h promises | abstract specification: sequences with cursors |
| `Map` | map.c, array_map.c, hash_map.c, SetJoin of set.c | detailed specification |
| `KeyValueStore` | what map.h promises | abstract specification: partial functions |
| `RBTree` | rb-tree.c | detailed specification |
| `SafeOpen` | safe_open_create_perms of file_lib.c, called by safe_fopen | detailed specification |
| `FileLock` | the file locks of file_lib.c | detailed specification |
| `FileCopy` | full reads and writes, sparse copies, File_Copy and FileReadFromFd of file_lib.c | detailed specification |
| `Cleanup` | cleanup.c | detailed specification |
| `Logging` | logging.c | detailed specification |
| `Sequence` | sequence.c | operators on the array, and a caller that uses them |
| `RingBuffer`, `Queue` | ring_buffer.c, queue.c | state machines |
| `Fifos` | a process that uses both | composition |
| `Text` | characters and the C library functions on them | operators, external |
| `Strings` | string_lib.c | operators |
| `StringSequence` | string_sequence.c, path.c, version_comparison.c, CfReadLines | operators |
| `Buffer` | buffer.c | operators on the memory, and a caller that uses them |
| `Writer` | writer.c, StrCat and StrCatDelim | state machine |
| `Csv` | csv_writer.c, csv_parser.c | state machine that writes, operators that read |
| `JsonElement` | the tree of json.c | operators |
| `JsonDocuments` | two documents and an iterator | state machine over `JsonElement` |
| `JsonText` | encoding, writing and parsing of json.c | operators |
| `IpAddress` | ip_address.c | operators, and automata that read a text |
| `MonitorProofs` | | lemmas about the locking layer, indices modulo a capacity, and sequences |
| `ThreadedQueueProofs`, `ThreadedDequeProofs`, `ContainersProofs`, `ListProofs`, `MapProofs`, `FileProofs` | | theorems and their proofs; `ContainersProofs` is about `ThreadedStack`, `Fifos` and `RBTree`, `FileProofs` about `SafeOpen`, `FileLock`, `FileCopy` and `Cleanup` |
| `NumberProofs` | | lemmas about sets of naturals, loops and cardinalities, for the other modules of proofs |
| `MC*` | | symmetry sets and constants for TLC |

**Threads.** A call goes through the control states of `Monitor` (`idle`,
`lock`, `body`, `wait`, `woken`, `timedout`, `recheck`, `expired`, `unlock`).
Everything a container does between taking the mutex and releasing it touches
only what the mutex protects, so one critical section is one action, together
with the signal or broadcast it ends with. The exception is `PushN`, whose loop
is a step per item (`PushStep`), because the array can expand in the middle of
it. `ThreadWait` is split where the mutex is released: waiting, being signalled
(or woken spuriously, or timed out), and taking the mutex back are steps of
their own, so other threads run in between. A timeout is `none` (0), `forever`
(THREAD_BLOCK_INDEFINITELY) or `seconds`; there is no clock, and a wait in
seconds may expire at any moment at which the thread is still blocked. POSIX
leaves open whether a wait that expires uses up a signal that comes at the same
time; the constant `TimeoutTakesSignal` says whether it may. It is true in the
run `queue`, whose properties do not depend on it, and false where lost wakeups
are looked for.
`Destroy` requires every thread to be idle, as the headers do.

**Arrays.** `q` and `d` are the C structs: `data` is a function on
`0..capacity-1` whose new cells after `xmalloc` and `xrealloc` are `Garbage`,
popped cells are `NULL`, and `tail` may equal `capacity` until the next
`ExpandIfNecessary`, as in the code. `Visited` is the number of turns of
DestroyRange's loop.

**Lists.** `heap` maps nodes to payload, next and previous; `allocated` says
which nodes malloc has given out. A freed node is blanked, so a dangling access
would show. `NodesOf` walks a list's chain by next, in at most as many turns as
there are nodes. `Detached` is ListDetach, with the RefCount it leaves and the
one it creates. Payloads are pointers: `Value` is what a pointer points to and
`Duplicate` the pointer that the copy function returns, another one with the same
value. A behaviour chooses one `bound` at the start: number of lists, length,
payloads, whether removals are made, whether the lists have a compare function
and a copy function. So a single run covers one long list, two lists that copy
each other and three users of one RefCount (without removals). `Seen` is what a
search by compare function or by pointer tells apart, and `Sights` what a search
of a list can find; ListDetach leaves the copy of a NULL payload uninitialised.

**Maps.** Keys that `equal_fn` identifies are one key; an object stands for the
key and value one insertion hands over. `alive` is the set of objects that were
handed over and not destroyed. `Places` are the slots of an array or the
positions in the buckets of a table. The loops of the code (moving the items of
a resized or converted map, SetJoin, an iteration) are recursive functions of
the number of turns. The constants TINY_LIMIT, INIT_SIZE and
MAX_BUCKETS have small values in the run, and `Hash` gives two keys that always
collide, one that collides in tables of two buckets, and one that is apart.
SetJoin is called with a copy function. Without one (set.c:108-111) both sets
hold the same element, which no destroy function may then free; sets that do not
own their elements are left out.

**Trees.** The node of a key is that key; `Nil` and `Root` are the sentinels
below the leaves and above the topmost node. A turn of the loop of `PutFix_` or
`RemoveFix_` is a step (`PutFix`, `RemoveFix`), and the code for left and right,
which is the same with the sides exchanged, is written once with the side as a
parameter. `parent[Nil]` is kept, as in the code, where a removal uses it and
leaves it pointing anywhere. `call` remembers what the tree held when the
running operation began. `VerifyTree` is the assertion function that the code
runs on copies only.

**Files.** `SafeOpen` opens a path of two components; every system call is a
step, and between two steps other processes may give the names another meaning
(absent, a file, a link of some owner, a link to nothing) or write to a file.
Every system call may fail. `call` holds the local variables. The owner of a
link is compared with what fstatat reported, as in the code, and nothing is
claimed of a name that is replaced after it. `FileLock` has processes
with a FileLock each over record locks as fcntl defines them: owned by the
process, released by closing any descriptor of the file, with EDEADLK for
circular waits and EBADF for an exclusive lock on a descriptor that
SharedFileLockPath opened for reading. The file system and fcntl are external and modelled from how
the code uses them. `FileCopy` is one call of one of four functions: each read,
write, copy_file_range or stdio call is a step that does any part of what it is
asked for, or fails; a source is every short file of zeros and ones with every
set of holes. A source for which fstat reports no blocks although it has data,
and a copy_file_range that returns 0, end the copy with success
(file_lib.c:1693 and 1794-1797); `idle` records that, and `CopiesExact` says
what the new file is then. `Cleanup` has threads that register functions and exit, and
functions that themselves register or exit, which wait for the mutex that is
held while they run.

**Logging.** `levels` are the levels of the process, `lctx` the context each
thread makes from them when it first needs one, `sink` the buffer, what was
written where, and what was refused. As logging.h:187 demands, a thread that
uses the buffer is the only one that logs meanwhile.

**Texts.** A string is the sequence of its characters; a character is one of
the printable ones or a named one (`"NUL"`, `"\n"`, `"xE9"`). Operators keep
the positions and the size arguments of the code. A parser is an operator on a
text and a position that returns its error, the position it stopped at and what
it read; the automata of `IpAddress` and `Csv` are folds of one step per
character over their local variables. Integers are as wide as the constants
`LONG_BITS` and `JSON_INT_BITS` say, so that the limits are met by short texts.
Memory that was allocated and not written is `"junk"`.

**Reference definitions.** What texts and documents should mean is stated apart
from the code: `Meaning` and `MergedMeaning` of JSON documents, `BracketsMatch`,
`AllReplaced`, `Replacement`, and `Denoted`, which splits an address at its
separators and knows nothing of states. Where the code is known to differ
(below), the property of the passing run says exactly where (`Misread`,
`Unambiguous`, `Remembered`, a backslash in a JSON string), so that every other
text is held to the reference. `Misread` and `Remembered` are exact: the texts
they name are read as something else.

## Runs

| run | question | bounds |
|---|---|---|
| `queue` | Do head, tail, size, capacity and slots agree; does DestroyRange meet its end; is everybody who waits for an empty queue released; is every operation linearizable? | 2 threads, all operations, arrays of 1 and 2 slots, at most 3 items |
| `queue_waiting` | Is the mutex held exactly in critical sections, is no wakeup lost, do calls return? (with fairness) | 3 threads, push and pop with the three kinds of timeout, spurious wakeups, at most 2 items |
| `queue_pushn` | Is a consumer blocked only if the queue is empty? **No**, see findings | 3 threads, PushN of 2 |
| `deque` | Do left, right, size, capacity and slots agree; is every operation linearizable at its end; is no wakeup lost? | 3 threads, 2 of them in calls at a time, at most 3 items, pops of 0, 1 and 2; for the waits all 3 at a time, at most 2 items, pops of 1 and 2, WaitEmpty |
| `list` | Are chains, counts and iterators right, are sharers counted, is what a removal found still there after ListDetach, do lists behave independently? | 1 list of 3 nodes, 2 of 2, 3 of 1; iterators on unshared lists, a compare function where there is a copy function |
| `list_shared` | Does a change of one list leave the others alone when iterators are open on shared lists? **No**, see findings | 2 lists of 2 nodes |
| `map` | Is the map a partial function in both representations, is iteration complete, has every object one owner, is equality of keys decided? | 2 maps, 4 keys, 6 objects, arrays of 2 entries, tables of 1 to 4 buckets |
| `rbtree` | Is the tree balanced, ordered and complete after every sequence of operations, does every call return? | 7 keys, two filters |
| `rbtree_copy` | Is a copy equal to its original? **No**, see findings | the same |
| `files` | Does safe_open close what it must, answer as open would, empty only what it checked, and end its retries while others interfere? Do file locks exclude each other? Is a copy that reports success the source, whatever each call did? Is every cleanup function called once? | a path of 2 components, 3 files, 5 meanings of the last name, 3 retries; 3 processes, 2 lock files, 2 descriptors each; files of up to 5 bytes, blocks of 2; 2 threads, 3 cleanup functions |
| `data` | Containers, documents, texts and logs, one per behaviour, against what they should contain or mean | see `Data.cfg` and `MCData`: 5 items in a sequence, a ring of 3, two documents of 6 elements together, texts of 4 or 5 pieces out of 7 to 18, 6 pieces of an address, 5 fields, buffers of 3 bytes, 2 messages and 2 changes of level |
| `ip_addresses` | Does IPAddressNew accept exactly the addresses? **No**, see findings | the texts of `data` |

The properties of `data`: `SequenceExact` (every item that was handed over is
with the sequence, or with the caller, or was destroyed, exactly one of them and
once; sorting and searching), `FifosExact` (ring buffer, iterators and linked
queue keep the newest items in order), `ImplementsBlockingDeque` (the threaded
stack is linearizable), `DocumentsExact` (keys stay unique, comparison, copy and
merge agree with what documents mean, and an iteration returns the children once
in their order until a write changes that order, and then goes on in the order of
the keys), `JsonTextExact` (accepted texts are well-formed and come back from both
writers, strings from their encoding), `StringsExact` (replacing, splitting,
numbers, cuts, serialized sequences, paths, versions), `BuffersExact` (contents,
capacity and NUL through all operations and switches of mode; replacement
sequences; writers; StrCat), `CsvExact` (a file gives back the records written to
it, but for the two last records of `Remembered`), `AddressesExact` (addresses are
read as what they denote but for `Misread`, print and read back, and are ordered),
`LoggingExact` (each message reaches each of its outputs once and in order,
through the buffer too, and threads log by the levels they last saw).

Why the bounds are enough. Three items in arrays that start with one or two
slots make the queue wrap, expand while wrapped, expand while not wrapped, and
reach tail = capacity; two distinct items show a wrong order. Two threads reach
every pair of concurrent operations, and three are needed for lost wakeups (two
consumers and a producer, or a consumer that arrives in between). A list of
three nodes has a middle; three lists have a first, a middle and a last user of
a RefCount. A map with four keys passes the conversion, doubles twice, meets
MAX_BUCKETS and shrinks.
Seven keys give trees of up to four levels, in which every case of both fix-up
loops occurs on both sides and the loops take more than one turn.
Files of five bytes in blocks of two have full and partial blocks, zeros in
every position and a hole at the end. Texts are all those of the given pieces up
to the given length, checked as each piece is added; a JSON text is not continued
behind an error. Five
characters reach every state of the parsers and every pair of adjacent special
characters, and the pieces of an address are chosen so that six of them make
complete addresses of both kinds.

Deadlock is checked in the runs of containers with threads, lists, maps and
trees. In `files`, `data` and `ip_addresses` a behaviour ends when the process
exits, the file is copied or the bound is reached.

**Fairness** (`FairSpec` of `ThreadedQueue`). A thread inside a call keeps
running (weak fairness of its steps): nothing in a critical section blocks. A
mutex that is free again and again is not refused to one thread for ever (strong
fairness of `ThreadLock` and `Reacquire`), which is what the pthread
implementations give in practice and what every lock-based argument needs. A
wait in seconds that stays blocked expires (weak fairness of `Expire`): that is
pthread_cond_timedwait. Callers are not assumed to call anything, and spurious
wakeups are not assumed to happen. In `RBTree` an operation that was called
runs on (weak fairness of its internal steps); nobody has to call one. In the
run `files` a call of safe_open runs on, and other processes may interfere for
ever or not at all; a thread that exits goes on as long as the mutex and the
functions it calls let it (weak fairness of `CleanupSteps`).

**Refinement.** `BlockingDeque` knows only a sequence, and for every thread
whether it is idle, pending or done. A detailed call is pending until its
critical section ends and done until the mutex is released; items that a PushN
has stored so far are not visible until it ends. That the queue, deque and
stack implement it means that results, order, destroyed items and give-ups are
those of calls that happen in one step between invocation and return.
`IndependentLists` and `KeyValueStore` play the same part for lists and maps.

## Findings

* `queue_pushn`: `ThreadedQueuePushN` signals `cond_non_empty` once for all the
  items it stores (threaded_queue.c:366). With two consumers blocked and two
  items pushed, one consumer stays blocked although an item is queued. The
  struct calls the condition "Blocking condition if empty"
  (threaded_queue.c:44). With single pushes no wakeup is lost
  (`ConsumersNotStranded`).
* `list_shared`: a change through a mutable iterator detaches the shared list
  (list.c:750) and goes on with the iterator's node, which belongs to the old
  chain and so to the other list; list.h:99-100 promises a deep copy.
* `rbtree_copy`: for an odd number of nodes RBTreeCopy puts the middle node,
  counts down, and then pairs the nodes around an index that is the middle node
  again (rb-tree.c:181-199). The greatest key of a tree with three, five, ...
  nodes is missing from its copy. rb-tree-test.c:219 asserts equality, with
  20000 nodes.
* `ip_addresses`: a character that does not belong gives the IPv4 automaton a
  state that only the next character turns into a failure (ip_address.c:222,
  247, 260), and behind the loop that state is not asked for (lines 321 and
  364). "1:" and "1x" are accepted as 0.0.0.0 and "1.2.3.4x" as 1.2.3.0, against
  ip_address.h:84.
Seen while modelling, without a run of their own: a PopN, PopLeftN or PopRightN
of zero items with a timeout waits like any other, and when it is woken it has
taken a signal and takes no item, so a consumer behind it stays blocked beside
an item (`ConsumersNotStranded` and `WaitersNotStranded` fail with three threads
and such a pop; the runs that check them have none where three threads wait, and
the theorems assume there is none); a pop whose wait times out returns without
another look at the queue (threaded_queue.c:184-190), and if the wait used up the
signal of a push, which POSIX allows, another consumer stays blocked beside an
item (`ConsumersNotStranded` fails with `TimeoutTakesSignal`, and the theorems
assume that it is false); WaitEmpty and Pop restart
their timeout at each wakeup (threaded_queue.c:420, mutex.c:82-84); a light
iterator opened before an addition to a shared list walks the other list
(list.c:132-139, against list.h:155-156); HasNext and HasPrevious read the
freed node of an invalid mutable iterator (list.c:885-893); NULL payloads reach
the destroy and compare helpers (list.c:184, list.c:362-366, against
list.h:54); without a compare function ListRemove searches by pointer, before
and after it detaches the list, so with a copy function, and the list shared, the
second search fails and with it the assertion at list.c:384, of which list.c:358
and 382 say that it holds (`FoundAgain` fails with a bound that has a copy
function and no compare function; the run and the theorems have none such);
replacing a present key in a full array map converts it to a hash
map (map.c:170), which invalidates open iterators; RBTreeCopy of
an empty tree starts its iteration at the sentinel, stores it past an empty
allocation and hands its NULL key to the filter (rb-tree.c:158-168), so the model
copies only trees that are not empty; `p_uid` of safe_open is a bool
(file_lib.c:739 and 762), so that the owner of a link is compared with 1 and not
with the user id, against file_lib.c:677-679; the owner is the one fstatat
reported, and no inode is compared with what openat opened (file_lib.c:905-932);
a lock by path that is refused forgets its descriptor
without closing it (file_lib.c:2173-2176), so a process that retries runs out of
descriptors (`MAX_FDS` in the model); a cleanup function registered between the
unlock and exit (cleanup.c:53-59) is never called, so "once" is at most once
there.

In the texts: IPv6 numbers behind '::' are placed in reverse when the text ends
in a bracket and dropped when it ends in a port (ip_address.c:896-945), so
bracketed texts are misread unless those numbers read the same backwards or, with
a port, are all zero; some are dropped when they are six or more, and an address
that begins with one colon is accepted; IPV6_hex_parser without a port leaves the
port uninitialised. In CSV texts a separator behind a quoted field leaves the
field in the parser's memory (csv_parser.c:206-211), and an empty field at the end
of the text is read as that field again. A writer that does not end its last line
makes such texts (csv_writer.c:43 and 110): the fields '"' and '' come back as '"'
twice, and a last record of one empty field leaves no line at all; `CsvExact` says
that no other records change. One blank behind a closing quote leaves the field
without its end (csv_parser.c:212-215), and an error at the last character is not
reported (94-97); files of the CSV writer meet neither. JSON string values are
unescaped twice (json.c:2184-2259 and 2405), so one with a backslash changes when
it is written and parsed; a text that ends inside an escape moves the parser
behind its NUL; missing commas in arrays, `-012` and `1e5.5` are accepted; a copy
of a number passes it through int or four decimals (json.c:238-265);
JsonObjectWrite sorts the children of its const argument (json.c:1845, against
json.h:657-658), so an iteration that was under way returns a key twice
(`DocumentsExact` says what it returns). StringNotMatchingSetCapped returns true
also for a token of limit-1 characters, of which nothing is cut
(string_lib.c:1594, against 1587; `CutsExact` says that this is the only case).
StringSubstring takes a negative end for a large one and does not clip the end of
an empty source (string_lib.c:414), ToUpper makes a space a NUL, EscapeCharCopy
sizes its memory with a count that leaves out escaped characters
(string_lib.c:1291-1324, `EscapingFits` says when it suffices). SeqFilter calls
the item destructor without asking whether there is one (sequence.c:433, against
sequence.h:46-47), where the model ends the behaviour. BufferAppendChar counts a
NUL as a character of a string while there is room (buffer.c:310-313, against
buffer.h:229) and drops it when the buffer is full; what `BuffersExact` says of
strings leaves out a buffer in which that happened (`pierced`). Switching a buffer
of bytes without a NUL to string mode leaves it without its end
(buffer.c:796-816); FileReadFromFd cuts each chunk at a zero byte.

## Proofs

Every theorem is about the specification the runs check, for any value of its
constants that the named assumptions of its module allow. Those say what the
code takes for granted: numbers are naturals, capacities and block sizes
positive, NULL and uninitialized memory are not items, the threads are finitely
many. TLC evaluates them in the runs. Bounds that the runs need (`MaxItems`,
`MAX_APPENDS`, `MAX_FDS`, ...) are parameters like the others.

| theorem | property of the runs |
|---|---|
| `QueueTypeCorrect`, `QueueRingShape`, `QueueMutualExclusion`, `QueueStoredSlots`, `QueueDestroyRange`, `QueueEmptyWaiters` | `TypeOK` and `RingShape`, which includes it, `MutualExclusion`, `StoredSlotsHoldItems`, `DestroyRangeExact`, `EmptyWaitersReleased` |
| `QueueConsumersNotStranded` (no pop of zero items, PushN of at most one, no timeout uses up a signal) | `ConsumersNotStranded` |
| `DequeRingShape`, `DequeMutualExclusion` | `RingShape`, `MutualExclusion` of the deque |
| `DequeWaitersNotStranded` (no pop of zero items, no timeout uses up a signal) | `WaitersNotStranded` |
| `QueueImplements`, `DequeImplements`, `StackImplements` | `ImplementsBlockingDeque` |
| `FifosAreExact` | `FifosExact` |
| `TreesBalanced`, `TreeOperationsExact` | `Balanced`, `OperationsExact` |
| `LocksExclude` | `LockExclusion` |
| `DescriptorsAreBalanced`, `EmptiesOnlyReturned` | `DescriptorsBalanced`, `EmptiesOnlyWhatItReturns` |
| `AnswersAreOpens` | `AnswersLikeOpen` |
| `CopiesAreExact` | `CopiesExact` |
| `EveryFunctionOnce` | `CleanupOnce` |
| `TablesInShape`, `ObjectsOwned`, `IterationVisitsAll` | `TableShape`, `Ownership`, `IterationComplete` |
| `MapImplementsStore` | `StoreSpec` |
| `RefsAreExact`, `DetachedWhenShared` (the value for "no list" is not a list) | the part of `SharingIsCounted` about RefCounts (`RefsExact`), and what it means for `RefCountIsShared` |
| `ChainsAreLinked`, `SharingCounted`, `IteratorsInList` (no iterator on a shared list) | `WellLinked` with `TypeOK`, `SharingIsCounted`, `IteratorsStayInList` |
| `CopiesStayApart` (no iterator on a shared list) | `ChangesStayLocal`, which `list_shared` refutes without the hypothesis |
| `RemovalFindsItAgain` (no iterator on a shared list, a compare function where there is a copy function) | `FoundAgain` |
| `ListsImplementIndependent` (the same, and no NULL payload) | `IndependentSpec` |

The hypotheses on the left are those under which the property is true: without
them it is refuted (`queue_pushn`, `list_shared`, and what is said above of pops
of zero items, timeouts and pointers). The one of the lists says of the model
value `Absent` that no record equals it; it quantifies over all values, so TLC
cannot evaluate it as an assumption, but every model value satisfies it.

**Threaded containers.** `MonitorProofs` shows once for all of them that each
step of the locking layer keeps the mutex discipline (`MonitorInv`), what it
does to the waiting threads and to the phase of a call. The array lemmas come
first: `ModCapacity`, `RingIndex` and `RingAdvance` replace the remainder by a
case split, and `ExpandGood` shows that every stored item survives an expansion
at the slot that its new head and capacity give it; pushes, pops, clear and
DestroyRange (`VisitedAll`) have a lemma each. All invariants follow from one
that is inductive, for the queue

    QueueInv == TypeOK /\ MutualExclusion /\ (alive => GoodQueue(q))
                /\ CallsKnown /\ PushCounter /\ EmptyWaitersReleased
                /\ WaitsKnown

`RingShape` alone is not: a pop reads `min(num, size)` items and needs the types
of the request; the PushN loop changes the array in several steps, so the
invariant must say that its counter is zero unless the thread that holds the
mutex is in a push (`PushCounter`), which needs `MutualExclusion`; and
`EmptyWaitersReleased` needs that only the holder of the mutex makes the queue
empty, and broadcasts when it does. `DequeInv` and `StackInv` have the same
form without the counter.

No stranded consumer is a statement about a number of threads. `NotStranded(n)`
(`MonitorProofs`) says that nobody is blocked or `n` is at most the number of
woken consumers; one lemma per kind of step shows what it does to that number (a
push adds an item and wakes one consumer if there is any; a pop by a woken
consumer takes at least one item; a wait happens only when there is none).

The refinements say step by step what happens to the sequence that stands for
the array: a critical section is the step of `BlockingDeque` of that name, with
the same result, or is not visible (lock, wait, wake up, one turn of PushN).
What PushN has stored is hidden until it ends, so the abstract items are the
first `size - pushed` ones, and `PushCounter` is what makes that a sequence.

**Ring buffer and linked queue.** `RingInv` says of each slot which item it
holds, in terms of `end`, `len` and the number of items handed over, so that the
wrap of an append is arithmetic; the exactness of `freed` needs that a stored
item is in one slot only (`OneSlot`), and an iterator that never goes back needs
that what it read last is not newer than the item at its position, which an
append can only move forward. `QueueInv` gives every link of the list.

**Trees.** What a path down the tree meets is not spoken of directly. `RedBlack`
says of a set of keys that they are linked (`Linked`), that there is a function
from nodes to the keys below them which children split at the node's key
(`Searchable`), that no red node is below a red one but at most the one being
repaired (`Coloured`), and that there is a function from nodes to black heights
that fits at every node (`Heights`); `Short` is the same with one black node
missing below one side of one node. All of these speak of a node and its
neighbours only, so a rotation (`Turned`) changes them at two nodes, and both
functions are given for the tree after it. `RBInv` says which of them holds for
which set of keys at each step of PutFix_ and RemoveFix_, and how that set
follows from the one when the operation began. The lemmas on the loops (search,
minimum, iteration, VerifyTree_) then show, by induction over their turns as
below for maps, that a tree so described passes VerifyTree_ and is walked in
order.

**Lists.** `RefsInv` says that every list has a RefCount and that the RefCounts
are exact. Each operation is one case of `RefsFollow`: one list gets a record,
and the counts change by that list only. A list that is made or detached needs a
free RefCount; there are as many as lists, and if none were free two RefCounts
would have the same list among their users (`RefLeft`, by the pigeonhole
principle). These theorems hold for iterators on shared lists too, where
`list_shared` shows the contents of the lists to be wrong: what is wrong there is
the node the iterator goes on with, never the count.

The other theorems rest on

    ListInv == RefsInv /\ Shape /\ IteratorsGood

A walk along next says nothing about a heap in which next leads in a circle.
`Shape` therefore says that there is a sequence of nodes, none of them twice,
that the fields next, previous, first and last link in order (`Linked`), and
`ChainIs` shows once, by induction over the turns, that the walk returns that
sequence. From there on a change of a list is a change of a sequence: `LinkGood`
and `UnlinkGood` show that the assignments of an addition or a removal link the
sequence with that node inserted or without it, whether it is at an end or in
between. `Shape` also has lists with the same RefCount agree in all their
fields, and lists with different ones have no node in common; that is what makes
the nodes of an unshared list its own and a removal safe for everybody else.
ListDetach needs as many free nodes as the list has. There are, because a list
that shares needs no nodes beyond those of its partners, so the nodes in use are
those of fewer lists than may exist, times the longest length (`UnionBound`).
`IteratorsGood` says that a list with an iterator is not shared, that a valid
mutable iterator is at a node of the list, and that a light one is at most as
new as the list (which is why a removal always invalidates it).

`IndependentSpec` then needs only what the steps do to the sequences.
`InsertStep` and `DeleteStep` say where the elements and both cursors are after
an addition or a removal, for every position; each operation is one of them with
the position it computes. It is false with NULL payloads: ListDetach leaves the
copy of one uninitialized, so the new list has another content than the shared
one. Contents are what a search tells apart (`Seen`): a detached list holds other
pointers, which a compare function takes for the same. `PointersStay` says that
lists without a copy function hold the pointers they were given, and
`SightsStay` that ListDetach leaves everything a search can find.

**Maps.** The theorems hold for every hash function into the naturals, every
limit of the array, and all sizes that are powers of two up to 2^30. `MapInv`
says that every map is well formed (`GoodMap`): an array has no key twice; in a
table every key is in the bucket its hash names, once, and `load` is the number
of items. It also says that each live object is in exactly one place of exactly
one map. Neither part stands alone: a removal at a slot is exact only because
the key is in no other slot, `load` decides about resizing only because it
counts places, and an iteration ends after the number of turns that the code
bounds because the places are as many as the objects.

The loops are handled without the induction theorems of the library, whose
operator parameter the provers cannot instantiate. `UpTo` (`NumberProofs`) is induction over the
turns of a loop as a statement about sets: a set of naturals that holds 0, and
with a turn the next one, holds all turns up to a bound. `LoopExists` is the
existence of a recursive function on them. From these, moving the items of one
chain, then of all chains, keeps the items and their keys (`MoveChain`,
`MoveChains`), so a resized or converted map has the same content; joining sets
takes over what the first one lacks; and an iteration keeps `WalkInv`, that what
was visited and what is left make up the items, until nothing is left. For
`MapImplementsStore` each operation has a lemma saying what the stored pairs
became.

**Locks.** `LockInv` moves exclusion to the system, which grants an exclusive
lock only if nobody else has one (`KernelExclusion`), and says that the system
holds for a process what its FileLock stands for (`KernelAgrees`). That is
inductive only with `DescriptorsKnown`: closing any descriptor of a file drops
its locks, so a FileLock must be known to have its file open, and a process that
waits to wait for that file.

**safe_open.** `OpenInv` says which descriptor a call has open at each step
(`FdsHeld`), that what it has open fits the step it is at (`CallFits`), and what
its flags, the file it made and its error have to do with what it was asked for
(`Answers`): before a name is looked at the flags that creation depends on are
the original ones again, however often the open was retried with others. The
action property follows because O_TRUNC is never among the flags of the openat
calls (`CallFits`).

**Copies.** `CopyInv` has one part per function. The block copy and the stdio
copy agree with the source up to the offset reached, with zeros for what is
missing (`AgreesTo`), and the buffer is what follows in the source
(`BufferedFrom`). The copy by ranges differs from the source only in data still
to be copied (`DataFrom`); its seeks need that a nonempty set of offsets has a
least one (`LeastNumber`, from the well-founded order of the naturals). Only that
copy is ever `idle` (`IdleIsSmart`).

**Exits.** `CleanupInv` adds that the list is ordered newest first
(`NewestFirst`), that the holder of the mutex is the thread that calls
(`HolderCalls`), and that what it has called is newer than the rest of the list
(`CalledSoFar`), which is what keeps its calls in order.

**Only model-checked.** Liveness (`CallsReturn`, `OperationsEnd`, `CallsEnd`),
because the prover has no fairness. The texts, documents, buffers, sequences,
CSV, addresses and logging of the run `data`: their operators are recursive or
fold over their argument. The four findings are refutations and need no proof.

## Not modelled

The table of components in `PROJECT.json` gives every part with its reason. In
short: allocation is assumed to succeed (the xmalloc family exits), exits on
failing pthread calls end a behaviour, Windows variants are left out. Of
file_lib.c: safe_chown and safe_chmod, which repeat the walk of safe_open,
DeleteDirectoryTree and PathWalk, whose subject is the directory tree. Of
json.c: variable lookup in the parser and progressive writing; json-utils.c and
json-yaml.c. Of string_lib.c: formatting, regular expressions and the helpers
that call them. mustache.c, man.c, xml_writer.c and hash.c generate text;
glob_lib.c and regex.c translate patterns for PCRE2; passopenfile.c is error
handling around sendmsg and recvmsg; libcompat replaces C library functions
(snprintf among them) that current systems have.

## Plan

What is left, in this order:

1. Proofs: the levels of `Logging`'s contexts, once it no longer depends on the
   recursive operators of `Strings`.
2. Iterators of maps that are interrupted by changes, and of lists that are
   shared.
3. safe_chown and safe_chmod, and directory trees, in the run `files`.
