# TLA+ models of MiscCode

MiscCode is a collection of small programs: network and D-Bus services in C, data structures and an
instrument sweep in C++, examples in half a dozen other languages, and a Java bridge that carries a
copy of Google Breakpad's minidump processor, which is by far its largest part. The programs share no code
and do not call each other, and none has tests. Each is therefore a system of its own here: a module (or
several) that models it, an `MC...` module with the instances TLC runs, and, where something is proved, a
`...Proofs` module.

What runs concurrently is inside the programs (threads) or between processes of one program (clients
and servers over sockets). That, long sequences of calls on a data structure or a reader with one file
position, what is kept between calls, and arithmetic at its limits are what the models are about.

## Inventory

| Component | State it keeps | Operations | What is hard | Correct when | Here |
|---|---|---|---|---|---|
| `c/socket/broadcast_file_tx` | server: one global descriptor, which loop it is in; client: chunk count, last length, loop index, local file | DISCOVER, FILE_INFO, CHUNK_READ, TRANSFER_DONE, all broadcast over UDP | loss, duplication, reordering, several clients on one descriptor, restart, no retry and no timeout | a copy is the file that was asked for; a transfer leaves the server ready for the next | modelled, proved |
| `c/heap.c` | array, size, capacity | push, pop, with adjust loops and reallocation | order over long sequences of calls, the step at the array's limit | it is a priority queue | modelled, proved |
| `BigInteger`, `c++/BigInteger` | digits, length, sign | + - * < > == | operators that call each other, carries, lengths, signs | results are the numbers they stand for | partly |
| `c/socket/fa-server` | receive buffer, `glb_tid`, `inet_ntoa`'s buffer | discovery and announcement, other messages refused | what an earlier datagram leaves behind, one static buffer behind three pointers, errors that end the loop | every discovery is answered, to its sender, under its tid (the sender is missed: a finding) | modelled, proved |
| `c/backspace-counter` | `counter`, the detector thread, the D-Bus connection | key event, GetBackspaceCount, Introspect | two threads on one int, interrupted and failing reads, overflow | replies are the count of the events read | modelled, proved |
| Breakpad: minidump reader (`minidump.cc`, `dump_context.cc`) | one file position and its failbit, the directory, streams and parts read when first asked for | Read, a getter per stream and part, lookups, FreeMemory | the order of questions, a read past the end, ranges that overlap or wrap | an answer does not depend on earlier questions; nothing comes from elsewhere in the file | modelled but for byte order and printing; proved |
| Breakpad: processor (`minidump_processor.cc`, `exploitability_linux.cc`, `stackwalk_common.cc`) | a `ProcessState` | Process, rate, trace | a state that is used again, the dump's writer left out, threads that fail | every thread has its stack, in order; the requesting one is named right | modelled but for reasons' names and printing; proved |
| Breakpad: stack walkers (`stackwalker*.cc`, `stack_frame_symbolizer.cc`) | frames, lists of modules without and with corrupt symbols, caches | Walk, five `GetCallerFrame`s, FillSourceLineInfo, Reset | fallbacks in order, off-by-one addresses, what is kept about symbols | the calls are recovered; a walk gets on and ends | modelled for the registers that lead the walk |
| Breakpad: symbols (`basic_source_line_resolver.cc`, `cfi_frame_info.cc`) | a table per module | LoadMapFromMemory, LookupAddress, FindWindowsFrameInfo, FindCFIFrameInfo | boundaries of functions and rules, bad lines | an address has the name its symbol file gives | modelled but for tokens and number formats |
| `c++/waveform`, `python/waveform` | sample buffer, vectors of a waveform | read_rms, sweep, resize, get_deviation, file I/O | more samples than the buffer holds, errors in the middle of a sweep | indices stay inside vectors and buffer | not modelled |
| `c/socket/unix_sock`, `c/socket/udp_*`, `c/socket/rboot_server.c` | one connection, or a buffer | accept, poll, recv; one request, one reply | a timeout followed by a blocking call | nobody is shut out for ever | not modelled |
| `c/nand_ex.c` | a flash partition, the file offset | read, erase, write, read back | what a flash page allows | "Write was OK" is only said of what was written | not modelled |
| JNI bridge, SWIG, Bluetooth, D-Bus, serial, evtest, samples, scripts, asm | little or none | | | | not modelled: straight-line I/O, generated or demonstration code |

PROJECT.json lists all of them with their files, and the hazards at their lines.

How the Breakpad parts interact: `RfMinidumpProcess` reads a file (`Minidump`), has it processed
(`MinidumpProcess`, which asks the reader for streams and parts, hands each thread's context and memory to a
walker, and rates the result) and prints the trace. A walker (`StackWalk`) asks the symbolizer for every
address; the symbolizer asks the supplier for a module's symbol file once, and the resolver for names and
rules (`Symbols`). All calls are synchronous; what couples them is the reader's one position, what each keeps
for the next call, and the copy of the modules.

## Modules

| Module | Models | Extends |
|---|---|---|
| `FileCopy`, `BroadcastFileTx`, `BroadcastFileTxProofs` | the broadcast transfer, what it promises, proofs | |
| `PriorityQueue`, `Heap`, `HeapProofs` | heap.c, what it promises, proofs | |
| `BigInteger` | the operators | |
| `FaServer`, `FaServerProofs`, `BackspaceCounter`, `BackspaceCounterProofs` | the two services, proofs | |
| `RangeMap` | maps of address ranges | |
| `Minidump`, `MinidumpProofs` | the reader and the file, proofs | `RangeMap` |
| `MinidumpProcess`, `MinidumpProcessProofs` | processing, rating, trace, proofs | `Minidump`, `MinidumpProofs` |
| `Symbols` | symbol files and lookups | `RangeMap` |
| `StackWalk`, `StackWalkProofs` | walkers, symbolizer, supplier, resolver's tables, proofs | `Symbols` |
| `Induction` | no code: lemmas on numbers, steps and folds that the proofs share | |

## Plan

1. `BroadcastFileTx` with the abstract `FileCopy`, its type correctness and the exactness of copies
   proved; `Heap` with the abstract `PriorityQueue`, its order proved. **Done.**
2. `BigInteger`, `FaServer`, `BackspaceCounter`. **Done.**
3. Breakpad: `Minidump` and `MinidumpProcess` over it; `Symbols` and `StackWalk` over it. **Done.**
4. Proofs. Of the two services; of the reader, whose answers are the file's own whatever was asked for
   before; of the processor over it. **Done.**
5. Proofs: both refinements (`ImplementsFileCopy`, `ImplementsQueue`); `ReadOrder`; `TypeOK`, `WalkGetsOn` and
   `SymbolsKnown` of `StackWalk`. **Done.**
6. Left: that lookups give the name `Symbol` gives, for symbol files whose functions do not overlap, which
   `NamesAreRight` and `ScansFindCode` would follow from; the small programs, the sweep first.

## broadcast_file_tx

**`BroadcastFileTx`** models server.c, client.c and the network between them. The server's state is its
place (`srvPc`: in `process_pkt`'s loop or in `process_chunkrd`'s), the global `fd` with its read position,
and how many descriptors it has opened; a client's is its place in `main`/`fetch_file` (`cpc`) and the
locals `nr_chunks` (`nr`), `last_chunk_sz` (`last`), `i` (`idx`), the blocks it has handed to `write()` (`out`)
and those of them that `write()` failed to write, in whole or in part (`failed`). Each
socket has a queue. A server action receives a packet, works and replies: the server is one thread
and shares nothing but its sockets. Actions carry the names of the functions; `ReadAndReply` is the body of
`process_chunkrd`'s loop, which the function enters on a CHUNK_READ and continues on any packet, and which
`LeaveLoop` ends at the end of the file or by a failing `read()`. A client
has one action per send and per recvfrom. `Deliver` makes none, one or more copies of a datagram arrive at
each socket, `Heads` lets a socket deliver out of order. A block of a file is its position, and `gen` tells
which `open()` it was read through.

Two details of the code decide much of the behaviour. A block's label is the `chunk_id` of the packet that
asked, while the block is the next one of the descriptor: they agree only in lock-step. And the length in
the FILE_INFO reply is not set when the size is a multiple of the payload: the model takes any value of
`Garbage` for it.

`Faults` says what may go wrong besides losses: a client is given up (`abort`), the server starts again
(`restart`), or a call fails: the server's `recvfrom` in a transfer, its `fstat` (no reply, but the descriptor is
replaced) or `read`, the client's `write`. A failed `write()` is only printed and a short one not even that: the
client goes on and announces the end as usual, and its copy lacks the block, with the blocks behind it moved
forward. `open()` fails when the file is missing or the descriptors run out. Left out: the client opens its copy
without O_TRUNC, so that over an older, longer file of the same name the old tail stays behind what is
modelled here.

**`FileCopy`** is what a transfer promises: the blocks of the file asked for have their turns one after another; a block
may miss the copy when its turn comes; after the last turn the copy is complete, or damaged if one is
missing; and it may be abandoned before. The refinement mapping sends the client's place to a status, `out` to the
copy and `failed` to what is missing.

| Run | What it asks | Bounds, and why they are enough |
|---|---|---|
| `tx_exclusive` | `TypeOK`, `ExactCopy`, `ImplementsFileCopy` with clients one after another, loss, reordering, aborts, restarts, failing `fstat`, `read` and `write` | three clients, two of them after one file, so that a descriptor left in the middle of it matters; two and three blocks, a short and a full last block; 2 descriptors, so that the limit is reached |
| `tx_shared` | `ReadOrder` with two clients at once, up to two copies of every datagram or none, clients given up, `recvfrom` failing in a transfer | two clients are what it takes to share the descriptor, two blocks to be out of order; `FewInFlight` stops at three datagrams in one queue, which leaves room for a duplicate behind each reply; the proof below has no bound |
| `tx_live` | `AllServed`, `AllEnd`, `ServerAvailable`, `ExitOnlyWhenOver` without loss and faults | a long, a short, an empty and a missing file and one of two full blocks, in every order; an unset length that is, or is not, a full block's |
| `tx_intruder` | violated: the comment at server.c:136, "no other packets will be entertained" | another client's DISCOVER consumes a block |

*Fairness.* `FairSpec` has weak fairness of the server's steps and of each client's: the operating system
runs processes that can run, and a program that can be started is. No fairness of the network is
needed, since in `tx_live` a sent datagram is in the queue. `tx_live` has no duplicates and no loss because with
either a client waits for ever in `recvfrom`, as the code has neither timeout nor retry; nor any fault, as after most of
them one waits too.

*Files of exactly n full blocks.* The length the client is told is unset. If it is anything but a full block's, no
TRANSFER_DONE is sent: the server stays in `process_chunkrd`, and the next client's DISCOVER only makes it find the
end of the file. That client, and with it those who wait for their turn, are not served. `tx_live` has such a file, and
`AllServed`, `AllEnd` and `ServerAvailable` name the exception, `Unannounced`: no client is left waiting and no server is lost
in any other way. If the unset length happens to be a full block's, the client announces the end after every block, and the server leaves
its loop with the rest unread. This contradicts the comment at server.c:137, "this routine only exits once the
entire file transfer is over": `ExitOnlyWhenOver` is that sentence with this case as its only exception, and is violated
without it. The copy is complete all the same, which `tx_exclusive` shows: the client goes on asking, and `process_pkt`
enters the loop again at the descriptor's position.

*Deadlock* is not checked: all programs may have ended, or a client may wait for a lost datagram.

*Proved* (`BroadcastFileTxProofs`): `TypeCorrect`, `Spec => []TypeOK`, for all sets of clients and files, sizes,
payloads, numbers of copies and faults. `CopiesAreExact`, `Spec => []ExactCopy`, under `OneAtATime`: clients
run one at a time on a drained network, no datagram is duplicated, and `recvfrom` does not fail inside a
transfer (each of the three lets a block be read that its client does not expect, and `ExactCopy` is false
then). Loss, reordering, aborts, server restarts and failing `fstat`, `read` and `write` calls are all included: what a
finished copy lacks is exactly what a `write()` failed to write. `ExactCopy` is not inductive: it says
nothing of queues and descriptor. The invariant `IInv` adds, for each place of the one running client,
what the queues may hold and where the descriptor is (`LockStep`): before a request the descriptor is at
block `idx` and no request is on its way; after it the request is, or the reply with block `idx`, or one of
them is lost; a lost descriptor (restart, failed open) or a failing `read()` only means that no reply comes. That a finished
client has had every block is `NrChunksIsFileBlocks`: the code's division and remainder give the number of blocks that
hold the file.

`TransferImplementsCopy`, `Spec => ImplementsFileCopy`, also under `OneAtATime` and from the same invariant: reading
a block in lock step is the turn of the next block of the copy, missing if its `write()` fails, the last one makes the copy
complete or damaged, a client that is given up is abandoned, and every other step, all of the server's included, is a stutter of `FileCopy`.

`WritesFollowReads`, `Spec => []ReadOrder`, for any number of clients at work together, datagrams lost and duplicated,
and all faults, under `~Reordering` only: a network that reorders lets a late block be
written after a later one. `ReadOrder` says nothing of what is on its way; `OrderInv` adds, for each client,
that the blocks queued for it are in the order they were read, duplicates next to each other in effect; that
each of them was read after all the client has written, or is a duplicate under a label it no longer expects;
and that all of them are behind the descriptor, which only moves on, or were read from an earlier opening.

## heap.c

**`Heap`** has push and pop up to their calls of `adjust_up` and `adjust_down`, and each iteration of these
loops as an action, so that the order within a call is checked step by step. `malloc`ed cells hold `Junk`,
those `increase_heap` adds are zero. **`PriorityQueue`** is the bag it implements.

The run `heap` checks `TypeOK`, `HeapOrder` and `ImplementsQueue` of a min-heap with capacity 1 and up to 6
elements of 4 values: reallocations at 1, 2 and 4, three levels, equal values. A max-heap differs in
`heap_cond` only, and the proofs hold for both.

*Proved* (`HeapProofs`), for all integers, capacities, numbers of elements and both orders:
`IndicesInBounds` (`Spec => []TypeOK`) and `HeapOrdered` (`Spec => []HeapOrder`). `HeapOrder` speaks of the heap
between calls; `OrderInv` says what holds inside them: only `curr_idx` (going up) or its children (going
down) may be out of order, and the elements below it are right with its parent, so that the next swap
moves the one wrong place on. `InitCapacity > 0` is assumed: doubling 0 never makes room; `main` passes 32.
`HeapImplementsQueue` (`Spec => ImplementsQueue`): a push adds its value to the bag, a pop takes a first one from
it, and what the loops and reallocations do between changes nothing of it. Three facts carry it: a swap of two
cells keeps the number of cells that hold a value (`SwapCount`); the cells below `size` hold only pushed
values, never `Junk` (`Stored`); and the root comes before every other element (`RootFirst`), which follows
from `HeapOrder` along the parents, up from the least index that would be an exception.

## BigInteger

**`BigInteger`** evaluates one `x op y`, call by call: `call` is the running operator, `stack` what its callers do
with the result (copy it, shrink it, negate it, go on summing). `operator+` and `operator-` rewrite signs and
order into each other, `operator*` sums one shifted product per digit. Digits, lengths, `shrink`, carries and
borrows are as in the code.

`big_integer` takes all pairs of 31 operands (zero, runs of nines and zeros, equal leading digits, every
sign) with 6-digit arrays, so that some results fill more than half of the array and none overflows it, and shows
what the operators do, the exceptions included:

- `SumExact`: what + and - return is the right number; it is shown right unless it is shrunk twice and is
  either a difference of two equal negatives or longer than half of the array.
- `ProductExact`: the digits of a product are right, its sign unless both operands are negative.
- `EndsUnlessSameLead`: exactly those evaluations never return that subtract two different magnitudes of one
  length and one leading digit (15 - 12), because `operator<` is true of them both ways. `StackLimit`, 5 nested
  calls, stands for the end of the real stack; evaluations that return nest less.

The module is only model-checked: its arithmetic is recursive. The string constructor and `fact` are left
out, and operands have no leading zeros. Undefined reads and writes beyond the array are outside the bounds.

## fa-server

**`FaServer`**: `recvfrom` puts a datagram, which may end after any field of the header, over a cleared
buffer; `process_pkt` announces the server upon a DISCOVERY (through the global `glb_tid`), ignores other magics and the
unimplemented commands, and returns -1 on anything else, upon which `main` calls it again. `ntoa` is the static buffer
in which `inet_ntoa` returns its text: `hostaddrp`, the `target` of `make_announcement` and its `ip` all point to it. `recvfrom`
leaves the sender's address there, and `get_local_ip`, called first thing in `make_announcement`, the address of the server's
own interface (`Self`), before `inet_addr(target)` reads it. So every announcement goes to the server's own address:

| Run | What it asks | Bounds, and why they are enough |
|---|---|---|
| `fa_server` | `TypeOK`, `AnnouncementsInOrder`, `AllRead` | two hosts send any two datagrams, cut short at any field (what it takes for one to leave something behind for the next); `recvfrom`, `get_local_ip`, `popen` and `sendto` may fail |
| `fa_target` | violated: `TargetIsTheAsker`, an announcement goes to the host it answers, as the call at server.c:207 and the texts at server.c:167 and 204 have it | the first discovery request of a host |

`AnnouncementsInOrder`: each discovery leads to one announcement, in order, under its own tid, wherever that goes.
`AllRead`: everything sent is read unless a failing call ends the server, under weak fairness of its one
thread; a failing `recvfrom` is in `Next`, not in the fairness. Hosts may stop sending, so deadlock is not checked. Left out: the
announcement's text, and with it what `fw_ver[strlen(fw_ver)-1]` writes to when `/tmp/version` is empty (server.c:152).

*Proved* (`FaServerProofs`): `Typing` and `EveryDiscoveryAnnounced` (`Spec => []AnnouncementsInOrder`), for any hosts,
tids and number of datagrams, with calls that may fail. The invariant `IInv` adds the shape of what is
on its way and in the buffer, and `InHand`: between `recvfrom` and the switch, the buffer is that of the
datagram received last, and that is the only one without its announcement. `Announcements` is a fold over what was received, so
the proof needs its value to change by one step when a datagram is appended (`AnnouncementsAppend`).

## backspace-counter

**`BackspaceCounter`** has the detector thread (`backspace_detector`, `count`), the main thread
(`bkd_start_daemon`, `register`, `tutorial_messages`), and a device and callers around them. The counter is an int
from `-IntHalf` to `IntHalf - 1` that wraps. The compiler must store it before the next `read()`, so the unlocked increment
and the unlocked read are each one step. `bkd_service` (-4 to 3, 4 events: the overflow happens) shows `RepliesCount`, a
reply is the number of counted events read so far, or one less; `RepliesGrow`; and `CallsAnswered`: every call
is answered under weak fairness of both threads, also when the detector has ended, unless a call without an interface
comes. D-Bus allows such calls (`NoInterface`): `strcmp` gets a null pointer and the process ends, with both
threads; the property says which calls may stay without an answer then. Repetitions of a
key that is held count as well, although the program's README speaks of the number of times it was pressed.

*Proved* (`BackspaceCounterProofs`), for every width of int, every number of events and calls and every
choice of faults: `Typing`, `EveryReplyCounts` (`Spec => []RepliesCount`) and `RepliesNeverShrink`
(`Spec => []RepliesGrow`). `RepliesCount` needs what lies between an event's `read()` and the reply:
`DeviceIsTheRest` (what the device has left is what was not read) and `CounterCounts` (the counter is
the number of counted events among those read, or one less while the detector is about to count, modulo the width);
`RepliesGrow` needs `RepliesBelow`, that no reply exceeds the counter until it overflows.

## Breakpad: reading a file

**`RangeMap`** has the maps of address ranges both halves use: a range is stored unless it is empty, wraps
or overlaps another.

**`Minidump`** is `Minidump`, its stream classes and `DumpContext`. A file is a sequence of cells, each one
record, word or block that the code reads in one piece; offsets and sizes count cells, and the file may end
anywhere (`len`). `rd` is what all reading shares: the position, the stream's failbit, and the streams kept so
far (`stream_map_`'s objects); `directory` is its entries; `lazy` keeps what is read when asked for (contexts, stacks,
regions, the service pack's name). The operators `...Read` are the `Read` methods, from the position they find to
what they leave, with each check and each early return; they are composed as the code calls them, so that
`ContextRead` of a context without a CPU type reads the system info on the way. Actions: `Read` (which may be called again
and drops all streams), `Get_Stream` and `Get_Part` for each type and part in any order, `Get_Records`
(names, CodeView and misc records), `FreeMemory`.

**`MinidumpProcess`** adds `MinidumpProcessor::Process`: `Process` (the header, the system, the exception, the
modules' copy), one step per thread (`Process_Dumper`, `Process_Other`), `Process_End` (the rating by
`exploitability_linux.cc`), and `RfMinidumpProcess`, which makes the trace. A stack is here what was walked:
the thread, whose context, which memory, and whether the walk was interrupted.

| Run | What it asks | Bounds, and why they are enough |
|---|---|---|
| `minidump` | all below | thirteen files, each cut off at any cell; two calls of Read() and two of Process() with anything asked in between. Each file has what makes one reader move: contexts of every reading, modules apart, overlapping and inside one another, every list, a dump's writer in front, a crash with all that a rating looks at. Lists are up to three items long; addresses are 0 to 15 and wrap around |
| `minidump_bad_thread` | violated: minidump_processor.cc:265, "don't abort processing the rest of the dump just for one bad thread" | two threads, the first one's context lies behind the end of the file |

- `SameAnswers`: until a read fails, a stream or a part is what it would be if it were the first thing asked
  for. This is what the position, moved by every reader and in the middle of one, could break. The module
  list is left out: a module whose CodeView record is refused has no misc record until that is asked for by
  itself, and asking changes the list that is kept. What is kept of it is the subject of `OwnData`.
- `OwnData`: what is kept was read from where the file says it is, also after a failure.
- `FailureIsFinal`: nothing clears the failbit, so that a read past the end is the last one to give anything, Read() called again included.
  That is why one bad thread ends the stacks of all behind it (`minidump_bad_thread`).
- `ModulesHaveTheirAddresses`: a module found for an address has it, though a range that overlaps is moved and
  sums wrap; in a list in the order of its addresses, without ashmem mappings, which are skipped where they
  overlap, every address of a module is found. `AccessInside`: what `GetMemoryAtAddress` lets through is in the region.
- `StacksFollowTheList`, `RequestingThreadIsTheWantedOne`, `CrashedThreadHasExceptionContext`,
  `TraceHasEveryStack`: threads, stacks, regions and the requesting thread's place stay together when the
  dump's writer is left out and when a `ProcessState` is used again. Clear() leaves the old regions in front, so the
  trace has the right memory after one call only, and the properties say so: they describe these stale regions and do
not count as a check against them.
- `CopyKeepsModules`: the copy the stacks refer to is made from the ranges before they were moved.

*Proved* of the reader (`MinidumpProofs`), for any file of any length, cut off anywhere, any limits and any size of the
address space: all its properties, of `Spec`. `SameAnswers` compares with a first question only, and is not inductive.
The proof gives every stream but the module list, and every part, a value that is computed from the
file alone: `...Val`, without position, failbit or anything kept (`StreamVal(t)`, `PartVal(p, v)`, `ContextVal`,
`MemoryVal`, ...). Each `...Read` has a lemma: it leaves the position, the failbit and the kept streams in one of the
ways `Moved` or `Grown` allow, and when the stream has not failed it gives the `...Val`. A context without a
CPU type reads the system info in the middle of itself, so its lemma needs what is kept to be right already
(`Serves`), which is why the two parts are one invariant. `IInv` says of what is kept (`Holds`): a plain
stream is its `StreamVal`, a part that of its descriptor in a stream that is kept, and the module list
is made of the file's own modules, each with its name, placed one after the other (`ModulesRead`, `Placing`);
and of the directory that it is the one the file's header gives. From it follow `SameAnswers`, `OwnData` and `TypeOK`
by computing the definitions at the beginning. `ModulesHaveTheirAddresses` follows from `Placing` alone, by
induction over the list: every range is inside its module (`Inside`), and in order nothing between the
first and the last address of a module is lost (`Covered`).

*Proved* of the processor (`MinidumpProcessProofs`), for any number of threads and calls: `Process`, the threads'
steps and the rating ask the reader in their own order, but each is one of the reader's ways on (`Onward`: what
was kept stays and more is added, and nothing once it failed), so the reader's properties hold of `ProcessSpec`
too. `PInv` adds what the loop has done when it is at thread k: `Follows` (the stacks are those of the threads in
front of k without the dump's writer, `RankOf` is a thread's place among them), `RegionsFit` (as many regions from the
end), `RequestedIs`, `CrashOK` (the crashed thread's stack was walked from the exception's context if it has
one, and the rating looked at the same), `TraceOK`, and `UsedOK` for states that are used again after a
failed Read(). `CopyOK` says which modules were copied: those of the file's list, stored one after the other at their
own ranges (`CopyOf`), unless the file has no list (`Listless`) or none had been read when reading failed. For this
the reader's lemmas also give the value of a module list that is read before any failure (`ListVal`, made of
`ModuleVal`). `CopyKeepsModules` then compares two ways of storing the same modules, with the ranges as they are
and with the ranges moved, by induction over the list (`Beside`): without ashmem mappings every address of a
module that is copied is taken in the reader's map too, so that a module the reader keeps unmoved finds its range free in the copy.

Left out: byte order (every field that is read is swapped where the file asks for it), the "Data loss detected"
checks that the 64-bit flags of a PPC64 or ARM64 context fit 32 bits (minidump.cc:623-629, 708-714), the names of
crash reasons, the Windows engine and the check of the crashing instruction with objdump, which is
disabled, and printing.

## Breakpad: walking a stack

**`Symbols`** is a module's symbol file and what is found in it: FILE, FUNC, line, PUBLIC, STACK WIN and
STACK CFI records as the parser takes or refuses them, with its count of errors, and the lookups of
names, frame data and rules. A line is a record of its fields; junk in a number is a value below 0.

**`StackWalk`** is `Stackwalker::Walk` with the walkers for x86, amd64, arm, arm64 and a list of addresses,
`StackFrameSymbolizer`, `SimpleSymbolSupplier` and the resolver's tables. `Frame` is one iteration of Walk's
loop: the frame is filled in from its symbols, a module without or with corrupt symbols is noted, the frame
is pushed, and the caller is looked for by the walker's ways in their order (frame data on Windows,
rules, frame pointer, scan), with the checks that end a stack. `Again` walks the next stack with the same symbolizer, `Reset` and
`UnloadModule` change what it keeps. A word is two addresses long, so that addresses within words
occur, and a word holds two halves of `Half` values each (four on 64-bit CPUs). Registers are the
instruction, stack, frame and link register; the rules treat all others as they treat these.

`stack_walk` walks 4688 scenes: stacks of three calls as compilers lay them out for each CPU and each way of
finding the caller, with any of three values (none, one in the module, one in the stack) in the locals; stacks of three
words of anything with rules that give the frame back itself, tear words apart or do not evaluate; threads without
memory or at the end of the addresses; lists of two addresses in six modules, two of them of one name, with
and without supplier and resolver, and an answer that is interrupted.

- `ChainRecovered`: the calls are found, in order and under their names, whatever the locals hold. It needs
  the address before the return address for names and rules, the callee's parameters off the right frame,
  the rules up to and with an address, and each fallback in its turn.
- `WalkGetsOn`: stack pointers never go back, on x86 they go on; where they may stay the limits end the walk.
- `ScansFindCode`, `NamesAreRight`: a scan takes only what has a name once there are symbols, and a name is the
  one the file gives, by a definition that knows nothing of the tables (`Symbol`).
- `SymbolsKnown`: what is kept about a module is what the supplier has for it, also after an interrupted
  answer and after unloading. Modules are known by their code file alone: of two with one name the
  second gets the first's symbols, so the property is about names that one module has.

On arm64 (stackwalker_arm64.cc:216) a frame found by rules or by scanning has no known link register, yet the caller by frame
pointer is left by it: such a walk ends early, as in the code; no property says that all frames are found there.

`SearchWords` 6 (40 in the code), `MaxGap` 40 (128 KB), `MaxErrors` 3 (100) and limits of 3 or 8 frames (1024) are all
reached. Left out: tokens and number formats, `LoadModule` from a file and from a string, which the
processor does not use, logging, and the walkers for ppc, sparc and mips, whose source is not in the
repository.

*Deadlock* is not checked in the Breakpad runs: files and walks end. There is no fairness: everything
is one thread that calls, and that a walk ends is a bound on its frames.

*Proved* (`StackWalkProofs`), for all address spaces, dumps, symbol files, limits and numbers of walks:

- `Typing`: every step of every walker gives frames of words of the CPU. It needs that rules, programs and
  frame data compute words or nothing, whatever they are and whatever they read, through the folds over
  registers, program lines and scanned words; and that the tables made of a symbol file hand out only lines
  and rules of that file.
- `WalkGoesOn`: frames and scans stay within the limits, and each frame goes on with the stack (`Follows`). The
  invariant says this of the caller that was found and not yet pushed too (`NextThere`), and that `scanned` is the number of
  frames found by scanning.
- `SymbolsAreKnown`: by `SymOK`, what is kept of a module whose file no other has is what the supplier has for it
  (`Kept1`), which FillSourceLineInfo, asked by the walk and by every scanned word, passes on from state
  to state; `ListsOK` says the same of the two lists of modules.

`IInv` is the conjunction of the three with the shape of the scene. `ScenesAssumption` and
`SymbolFilesAssumption` say what the code's types say: registers and memory words have the CPU's width, lists
are lists, numbers of a parsed line are numbers (junk is a negative one), an alignment is not zero.
`HalfAssumption` relates the widths of the CPUs' words.

Only model-checked: `ChainRecovered`, which is about the scenes that lay out three calls; `NamesAreRight` and
`ScansFindCode`, which do not hold for every symbol file and every dump: a file whose functions overlap keeps only some
of them; a word that a scan takes in a module without symbols may get the symbols of another module of the
same name later; and on amd64 a NaCl return address is cut to 32 bits after the scan has looked at it. The
scenes have no overlapping functions, scan in one module and have NaCl addresses of 32 bits.

## Not modelled

- `c++/waveform` and its older Python form: a sweep that breaks off leaves `num_samples` above the vectors'
  lengths, `Waveform(n)` has empty vectors until it is resized to another n, and `read_rms` trusts the
  instrument to hand over at most 512 samples beyond what was wanted. It is next in the plan.
- `c/socket/unix_sock`, `udp_*`, `rboot_server`, `c/nand_ex.c`: one request and one reply, or steps in a row, with no
  state kept between them. In `unix_sock` a client that never sends keeps the others out, as the `recv`
  behind `poll` blocks.
- The JNI bridge copies results into Java objects; the rest is start-up code, device I/O, generated wrappers,
  demonstrations, scripts and boot sectors, as PROJECT.json says one by one.

## What is left out everywhere

Printing and texts; what `setsockopt` and the like return; failures at start-up that end a program
before it does anything, except in `BackspaceCounter`, where a thread already runs. Int overflow of sizes,
chunk counts and heap capacities needs files and heaps of two gigabytes and is not modelled.

## What is proved, and what is only model-checked

A theorem holds for every value of the constants that its module's assumptions allow; TLC evaluates these
assumptions in every run. They say that sizes, limits and address spaces are numbers above 0, that sets of options have
the options the code has, that a file is a sequence of cells, and that registers, words and lines of a symbol file
have the widths and fields they are declared with. `HeapAssumption`'s capacity, `OneAtATime` (`CopiesAreExact`,
`TransferImplementsCopy`) and `~Reordering` (`WritesFollowReads`) are the only ones that leave out something the
code would accept, for the reasons given above.

| Component | Theorems | Only model-checked |
|---|---|---|
| `BroadcastFileTx` | `TypeCorrect`, `CopiesAreExact`, `TransferImplementsCopy`, `WritesFollowReads` | liveness |
| `Heap` | `IndicesInBounds`, `HeapOrdered`, `HeapImplementsQueue` | |
| `FaServer` | `Typing`, `EveryDiscoveryAnnounced` | `AllRead` (liveness) |
| `BackspaceCounter` | `Typing`, `EveryReplyCounts`, `RepliesNeverShrink` | `CallsAnswered` (liveness) |
| `Minidump` | `Invariance`, `Typing`, `AnswersDoNotDependOnOrder`, `DataAreOwn`, `AccessesInside`, `ModulesFoundByAddress`, `FailureStaysFinal` | |
| `MinidumpProcess` | `ProcessInvariance`, the reader's six again under Process(), `StacksInOrder`, `RequestedThreadIsWanted`, `CrashedThreadIsWalkedFromException`, `TraceIsComplete`, `CopyIsComplete` | |
| `StackWalk` over `Symbols` | `Invariance`, `Typing`, `WalkGoesOn`, `SymbolsAreKnown` | `ChainRecovered`, `ScansFindCode`, `NamesAreRight` |
| `BigInteger` | | all |

Liveness is beyond the proof system's backends, as is what the recursive operators of `BigInteger`
compute, for which the induction would be over data.

**`Induction`** has what the proofs need and the library does not give in a usable form. The library's induction theorems
take a predicate as an operator, which the backends do not instantiate; here the predicate is a set:
`Induct` says that a set that has 0 and goes from i to i + 1 has all numbers up to n, and follows from the
well-foundedness of `<` (`LeastNumber`). Folds and recursive functions are turned into steps f[0], ..., f[n] (`FoldSteps`,
`StepsExist`, `StepsAgree`), over which an invariant of a loop is proved by `Induct`. `Remainder` characterises %.

Mutants, in PROJECT.json, are the definitions named `<definition>_<fault>` next to the ones they vary: each is a
plausible bug that makes the property it is paired with false.
