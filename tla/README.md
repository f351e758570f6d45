# VelumOS in TLA+

The verification project of VelumOS: TLA+ models of its kernel, the TLC
configurations that check them on small instances, and TLAPS proofs of what holds
for every instance. Source paths are relative to the repository.

## 1. The system

A VelumOS node is one process with two threads.

* The **engine thread** (`velum_engine_loop`, src/velum_core.cpp:161-339) polls its
  sockets with `select`, sends a status report on all of them every 500 ms, dials the
  nodes whose UDP beacons it reads, accepts connections, and handles at most one
  message per ready socket and iteration. It runs the tasks it receives itself: while
  the sandbox computes, the engine does nothing else.
* The **user thread** (`main`, src/main.cpp) reads commands and calls
  `velum_spawn_wasm` (one task to the best node) or `velum_spawn_wasm_distributed`
  (one chunk of a range to every worker).

| component | state | operations | talks to |
|---|---|---|---|
| engine loop, socket tables | `peer_sockets`, `inbound_sockets`, `socket_to_id`, `readfds` | select, heartbeat, discover, accept, handle_sock | TCP/UDP peers; scheduler; sandbox |
| spawn API | `api_mutex`, `pending_tasks`, `active_jobs` | spawn_wasm, spawn_wasm_distributed, find_all_workers | reads the socket tables without a lock on them; scheduler |
| scheduler (src/node_logic.cpp) | `cluster_status[0..16]` | status report, find_best_node, mark_node_busy, handle_disconnect | called by both threads |
| legacy tasks | - | TASK_REQUEST checkpoint loop | send_message |
| Wasm sandbox | environment, runtime, module | execute_wasm_in_sandbox with five early returns | Wasm3; called by the engine |
| Wasm3 parser and loader (vendored) | the module, its functions, names and strings | m3_ParseModule, m3_LoadModule, m3_FindFunction, m3_FreeModule | called by the sandbox |
| Wasm3 compiler (vendored) | stack of operands, slots, registers, blocks | one function per opcode | code pages; called by the interpreter on the first call |
| Wasm3 code pages (vendored) | four lists of pages, the page written to | acquire, release, emit, bridge | called by the compiler |
| Wasm3 interpreter (vendored) | linear memory, stack, the C frames | one operation per opcode variant, m3_Call, m3_GetResults | runs on code pages; host functions |
| network set-up | descriptors | socket, bind, listen, connect | OS |

**What is hard.** `api_mutex` covers the ledger and the election but not the socket
tables, which the engine changes while a spawn reads them; descriptor numbers are
reused by the operating system while `socket_to_id` remembers their previous owner;
the same pair of nodes usually has two connections (each dialled the other) and the
end of either counts as a death; sends can raise SIGPIPE; reports land in
`cluster_status` in the middle of an election; the range arithmetic is on C ints.
PROJECT.json lists these hazards line by line with the properties that watch them.

Inside Wasm3, code pages move between four lists and the compiler, and every step of a
compilation can fail. The compiler keeps each operand in one of two registers, in a slot
of its own, in the slot of a local or in one of a constant, and has to move it whenever
the place is needed for something else. The interpreter has its state in C frames, each
with a pointer to a memory that moves when it grows. The parser hands strings from one
owner to another and may fail after any of them.

**What makes each part correct.** The tables name open sockets, each once, and know
who is behind them; a node that can be elected is connected; a task goes to the node it
is for; the engine never blocks in a read; a crash is noticed. The election returns the
first maximum of the scores it saw. The chunks of a range partition it. A task runs at
most once and returns at most once, and does not get stuck. A sandbox run gives back
what it took, and no two pieces of code share a page or run over its end. Each operation
finds its operands where the compiler put them; an access to memory is within it and to
its present place; each operation of integers means what its opcode does; each string of a
module has one owner.

## 2. Modules

| module | models | state (code) | actions (code) |
|---|---|---|---|
| `VelumKernel` | one node: both threads, its descriptors, TCP and the other nodes as environment | `peer_sockets`, `inbound_sockets`, `socket_to_id`, `pending_tasks`, `api_mutex` under their names; `known` is the set of ids with `cluster_status[id].ram_free_kb > 0`; `epc`, `mpc` the two threads; `conn` the connection behind a descriptor | one per phase of `velum_engine_loop` (`Select`, `Heartbeat`, `Discover`, `Accept`, `AcceptFails`, `AcceptNoSlot`, `Turn`), `handle_sock` in pieces that end where another thread can look (`CloseDead`, `Death`; `Receive` with `RecvStatus`, `RecvTask`, `RecvResult`, then `Reply`, `Callback`), the two spawns, one step per read of a table entry (`FindPeer`, `FindInbound`, `FindOwner` of `find_all_workers`; `TestPeer`, `TakePeer`, `TestInbound`, `ReadInbound`, `MatchOwner`, `TakeInbound` of a lookup), then `SendTask`, `PeerDial`, `PeerAccept`, `PeerRefuse`, `PeerSend`, `PeerCrash`, `PeerRestart` |
| `Scheduler` | `cluster_status` and its users, field by field | `cluster_status`, the locals of `find_best_node`, the load and store of `task_queue_len++` | `handle_message`, `handle_disconnect`, one action per step of the scan, `mark_node_busy`, `MarkStore` |
| `ScatterRange` | the arithmetic of `velum_spawn_wasm_distributed` on C ints | arguments, loop index, cursor, chunks | `Scatter`, one iteration |
| `Dispatch` | the promise: what can happen to a task | `status` per task | `Move` |
| `Cluster` | several nodes, whole messages | ends of connections (`sock`, `inbox`), ledgers, what each engine executes | `Dial`, `Accept`, `Refuse`, `Spawn`, `RecvTask`, `Reply`, `RecvResult`, `CloseDead`, `Crash`, `velum_init` |
| `M3CodePages` | the code pages of Wasm3 and the emission of code | `store` (pages, lists, counts), the page written to, the pages to come back to | `BeginCompile`, `Compile_Operator`, `CompileElseBlock`, `Compile_BranchTable`, their ends, `Throw`, `Unwind`, `EndCompile` |
| `WasmSandbox` | `execute_wasm_in_sandbox` on top of `M3CodePages` | `pc`, `heap`, `modules`, `start`, `code` | one per call of the function, each with its failure |
| `M3Load` | `m3_ParseModule`, `m3_LoadModule`, the lookup of functions, `m3_FreeModule` | `strings` with how often each was freed, `module`, `expectedSection`, the section that is read | one per kind of entry (`ImportFunction`, `ExportGlobal`, `CodeEntry`, `NameEntry`, ...), `EntryFails`, `m3_LoadModule`, `m3_FreeModule` |
| `M3Compile` | the compiler's stack, slots, registers and blocks, with one run of the code it emits | `o`, the `M3Compilation` | one per group of opcodes that a `Compile_` function serves |
| `M3Exec` | calls, loops, host functions, traps, the memory and the stack | `memory`, `runtime`, `frames` (in C), `run`, `r` (what is returned) | one per operation of include/m3_exec.h that touches them; `m3_Call` and its returns |
| `M3Numeric` | the numeric operations, with the Wasm specification's meaning as the reference | the register or slot in use, the program's value, the traps of both | one per group of operations, with all its variants |

The modules beginning with `MC` hold model values, symmetry sets and, for `M3Compile`, the
kinds of functions that are compiled.
The modules ending with `Proofs` hold the proofs. A definition named `X_Something` just before `X` is a plausible bug in the
code `X` models; nothing uses it but the mutation runs of `PROJECT.json`.

### How the modules fit together

`VelumKernel` has descriptors and threads but one node, messages without content, and an
election that may return any known node. `Scheduler` refines the election alone.
`Cluster` has several nodes and follows tasks, and takes from `VelumKernel` that a
socket leads to whom it is thought to lead; it implements `Dispatch` under the mapping
`status`. `WasmSandbox` is the inside of the engine's state "execute". Of the steps that
succeed or fail there, `M3Load` is the inside of parsing and loading, `M3Compile` of a
compilation (its code goes to the pages of `M3CodePages`, which `WasmSandbox` extends)
and `M3Exec` of the call; `M3Numeric` is one operation after the other in a frame of it.

### Abstractions

* Messages are read whole. Short reads, and sends that block, are not modelled.
* `HEARTBEAT` messages are ignored by the code and left out; `TASK_PROGRESS` is handled
  like a result; no node of this commit sends a request other than `EXECUTE_WASM`.
* `VelumKernel` names ids by what the arrays have room for: `Dialable` are ids below
  `MAX_PEERS`, `Tracked` are ids up to it. The outbound entries are handled in any order.
* TCP: a send to a peer that has closed is absorbed once and then raises SIGPIPE. A
  connection the peer has not accepted takes messages. Nothing is reordered within one.
* `Crowded` in `Cluster` are nodes whose inbound table may be filled by nodes outside
  the model, so that two nodes are enough to see a refusal.
* The page lists are sets: the code takes the first page that fits, the model any.
* In `Compile_Select` (src/m3_compile.c:2051) and `PreserveArgsAndLocals` (1839) the
  result of `EmitOp` is ignored; the model raises the error there as everywhere else.
* `M3Load` reads entries and no bytes: LEB128 numbers are read or fail. Allocations
  succeed. One function type stands for all.
* `M3Compile` names values by numbers and follows a single path through the emitted code:
  at a conditional branch the run may go either way, and what it does not come by is
  compiled but not executed. An operand after an unconditional branch (polymorphic stack)
  is any value. A callee may change every slot from its frame on. Functions come in kinds, each with the opcodes of one concern, because all
  opcodes at once have too many programs. Blocks take no parameters in the instances
  (section 3 says what they do there); the theorem of `M3Compile` has them.
* `M3Exec` has no opcodes but those that touch frames, memory or stack, in any order. Sizes
  are in slots and one-byte pages; a host function is one that may call back.
* `M3Numeric` follows one value through registers and slots; the other operand of an operation
  is in a slot. It has a 32-bit int as 4 bits and a 64-bit one as 8, floats of 3 and 6 bits of
  significand with magnitudes in quarters, infinity and NaN. Bounds of truncations are
  computed for these widths in the way the code's literals are for theirs (the float next
  below the least integer).
* A new sandbox run starts from an empty store: what the run before has lost stays
  allocated in the process, and nothing refers to it.

## 3. Runs

| run | question | instance |
|---|---|---|
| `kernel_engine` | do the tables survive any order of dialling, accepting, refusing, crashing and descriptor reuse? `TablesSound`, `IdentifiedSockets`, `EligibleIsConnected`, `ReadNeverBlocks` | two peers, of which one can be dialled; two descriptors; one inbound slot |
| `kernel_spawn` | what can go wrong between the lookup of a worker and the send, which the engine does not wait for? `TaskGoesToItsWorker`, `WinnerStaysEligible` | two peers of which one has an id above the tables, two descriptors, one inbound slot; `velum_spawn_wasm` alone |
| `kernel_liveness` | is a crash noticed although the engine has to wait for `api_mutex`? `CrashNoticed` | one peer, `velum_spawn_wasm_distributed` |
| `scheduler` | is the election right while reports land in it? `ElectsBest`, `WinnerStaysKnown` | ids 0 to 3, one sender beyond, three statuses of which two have equal scores, narrow fields so that the queue wraps |
| `scatter` | do the chunks partition the range? `Partition`, `EndsAtEnd` | every request over a five-bit int and one to four workers |
| `cluster` | does the cluster keep `Dispatch`, what loses a message, does a task get stuck? `ImplementsDispatch`, `LossHasACause`, `Settles` | two nodes, two tasks, crashes, restarts and refusals |
| `sandbox` | do pages get mixed up, overrun or lost, and what does a run leave behind? `PagesApart`, `PagesCounted`, `RoomForBridge`, `LossIsAbandon`, `ReturnsClean` | four pages of nine lines, tables of one and six targets, and of twenty, whose page has more bytes than a number of seven bits counts (`U32` here), two nested blocks |
| `load` | does each string have one owner, whatever fails, and does a name find its function? `NothingFreedTwice`, `NothingElseLost`, `BodiesMatch`, `FindsExported` | two functions, one global, four strings, two texts, two names per function |
| `compile` | does each operation of the emitted code find its operands? `ValuesInPlace`, `ReadsRight`, `AssertsHold`, `FrameCoversWrites` | seven kinds of functions, programs of up to five, six or seven opcodes |
| `numeric` | do operations of integers, comparisons, minima and truncations of floats, in all their variants, mean what the opcodes do? `RegisterHoldsValue`, `TrapsAgree` | all values of the 4-bit int, the edges of the 8-bit one, floats around the bounds |
| `exec` | is the memory the present one, the stack large enough, and does a return reach its frame? `MemoryFresh`, `BoundsExact`, `ContentsKept`, `StackFits`, `CallsGoToCode`, `ResultsOfLastCall`, `ContinuesItsLoop` | three functions of which one does not compile and one is the start function, two pages, five C frames, a loop in a loop and one after |

One run ends in a counterexample, to an assertion of the code:

| run | said | found |
|---|---|---|
| `compile_wide` | `d_m3Assert (o->m3Slots [i_slot])` (src/m3_compile.c:421) | `IncrementSlotUsageCount` (401) raises the count of one slot and `DeallocateSlot` lowers those of both: `local.get x; local.get x; local.set x; drop; drop` of an i64 fails the assertion. Without it, an i32 pushed before the second reference is read takes the upper half of its slot, so that `ValuesInPlace` fails too: the function computes a wrong value |

Six more formulas of the modules state what a document or a comment says and are not of
this code. TLC finds a counterexample when they are listed in a configuration:

| formula | said | found |
|---|---|---|
| `VelumKernel!WorkerOutlivesRequester` | "Recovery from sudden node death" (README.md:141) | a worker whose requester has crashed is killed by SIGPIPE in its reply (src/network.cpp:60) |
| `VelumKernel!LedgerFollowsWorkers` | a ledger from which the work of a vanished worker is re-assigned (README.md:24) | `sock` is zeroed before `socket_to_id[sock]` is reset (src/velum_core.cpp:274-275), so a reused descriptor puts a worker in the ledger that no end of file will take out |
| `ScatterRange!MassiveWorkloadSplit` | "Automatically splits massive workloads (e.g., 4 Billion iterations)" (README.md:20) | `end - start` overflows and chunks run backwards |
| `Cluster!LostOnlyByCrash` | the result comes back (README.md:77) | a worker that has not dialled its requester drops it |
| `Cluster!LedgerMovesOn`, three nodes | a vanished worker's task is re-assigned (README.md:24) | its entry is erased and nothing is sent |
| `M3Load!PrefersExported` | "Prefer exported functions" (src/m3_env.c:705) | `export_name` is the last export of a function: by an earlier one, a function that only the name section calls so may be found instead, and an import that is exported again is not found |

Seen while modelling, and stated here rather than by a run: the end of any one
connection prints "died!" and clears the node, although it may be running and have
another connection (src/velum_core.cpp:271-280), while tests/test_fault_tolerance.py
takes the line as the sign of a crash; a result does not clear the ledger
(src/velum_core.cpp:319); a module whose load fails is freed by nobody
(src/velum_core.cpp:107-112; the comment on `m3_FreeModule` in include/wasm3.h says it
has to be freed then), which `ReturnsClean` has as an exception; and an error in a
branch table loses its page (src/m3_compile.c:1599 says so), which `LossIsAbandon` and
`ReturnsClean` have as theirs.

Likewise in Wasm3: `Compile_BranchTable` adds to the number of targets in a `u32` without a
check (src/m3_compile.c:1535-1547; `EnsureCodePageNumLines` adds two more, line 30). For the
last six numbers the sum wraps around, so that little or no room is made; but for the very
last, whose number of targets wraps around to none, the entries (line 1602) are written
past the end of the page as long as the module has bytes to read targets from. `RoomForBridge` fails with such a number in `Targets`; what becomes of the
heap then is not described, so everything about pages is said under `TablesFit`. A memory of 65536 pages, the most that is allowed, has a size of 0
bytes, since the product of two `u32` wraps (src/m3_env.c:373; `BoundsExact` and
`ContentsKept` fail with `MaxPages * PageSize = U32`). `ResizeMemory` takes the limit of the
stack from `runtime->stack`, which a host function that calls back has moved
(src/m3_env.c:404; `StackFits` fails with `GrowsInCallback`; the sandbox binds no host
function). A caller puts the arguments of a call above its own frame, behind the room for the
results, and a host at the stack of the runtime (src/m3_compile.c:1636-1641,
src/m3_env.c:849-857), before `op_Entry` of the callee looks at the limit. There may be
1000 of them together (include/m3_core.h:174), and the block has only four slots beyond the
limit (src/m3_env.c:184, "TODO: more precise stack checks"). So `StackFits` has arguments
and results within the block when they are two values or fewer together; with
`CallSlots = 6` `ArgumentsFit` fails. (That counts the results too, although the compiler
marks slots of the caller's frame for them, so that only the arguments lie beyond it.)
For the same reason `FrameCoversWrites` has the arguments of a call apart from all other
writes: `CompileCallArgsAndReturn` touches no slot for them, and they may lie up to
`MaxCallSlots` slots behind the end of the frame (`InRoom`). The room for the results it
does mark, with `MarkSlotsAllocatedByType` and without a look at how many slots there are
(src/m3_compile.c:1644-1653): in a function that uses half of the 4000 slots, a call with
1000 results makes it write past `m3Slots`. What the compiler does then is not described:
`Overrun` ends the description of the function. `op_Compile` rewrites itself to `op_Call` before it knows that there is code to
call (include/m3_exec.h:780): `CallsGoToCode` holds because a host does not call again what
has failed, and a host function forwards errors. The sandbox reads the arguments of a
task as an array of ints, of which `m3_Call` takes eight bytes for an i64
(src/velum_core.cpp:130-150). A module that imports its memory cannot be loaded. Strings
are lost by a name section that fails, a second import of a memory, and a module whose
load fails; `NothingElseLost` has these as exceptions. The limits of an imported table are
not read (src/m3_parse.c:186), so that they are taken for the next import. An empty name
section returns a result that was never assigned (src/m3_parse.c:502; `NameSectionEnds` has
both outcomes). `Module_AddGlobal` and `Module_PreallocFunctions` (src/m3_module.c:57, 74)
store the result of a reallocation before they test it, with the count already raised:
`m3_FreeModule` would then go through a NULL array (`M3Load` has no failing allocations).
Blocks with parameters are in none of the kinds of functions that `compile` has, since with
them `AssertsHold`, `ValuesInPlace` and `ReadsRight` fail: `CompileBlock` takes the
parameters from the stack and puts them back with `MarkSlotsAllocatedByType`
(src/m3_compile.c:2740), which sets the count of a slot to one. If another item shares the
slot (a local of which two references were preserved together), one use is forgotten, the
assertion of `MarkSlotAllocated` (334) fails, and the slot is free again while an item is
in it. `FrameCoversWrites` holds with them, by the proof below. And in a scatter, a worker whose
socket went away since `find_all_workers` is passed over while the cursor moves on, so that
nobody gets its chunk (src/velum_core.cpp:526).

### Bounds, and why they are enough

* Two descriptors are what both tables hold when full (one dialled, one accepted), and
  fewer than the connections that can be under way; so every number is reused by
  every kind of owner. One unread message per connection and one waiting connection
  show each order of message and end of file.
* A spawn reads each table entry in a step of its own, which is many states: `kernel_spawn`
  has the spawn with an election, and `kernel_liveness` the one without, whose lookups are
  the same code (`TestPeer` to `SendTask`) after a different search. The theorem
  `TasksReachTheirWorkers` has both, with any tables.
* In `Cluster` two nodes give both directions of dialling at once, and two tasks a
  message behind another. Three nodes, which the re-assignment needs, only matter there.
* A five-bit int wraps in every way a 32-bit one does, and four workers give remainders
  from zero to three. Proofs cover all widths.
* Nine lines are one more than an operation asks for, so that a page is left after one
  or two operations; a table of one target moves to another page at the second
  request for room, one of six needs a page larger than the usual, and one of twenty gets none. Four pages allow
  the page written to, two saved ones, and one on a list. Proofs cover the rest.
* `load`: two functions are an import and a declared one, or two whose names collide; four
  strings are an import with two more names for it, one of them beyond the room for names
  (two here, three in the code).
* `compile`: an operand needs to be put in a register, referenced, disturbed and read,
  which is four opcodes, or six with a block around.
  A call of three arguments puts the last of them as far behind the frame as `MaxCallSlots`
  allows, so that one slot further would be seen.
* `exec`: five frames are a start function or host call, a function with two loops, and a
  call or callback from the inner one; frames of two and three slots overflow a stack of
  eight by recursion, and two pages allow growth from none, one step at a time, with moves.
* `numeric`: operands are all sixteen values of the narrow int, the edges of the wide one
  and of its signs, and the shift counts around each width; the register or slot takes these and
  whatever operations on them give. Floats are around every bound of a truncation.
* The scatter run stops when the loop ends and the load run when the module is freed,
  hence `CHECK_DEADLOCK FALSE` there and nowhere else.

### Fairness

`kernel_liveness`: weak fairness of the engine, which is a loop without an exit; weak
fairness of the steps of a spawn once it has begun, which never wait for anything but a
one-second sleep; strong fairness of `Death`, the one step that takes `api_mutex`, since
the user thread frees it after every command and then reads its next line. Peers and
commands have none. `cluster`: weak fairness of each engine's steps at each of its ends,
since one loop serves every ready socket in turn, and of `Reply`, that is, the function
of a task returns. Crashes, restarts, dialling and spawns have none.

## 4. Proofs

All theorems hold for every value of the constants that satisfies the named assumptions
in the modules, and each rests on an inductive invariant. TLC has checked these too, on
the instances above (of `load` with three strings). Some theorems have a hypothesis of their own,
given below. Every invariant the passing runs check is proved, except for three of
`M3Compile` and the two of `M3Numeric`.

* **VelumKernelProofs** (any number of peers, slots, descriptors). `IInv` is `TypeOK`,
  `Sockets` (`TablesSound`, `IdentifiedSockets`, and `DialledRemote`: an entry of
  `peer_sockets` leads to its index), `Connected` (a known node has a socket on which it
  has spoken, which is why clearing it at the end of one is on the safe side),
  `ReadNeverBlocks`, `Locked` (which states of the user thread hold `api_mutex`),
  `WinnerStaysEligible`, `TaskGoesToItsWorker`, and what the latter needs of a lookup under
  way: `Seen` (the descriptor that passed a test is its worker's, or was closed since) and
  `Taken`. `TaskGoesToItsWorker` says nothing of a lookup whose entry changed between
  the test and the taking (src/velum_core.cpp:518-519, 522-524), of a descriptor that was
  closed before the send, and of an owner that had not spoken: there the code may send to
  0, to a closed descriptor or to another node. The tables need `IdentifiedSockets`
  to know whom an end of file clears, and `EligibleIsConnected` needs the stronger
  `Connected`, as attribution alone does not say that the socket has spoken. Theorems:
  `Typing`, `TablesAreSound`, `SocketsAreIdentified`, `EligibleNodesAreConnected`,
  `ReadsDoNotBlock`, `TasksReachTheirWorkers`, `WinnersStayEligible`.
* **SchedulerProofs** (any number of nodes, any field widths up to the code's). `Positions`
  ties `pc` to the locals, `Scanning` says that the best node so far is the first maximum
  of the scores seen. That no score is as low as the first bound, -10000, follows
  from the widths. Theorems: `Typing`, `ElectionIsRight`, `WinnerIsKept`.
* **ScatterRangeProofs** (any int width, any number of workers). `Cursor` says where the
  cursor is after i iterations, in closed form, if the request fits. If it does not, the
  sums of the loop wrap around; `Wrapped` says that the cursor is then where the closed
  form has it up to a multiple of the width, and two ints that differ by such a multiple
  are the same. Theorems: `Typing`, `ChunksPartitionTheRequest`, `LastChunkEndsAtEnd`.
* **ClusterProofs** (any sets of nodes and tasks). `Single` and `Addressed` say that at most
  one message is about a task and that it is at an end between the task's requester and its
  worker, `Sandboxed` and `Outside` that there is none while the worker runs it, before it
  is sent and after it has returned. From these, `status` of a task is a function of where
  the task is, each action moves one task or loses some, and `Dispatch` allows both.
  Theorems: `OnePlace`, `ClusterImplementsDispatch` (initial states, and each step a step or
  a stutter), `LossHasACauseHolds` (an action property).
* **SandboxProofs** (any number and size of pages, any nesting, any branch tables that
  `TablesFit` allows: all theorems here have that hypothesis). First
  what each operator does to a store that is `Sound` (types, lists apart, nothing
  overfull, counts right) and that the holder of another page sees no difference (`Kept`).
  Then `Compilation`: the page written to and the saved ones are on no list, differ, have
  room for a bridge and what they owe, and are no more than the runtime counts as active.
  The last conjunct is needed for the counts to stay natural numbers; the second for
  `EnsureCodePageNumLines`, which writes the bridge without asking. `IInv` adds which
  runtime compiles at which step. On top of it, `Settled` says what each operator does to
  the pages on no list: they are all held unless one was abandoned, the runtime of
  `EvaluateExpression` owns nothing between two expressions, and the pages on no list are
  those the other one counts as active; and `Heaps` says what is allocated at each step.
  Theorems: `Invariance`, `Typing`, `PagesAreApart`, `PagesAreCounted`, `RoomIsThere`,
  `LossIsByAbandoning`, `NothingStaysBehind`.
* **M3ExecProofs** (any functions, nesting of loops, sizes of stack and memory, depth of
  calls). `Standing` says which C frame can stand on which, `Framed` and `Looping` that
  the code that runs, and each that waits, is nested in the frames of its own loops: from it
  follows that a return or a continue reaches the frame it belongs to. `Patched` says
  that an operation rewritten to a call without code (`op_Compile`) leaves an error that
  stops the runtime. For the memory, `Contents` ties its length and what was written to the
  number of pages; for the stack, `Stacked` says that each frame fits below the limit and
  begins at an even slot, so that the next one begins at the limit at most.
  Theorems: `FramesStand`, `MemoryIsFresh`, `CallsAreToCode`, `ResultsAreOfLastCall`,
  `ContinuesAreOfTheirLoops` (an action property), and two kinds under a hypothesis:
  `BoundsAreExact` and `ContentsAreKept` for memories of less than 2^32 bytes (with 65536
  pages the product is 0, and the properties fail), `FramesFitTheStack` unless a host
  function that calls back grows the memory (then the limit is wrong, and the property
  fails). `FramesFitTheStack` has the frames and the stacks of hosts within the limit for
  calls with any number of arguments, and the arguments themselves within the block only up
  to four slots. Section 3 has the counterexamples; the configuration of `exec` is within
  the hypotheses.
* **M3LoadProofs** (modules of any size). `Held` and `Reading` say that of all the places that
  point to a string (two of each import, the names of each function and global, the exported
  names of memory and table, the name of the custom section that is read) at most one points
  to a given one, and that the string is then not freed; one that nothing points to is freed
  once or lost. `Ordered` says which sections have come, so that the function
  section follows the imports and the code section it (`BodiesMatch`). `Exporting` says
  that `export_name` of a function is the name of one of its exports. Theorems:
  `StringsHaveOneOwner`, `StringsAreFreedOnce`, `StringsAreFreedOrOwned`,
  `BodiesAreOfTheirFunctions`, `ExportedNamesAreFound`.

* **M3CompileProofs** (any kinds of functions with any locals, nesting, and blocks of any
  types, with parameters; calls of any types of up to `MaxCallSlots` slots, which is any
  type the parser lets pass (src/m3_parse.c:90); any number of slots and constants). An operation writes to the
  slot of an item with the width of its type, but the type may come from one item and the
  slot from another: `PreserveLocal` gives all references to a local the slot for the type
  of the first, `CopyStackSlots` takes the types of the results from the stack and the slots
  from the records beneath the block. That no write leaves the frame therefore needs the
  types of the compiler's stack to be right, and `IInv` says so; it is defined, with the
  relations between states that the lemmas use, in **M3CompileInvariant**. `Nested` has the open
  blocks one within the other, `Records` the operands of a block and the records of the
  next one between them, `TopIs` the operands of the innermost one at the top; `ItemsHeld`
  says that each item ends below `maxStackSlots` and that one in the slot of a local has the
  type of that local, `Sizes` that no slot in use lies above it, so that the frame of a
  callee (`CallTop`) begins at the end of the caller's at the latest, `ArgsAndLocals` that locals end below the constants, and
  `NoLocalInRegister` that they never get a register. None of this is true of code behind a
  branch, whose stack is polymorphic: `LiveItem` leaves out what lies there, and `RunsLive`
  and `GoalIsOpen` say that the run is never there and that a jump leads to a block that
  is open and can be reached. For each operator there is a lemma of what it keeps
  (`Keeps`, `Calm`, `Follows`) or adds (`Pushes`, `Grown`), then one per opcode; `SetUp`
  is the invariant while arguments and locals get their first slots, which are apart. A
  fold over operands (`CopyStackSlots`, `PassArgs`, ...) is first shown to have a run of steps
  (`CopyRun`, `ArgSetUpRun`, ...), along which the invariant is then carried by `Induct`.
  Theorems: `StackHoldsTheOperands`, `OperationsWriteInFrame`.

Facts that are usually shown by induction over a natural number or a finite set (the
greatest member of a set, the loops around a loop) are taken from the well-foundedness of
the strict subset relation on finite sets, which the library states without an operator
parameter. For the same reason two operators have a form that does not recur:
`M3Exec!Around` is the least set that is closed under `Outer`, and `M3Load!FreeModule`
counts for each string the places that point to it, instead of going from one to
the next.

Only model-checked: the liveness properties `CrashNoticed` and `Settles` (liveness is out
of the prover's reach); `RegisterHoldsValue` and `TrapsAgree` of `M3Numeric`, which takes
its bit operations from `Bitwise`, whose recursion the prover cannot use; and
`ValuesInPlace`, `ReadsRight` and `AssertsHold` of `M3Compile`. These three are not true of
all functions: they fail with 64-bit locals (`compile_wide`) and with parameters of blocks
(section 3), so that a theorem would need functions without either as a hypothesis,
and an invariant that ties the count of a slot to the items that refer to it.

## 5. Not modelled

* The legacy task loop of src/node_logic.cpp (no node sends those requests), the parsing of
  command lines, the bytes of a message, network set-up.
* In Wasm3: the bytes of a module (LEB128 readers), allocations that fail while a module is
  read, float arithmetic and rounding, conversions from integers to floats, tracing and
  profiling (not compiled in), printing of types and code (src/m3_info.c).
* `CompileRawFunction`, linking and the host interfaces (src/m3_api_*.c, src/m3_bind.c): the
  sandbox binds no host function, and the build leaves the WASI files out.

## 6. Plan

All modules of the plan are there, and all their invariants are proved but five. What is
left:

1. `M3Compile`: `AssertsHold` for functions whose locals take one slot each and whose blocks
   have no parameters, by an invariant that the count of a slot is the number of stack items
   that refer to it; `ValuesInPlace` from that one, since a slot in use is then given to
   nobody else; `ReadsRight` from `ValuesInPlace`. `IInv` has the types and the blocks
   that these need.
2. `M3Numeric`: a theorem needs the bit operations without `Bitwise`.
