# node-lua: a verification project in TLA+

node-lua is an actor engine in C++: *contexts* (Lua states, and one logger) exchange messages, a
small pool of worker threads runs them, and one network thread does I/O and timers with libuv. This
directory holds TLA+ modules translated from `src/src/` and from the two largest of the C libraries it loads, lpeg and pbc (`src/luaclib/`), TLC configurations that check them on
small instances, and proofs for the TLA+ proof system (TLAPS) of what has to hold for every instance.

Contents: [1 Inventory](#1-inventory) · [2 Modules and the code](#2-modules-and-the-code) ·
[3 Runs](#3-runs) · [4 Fairness](#4-fairness) · [5 Proofs](#5-proofs) ·
[6 Disagreements](#6-where-the-code-disagrees-with-its-documentation) ·
[7 Not modelled](#7-what-is-not-modelled) · [8 Plan](#8-plan) · [9 Running it](#9-running-it)

## 1 Inventory

| Component (src/src/) | State | Operations | Correct when |
|---|---|---|---|
| message queue (`message_queue`) | ring buffer `m_queue`, `m_head`, `m_tail`, `m_size`, `m_cap` | `push`, `pop`, `expand_queue` | it is a FIFO queue through every wrap and growth |
| context (`context`) | `m_handle`, `m_inited`, `m_ref`, `m_processing`, `m_worker`, its message queue | `grab`, `release`, `push_message`, `pop_message`, attach and detach, `on_registered`, `on_retired` | one worker at a time; no message stranded; deleted with the last reference |
| worker queues (`context_queue`) | a linked list of contexts per worker, a lock, a semaphore | `push_head/tail/many`, `try_pop`, `wait`, `steal` (`pop_half`), `pop_all` | contexts are moved and never copied or lost; a sleeping owner is woken |
| worker manager (`worker_mgr`, `worker.h`) | workers, `m_worker_num`, round-robin index, `m_exiting` | `push_context`, `repush_context`, `steal_context`, `check_load`, `start_worker`, `stop`, `wait`, `worker_process` | every runnable context runs; all workers leave after `stop`, none starts after it |
| registry (`context_mgr`) | slot table, capacity, next handle, count | `register_context`, `retire_context`, `grab_context`, `expand_slot` | a handle finds its own context or nothing; the count is exact |
| engine (`node_lua`, `main`) | `m_logger`, the managers | `context_create`, `context_destroy`, `context_send`, `context_check_alive`, `log_fmt` | the logger is retired last; the process ends after it |
| logger (`context_log`) | a file | `on_received`, `on_dropped` | accepted records are written |
| Lua context (`context_lua`, `ref_sessions*`) | sessions, waits, root coroutines, reference count | `send`, `query`, `reply`, `recv`, `wait`, `run`, `create`, `destroy`, timeouts | every blocked coroutine is resumed exactly once; the context ends exactly when nothing refers to it |
| network thread (`network`) | socket pair, request buffer, `uv_loop_t` | `send_request`, `recv_request`, `process_request`, exit | requests are processed in order, whole, once |
| handles (`uv_handle_base`, `lua_handle_base`) | two halves that refer to each other by a slot | `grab_ref`, `release_ref`, `close`, `_close` | a slot is reused only when both halves are gone |
| timers (`lua_timer_handle`, `uv_timer_handle`) | handle and session | start, fire, close | one time-out for one-shot timers, none after `close` |
| TCP, pipes (`*_tcp_handle`) | read cache, demand, framing, write and accept queues | `listen`, `accept`, `connect`, `read`, `write`, `close` | bytes in order, every read answered, errors reported once |
| UDP (`*_udp_handle`) | read cache, write requests | `open`, `read`, `write`, `close` | as TCP, per datagram |
| buffers (`buffer`, `lbuffer`, `lshared`) | data with an atomic count | append, split, copy-on-write, free | a shared buffer is not written in place |
| messages (`message.h`, `ltpack`, `endian_conv`) | tagged union, packed tables | constructors, `pack`, `unpack` | `unpack(pack(x)) = x` |
| lpeg (`luaclib/lpeg`) | a tree and a table of values per pattern; code; the stacks of a match | the constructors of patterns, `lpeg.match` | a match gives what the expression means, and ends |
| pbc (`luaclib/pb`) | types by name, fields by number and by name; messages being written or read | `register`, `encode`, `decode`, `pack`, `unpack` | what was written is read, also by a reader with other fields |

How they interact. A context never touches another one: it calls `context_send(handle, ...)`,
which looks the handle up in the registry, takes a reference, pushes the message and, if nobody is
processing the receiver, puts it into the queue of some worker. A worker pops a context (from its own
queue, from another one, or after sleeping on its semaphore), attaches it, handles up to
`MAX_MESSAGE_PROC_NUM` messages and puts it back; a context that was destroyed is still popped, and its
messages are dropped. `context_create` may start another worker; `context_destroy` retires the
context and, when only the logger is left, tells the logger to end; when nothing is left, all workers are
told to stop. Requests to the network thread go through a socket pair, answers come back as messages. Hence
the shared state is: the registry (a read-write lock), each message queue and each worker queue (a lock
each), the semaphores, atomic counters, and a number of *unlocked* fields (`m_handle`, `m_inited`, queue
lengths, `m_exiting`, `m_worker_num`, `m_worker[]`).

What is hard. The hand-over of a context between the sender that pushes a message and the worker that
finds the queue empty; unlocked reads in `context_send`, `repush_context` and `check_load`; a wake-up that is
posted after the unlock; stealing while the owner pops; two contexts that end at the same time and both
count who is left; a worker that is started while the pool is being stopped; the deletion of workers that
other threads still reach; handles that wrap round; late replies, time-outs and waits on contexts
that end; the two halves of a handle. `PROJECT.json` lists them, each at its line, with the property
that covers it or the module of the plan if there is one. Those that no property covers say so there: the code lets them happen (section 6).

The libraries run inside one call of a script, on data that no other thread sees. What is hard there is not interleaving but the number of paths: an optimising
compiler and a machine for patterns, whose shortcuts have to agree for every grammar; captures on a stack that backtracking cuts; hash tables with chains through
one another's slots; files that arrive in any order; lengths that are guessed and corrected in a buffer that grows.

## 2 Modules and the code

| Module | Models | Uses |
|---|---|---|
| `FifoQueue` | what a message queue promises: a sequence | |
| `MessageQueue` | `message_queue.cpp` | `INSTANCE FifoQueue` |
| `Scheduler` | `context.cpp`, `context.h`, `context_queue.cpp`, `worker_mgr.cpp`, `node_lua.h/.cpp`, and where Lua and logger contexts meet them | |
| `Shutdown` | `worker_mgr_t::wait`, the end of the network thread and of the process | `Scheduler` |
| `ContextMgr` | `context_mgr.cpp` | |
| `ContextWait` | `context.wait` in `context_lua.cpp`, `ref_sessions.cpp`, `ref_sessions_mgr.cpp`, the time-outs of waits | |
| `ContextRecv` | `context.recv` in the same files, its time-outs and callbacks | |
| `ContextQuery` | `query`, `timed_query`, `send`, `reply` in `context_lua.cpp`; session numbers | |
| `Coroutine` | `lcororep.cpp`, the yields and resumptions of `context_lua.cpp` | |
| `PrivateBuffers` | what buffers promise: each has bytes of its own | |
| `Buffer` | `buffer.cpp`, `buffer.h` | `INSTANCE PrivateBuffers` |
| `BufferPack` | `pack`, `unpack`, `packsize` of `lbuffer.cpp` | |
| `Messages` | `message.cpp`, `message.h`, and who releases what in `context_lua.cpp` | |
| `TablePack` | `ltpack.cpp` | |
| `RequestPipe` | the request pipe and the thread of `network.cpp` | |
| `Handles` | `lua_handle_base`, `uv_handle_base`, and the opening, closing and collecting of timers, TCP and UDP handles | |
| `Callbacks` | `lua_timer_handle`, `uv_timer_handle`, `context.run`, reading of `*_udp_handle` | |
| `TcpRead` | `tcp.read` in `lua_tcp_handle.cpp` and `uv_tcp_handle.cpp` | |
| `TcpListen` | `tcp.accept` in the same files | |
| `SocketWrite` | writing in `*_tcp_handle.cpp` and `*_udp_handle.cpp` | |
| `Framing` | the length prefixes of packets: `uv_tcp_handle.cpp`, `endian_conv.cpp` | |
| `PegTree` | `lptree.c`: values and operators to trees, grammars and their checks | |
| `PegCode` | `lpcode.c`: the compiler | `PegTree` |
| `PegCaptures` | `lpcap.c`: from the list of captures to values | `PegTree` |
| `PegMatch` | `lpvm.c`: the machine, one action per instruction; `lpeg.match` | `PegCode`, `PegCaptures` |
| `PegSemantics` | what expressions mean, with no tree, code or stack | |
| `PbWire` | `varint.c`, `context.c`: the wire format | |
| `PbMap` | `map.c`: the tables | |
| `PbTables` | the life of one table | `PbMap` |
| `PbRegister` | `register.c`, `proto.c`: descriptor files to types | |
| `PbMessage` | `wmessage.c`, `rmessage.c`, `decode.c`, `array.c`, and how `protobuf.lua` uses them | `PbWire`, `PbMap` |
| `PbPattern` | `pattern.c`: `pack` and `unpack` | `PbMessage` |
| `MCScheduler` | the two states from which Scheduler is explored | `Scheduler` |
| `MCContextWait` | who may wait for whom; symmetry | `ContextWait` |
| `MCContextCalls` | the calls of one context to another | `ContextWait`, `ContextQuery` |
| `MCContexts` | the composition of what contexts hold and send | EXTENDS `ContextMgr`, `Buffer`, `Coroutine`, `Messages`; INSTANCEs `BufferPack`, `TablePack`, `ContextWait`, `ContextRecv` |
| `MCNetwork` | the composition of what lies between contexts and sockets | EXTENDS `MessageQueue`, `RequestPipe`, `TcpRead`, `TcpListen`, `SocketWrite`, `Handles`, `Callbacks`; INSTANCEs `Framing` |
| `MCLibraries` | the expressions, tables, files and documents that the libraries are given | `PegMatch`, `PegSemantics`, `PbTables`, `PbRegister`, `PbPattern` |
| `MessageQueueProofs`, `ContextMgrProofs`, `ContextQueryProofs` | proofs | the module of the name |
| `SharingProofs` | proofs about Buffer, Coroutine and Messages: what is shared | all three |
| `HandlesProofs` | proofs about Handles and Callbacks | both |
| `NetworkProofs` | proofs about RequestPipe, SocketWrite, TcpListen and TcpRead | all four |
| `SchedulerSafety` | proofs about Scheduler: types, ownership, wake-ups | `Scheduler` |
| `SchedulerRefs` | proofs about Scheduler: reference counts, the end of the logger | `SchedulerSafety` |

Definitions whose name is a definition's with a suffix (`...Unrotated`, `...NoWrap`, `..._unsigned`) are mutated forms:
plausible mistakes that the named properties are known to detect. No specification uses them.

### The engine

**MessageQueue.** One action per call (each is made under the context's lock). Indices are `uint32_t`
(`UintRange` values): doubling the capacity loses the top bit, and `push` then refuses the message. `result` is what
the last call returned, so that the refinement to `FifoQueue` speaks about what the callers see. `MCNetwork` compares the arithmetic with the C expressions (mask and shift).

**Scheduler.** `pc[t]` says which source function thread `t` is about to execute; a step ends where
another thread can interfere: at a critical section, an atomic operation, or an unlocked read. The
threads are the workers, the main thread (which creates the logger and the first context) and the network
thread (which sends answers). The locals of the functions are the variables `running`, `message`, `handled`,
`stolen` (worker_process), `dest`, `type`, `back` (context_send and where it returns to), `created`
(context_create), `target`, `scan`, `num` (the loops over the workers). Groups of actions:

- *context_send*: `grab_context` → `check_valid` (unlocked) → `push_message` (test and set of `m_processing` under
  the queue's lock) → `push_context` (reference for the queue, round-robin choice) → `push_one` → `sem_post` (after the
  unlock, only by the push that found the queue empty) → `release_dest`. `log_fmt` enters at `check_valid`
  because it relies on the reference `m_logger` holds.
- *context_create*: `Register` → `init` → `lua_ctx_init` → `set_inited` → queueing → `check_load` → `start_worker`,
  and the failure path `retire_created`.
- *context_check_alive*, *stop*, `wakeup`: the count of contexts is read, the logger destroyed or all workers woken.
- *worker_process*: `loop`, `try_pop_one`, `steal_context`, `push_many`, `wait`, `attach`, `turn`, `pop_message`, `handle`,
  `drop`, `deinit`, `unset_inited`, `retire_context`, `finish`, `release_running`, `repush_context`, `shortest`.

Lua code is the environment: while a Lua context handles a message it sends, creates, destroys, logs (at
most `MAX_SENT` messages and once each context), and at the end either remains active or not. Messages are reduced to
the four kinds the engine tells apart. A context is never registered twice, so it stands for its handle; that handles
are found correctly is the business of `ContextMgr`.

**Shutdown** EXTENDS Scheduler with the main thread's `wait` loop (join, `pop_all`, drop, delete), the
end of the network thread and the release of the logger, and with the lifetime of `worker_t` objects:
`Uses(t)` are the workers the next step of `t` dereferences through `m_worker[]`. In Scheduler itself the main
thread stops at `join`, and nothing else is left out.

**ContextMgr.** Every operation holds the registry's lock and is one step; the sweep for a free slot is
the choice of the first `i` such that the slot of the `i`-th handle tried is free. `UintRange` is the number of
`uint32_t` values; the capacity is always a power of two times the initial one, so `&` is `%`.

### Lua contexts

**ContextWait.** A context *c* that waits for *d* sends it `LUA_CTX_WAIT`; *d* remembers *c* and sends `LUA_CTX_WAKEUP` when it
ends (`deinit`), or when it finds the request among what it drops (`on_dropped`). Meanwhile *c* keeps, in the object of *d*, the
sessions of its waiting coroutines and of at most one callback; time-outs and `context.wait(d, nil)` take sessions out again, and the last one sends
`LUA_CTX_WAIT_CANCEL`. Contexts are the processes, since Scheduler shows that a context is run by one worker at a time, and queues are sequences,
since MessageQueue implements FifoQueue. `pc[c]` says where a handler is: it is cut at each `context_send` between the check of the receiver and the push
(`push`, `push_wait`), and wherever it resumes Lua code (`lua`, with `back` the place to go on from), because that code may
call `context.wait` again while `wakeup_all` or `wakeup_one_fixed` still holds the object (`waking`). `wait[w]` is a history of the *w*-th call: who waits for whom, its timer, what
became of it; the properties compare it with the tables of the code. The object may have been emptied and cached by the resumed code, and serve another context, or have been deleted, when the
handler goes on with it: that step is modelled as the code makes it, and `astray` records that it has happened. `WokenByEnd` is refuted by it (section 6); what `WaitersExact` says of the two tables holds up to then, and its
count of sessions always. A message that has nothing to do with waits
(`response_other`, and `SYSTEM_CTX_DESTROY`) may be handled whenever the context is idle. A closed timer is remembered as `closed`, so that its late message does
nothing (`lua_timer_handle_t::wakeup`). Session numbers do not wrap.

**ContextQuery.** One caller and one replier. `m_ref_session` maps a session number to the query that holds it (or to something that is
no query); a number is taken by counting `m_ref_session_base` down and skipping those in use, and freed when the reply or the
time-out is handled, whichever is first. The message of a timer that was closed is still handled, and must wake nobody. Whether the replier's Lua code
gets a query, in a call of `recv` that is there, is left open (ContextRecv has those calls). Replies that cannot be delivered, receivers that are gone (`on_dropped`, `deinit`) and failed sends answer the
query with an error. The send is cut between the check of the receiver and the push, as in Scheduler. Code that is resumed is a
step of its own; the handlers of the *caller* resume it as the last thing they do, so they are atomic.

**ContextRecv.** One context that receives, from sources that may send at any time. Its calls are kept, by the source they name or for any, in objects of the same kind as those of
ContextWait, which `m_context_recv_sessions` maps, caches and reuses. A query finds a coroutine that named its source, else the callback for it, else the same for any source.
`wakeup_once` and `wakeup_one_fixed` keep the object over the Lua code they resume and call `check_sessions` on it afterwards (`held`, and `pc` = `check`): in between the code may free callbacks
(`recv(source, nil)`, which caches an emptied object) and call `recv` again. `astray` records that a handler has gone on with an object that is not its handle's any more, by which a call can be lost (section 6).

**Coroutine.** A root coroutine runs a callback; a script may nest coroutines in it (`chain`). A blocking call sets
`m_yielding_finalize` and yields; the replaced `coroutine.resume` sees `m_yielding_depth` and yields further up, until
`resume_coroutine` in the root runs the finalizer, which sends the request. All contexts of a worker share these fields, so the model
follows root coroutines of several of them.

**Buffer** has a step for each atomic access: whether the data is shared is read before the change is made, in place or in a copy; the count falls before the data is freed.
It is refined to **PrivateBuffers**, in which no two buffers have anything in common. **BufferPack** is a function from formats with values to
bytes, with C's conversions (sign extension, truncation, alignment, padding, byte order), and its inverse.
**Messages** follows each allocation: built into an array message value by value (any of which may fail), sent, dropped, received or left in the `m_yielding_message` of the worker.
**TablePack** packs tables with integers of four widths, strings and booleans (floats, which are copied bytes, are left out), nested up to the limit, and unpacks them.

### The network

**RequestPipe.** Workers write requests to one socket pair, waiting while it is full; the network thread reads up to `m_cpu_count` of them
after each poll event. When all workers have ended, the main thread sends `REQUEST_EXIT`. What follows the exit request on the
pipe would not be handled; that there is nothing is the property.

**Handles.** A lua handle and a uv handle with the number that links them. The context opens (with or without a time-out, in
a coroutine or with a callback), uses, closes and collects; the network thread creates, answers, closes and deletes; the context may end at any point, with `lua_close` collecting what
is left, and messages to it being dropped. Either half may go first. **Callbacks** adds what timers and UDP sockets do with a callback: the session it is kept under,
the table from sessions to timers, and events of a handle that come after its callback was freed. A number that is freed may be taken at
once.

**TcpRead, TcpListen.** The context's thread and the network's, connected by the pipe and the message queue. The network side counts the
demand (`m_blocking_read_count`, `m_blocking_accept_count`), caches packets without demand and
stops reading when it may; the context's side keeps the waiting coroutines, the callback, the time-outs that
left their demand behind, and the overflow. A handler is cut where it resumes Lua code (`read_pc`, `read_back`; `accept_pc`, `accept_back`), which may read or accept again or close. A callback of the network thread is one
step, but for the read error, which is sent before it is published in `m_read_error`.

**SocketWrite.** Writes by the handle or the shared descriptor, each with or without an answer to give; the request, libuv's queue,
completion and cancellation; `m_write_cached_reqs` with its bound. **Framing** follows each byte from `write` to the packets that are handed on: heads of 0, 1, 2, 4 or 8 bytes of either endianness, maxima, pieces of any length that the
kernel returns, the shared read buffer and the packets that do not fit it.

### The libraries

**PegTree, PegCode.** Trees and code are built by the functions of the names. Trees are records with their subtrees, not offsets into one array; lists of instructions have
labels where the code has offsets to correct. An expression of `MCLibraries` is evaluated by the same operators that a script calls (`lp_seq`, `lp_choice`,
`lp_star`, `newgrammar` ...), which may return an operand unchanged, share the table of values, or refuse. Characters are 0 to `UCHAR_MAX`; the limits
(`MAXRULES`, `MAXBEHIND`, `USHRT_MAX`, `MAXOFF`, `MAXSTRCAPS`) are constants.

**PegMatch** executes one instruction at a time, with the stack of choices and calls (which doubles up to `MAXSTACK`), the list of captures, and the values that match-time captures
leave on Lua's stack (`dyn`). **PegCaptures** turns the list into values; its functions are those of `lpcap.c`, each from an index to values and the next index.
**PegSemantics** states what each operator promises by recursion over the expression, as in the manual of the library: ordered choice, greedy and possessive
repetition, predicates without consumption, captures in order. `MatchExact` compares the two at the end of each match.

**PbWire.** A byte of a varint carries `GROUP` bits (7 in the code, 5 in the run), and all widths follow from that, so that a word still takes five groups and a long integer ten.
**PbMap** keeps slots and their `next` indices as the code does; a key comes with its hash, so that `MCLibraries` decides which collide. A free slot has the hash 0 and no name, so that looking up a name of
hash 0 (that of the empty one) on it calls `strcmp` with `NULL`: the lookup is `CRASHED` then (section 6).
**PbRegister** works on what the reader of the descriptor would give it. **PbMessage** encodes a table (its keys in any order, as `pairs` gives
them) into buffers whose capacities it tracks, and reads the bytes back in the two ways the library has: by name on demand (`rmessage`), and by a callback for each field (`decode`). The reader's type
may have other fields than the writer's. **PbPattern** adds the third way, and another one to write.

## 3 Runs

`Context` counts the logger. `main`, `net` and two workers are the threads of all Scheduler and Shutdown runs.

| Run | Instance | States | What it shows |
|---|---|---|---|
| `scheduler` | logger and root, one message of the environment; and five contexts, four of them in one queue, from where stealing begins | 779 k | `SingleOwner`, `NoStrandedMessage`, `NoLostWakeup`, `RefsExact`, `NoUseAfterFree`, `InitFirst` under every interleaving of boot, sends, destruction and stop, and of stealing half of a queue, requeueing and owner's pops |
| `create` | logger, root and a context that either may create; Lua code sends nothing else | 1.64 M | `LoggerIsLast`, `LogsWritten`: concurrent ends, and the order of the last ones |
| `shutdown` | logger and root, one message of the environment | 971 k | `LeftoversDropped` (contexts left behind are released, and by one thread): from boot to the end of the process |
| `shutdown_live` | logger and root, `MAX_SENT` 0 | 48 k | `MessagesProcessed`, `ProcessEnds` |
| `calls` | *a* waits for *b*, 2 calls, *a* may be destroyed at any time; and, in another branch, 2 queries, 3 session numbers, one taken by something else | 115 k | `SessionsExact`, `WaitersExact`, `RepliesMatch`, `CallsEnd` |
| `contexts` | the parts of `MCContexts` | 684 k | registry: `SlotsAgree`, `LookupExact`, `CountExact`, `HandlesSound`; buffers: `DataExact`, `BuffersPrivate`; messages: `DataReleased`; tables and binary data: `RoundTrip`; coroutines: `WaitsForAnswer`; waits and receives: `CallersKept` |
| `network` | the parts of `MCNetwork` | 1.20 M | queue: `RingConsistent`, `FifoSpec`; pipe: `RequestsHandled`; reading and listening: `ReadsExact`, `AcceptsExact`; writing: `WritesOver`; handles and callbacks: `HandlesExact`, `CallbacksExact`; framing: `PacketsIntact` |
| `libraries` | the parts of `MCLibraries` | 380 k | lpeg: `MatchExact`, `MatchEnds`; pbc: `TablesExact`, `RegisterExact`, `WithinBuffer`, `DocumentsExact` |
| `safe_exit`, `queue_empty_on_delete` | as `shutdown` | | counterexamples, section 6 |
| `wait_callback_called` | the waits of `calls`, 1 call | | counterexample, section 6 |
| `wait_cancel_while_waking` | *a* waits for *b* and *e*, which are interchangeable, 3 calls without time-outs (`NoTimers`) | | counterexample, section 6 |

*Parts.* The components in `contexts`, those in `network`, those in `calls` and those in `libraries` share no state. A behaviour of the run chooses one of them (`which`) at
the start and moves only that; the states are the sum of the parts' and not their product. A property of a part is that of
its module, guarded by `which` where the others' initial values need not satisfy it; `TypeOK` of each part is a conjunct of one of its properties.
What one part tells another (a queue is FIFO, requests arrive in order, a handle's number is not reused) is what the other assumes.

*Bounds of the engine.* `MAX_MESSAGE_PROC_NUM` = 1 makes every second message go through a requeue (2 in `scheduler`, where contexts have
several messages queued); `WORKER_LOAD_THRESHOLD` = 1 starts the second worker with the second context; `INDEX_RANGE` = 2 is enough for the round-robin index to name each of
two workers. One message of the environment is enough for each hand-over race: the other party is the log record, the init message and the destroy
message every context has anyway. Two workers are one owner and one thief, or two senders;
a third would repeat them. Five contexts are needed for stealing since a thief takes half of a queue: it carries one
and queues others only if there are at least four. The exploration starts in `StealInit` because reaching it from boot is beyond an exhaustive
search; the code reaches this state if `WORKER_LOAD_THRESHOLD` is large enough for a single worker to get all the contexts, while with the threshold of the run the second worker would have been
started before; `AllOrNone` keeps the boot from creating those contexts, which is what `create` is about.

*Bounds of contexts.* The registry sees its first growth with the third context and
wraps round within a few registrations; `HISTORY` = 3 remembers the last handles for `HandlesSound`.
Two waits are two coroutines, a coroutine and a callback, a callback and the one that replaces it, or a wait and the one made after
its time-out or cancellation, on an object that has been cached in between. Objects that pass from one awaited context to another need two
of them and three calls: `contexts` has them, with waits that have no time-out, a cache of one object, and nothing followed once a wake-up has gone astray; and with calls of `recv` for two sources and for any, with time-outs and a cache of two. Two queries are enough for one to get
the number the other had, with a late reply or an expired timer of the first on its way, and three numbers of which one is
taken for the count to skip and to wrap. Three buffers and five operations let two share data while a third takes it; capacities of 1 to 4 bytes reach the limits on growth. In BufferPack
bytes have two bits and integers two bytes, so that sign, width and overflow all occur with integers of up to twice that size, and formats have two items behind a setting of
endianness or alignment. Tables are two deep, at the limit of two, and integers have 2 to 5 bits. Two root coroutines
with one nested coroutine each are enough for one to inherit what the other left in the shared fields.

*Bounds of the network.* Capacity 2 and 4-bit indices: all wraps of the queue, growth to the limit of the index type, and refusal there. Three requests of two workers
through a pipe that holds two. Three packets and two reads: demand that outlives its time-out is reused or overflows. Two connections,
two blocking accepts and one callback, one error. Two writes, two changes of the shared option, one cached write request. Two timers and two sockets, of which two
live in one run, for two numbers: numbers are used again. Two uses with two session numbers. In Framing a byte has 4 values, the shared buffer 4 bytes and a packet may be left
incomplete in it up to 3; packets of up to 5 bytes are whole in it, split, or larger than it.

*Bounds of the libraries.* Three characters; expressions in which each operator meets operands that are empty, nullable, fixed in length, told by their first character, or
capturing, under repetition, choice, predicates, look-behind, every kind of capture, and grammars with up to four rules (and one with too many); fifteen subjects of up to three characters, started at both ends. Grammars that
are left-recursive or loop over nothing are among them, and `MatchEnds` says that those `verifygrammar` accepts end. Six keys whose hashes fall on few slots, one of them the empty name of hash 0, up to four entries in tables that start with one slot or four: collisions inside
and between chains, and two growths. Lists of up to four of the four descriptor files, in any order and with repetitions, in two calls; the files import each other, and extend each other's types. Documents have values at each boundary of
a varint, zero, -1 and the extremes; packed fields of 0 to 35 values, whose guessed length is too long, right, or too short by a byte, and of 32 bits, where the writer spills; strings up to and beyond the 24 bytes a buffer begins with; messages one
level deep; readers with the same, fewer and other fields; patterns with the keys in other orders than their numbers, and of every type; what a pattern packs has no messages, which it takes as bytes, and no name that its enumeration does not have.

`CHECK_DEADLOCK FALSE` in all configurations: the engine is meant to stop (all workers gone), and it
may also idle for ever with nothing to do; so may contexts that have ended or wait for
each other, and sockets that are closed or have used up their bounds. That nothing stops too early is the subject of the liveness properties and of those that speak of quiet states
(`ReadsExact`, `AcceptsExact`, `CallbacksExact`).

## 4 Fairness

`FairShutdown` is weak fairness for each thread: a thread that can take a step eventually takes one. That is what the operating
system's scheduler gives; every lock is held within one step, and semaphores keep their tokens, so
a blocked thread's step stays enabled. There is no fairness for the environment's choices: nothing
obliges a context to receive a response (`response` is excluded), to become idle, or to create another one. The main thread's part of the exit (`MainEnds`) is fair likewise. `MessagesProcessed` stops at `m_exiting` since accepted messages are indeed left behind
then (and released by `wait`).

In the waits of `calls` (ContextWait), `Step(c)` (pushes, Lua code, the end of a context) is weakly fair: Scheduler's `MessagesProcessed`
shows that a context with messages is run, and Lua code is taken to return. `Receive(c)` is strongly fair, because messages that are not about waits may be
handled in between, each time disabling it for a while: the queue is FIFO, so only finitely many get ahead of one that is queued. Timers need not
expire and contexts need not end.

In ContextQuery the steps of the caller and of the replier that the engine owes (`CallerStep`, `ReplierStep`: pushes, handlers, the end of a
context) are weakly fair, and so is each timer that runs (`query_timedout`), since libuv fires it. Nothing obliges the replier's Lua code to reply: `QueryEnds` (with `WaitEnds` in `CallsEnd`)
promises the end of an untimed query only while no such code has it.

In `libraries` only the machine of lpeg is fair (`Step`): a match is one call that runs until it returns.

## 5 Proofs

| Theorem | Statement | For every |
|---|---|---|
| `MessageQueueProofs!RingCorrect` | `Spec => []RingConsistent` | message set, capacity, index width |
| `MessageQueueProofs!Refinement` | `Spec => FifoSpec` | same |
| `ContextMgrProofs!TypeCorrect`, `SlotsCorrect`, `LookupCorrect`, `CountCorrect` | `Spec => []TypeOK`, `SlotsAgree`, `LookupExact`, `CountExact` | context set and `UintRange` with 8·\|Context\| ≤ `UintRange` |
| `ContextMgrProofs!HandlesCorrect` | `Spec => []HandlesSound` | same, with `PowersOfTwo` and `HistoryAssumption` |
| `SchedulerSafety!TypeCorrect`, `HoldersHold` | `Spec => []TypeOK`, `[]TypeInv` | number of contexts and workers |
| `SchedulerSafety!OwnerUnique`, `NothingStranded` | `Spec => []SingleOwner`, `[]NoStrandedMessage` | same |
| `SchedulerSafety!InitHandledFirst`, `WakeupsArrive` | `Spec => []InitFirst`, `[]NoLostWakeup` | same |
| `SchedulerRefs!CountsExact`, `NoDanglingPointer` | `Spec => []RefsExact`, `[]NoUseAfterFree` | same |
| `SchedulerRefs!LoggerGoesLast`, `AllLogsWritten` | `Spec => []LoggerIsLast`, `[]LogsWritten` | same |
| `ContextQueryProofs!SessionsNeverShared`, `RepliesReachTheirQuery`, `SessionsAreCounted` | `QuerySpec => []QueryInv`, `[]RepliesMatch`, `[]SessionsExact` | number of queries and sends, and range of session numbers with room for them |
| `SharingProofs!CountsAreExact` | `BufferSpec => []DataExact` | set of buffers and threads, bytes and capacities |
| `SharingProofs!SharingNeverShows` | `BufferSpec => BuffersPrivate` (a refinement of `PrivateBuffers`) | same |
| `SharingProofs!SleepersAreAwaited` | `CoroutineSpec => []WaitsForAnswer` | set of coroutines, depth of their nesting |
| `SharingProofs!MessagesAreReleased` | `MessagesSpec => []DataReleased` | number of messages, of values in them, of data |
| `HandlesProofs!HandlesLiveAndDie` | `HandlesSpec => []HandlesExact` | sets of timers and sockets, range of handle numbers |
| `HandlesProofs!CallbacksRunOnce` | `CallbacksSpec => []CallbacksExact` | timers, sockets, runs and session numbers, number of events and requests |
| `NetworkProofs!RequestsAreHandled` | `RequestPipeSpec => []RequestsHandled` | workers, pipe capacity, number of requests |
| `NetworkProofs!WritesAreOver` | `SocketWriteSpec => []WritesOver` | writers, writes, size of the cache |
| `NetworkProofs!AcceptorsAreServed` | `ListenSpec => []AcceptsExact` | connections, errors, calls of `tcp.accept` |
| `NetworkProofs!ReadersAreServed` | `ReadSpec => []ReadsExact` | packets, calls of `tcp.read` |

So every safety invariant that the runs `scheduler` and `create` check is proved, of `network` every property but `PacketsIntact`, everything about the registry, and the
two refinements of abstract specifications.

*Message queue.* The invariant (`Inv == TypeOK /\ RingConsistent`) relates `m_tail` to `m_head + m_size` modulo the capacity and bounds the live part
to pushed messages. Each operation then maps to the FIFO operation under the mapping that reads the live part from `m_head`;
the work is in the growth step, where the copy has to be the same sequence read from a different start.

*Registry.* `IInv == TypeOK /\ CapOK /\ SlotsAgree /\ CountExact`. `SlotsAgree` alone is not inductive: that no
two contexts fall into one slot after growth needs that slots were distinct before it *and* that the new capacity is a multiple
of the old one; and `CapOK` (`2 * m_slot_cap <= UintRange`) keeps the arithmetic of capacities and handles inside the
unsigned type: the table grows only when every slot is taken, so the old capacity is at most |Context| (lemma `FullCap`) and the new one, four times as large,
at most half of `UintRange`. The assumption 8·\|Context\| ≤ `UintRange` says that memory holds far fewer contexts than there are handles.
`LookupCorrect` and `CountCorrect` follow from the invariant.

*Handles.* `HandlesInv` adds to it that the capacity divides `UintRange` (`CapDivides`), the order of the boot, and `Window`: counted
backwards from `m_handle_index` and round the wrap-around, the *i*-th youngest handle lies behind the younger ones and at most
`2 + (i - 1) * Stride` back, where a registration moves the index by at most `Stride`, one sweep of the largest table and one skip past 0. So the index does
not come round to a remembered handle while `(HISTORY - 1) * Stride + 2 <= UintRange` (`HistoryAssumption`; with 2^32 handles and a million contexts it still allows about
850 handles to be remembered). `PowersOfTwo` says that a table whose size divides the range still does when it has grown, which powers of two
below 2^32 satisfy. That a sweep meets a free slot follows because a whole round of handles falls into all slots: `Meets0` cuts
it in two when it passes 0, and the two pieces meet all remainders only because the capacity divides the range.

*Scheduler, types.* `TypeOK` is not inductive: `m_ref[dest[t]]` keeps its type only if `dest[t]` is a context, which depends on
where `t` is. `TypeInv` adds `Locals(t)`: for each place a thread can be at, which of its locals hold a context and which place
a return leads to. So it says that no thread dereferences a null `context_t*`. The proof has one lemma for each action.

*Scheduler, ownership.* `SafeInv == TypeInv /\ Places /\ Birth /\ Ownership`. `Places` is the converse of `Locals`: a thread holds a context only at the
places that use it. `Birth` says that nothing refers to a context before it is created, and what cannot have happened before `Root` is. `Ownership` has
the owner of a context - a queue, a thief, the worker that runs it, or whoever is about to queue it - as a pair of
kind and thread: there is at most one (`OneOwner`), queues have no repetitions, and `Processing` ties it to `m_processing`: a context that has an owner has the flag,
and one that has the flag has an owner *if it accepts messages*. The condition is what makes it inductive: `m_processing` is set when a context is registered, before `m_inited` is, and a creation that
fails leaves it set without an owner. `Unborn` keeps other senders away until then, and `Attached` says that `m_worker` names the worker
that runs the context. A step is described once by how it moves owners (none, one given up, one passed on, half a queue stolen), and the invariant is shown for each of these
moves. `WakeupsArrive` needs only `TypeInv` and `Places` besides itself.

*Scheduler, references.* A reference is a pair of kind and thread too: the registry, `m_logger`, what a sender
grabbed, the creator, the push, the run, a queue, a thief. `AllCounted` says that `m_ref` is the number of those pairs and that the context is live exactly if
there is one. `Registered` is the strengthening: a context that is being created, or is handling a message and not yet retired, is registered, so that `retire_context` has a reference of the registry to
drop. Each step takes, drops or passes a pair, or begins or fails a creation, and each of these moves keeps the count.

*Scheduler, logger.* `SizeExact` (`m_ctx_size` is the size of the registry) and `EndInv`: once someone tells the logger to end, or the message for it is queued, no other context is
registered or will be (`Told => Quiet`); no record is behind that message (`EndLast`), since whoever logs is registered itself and not the logger (`LogsFrom`); and the engine stops
only when the logger has gone. Several workers may count the contexts at the same time, and each may tell the logger: the invariant says that this does no harm.

*Queries.* `QueryInv` says that no two queries ever have the same number (`Distinct`) and why: counted down from `m_ref_session_base` and round the
wrap-around, everything from an issued number on is in use for other things or was issued as well (`Passed`), and `QueryAssumption` says there are more numbers than both,
so that `lua_ref_session` finds a new one first. It holds for every start of the base. The assumption leaves out that a number is used again after 2^31 - 1 others.
`SessionsExact`, that the numbers in use are those of what has not ended and are counted right, rests on `QueryInv`: because a reply or a timer can only free the number of its own query, the number freed
is one in use and the count goes down by one exactly. `SessionsInv` adds what is on its way: of the caller, that a query between check and push is pending and has no timer (`InHand`), and that a timer whose message is queued has expired
or been closed (`Timed`), so that the message of a timer that a reply has overtaken ends nothing.

*Buffers.* `BufferInv == Types /\ Working /\ Lending /\ Counts`. `Counts` is the property; it is inductive only with what a thread in the middle of an operation has in hand
(`Working`): a thread that decided to write in place holds the only reference, still, when it writes, because nobody who does not hold one can take one,
and its buffers are lent to it (`Lending`). A buffer whose operation is under way therefore has the bytes it had. With that each step that changes bytes is one step of `PrivateBuffers`, and every other one (copies,
increments, decrements, the deletion of data) changes no value at all. `BufferAssumption` only says that the set of buffers is finite and that the null pointer is neither data nor bytes.
This proof showed that the model chose the new capacity of a cut by a `CASE` whose guards overlap, which leaves open which arm is taken; it is an `IF` now, in the order of `buffer_copy_cut`, and
the same was done in `PegTree`, `PegCode`, `PegSemantics`, `PbWire`, `PbMessage` and `PbPattern`.

*Lua and uv handles.* That neither half of a handle is used after it is gone holds because of what is on its way to it, so `HandlesInv` says, of every request in the pipe and every
message in the queue, at which point of its handle's life it can be there (`Requested`, `Told`): a close request is the last one its handle has, `handle_close` the last message, and a uv handle is
`open` with its message of a new socket queued exactly once before Lua knows of it. The other way round, a handle at a point where something has to happen has that request or message on its way (`Owed`): so nothing leaks.
`Numbers` says that a number is taken from when the lua handle is made until neither side knows of it, whichever side goes first, and that the table holds the pointer, null or the free mark accordingly. Queues
grow at their ends and lose their heads in one place only (`Longer`, `Shorter`), which keeps the predicates on positions within the reach of the provers.

*Callbacks.* `Sessions` ties the two tables to their users: a session that is taken belongs to one user, which knows its number, and the table of timers has it exactly if the user is a timer. Because numbers are taken
again at once, this alone does not say what a message that is still queued will find. `QueuedFor` says what such messages are about, and that a session of `context.run` has one message, as long as it is taken: so its
number is not taken by others in between. `Life` says of a socket that it keeps its session after its close only while a message about it is queued (the one that finds it closed frees it), and counts:
datagrams read are callbacks run and messages queued. `Once` is the same for what happens once. How often something is queued is the cardinality of a set of positions; `PutLast` and `TakeFirst` say what `Append` and `Tail` do to it.

*Coroutines.* The fields by which a blocking call speaks to its root are shared by all contexts of a worker. `CoroutineInv` says that
they are clear at the end of every step: whichever way a chain comes to rest, with an answer due, returned or failed, the depth is 0 and no finalizer is left for another context's call to find. And a chain
that is not empty has its root at its head, and a callback that runs or waits has one (`Chains`).

*Messages.* `DataReleased` is inductive as it stands. What it needs is that a message owns all the data made with it when one of its values is refused half way: the elements before that one are numbered by how many
of them got data, and each number is used (`NumbersUsed`, by the least element whose count reaches it). That data is not released twice is not proved, because it is not so (section 6).

*Request pipe.* What was handled and what is still in the pipe are one sequence (`InPipe`), which only grows at its end; `InOrder` says that it has the requests of each worker, all of them, in their order, `ExitIsLast` that the
exit request is behind them, since the main thread sends it when every worker has ended. A thread that stopped has handled it, hence all.

*Writes.* Those that libuv holds and behind them those in the pipe are in the order they were made (`WritesInOrder`), hence no write is in two places; and a write that is in neither has its account closed: its data
released once and its caller answered once, by whether it was sent (`Accounts`). `CloseIsLast` has what the lua handle sends before its close request, which is why libuv never gets a write by pointer for a socket
that is gone; a write by the shared descriptor finds no socket under it then.

*Accepts.* `AllInOrder` says that the connections among the context's messages are numbered from those it has handed over to those the network thread has sent, in this order. It is stated by `Ordered`, on the positions of the queue,
for packets as well: the next one may be put last and the first one taken away, and messages of other kinds may come and go. `Demanded` is why nobody waits for a connection that is there: one that waits has met no demand, a callback has
its demand at the network thread or in the pipe, and the coroutines are at most as many as the requests, the demand and the connections on their way. It is an inequality, because an accept that timed out leaves its demand behind (section 6).
`ClosedIsTold` says who wakes those that wait at a closed socket: the message that `close` has sent, or a handler that is going to resume at least as many coroutines as wait.

*Reads.* `PacketsPlaced` has each packet in its place: handed to Lua code, overflowed, among the messages, or cached by the network thread; `ErrorIsLast` has none behind an error. `ReadDemand` is the balance of the two threads, which know nothing of each other:
the network thread reads the socket as long as it wants packets, caches none while it does, and, until a callback has been set, requests, demand and packets on their way are exactly as many as the reads that wait and those that timed out.
That is inductive only with the read that has timed out and is not counted yet: `timed_out` counts it when its coroutine has run, which may have started the next read (`TimingOut`).
`ReadBounds` makes the counts bounded by the calls, as `ReadTypeOK` wants: a session waits or was counted, a timer that runs belongs to a session that waits.
`ReadersTold` is `ClosedIsTold` with the overflow: while somebody reads and packets have overflowed, a message is there that drains them, or the loop is at it. Nothing of the kind holds for an error: who waits at a socket that has one is not always told (`ReadErrorReported`, section 6).

*Only model-checked:*

- liveness (fairness and ENABLED are out of the prover's reach): `MessagesProcessed`, `ProcessEnds`, `CallsEnd`, `MatchEnds`;
- `LeftoversDropped` of Shutdown: its actions are Scheduler's with the main thread taking contexts from the joined workers, so that the owner of a context can be the main thread as well, and
 every lemma about owners and references would have to be stated anew for it;
- `WaitersExact` of ContextWait: it speaks of parts of queues selected by a predicate (`SelectSeq`), about which
 the provers know nothing without induction over data; and `CallersKept`, which is it and `RecvsExact` of ContextRecv, where objects are reused;
- what the recursive definitions of BufferPack, TablePack, Framing and of the libraries (`Peg*`, `Pb*`) compute for every input: it would
 need induction over data, which the prover's library cannot instantiate.

## 6 Where the code disagrees with its documentation

- **Safe exit** (`safe_exit`). `src/wiki/Home.md:10` says that the engine exits safely when no context is left.
  `worker_mgr_t::wait` (`worker_mgr.cpp:88`) deletes worker *i* and clears `m_worker[i]` after joining it, while worker
  *i+1* may still be in `steal_context` or in the wake-up loop of `stop`, or the network thread in `push_context`,
  with that index. The run ends one step before a thread uses the deleted worker.
- **Empty queue** (`queue_empty_on_delete`). `~context_queue_t` asserts `m_queue_count == 0` (`context_queue.cpp:16`). A
  sender that passed the check of `context_send` before its receiver was retired may queue it between `pop_all` and the
  deletion of the worker. `LeftoversReleased`, a conjunct of `LeftoversDropped`, says that this is the only way for a context to survive the shutdown.

- **A callback that is never called** (`wait_callback_called`). `src/README.md:72-73` promises to wait for a context "in blocking or nonblocking
  mode". If the context is already gone, `context_wait` sends the wake-up to the caller itself (`context_lua.cpp:1359`) but registers
  the callback only in the other branch (line 1354): the wake-up finds nothing to call.
- **A callback called too early** (`wait_cancel_while_waking`). `wakeup_all` (`ref_sessions_mgr.cpp:93-101`) keeps a pointer to an object while the coroutines it resumes run. One that calls
  `context.wait(b, nil)` empties the object, which is erased and cached; its next `context.wait(e, callback)` gets the same object;
  then `wakeup_noneblocking` calls that callback with the result of *b*, although *e* has not ended.
  *e* goes on to remember the caller, which no longer waits for it: `NoStaleWaiter` without its scope (`astray`) is refuted by the continuation.

The following were met while modelling. A definition of the module states what was expected, TLC refutes it in moments,
and no configuration is kept for it.

- `ContextRecv!RecvsExact` without its scope (`astray`), by the same cause. `wakeup_once` and `wakeup_one_fixed` (`ref_sessions_mgr.cpp:70-91`) keep the object of *h1* while the coroutine they resume runs. Let that one call
  `recv(h2, callback)`, `recv(h1, nil)`, `recv(h2, nil)` and `recv(h1)`: the object of *h1* is cached, then that of *h2*, which is taken for the last call. `check_sessions` then finds the object of before empty, erases the one that *h1* has now, and caches the old one a second time.
  The last `recv` is never woken by a message, and two sources may be given one object.
- `PbTables!TablesExact` without its scope: looking up a name of hash 0, the empty one, where its slot is free, compares with the name of that slot, which is `NULL` (`map.c:386`, `438`).
- `Coroutine!AnswersReachCaller`. `src/README.md:7`: a call "can be called within the lua coroutine where the user creates and it won't impact the normal coroutine procedure".
  Under a `coroutine.wrap`, the answer resumes the replaced `lua_auxwrap` as if it were `coroutine.resume`: it finds no coroutine on its stack, and an error is raised in the caller of the wrapped function.
- A call that cannot yield up to the root (a C function is in between) is to fail and free its data, "clear your data in case of memory leak" (`lua_tcp_handle.cpp:705`). A query
  or a write asks a null root for its context instead (`context_lua.cpp:1102`, `lua_tcp_handle.cpp:706`, `lua_udp_handle.cpp:243`) and the process ends: `fate` = `"crashed"` in Coroutine.
- `TcpRead!ReadErrorReported`. The read error is sent before `m_read_error` is set (`uv_tcp_handle.cpp:439`): a read that starts in between is neither woken by the message nor
  refused, though a comment says "error already occurred in network thread, stop read immediately" (`lua_tcp_handle.cpp:735`).
- `TcpRead!CloseIsSafe`. A callback that closes its socket (`src/README.md:156-157`) while the overflow is drained deletes the buffers the loop goes on to use
  (`lua_tcp_handle.cpp:1067`, `1070`).
- `TcpListen!AcceptCountPrecise`. The count of blocking accepts is said to be imprecise "only if m_has_noblocking_accept has been set true"
  (`uv_tcp_handle.h:53-55`); an accept that timed out leaves its count behind as well (`lua_tcp_handle.cpp:272-278`), and one
  connection is accepted for nobody.
- `SocketWrite!ClosedStaysClosed`. A write through the shared descriptor reaches a UDP socket that is being closed, and libuv opens it again; its `assert` (`deps/uv/src/unix/udp.c:59`) is in the way.
- `Framing!PacketsAccepted`. Lengths of the upper half of a head's range are read back as negative numbers of the signed type (`uv_tcp_handle.h:16-17`, `src/README.md:133`): the reader
  reports `EMSGSIZE` for a packet the writer's option let through.
- `Messages!ReleasedOnce`. What a query sent is still in `m_yielding_message` when the next one of the worker fails.
- lpeg asserts `ndyncap <= captop` (`lpvm.c:165`): `IBackCommit` resets `captop` but leaves the values of match-time captures inside the predicate on the stack. Nothing refers to them any more; they are popped when the match ends.
- lpeg's `hascaptures` follows calls without end in some grammars that `verifygrammar` accepts, such as `S <- {A} B, A <- 'a', B <- 'b' B / 'c'`: compiling it overflows the C stack. `MCLibraries` has no such grammar.
- pbc, `_pack_packed_32` (`wmessage.c:372-394`): packed 32-bit values are written 8 bytes apart into room for 4 bytes each, so that they are read back wrong and the last ones go past what was asked for. `luaclib/pb/test/descriptor.proto:348-349` promises "a single length-delimited blob".
  `WithinBuffer` is about all other writes (`spilt` tells that one of these went past), and `DocumentsExact` leaves out what such a field of several values is read as, when its message was read from those bytes (`Garbled`).
- pbc, `unpack_field` (`pattern.c`) tests a `sint64` for the wire type of a slice: a pattern with such a key does not unpack what has it, which is what `PatternExact`, part of `DocumentsExact`, expects (`TakenForSlice`). A field that is repeated on the wire but not in its type stands twice in the index of `rmessage`.
  The default of a `fixed64` field is lost. `_pack_packed_fixed` demands room for the length a second time. `set_field_one` takes the result 1 of `_pbcM_si_query` for success, so that an unknown default of an enumeration is not reported.
- pbc, `pbc_wmessage_buffer` called twice appends the packed fields and the messages inside a second time.
- BufferPack with another `PREFIX`. `pack` aligns from where it begins to append and `unpack` from the start of the buffer: what is packed behind
  a single byte with alignment is not unpacked as it was. A `pack` that fails leaves the values before it behind.
- `timer.close` with a number that is no longer in use, or that another timer has by now, is not refused: it closes the other
  (`Handles` shows when numbers are free again).

## 7 What is not modelled

- *Shared objects* (`lshared`): a reference count with an atomic decrement, which is Buffer's without the data. The accessors of `lbuffer.cpp` (`find`, `split`, formatting) are sequential string handling.
- *Addresses and descriptors*: getters of addresses, ports and descriptors, TCP options passed on to the kernel, the
  resolution of names, and the creation of the socket pair in `network.cpp` are I/O with no state of their own.
- *`context.suspend`* keeps a session for ever by design; *set-up* of Lua states, arguments and environment; log text and file writing; out-of-memory.
- *Floats* in `pack` are copied or narrowed, which is IEEE arithmetic; in packed tables they are copied.
- `utils`, `sds`, `errors`, `nlmalloc` (wrappers and wording); `timer_mgr.h`, which nothing includes.
- *Vendored code*: Lua, libuv, cjson, lfs and mime. Where the engine depends on what they promise, that is an action of the environment (libuv's callbacks, yields of Lua). cjson is
  half dtoa.c, the conversion of floating-point numbers, and the rest a parser and printer of text.
- *Of lpeg*: `lpeg.locale`, `lpeg.type`, the printing of trees and code, the growth of the arrays of captures and instructions, and errors that Lua functions raise in a match.
- *Of pbc*: the heaps and the pool of strings, the descriptor of descriptors (`bootstrap.c`), extensions in `protobuf.lua`, the parser `parser.lua`, and the other Lua types a 64-bit number can be asked for in (a string of 8 bytes, 52 bits).
- *Lua scripts* under `lualib` and `tests`, `samples`.

Reads of plain (non-atomic) shared fields are modelled as reads of the current value, as on the platforms the Makefile builds for.

## 8 Plan

All components of the engine's own code have their module, and so have lpeg and pbc. What is left is to prove more:

1. ContextWait: `NoForgottenWaiter`, with queues as functions on positions in place of `SelectSeq`, as TcpRead and TcpListen have them.
2. Shutdown: ownership with the main thread as one more kind of owner.
3. PbTables, with recursive functions in place of recursive operators: that chains are disjoint and lead to their keys.

## 9 Running it

    tlc -workers 2 -config Scheduler.cfg MCScheduler
    tlapm SchedulerSafety.tla

The module of each configuration is named in `PROJECT.json` (`runs`), as are, for each property of a passing run, a
mutated definition under which TLC finds it violated (`mutants`), and the source lines behind every definition (`map`).
Every run takes four minutes or less on two cores, the proofs of a module up to ten minutes.
