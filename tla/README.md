# TLA+ models of the CMU 15-213 lab code

This directory models the programs of the repository that have behaviour worth
verifying: the job-control shell (`shlab-handout/tsh.c`), the concurrent
caching proxy with the web server behind it (`proxylab-handout/`), the four
allocators with the driver that judges them (`malloclab-handout/`), the proxy
test driver (`pxydrive-tutorial/pxy/`), and the sequential programs of the
cache, data and C labs. TLC checks them on small instances; TLAPS proves every
safety property of shell, proxy and test driver, of the malloc driver with
`mm_blk.c`, and most of those of the sequential programs, for every value of the
constants. `PROJECT.json` lists components,
runs, the lines each definition models, the hazards and the theorems.

Contents: 1 inventory, 2 plan, 3 the modules, 4 the runs, 5 fairness,
6 the proofs, 7 findings, 8 observations without a run, 9 what is not modelled,
10 how to run.

## 1. Inventory

The repository is a set of independent programs, one directory per lab. They do
not call each other; the interactions below are inside a program.

### 1.1 tsh, the job-control shell (`shlab-handout/tsh.c`)

| part | state | operations |
|---|---|---|
| job list | `jobs[MAXJOBS]`, `nextjid` | `addjob`, `deletejob`, `clearjob`, `initjobs`, `maxjid`, `fgpid`, `getjobpid`, `getjobjid` |
| main program | its point of control, the locals of `eval`, `do_bgfg`, `waitfg`, the signal mask and the `mask_prev` to restore | `eval`, `do_bgfg`, `waitfg`, `do_quit` |
| handlers | the loop of `waitpid` | `sigchld_handler`, `sigint_handler`, `sigtstp_handler`, `sigquit_handler` |
| kernel and children (external) | pending signals, life and report of each child | `fork`, `setpgid`, `execve`, `kill`, `waitpid`, `sigsuspend`, the keyboard |

*Interaction.* The handlers run on the main program's stack between any two of
its instructions at which their signal is unblocked, and both sides write the
job list. The children talk to the shell through `SIGCHLD` (which does not
queue) and `waitpid`; the shell talks to them through `kill` of a process group.

*Hard.* Which windows have signals blocked; a child that ends, stops or
continues in any of them; merged `SIGCHLD`s and merged reports; a pointer into
the list kept across a window; a wakeup lost before `sigsuspend`; a full list;
reuse of pids; `nextjid` going round.

*Correct when* the list never names a process that does not exist, never names
one twice, leaves out no child while it has room, agrees with the processes
about who is stopped; at most one job is in the foreground and the prompt is
withheld exactly while it is; zombies are reaped.

### 1.2 The proxy (`proxylab-handout/`)

| part | state | operations |
|---|---|---|
| connection queue | `struct queue_t`: ring `buf`, `front`, `rear`, `size`, one mutex, one condition variable | `queue_init`, `queue_push` (accept loop), `queue_pop` (workers) |
| object cache | `caches[MAX_CACHE_SIZE]`, `cache_size`, `read_cnt`, `write_cnt`, `timestp`, one mutex, one condition variable | `cache_init`, `cache_src`, `cache_add` |
| requests | descriptors, buffers of one request | `main`, `client_func`, `do_request`, `parse_uri`, `build_headers`, `clienterror` |
| Rio (`csapp.c`) | `rio_t`: buffer, count, position | `rio_readn`, `rio_writen`, `rio_read`, `rio_readnb`, `rio_readlineb` |

*Interaction.* `main` accepts and pushes descriptors; seven workers pop them and
run `do_request`, which looks the url up in the cache, answers a hit from it and
otherwise fetches the object from the server, forwards it and adds it. Queue and
cache are shared memory; the client and the server are at the other ends of
sockets.

*Hard.* Pushers and poppers, and readers and writers, sleep on one condition
variable each; `cache_src` signals one thread where `cache_add` broadcasts; the
entries are read and written with the mutex free; two workers miss one url at a
time; the eviction order depends on time stamps written by concurrent readers.

*Correct when* a connection is served by one worker, in order, and the accept
loop is never stuck; a writer is alone in the cache; a hit sends the whole
object asked for; no wakeup is lost; what is evicted is the least recently used.

### 1.3 The allocators and their driver (`malloclab-handout/`)

| part | state | operations |
|---|---|---|
| memory (`memlib.c`) | the arena's words, `mem_brk` | `mem_init`, `mem_reset_brk`, `mem_sbrk` |
| `mm.c` | blocks with header and footer; list heads by size class, in the heap | `mm_init`, `mm_malloc`, `mm_free`, `mm_realloc`, `extend_heap`, `coalesce`, `find_fit`, `place`, the lists |
| `mm_right.c` | the same, another class function, best fit | the same |
| `mm_list.c` | one list, its head a static variable | the same, first fit |
| `mm_blk.c` | the blocks alone | the same, a walk over all blocks |
| driver (`mdriver.c`) | a trace, the list of ranges, `blocks`, `block_sizes`, errors, totals | `read_trace`, `add_range`, `remove_range`, `eval_mm_valid`, `eval_mm_util`, `eval_mm_speed` |
| driver's `main` | options, the statistics of each trace, errors | `getopt`, the team, `eval_libc_valid`, `eval_libc_speed`, `printresults`, the index |
| timers (`fsecs.c`, `fcyc.c`, `clock.c`, `ftimer.c`) | the counter's words, `cyc_per_tick`, the K best samples | `get_counter`, `callibrate`, `get_comp_counter`, `add_sample`, `has_converged`, `fcyc`, `ftimer_itimer`, `ftimer_gettod` |

*Interaction.* The driver calls one allocator, which calls `memlib.c`; all three
share the bytes of the heap, of which the driver writes the payloads and the
allocator the tags and, in free payloads, the links. One heap is used for replay
after replay: `mem_reset_brk` takes the break back and leaves the words.

*Hard.* A wrong tag or link is believed many calls later; a reallocation reads
the old payload after the heap has changed; memory runs out anywhere; what is
left of the last replay.

*Correct when* the tags describe the heap, the lists hold exactly the free
blocks, payloads are aligned, disjoint and keep their contents, and the driver's
verdict and totals are right; when the index is given exactly for a package with
no invalid trace, from the files the options name and the times the runs took.

### 1.4 The proxy's test driver (`pxydrive-tutorial/pxy/`)

| part | state | operations |
|---|---|---|
| event manager (`events.py`) | events, `waitingEvents`, `completedEvents`, one lock, one event to sleep on | `addEvent`, `makeMatchEvent`, `addCompleted`, `waitActive`, `stop` |
| request generator (`agents.py`) | a thread and a socket per request | request, read the answer, compare |
| server (`agents.py`) | accept loop, a thread per connection, deferred responses | read the header, match it, wait, respond |
| commands (`pxydrive.py`, `console.py`) | the script, its errors, the proxy's process | request, fetch, respond, wait, check, disrupt, proxy, quit and finish |
| the proxy under test (external) | - | forwards, corrupts, strips, duplicates, drops, hangs up, crashes |

*Hard.* Completions before and after the wait for them, in any order; a wait
that fails half way; a response deferred for ever; a proxy that does anything, or
is started again while transfers run; the end of all threads.

*Correct when* a wait that reports nothing pending means that the requests are
over, `ok` means that the right bytes arrived, and the driver always ends.

### 1.5 The sequential programs

| component | state | operations | hard | correct when |
|---|---|---|---|---|
| Rio (`csapp.c`) | buffer of unread bytes | `rio_readn`, `rio_writen`, `rio_read`, `rio_readnb`, `rio_readlineb` | short counts, EINTR, EOF in any order | nothing is lost, doubled or reordered |
| sockets (`tiny/csapp.c`) | open descriptors, the address list | `open_clientfd`, `open_listenfd` | any call fails at any address | one socket, the first that works, nothing left open |
| cache simulator (`cachelab-handout/csim.c`) | sets of lines with time stamps | one access | ties, renewal on a hit | hits, misses, evictions are those of an LRU cache |
| transposes and their grading (`trans.c`, `tracegen.c`, `test-trans.c`, `driver.py`) | two matrices, registers, a simulated cache | blocked loops, `validate`, the score | parts of A parked in B | `B` is the transpose, with full marks |
| bit puzzles (`datalab-handout/bits.c`, `tests.c`, `btest.c`) | none | 15 functions, their tester | single arguments at the edges | equal to the reference |
| bootcamp queue (`cbootcamp/extras/ref-queue.c`) | doubly linked list | `enqueue`, `dequeue`, `find_object` | the last node | a FIFO |
| tiny (`proxylab-handout/tiny/tiny.c`) | one connection at a time | accept, serve static, serve dynamic | a fork that fails half way, SIGPIPE | with the proxy, 1.2 |
| bomb, target, rec, phases | none | single functions, binaries, data | - | not modelled |

## 2. Plan

Order: the two programs with real concurrency first, then the sequential data
structures whose bugs need a long sequence of calls, then the rest.

1. *Done, with proofs:* `JobList` → `TinyShell` (composition of list, main
   program, handlers and kernel), `JobIds`; `ConnFifo` ← `ConnQueue`;
   `LruCache` ← `ProxyCache`.
2. *Done, with proofs:* `TinyServer` → `ProxyRequest`, which composes clients,
   threads, queue and cache in their abstract forms, and the server;
   `EventManager` → `PxyAgents` → `PxyDrive`.
3. *Done, model-checked, with proofs for `BlockHeap`:* `BoundaryTags` →
   `SegregatedHeap`, `BestFitHeap`, `ListHeap`, `BlockHeap` → `MallocDriver`, which
   refines `AbstractHeap`.
4. *Done, with proofs for all but puzzles and transposes:* `CacheSim` →
   `Transposes`, `Words` → `BitPuzzles`, `RioBuffer`, `OpenSockets`, `RefQueue`,
   `CycleTimer`, `MdriverMain`, together in `Handouts`.
5. *Proofs still to do:* for the allocators with lists, that their links describe
   the free blocks; the layouts of `BlockHeapProofs` serve for their tags too.

Runs are kept to one per question. Modules that are proved about declare no `RECURSIVE`
operator and have their parameters as constants with named assumptions.

## 3. The modules

| module | models |
|---|---|
| `JobList` | the job list as operators on `jobs` and `nextjid` |
| `JobIds` | jobs that come and go in any order, for the identifiers alone |
| `TinyShell` | the shell: main program, handlers, kernel, children, user |
| `MCTinyShell` | values of its constants for TLC |
| `TinyShellProofs` | lemmas on the list; theorems on the shell |
| `ConnFifo` | what the connection queue promises |
| `ConnQueue`, `MCConnQueue` | the ring buffer with its condition variable |
| `ConnQueueProofs` | invariant and refinement of `ConnFifo` |
| `LruCache` | what the object cache promises |
| `ProxyCache` | `cache_src` and `cache_add` as threads run them |
| `ProxyCacheProofs` | the lock, the entries, the copies and the wakeups; lists ranked by time stamps and the refinement of `LruCache` |
| `TinyServer` | Tiny, one connection after the other |
| `ProxyRequest`, `MCProxyRequest` | clients, main, the workers' `do_request`, over `TinyServer` |
| `ProxyRequestProofs` | a request from `accept` to `close`, and its answer from the file to the client |
| `BoundaryTags` | the arena and the block format the allocators share |
| `SegregatedHeap`, `BestFitHeap`, `ListHeap`, `BlockHeap` | `mm.c`, `mm_right.c`, `mm_list.c`, `mm_blk.c` |
| `AbstractHeap` | what an allocator promises |
| `MallocDriver` | `mdriver.c` over any of the four |
| `BlockHeapProofs` | what `mm_blk.c` does to a layout of blocks |
| `MallocDriverProofs` | the driver with `mm_blk.c`: tags, replays, utilisation, refinement |
| `EventManager` | `events.py`, a method per operator |
| `PxyAgents` | the driver's threads and the proxy under test |
| `PxyDrive`, `MCPxyDrive` | commands, finish; the scripts and proxies checked |
| `PxyDriveProofs` | what wait and check mean, for any scripts and proxies |
| `Words`, `BitPuzzles` | 32-bit C arithmetic; solutions, references and `btest` |
| `CacheSim` | `csim.c` beside an LRU list |
| `Transposes` | the transposes as loads and stores, traced and graded |
| `RioBuffer` | the Rio package over a slow pipe |
| `OpenSockets` | `open_clientfd` and `open_listenfd` where any call may fail |
| `RefQueue` | `ref-queue.c` beside a sequence |
| `CycleTimer` | `fsecs.c` with `fcyc.c`, `clock.c`, `ftimer.c` |
| `MdriverMain` | `mdriver.c`'s `main`, trace by trace |
| `Totals` | the loop that adds up a sequence |
| `Handouts`, `MCHandouts` | the last eight programs and `btest`, one at a time |
| `HandoutsProofs` | Rio, sockets, `csim`, the queue, the timers and `mdriver.c`'s `main` |

Definitions whose comment begins "Faulty variant" are not part of any
specification. Each is an action or operator with one plausible mistake in it;
put in the place of the definition below it, it makes the property it is listed
with in `PROJECT.json` fail, which shows that the property depends on that line
of the code.

### JobList and JobIds

`jobs[]` is a function from slots `1..MAXJOBS` to records of pid, jid and state;
slot 0 stands for the `NULL` the lookups return. A C routine that changes both
`jobs` and `nextjid` is two operators (`addjob`/`addjobNext`,
`deletejob`/`deletejobNext`). The command line kept in an entry is left out.
`JobIds` applies them to arbitrary pids in arbitrary order.

### TinyShell

An action is a stretch of code in which no handler can run or nothing it
touches is shared. The window between two actions is a window of the code: the
actions `BgFgCont`, `BgFgSetState` and `BgFgCallWaitfg` are the three uses
`do_bgfg` makes of its pointer with signals deliverable, `WaitfgTest` and
`Sigsuspend` the two halves of `waitfg`'s loop.

| variable | in the code |
|---|---|
| `jobs`, `nextjid` | the globals of lines 44-53 |
| `pc`, `fg`, `cur`, `slot` | the main program's position and the locals `bg`, `pid`, `job` |
| `mask`, `prev` | the process's signal mask and `mask_prev` |
| `pend` | signals posted to the shell and not delivered |
| `hpc`, `got` | the position of `sigchld_handler`; the last pid and status of `waitpid` |
| `proc` | per child: life, report for `waitpid`, mask, pending signals |

The shell: `RunCommand`, `Fork`/`ForkFails`, `AddJob` (`eval`); `WaitfgTest`,
`Sigsuspend`, `SigsuspendReturn` (`waitfg`); `LookupJob`, `BadArgument`,
`BgFgCont`, `BgFgSetState`, `BgFgCallWaitfg` (`do_bgfg`); `Quit`; `ChldEnter`,
`Reap`, `ReapNone`, `ApplyEnded`, `ApplyStopped`, `ApplyContinued`,
`ApplyUnlisted` (`sigchld_handler`); `Forward` (`sigint_handler`,
`sigtstp_handler`); `SigquitHandler`. A child between `fork` and `execve` runs
the shell's code (`ChildStart`, `ChildExec`, `ChildExecFails`,
`ChildSwallows`); after it, a program that may exit, be killed, stop and be
continued. `waitpid` returns any child with a report; a newer report replaces
an older one, as the kernel's wait status does. A stop signal and `SIGCONT`
cancel one another while pending.

`BadArgument` keeps the mask leak of lines 328-338 as it is, `ApplyUnlisted`
the `NULL` dereference of 421 and 428.

### ConnQueue and ConnFifo

`PushDone`, `PopDone` and the waits are one critical section each; a thread
that waits goes back to `"testing"` when it is woken, by a broadcast or for no
reason, and has to test again. `CallPush` brings a descriptor the kernel has
just handed out, hence one that is not open elsewhere in the program; `CallPop`
is the next round of `client_func`, which has closed the last one. `ConnFifo`
is a queue of at most `Cap` connections with atomic push and pop and one owner
per connection.

### ProxyCache and LruCache

A worker is at one of sixteen points of `cache_src`, the fetch, and
`cache_add`. Whatever lies outside the mutex and can be observed is a step of
its own: the scan, the time stamp, the write to the client, the copy of the
url, of the content, the growth of `cache_size`. The content of an object is
named by its url, so "the right object, whole" is `url = content = uri`.
`GiveUp` stands for every way in which a fetched object is not added.
`LruCache` is a list in order of use, from which only the last is evicted.
Refinement mapping: the live entries less the one being filled, by time stamp.

### ProxyRequest and TinyServer

The queue is `ConnFifo`, the cache a list by use as in `LruCache`: `ConnQueue`
and `ProxyCache` implement these, so the composition is made of what they
promise. A worker's position is a stretch of `do_request` between two calls that
block or that others can see. A page or an answer is a sequence of lines; an
object's size is its number of lines, so `MAX_OBJECT_SIZE` is met and exceeded.
`Relay` counts every line and keeps those that fit, as the code does with
`total_size`. `build_headers` keeps the code's reversed test (337) and its
uninitialised buffer (330): what that holds is any of `Leftovers`. A failing
wrapper is `Exit`: it ends every thread. A client may `Reset` at any time after
it connected, and the proxy meets that at its next read or write. `dropped` is
the state of a connection whose descriptor `main` forgets at 183.

Tiny accepts one connection at a time; it dies of SIGPIPE, of a failing `Fork`
after its first lines, and reads an empty request for ever (`tiny.c:110`). Its
end resets every link, so a truncated answer reaches the proxy as an end of file.

### The allocators and MallocDriver

A heap is a record of words, the break and `mm_list.c`'s static head; a routine
that writes it is an operator that returns the new one. Addresses are byte
offsets, tags and links are words of the same memory as the payloads: nothing
keeps the client and the allocator apart but the code's arithmetic. The constant
sizes of the code (`CHUNKSIZE`, `CLASSNUM`, `MAX_HEAP`) are parameters. Requests
are multiples of a word.

`MallocDriver` reads any trace that makes sense and replays it through
`eval_mm_valid`, `eval_mm_util` and, as often as the timer likes,
`eval_mm_speed`. A payload is filled with a value no tag or link has.
`Restartable` leaves out `mm_list.c`, whose `mm_init` keeps the last replay's
list head: the first insertion then writes a link to wherever that head pointed,
which may be the footer of the first chunk. With it among them and requests of
12 and 28 bytes `TagsAgree` fails: allocate 28, free, allocate 12, replay. (With
8 and 28 bytes no old head lies on that footer.) The lists and tags of
`mm_list.c` are therefore checked for the first replay only.
Refinement mapping: the live payloads, each with the words the heap holds there.

### EventManager, PxyAgents and PxyDrive

Every method of the event manager holds its mutex from beginning to end
(`waitActive` twice), so each is an operator from the shared state to the next.
A step of a client's or a handler's thread ends where it blocks on a socket or
an event or calls the manager. The proxy is a set of habits: which messages it
may make of a request, which bodies it may answer with, how often it may forward,
whether it may hang up or crash, and whether it starts; nothing else constrains
it. It is `"up"`, or `"down"` (it has crashed and is still the one that requests
go to), or `"none"`: the command `proxy` takes it away, and gives the new one's
address only after a second (`doProxy`, then `ProxyStarts`). A client that comes
to compare its file in between ends in `"panic"` (`agents.py:823`). A response's
`wait` is `released` by `respond` or by the shutdown. A timeout of `wait` may come
at any moment. A wait with an unknown name fails, but the names before and after
it are known and have left `activeEvents` by then. `seen` is a history variable:
what the script has learnt of a request, and whether `wait *` has `forgotten` it.

### The sequential programs

`Words` represents a machine word by the set of its bits that are one; every
operator of C the puzzles use is defined on it. `BitPuzzles` has the solutions,
the references and `btest`'s choice of arguments, the whole table or one function
with arguments given by the user. `Transposes` writes each loop body as the
loads and stores the compiled code makes to the matrices, runs them against
memory and `CacheSim`, and adds up the driver's points. `RioBuffer`'s system
calls move any positive number of bytes up to what was asked for, or are
interrupted. `RefQueue` has nodes at addresses with `next` and `prev`.
`CycleTimer` reads the cycle counter as two words of a small size, from any place
it may stand at, and compares what the code keeps with what the runs really took;
`config.h` chooses `gettimeofday`, the model has all three schemes; the interval
timer ends the process when it runs out (`"killed"`). `MdriverMain` takes a
trace's verdict, utilisation and seconds as inputs, since `MallocDriver` and
`CycleTimer` model where they come from. A directory is one of three names, of
which `TRACEDIR` has no slash, and the index is any number `%.0f` may print.

## 4. The runs

| run | instance | shows |
|---|---|---|
| `shell_jobcontrol` | 2 pids, 2 slots, `fg`, `bg`, a bad argument, ctrl-c, ctrl-z, jobs that stop themselves | `TypeOK`, `NoPhantomJob`, `OneEntryPerPid`, `ChildrenListed`, `ForegroundHeld` |
| `shell_children` | 2 pids, **1** slot, no `fg`/`bg`; stop and continue from outside, failing fork and exec, SIGQUIT | `SettledStates`, `ForegroundNotDemoted`, `ZombiesReaped` |
| `shell_waitfg` | 1 pid, one foreground job | violated: `WaitfgReturns` |
| `shell_stale_job` | 1 pid, `fg` | violated: `NoRevivedEntry` |
| `jobids_wrap` | 4 slots, 4 pids | violated: `UniqueJids` |
| `conn_queue` | 1 pusher, 3 poppers, ring of 2, 4 descriptors | `TypeOK`, `OneOwner`, `FifoSpec`, `PushCompletes` |
| `proxy_cache` | 3 threads, 2 urls, 2 entries, no lookup after the 4th stamp | `TypeOK`, `Exclusion`, `HitServesOwnObject`, `SleepersHaveWaker`, `CopiesBounded`, `LruSpec`, `LookupsProceed` |
| `malloc_driver` | 4 allocators, 128 bytes, chunks of 32, 3 ids, requests of 8 and 28 bytes, 5 requests in at most 2 traces | `TypeOK`, `TagsAgree`, `FreeListsExact`, `DriverSatisfied`, `UtilisationSound`, `HeapSpec` |
| `proxy_requests` | 2 workers, 2 connections, a queue and a cache of 1, objects below 3 lines | `TypeOK`, `Descriptors`, `CacheSound`, `Answered`, `RequestsEnd` |
| `proxy_addresses` | the same with one host, both addresses down | violated: `RequestsEnd` |
| `pxydrive` | 2 requests, 2 connections, 17 pairs of script and proxy | `TypeOK`, `WaitMeansDone`, `CheckSound`, `DriverFinishes` |
| `handouts` | `btest` over ranges of 8 and given arguments; traces of 5 accesses; the graded sizes; 6 bytes through a buffer and a pipe of 3; lists of 3 addresses; 4 nodes; K up to 3, 4 samples, words of 16; 2 options, 2 trace files | `PuzzlesRight`, `SimulatorExact`, `TransposeScores`, `CsappKept`, `QueueRight`, `IndexFromTimes` |

What the runs over the allocators, requests, driver and handouts show:
- `TagsAgree`: between requests the headers lead from the prologue to the break,
  footers repeat headers, no two neighbours are free, and the allocated blocks
  are the live payloads. `FreeListsExact`: every free block is in the list of its
  size and no other, and the lists can be walked both ways. `DriverSatisfied`:
  the driver finds no fault except that memory has run out. `UtilisationSound`:
  its total is the sum of the live sizes and its high-water mark is at most the
  heap. `HeapSpec`: the allocators implement disjoint ranges that keep their
  contents, over all replays.
- `Descriptors`: an accepted connection is in exactly one pair of hands until it
  is closed. `CacheSound`: nobody looks into the cache before `cache_init`, and
  entries are whole answers to their uri, unless the server died. `Answered`: a
  client gets the answer to its own request, once. `RequestsEnd`: an accepted
  connection is closed in the end, though other clients' servers never answer,
  while a worker is left.
- `WaitMeansDone`, `CheckSound`, `DriverFinishes`: as in 1.4. The first says of a
  `wait *` that reports nothing that every fetch is over but those it has forgotten
  (section 8).
- `PuzzlesRight`: over the range `btest` generates every solution is right; on
  given arguments all but the two deviations of section 8 are. `SimulatorExact`,
  `TransposeScores` (every transpose correct where it is done, 26 points),
  `QueueRight`: as in 1.5. `CsappKept` is `RioDelivers` and `SocketsKept`;
  `IndexFromTimes` is `KBestKept`, that the timers keep the least of what the runs
  took, and `IndexRight`, what `main` makes of it: which files are read, and that
  none is without `-f` or `-t`; the index exactly when every trace is valid; at
  most 40 of it, and a half for the rounding, from throughput.

*Bounds, and why they are enough.*
- Shell: two pids are the fewest with which one job is in the foreground while
  another changes state, and a pid is reused while another job is listed. Two
  slots make room for both; one slot makes the list overflow. `JidBound` only
  stops new commands once `nextjid` has passed it; since `deletejob` lowers
  `nextjid`, jobs can be started again and again.
- Identifiers: four slots are the fewest in which a wrapped identifier meets a
  live one (job 1, another job with an id of at least 3, and two free slots);
  `MaxJid` lets `nextjid` pass `MAXJOBS`.
- Queue: main has 7 workers and a ring of 9, so poppers asleep and a full ring
  cannot occur together there, and a signal would do for the broadcast. The
  model has more poppers than slots, where it would not: it checks the queue,
  not only main's use of it. Four descriptors allow reuse while others wait.
- Cache: two threads that write and one that reads show every pair of roles
  with a third thread asleep; two entries with two urls give hits, double
  entries and evictions. `TimeBound` stops new lookups, not threads inside, so
  up to three stamps beyond it occur.

- Allocators: 128 bytes hold two small blocks and a large one, or are exhausted
  by two large ones; 28 bytes need a rounded block that splits off one too small
  and one large enough. Three ids and five requests free both neighbours of a
  block and reuse the merged one. Two traces restart in a used heap. Four size
  classes are the fewest in which a request looks past its own class.
- Requests: two workers, so that one can be held by a server that never answers;
  a queue of one is full with one connection in main's hands; a cache of one
  evicts; two objects, of which one has as many lines as the limit.
- pxydrive: two requests can be mixed up; two connections let a proxy forward one
  request twice. Each of the scripts is a handful of commands, in the tutorial's
  style; two of them wait for a name that is not there and take the proxy away
  during a fetch. The proxies cover every way the handler and the client tell apart.
- Handouts: `csim` with two sets (one bit), blocks of two bytes, one and two lines
  per set and five addresses meets hits, conflicts and evictions in every order. The floats given to `btest` have every
  exponent at which a solution branches and fractions 0, 1, all ones and between.
  Three bytes of buffer are less than a line and than what is asked for. With words
  of 16 every run of the timer carries from the low word of the counter to the high
  one or wraps both, and the interval timer of 5 seconds runs out in some runs.
  Two options name a file and a directory in both orders; utilisations of 50, 99 and
  100 percent make indices that are rounded both ways.

`CHECK_DEADLOCK FALSE` is set where the system may really stop: the shell has
quit, failed or (in the violation runs) sleeps for ever; identifiers or time
stamps have reached their bound; all clients are served and Tiny is idle; the
traces, the script or the inputs are used up.

`SettledStates` is checked without `fg` and `bg` among the commands: with them
it is false, because of the window in section 8, third item.

## 5. Fairness

- *Shell.* Weak fairness of the main program's and the handler's steps and of
  each child between `fork` and its program: these are processes the kernel
  schedules. Strong fairness of the delivery of signals: a signal that is
  pending is delivered when the shell next returns from the kernel with it
  unblocked, and `sigprocmask` does not return before, so a mask that opens and
  closes for ever cannot keep it out. The user, the programs and the outside owe
  nothing: a job may run for ever.
- *Queue.* A thread that wants the mutex gets it, and a worker comes back for
  the next connection. The second assumes that each `do_request` ends, which
  `RequestsEnd` shows outside the case of `proxy_addresses` and silent servers. Connections and spurious wakeups are
  not owed.
- *Requests.* Weak fairness of main, of each worker and of Tiny: threads and
  processes the kernel schedules. Clients, resets and silent servers owe nothing.
- *pxydrive.* Weak fairness of the main thread and of each thread the driver
  starts. Nothing is asked of the proxy: it need not answer, forward or end.
- *Cache.* Weak fairness of every thread's own steps, the write to the client
  included (clients read in the end). No request need come. Writers may starve:
  `cache_src` counts itself before it waits, so lookups that overlap for ever
  keep `cache_add` out. Only lookups are promised progress.

`ZombiesReaped` excepts the case in which another child stops and continues for
ever: `waitpid(-1)` promises no order, so the handler may be kept in its loop.

## 6. The proofs

All theorems are about `Spec`, without fairness, and hold for every value of the
constants that satisfies the named assumptions; TLC evaluates these on the
runs. They are:

- shell: `MAXJOBS` positive, pids positive, `Keys` and `Outside` sets of the
  modelled signals;
- queue and cache: `Cap`, `MaxCache` positive; pushers and poppers different
  threads; `NoConn`, `NoUrl` no connection, no url; finitely many cache threads;
- requests: `Cap`, `MaxCache`, `MAX_OBJECT_SIZE` positive; `NoConn`, `NoPeer` no
  connection; request lines and files of the modelled kinds; every uri is
  parsed to a host and a path;
- allocators and driver: `MAX_HEAP` and `CHUNKSIZE` multiples of 8, the latter at
  least a block; requests positive multiples of a word;
- pxydrive: no id is called `"none"`; scripts are sequences of commands whose
  arguments `console.py` has parsed; the limit of errors is positive.
- sequential programs: lengths, amounts, numbers of lines, samples and seconds
  are naturals, those of a buffer, a word of the counter or a trace positive;
  `2^s` and `2^b` are positive, as they are for every `s` and `b` (the prover does
  not evaluate powers); a run is shorter than the counter takes to come round, and
  a trace uses at most all of the heap.

The bounds (`JidBound`, `TimeBound`) are arbitrary, so the proofs cover the
unbounded systems; time stamps, addresses and sizes are naturals there, without
the overflow of section 8. Each proof has the same shape: `Init => IInv`,
`IInv /\ [Next]_vars => IInv'` with one lemma per action or group of actions, and
`IInv` implies the property. Every conjunct of an `IInv` has been checked by TLC
on the run's instance before it was proved, but for `CourseInv` of
`MallocDriverProofs`, which says that a sequence of layouts exists.

| module | theorem | property |
|---|---|---|
| `TinyShellProofs` | `TypeCorrect`, `PhantomFree`, `EntriesDistinct`, `ForegroundExclusive`, `NoDemotion` | `TypeOK`, `NoPhantomJob`, `OneEntryPerPid`, `ForegroundHeld`, `ForegroundNotDemoted` |
| | `ReportsWatched`; `AllListed`, `StatesSettle` (each with a hypothesis) | `WatchInv`; `ChildrenListed`, `SettledStates` |
| `ConnQueueProofs` | `TypeCorrect`, `OwnersUnique`, `Refinement` | `TypeOK`, `OneOwner`, `FifoSpec` |
| `ProxyCacheProofs` | `TypeCorrect`, `WriterExcludes`, `HitIsWhole`, `WakeupsKept`, `CopiesLimited`, `Refinement` | `TypeOK`, `Exclusion`, `HitServesOwnObject`, `SleepersHaveWaker`, `CopiesBounded`, `LruSpec` |
| `ProxyRequestProofs` | `TypeCorrect`, `OneOwner`, `CacheSoundness`, `EveryoneAnswered` | `TypeOK`, `Descriptors`, `CacheSound`, `Answered` |
| `MallocDriverProofs` (with `mm_blk.c`) | `TypeCorrect`, `TagsDescribe`, `Satisfied`, `Utilisation`, `Refinement` | `TypeOK`, `TagsAgree`, `DriverSatisfied`, `UtilisationSound`, `HeapSpec` |
| `PxyDriveProofs` | `TypeCorrect`; `WaitHonest`, `CheckHonest` (with hypotheses) | `TypeOK`; `WaitMeansDone`, `CheckSound` |
| `HandoutsProofs` | `CsappCorrect`, `SimulatorRight`, `QueueCorrect`, `IndexCorrect` | `CsappKept`, `SimulatorExact`, `QueueRight`, `IndexFromTimes` |

- **TinyShellProofs, the list.** `NoPhantomJob` is not inductive: `addjob`
  could list a child the handler has already waited for. `ForkGuarded` (from
  before `fork` to `addjob` no handler runs and SIGCHLD is blocked) and
  `NewChild` (so the new child exists and is not listed) exclude that;
  `ZombieReports` says that a child leaves `proc` only with its end in the
  handler's hands. `ForegroundInv` says where the main program is while an
  entry is in the foreground; `JobPointer` bounds `do_bgfg`'s pointer. Lemmas on
  the list (which slot changes, that distinct pids stay distinct) come first.
- **TinyShellProofs, the reports.** `WatchInv` follows a change of a child's state:
  its report is unconsumed, and then SIGCHLD is pending or the handler is in its
  loop; or it is in the handler's hands, and describes the child unless a newer
  report waits. Signals merge and reports overwrite one another, and this still
  holds. `AllListed` assumes a slot for every pid
  (`Cardinality(Pid) <= MAXJOBS`): with fewer, `addjob` fails and a later report
  dereferences `NULL` (section 8). `StatesSettle` assumes scripts without `fg`
  and `bg`: with them the property is false, by the window of section 8, third
  item. `ListedInv` and `ShownInv` are what each adds to `WatchInv`.
- **ConnQueueProofs.** `IInv` adds to `TypeOK` that `rear` is `front + size`
  modulo the capacity, that queued descriptors are pairwise different and in
  nobody's hands, and what each thread holds by its position. The lemmas
  `PosValue`, `PosInjective`, `PosAdvance` do the modular arithmetic once;
  `PushEffect` and `TakeEffect` say what a step does to the ring seen from
  `front`, from which both the invariant and the refinement follow.
- **ProxyCacheProofs.** The counters are cardinalities of sets of threads
  (`LockInv`), which gives exclusion; `EntryInv` says that an entry is whole
  unless a writer is between its url and its content, which with exclusion gives
  whole hits; `WaitInv` says who will wake each sleeper; `SlotInv` where each
  thread's index points. `CopiesBounded` is a trade: a thread that misses becomes
  one that is yet to add, which it may only while no copy is there; one that adds
  turns itself into a copy; so the sum grows only while it is the number of
  threads that missed.
- **ProxyCacheProofs, the order of use.** Live entries have pairwise different stamps, so their ranks
  are `1..n` and the list is well defined. A renewed stamp moves an entry to the
  front and leaves the order of the others (`Touch`), the victim `cache_add`
  picks is the last (`Evict`), the new entry with its stamp comes first
  (`Insert`), and every other step leaves the list as it is. Readers renew
  stamps while others scan; the scan of `cache_add` is safe because a writer is
  alone.
- **ProxyRequestProofs.** `OwnerInv` and `Positions` say who holds a connection at
  each label of `do_request`, on every early return. The answer is followed from
  the page of Tiny to the client: `LinkInv` (what is still on the connection to
  the server, with what the client has, is an answer to this request), `RelayInv`
  (what has been relayed), `BufferInv` (the copy is the same while it fits below
  `MAX_OBJECT_SIZE`, by the count `total_size` also when it no longer does),
  `EntryInv` (so only whole answers are added), `ClientInv` (and a hit is one).
  When a wrapper has ended the process only the types are kept.
- **BlockHeapProofs.** Properties of the heap's words are proved through layouts: a
  layout is the set of blocks that tile the heap from the prologue to the break,
  with sizes and an allocated bit, and `Tags` says that the words at the two ends
  of each block are its header and footer. A lemma per routine reads only tags,
  hence knows what the routine sees, and computes the layout it leaves: `MarkSpan`
  and `MarkCut` for the writes, `CoalesceJoins` for the four cases of `coalesce`,
  `WalkSteps` and `LowestFits` for first fit, then `InitStarts`, `MallocAllocates`,
  `FreeFrees`, `ReallocMoves`. Each also says that no word of another allocated
  payload is written. `Apart` (no two free blocks side by side) is kept because a
  freed or new block is coalesced with both neighbours at once.
- **MallocDriverProofs.** `TagsAgree` is not inductive: that a later replay finds
  memory for what `eval_mm_valid` was given needs that the allocator decides by the
  layout alone, and so repeats its choices from the same start whatever
  `mem_reset_brk` left behind. `CourseInv` keeps that course, a layout and an
  address for every live id after each request, known as far as `Known`:
  `eval_mm_valid` extends it with each request served (`AdvanceValid`), the other
  replays follow it (`AdvanceAgain`), and a request on the course cannot fail.
  `RecordInv` relates `block_sizes`, the ranges and the fill values to the trace,
  which makes `eval_mm_valid` accept what it is given (`AcceptRecords`,
  `FindsPreserved`). `Serves` says of a request what it does to the payloads; the
  refinement is its four cases. `AccountInv` keeps `eval_mm_util`'s sum: the sum
  over the live ids changes by one id at a time (`SumShift`), and stays below the
  break because payloads lie in different blocks (`SumFits`). The hypothesis
  `lib = "blk"` picks the package linked, which no step changes.
- **PxyDriveProofs.** Two threads complete a request, in any order and at any time
  between the waits of the script, into a set that holds an id once.
  `Counted` relates the completions seen (in the set, taken by the wait that runs,
  taken by an earlier one) to the threads that have been there: one seen, at least
  one of them; two seen, both. `WaitInv` keeps awaited and completed ids apart,
  which makes a completion count once; `MatchInv` says that a request has one
  response, so that only one connection can defer it; `FreshInv` that an id that
  was not used yet has left no trace. `WaitHonest` assumes `HeadersTogether`: a
  proxy that forwards `Response` also forwards `Request-ID`, as all those of the
  run do. `TrackInv` follows what the script waits for: a request that was promised
  and that neither a wait has found nor `wait *` has forgotten is among
  `activeEvents` or the ids of the wait in progress, so a `wait *` with nothing
  pending has found it. `CheckHonest` also assumes that the driver compares files (`SameHost`).

- **HandoutsProofs, Rio and sockets.** `RioInv` says that what was returned, what the
  call in progress has, the buffer, the pipe and what is left to write are together
  the text; every action moves bytes from one of the five to its neighbour.
  `SockInv` says that at an address no socket is open but its own and all before it
  have refused.
- **HandoutsProofs, the simulator.** `Same` relates a set's lines to a list: there is
  an order of the valid lines in which the time stamps fall, and it is that of the
  list. A hit moves a line to the front of that order, by its new stamp
  (`Renewal`); the least stamp is the last of the list (`VictimLeast`); an unused
  line is found exactly while the list is shorter than the set (`FullOrNot`).
- **HandoutsProofs, the queue.** `QueueInv` says that there is a sequence without
  repetition whose neighbours `next` and `prev` join, with nothing beyond its ends,
  and whose contents are what is queued. That the walk along `next` finds all of
  it, a recursive function of the model, follows from the first place at which it
  would not (`ChainIs`).
- **HandoutsProofs, the timers.** `CounterExact` does the borrow between the two words
  of the counter for any size of word, `ClocksExact` the carries of the clocks.
  `Kept` says that the i-th value has less than `i` samples below it and at least
  `i` up to it, which fixes it; `InsertKeeps` is insertion into the sorted
  values. `TimerInv` adds that the buffer is as large as what is read of it.
- **HandoutsProofs, `main`.** `MdInv` counts an error for each trace that is not valid,
  keeps what `-f` and `-t` chose through the options after them, and says that only
  they lead to a trace that is read (`ReadNamed`). What `%.0f` prints of a share of a
  hundred is in `0..100` and less than half above it (`NearestBounds`); with totals of
  at most a hundred for each trace (`TotalHundred`), and throughput cut at that of
  libc's, `IndexBounds` gives both bounds of the index.

A recursive function over `0..n` is reasoned about without an induction theorem:
a set of numbers has a least element (`LeastNat`), so the first place where a claim
fails is preceded by one where it holds.

*Only model-checked:*
- the liveness properties `ZombiesReaped`, `PushCompletes`, `LookupsProceed`,
  `RequestsEnd` and `DriverFinishes`: liveness under fairness is beyond the prover;
- the driver with `mm.c`, `mm_right.c` and `mm_list.c`, and `FreeListsExact`: their
  free lists are links in the payloads, a second structure over the same words
  that the layouts do not describe. For the driver itself, which is the same over
  all four, `lib = "blk"` only settles which routines it calls;
- `PuzzlesRight` and `TransposeScores`. Both are about fixed inputs that TLC computes
  through: the words `btest` generates and the graded sizes. The references of the
  puzzles are stated with powers of two and with `FoldLeft`, which the provers do
  not evaluate.

## 7. Findings

1. *A lost wakeup in `waitfg`* (377-383, run `shell_waitfg`). `fgpid` is tested
   with SIGCHLD deliverable. If the foreground child ends after the test and
   before `sigsuspend`, the handler clears the job first and `sigsuspend` then
   sleeps with no job in the foreground: the prompt returns only after some
   other signal. The comment at 372 says it blocks until the process is no
   longer the foreground process.
2. *A write through a stale job pointer* (341-366, run `shell_stale_job`).
   `do_bgfg` restores the mask and then sends SIGCONT, sets the state and reads
   the pid through the pointer. A job that ends in between leaves a cleared entry
   with state FG or BG and pid 0, a transition lines 31-36 do not have.
3. *Job identifiers meet* (534, run `jobids_wrap`). `addjob` wraps `nextjid` to 1
   without looking whether job 1 is still listed; two live jobs then share an id
   and `%1` names only the first.

4. *An address loop that does not advance* (`proxy.c:254`, run
   `proxy_addresses`). The loop goes on with `list_ptr->ai_next`, the second
   address each time; when the first two refuse, the worker connects to the second
   for ever, opening a socket and closing it (261) each time. The comment at 135 and
   `csapp.c:897` say that the addresses are tried in the order of the list.

## 8. Observations without a run

Met while modelling; those in the shell, the requests, the allocators, pxydrive
and the puzzles are in the model unless said otherwise.

- `fg x` with an argument that is no number returns at 334/337 with every
  signal blocked. Later reports reach the shell only inside `sigsuspend`.
- ctrl-c between `addjob` and the child's `setpgid` is sent to a group that does
  not exist and is lost (455); before `addjob` there is no foreground job.
- A job that stops again between `fg`'s SIGCONT and its write of FG is listed FG
  while it is stopped, and `waitfg` waits for it (354-363).
- With more children than slots, a stop or continue report of an unlisted child
  dereferences `NULL` (421-429).
- A failing `fork` ends the shell and abandons its jobs (208).
- `MAXJID` (line 20) bounds nothing: `deletejob` restarts `nextjid` above the
  largest listed id, so ids grow past `MAXJOBS`, and could without end.
- `cache_add` starves while lookups overlap; `timestp` overflows after 2^31 uses.
- The Rio wrappers end the whole proxy when one client resets its connection,
  though SIGPIPE is ignored (`proxy.c:103`) and the comment at 178 avoids another
  wrapper for that reason. In `cache_src` the failure comes with `read_cnt` held.
- `build_headers` compares the wrong way round (337): the last header that is not
  `HOST` replaces the host line, and `other_hdr` is appended to before it is set
  (330, 344).
- `parse_uri` takes a colon in the path for the port's. `uri_data` is never freed
  (235; memory is not in the model).
- A failing `getnameinfo` (183) leaks the accepted descriptor.
- A response cut short by its server is cached as if it were whole; Tiny cuts one
  short when `Fork` fails after its first lines (`tiny.c:207`).
- Tiny reads for ever when the client closes before the blank line
  (`tiny.c:110`), and is ended by SIGPIPE.
- `mm.c`'s `mm_realloc` copies to `NULL` when memory has run out (245-247); the
  other three return `NULL`. All four copy up to the whole block size, tags
  included, from the old payload.
- `mm_list.c`'s `mm_init` does not reset `free_listp`, and a second replay can
  begin with a footer overwritten by a link; section 3 has the trace.
- `add_range` does not notice a payload that strictly contains another
  (`mdriver.c:410`); `HeapSpec` would.
- `WaitMeansDone` speaks of fetches, and of requests that were responded to after
  a satisfied wait. Of other requests it is false: both ends of a transfer
  complete the same id, and a completion that is left over satisfies the next
  wait early (`events.py:189`, 206), against the help text at `pxydrive.py:116`.
- That "all or listed pending requests, fetches, and responses have completed" (116)
  fails for `wait *` in three more cases. It waits for what is in `activeEvents`. The
  last wait has emptied that when it timed out, and what was pending is not put
  back; a wait that fails on an unknown name has deleted the known ones from it
  (257-262); and a request is not entered into it while a disruption of requests is
  scheduled (198). `wait *` then succeeds while a fetch is running or, in the last
  case, although it never will be done. `WaitMeansDone` excepts these three
  (`forgotten`); without the exception the run violates it.
- While `proxy` restarts the proxy, `requestManager.proxy` is `None` for a second
  (346-374); a client that finishes a transfer meanwhile fails on it at
  `agents.py:823`, its thread panics, and its request never completes.
- `config.h:16` defines `TRACEDIR` as `"./traces"`, `mdriver.c:97` copies it and
  489-490 append the file's name: without `-t` or `-f` the driver looks for
  `./tracesamptjp-bal.rep` and ends, where the comment at `mdriver.c:183` says of
  the directory "path always ends with "/"", as it does only after `-t` or `-f`.
- `makeMatchEvent` releases its mutex a second time when the id has a response
  already (`events.py:170`, 240). The thread ends in `panic`; should another thread
  take the mutex between the two releases, the second gives up that one's hold
  instead, which is not in the model. Files are compared only when the proxy's
  host is the server's (`agents.py:823`); `if self.proxyProcess.poll()` takes exit
  code 0 for a process that runs; `finish` stops joining after the first agent
  that reports an error.
- `floatScale2` makes a NaN of a float that overflows with a fraction (exponent
  254), and `floatFloat2Int` returns bits of its argument at exponent 158 with a
  fraction, where `bits.c:328` asks for `0x80000000u`. `btest`'s largest
  normalised float is `0x7f000000`, so it tries neither; `Deviates` in
  `PuzzlesRight` names exactly these.
- `csim`'s `getopt` string lacks `h`; `rio_readlineb` with room for no byte returns
  0 as at the end of the file; `dequeue` on an empty queue dereferences `NULL`;
  `fcyc`'s `clear` does not end with a block of less than four bytes (not in the
  model).

## 9. What is not modelled, and why

- *In the modelled components:* text (`parseline`, `usage`, the listing of jobs,
  verbose output); `Signal`'s `sigaction` options beyond what they mean here
  (the handler's own signal is blocked, calls restart); errors of calls that do
  not fail in a working system (`sigprocmask`, `pthread_*`); the size of an
  object; the order in which a mutex is granted; `queue_destory`, which `main`
  never reaches.
- *Requests:* bytes within a line, MIME types, memory; failures of `socket` and
  of the wrappers that no input here brings about.
- *Allocators and driver:* sizes that are no multiple of a word, the debugging
  walks, the requests `libc`'s malloc is given, the wording of what is printed. Of
  the timers: `mhz` and `ovhd`, the set-up functions nobody calls; the rounding of
  doubles, but for the index, where a tie may fall either way; the Alpha's counter, which the build (`-m32`) leaves out.
- *pxydrive:* `delay`, `generate`, `trace`, `signal`, `external`, `serve`, the
  option table of `console.py`, and `pxyregress.py`, which only starts processes; a
  proxy that exits with code 0 in its first second, and one that lives and refuses a
  connection.
- *Sequential programs:* `btest`'s time limit and options, the rule checker `dlc`;
  `is_transpose`, which nothing calls; the marker accesses valgrind's trace is cut
  at; the reference simulator, a binary, taken to count as `csim` does; the
  wrappers of `csapp.c` that only exit.
- *Components left out:* `cachelab-handout_back`, an unfinished earlier copy; the
  bomb, target, recitation and phase programs, which are single functions,
  binaries and data without state of their own.

## 10. How to run

```
tlc -config shell_jobcontrol.cfg MCTinyShell.tla
tlc -config conn_queue.cfg       MCConnQueue.tla
tlc -config proxy_cache.cfg      ProxyCache.tla
tlc -config malloc_driver.cfg    MallocDriver.tla
tlc -config proxy_requests.cfg   MCProxyRequest.tla
tlc -config pxydrive.cfg         MCPxyDrive.tla
tlc -config handouts.cfg         MCHandouts.tla
tlapm ConnQueueProofs.tla
```

and likewise for the other runs (`PROJECT.json` names the module of each) and
the other proof modules.
