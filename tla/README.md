# Verification of Armadito antivirus

TLA+ models of the Armadito antivirus (C, Linux and Windows), the
TLC runs that check them on small instances, and proofs that TLAPS checks for
every size.  Paths below are relative to `src/`.

## 1. The system and its parts

Armadito is a daemon (`arch/linux/daemon`) around a library (`libcore`) that
loads *modules*.  Scanner modules give verdicts on files; built-in modules drive
the scans: on-access (fanotify), on-demand, quarantine.  Clients talk JSON-RPC
over a Unix socket (`librpc`).

| Part | State it keeps | Operations | Interacts with |
|---|---|---|---|
| Scan context (`libcore/scanctx.c`, `status.c`, `report.c`) | descriptor, path, type, applicable modules; report | get, scan (loop over modules), close, destroy | called by both scanners; calls modules |
| On-access monitor (`…/on-access/famonitor.c`, `response.c`) | fanotify descriptor, batch of events, pool | read a batch, pass 1, pass 2, scan in the pool, answer | the kernel blocks openers until an answer; fires detection events |
| Watchdog (`watchdog.c`, `queue.c`, `stamp.h`) | queue of descriptors with time stamps | add, remove, time out | pool and monitor threads; compiled out (`#undef ENABLE_WATCHDOG`) |
| Access monitor (`monitor.c`, `imonitor.c`, `mount.c`, `onaccessmod.c`) | entries, inotify tables, command channel | start, mark, unmark, recursive mark, mount callbacks | monitor thread's main loop |
| On-demand scan (`libcore/ondemand.c`, `…/os/dir.c`) | counters, progress, pool, counting thread | run: walk, hand over, count, progress and completed events | scan context, event source |
| Event source (`event.c`), journal | list of callbacks | add, fire | fired from every scan thread and the monitor |
| RPC backend and server (`librpc/rpcbe.c`, `daemon/server.c`) | a thread per client, scans and listeners of clients | scan, status, listen | event source, connections |
| JSON-RPC library (`librpc/jrpc`) | table of pending callbacks, id counter | call, process, register, find | socket |
| Scan configuration (`scanconf.c`) | white list, types, modules, cache | add, look up | scan context |
| Modules (`module.c`, `armadito.c`) | status of each module | init, configure, post-init, close | everything |
| Configuration (`conf.c`, `confparser.c`) | sections with keys and values; the parser's lookahead | load, set, save, apply | files; modules' configuration functions |
| Information (`info.c`) | a snapshot | new, free | modules |
| Quarantine (Linux and Windows) | the quarantine directory, info files | move, describe | reports of scans; the file system |
| Tools (`tools/`) | – | scan, info | JSON-RPC clients |
| Windows service (`arch/windows/service/service.c`) | engine, port, pipe with its listener; the state the service control manager knows | load, unload, control, install, remove | the manager, other processes, the driver port |
| Windows driver interface (`scan_onaccess.c`) | port, completion port, buffers, worker threads | init, worker, finalize | the driver |

**What is hard here.**  A kernel that waits for answers keyed by a descriptor
*number*, while numbers are closed and reused by several threads; a pool without
limit beside a monitor thread that must never wait; two-step answers (write, then
close); counters read one by one while threads increment them; a directory walk
whose error path depends on what a callback returns; contexts left half
initialised by early returns; a tree of directories that programs change between
any two system calls of the thread that marks it, told to it by path names that
may be stale; an unlocked list of callbacks whose entries outlive the connections
and scans they point to; a stream read as if it were a sequence of messages; a
parser that is left by `longjmp`; a quarantine that first moves and then describes;
two threads of a service that report states to a manager which other processes
query and act upon later; worker threads that share buffers with a driver and are
stopped by a flag and one cancellation.  `PROJECT.json` lists the hazards line by line.

**What makes each part correct.**  Scan context: the worst verdict wins, MALWARE
always stands, the descriptor is given back once.  On-access: each open gets one
answer, the one for its own file, and gets it; no descriptor is lost.  Access
monitor: every directory below a configured one is marked and watched under its
path, and nothing is marked before the daemon can answer.  On-demand:
the totals are those of the files that were handed over, a percentage means what
it says, nothing runs after the return.  Event source and RPC: the journal gets
every event, a scan client those of its own scan, as far as ids tell scans apart, and the last of them.  JSON-RPC: a
response reaches the callback of its request, and what stays in the table is
explained.  Configuration: what is in effect is what the files say up to their first
error.  Modules: each goes through its life cycle, and scans run the modules that
are configured.  Quarantine: nothing that was moved is lost, and it can be told
where it came from.  Windows: what is loaded fits the state that is reported, and
starting and stopping end.

## 2. The modules

### `FileStatus`
The verdicts and `a6o_file_status_cmp`.  The C `switch` becomes `Below(s)`, the
statuses that `s` is greater than.  `UNKNOWN_TYPE` and `EINVAL` have no case.

### `ScanContext`
One context from `a6o_scan_context_get` to `a6o_scan_context_destroy`.  Init
chooses the caller (`access`: the monitor, with a descriptor, going by the
returned status; `demand`: `scan_file`, with a path, going by the report), what
the file is like and which modules are in a good state.  `scan_context_get`
translates the early returns in their order; one loop iteration of
`scan_apply_modules` is one step (`SkipModule`, `SeekFails`, `CallModule`,
`CompareAborts`); `FireDetection` and `scan_context_destroy` are the caller's tail.
The destruction of a context that was never filled is a choice between closing
something and closing nothing.

### `OnAccess`, `PermissionGate`, `MCOnAccess`
`OnAccess` is the monitor thread, the pool, the watchdog and the kernel's side of
fanotify (external: the descriptor table `fdt`, the queue of events, the look-up
of answers by number).  A request is one `open()`.  Threads are named by what they
do: `"monitor"`, `"watchdog"`, and the pool thread of each request (the pool has
no limit).  `response_write` is two steps, because between the `write` and the
`close` the opener already runs and other threads work.  A batch is read
atomically (one `read`), both passes take one event per step, in any order.
`stat_check`, the path and the type are what the thread sees *through the
descriptor* at that time (`SeenKind`), so that a descriptor closed too early has
consequences.  Closing a number that is not open, or answering one nobody waits
for, has no effect, as in the kernel.  A request's kind is what the monitor finds: a file
on the white list whose path `readlink` does not give is one of another kind, and a file
to be scanned may have no path, in which case its detection is not reported.  `LoadMagic` is the first use of libmagic
in the monitor thread.

`PermissionGate` is the abstract specification: ask, then one reply by the policy.

### `AccessMonitor`, `MCAccessMonitor`
Which files produce events.  The kernel's marks and watches are on *directories*
(members of `Dirs`), the monitor works with *paths* (sequences of names below the
configured directory `Root`); `Lookup` turns one into the other at the time of the
call.  External actions are what programs do: `Mkdir`, `Rmdir`, `Rename`, `Mount`,
`Umount`, with the inotify events and UDisks signals they cause.  The main thread
runs `post_init` of the modules, enters its loop and turns the byte of the start
pipe into the START command.  The monitor thread is a main loop: `start_command`
and `mark_entries`, `inotify_event_process`, `mount_idle_cb`.
`access_monitor_recursive_mark_directory` is a stack of calls, one step per system
call: mark, watch, `opendir`, and a `readdir` that returns what was there at the
`opendir`.  `unmark_directory` is two steps and ends if the first fails.  The
inotify queue drops events when it is full, and the kernel may refuse a watch; the
history variable `limited` remembers either, `moved` remembers that a directory
left its path, `misled` that a removal told by a watch that is gone, but whose path
`wd2path` still has, was applied to the directory that has this path now.

### `OnDemand`, `MCOnDemand`
One `a6o_on_demand_run`.  Entries of the tree are named by their place, a sequence
of positions; so the place of the walk *with the recursion it is nested in* is one
sequence, and `dir_map` says where it goes next: into a directory, to the next
entry, or, on an error the callback reports with a nonzero value, behind the
directory that holds the entry.  The scan and the count are two walkers of the same tree,
with callbacks that return 1 and 0.  Files go to the pool or are scanned in the
walking thread.  `Inputs` pairs trees with the flags they are scanned with, so that
one run covers pools on small trees and deeper trees in the calling thread.  `update_counters`, `update_progress` and `fire_progress_event`
are one step per access to a shared variable.  A file's verdict is what
`ScanContext` could leave in its report.

### `Session`, `MCSession`
The Linux daemon's clients.  The list of callbacks is a `head` and a function
`next`; `a6o_event_source_add_cb` is two steps (link, then publish), and
`a6o_event_source_fire_event` one step per entry, in the thread of each scan and of
the monitor.  `overlap` remembers that two threads were between these two steps at
once, after which one entry may be lost.  Entries are never removed
(`a6o_event_source_remove_cb` has no caller): they go on pointing to connections that
`client_thread` freed and to scans that `scan_thread_fun` freed.  What reading freed
memory gives is a choice: `freedUse` remembers whose scan was read, and `strayed` that a
freed connection was written to, which does nothing, ends the daemon, or reaches the client
that got the number of the socket since.  The ids of scans are chosen by the clients
(`create_scan_id`, seeded with the time) and may be equal, and the monitor never sets the id
of its events.  A message on its way to a client may be thrown away with others of the same
`recv` (`Send`; `JsonRpc` has it in detail), and `lost` remembers whose completed event was.
The code does nothing about SIGPIPE: writing to a client that has left may end the daemon
(`up`).

### `HashTable`, `PendingCalls`, `JsonRpc`
`HashTable` translates `hash.c` for integer keys: open addressing with linear
probing, removed slots, and a rehash that inserts the vacant slots of the old table
as occupied ones which `key_count` does not count.  `JsonRpc` is one connection: the
client's calls with and without a callback, the daemon's requests, results, errors
and notifications, over a socket that is a *stream*.  `connection_receive` takes
whatever one `recv` gives: the first message is parsed, those behind it are thrown
away, and of a message longer than the buffer neither part parses.  A method without
a result sends nothing, and an error leaves the callback registered: the history
variables `errors` and `unanswered` say for which calls.  A notification that fails in the
client is answered with an error, which the daemon drops.  `PendingCalls` is the
abstract specification: a set of calls that wait.

### `Configuration`, `Startup`, `MCStartup`
`Configuration` is the scanner and the recursive descent parser, one action per
nonterminal, over lexemes; the configuration they fill; setting values; saving, and
loading what was saved.  Names are written without quotes and numbers with `%d`: the
constant `Bare` says what the scanner sees of a text written so, and `Atoi` what becomes of
digits.  `a6o_conf_load_file` ignores the result of the parser, so
the failure that `main.c` tests for never comes: an error drops the rest of that file
and no more.  `Startup` composes it with `a6o_open`: `module_manager_all` for
`init`, `post_init` and `close`, with any module failing, `module_conf_fun` for every
entry, the two scan configurations that this fills, then threads that ask for the
modules of a type (`get_conf`, `get_applicable_modules` and the insertion in the
cache are separate steps; the hash table's own operations are atomic), and
`a6o_info_new`.

### `Quarantine`, `MCQuarantine`
Both versions of `quarantine_do`, one action per system call, chosen by `os` in
`Init`.  Threads report files; programs write and remove files at the paths, and the
daemon may stop, between any two calls.  A Windows name is the file name with the
second; an info file that is open is not shared.  `MoveFileEx` is atomic on one volume; to
another one it is a copy (`BeginCopy`, `CopyEnds`) and a deletion (`DeleteSource`), which
succeeds as a whole when the source stays.  A `stat` may fail for a file that is there, and
so may the writes to an info file, unnoticed.  `taken`, `spoiled`, `left` (files that stayed
although they count as moved) and `broken` (names over which a copy failed) are history.
No code registers `quarantine_callback` at this commit, so the reports come from the
environment.

### `WinService`, `MCWinService`
`service.c`.  Each thread or process is a sequence of steps still to do (`job`), into
which a procedure inserts the steps of those it calls.  The service control manager
is external: it keeps the reported state, accepts controls by it and runs the handler.
Other processes query that state, wait, and send a control: the state may change
in between, and they may be ended between any two calls (`Killed`): `CreateService` and the
registry keys are two steps, and so are `DeleteService` and the deletion of the keys, during
which a handle keeps the SCM from forgetting the service.  The listener thread of the pipe
(`MainThreadWork`) creates its pipe instance after `Start_IHM_Connection` has returned, or
fails; `Close_IHM_Connection` terminates it and leaves the instance open.  `unkeyed` tells
that the last installation did not come to its key, and `odd` remembers what the code leaves open and the properties name:
a control during the first load, a CONTINUE on a stale query, a service that goes on
after reporting STOPPED, a hang of `UserScanFinalize`, and so on.

### `WinDriverPort`, `MCWinDriverPort`
`scan_onaccess.c`: connecting, starting the workers and giving the buffers to the
filter manager; a worker's loop from `GetQueuedCompletionStatus` to giving its buffer
back; the stop: flag, cancellation, join, close.  Any worker may get any buffer.  A system
call of any step may fail (`Fault`, at most `MaxFaults` times), and the service may start
again after a failure: workers that were left behind then find the new context and wait at
its port (`strayed`), or find none, which ends the process (`wild`).  `unnamed` and
`undelivered` are the opens whose name was not converted and whose answer was not sent.  The
driver and the filter manager are external.  `ConvertDeviceNameToMsDosName` finds the
drive by `strstr`, so a device whose name contains that of another is mistaken for it.

## 3. The runs

| Run | Instance | Shows |
|---|---|---|
| `scan` | up to 3 modules, every documented result, both callers | `WorstVerdict`, `MalwareDetected`, `DescriptorClosedOnce`, `AbortExplained` |
| `onaccess_live` | 3 opens, 1 descriptor, permission mode as built, files with and without a path; the verdicts are one that allows and one that denies | `AnswerFitsFile`, `DescriptorHeld`, `ImplementsGate` (refinement with liveness), `DenialReported` |
| `onaccess_watchdog` | 2 opens, 2 descriptors, watchdog compiled in, scans may hang | the queue arbitrates (`NoStrayAnswer`, `NoDescriptorLost`); every open is answered (`EveryOpenAnswered`) |
| `onaccess_magic` | 2 opens, libmagic's database under a mark | violation of `MonitorNeverWaits`: the monitor thread can wait for itself |
| `ondemand` | 3 files on 2 threads with the counting thread; a 3-level tree with every kind of entry, in the calling thread or top level only | `CompletedTotals`, `ShownConsistent`, `ProgressTrue` (`CountIsRight`, `HundredPercentMeansAll`), `QuietAfterReturn`, `Returns` |
| `monitor_follow` | 2 directories, 2 mount points, 4 operations of programs, a queue of 3 events | `MarksFitTree` (`WatchesKnown`, `FollowedUnlessMoved`), `MediumFollowed`, `NoMarkBeforeMainLoop`, `MonitorProgress` (`Starts`, `EventuallyFollowed`) |
| `session` | a scan client, one that scans, listens or asks for the status, the monitor with one detection, ids that are equal or not | `CallbackListSound` (`JournalComplete`, `ListenersKept`), `EventsOfOwnScan` (`OwnEventsOnly`, `OwnScanAlive`), `CompletedReaches` |
| `jrpc` | 5 calls, 1 call without a callback, 1 notification, 2 messages each way, a table of 4 slots | `CallbacksAccounted` (`RightAnswer`, `EntriesExplained`), `NoOverflow`, `ImplementsMap` (refinement), `CallsEnd` |
| `startup` | two files, the first a section line and up to 3 lines out of 9, or a special file, with names that need quotes and a number above INT_MAX; 4 modules, 2 threads, 2 types | `LoadedRight`, `RoundTrip`, `ModulesInOrder` (`LifeCycle`, `WorstStatus`), `ScansAsConfigured` |
| `quarantine` | 2 threads, 2 paths of one file name, 2 files, 2 seconds, 1 stop | `QuarantineHolds` (`Kept`, `OnlyMalware`), `WellDescribed`, `ActionTells` |
| `winservice` | 2 processes that may be ended, 3 commands, console mode | `LoadedFitsState` (`PausedIsUnloaded`, `AtMostOne`, `RunningIsLoaded`, `InstancesServed`, `CleanExit`), `InstalledHasKey`, `ServiceProgress` (`CommandsEnd`, `FailedStartStops`) |
| `windriver` | 2 workers, 2 opens, 2 starts, 1 system call that fails | `AnswersFitOpens` (`AnswerFitsOpen`), `ContextFollowsPort` (`ContextOutlivesWorkers`, `FlagTellsConnection`), `PortProgress` (`FinalizeEnds`, `OpensAnswered`) |

A property with others in parentheses is their conjunction, with the module's type
invariant where it is one of states; its parts are named and commented in the module.
Many of these properties hold only *but for* a case that the property names: they say
exactly how far the code goes, and the mutants show that they notice when it stops
going that far.

**Bounds.**  Three modules are enough for "one skipped, one adopted, one
overruled".  With three opens and one descriptor the number is reused while the
context of an earlier request is still to be destroyed, and it runs out; two
descriptors in flight at once are in the watchdog's run, and the proofs cover any
number of both, in both modes.  The walk's tree has an entry before and behind a directory on two
levels, so that each way to leave a loop has something to skip.  Three files on two
threads queue one file.  A progress counter needs no cap: counters are bounded by
the number of files.  Two directories and four operations allow a nested pair to be
built outside and moved in, or a name to be removed and created again, while the
monitor is anywhere in its recursion; three queued events overflow within that.
A table of four slots meets collisions, removed slots and a rehash within five calls.
Nine lines in three places put every error behind, before and between good
definitions, with a second file that defines the same keys or others.  Two seconds
and two paths of one file name give and avoid collisions of names, and two files are enough
for one to replace the other at its path or in the quarantine.  Two starts of the driver
port and one failure show what the first stop, or a first start that failed, leaves behind.
Two ids let scans of two clients be told apart or not.  Three commands are enough for
pause, resume and stop, for two processes that resume at once, or for an installation beside a removal.
Sets of threads and paths are used for symmetry, only in runs without liveness.

`CHECK_DEADLOCK FALSE` in all runs but `scan` and `ondemand`: when every open was
made and served, or every operation, call or command that is allowed was done, the
program waits for events, and the model has none left.

**Fairness.**  Weak fairness of the monitor thread, the watchdog thread, each pool
thread, the scanning and the counting thread, the main thread: they are operating-system threads
that never wait for one another except where the model has a guard.  The same holds
for the threads of clients, scans and the monitor in `Session`, the two programs of
`JsonRpc` (each is in a loop of reads), the workers and the controlling thread in
`WinDriverPort`, the service's threads and the commands in `WinService`.  That includes
"a scan returns", which the code cannot promise; `HungScanSpec` drops it.  Programs
need not open files or change directories.

**Disagreements.**  `onaccess_magic` states what a comment of the code says, and TLC
finds it violated: libmagic is pre-loaded in the main thread, but each thread has its
own copy (`…/os/mimetype.c:65`).  Others are in the properties of passing runs as the
case they name:

- a module that returns `UNKNOWN_TYPE` or `EINVAL`, followed by another one, aborts
  the daemon (`libcore/status.c:53`): `AbortExplained`;
- `scan_file` destroys the context even if nothing but its status was set, although
  `scanctx.c:50` says when it is filled (`libcore/ondemand.c:341`):
  `DescriptorClosedOnce` excepts it;
- a directory that cannot be opened ends the loop over the directory that holds it
  (`…/os/dir.c:117`): `ToScan` in `CompletedTotals`, where `ToCount` differs;
- a rename is handled by a path that leads nowhere any more, so the watch and the
  tables keep the old path, and later events of the moved directory are applied to
  whatever has that path now (`…/on-access/monitor.c:297`): `FollowedUnlessMoved`;
- a removal told by a watch that went with its directory still finds its path in
  `wd2path` (`…/on-access/imonitor.c:172`) and unmarks a directory that was made at that
  path later; if that one's creation was told by the same dead watch or by none, it
  stays unmarked: `FollowedUnlessMoved` excepts it (`misled`).  The run's bounds are too
  small for it.  It came up as a counterexample to the inductive invariant, with three
  directories and nine operations: `r` is made, removed and made again, with `r/x` in it;
  the monitor handles the first creation and the removal, which unmarks the new `r` and
  leaves the watch of `x`; while its call for the second creation is at `r`, `x/n` is made
  and removed, `x` is removed and made again and so is `n`.  The old watch of `x` tells the
  first two only, and the removal of the first `n` unmarks the second;
- two registrations at once lose one (`event.c:198`): `ListenersKept`; events of other
  threads read a freed scan's id (`rpcbe.c:42`), and two clients with equal ids get each
  other's events (`rpcbe.c:47`, `armadito-scan.c:249`): `OwnEventsOnly`; a client whose
  completed event was behind another message of one `recv` waits for ever
  (`connection.c:265`): `CompletedReaches`;
- four ways to leave a callback in the table for ever: `EntriesExplained`;
- a blank or a comment behind `=`, or a separator at the end of a line, takes the first
  word of the next line for the value (`confparser.c:128`): `LoadedRight`; lists of
  fewer than two items, names that were quoted and numbers above INT_MAX are not read back
  as they were written (`conf.c:232`): `RoundTrip`;
- Linux sets the quarantine flag when `stat` fails, Windows does so when a copy to another
  volume left its source and does not when the info file fails: `ActionTells`; two files of
  one name in one second: `Kept`;
- `UserScanFinalize` hangs when a worker asks for a message behind the cancellation:
  `FinalizeEnds`; a late failure of `UserScanInit` frees the context under running
  workers, and those that are left take the packets of the next start, whose stop may then
  hang: `ContextOutlivesWorkers`, `FinalizeEnds`; an answer that `FilterReplyMessage` failed
  to send is forgotten, and the open waits for the port to close (`scan_onaccess.c:300`):
  `OpensAnswered`;
- `service.c:187` says "Finish all thread and Close the pipe.", but `Close_IHM_Connection`
  closes only `PipeHandle`, which nothing sets (`scan_ondemand.c:535`): the instance of the
  listener stays open after each pause, without anyone to serve it: `InstancesServed`;
- an installation that is ended or fails behind `CreateService` leaves the service installed
  without its key (`service.c:552`): `InstalledHasKey`;
- a service that cannot be resumed says RUNNING, because `ServiceStop` called inside
  the handler cannot reach the handler: `RunningIsLoaded`.

## 4. The proofs

Every theorem has the form `Spec => []P` and holds for all values of the constants
that the named assumptions allow.  The module `XProofs` holds the proofs about `X`.  Each
gives an inductive invariant as a conjunction of named parts, one lemma per action
that preserves it, and then the theorems.  The inductive invariants were checked by
TLC on the instances of the runs before they were proved.

`ScanContextProofs`, for any number of modules and any set of results: `TypeOK`,
`MalwareDetected`, `ModulesConsulted`, `DescriptorClosedOnce`, `WorstVerdict` and
`AbortExplained`.  The inductive invariant says what the loop knows while it runs
(`LoopInv`: the report follows the verdict and every good module before `next` was
called; `CallsInv`: only those were), that an authoritative verdict ended it
(`AuthorityInv`), what each exit leaves behind, and what an abort was preceded by
(`AbortInv`).  `WorstInv` adds that no ranked verdict exceeds the current one; it rests
on `CmpIsRank`, which shows the C comparison to be the order of the ranks.

`OnAccessProofs`, for any set of requests and descriptors, in both modes,
and for the code as built (`~EnableWatchdog`): `TypeOK`, `AnswerFitsFile`,
`DescriptorHeld`, `ScansItsOwnFile`, `NoStrayAnswer`, `DetectionAfterAnswer`,
`NoDescriptorLost`, and that each step is a step of `PermissionGate` or a stutter
(`RefinesGate`).  None of these is inductive: that a request's descriptor is still
open on its file depends on who may close it.  The invariant makes the descriptor's
*owner* explicit: an open number belongs to the event that carries it (`OwnerInv`),
and while the kernel waits exactly one of the batch (`BatchInv`), a pool thread
(`TaskInv`) or a thread in `response_write` (`ResponseInv`) is going to answer it,
with the answer the policy gives.

`AccessMonitorProofs`, for any directories, settings, limits and operations
of programs: `NoMarkBeforeMainLoop`, `WatchesKnown`, `MediumFollowed` and `MarksFitTree`.
The second is inductive; the first needs the chain from the main loop to the mark: a mark was made
by a call (`MarkInv`, `CallInv`), calls follow the START command, which the main loop
wrote (`StartInv`), and the loop runs after every `post_init` (`LoopInv`).  For the
third, the monitor starts only once (`PipeInv`), so it does not stop hearing of media
(`HeardInv`), and the last signal that waits tells the mount points of now (`MediumInv`).
`MarksFitTree` is the long one (`TreeIsFollowed`).  A directory that exists is not yet
followed in one of two ways: an event about it or about a directory above it waits
(`Told`), or a call in progress is going to come to it (`Reached`); `FollowInv` says that
every path is one of the three.  What undoes a mark is a call for a removal, so such a
call for a path that is there again has a later creation event (`UnmarkInv`), as has the
removal event it came from (`RemovalInv`).  Paths of the tables lead to the watched
directories (`WatchPath`, `TablesInv`).  Each of the four is needed only as far as nothing
exceptional happened, and `TInv` joins them accordingly: `RemovalInv` unless a limit was
met, the tables unless a directory was moved, the other two unless either or `misled`.
`Lookup` and `Above` are recursive functions; what they compute is shown by least-number
induction over a *set* of numbers (`LeastNumber`, `Downwards`), which the provers can use:
a path leads to a directory exactly if the places of the directories on the way say so
(`LookupIs`), two paths of one directory are equal (`OnePath`), and what changes when a
directory arrives, leaves or moves (`Arrives`, `Leaves`).  TLC checked `TInv` with three
directories and nine operations, moves into the tree included, before it was proved.

`OnDemandProofs`, for any finite tree, any verdicts, flags and number of threads:
`CompletedTotals`, `ShownConsistent`, `ProgressTrue` and `QuietAfterReturn`.  The
properties are about numbers of files, and the walk is nowhere near a loop over a set,
so the invariant turns a place of the walk into a set: `ComesBefore` is the order in
which `os_dir_map` visits places, and the files handed over are exactly the files that
can be found and are `Behind` the walk (`HandedInv`; `CountInv` for the counting walk).
The lemma `WalkStep` shows that going into a directory, to the next entry, or behind
the enclosing directory after an error puts just the right files behind.  The shared
counters are the cardinalities of the sets of tasks past the increment
(`CountersInv`), what an event read earlier is at most what they are now (`ReadInv`), and
100 is computed only if every file was counted (`HundredInv`).

`SessionProofs`, for any number of clients, requests and events: `CallbackListSound` and
`EventsOfOwnScan`.  The list may be walked without a lock because an entry is
complete before it can be found: whatever a thread reads is the entry of a registered
request (`FoundInv`) whose link leads on (`LinkInv`), and only the journal's entry is the
last, so a walk at the end has been to the journal (`WalkInv`).  A scan is there while
its thread has events (`ScanInv`), and what a client got carries the id that its callback
compares, unless freed memory was involved.  Callbacks stay because, without additions at the
same time, the entry to be published links to the current head (`AloneInv`).

`QuarantineProofs`, for any number of threads, paths, files, seconds and stops of the
daemon, on both systems: `QuarantineHolds`, `WellDescribed` and `ActionTells`.  A
thread knows the path and not the file, so the invariant says how the file at that path
relates to the one that was scanned (`SawInv`), what is in the quarantine for a thread
that has moved its file (`MovedInv`), and what each result implies (`ResultInv`).  On
Linux a file cannot be overwritten since `mkstemp` numbers names apart (`NumberInv`); a
file without its description has a thread that is about to write it, or a failure
(`DescribedInv`).  While a copy to another volume is at work its entry has no file, and its
name is with the threads that copy (`Copied`) or, after a failure, among the `broken` ones.

`WinDriverPortProofs`, for any number of workers, opens and starts: `AnswersFitOpens` and
`ContextFollowsPort`.  A buffer is in one place: with the filter manager, in the
completion port or with one worker (`PlaceInv`), so the reply a worker sends is about
the message it scanned (`MessageInv`); `LifeInv`, `ThreadsInv` and `GivenInv` say which
of them may exist at each step of `UserScanInit` and `UserScanFinalize`, as long as no start
failed late; what is said of buffers and answers holds after a late failure too.

`WinServiceProofs`, for any processes and commands: `InstalledHasKey` and `LoadedFitsState`.
The first needs to know which steps a command can have left (`CallerJobs`), and that a
process which is about to delete the keys holds a service that is marked: its handle keeps
the service from being forgotten and installed anew before the keys are gone.  The service's threads run lists of steps, so the invariant of the
second says which lists can be left (`InOrder`, by the `Successor` of each step), that one
thread is at work at a time unless steps were `Unordered` (`LifeInv`), that what exists is
what `gScanContext` has and the steps done so far have not closed (`LiveInv`), what is
loaded when a step is next (`Holds`), that no more pipe instances are being opened than there are
listener threads (`PipeInv`), and which state has been reported by then (`MainInv`,
`HandlerInv`; `StateInv` when no step is left).

**Assumptions on the constants.**  Names that stand for "none", "empty", a thread or the
journal are no request, open, client or quarantine name; descriptors are natural
numbers; results and verdicts are documented statuses.  `OnDemand`: the tree is finite, with
every entry inside directories and the entries of a directory numbered without gaps
(`IsTree`).  `WinDriverPort`: at least one thread and as many buffers, no two drive letters
of one device, and a file's name contains that of its device.  `AccessMonitor`: the
directories are finitely many and different from the root and the outside, `/` is no mount
point of a medium, the bounds are natural numbers.  `Session`: there is an id to choose.  `WinService`: the callers are no
threads of the service and give the commands the program has, a natural number of them.

**Only model-checked.**

- Liveness (`EveryOpenAnswered`, `DenialReported`, `Returns`, `Starts`,
  `EventuallyFollowed`, `CompletedReaches`, `CallsEnd`, `CommandsEnd`,
  `FailedStartStops`, `FinalizeEnds`, `OpensAnswered`, the fairness part of
  `ImplementsGate`): out of the prover's reach.
- The probing of the hash table (`CallbacksAccounted`, `NoOverflow`, `ImplementsMap`), the
  parser against its line-by-line reference (`LoadedRight`, `RoundTrip`) and the fold over
  the modules' statuses (`WorstStatus`, a part of `ModulesInOrder`).  The prover cannot use
  the library's induction theorems for what these recursions compute; the induction over
  sets of numbers that serves for paths has to be done anew for each of them, and was not.
- Not proved: the watchdog's safety, and of `Startup` the `LifeCycle` and
  `ScansAsConfigured`.

## 5. What is not modelled

In the modelled parts: time (a time-out may happen whenever it can), log output,
allocation failure, `a6o_on_demand_cancel` (a stub), `asprintf` failure in the walk,
a directory tree that changes during the walk, 32-bit overflow of counters (it
takes 2^31 files), the kernel's limit on pool threads; for the access monitor,
several configured directories, a rename onto an existing directory, symbolic links,
a media scan itself (it is an `OnDemand` run), the buffering of several inotify
events by one `read` (the model reads them one at a time).  Races inside GLib's hash
tables are undefined behaviour that no result describes; look-up and insertion are
atomic in `Startup`.  In `Session`, a client makes one request, and the scan's events
are a fixed script.  In `JsonRpc`, errors of `recv` other than the end of the stream,
after which `client_thread` reads again.

Parts that are left out: the requests on the Windows service's pipe
(`scan_ondemand.c`, beyond its start and end in `WinService`; they are handled by
`a6o_json_handler_*`, which this repository no longer contains), the registry
configuration (`config.c`, whose callers are compiled out), encryption helpers and
notification, option parsing and printing of the tools, the marshalling of objects to
JSON, and the scanner modules around third-party engines (a scanner is a choice of
verdicts in `ScanContext`).

## 6. Plan

1. The watchdog's invariants: the queue and the threads partition the waiting
   descriptors.
2. `LifeCycle` of `Startup`.
