---------------------------- MODULE AccessMonitor ----------------------------
(***************************************************************************)
(* What is monitored: how the access monitor starts, marks the configured  *)
(* directories and mount points, and follows directories that programs     *)
(* create, remove and move and media that are mounted while it works.      *)
(*                                                                         *)
(* The monitor thread is a main loop with three sources: commands, inotify *)
(* events and D-Bus signals.  It works on path names; the kernel's marks   *)
(* and watches are on directories.  Every system call of the monitor       *)
(* looks its path up again, and programs work between any two of them.     *)
(*                                                                         *)
(* One configured directory, Root, stands for the "directory" entries; a   *)
(* path is the sequence of names below it.  Outside is a directory that is *)
(* not monitored.                                                          *)
(***************************************************************************)
EXTENDS Integers, Sequences, SequencesExt, FiniteSets

CONSTANTS
    Dirs,          \* directories that may be created below Root or Outside
    Root, Outside, \* directories that always exist
    Nil,           \* no directory
    Names,         \* names of directories
    Points,        \* mount points, each an existing directory of the root file system
    ConfMounts,    \* the "mount" entries of the configuration
    Settings,      \* what the configuration may say: enable, enable_removable_media and
                   \* autoscan_removable_media
    Modules,       \* the modules of the daemon
    OnAccessMod,   \* the one that holds the access monitor
    MaxOps,        \* bound: operations of programs on directories and mounts
    QueueLimit     \* max_queued_events of inotify

Slash == "/"       \* the mount that holds the directories of Points

ASSUME DirsAssumption ==
    Root \notin Dirs /\ Outside \notin Dirs /\ Nil \notin Dirs \cup {Root, Outside} /\ Root # Outside
ASSUME PointsAssumption == ConfMounts \subseteq Points /\ Slash \notin Points
ASSUME SettingsAssumption ==
    Settings \subseteq [enable : BOOLEAN, enable_removable_media : BOOLEAN, autoscan_removable_media : BOOLEAN]
ASSUME ModulesAssumption == OnAccessMod \in Modules
ASSUME BoundsAssumption == MaxOps \in Nat /\ QueueLimit \in Nat /\ IsFiniteSet(Dirs)

VARIABLES
    \* the file system and the programs
    place,         \* place[d]: <<parent, name>> of an existing directory, or <<>>
    mounted,       \* the mount points of the medium, in the order of mounting
    ops,           \* operations done
    moved,         \* history: a directory was moved away from below Root
    \* the kernel
    fanMarks,      \* directories with a fanotify mark
    mountMarks,    \* mounts with a fanotify mark
    watches,       \* watch descriptor -> directory
    lastWd,        \* the last watch descriptor given; they are not reused
    queue,         \* inotify events not read yet
    limited,       \* history: an event was dropped or a watch refused
    signals,       \* PropertiesChanged signals not dispatched yet
    announced,     \* history: some signal was sent
    \* the main thread
    inited,        \* modules whose post_init is done
    looping,       \* g_main_loop_run was called
    start_pipe,    \* bytes in the pipe
    \* the access monitor
    setting,       \* the configured one of Settings
    entries,       \* mount points of m->entries
    command_pipe,  \* commands in the pipe
    status,        \* "off", "starting", "started", or "failed"
    todo,          \* entries mark_entries has not reached
    stack,         \* calls in progress in the monitor thread
    wd2path, path2wd,
    misled,        \* history: a removal told by a watch that is gone was taken for one of
                   \* the directory that has the path now
    scans          \* media a scan thread was started for

programs == <<place, mounted, ops, moved>>
kernel   == <<fanMarks, mountMarks, watches, lastWd, queue, limited, signals, announced>>
main     == <<inited, looping, start_pipe>>
conf     == <<setting, entries>>
tables   == <<wd2path, path2wd, misled>>
monitor  == <<command_pipe, status, todo, stack, tables, scans>>
vars     == <<programs, kernel, main, conf, monitor>>

----------------------------------------------------------------------------
\* The file system.

Exists(d) == d \in {Root, Outside} \/ (d \in Dirs /\ place[d] # <<>>)
Child(d, n) == IF \E c \in Dirs : place[c] = <<d, n>>
               THEN CHOOSE c \in Dirs : place[c] = <<d, n>> ELSE Nil

\* The directory a path leads to.
Lookup(path) ==
    LET at[k \in 0..Len(path)] == IF k = 0 THEN Root ELSE Child(at[k - 1], path[k])
    IN  at[Len(path)]

\* The paths that can exist.
Paths == UNION {[1..k -> Names] : k \in 0..Cardinality(Dirs)}

\* The directories d lies in, d included.
Above(d) ==
    LET up[k \in 0..Cardinality(Dirs)] ==
          IF k = 0 THEN {d}
          ELSE up[k - 1] \cup {place[c][1] : c \in {e \in up[k - 1] \cap Dirs : place[e] # <<>>}}
    IN  up[Cardinality(Dirs)]

\* The watch of a directory, at most one.
WatchesOf(d) == {w \in DOMAIN watches : watches[w] = d}

\* inotify queues an event for each watched directory it is about; a full queue
\* drops it, and the overflow event that stands for it carries no IN_ISDIR.
Event(kind, d, n) == [i \in 1..Cardinality(WatchesOf(d)) |->
                        [kind |-> kind, wd |-> CHOOSE w \in WatchesOf(d) : TRUE, name |-> n]]
Post(events) ==
    LET all == queue \o events
        fits == Len(all) <= QueueLimit
    IN  /\ queue' = IF fits THEN all ELSE SubSeq(all, 1, QueueLimit)
        /\ limited' = (limited \/ ~fits)

Operation == ops < MaxOps /\ ops' = ops + 1

Mkdir(d, n, new) ==
    /\ Operation
    /\ Exists(d) /\ Child(d, n) = Nil /\ place[new] = <<>>
    /\ place' = [place EXCEPT ![new] = <<d, n>>]
    /\ Post(Event("CREATE", d, n))
    /\ UNCHANGED <<mounted, moved, fanMarks, mountMarks, watches, lastWd, signals, announced, main, conf, monitor>>

\* The kernel drops the mark and the watch of a directory with the directory.
Rmdir(d) ==
    /\ Operation
    /\ place[d] # <<>> /\ \A c \in Dirs : place[c] # <<>> => place[c][1] # d
    /\ place' = [place EXCEPT ![d] = <<>>]
    /\ fanMarks' = fanMarks \ {d}
    /\ watches' = [w \in DOMAIN watches \ WatchesOf(d) |-> watches[w]]
    /\ Post(Event("DELETE", place[d][1], place[d][2]))
    /\ UNCHANGED <<mounted, moved, mountMarks, lastWd, signals, announced, main, conf, monitor>>

\* Marks and watches move with the directory.
Rename(d, to, n) ==
    /\ Operation
    /\ place[d] # <<>> /\ Exists(to) /\ d \notin Above(to) /\ Child(to, n) = Nil
    /\ place' = [place EXCEPT ![d] = <<to, n>>]
    /\ moved' = (moved \/ Root \in Above(d))
    /\ Post(Event("MOVED_FROM", place[d][1], place[d][2]) \o Event("MOVED_TO", to, n))
    /\ UNCHANGED <<mounted, fanMarks, mountMarks, watches, lastWd, signals, announced, main, conf, monitor>>

\* UDisks signals the list of mount points of the medium whenever it changes.
Signal(points) ==
    IF status \in {"starting", "started"}
    THEN signals' = Append(signals, points) /\ announced' = TRUE
    ELSE UNCHANGED <<signals, announced>>

Mount(p) ==
    /\ Operation
    /\ p \notin Range(mounted)
    /\ mounted' = Append(mounted, p)
    /\ Signal(mounted')
    /\ UNCHANGED <<place, moved, fanMarks, mountMarks, watches, lastWd, queue, limited, main, conf, monitor>>

Umount(p) ==
    /\ Operation
    /\ \E i \in DOMAIN mounted : mounted[i] = p /\ mounted' = RemoveAt(mounted, i)
    /\ mountMarks' = mountMarks \ {p}
    /\ Signal(mounted')
    /\ UNCHANGED <<place, moved, fanMarks, watches, lastWd, queue, limited, main, conf, monitor>>

Programs ==
    \/ \E d \in Dirs \cup {Root, Outside}, n \in Names :
          \/ \E new \in Dirs : Mkdir(d, n, new)
          \/ \E c \in Dirs : Rename(c, d, n)
    \/ \E d \in Dirs : Rmdir(d)
    \/ \E p \in Points : Mount(p) \/ Umount(p)

----------------------------------------------------------------------------
\* The main thread.

\* After access_monitor_new and the configuration: add_mount keeps a mount point
\* that is on another device than "/" at that time.
Init ==
    /\ place = [d \in Dirs |-> <<>>]
    /\ mounted \in {<<>>} \cup {<<p>> : p \in ConfMounts}
    /\ ops = 0 /\ moved = FALSE
    /\ fanMarks = {} /\ mountMarks = {} /\ watches = <<>> /\ lastWd = 0
    /\ queue = <<>> /\ limited = FALSE /\ signals = <<>> /\ announced = FALSE
    /\ inited = {} /\ looping = FALSE /\ start_pipe = 0
    /\ setting \in Settings
    /\ entries = ConfMounts \cap Range(mounted)
    /\ command_pipe = <<>> /\ status = "off" /\ todo = {} /\ stack = <<>>
    /\ wd2path = <<>> /\ path2wd = <<>> /\ misled = FALSE /\ scans = {}

\* a6o_open calls the post_init of each module; that of on-access asks for the
\* delayed start.
post_init(m) ==
    /\ m \notin inited
    /\ inited' = inited \cup {m}
    /\ start_pipe' = IF m = OnAccessMod THEN start_pipe + 1 ELSE start_pipe
    /\ UNCHANGED <<looping, programs, kernel, conf, monitor>>

main_loop_run ==
    /\ inited = Modules /\ ~looping
    /\ looping' = TRUE
    /\ UNCHANGED <<inited, start_pipe, programs, kernel, conf, monitor>>

\* Mutant: the start pipe is watched by a thread that does not wait for the main loop.
MutStartAtOnce ==
    /\ start_pipe > 0
    /\ start_pipe' = start_pipe - 1
    /\ command_pipe' = IF setting.enable THEN Append(command_pipe, "START") ELSE command_pipe
    /\ UNCHANGED <<inited, looping, programs, kernel, conf, status, todo, stack, tables, scans>>

delayed_start_cb ==
    /\ looping /\ start_pipe > 0
    /\ start_pipe' = start_pipe - 1
    /\ command_pipe' = IF setting.enable THEN Append(command_pipe, "START") ELSE command_pipe
    /\ UNCHANGED <<inited, looping, programs, kernel, conf, status, todo, stack, tables, scans>>

MainThread == (\E m \in Modules : post_init(m)) \/ main_loop_run \/ delayed_start_cb

----------------------------------------------------------------------------
\* The monitor thread.

Dispatching == stack = <<>> /\ status # "starting"   \* in the main loop
Top == Last(stack)
At(step) == stack # <<>> /\ Top.at = step
Call(step, path) == Append(stack, [at |-> step, path |-> path, names |-> {}])
Return == Front(stack)
GoOn(step) == [stack EXCEPT ![Len(stack)].at = step]

\* Any of the three starts may fail, and then nothing is marked.
start_command ==
    /\ Dispatching /\ command_pipe # <<>>
    /\ command_pipe' = Tail(command_pipe)
    /\ \/ status' = "failed" /\ UNCHANGED todo
       \/ status' = "starting" /\ todo' = entries \cup {Root}
    /\ UNCHANGED <<programs, kernel, main, conf, stack, tables, scans>>

\* FAN_MARK_MOUNT marks the mount the path is in.
mark_mount_point(p) == mountMarks' = mountMarks \cup {IF p \in Range(mounted) THEN p ELSE Slash}

mark_entries ==
    /\ status = "starting" /\ stack = <<>>
    /\ \/ /\ Root \in todo
          /\ todo' = todo \ {Root}
          /\ stack' = Call("fan", <<>>)
          /\ UNCHANGED <<mountMarks, status>>
       \/ \E p \in todo \ {Root} :
          /\ todo' = todo \ {p}
          /\ mark_mount_point(p)
          /\ UNCHANGED <<stack, status>>
       \/ /\ todo = {}
          /\ status' = "started"
          /\ UNCHANGED <<todo, stack, mountMarks>>
    /\ UNCHANGED <<fanMarks, watches, lastWd, queue, limited, signals, announced, programs, main, conf,
                   command_pipe, tables, scans>>

\* mark_directory: the fanotify mark, and if that worked the watch.
fanotify_monitor_mark_directory ==
    LET d == Lookup(Top.path) IN
    /\ At("fan")
    /\ IF d # Nil
       THEN fanMarks' = fanMarks \cup {d} /\ stack' = GoOn("ino")
       ELSE stack' = GoOn("open") /\ UNCHANGED fanMarks
    /\ UNCHANGED <<mountMarks, watches, lastWd, queue, limited, signals, announced, programs, main, conf,
                   command_pipe, status, todo, tables, scans>>

\* A directory that has a watch keeps its descriptor.  The call fails for a path that
\* is gone, and when the user has as many watches as the kernel allows.
inotify_monitor_mark_directory ==
    LET d  == Lookup(Top.path)
        wd == IF WatchesOf(d) # {} THEN CHOOSE w \in WatchesOf(d) : TRUE ELSE lastWd + 1
    IN
    /\ At("ino")
    /\ stack' = GoOn("open")
    /\ \/ /\ d # Nil
          /\ watches' = [w \in DOMAIN watches \cup {wd} |-> IF w = wd THEN d ELSE watches[w]]
          /\ lastWd' = IF wd > lastWd THEN wd ELSE lastWd
          /\ wd2path' = [w \in DOMAIN wd2path \cup {wd} |-> IF w = wd THEN Top.path ELSE wd2path[w]]
          /\ path2wd' = [p \in DOMAIN path2wd \cup {Top.path} |-> IF p = Top.path THEN wd ELSE path2wd[p]]
          /\ UNCHANGED <<limited, misled>>
       \/ /\ limited' = (limited \/ d # Nil)
          /\ UNCHANGED <<watches, lastWd, tables>>
    /\ UNCHANGED <<fanMarks, mountMarks, queue, signals, announced, programs, main, conf,
                   command_pipe, status, todo, scans>>

\* opendir, and the entries as the first readdir buffers them.
opendir ==
    LET d == Lookup(Top.path) IN
    /\ At("open")
    /\ stack' = IF d = Nil THEN Return
                ELSE Append(Return, [at |-> "read", path |-> Top.path,
                                     names |-> {n \in Names : Child(d, n) # Nil}])
    /\ UNCHANGED <<kernel, programs, main, conf, command_pipe, status, todo, tables, scans>>

\* Mutant: subdirectories are not entered.
MutNotRecursive ==
    /\ At("read") /\ stack' = Return
    /\ UNCHANGED <<kernel, programs, main, conf, command_pipe, status, todo, tables, scans>>

readdir ==
    /\ At("read")
    /\ \/ Top.names = {} /\ stack' = Return
       \/ \E n \in Top.names :
            stack' = Append([stack EXCEPT ![Len(stack)].names = @ \ {n}],
                            [at |-> "fan", path |-> Append(Top.path, n), names |-> {}])
    /\ UNCHANGED <<kernel, programs, main, conf, command_pipe, status, todo, tables, scans>>

\* Mutant: IN_MOVED_TO is forgotten.
MutForgetMovedTo ==
    /\ Dispatching /\ status = "started" /\ queue # <<>>
    /\ queue' = Tail(queue)
    /\ stack' = IF Head(queue).wd \notin DOMAIN wd2path \/ Head(queue).kind = "MOVED_TO" THEN stack
                ELSE Call(IF Head(queue).kind = "CREATE" THEN "fan" ELSE "unfan",
                          Append(wd2path[Head(queue).wd], Head(queue).name))
    /\ UNCHANGED <<fanMarks, mountMarks, watches, lastWd, limited, signals, announced, programs, main, conf,
                   command_pipe, status, todo, tables, scans>>

\* One event of the buffer; its path comes from the table, which keeps the entries of
\* watches that the kernel dropped with their directory.
inotify_event_process ==
    LET e == Head(queue)
        path == Append(wd2path[e.wd], e.name)
    IN
    /\ Dispatching /\ status = "started" /\ queue # <<>>
    /\ queue' = Tail(queue)
    /\ stack' = IF e.wd \notin DOMAIN wd2path THEN stack
                ELSE Call(IF e.kind \in {"CREATE", "MOVED_TO"} THEN "fan" ELSE "unfan", path)
    /\ misled' = (misled \/ (/\ e.kind \notin {"CREATE", "MOVED_TO"}
                              /\ e.wd \in DOMAIN wd2path \ DOMAIN watches /\ Lookup(path) # Nil))
    /\ UNCHANGED <<fanMarks, mountMarks, watches, lastWd, limited, signals, announced, programs, main, conf,
                   command_pipe, status, todo, wd2path, path2wd, scans>>

\* unmark_directory: a mark that cannot be removed ends it.
fanotify_monitor_unmark_directory ==
    LET d == Lookup(Top.path) IN
    /\ At("unfan")
    /\ IF d \in fanMarks
       THEN fanMarks' = fanMarks \ {d} /\ stack' = GoOn("unino")
       ELSE stack' = Return /\ UNCHANGED fanMarks
    /\ UNCHANGED <<mountMarks, watches, lastWd, queue, limited, signals, announced, programs, main, conf,
                   command_pipe, status, todo, tables, scans>>

inotify_monitor_unmark_directory ==
    LET path == Top.path
        wds == IF path \in DOMAIN path2wd THEN {path2wd[path]} ELSE {}
    IN
    /\ At("unino")
    /\ stack' = Return
    /\ watches' = [w \in DOMAIN watches \ wds |-> watches[w]]
    /\ wd2path' = [w \in DOMAIN wd2path \ wds |-> wd2path[w]]
    /\ path2wd' = [p \in DOMAIN path2wd \ {path} |-> path2wd[p]]
    /\ UNCHANGED <<fanMarks, mountMarks, lastWd, queue, limited, signals, announced, programs, main, conf,
                   command_pipe, status, todo, misled, scans>>

\* Mutant: a medium that is scanned is not marked as well.
MutScanOrMark ==
    /\ Dispatching /\ status = "started" /\ signals # <<>>
    /\ signals' = Tail(signals)
    /\ IF Head(signals) # <<>> /\ setting.autoscan_removable_media
       THEN scans' = scans \cup {Head(signals)[1]} /\ UNCHANGED mountMarks
       ELSE UNCHANGED <<scans, mountMarks>>
    /\ UNCHANGED <<fanMarks, watches, lastWd, queue, limited, announced, programs, main, conf,
                   command_pipe, status, todo, stack, tables>>

\* The first mount point of a nonempty list is taken as the one that was mounted.
mount_idle_cb ==
    LET points == Head(signals) IN
    /\ Dispatching /\ status = "started" /\ signals # <<>>
    /\ signals' = Tail(signals)
    /\ IF points # <<>> /\ setting.autoscan_removable_media
       THEN scans' = scans \cup {points[1]} ELSE UNCHANGED scans
    /\ IF points # <<>> /\ setting.enable_removable_media
       THEN mark_mount_point(points[1]) ELSE UNCHANGED mountMarks
    /\ UNCHANGED <<fanMarks, watches, lastWd, queue, limited, announced, programs, main, conf,
                   command_pipe, status, todo, stack, tables>>

MonitorThread ==
    \/ start_command \/ mark_entries
    \/ fanotify_monitor_mark_directory \/ inotify_monitor_mark_directory \/ opendir \/ readdir
    \/ inotify_event_process
    \/ fanotify_monitor_unmark_directory \/ inotify_monitor_unmark_directory
    \/ mount_idle_cb

Next == Programs \/ MainThread \/ MonitorThread

Spec == Init /\ [][Next]_vars
FairSpec == Spec /\ WF_vars(MainThread) /\ WF_vars(MonitorThread)

----------------------------------------------------------------------------
\* The types of the variables; only the call at the top of the stack is not in readdir.
TypeOK ==
    /\ place \in [Dirs -> {<<>>} \cup ((Dirs \cup {Root, Outside}) \X Names)]
    /\ mounted \in Seq(Points) /\ IsInjective(mounted)
    /\ ops \in 0..MaxOps /\ moved \in BOOLEAN
    /\ fanMarks \subseteq Dirs \cup {Root} /\ mountMarks \subseteq Points \cup {Slash}
    /\ Range(watches) \subseteq Dirs \cup {Root} /\ DOMAIN watches \subseteq 1..lastWd
    /\ Len(queue) <= QueueLimit /\ limited \in BOOLEAN
    /\ signals \in Seq(Seq(Points)) /\ announced \in BOOLEAN
    /\ inited \subseteq Modules /\ looping \in BOOLEAN /\ start_pipe \in 0..1
    /\ setting \in Settings /\ entries \subseteq Points
    /\ command_pipe \in {<<>>, <<"START">>}
    /\ status \in {"off", "starting", "started", "failed"} /\ todo \subseteq Points \cup {Root}
    /\ \A i \in DOMAIN stack :
          stack[i].at \in (IF i = Len(stack) THEN {"fan", "ino", "open", "read", "unfan", "unino"} ELSE {"read"})
    /\ DOMAIN wd2path \subseteq 1..lastWd /\ Range(path2wd) \subseteq 1..lastWd /\ misled \in BOOLEAN
    /\ scans \subseteq Points

\* The monitor started and has nothing left to do about directories.
Quiet == status = "started" /\ stack = <<>> /\ queue = <<>>

\* The directory of a path is marked, watched, and known under that path.
Followed(path) ==
    /\ Lookup(path) \in fanMarks
    /\ \E w \in WatchesOf(Lookup(path)) : wd2path[w] = path

\* The monitored directories of the configuration: once the queue is empty, every
\* directory below them is marked, and watched under its path, unless the kernel
\* refused something.
DirectoriesMonitored ==
    Quiet /\ ~limited => \A path \in Paths : Lookup(path) # Nil => Followed(path)

\* That is so however creations, removals and moves into the tree fall between the
\* system calls of access_monitor_recursive_mark_directory, as long as no directory
\* is moved away from its path, and none is unmarked for another that had its path:
\* inotify_event_full_path finds the path of a watch also after its directory is gone.
FollowedUnlessMoved == ~moved /\ ~misled => DirectoriesMonitored

\* inotify_event_full_path finds the path of every watch that can still have events.
WatchesKnown == DOMAIN watches \subseteq DOMAIN wd2path

\* When all signals are dispatched, the first mount point of the medium is marked and
\* was scanned, if the configuration asks for it.
MediumFollowed ==
    status = "started" /\ signals = <<>> /\ announced /\ mounted # <<>> =>
        /\ setting.enable_removable_media => mounted[1] \in mountMarks
        /\ setting.autoscan_removable_media => mounted[1] \in scans

\* No file is blocked before all modules are initialised and the daemon's main loop
\* runs: that is what the start pipe is for.
NoMarkBeforeMainLoop == fanMarks \cup mountMarks # {} => inited = Modules /\ looping

\* An enabled monitor starts or fails; it does not wait for ever.
Starts == setting.enable ~> status \in {"started", "failed"}

\* A directory that exists once the monitor has started is followed some time later,
\* unless it goes away first.
EventuallyFollowed ==
    \A path \in Paths :
        (status = "started" /\ Lookup(path) # Nil) ~>
            (Followed(path) \/ Lookup(path) = Nil \/ moved \/ limited \/ misled)

\* The marks, the watches and the two tables fit the tree of directories, whatever programs
\* do to it between the monitor's system calls: events find their path, and what exists is
\* followed once the monitor is quiet.
MarksFitTree == TypeOK /\ WatchesKnown /\ FollowedUnlessMoved

\* The monitor makes progress: it gets past the start pipe and its entries, and reaches every
\* directory that stays.
MonitorProgress == Starts /\ EventuallyFollowed
==============================================================================
