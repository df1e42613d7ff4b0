------------------------- MODULE AccessMonitorProofs -------------------------
(***************************************************************************)
(* Proofs about the access monitor, for any tree of directories, any       *)
(* number of operations of programs and any limits of the kernel: nothing  *)
(* is marked before the main loop runs, the monitor knows the watches of   *)
(* the kernel, mounted media are followed, and so is the directory tree.   *)
(***************************************************************************)
EXTENDS AccessMonitor, SequenceTheorems, FiniteSetTheorems, WellFoundedInduction, TLAPS

(***************************************************************************)
(* Nothing is marked before the main loop runs.  The reason runs through   *)
(* both threads: a mark is made by a call of the monitor thread, calls are *)
(* made once the START command was read, the command is written by the     *)
(* main loop.                                                              *)
(***************************************************************************)
LoopInv  == looping => inited = Modules
StartInv == command_pipe # <<>> \/ status # "off" => looping
CallInv  == stack # <<>> => status # "off"
MarkInv  == fanMarks \cup mountMarks # {} => status # "off"

Inv == LoopInv /\ StartInv /\ CallInv /\ MarkInv

LEMMA InitInv == Init => Inv
BY DEF Init, Inv, LoopInv, StartInv, CallInv, MarkInv

\* Programs only ever take marks away.
LEMMA ProgramsInv == Inv /\ Programs => Inv'
<1> SUFFICES ASSUME Inv, Programs PROVE Inv'
  OBVIOUS
<1> USE DEF Inv, LoopInv, StartInv, CallInv, MarkInv, main, conf, monitor, tables
<1>1. ASSUME NEW d, NEW n, NEW new, Mkdir(d, n, new) PROVE Inv'
  BY <1>1 DEF Mkdir
<1>2. ASSUME NEW c, NEW d, NEW n, Rename(c, d, n) PROVE Inv'
  BY <1>2 DEF Rename
<1>3. ASSUME NEW d, Rmdir(d) PROVE Inv'
  BY <1>3 DEF Rmdir
<1>4. ASSUME NEW p, Mount(p) PROVE Inv'
  BY <1>4 DEF Mount
<1>5. ASSUME NEW p, Umount(p) PROVE Inv'
  BY <1>5 DEF Umount
<1> QED  BY <1>1, <1>2, <1>3, <1>4, <1>5 DEF Programs

LEMMA MainInv == Inv /\ MainThread => Inv'
<1> SUFFICES ASSUME Inv, MainThread PROVE Inv'
  OBVIOUS
<1> USE DEF Inv, LoopInv, StartInv, CallInv, MarkInv, kernel, conf, monitor, tables
<1>1. ASSUME NEW m \in Modules, post_init(m) PROVE Inv'
  <2>1. ~looping
    BY <1>1 DEF post_init
  <2> QED  BY <1>1, <2>1 DEF post_init
<1>2. CASE main_loop_run
  BY <1>2 DEF main_loop_run
<1>3. CASE delayed_start_cb
  BY <1>3 DEF delayed_start_cb
<1> QED  BY <1>1, <1>2, <1>3 DEF MainThread

LEMMA MonitorInv == Inv /\ MonitorThread => Inv'
<1> SUFFICES ASSUME Inv, MonitorThread PROVE Inv'
  OBVIOUS
<1> USE DEF Inv, LoopInv, StartInv, CallInv, MarkInv, kernel, main, conf, tables
<1>1. CASE start_command
  BY <1>1 DEF start_command, Dispatching
<1>2. CASE mark_entries
  BY <1>2 DEF mark_entries
<1>3. CASE fanotify_monitor_mark_directory
  BY <1>3 DEF fanotify_monitor_mark_directory, At
<1>4. CASE inotify_monitor_mark_directory
  BY <1>4 DEF inotify_monitor_mark_directory, At
<1>5. CASE opendir
  BY <1>5 DEF opendir, At
<1>6. CASE readdir
  BY <1>6 DEF readdir, At
<1>7. CASE inotify_event_process
  BY <1>7 DEF inotify_event_process
<1>8. CASE fanotify_monitor_unmark_directory
  BY <1>8 DEF fanotify_monitor_unmark_directory, At
<1>9. CASE inotify_monitor_unmark_directory
  BY <1>9 DEF inotify_monitor_unmark_directory, At
<1>10. CASE mount_idle_cb
  BY <1>10 DEF mount_idle_cb
<1> QED  BY <1>1, <1>2, <1>3, <1>4, <1>5, <1>6, <1>7, <1>8, <1>9, <1>10 DEF MonitorThread

\* The daemon marks nothing, and so blocks no file, before all modules are
\* initialised and its main loop runs (the delayed start of monitor.c).
THEOREM MarksWaitForMainLoop == Spec => []NoMarkBeforeMainLoop
<1>1. Inv => NoMarkBeforeMainLoop
  BY DEF Inv, LoopInv, StartInv, MarkInv, NoMarkBeforeMainLoop
<1>2. Inv /\ [Next]_vars => Inv'
  <2> SUFFICES ASSUME Inv, [Next]_vars PROVE Inv'
    OBVIOUS
  <2>1. CASE Programs
    BY <2>1, ProgramsInv
  <2>2. CASE MainThread
    BY <2>2, MainInv
  <2>3. CASE MonitorThread
    BY <2>3, MonitorInv
  <2>4. CASE UNCHANGED vars
    BY <2>4 DEF vars, programs, kernel, main, conf, monitor, tables, Inv, LoopInv, StartInv, CallInv, MarkInv
  <2> QED  BY <2>1, <2>2, <2>3, <2>4 DEF Next
<1> QED  BY InitInv, <1>1, <1>2, PTL DEF Spec

----------------------------------------------------------------------------
\* Every watch that can still have events has its path in the table: adding a watch
\* and removing one keep wd2path_table in step with the kernel (imonitor.c).
THEOREM WatchesAreKnown == Spec => []WatchesKnown
<1>1. Init => WatchesKnown
  BY DEF Init, WatchesKnown
<1>2. WatchesKnown /\ [Next]_vars => WatchesKnown'
  <2> SUFFICES ASSUME WatchesKnown, [Next]_vars PROVE WatchesKnown'
    OBVIOUS
  <2> USE DEF WatchesKnown, tables, monitor, kernel
  <2>1. ASSUME NEW d, NEW n, NEW new, Mkdir(d, n, new) PROVE WatchesKnown'
    BY <2>1 DEF Mkdir
  <2>2. ASSUME NEW c, NEW d, NEW n, Rename(c, d, n) PROVE WatchesKnown'
    BY <2>2 DEF Rename
  <2>3. ASSUME NEW d, Rmdir(d) PROVE WatchesKnown'
    BY <2>3 DEF Rmdir
  <2>4. ASSUME NEW p, Mount(p) \/ Umount(p) PROVE WatchesKnown'
    BY <2>4 DEF Mount, Umount
  <2>5. CASE MainThread
    BY <2>5 DEF MainThread, post_init, main_loop_run, delayed_start_cb
  <2>6. CASE inotify_monitor_mark_directory
    BY <2>6 DEF inotify_monitor_mark_directory
  <2>7. CASE inotify_monitor_unmark_directory
    BY <2>7 DEF inotify_monitor_unmark_directory
  <2>8. CASE start_command \/ mark_entries \/ opendir \/ readdir
    BY <2>8 DEF start_command, mark_entries, opendir, readdir
  <2>9. CASE \/ fanotify_monitor_mark_directory \/ fanotify_monitor_unmark_directory
             \/ inotify_event_process \/ mount_idle_cb
    BY <2>9 DEF fanotify_monitor_mark_directory, fanotify_monitor_unmark_directory,
                inotify_event_process, mount_idle_cb
  <2>10. CASE UNCHANGED vars
    BY <2>10 DEF vars
  <2> QED  BY <2>1, <2>2, <2>3, <2>4, <2>5, <2>6, <2>7, <2>8, <2>9, <2>10
              DEF Next, Programs, MonitorThread
<1> QED  BY <1>1, <1>2, PTL DEF Spec

----------------------------------------------------------------------------
(***************************************************************************)
(* The medium.  The start pipe makes the monitor start once (PipeInv), so  *)
(* that it never leaves the states in which it hears of media              *)
(* (HeardInv).  The last signal that waits tells the mount points of now   *)
(* (MediumInv), and once it was dispatched the first of them is marked and *)
(* scanned.                                                                *)
(***************************************************************************)
PipeInv ==
    /\ start_pipe \in 0..1 /\ command_pipe \in {<<>>, <<"START">>}
    /\ OnAccessMod \notin inited => start_pipe = 0 /\ command_pipe = <<>> /\ status = "off"
    /\ start_pipe = 1 => command_pipe = <<>> /\ status = "off"
    /\ command_pipe # <<>> => status = "off"

HeardInv ==
    /\ announced => status \in {"starting", "started"}
    /\ mounted \in Seq(Points) /\ signals \in Seq(Seq(Points))

MediumInv ==
    announced =>
        IF signals # <<>> THEN signals[Len(signals)] = mounted
        ELSE mounted # <<>> =>
                /\ setting.enable_removable_media => mounted[1] \in mountMarks
                /\ setting.autoscan_removable_media => mounted[1] \in scans

MInv == PipeInv /\ HeardInv /\ MediumInv

\* Sequences of one element.
LEMMA OneElement ==
    ASSUME NEW x
    PROVE  /\ Append(<<>>, x) = <<x>> /\ Tail(<<x>>) = <<>>
           /\ \A S : x \in S => <<x>> \in Seq(S)
<1>1. Append(<<>>, x) = <<x>>
  OBVIOUS
<1>2. Tail(<<x>>) = <<>>
  OBVIOUS
<1>3. ASSUME NEW S, x \in S PROVE <<x>> \in Seq(S)
  BY <1>3
<1> QED  BY <1>1, <1>2, <1>3

LEMMA InitMInv == Init => MInv
<1> SUFFICES ASSUME Init PROVE MInv
  OBVIOUS
<1>1. PipeInv
  BY DEF Init, PipeInv
<1>2. mounted \in Seq(Points)
  <2>1. CASE mounted = <<>>
    BY <2>1
  <2>2. ASSUME NEW p \in ConfMounts, mounted = <<p>> PROVE mounted \in Seq(Points)
    BY <2>2, PointsAssumption, OneElement
  <2> QED  BY <2>1, <2>2 DEF Init
<1>3. HeardInv /\ MediumInv
  BY <1>2 DEF Init, HeardInv, MediumInv
<1> QED  BY <1>1, <1>3 DEF MInv

\* A change of the mount points is the last signal, or nobody hears of it.
LEMMA SignalMInv ==
    ASSUME MInv, mounted' \in Seq(Points), Signal(mounted'),
           UNCHANGED <<main, conf, monitor>>
    PROVE  MInv'
<1> USE DEF main, conf, monitor, tables
<1>1. PipeInv'
  BY DEF MInv, PipeInv
<1>2. CASE status \in {"starting", "started"}
  <2>1. signals' = Append(signals, mounted') /\ announced' = TRUE /\ signals \in Seq(Seq(Points))
    BY <1>2 DEF Signal, MInv, HeardInv
  <2>2. signals' \in Seq(Seq(Points)) /\ signals' # <<>> /\ signals'[Len(signals')] = mounted'
    BY <2>1
  <2> QED  BY <1>1, <1>2, <2>2 DEF MInv, HeardInv, MediumInv
<1>3. CASE status \notin {"starting", "started"}
  <2>1. ~announced /\ UNCHANGED <<signals, announced>>
    BY <1>3 DEF Signal, MInv, HeardInv
  <2> QED  BY <1>1, <2>1 DEF MInv, HeardInv, MediumInv
<1> QED  BY <1>2, <1>3

LEMMA ProgramsMInv == MInv /\ Programs => MInv'
<1> SUFFICES ASSUME MInv, Programs PROVE MInv'
  OBVIOUS
<1> USE DEF MInv, PipeInv, HeardInv, MediumInv, main, conf, monitor, tables
<1>1. ASSUME NEW d, NEW n, NEW new, Mkdir(d, n, new) PROVE MInv'
  BY <1>1 DEF Mkdir
<1>2. ASSUME NEW c, NEW d, NEW n, Rename(c, d, n) PROVE MInv'
  BY <1>2 DEF Rename
<1>3. ASSUME NEW d, Rmdir(d) PROVE MInv'
  BY <1>3 DEF Rmdir
<1>4. ASSUME NEW p \in Points, Mount(p) PROVE MInv'
  <2>1. mounted' \in Seq(Points)
    BY <1>4 DEF Mount
  <2>2. Signal(mounted') /\ UNCHANGED <<main, conf, monitor>>
    BY <1>4 DEF Mount
  <2> HIDE DEF MInv, PipeInv, HeardInv, MediumInv, main, conf, monitor, tables
  <2> QED  BY <2>1, <2>2, SignalMInv
<1>5. ASSUME NEW p \in Points, Umount(p) PROVE MInv'
  <2>1. mounted' \in Seq(Points)
    <3>1. PICK i \in DOMAIN mounted : mounted' = RemoveAt(mounted, i)
      BY <1>5 DEF Umount
    <3>2. /\ SubSeq(mounted, 1, i - 1) \in Seq(Points)
          /\ SubSeq(mounted, i + 1, Len(mounted)) \in Seq(Points)
      OBVIOUS
    <3> QED  BY <3>1, <3>2 DEF RemoveAt
  <2>2. Signal(mounted') /\ UNCHANGED <<main, conf, monitor>>
    BY <1>5 DEF Umount
  <2> HIDE DEF MInv, PipeInv, HeardInv, MediumInv, main, conf, monitor, tables
  <2> QED  BY <2>1, <2>2, SignalMInv
<1> QED  BY <1>1, <1>2, <1>3, <1>4, <1>5 DEF Programs

LEMMA MainMInv == MInv /\ MainThread => MInv'
<1> SUFFICES ASSUME MInv, MainThread PROVE MInv'
  OBVIOUS
<1> USE DEF MInv, PipeInv, HeardInv, MediumInv, programs, kernel, conf, monitor, tables
<1>1. ASSUME NEW m \in Modules, post_init(m) PROVE MInv'
  BY <1>1 DEF post_init
<1>2. CASE main_loop_run
  BY <1>2 DEF main_loop_run
<1>3. CASE delayed_start_cb
  <2>1. command_pipe' \in {<<>>, <<"START">>}
    <3>1. start_pipe = 1 /\ command_pipe = <<>>
      BY <1>3 DEF delayed_start_cb
    <3> QED  BY <1>3, <3>1, OneElement DEF delayed_start_cb
  <2> QED  BY <1>3, <2>1 DEF delayed_start_cb
<1> QED  BY <1>1, <1>2, <1>3 DEF MainThread

LEMMA MonitorMInv == MInv /\ MonitorThread => MInv'
<1> SUFFICES ASSUME MInv, MonitorThread PROVE MInv'
  OBVIOUS
<1> USE DEF MInv, PipeInv, HeardInv, MediumInv, programs, kernel, main, conf, tables
<1>1. CASE start_command
  <2>1. command_pipe' = <<>>
    <3>1. command_pipe = <<"START">> /\ command_pipe' = Tail(command_pipe)
      BY <1>1 DEF start_command
    <3> QED  BY <3>1, OneElement
  <2> QED  BY <1>1, <2>1 DEF start_command
<1>2. CASE mark_entries
  BY <1>2 DEF mark_entries, mark_mount_point
<1>3. CASE fanotify_monitor_mark_directory \/ inotify_monitor_mark_directory
  BY <1>3 DEF fanotify_monitor_mark_directory, inotify_monitor_mark_directory
<1>4. CASE opendir \/ readdir \/ inotify_event_process
  BY <1>4 DEF opendir, readdir, inotify_event_process
<1>5. CASE fanotify_monitor_unmark_directory \/ inotify_monitor_unmark_directory
  BY <1>5 DEF fanotify_monitor_unmark_directory, inotify_monitor_unmark_directory
<1>6. CASE mount_idle_cb
  <2> USE <1>6 DEF mount_idle_cb
  <2>1. signals' \in Seq(Seq(Points)) /\ Len(signals') = Len(signals) - 1
    OBVIOUS
  <2>2. CASE Len(signals) > 1
    <3>1. signals' # <<>> /\ signals'[Len(signals')] = signals[Len(signals)]
      <4>1. signals \in Seq(Seq(Points)) /\ signals' = Tail(signals)
        OBVIOUS
      <4>2. \A i \in 1..Len(signals') : signals'[i] = signals[i + 1]
        BY <2>1, <2>2, <4>1, HeadTailProperties
      <4>3. Len(signals) \in Nat
        BY <4>1
      <4>4. Len(signals') \in 1..Len(signals') /\ Len(signals') + 1 = Len(signals)
        BY ONLY <2>1, <2>2, <4>3
      <4>5. signals' # <<>>
        BY ONLY <2>1, <2>2, <4>3
      <4> QED  BY ONLY <4>2, <4>4, <4>5
    <3> QED  BY <2>1, <3>1
  <2>3. CASE Len(signals) = 1
    <3>1. signals' = <<>> /\ Head(signals) = signals[Len(signals)]
      BY <2>1, <2>3
    <3>2. mounted # <<>> => mounted[1] \in Range(mounted)
      BY DEF Range
    <3> QED  BY <2>1, <3>1, <3>2 DEF mark_mount_point
  <2>4. Len(signals) > 1 \/ Len(signals) = 1
    <3>1. signals \in Seq(Seq(Points)) /\ signals # <<>>
      OBVIOUS
    <3>2. Len(signals) \in Nat /\ Len(signals) # 0
      BY <3>1, EmptySeq
    <3> QED  BY ONLY <3>2
  <2> QED  BY <2>2, <2>3, <2>4
<1> QED  BY <1>1, <1>2, <1>3, <1>4, <1>5, <1>6 DEF MonitorThread

\* However mounts and unmounts fall between the steps of the monitor, once all signals are
\* dispatched the first mount point of the medium is marked and was scanned, if the
\* configuration asks for it (mount_idle_cb of monitor.c).
THEOREM MediaAreFollowed == Spec => []MediumFollowed
<1>1. MInv /\ [Next]_vars => MInv'
  <2> SUFFICES ASSUME MInv, [Next]_vars PROVE MInv'
    OBVIOUS
  <2>1. CASE UNCHANGED vars
    BY <2>1 DEF vars, programs, kernel, main, conf, monitor, tables,
                MInv, PipeInv, HeardInv, MediumInv
  <2> QED  BY <2>1, ProgramsMInv, MainMInv, MonitorMInv DEF Next
<1>2. MInv => MediumFollowed
  BY DEF MInv, MediumInv, MediumFollowed
<1> QED  BY InitMInv, <1>1, <1>2, PTL DEF Spec

-----------------------------------------------------------------------------
(***************************************************************************)
(* What exists is followed.                                                *)
(***************************************************************************)
Creations == {"CREATE", "MOVED_TO"}
Kinds == Creations \cup {"DELETE", "MOVED_FROM"}
CallSteps == {"fan", "ino", "open", "read", "unfan", "unino"}

\* The first k names of a path.
Part(q, k) == SubSeq(q, 1, k)


(* What the variables may be, in groups.                                   *)

Events == [kind : Kinds, wd : 1..lastWd, name : Names]
Calls == [at : CallSteps, path : Seq(Names), names : SUBSET Names]

Places == {<<>>} \cup ((Dirs \cup {Root, Outside}) \X Names)
PlaceOK == place \in [Dirs -> Places]

\* Every directory is in one that exists, and no two have the same name there.
TreeInv ==
    \A c \in Dirs : place[c] # <<>> =>
        /\ Exists(place[c][1])
        /\ \A e \in Dirs : place[e] = place[c] => e = c

FilesOK == PlaceOK /\ TreeInv /\ ops \in 0..MaxOps /\ moved \in BOOLEAN

MediaOK ==
    /\ mounted \in Seq(Points) /\ IsInjective(mounted) /\ mountMarks \subseteq Points \cup {Slash}
    /\ signals \in Seq(Seq(Points)) /\ announced \in BOOLEAN /\ scans \subseteq Points
    /\ setting \in Settings /\ entries \subseteq Points

\* A directory has at most one watch.
MarkOK ==
    /\ fanMarks \subseteq Dirs \cup {Root} /\ lastWd \in Nat
    /\ \A w \in DOMAIN watches : w \in 1..lastWd /\ watches[w] \in Dirs \cup {Root}
    /\ \A v, w \in DOMAIN watches : watches[v] = watches[w] => v = w

QueueOK == queue \in Seq(Events) /\ Len(queue) <= QueueLimit /\ limited \in BOOLEAN

Started == status \in {"starting", "started"} /\ Root \notin todo

StartOK ==
    /\ inited \subseteq Modules /\ looping \in BOOLEAN
    /\ status \in {"off", "starting", "started", "failed"} /\ todo \subseteq Points \cup {Root}
    /\ status = "started" => todo = {}

\* Calls are nested in readdir; unmark_directory is called from the main loop.
CallOK ==
    /\ stack \in Seq(Calls)
    /\ stack # <<>> => Started
    /\ \A i \in 1..Len(stack) - 1 : stack[i].at = "read"
    /\ \A i \in 1..Len(stack) : stack[i].at \in {"unfan", "unino"} => Len(stack) = 1 /\ stack[i].path # <<>>

TableOK ==
    /\ \A w \in DOMAIN wd2path : w \in 1..lastWd /\ wd2path[w] \in Seq(Names)
    /\ \A p \in DOMAIN path2wd : p \in Seq(Names) /\ path2wd[p] \in 1..lastWd
    /\ misled \in BOOLEAN

TypeInv == MInv /\ FilesOK /\ MediaOK /\ MarkOK /\ QueueOK /\ StartOK /\ CallOK /\ TableOK

(* What is followed.                                                       *)

\* An event that waits tells of the path q or of a directory above it.
Told(q) ==
    \E j \in DOMAIN queue, k \in 1..Len(q) :
        /\ queue[j].kind \in Creations /\ queue[j].wd \in DOMAIN wd2path
        /\ wd2path[queue[j].wd] = Part(q, k - 1) /\ queue[j].name = q[k]

\* The call c is going to come to the path q through a directory above it, or to mark it.
Enters(c, q) ==
    \/ c.at = "fan" /\ \E k \in 0..Len(q) : c.path = Part(q, k)
    \/ c.at \in {"ino", "open"} /\ \E k \in 0..Len(q) - 1 : c.path = Part(q, k)
    \/ c.at = "read" /\ \E k \in 1..Len(q) : c.path = Part(q, k - 1) /\ q[k] \in c.names

\* It is there, and has the mark.
Marks(c, q) == c.at = "ino" /\ c.path = q /\ Lookup(q) \in fanMarks

Reached(q) == \E i \in DOMAIN stack : Enters(stack[i], q) \/ Marks(stack[i], q)

FollowInv ==
    Started => \A q \in Seq(Names) : Lookup(q) # Nil => Told(q) \/ Reached(q) \/ Followed(q)

UnmarkInv ==
    \A i \in DOMAIN stack : stack[i].at \in {"unfan", "unino"} /\ Lookup(stack[i].path) # Nil => Told(stack[i].path)

WatchPath ==
    \A w \in DOMAIN watches : w \in DOMAIN wd2path /\ Lookup(wd2path[w]) = watches[w]

TablesInv == \A p \in DOMAIN path2wd : path2wd[p] \in DOMAIN wd2path => wd2path[path2wd[p]] = p

\* A directory that was removed from a watched one and is there again has a later event.
RemovalInv ==
    \A i \in DOMAIN queue :
        /\ queue[i].kind \notin Creations /\ queue[i].wd \in DOMAIN watches
        /\ Child(watches[queue[i].wd], queue[i].name) # Nil
        => \E j \in DOMAIN queue : /\ j > i /\ queue[j].kind \in Creations
                                   /\ queue[j].wd = queue[i].wd /\ queue[j].name = queue[i].name

TInv ==
    /\ TypeInv
    /\ limited \/ RemovalInv
    /\ moved \/ (WatchPath /\ TablesInv)
    /\ moved \/ limited \/ misled \/ (FollowInv /\ UnmarkInv)

-----------------------------------------------------------------------------
(* Induction and recursion over natural numbers.                           *)

LEMMA LeastNumber ==
    ASSUME NEW T, T \subseteq Nat, T # {}
    PROVE  \E x \in T : \A y \in T : x <= y
<1> DEFINE Less == {ss \in Nat \X Nat : ss[1] < ss[2]}
<1>1. IsWellFoundedOn(Less, Nat)
  BY NatLessThanWellFounded DEF OpToRel
<1>2. PICK x \in T : \A y \in T : ~(<<y, x>> \in Less)
  BY <1>1, WFMin
<1>3. \A y \in T : ~(y < x)
  BY <1>2
<1> QED  BY <1>3

\* Induction, on the numbers that do not have the property.
LEMMA Downwards ==
    ASSUME NEW K \in Nat, NEW G, 0 \in G, \A k \in 1..K : k - 1 \in G => k \in G
    PROVE  0..K \subseteq G
<1> DEFINE T == {m \in 0..K : m \notin G}
<1> SUFFICES ASSUME T # {} PROVE FALSE
  OBVIOUS
<1>0. T \subseteq Nat
  OBVIOUS
<1> HIDE DEF T
<1>1. PICK x \in T : \A y \in T : x <= y
  BY <1>0, LeastNumber
<1> USE DEF T
<1>2. x \in 1..K /\ x - 1 \in 0..K /\ x - 1 \notin T
  BY <1>1
<1> QED  BY <1>1, <1>2

\* f is defined step by step.
ByStep(f, X, x0, K, g) == f \in [0..K -> X] /\ f[0] = x0 /\ \A k \in 1..K : f[k] = g[k][f[k - 1]]

LEMMA Recursion ==
    ASSUME NEW X, NEW x0 \in X, NEW K \in Nat, NEW g \in [1..K -> [X -> X]]
    PROVE  \E f : ByStep(f, X, x0, K, g)
<1> DEFINE G == {m \in 0..K : \E f : ByStep(f, X, x0, m, g)}
<1>1. 0 \in G
  <2> DEFINE f == [i \in 0..0 |-> x0]
  <2>1. f \in [0..0 -> X] /\ f[0] = x0
    OBVIOUS
  <2>2. \A k \in 1..0 : FALSE
    OBVIOUS
  <2> HIDE DEF f
  <2>3. ByStep(f, X, x0, 0, g)
    BY <2>1, <2>2 DEF ByStep
  <2> QED  BY <2>3
<1>2. ASSUME NEW m \in 1..K, m - 1 \in G PROVE m \in G
  <2>1. PICK f : ByStep(f, X, x0, m - 1, g)
    BY <1>2
  <2> DEFINE h == [i \in 0..m |-> IF i < m THEN f[i] ELSE g[m][f[m - 1]]]
  <2>2. f[m - 1] \in X
    BY <2>1 DEF ByStep
  <2>3. h \in [0..m -> X] /\ h[0] = x0 /\ h[m] = g[m][f[m - 1]] /\ \A i \in 0..m - 1 : h[i] = f[i]
    BY <2>1, <2>2 DEF ByStep
  <2> HIDE DEF h
  <2>4. ASSUME NEW k \in 1..m PROVE h[k] = g[k][h[k - 1]]
    <3>1. k - 1 \in 0..m - 1 /\ h[k - 1] = f[k - 1]
      BY <2>3
    <3>2. CASE k = m
      BY <2>3, <3>1, <3>2
    <3>3. CASE k < m
      BY <2>1, <2>3, <3>1, <3>3 DEF ByStep
    <3> QED  BY <3>2, <3>3
  <2>5. ByStep(h, X, x0, m, g)
    BY <2>3, <2>4 DEF ByStep
  <2> QED  BY <2>5
<1> HIDE DEF G
<1>3. \A m \in 1..K : m - 1 \in G => m \in G
  BY <1>2
<1>4. K \in G
  <2>1. 0..K \subseteq G
    BY <1>1, <1>3, Downwards
  <2> QED  BY <2>1
<1> QED  BY <1>4 DEF G

-----------------------------------------------------------------------------
(* The tree of directories.                                                *)

LEMMA ChildIs ==
    PlaceOK => \A d, n : /\ Child(d, n) \in Dirs \cup {Nil}
                         /\ Child(d, n) # Nil => place[Child(d, n)] = <<d, n>> /\ Child(d, n) \in Dirs
                         /\ \A c \in Dirs : place[c] = <<d, n>> => Child(d, n) # Nil
BY DirsAssumption DEF Child

\* A walk along the path q.
Walk(f, q) ==
    /\ f \in [0..Len(q) -> Dirs \cup {Root, Nil}] /\ f[0] = Root
    /\ \A k \in 1..Len(q) : f[k] = Child(f[k - 1], q[k])

LEMMA LookupWalk ==
    ASSUME PlaceOK, NEW q \in Seq(Names)
    PROVE  \E f : Walk(f, q) /\ Lookup(q) = f[Len(q)]
<1> DEFINE K == Len(q)
           X == Dirs \cup {Root, Nil}
           g == [k \in 1..K |-> [x \in X |-> Child(x, q[k])]]
           IsAt(f) == f = [k \in 0..K |-> IF k = 0 THEN Root ELSE Child(f[k - 1], q[k])]
<1>1. K \in Nat /\ Root \in X
  OBVIOUS
<1>2. g \in [1..K -> [X -> X]] /\ \A k \in 1..K, x \in X : g[k][x] = Child(x, q[k])
  BY <1>1, ChildIs
<1> HIDE DEF g, X, K
<1>3. PICK f : ByStep(f, X, Root, K, g)
  BY <1>1, <1>2, Recursion
<1>4. f \in [0..K -> X] /\ f[0] = Root /\ \A k \in 1..K : f[k] = Child(f[k - 1], q[k])
  <2>1. \A k \in 1..K : k - 1 \in 0..K /\ f[k - 1] \in X
    BY <1>1, <1>3 DEF ByStep
  <2> QED  BY <1>2, <1>3, <2>1 DEF ByStep
<1>5. IsAt(f)
  BY <1>1, <1>4
<1>6. IsAt(CHOOSE h : IsAt(h))
  BY <1>5
<1>7. Lookup(q) = (CHOOSE h : IsAt(h))[K]
  BY DEF Lookup, K
<1> DEFINE h == CHOOSE h : IsAt(h)
<1> HIDE DEF h
<1>8. h = [k \in 0..K |-> IF k = 0 THEN Root ELSE Child(h[k - 1], q[k])] /\ Lookup(q) = h[K]
  BY <1>6, <1>7 DEF h
<1>9. h[0] = Root /\ \A k \in 1..K : h[k] = Child(h[k - 1], q[k])
  BY <1>1, <1>8
<1>10. h \in [0..K -> X]
  <2>1. ASSUME NEW k \in 0..K PROVE h[k] \in X
    <3>1. k = 0 \/ k \in 1..K
      BY <1>1
    <3> QED  BY <1>9, <3>1, ChildIs DEF X
  <2>2. h = [k \in 0..K |-> h[k]]
    BY <1>8
  <2> QED  BY <2>1, <2>2
<1> QED  BY <1>8, <1>9, <1>10 DEF Walk, K, X

\* What Lookup is: the directory of the first names, and in it the last one.
LEMMA LookupIs ==
    PlaceOK => /\ Lookup(<<>>) = Root
               /\ \A q \in Seq(Names) : /\ Lookup(q) \in Dirs \cup {Root, Nil}
                                        /\ \A n \in Names : Lookup(Append(q, n)) = Child(Lookup(q), n)
<1> SUFFICES ASSUME PlaceOK
             PROVE  /\ Lookup(<<>>) = Root
                    /\ \A q \in Seq(Names) : /\ Lookup(q) \in Dirs \cup {Root, Nil}
                                             /\ \A n \in Names : Lookup(Append(q, n)) = Child(Lookup(q), n)
  OBVIOUS
<1>1. Lookup(<<>>) = Root
  <2>1. <<>> \in Seq(Names) /\ Len(<<>>) = 0
    OBVIOUS
  <2> QED  BY <2>1, LookupWalk DEF Walk
<1>2. ASSUME NEW q \in Seq(Names) PROVE Lookup(q) \in Dirs \cup {Root, Nil}
  <2>1. Len(q) \in 0..Len(q)
    OBVIOUS
  <2> QED  BY <2>1, LookupWalk DEF Walk
<1>3. ASSUME NEW q \in Seq(Names), NEW n \in Names PROVE Lookup(Append(q, n)) = Child(Lookup(q), n)
  <2> DEFINE r == Append(q, n)
             K == Len(q)
  <2>1. r \in Seq(Names) /\ Len(r) = K + 1 /\ K \in Nat /\ r[K + 1] = n /\ \A k \in 1..K : r[k] = q[k]
    OBVIOUS
  <2> HIDE DEF r
  <2>2. PICK f : Walk(f, q) /\ Lookup(q) = f[K]
    BY LookupWalk
  <2>3. PICK h : Walk(h, r) /\ Lookup(r) = h[K + 1]
    BY <2>1, LookupWalk
  <2> DEFINE G == {k \in 0..K : h[k] = f[k]}
  <2>4. 0 \in G
    BY <2>1, <2>2, <2>3 DEF Walk
  <2>5. ASSUME NEW k \in 1..K, k - 1 \in G PROVE k \in G
    BY <2>1, <2>2, <2>3, <2>5 DEF Walk
  <2> HIDE DEF G
  <2>6. K \in G
    <3>1. \A k \in 1..K : k - 1 \in G => k \in G
      BY <2>5
    <3>2. 0..K \subseteq G
      BY <2>1, <2>4, <3>1, Downwards
    <3> QED  BY <2>1, <3>2
  <2>7. h[K] = f[K]
    BY <2>6 DEF G
  <2>8. h[K + 1] = Child(h[K], n)
    BY <2>1, <2>3 DEF Walk
  <2> QED  BY <2>2, <2>3, <2>7, <2>8 DEF r
<1> QED  BY <1>1, <1>2, <1>3

LEMMA PartIs ==
    ASSUME NEW q \in Seq(Names), NEW k \in 0..Len(q)
    PROVE  /\ Part(q, k) \in Seq(Names) /\ Len(Part(q, k)) = k
           /\ \A i \in 1..k : Part(q, k)[i] = q[i]
           /\ Part(q, 0) = <<>> /\ Part(q, Len(q)) = q
           /\ k # 0 => Part(q, k) = Append(Part(q, k - 1), q[k]) /\ q[k] \in Names /\ Part(q, k - 1) \in Seq(Names)
           /\ \A j \in 0..k : Part(Part(q, k), j) = Part(q, j)
<1> USE DEF Part
<1>1. Len(q) \in Nat /\ \A i \in 1..Len(q) : q[i] \in Names
  OBVIOUS
<1>2. ASSUME NEW r \in Seq(Names), NEW m \in 0..Len(r)
      PROVE  /\ Part(r, m) \in Seq(Names) /\ Len(Part(r, m)) = m
             /\ \A i \in 1..m : Part(r, m)[i] = r[i]
  BY <1>2, SubSeqProperties
<1> HIDE DEF Part
<1>3. Part(q, 0) = <<>>
  BY <1>1, <1>2, EmptySeq
<1>4. Part(q, Len(q)) = q
  BY <1>1, <1>2, SeqEqual
<1>5. ASSUME k # 0 PROVE Part(q, k) = Append(Part(q, k - 1), q[k]) /\ q[k] \in Names /\ Part(q, k - 1) \in Seq(Names)
  <2> DEFINE p == Part(q, k - 1)
             r == Append(p, q[k])
  <2>1. p \in Seq(Names) /\ Len(p) = k - 1 /\ \A i \in 1..k - 1 : p[i] = q[i]
    <3>1. k - 1 \in 0..Len(q)
      BY <1>1, <1>5
    <3> QED  BY <1>2, <3>1
  <2>2. q[k] \in Names
    BY <1>1, <1>5
  <2> HIDE DEF p
  <2>3. r \in Seq(Names) /\ Len(r) = k /\ r[k] = q[k] /\ \A i \in 1..k - 1 : r[i] = q[i]
    BY <2>1, <2>2
  <2> HIDE DEF r
  <2>4. \A i \in 1..k : r[i] = Part(q, k)[i]
    BY <1>2, <2>3
  <2>5. Part(q, k) = r
    BY <1>2, <2>3, <2>4, SeqEqual
  <2> QED  BY <2>1, <2>2, <2>5 DEF p, r
<1>6. ASSUME NEW j \in 0..k PROVE Part(Part(q, k), j) = Part(q, j)
  <2>1. Part(q, k) \in Seq(Names) /\ Len(Part(q, k)) = k /\ j \in 0..Len(q)
    BY <1>1, <1>2
  <2> DEFINE a == Part(Part(q, k), j)
             b == Part(q, j)
  <2>2. a \in Seq(Names) /\ Len(a) = j /\ \A i \in 1..j : a[i] = Part(q, k)[i]
    BY <1>2, <2>1
  <2>3. b \in Seq(Names) /\ Len(b) = j /\ \A i \in 1..j : b[i] = q[i]
    BY <1>2, <2>1
  <2> HIDE DEF a, b
  <2>4. \A i \in 1..j : a[i] = b[i]
    BY <1>1, <1>2, <2>2, <2>3
  <2>5. a = b
    BY <2>2, <2>3, <2>4, SeqEqual
  <2> QED  BY <2>5 DEF a, b
<1> QED  BY <1>2, <1>3, <1>4, <1>5, <1>6

\* The directories on a path.
LEMMA LookupParts ==
    PlaceOK => \A q \in Seq(Names) :
                  /\ \A k \in 1..Len(q) : Lookup(Part(q, k)) = Child(Lookup(Part(q, k - 1)), q[k])
                  /\ Lookup(Part(q, 0)) = Root /\ Lookup(Part(q, Len(q))) = Lookup(q)
<1> SUFFICES ASSUME PlaceOK, NEW q \in Seq(Names)
             PROVE  /\ \A k \in 1..Len(q) : Lookup(Part(q, k)) = Child(Lookup(Part(q, k - 1)), q[k])
                    /\ Lookup(Part(q, 0)) = Root /\ Lookup(Part(q, Len(q))) = Lookup(q)
  OBVIOUS
<1>1. ASSUME NEW k \in 1..Len(q) PROVE Lookup(Part(q, k)) = Child(Lookup(Part(q, k - 1)), q[k])
  <2>1. k \in 0..Len(q) /\ k # 0
    OBVIOUS
  <2> QED  BY <2>1, PartIs, LookupIs
<1>2. Part(q, 0) = <<>> /\ Part(q, Len(q)) = q
  <2>1. 0 \in 0..Len(q)
    OBVIOUS
  <2> QED  BY <2>1, PartIs
<1> QED  BY <1>1, <1>2, LookupIs

LEMMA NilHasNone == PlaceOK => \A n : Child(Nil, n) = Nil
<1> SUFFICES ASSUME PlaceOK, NEW n, Child(Nil, n) # Nil PROVE FALSE
  OBVIOUS
<1>1. PICK c \in Dirs : place[c] = <<Nil, n>>
  BY ChildIs
<1>2. place[c] \in Places /\ place[c] # <<>>
  BY <1>1 DEF PlaceOK
<1>3. place[c][1] \in Dirs \cup {Root, Outside} /\ place[c][1] = Nil
  BY <1>1, <1>2 DEF Places
<1> QED  BY <1>3, DirsAssumption

LEMMA PartsExist ==
    PlaceOK => \A q \in Seq(Names) : Lookup(q) # Nil => \A k \in 0..Len(q) : Lookup(Part(q, k)) # Nil
<1> SUFFICES ASSUME PlaceOK, NEW q \in Seq(Names), Lookup(q) # Nil
             PROVE  \A k \in 0..Len(q) : Lookup(Part(q, k)) # Nil
  OBVIOUS
<1> DEFINE K == Len(q)
           G == {j \in 0..K : Lookup(Part(q, K - j)) # Nil}
<1>1. K \in Nat
  OBVIOUS
<1>2. 0 \in G
  <2>1. K - 0 = Len(q)
    OBVIOUS
  <2> QED  BY <1>1, <2>1, LookupParts
<1>3. ASSUME NEW j \in 1..K, j - 1 \in G PROVE j \in G
  <2>1. K - j + 1 \in 1..K /\ K - (j - 1) = K - j + 1 /\ (K - j + 1) - 1 = K - j /\ j \in 0..K
    BY <1>1
  <2>2. Lookup(Part(q, K - j + 1)) # Nil
    BY <1>3, <2>1
  <2>3. Lookup(Part(q, K - j + 1)) = Child(Lookup(Part(q, K - j)), q[K - j + 1])
    BY <2>1, LookupParts
  <2> QED  BY <2>1, <2>2, <2>3, NilHasNone
<1>4. 0..K \subseteq G
  <2>1. \A j \in 1..K : j - 1 \in G => j \in G
    BY <1>3
  <2> HIDE DEF G
  <2> QED  BY <1>1, <1>2, <2>1, Downwards
<1>5. ASSUME NEW k \in 0..Len(q) PROVE Lookup(Part(q, k)) # Nil
  <2>1. K - k \in 0..K /\ K - (K - k) = k
    BY <1>1
  <2>2. K - k \in G
    BY <1>4, <2>1
  <2> QED  BY <2>1, <2>2
<1> QED  BY <1>5

\* A directory has one path.
LEMMA OnePath ==
    PlaceOK => \A q, r \in Seq(Names) : Lookup(q) = Lookup(r) /\ Lookup(q) # Nil => q = r
<1> SUFFICES ASSUME PlaceOK PROVE \A q, r \in Seq(Names) : Lookup(q) = Lookup(r) /\ Lookup(q) # Nil => q = r
  OBVIOUS
<1> DEFINE G == {m \in Nat : \A q, r \in Seq(Names) : Len(q) = m /\ Lookup(q) = Lookup(r) /\ Lookup(q) # Nil => q = r}
<1>1. ASSUME NEW q \in Seq(Names), q # <<>>, Lookup(q) # Nil
      PROVE  /\ Len(q) \in 1..Len(q) /\ Lookup(q) \in Dirs
             /\ Part(q, Len(q) - 1) \in Seq(Names) /\ Len(Part(q, Len(q) - 1)) = Len(q) - 1
             /\ q = Append(Part(q, Len(q) - 1), q[Len(q)])
             /\ place[Lookup(q)] = <<Lookup(Part(q, Len(q) - 1)), q[Len(q)]>>
             /\ Lookup(Part(q, Len(q) - 1)) # Nil
  <2>1. Len(q) \in Nat /\ Len(q) # 0
    BY <1>1, EmptySeq
  <2>2. Len(q) \in 0..Len(q) /\ Len(q) - 1 \in 0..Len(q) /\ Len(q) \in 1..Len(q)
    BY <2>1
  <2>3. /\ Part(q, Len(q) - 1) \in Seq(Names) /\ Len(Part(q, Len(q) - 1)) = Len(q) - 1
        /\ q = Append(Part(q, Len(q) - 1), q[Len(q)]) /\ q[Len(q)] \in Names
    BY <2>1, <2>2, PartIs
  <2>4. Lookup(q) = Child(Lookup(Part(q, Len(q) - 1)), q[Len(q)])
    BY <2>2, LookupParts
  <2>5. Lookup(Part(q, Len(q) - 1)) # Nil
    BY <1>1, <2>2, PartsExist
  <2> QED  BY <1>1, <2>2, <2>3, <2>4, <2>5, ChildIs
<1>2. 0 \in G
  <2> SUFFICES ASSUME NEW q \in Seq(Names), NEW r \in Seq(Names), Len(q) = 0, Lookup(q) = Lookup(r), Lookup(q) # Nil
               PROVE  q = r
    OBVIOUS
  <2>1. q = <<>> /\ Lookup(q) = Root
    BY EmptySeq, LookupIs
  <2> QED  BY <2>1, <1>1, DirsAssumption
<1>3. ASSUME NEW m \in Nat \ {0}, m - 1 \in G PROVE m \in G
  <2> SUFFICES ASSUME NEW q \in Seq(Names), NEW r \in Seq(Names), Len(q) = m, Lookup(q) = Lookup(r), Lookup(q) # Nil
               PROVE  q = r
    OBVIOUS
  <2>1. q # <<>> /\ Lookup(q) \in Dirs
    <3>1. q # <<>>
      BY EmptySeq
    <3> QED  BY <3>1, <1>1
  <2>2. r # <<>>
    BY <2>1, LookupIs, DirsAssumption
  <2> DEFINE qf == Part(q, Len(q) - 1)
             rf == Part(r, Len(r) - 1)
  <2>3. qf \in Seq(Names) /\ Len(qf) = m - 1 /\ q = Append(qf, q[Len(q)])
        /\ place[Lookup(q)] = <<Lookup(qf), q[Len(q)]>> /\ Lookup(qf) # Nil
    BY <1>1, <2>1
  <2>4. rf \in Seq(Names) /\ r = Append(rf, r[Len(r)]) /\ place[Lookup(r)] = <<Lookup(rf), r[Len(r)]>>
    BY <1>1, <2>2
  <2> HIDE DEF qf, rf
  <2>5. Lookup(qf) = Lookup(rf) /\ q[Len(q)] = r[Len(r)]
    BY <2>3, <2>4
  <2>6. qf = rf
    BY <1>3, <2>3, <2>4, <2>5
  <2> QED  BY <2>3, <2>4, <2>5, <2>6
<1>4. ASSUME NEW q \in Seq(Names), NEW r \in Seq(Names), Lookup(q) = Lookup(r), Lookup(q) # Nil
      PROVE  q = r
  <2>1. Len(q) \in Nat
    OBVIOUS
  <2>2. \A k \in 1..Len(q) : k - 1 \in G => k \in G
    BY <1>3
  <2>3. Len(q) \in G
    <3> HIDE DEF G
    <3>1. 0..Len(q) \subseteq G
      BY <1>2, <2>1, <2>2, Downwards
    <3> QED  BY <2>1, <3>1
  <2> QED  BY <1>4, <2>3
<1> QED  BY <1>4

LEMMA IntervalSize == ASSUME NEW m \in Nat PROVE Cardinality(1..m) = m
<1>1. Cardinality(1..m) = IF 1 > m THEN 0 ELSE m - 1 + 1
  <2>1. 1 \in Int /\ m \in Int
    OBVIOUS
  <2> QED  BY <2>1, FS_Interval, Zenon
<1> QED  BY <1>1

\* A directory that has a path lies in Root: Rename notices when it is moved.
LEMMA AboveReaches ==
    ASSUME PlaceOK, NEW q \in Seq(Names), Lookup(q) \in Dirs
    PROVE  Root \in Above(Lookup(q))
<1> DEFINE N == Cardinality(Dirs)
           L == Len(q)
           X == SUBSET (Dirs \cup {Root, Outside})
           Parents(S) == S \cup {place[c][1] : c \in {e \in S \cap Dirs : place[e] # <<>>}}
           g == [k \in 1..N |-> [S \in X |-> Parents(S)]]
           d == Lookup(q)
           IsUp(f) == f = [k \in 0..N |-> IF k = 0 THEN {d} ELSE Parents(f[k - 1])]
<1>1. N \in Nat /\ L \in Nat /\ {d} \in X
  BY BoundsAssumption, FS_CardinalityType
<1>2. Lookup(q) # Nil
  BY DirsAssumption
<1>3. L <= N
  <2> DEFINE f == [k \in 1..L |-> Lookup(Part(q, k))]
  <2>1. ASSUME NEW k \in 1..L PROVE k \in 0..L /\ Lookup(Part(q, k)) \in Dirs /\ Lookup(Part(q, k)) # Nil /\ Part(q, k) \in Seq(Names) /\ Len(Part(q, k)) = k
    <3>1. k \in 0..L
      BY <1>1
    <3> QED  BY <1>2, <3>1, LookupParts, PartsExist, ChildIs, PartIs
  <2>2. \A j, k \in 1..L : f[j] = f[k] => j = k
    <3> SUFFICES ASSUME NEW j \in 1..L, NEW k \in 1..L, Lookup(Part(q, j)) = Lookup(Part(q, k)) PROVE j = k
      OBVIOUS
    <3>1. Part(q, j) = Part(q, k)
      BY <2>1, OnePath
    <3> QED  BY <2>1, <3>1
  <2>3. f \in [1..L -> Dirs]
    BY <2>1
  <2> HIDE DEF f
  <2>4. f \in Injection(1..L, Dirs)
    BY <2>2, <2>3 DEF Injection, IsInjective
  <2>5. Cardinality(1..L) = L
    BY <1>1, IntervalSize
  <2> QED  BY <2>4, <2>5, FS_Injection, BoundsAssumption
<1>4. g \in [1..N -> [X -> X]] /\ \A k \in 1..N, S \in X : g[k][S] = Parents(S)
  <2>1. ASSUME NEW S \in X PROVE Parents(S) \in X
    <3>1. ASSUME NEW c \in Dirs, place[c] # <<>> PROVE place[c][1] \in Dirs \cup {Root, Outside}
      BY <3>1 DEF PlaceOK, Places
    <3> QED  BY <3>1
  <2> QED  BY <2>1
<1> HIDE DEF g, X, N, L, Parents, d
<1>5. PICK f : ByStep(f, X, {d}, N, g)
  BY <1>1, <1>4, Recursion
<1>6. f \in [0..N -> X] /\ f[0] = {d} /\ \A k \in 1..N : f[k] = Parents(f[k - 1])
  <2>1. \A k \in 1..N : k - 1 \in 0..N /\ f[k - 1] \in X
    BY <1>1, <1>5 DEF ByStep
  <2> QED  BY <1>4, <1>5, <2>1 DEF ByStep
<1>7. IsUp(f)
  BY <1>1, <1>6
<1>8. IsUp(CHOOSE h : IsUp(h))
  BY <1>7
<1>9. Above(d) = (CHOOSE h : IsUp(h))[N]
  BY DEF Above, N, Parents
<1> DEFINE up == CHOOSE h : IsUp(h)
<1> HIDE DEF up
<1>10. up = [k \in 0..N |-> IF k = 0 THEN {d} ELSE Parents(up[k - 1])] /\ Above(d) = up[N]
  BY <1>8, <1>9 DEF up
<1>11. up[0] = {d} /\ \A k \in 1..N : up[k] = Parents(up[k - 1])
  BY <1>1, <1>10
<1> DEFINE rest(j) == IF j <= L THEN L - j ELSE 0
           G == {j \in 0..N : Lookup(Part(q, rest(j))) \in up[j]}
<1>12. 0 \in G
  <2>1. rest(0) = Len(q)
    BY <1>1 DEF L
  <2> QED  BY <1>1, <1>11, <2>1, LookupParts DEF d
<1>13. ASSUME NEW j \in 1..N, j - 1 \in G PROVE j \in G
  <2>1. Lookup(Part(q, rest(j - 1))) \in up[j - 1] /\ up[j] = Parents(up[j - 1]) /\ j \in 0..N
    BY <1>1, <1>11, <1>13
  <2>2. CASE j <= L
    <3>1. rest(j) = L - j /\ rest(j - 1) = L - j + 1 /\ L - j + 1 \in 1..L /\ (L - j + 1) - 1 = L - j /\ L - j + 1 \in 0..L
      BY <1>1, <2>2
    <3>2. Lookup(Part(q, L - j + 1)) = Child(Lookup(Part(q, L - j)), q[L - j + 1])
      BY <3>1, LookupParts DEF L
    <3>3. Lookup(Part(q, L - j + 1)) # Nil
      BY <1>2, <3>1, PartsExist DEF L
    <3> DEFINE c == Lookup(Part(q, L - j + 1))
               p == Lookup(Part(q, L - j))
    <3>4. c \in Dirs /\ place[c] = <<p, q[L - j + 1]>>
      BY <3>2, <3>3, ChildIs
    <3>5. place[c][1] = p /\ place[c] # <<>>
      BY <3>4
    <3>6. p \in Parents(up[j - 1])
      BY <2>1, <3>1, <3>4, <3>5 DEF Parents
    <3> QED  BY <2>1, <3>1, <3>6
  <2>3. CASE j > L
    <3>1. rest(j) = 0 /\ rest(j - 1) = 0
      BY <1>1, <2>3
    <3> QED  BY <2>1, <3>1 DEF Parents
  <2> QED  BY <1>1, <2>2, <2>3
<1>14. N \in G
  <2>1. \A j \in 1..N : j - 1 \in G => j \in G
    BY <1>13
  <2> HIDE DEF G
  <2>2. 0..N \subseteq G
    BY <1>1, <1>12, <2>1, Downwards
  <2> QED  BY <1>1, <2>2
<1>15. rest(N) = 0
  BY <1>1, <1>3
<1> QED  BY <1>10, <1>14, <1>15, LookupParts DEF d

LEMMA ChildOne ==
    PlaceOK /\ TreeInv => \A c \in Dirs : \A d, n : place[c] = <<d, n>> => Child(d, n) = c
<1> SUFFICES ASSUME PlaceOK, TreeInv, NEW c \in Dirs, NEW d, NEW n, place[c] = <<d, n>> PROVE Child(d, n) = c
  OBVIOUS
<1>1. Child(d, n) \in Dirs /\ place[Child(d, n)] = <<d, n>>
  BY ChildIs
<1> QED  BY <1>1 DEF TreeInv

\* The lemmas about the tree, after a step.
LEMMA TreeNext ==
    ASSUME PlaceOK', TreeInv'
    PROVE  /\ \A c \in Dirs : \A d, n : place'[c] = <<d, n>> => Child(d, n)' = c
           /\ \A d, n : Child(d, n)' # Nil => place'[Child(d, n)'] = <<d, n>> /\ Child(d, n)' \in Dirs
           /\ \A n : Child(Nil, n)' = Nil
           /\ \A q \in Seq(Names) :
                  /\ \A k \in 1..Len(q) : Lookup(Part(q, k))' = Child(Lookup(Part(q, k - 1)), q[k])'
                  /\ Lookup(Part(q, 0))' = Root /\ Lookup(Part(q, Len(q)))' = Lookup(q)'
                  /\ Lookup(q)' # Nil => \A k \in 0..Len(q) : Lookup(Part(q, k))' # Nil
<1>1. (\A c \in Dirs : \A d, n : place[c] = <<d, n>> => Child(d, n) = c)'
  BY ChildOne, PTL
<1>2. (\A d, n : /\ Child(d, n) \in Dirs \cup {Nil}
                 /\ Child(d, n) # Nil => place[Child(d, n)] = <<d, n>> /\ Child(d, n) \in Dirs
                 /\ \A c \in Dirs : place[c] = <<d, n>> => Child(d, n) # Nil)'
  BY ChildIs, PTL
<1>3. (\A n : Child(Nil, n) = Nil)'
  BY NilHasNone, PTL
<1>4. (\A q \in Seq(Names) :
                  /\ \A k \in 1..Len(q) : Lookup(Part(q, k)) = Child(Lookup(Part(q, k - 1)), q[k])
                  /\ Lookup(Part(q, 0)) = Root /\ Lookup(Part(q, Len(q))) = Lookup(q))'
  BY LookupParts, PTL
<1>5. (\A q \in Seq(Names) : Lookup(q) # Nil => \A k \in 0..Len(q) : Lookup(Part(q, k)) # Nil)'
  BY PartsExist, PTL
<1> QED  BY <1>1, <1>2, <1>3, <1>4, <1>5

\* The directory x gets the place <<d, n>>.
Placed(x, d, n) == place' = [place EXCEPT ![x] = <<d, n>>]

\* A directory x without a path gets the place <<d, n>>: paths that existed stay, and a new one
\* goes through that place.
LEMMA Arrives ==
    ASSUME PlaceOK, PlaceOK', TreeInv, TreeInv', NEW x \in Dirs, NEW d, NEW n,
           Placed(x, d, n), Child(d, n) = Nil,
           \A q \in Seq(Names) : Lookup(q) # x
    PROVE  \A q \in Seq(Names) :
               /\ Lookup(q) # Nil => Lookup(q)' = Lookup(q)
               /\ Lookup(q) = Nil /\ Lookup(q)' # Nil =>
                     \E k \in 1..Len(q) : Lookup(Part(q, k - 1)) = d /\ q[k] = n
<1>1. \A c \in Dirs : place'[c] = IF c = x THEN <<d, n>> ELSE place[c]
  BY DEF PlaceOK, Placed
<1>2. ASSUME NEW q \in Seq(Names), Lookup(q) # Nil PROVE Lookup(q)' = Lookup(q)
  <2> DEFINE K == Len(q)
             G == {k \in 0..K : Lookup(Part(q, k))' = Lookup(Part(q, k))}
  <2>1. K \in Nat
    OBVIOUS
  <2>2. 0 \in G
    BY <2>1, LookupParts, TreeNext
  <2>3. ASSUME NEW k \in 1..K, k - 1 \in G PROVE k \in G
    <3> DEFINE a == Lookup(Part(q, k - 1))
               c == Lookup(Part(q, k))
    <3>1. k \in 0..K /\ Part(q, k) \in Seq(Names)
      BY <2>1, PartIs
    <3>2. c = Child(a, q[k]) /\ c # Nil /\ c # x
      BY <1>2, <3>1, LookupParts, PartsExist
    <3>3. c \in Dirs /\ place[c] = <<a, q[k]>>
      BY <3>2, ChildIs
    <3>4. place'[c] = <<a, q[k]>>
      BY <1>1, <3>2, <3>3
    <3>5. Lookup(Part(q, k))' = Child(Lookup(Part(q, k - 1)), q[k])'
      BY <3>1, TreeNext
    <3>6. Lookup(Part(q, k - 1))' = a
      BY <2>3
    <3>7. Lookup(Part(q, k))' = c
      BY <3>3, <3>4, <3>5, <3>6, TreeNext
    <3> QED  BY <3>1, <3>7
  <2>4. K \in G
    <3>1. \A k \in 1..K : k - 1 \in G => k \in G
      BY <2>3
    <3> HIDE DEF G
    <3>2. 0..K \subseteq G
      BY <2>1, <2>2, <3>1, Downwards
    <3> QED  BY <2>1, <3>2
  <2> QED  BY <2>4, LookupParts, TreeNext
<1>3. ASSUME NEW q \in Seq(Names), Lookup(q) = Nil, Lookup(q)' # Nil
      PROVE  \E k \in 1..Len(q) : Lookup(Part(q, k - 1)) = d /\ q[k] = n
  <2> DEFINE K == Len(q)
             T == {k \in 0..K : Lookup(Part(q, k)) = Nil}
  <2>1. K \in Nat /\ K \in T
    <3>1. K \in 0..K
      OBVIOUS
    <3> QED  BY <1>3, <3>1, LookupParts
  <2>2. PICK k \in T : \A j \in T : k <= j
    <3>1. T \subseteq Nat /\ T # {}
      BY <2>1
    <3> HIDE DEF T
    <3> QED  BY <3>1, LeastNumber
  <2>3. k # 0
    BY LookupParts, DirsAssumption
  <2>4. k \in 1..K /\ k - 1 \in 0..K /\ k - 1 \notin T
    BY <2>1, <2>2, <2>3
  <2> DEFINE a == Lookup(Part(q, k - 1))
  <2>5. a # Nil /\ Part(q, k - 1) \in Seq(Names)
    BY <2>4, PartIs
  <2>6. Lookup(Part(q, k - 1))' = a
    BY <1>2, <2>5
  <2>7. Lookup(Part(q, k))' # Nil /\ Lookup(Part(q, k))' = Child(Lookup(Part(q, k - 1)), q[k])'
    BY <1>3, <2>4, TreeNext
  <2>8. Child(a, q[k]) = Nil
    BY <2>4, LookupParts
  <2> DEFINE c == Lookup(Part(q, k))'
  <2>9. c \in Dirs /\ place'[c] = <<a, q[k]>>
    BY <2>6, <2>7, TreeNext
  <2>10. place[c] # <<a, q[k]>>
    BY <2>8, <2>9, ChildIs
  <2>11. <<a, q[k]>> = <<d, n>>
    BY <1>1, <2>9, <2>10
  <2> QED  BY <2>4, <2>11
<1> QED  BY <1>2, <1>3

\* A directory x without entries goes.
LEMMA Leaves ==
    ASSUME PlaceOK, PlaceOK', TreeInv, TreeInv', NEW x \in Dirs, place' = [place EXCEPT ![x] = <<>>],
           \A c \in Dirs : place[c] # <<>> => place[c][1] # x
    PROVE  \A q \in Seq(Names) : Lookup(q)' = IF Lookup(q) = x THEN Nil ELSE Lookup(q)
<1>1. \A c \in Dirs : place'[c] = IF c = x THEN <<>> ELSE place[c]
  BY DEF PlaceOK
<1>2. \A n : Child(x, n) = Nil
  <2> SUFFICES ASSUME NEW n, Child(x, n) # Nil PROVE FALSE
    OBVIOUS
  <2>1. place[Child(x, n)] = <<x, n>> /\ Child(x, n) \in Dirs
    BY ChildIs
  <2>2. place[Child(x, n)] # <<>> /\ place[Child(x, n)][1] = x
    BY <2>1
  <2> QED  BY <2>1, <2>2
<1>3. ASSUME NEW a, NEW m, a # x PROVE Child(a, m)' = IF Child(a, m) = x THEN Nil ELSE Child(a, m)
  <2>1. Child(a, m)' # Nil => Child(a, m)' = Child(a, m) /\ Child(a, m) # x
    <3> SUFFICES ASSUME Child(a, m)' # Nil PROVE Child(a, m)' = Child(a, m) /\ Child(a, m) # x
      OBVIOUS
    <3> DEFINE c == Child(a, m)'
    <3>1. c \in Dirs /\ place'[c] = <<a, m>>
      BY TreeNext
    <3>2. c # x /\ place[c] = <<a, m>>
      BY <1>1, <3>1
    <3> QED  BY <3>1, <3>2, ChildOne
  <2>2. Child(a, m) # Nil /\ Child(a, m) # x => Child(a, m)' # Nil
    <3> SUFFICES ASSUME Child(a, m) # Nil, Child(a, m) # x PROVE Child(a, m)' # Nil
      OBVIOUS
    <3> DEFINE c == Child(a, m)
    <3>1. c \in Dirs /\ place[c] = <<a, m>>
      BY ChildIs
    <3>2. place'[c] = <<a, m>>
      BY <1>1, <3>1
    <3> QED  BY <3>1, <3>2, TreeNext, DirsAssumption
  <2> QED  BY <2>1, <2>2
<1>4. ASSUME NEW q \in Seq(Names) PROVE Lookup(q)' = IF Lookup(q) = x THEN Nil ELSE Lookup(q)
  <2> DEFINE K == Len(q)
             G == {k \in 0..K : Lookup(Part(q, k))' = IF Lookup(Part(q, k)) = x THEN Nil ELSE Lookup(Part(q, k))}
  <2>1. K \in Nat
    OBVIOUS
  <2>2. 0 \in G
    BY <2>1, LookupParts, TreeNext, DirsAssumption
  <2>3. ASSUME NEW k \in 1..K, k - 1 \in G PROVE k \in G
    <3> DEFINE a == Lookup(Part(q, k - 1))
    <3>1. k \in 0..K
      BY <2>1
    <3>2. Lookup(Part(q, k)) = Child(a, q[k])
      BY LookupParts
    <3>3. Lookup(Part(q, k))' = Child(Lookup(Part(q, k - 1)), q[k])'
      BY TreeNext
    <3>4. Lookup(Part(q, k - 1))' = IF a = x THEN Nil ELSE a
      BY <2>3
    <3>5. CASE a = x
      <4>1. Lookup(Part(q, k)) = Nil /\ Lookup(Part(q, k))' = Nil
        BY <1>2, <3>2, <3>3, <3>4, <3>5, TreeNext
      <4> QED  BY <3>1, <4>1, DirsAssumption
    <3>6. CASE a # x
      <4>1. Lookup(Part(q, k))' = IF Child(a, q[k]) = x THEN Nil ELSE Child(a, q[k])
        BY <1>3, <3>3, <3>4, <3>6
      <4> QED  BY <3>1, <3>2, <4>1
    <3> QED  BY <3>5, <3>6
  <2>4. K \in G
    <3>1. \A k \in 1..K : k - 1 \in G => k \in G
      BY <2>3
    <3> HIDE DEF G
    <3>2. 0..K \subseteq G
      BY <2>1, <2>2, <3>1, Downwards
    <3> QED  BY <2>1, <3>2
  <2> QED  BY <2>4, LookupParts, TreeNext
<1> QED  BY <1>4

-----------------------------------------------------------------------------
(* Events.                                                                 *)

LEMMA EventIs ==
    ASSUME MarkOK, NEW kind \in Kinds, NEW d, NEW n \in Names
    PROVE  /\ Event(kind, d, n) \in Seq(Events)
           /\ \A w \in DOMAIN watches : watches[w] = d =>
                 Event(kind, d, n) = <<[kind |-> kind, wd |-> w, name |-> n]>>
<1>1. CASE WatchesOf(d) = {}
  <2>1. Cardinality(WatchesOf(d)) = 0
    BY <1>1, FS_EmptySet
  <2>2. Event(kind, d, n) = <<>>
    BY <2>1 DEF Event
  <2> QED  BY <1>1, <2>2 DEF WatchesOf
<1>2. CASE WatchesOf(d) # {}
  <2>1. PICK w \in DOMAIN watches : watches[w] = d
    BY <1>2 DEF WatchesOf
  <2>2. WatchesOf(d) = {w}
    BY <2>1 DEF WatchesOf, MarkOK
  <2>3. Cardinality(WatchesOf(d)) = 1 /\ (CHOOSE v \in WatchesOf(d) : TRUE) = w
    BY <2>2, FS_Singleton
  <2> DEFINE e == [kind |-> kind, wd |-> w, name |-> n]
  <2>4. Event(kind, d, n) = [i \in 1..1 |-> e]
    BY <2>3 DEF Event
  <2>5. Event(kind, d, n) = <<e>>
    BY <2>4
  <2>6. e \in Events
    BY <2>1 DEF MarkOK, Events
  <2>7. <<e>> \in Seq(Events)
    BY <2>6
  <2>8. \A v \in DOMAIN watches : watches[v] = d => v = w
    BY <2>1 DEF MarkOK
  <2> QED  BY <2>5, <2>7, <2>8
<1> QED  BY <1>1, <1>2

\* Post, as long as no event is dropped.
LEMMA PostIs ==
    ASSUME QueueOK, NEW es \in Seq(Events), Post(es)
    PROVE  /\ queue' \in Seq(Events) /\ Len(queue') <= QueueLimit /\ limited' \in BOOLEAN
           /\ limited => limited'
           /\ ~limited' => queue' = queue \o es
<1> DEFINE all == queue \o es
<1>1. all \in Seq(Events) /\ Len(all) \in Nat
  BY ConcatProperties DEF QueueOK
<1>2. /\ queue' = IF Len(all) <= QueueLimit THEN all ELSE SubSeq(all, 1, QueueLimit)
      /\ limited' = (limited \/ ~(Len(all) <= QueueLimit))
  BY DEF Post
<1> HIDE DEF all
<1>3. QueueLimit \in Nat
  BY BoundsAssumption
<1>4. CASE Len(all) <= QueueLimit
  BY <1>1, <1>2, <1>4 DEF QueueOK, all
<1>5. CASE ~(Len(all) <= QueueLimit)
  <2>1. SubSeq(all, 1, QueueLimit) \in Seq(Events) /\ Len(SubSeq(all, 1, QueueLimit)) = QueueLimit
    BY <1>1, <1>3, <1>5, SubSeqProperties
  <2>2. queue' = SubSeq(all, 1, QueueLimit) /\ limited' = TRUE
    BY <1>2, <1>5
  <2> QED  BY <1>3, <2>1, <2>2
<1> QED  BY <1>4, <1>5

\* Where the events are after some were added.
LEMMA AddedAt ==
    ASSUME NEW S, NEW s \in Seq(S), NEW es \in Seq(S), NEW r, r = s \o es
    PROVE  /\ r \in Seq(S) /\ Len(r) = Len(s) + Len(es) /\ Len(s) \in Nat /\ Len(es) \in Nat
           /\ DOMAIN r = 1..Len(r) /\ DOMAIN s = 1..Len(s) /\ DOMAIN es = 1..Len(es)
           /\ \A i \in 1..Len(s) : i \in 1..Len(r) /\ r[i] = s[i]
           /\ \A i \in 1..Len(es) : Len(s) + i \in 1..Len(r) /\ r[Len(s) + i] = es[i]
           /\ \A i \in 1..Len(r) : i \in 1..Len(s) \/ (i - Len(s) \in 1..Len(es) /\ r[i] = es[i - Len(s)])
<1>1. /\ r \in Seq(S) /\ Len(r) = Len(s) + Len(es) /\ Len(s) \in Nat /\ Len(es) \in Nat
      /\ DOMAIN r = 1..Len(r) /\ DOMAIN s = 1..Len(s) /\ DOMAIN es = 1..Len(es)
      /\ \A i \in 1..Len(s) + Len(es) : r[i] = IF i <= Len(s) THEN s[i] ELSE es[i - Len(s)]
  BY ConcatProperties
<1>2. ASSUME NEW i \in 1..Len(s) PROVE i \in 1..Len(r) /\ r[i] = s[i]
  <2>1. i \in 1..Len(s) + Len(es) /\ i <= Len(s)
    BY <1>1
  <2> QED  BY <1>1, <2>1
<1>3. ASSUME NEW i \in 1..Len(es) PROVE Len(s) + i \in 1..Len(r) /\ r[Len(s) + i] = es[i]
  <2>1. Len(s) + i \in 1..Len(s) + Len(es) /\ ~(Len(s) + i <= Len(s)) /\ Len(s) + i - Len(s) = i
    BY <1>1
  <2> QED  BY <1>1, <2>1
<1>4. ASSUME NEW i \in 1..Len(r) PROVE i \in 1..Len(s) \/ (i - Len(s) \in 1..Len(es) /\ r[i] = es[i - Len(s)])
  <2>1. i \in 1..Len(s) + Len(es) /\ (i <= Len(s) \/ i - Len(s) \in 1..Len(es))
    BY <1>1
  <2> QED  BY <1>1, <2>1
<1> QED  BY <1>1, <1>2, <1>3, <1>4

-----------------------------------------------------------------------------
(* Calls of the monitor thread.                                            *)

LEMMA TopIs ==
    ASSUME CallOK, stack # <<>>
    PROVE  /\ Len(stack) \in Nat /\ Len(stack) \in 1..Len(stack) /\ Len(stack) >= 1
           /\ Top = stack[Len(stack)] /\ Top \in Calls /\ Started
<1>1. stack \in Seq(Calls) /\ Started
  BY DEF CallOK
<1>2. Len(stack) \in Nat /\ Len(stack) # 0
  BY <1>1, EmptySeq
<1>3. Len(stack) \in 1..Len(stack) /\ Len(stack) >= 1
  BY <1>2
<1> QED  BY <1>1, <1>2, <1>3 DEF Top, Last

LEMMA ReturnIs ==
    ASSUME CallOK, stack # <<>>
    PROVE  /\ Return \in Seq(Calls) /\ Len(Return) = Len(stack) - 1
           /\ \A i \in 1..Len(stack) - 1 : Return[i] = stack[i] /\ stack[i].at = "read"
<1>1. stack \in Seq(Calls) /\ Len(stack) \in Nat /\ Len(stack) >= 1
  BY TopIs DEF CallOK
<1>2. \A i \in 1..Len(stack) - 1 : stack[i].at = "read"
  BY DEF CallOK
<1>3. /\ SubSeq(stack, 1, Len(stack) - 1) \in Seq(Calls)
      /\ Len(SubSeq(stack, 1, Len(stack) - 1)) = Len(stack) - 1
      /\ \A i \in 1..Len(stack) - 1 : SubSeq(stack, 1, Len(stack) - 1)[i] = stack[i]
  <2> DEFINE m == Len(stack) - 1
  <2>1. m \in 0..Len(stack) /\ 1 \in 1..Len(stack) + 1 /\ m \in Nat
    BY <1>1
  <2> HIDE DEF m
  <2>2. /\ SubSeq(stack, 1, m) \in Seq(Calls) /\ Len(SubSeq(stack, 1, m)) = m
        /\ \A i \in 1..m : SubSeq(stack, 1, m)[i] = stack[i]
    BY <1>1, <2>1, SubSeqProperties
  <2> QED  BY <2>2 DEF m
<1> QED  BY <1>2, <1>3 DEF Return, Front

\* The call at the top is replaced by c.
LEMMA TopReplaced ==
    ASSUME CallOK, stack # <<>>, NEW c \in Calls, NEW s, s = [stack EXCEPT ![Len(stack)] = c]
    PROVE  /\ s \in Seq(Calls) /\ Len(s) = Len(stack) /\ s[Len(stack)] = c
           /\ \A i \in 1..Len(stack) - 1 : s[i] = stack[i] /\ stack[i].at = "read"
<1>1. stack \in Seq(Calls) /\ Len(stack) \in Nat /\ Len(stack) \in 1..Len(stack)
  BY TopIs DEF CallOK
<1>2. \A i \in 1..Len(stack) - 1 : stack[i].at = "read"
  BY DEF CallOK
<1>3. s \in Seq(Calls) /\ Len(s) = Len(stack) /\ s[Len(stack)] = c
  BY <1>1, ExceptSeq
<1>4. \A i \in 1..Len(stack) - 1 : s[i] = stack[i]
  BY <1>1
<1> QED  BY <1>2, <1>3, <1>4

LEMMA GoOnIs ==
    ASSUME CallOK, stack # <<>>, NEW step \in CallSteps
    PROVE  /\ GoOn(step) \in Seq(Calls) /\ Len(GoOn(step)) = Len(stack)
           /\ GoOn(step)[Len(stack)] = [at |-> step, path |-> Top.path, names |-> Top.names]
           /\ \A i \in 1..Len(stack) - 1 : GoOn(step)[i] = stack[i] /\ stack[i].at = "read"
<1> DEFINE c == [at |-> step, path |-> Top.path, names |-> Top.names]
<1>1. Top \in Calls /\ Top = stack[Len(stack)]
  BY TopIs
<1>2. c \in Calls /\ [Top EXCEPT !.at = step] = c
  BY <1>1 DEF Calls
<1>3. GoOn(step) = [stack EXCEPT ![Len(stack)] = c]
  BY <1>1, <1>2 DEF GoOn
<1> HIDE DEF c
<1>4. /\ GoOn(step) \in Seq(Calls) /\ Len(GoOn(step)) = Len(stack) /\ GoOn(step)[Len(stack)] = c
      /\ \A i \in 1..Len(stack) - 1 : GoOn(step)[i] = stack[i] /\ stack[i].at = "read"
  BY <1>2, <1>3, TopReplaced
<1> QED  BY <1>4 DEF c

LEMMA PushIs ==
    ASSUME NEW s \in Seq(Calls), NEW c \in Calls
    PROVE  /\ Append(s, c) \in Seq(Calls) /\ Len(Append(s, c)) = Len(s) + 1 /\ Len(s) \in Nat
           /\ Append(s, c)[Len(s) + 1] = c /\ Append(s, c) # <<>>
           /\ \A i \in 1..Len(s) : Append(s, c)[i] = s[i]
OBVIOUS

\* A path stays where it is as long as no directory does anything.
LEMMA SameTree == ASSUME place' = place PROVE \A q : Lookup(q)' = Lookup(q)
BY DEF Lookup, Child
LEMMA SameChildren == ASSUME place' = place PROVE \A d, n : Child(d, n)' = Child(d, n)
BY DEF Child

-----------------------------------------------------------------------------
(* The types, step by step.                                                *)

LEMMA InitType == Init => TypeInv
<1> SUFFICES ASSUME Init PROVE TypeInv
  OBVIOUS
<1> USE DEF Init
<1>1. FilesOK
  <2>1. \A c \in Dirs : place[c] = <<>>
    OBVIOUS
  <2>2. PlaceOK
    BY DEF PlaceOK, Places
  <2>3. ops \in 0..MaxOps
    BY BoundsAssumption
  <2>4. TreeInv /\ moved \in BOOLEAN
    BY <2>1 DEF TreeInv
  <2> QED  BY <2>2, <2>3, <2>4 DEF FilesOK
<1>2. MediaOK
  <2>1. mounted \in Seq(Points)
    BY InitMInv DEF MInv, HeardInv
  <2>2. IsInjective(mounted)
    <3>1. DOMAIN mounted = {} \/ DOMAIN mounted = {1}
      OBVIOUS
    <3> QED  BY <3>1 DEF IsInjective
  <2>3. entries \subseteq Points /\ scans \subseteq Points /\ mountMarks \subseteq Points \cup {Slash}
    BY PointsAssumption
  <2>4. signals \in Seq(Seq(Points)) /\ setting \in Settings
    OBVIOUS
  <2>5. announced \in BOOLEAN
    OBVIOUS
  <2> QED  BY <2>1, <2>2, <2>3, <2>4, <2>5 DEF MediaOK
<1>3. MarkOK /\ QueueOK /\ StartOK
  <2>1. DOMAIN watches = {}
    OBVIOUS
  <2>2. MarkOK
    BY <2>1 DEF MarkOK
  <2>3. Len(queue) <= QueueLimit /\ queue \in Seq(Events)
    BY BoundsAssumption
  <2>4. limited \in BOOLEAN /\ looping \in BOOLEAN
    OBVIOUS
  <2>5. inited \subseteq Modules /\ status = "off" /\ todo \subseteq Points \cup {Root}
    OBVIOUS
  <2> QED  BY <2>2, <2>3, <2>4, <2>5 DEF QueueOK, StartOK
<1>4. CallOK /\ TableOK
  <2>1. stack \in Seq(Calls) /\ Len(stack) = 0 /\ stack = <<>>
    OBVIOUS
  <2>2. CallOK
    BY <2>1 DEF CallOK
  <2>3. DOMAIN wd2path = {} /\ DOMAIN path2wd = {}
    OBVIOUS
  <2>4. misled \in BOOLEAN
    OBVIOUS
  <2> QED  BY <2>2, <2>3, <2>4 DEF TableOK
<1> QED  BY <1>1, <1>2, <1>3, <1>4, InitMInv DEF TypeInv

\* Posting events about directories that have watches.
LEMMA PostType ==
    ASSUME MarkOK, QueueOK, lastWd' = lastWd, NEW es \in Seq(Events), Post(es)
    PROVE  QueueOK'
<1>1. Events' = Events
  BY DEF Events
<1> QED  BY <1>1, PostIs DEF QueueOK

LEMMA MkdirType ==
    ASSUME TypeInv, NEW d \in Dirs \cup {Root, Outside}, NEW n \in Names, NEW new \in Dirs, Mkdir(d, n, new)
    PROVE  TypeInv'
<1> USE DEF TypeInv
<1>1. MInv'
  BY ProgramsMInv DEF Programs
<1>2. FilesOK'
  <2>1. PlaceOK /\ TreeInv /\ ops \in 0..MaxOps /\ ops < MaxOps
    BY DEF FilesOK, Mkdir, Operation
  <2>2. /\ Exists(d) /\ Child(d, n) = Nil /\ place[new] = <<>> /\ place' = [place EXCEPT ![new] = <<d, n>>]
        /\ ops' = ops + 1 /\ moved' = moved
    BY DEF Mkdir, Operation
  <2>3. PlaceOK'
    BY <2>1, <2>2 DEF PlaceOK, Places
  <2>4. \A c \in Dirs : place'[c] = IF c = new THEN <<d, n>> ELSE place[c]
    BY <2>1, <2>2 DEF PlaceOK
  <2>7. <<d, n>>[1] = d /\ <<d, n>> # <<>>
    OBVIOUS
  <2>5. \A e : Exists(e) => Exists(e)'
    BY <2>4, <2>7 DEF Exists
  <2>6. \A c \in Dirs : place[c] # <<d, n>>
    BY <2>1, <2>2, ChildIs
  <2>8. TreeInv'
    <3> SUFFICES ASSUME NEW c \in Dirs, place'[c] # <<>>
                 PROVE  Exists(place[c][1])' /\ \A e \in Dirs : place'[e] = place'[c] => e = c
      BY DEF TreeInv
    <3>1. CASE c = new
      BY <2>2, <2>4, <2>5, <2>6, <2>7, <3>1
    <3>2. CASE c # new
      BY <2>1, <2>4, <2>5, <2>6, <3>2 DEF TreeInv
    <3> QED  BY <3>1, <3>2
  <2>9. ops' \in 0..MaxOps
    BY <2>1, <2>2, BoundsAssumption
  <2> QED  BY <2>2, <2>3, <2>8, <2>9 DEF FilesOK
<1>3. MediaOK' /\ MarkOK' /\ StartOK' /\ CallOK' /\ TableOK'
  BY DEF Mkdir, MediaOK, MarkOK, StartOK, CallOK, TableOK, Started, main, conf, monitor, tables, Calls
<1>4. QueueOK'
  <2>1. Event("CREATE", d, n) \in Seq(Events)
    BY EventIs DEF Kinds, Creations
  <2> QED  BY <2>1, PostType DEF Mkdir
<1> QED  BY <1>1, <1>2, <1>3, <1>4

LEMMA RmdirType ==
    ASSUME TypeInv, NEW d \in Dirs, Rmdir(d)
    PROVE  TypeInv'
<1> USE DEF TypeInv
<1>1. MInv'
  BY ProgramsMInv DEF Programs
<1>2. FilesOK'
  <2>1. PlaceOK /\ TreeInv /\ ops \in 0..MaxOps /\ ops < MaxOps
    BY DEF FilesOK, Rmdir, Operation
  <2>2. /\ \A c \in Dirs : place[c] # <<>> => place[c][1] # d
        /\ place' = [place EXCEPT ![d] = <<>>]
        /\ ops' = ops + 1 /\ moved' = moved
    BY DEF Rmdir, Operation
  <2>3. PlaceOK'
    BY <2>1, <2>2 DEF PlaceOK, Places
  <2>4. \A c \in Dirs : place'[c] = IF c = d THEN <<>> ELSE place[c]
    BY <2>1, <2>2 DEF PlaceOK
  <2>5. \A e : e # d /\ Exists(e) => Exists(e)'
    BY <2>4 DEF Exists
  <2>6. TreeInv'
    BY <2>1, <2>2, <2>4, <2>5 DEF TreeInv
  <2>7. ops' \in 0..MaxOps
    BY <2>1, <2>2, BoundsAssumption
  <2> QED  BY <2>2, <2>3, <2>6, <2>7, BoundsAssumption DEF FilesOK
<1>3. MediaOK' /\ StartOK' /\ CallOK' /\ TableOK'
  BY DEF Rmdir, MediaOK, StartOK, CallOK, TableOK, Started, main, conf, monitor, tables, Calls
<1>4. MarkOK'
  <2>1. /\ fanMarks' = fanMarks \ {d} /\ watches' = [w \in DOMAIN watches \ WatchesOf(d) |-> watches[w]]
        /\ lastWd' = lastWd
    BY DEF Rmdir
  <2> QED  BY <2>1 DEF MarkOK
<1>5. QueueOK'
  <2>1. place[d] # <<>> /\ place[d] \in Places
    BY DEF Rmdir, FilesOK, PlaceOK
  <2>2. place[d][2] \in Names
    BY <2>1 DEF Places
  <2>3. Event("DELETE", place[d][1], place[d][2]) \in Seq(Events)
    BY <2>2, EventIs DEF Kinds
  <2> QED  BY <2>3, PostType DEF Rmdir
<1> QED  BY <1>1, <1>2, <1>3, <1>4, <1>5

LEMMA RenameType ==
    ASSUME TypeInv, NEW d \in Dirs \cup {Root, Outside}, NEW n \in Names, NEW c \in Dirs, Rename(c, d, n)
    PROVE  TypeInv'
<1> USE DEF TypeInv
<1>1. MInv'
  BY ProgramsMInv DEF Programs
<1>2. FilesOK'
  <2>1. PlaceOK /\ TreeInv /\ ops \in 0..MaxOps /\ ops < MaxOps /\ moved \in BOOLEAN
    BY DEF FilesOK, Rename, Operation
  <2>2. /\ Exists(d) /\ Child(d, n) = Nil /\ place[c] # <<>> /\ place' = [place EXCEPT ![c] = <<d, n>>]
        /\ ops' = ops + 1 /\ moved' = (moved \/ Root \in Above(c))
    BY DEF Rename, Operation
  <2>3. PlaceOK'
    BY <2>1, <2>2 DEF PlaceOK, Places
  <2>4. \A e \in Dirs : place'[e] = IF e = c THEN <<d, n>> ELSE place[e]
    BY <2>1, <2>2 DEF PlaceOK
  <2>7. <<d, n>>[1] = d /\ <<d, n>> # <<>>
    OBVIOUS
  <2>5. \A e : Exists(e) => Exists(e)'
    BY <2>4, <2>7 DEF Exists
  <2>6. \A e \in Dirs : place[e] # <<d, n>>
    BY <2>1, <2>2, ChildIs
  <2>8. TreeInv'
    <3> SUFFICES ASSUME NEW b \in Dirs, place'[b] # <<>>
                 PROVE  Exists(place[b][1])' /\ \A e \in Dirs : place'[e] = place'[b] => e = b
      BY DEF TreeInv
    <3>1. CASE b = c
      BY <2>2, <2>4, <2>5, <2>6, <2>7, <3>1
    <3>2. CASE b # c
      BY <2>1, <2>4, <2>5, <2>6, <3>2 DEF TreeInv
    <3> QED  BY <3>1, <3>2
  <2>9. ops' \in 0..MaxOps /\ moved' \in BOOLEAN
    BY <2>1, <2>2, BoundsAssumption
  <2> QED  BY <2>3, <2>8, <2>9 DEF FilesOK
<1>3. MediaOK' /\ MarkOK' /\ StartOK' /\ CallOK' /\ TableOK'
  BY DEF Rename, MediaOK, MarkOK, StartOK, CallOK, TableOK, Started, main, conf, monitor, tables, Calls
<1>4. QueueOK'
  <2>1. place[c] # <<>> /\ place[c] \in Places
    BY DEF Rename, FilesOK, PlaceOK
  <2>2. place[c][2] \in Names
    BY <2>1 DEF Places
  <2>3. Event("MOVED_FROM", place[c][1], place[c][2]) \in Seq(Events)
    BY <2>2, EventIs DEF Kinds
  <2>4. Event("MOVED_TO", d, n) \in Seq(Events)
    BY EventIs DEF Kinds, Creations
  <2>5. Event("MOVED_FROM", place[c][1], place[c][2]) \o Event("MOVED_TO", d, n) \in Seq(Events)
    BY <2>3, <2>4, ConcatProperties
  <2> QED  BY <2>5, PostType DEF Rename
<1> QED  BY <1>1, <1>2, <1>3, <1>4

\* A list without one of its elements.
LEMMA RemovedOne ==
    ASSUME NEW S, NEW s \in Seq(S), NEW i \in DOMAIN s, IsInjective(s)
    PROVE  RemoveAt(s, i) \in Seq(S) /\ IsInjective(RemoveAt(s, i))
<1> DEFINE a == SubSeq(s, 1, i - 1)
           b == SubSeq(s, i + 1, Len(s))
           r == a \o b
<1>1. i \in 1..Len(s) /\ Len(s) \in Nat /\ DOMAIN s = 1..Len(s) /\ \A j \in 1..Len(s) : s[j] \in S
  OBVIOUS
<1>2. a \in Seq(S) /\ Len(a) = i - 1 /\ \A j \in 1..i - 1 : a[j] = s[j]
  BY <1>1, SubSeqProperties
<1>3. b \in Seq(S) /\ Len(b) = Len(s) - i /\ \A j \in 1..Len(s) - i : b[j] = s[i + j]
  BY <1>1, SubSeqProperties
<1> HIDE DEF a, b
<1>0. /\ r \in Seq(S) /\ Len(r) = Len(a) + Len(b)
      /\ \A j \in 1..Len(a) : r[j] = a[j]
      /\ \A j \in 1..Len(r) : j \in 1..Len(a) \/ (j - Len(a) \in 1..Len(b) /\ r[j] = b[j - Len(a)])
  <2>1. a \in Seq(S) /\ b \in Seq(S) /\ r = a \o b
    BY <1>2, <1>3
  <2> HIDE DEF r
  <2> QED  BY <2>1, AddedAt
<1> HIDE DEF r
<1>4. r \in Seq(S) /\ Len(r) = Len(s) - 1
  BY <1>0, <1>1, <1>2, <1>3
<1>5. ASSUME NEW j \in 1..Len(r) PROVE r[j] = s[IF j < i THEN j ELSE j + 1]
  <2>1. CASE j < i
    <3>1. j \in 1..Len(a) /\ j \in 1..i - 1
      BY <1>1, <1>2, <1>4, <2>1
    <3> QED  BY <1>0, <1>2, <2>1, <3>1
  <2>2. CASE ~(j < i)
    <3>1. j \notin 1..Len(a) /\ j - (i - 1) \in 1..Len(s) - i /\ i + (j - (i - 1)) = j + 1
      BY <1>1, <1>2, <1>4, <2>2
    <3>2. r[j] = b[j - Len(a)]
      BY <1>0, <3>1
    <3> QED  BY <1>2, <1>3, <2>2, <3>1, <3>2
  <2> QED  BY <2>1, <2>2
<1>6. IsInjective(r)
  <2> SUFFICES ASSUME NEW j \in 1..Len(r), NEW k \in 1..Len(r), r[j] = r[k] PROVE j = k
    BY <1>4 DEF IsInjective
  <2> DEFINE jj == IF j < i THEN j ELSE j + 1
             kk == IF k < i THEN k ELSE k + 1
  <2>1. jj \in 1..Len(s) /\ kk \in 1..Len(s)
    BY <1>1, <1>4
  <2>2. s[jj] = s[kk]
    BY <1>5
  <2> HIDE DEF jj, kk
  <2>3. jj = kk
    BY <1>1, <2>1, <2>2 DEF IsInjective
  <2> QED  BY <1>1, <1>4, <2>3 DEF jj, kk
<1>7. RemoveAt(s, i) = r
  BY DEF RemoveAt, r, a, b
<1> QED  BY <1>4, <1>6, <1>7

LEMMA MediaType ==
    ASSUME TypeInv, NEW p \in Points, Mount(p) \/ Umount(p)
    PROVE  TypeInv'
<1> USE DEF TypeInv
<1>1. MInv'
  BY ProgramsMInv DEF Programs
<1>2. FilesOK'
  <2>1. /\ UNCHANGED <<place, moved>> /\ ops < MaxOps /\ ops' = ops + 1
    BY DEF Mount, Umount, Operation
  <2>2. PlaceOK' /\ TreeInv'
    BY <2>1 DEF FilesOK, PlaceOK, TreeInv, Exists
  <2>3. ops' \in 0..MaxOps
    BY <2>1, BoundsAssumption DEF FilesOK
  <2> QED  BY <2>1, <2>2, <2>3 DEF FilesOK
<1>3. MarkOK' /\ QueueOK' /\ StartOK' /\ CallOK' /\ TableOK'
  BY DEF Mount, Umount, MarkOK, QueueOK, StartOK, CallOK, TableOK, Started, main, conf, monitor, tables, Calls, Events
<1>4. MediaOK'
  <2>1. mounted' \in Seq(Points) /\ signals' \in Seq(Seq(Points))
    BY <1>1 DEF MInv, HeardInv
  <2>2. IsInjective(mounted')
    <3>1. CASE Mount(p)
      <4>1. mounted \in Seq(Points) /\ IsInjective(mounted) /\ mounted' = Append(mounted, p)
        BY <3>1 DEF Mount, MediaOK
      <4>2. \A i \in 1..Len(mounted) : mounted[i] # p
        BY <3>1, <4>1 DEF Mount, Range
      <4>3. /\ Len(mounted') = Len(mounted) + 1 /\ mounted'[Len(mounted) + 1] = p /\ Len(mounted) \in Nat
            /\ \A i \in 1..Len(mounted) : mounted'[i] = mounted[i]
            /\ DOMAIN mounted' = 1..Len(mounted')
        BY <4>1
      <4>4. \A i, j \in 1..Len(mounted) : mounted[i] = mounted[j] => i = j
        BY <4>1 DEF IsInjective
      <4>5. \A i, j \in 1..Len(mounted) + 1 : mounted'[i] = mounted'[j] => i = j
        BY ONLY <4>2, <4>3, <4>4
      <4> QED  BY <4>3, <4>5 DEF IsInjective
    <3>2. CASE Umount(p)
      <4>1. mounted \in Seq(Points) /\ IsInjective(mounted)
        BY DEF MediaOK
      <4>2. PICK i \in DOMAIN mounted : mounted' = RemoveAt(mounted, i)
        BY <3>2 DEF Umount
      <4> QED  BY <4>1, <4>2, RemovedOne
    <3> QED  BY <3>1, <3>2
  <2>3. mountMarks' \subseteq Points \cup {Slash} /\ announced' \in BOOLEAN
    BY DEF Mount, Umount, Signal, MediaOK
  <2>4. UNCHANGED <<scans, setting, entries>>
    BY DEF Mount, Umount, monitor, conf
  <2> QED  BY <2>1, <2>2, <2>3, <2>4 DEF MediaOK
<1> QED  BY <1>1, <1>2, <1>3, <1>4

LEMMA GoOnType ==
    ASSUME CallOK, stack # <<>>, NEW step \in CallSteps, stack' = GoOn(step), UNCHANGED <<status, todo>>,
           step \in {"unfan", "unino"} => Len(stack) = 1 /\ Top.path # <<>>
    PROVE  CallOK'
<1> DEFINE L == Len(stack)
<1>1. /\ stack' \in Seq(Calls) /\ Len(stack') = L /\ L \in Nat /\ Started
      /\ stack'[L].at = step /\ stack'[L].path = Top.path
      /\ \A i \in 1..L - 1 : stack'[i] = stack[i] /\ stack[i].at = "read"
  <2>1. /\ stack' \in Seq(Calls) /\ Len(stack') = L
        /\ stack'[L] = [at |-> step, path |-> Top.path, names |-> Top.names]
        /\ \A i \in 1..L - 1 : stack'[i] = stack[i] /\ stack[i].at = "read"
    BY GoOnIs
  <2>2. L \in Nat /\ Started
    BY TopIs
  <2> HIDE DEF L
  <2>3. stack'[L].at = step /\ stack'[L].path = Top.path
    BY <2>1
  <2> QED  BY <2>1, <2>2, <2>3
<1>2. Started'
  BY <1>1 DEF Started
<1>3. \A i \in 1..L : i = L \/ i \in 1..L - 1
  BY <1>1
<1> HIDE DEF L
<1> QED  BY <1>1, <1>2, <1>3 DEF CallOK, Calls, L

LEMMA ReturnType ==
    ASSUME CallOK, stack # <<>>, stack' = Return, UNCHANGED <<status, todo>>
    PROVE  CallOK'
<1> DEFINE L == Len(stack)
<1>1. /\ stack' \in Seq(Calls) /\ Len(stack') = L - 1 /\ L \in Nat /\ Started
      /\ \A i \in 1..L - 1 : stack'[i] = stack[i] /\ stack[i].at = "read"
  BY TopIs, ReturnIs
<1>2. Started'
  BY <1>1 DEF Started
<1>3. \A i \in 1..(L - 1) - 1 : i \in 1..L - 1
  BY <1>1
<1> HIDE DEF L
<1>4. \A i \in 1..Len(stack') : stack'[i].at = "read"
  BY <1>1
<1>5. \A i \in 1..Len(stack') - 1 : stack'[i].at = "read"
  BY <1>1, <1>3
<1> QED  BY <1>1, <1>2, <1>4, <1>5 DEF CallOK, Calls

LEMMA OneCallType ==
    ASSUME NEW c \in Calls, stack' = Append(<<>>, c), Started', c.at \in {"unfan", "unino"} => c.path # <<>>
    PROVE  CallOK'
<1>1. stack' = <<c>>
  OBVIOUS
<1>2. stack' \in Seq(Calls) /\ Len(stack') = 1 /\ stack'[1] = c
  BY <1>1
<1> QED  BY <1>2 DEF CallOK, Calls

\* A call is made by the one that was at the top, which is in readdir.
LEMMA PushType ==
    ASSUME CallOK, stack # <<>>, UNCHANGED <<status, todo>>,
           NEW s \in Seq(Calls), NEW c \in Calls, stack' = Append(s, c),
           c.at \notin {"unfan", "unino"}, \A i \in 1..Len(s) : s[i].at = "read"
    PROVE  CallOK'
<1> DEFINE L == Len(s)
<1>1. /\ stack' \in Seq(Calls) /\ Len(stack') = L + 1 /\ L \in Nat /\ stack'[L + 1] = c
      /\ \A i \in 1..L : stack'[i] = s[i]
  BY PushIs
<1>2. Started'
  BY TopIs DEF Started
<1>3. (L + 1) - 1 = L /\ \A i \in 1..L + 1 : i = L + 1 \/ i \in 1..L
  BY <1>1
<1> HIDE DEF L
<1> QED  BY <1>1, <1>2, <1>3 DEF CallOK, Calls, L

LEMMA MainType == TypeInv /\ MainThread => TypeInv'
<1> SUFFICES ASSUME TypeInv, MainThread PROVE TypeInv'
  OBVIOUS
<1> USE DEF TypeInv
<1>1. MInv'
  BY MainMInv
<1>2. UNCHANGED <<programs, kernel, conf, status, todo, stack, tables, scans>>
  BY DEF MainThread, post_init, main_loop_run, delayed_start_cb, monitor
<1>3. FilesOK' /\ MediaOK' /\ MarkOK' /\ QueueOK' /\ CallOK' /\ TableOK'
  BY <1>2 DEF FilesOK, PlaceOK, TreeInv, Exists, MediaOK, MarkOK, QueueOK, Events, CallOK, Calls, Started, TableOK,
              programs, kernel, conf, tables
<1>4. StartOK'
  <2>1. inited' \subseteq Modules
    BY DEF StartOK, MainThread, post_init, main_loop_run, delayed_start_cb
  <2>2. looping' \in BOOLEAN
    BY DEF StartOK, MainThread, post_init, main_loop_run, delayed_start_cb
  <2> QED  BY <1>2, <2>1, <2>2 DEF StartOK
<1> QED  BY <1>1, <1>3, <1>4

\* The calls that mark and unmark change neither the files nor the media.
LEMMA CallsType ==
    ASSUME TypeInv, MonitorThread, UNCHANGED <<programs, mountMarks, signals, announced, main, conf, status, todo, scans>>
    PROVE  MInv' /\ FilesOK' /\ MediaOK' /\ StartOK'
<1>1. MInv'
  BY MonitorMInv DEF TypeInv
<1> QED  BY <1>1 DEF TypeInv, FilesOK, PlaceOK, TreeInv, Exists, MediaOK, StartOK, programs, main, conf

LEMMA StartType == TypeInv /\ start_command => TypeInv'
<1> SUFFICES ASSUME TypeInv, start_command PROVE TypeInv'
  OBVIOUS
<1> USE DEF TypeInv
<1>1. MInv'
  BY MonitorMInv DEF MonitorThread
<1>2. UNCHANGED <<programs, kernel, main, conf, stack, tables, scans>> /\ stack = <<>>
  BY DEF start_command, Dispatching
<1>3. FilesOK' /\ MediaOK' /\ MarkOK' /\ QueueOK' /\ TableOK'
  BY <1>2 DEF FilesOK, PlaceOK, TreeInv, Exists, MediaOK, MarkOK, QueueOK, Events, TableOK,
              programs, kernel, conf, tables
<1>4. CallOK'
  BY <1>2 DEF CallOK, Calls
<1>5. StartOK'
  <2>1. \/ status' = "failed" /\ todo' = todo
        \/ status' = "starting" /\ todo' = entries \cup {Root}
    BY DEF start_command
  <2> QED  BY <1>2, <2>1 DEF StartOK, MediaOK, main
<1> QED  BY <1>1, <1>3, <1>4, <1>5

LEMMA EntriesType == TypeInv /\ mark_entries => TypeInv'
<1> SUFFICES ASSUME TypeInv, mark_entries PROVE TypeInv'
  OBVIOUS
<1> USE DEF TypeInv
<1>1. MInv'
  BY MonitorMInv DEF MonitorThread
<1>2. /\ UNCHANGED <<fanMarks, watches, lastWd, queue, limited, signals, announced, programs, main, conf, tables, scans>>
      /\ stack = <<>> /\ status = "starting"
  BY DEF mark_entries
<1>3. FilesOK' /\ MarkOK' /\ QueueOK' /\ TableOK'
  BY <1>2 DEF FilesOK, PlaceOK, TreeInv, Exists, MarkOK, QueueOK, Events, TableOK, programs, tables
<1>4. MediaOK'
  <2>1. mountMarks' \subseteq Points \cup {Slash}
    BY DEF mark_entries, mark_mount_point, MediaOK, StartOK
  <2> QED  BY <1>2, <2>1 DEF MediaOK, programs, conf
<1>5. StartOK'
  BY <1>2 DEF mark_entries, StartOK, main
<1>6. CallOK'
  <2>1. CASE stack' = Call("fan", <<>>) /\ todo' = todo \ {Root} /\ status' = status
    <3> DEFINE c == [at |-> "fan", path |-> <<>>, names |-> {}]
    <3>1. c \in Calls /\ c.at = "fan"
      BY DEF Calls, CallSteps
    <3>2. stack' = Append(<<>>, c) /\ Started'
      BY <1>2, <2>1 DEF Call, Started
    <3> HIDE DEF c
    <3> QED  BY <3>1, <3>2, OneCallType
  <2>2. CASE stack' = stack
    BY <1>2, <2>2 DEF CallOK, Calls
  <2> QED  BY <2>1, <2>2 DEF mark_entries
<1> QED  BY <1>1, <1>3, <1>4, <1>5, <1>6

LEMMA FanType == TypeInv /\ fanotify_monitor_mark_directory => TypeInv'
<1> SUFFICES ASSUME TypeInv, fanotify_monitor_mark_directory PROVE TypeInv'
  OBVIOUS
<1> USE DEF TypeInv
<1>1. /\ UNCHANGED <<mountMarks, watches, lastWd, queue, limited, signals, announced, programs, main, conf,
                     status, todo, tables, scans>>
      /\ stack # <<>>
  BY DEF fanotify_monitor_mark_directory, At
<1>2. MInv' /\ FilesOK' /\ MediaOK' /\ StartOK'
  BY <1>1, CallsType DEF MonitorThread
<1>3. QueueOK' /\ TableOK'
  BY <1>1 DEF QueueOK, Events, TableOK, tables
<1>4. MarkOK'
  <2>1. Lookup(Top.path) \in Dirs \cup {Root, Nil}
    BY <1>1, TopIs, LookupIs DEF Calls, FilesOK
  <2>2. fanMarks' \subseteq Dirs \cup {Root}
    BY <2>1 DEF fanotify_monitor_mark_directory, MarkOK
  <2> QED  BY <1>1, <2>2 DEF MarkOK
<1>5. CallOK'
  <2>1. PICK step \in {"ino", "open"} : stack' = GoOn(step)
    BY DEF fanotify_monitor_mark_directory
  <2>2. step \in CallSteps /\ step \notin {"unfan", "unino"}
    BY DEF CallSteps
  <2> QED  BY <1>1, <2>1, <2>2, GoOnType
<1> QED  BY <1>2, <1>3, <1>4, <1>5

LEMMA UnfanType == TypeInv /\ fanotify_monitor_unmark_directory => TypeInv'
<1> SUFFICES ASSUME TypeInv, fanotify_monitor_unmark_directory PROVE TypeInv'
  OBVIOUS
<1> USE DEF TypeInv
<1>1. /\ UNCHANGED <<mountMarks, watches, lastWd, queue, limited, signals, announced, programs, main, conf,
                     status, todo, tables, scans>>
      /\ stack # <<>> /\ Top.at = "unfan"
  BY DEF fanotify_monitor_unmark_directory, At
<1>2. MInv' /\ FilesOK' /\ MediaOK' /\ StartOK'
  BY <1>1, CallsType DEF MonitorThread
<1>3. QueueOK' /\ TableOK'
  BY <1>1 DEF QueueOK, Events, TableOK, tables
<1>4. MarkOK'
  <2>1. fanMarks' \subseteq fanMarks
    BY DEF fanotify_monitor_unmark_directory
  <2> QED  BY <1>1, <2>1 DEF MarkOK
<1>5. CallOK'
  <2>1. CASE stack' = Return
    BY <1>1, <2>1, ReturnType
  <2>2. CASE stack' = GoOn("unino")
    <3>1. "unino" \in CallSteps
      BY DEF CallSteps
    <3>2. Len(stack) = 1 /\ Top.path # <<>>
      BY <1>1, TopIs DEF CallOK
    <3> QED  BY <1>1, <2>2, <3>1, <3>2, GoOnType
  <2> QED  BY <2>1, <2>2 DEF fanotify_monitor_unmark_directory
<1> QED  BY <1>2, <1>3, <1>4, <1>5

\* inotify_add_watch gives the watch of the directory or a new one.
NewWd == IF WatchesOf(Lookup(Top.path)) # {} THEN CHOOSE w \in WatchesOf(Lookup(Top.path)) : TRUE ELSE lastWd + 1

LEMMA NewWdIs ==
    ASSUME MarkOK
    PROVE  /\ NewWd \in DOMAIN watches => watches[NewWd] = Lookup(Top.path)
           /\ \A w \in DOMAIN watches : watches[w] = Lookup(Top.path) => w = NewWd
           /\ NewWd \notin DOMAIN watches => NewWd = lastWd + 1
           /\ NewWd \in 1..lastWd + 1
<1>1. CASE WatchesOf(Lookup(Top.path)) = {}
  <2>1. NewWd = lastWd + 1
    BY <1>1 DEF NewWd
  <2>2. lastWd + 1 \in 1..lastWd + 1 /\ lastWd + 1 \notin 1..lastWd
    BY DEF MarkOK
  <2> QED  BY <1>1, <2>1, <2>2 DEF WatchesOf, MarkOK
<1>2. CASE WatchesOf(Lookup(Top.path)) # {}
  <2>1. NewWd \in WatchesOf(Lookup(Top.path))
    BY <1>2 DEF NewWd
  <2>2. NewWd \in DOMAIN watches /\ watches[NewWd] = Lookup(Top.path)
    BY <2>1 DEF WatchesOf
  <2>3. NewWd \in 1..lastWd + 1
    BY <2>2 DEF MarkOK
  <2> QED  BY <2>2, <2>3 DEF MarkOK
<1> QED  BY <1>1, <1>2

\* What the call does when it works.
Watched ==
    /\ Lookup(Top.path) # Nil
    /\ watches' = [w \in DOMAIN watches \cup {NewWd} |-> IF w = NewWd THEN Lookup(Top.path) ELSE watches[w]]
    /\ lastWd' = IF NewWd > lastWd THEN NewWd ELSE lastWd
    /\ wd2path' = [w \in DOMAIN wd2path \cup {NewWd} |-> IF w = NewWd THEN Top.path ELSE wd2path[w]]
    /\ path2wd' = [p \in DOMAIN path2wd \cup {Top.path} |-> IF p = Top.path THEN NewWd ELSE path2wd[p]]
    /\ UNCHANGED <<limited, misled>>

LEMMA InotifyIs ==
    ASSUME inotify_monitor_mark_directory
    PROVE  /\ stack # <<>> /\ Top.at = "ino" /\ stack' = GoOn("open")
           /\ UNCHANGED <<fanMarks, mountMarks, queue, signals, announced, programs, main, conf,
                          status, todo, scans>>
           /\ \/ Watched
              \/ limited' = (limited \/ Lookup(Top.path) # Nil) /\ UNCHANGED <<watches, lastWd, tables>>
BY DEF inotify_monitor_mark_directory, At, Watched, NewWd

LEMMA InoType == TypeInv /\ inotify_monitor_mark_directory => TypeInv'
<1> SUFFICES ASSUME TypeInv, inotify_monitor_mark_directory PROVE TypeInv'
  OBVIOUS
<1> USE DEF TypeInv
<1>1. /\ UNCHANGED <<fanMarks, mountMarks, queue, signals, announced, programs, main, conf, status, todo, scans>>
      /\ stack # <<>> /\ stack' = GoOn("open")
  BY InotifyIs
<1>2. MInv' /\ FilesOK' /\ MediaOK' /\ StartOK'
  BY <1>1, CallsType DEF MonitorThread
<1>3. CallOK'
  <2>1. "open" \in CallSteps
    BY DEF CallSteps
  <2> QED  BY <1>1, <2>1, GoOnType
<1>4. CASE Watched
  <2>1. Lookup(Top.path) \in Dirs \cup {Root} /\ Top.path \in Seq(Names)
    BY <1>1, <1>4, TopIs, LookupIs DEF Calls, FilesOK, Watched
  <2>2. /\ lastWd \in Nat /\ lastWd' \in Nat /\ lastWd <= lastWd' /\ NewWd \in 1..lastWd'
    BY <1>4, NewWdIs DEF Watched, MarkOK
  <2>3. 1..lastWd \subseteq 1..lastWd'
    BY <2>2
  <2>4. MarkOK'
    <3>1. \A w \in DOMAIN watches' : w \in 1..lastWd' /\ watches'[w] \in Dirs \cup {Root}
      BY <1>4, <2>1, <2>2, <2>3 DEF Watched, MarkOK
    <3>2. \A v, w \in DOMAIN watches' : watches'[v] = watches'[w] => v = w
      BY <1>4, NewWdIs DEF Watched, MarkOK
    <3> QED  BY <1>1, <2>2, <3>1, <3>2 DEF MarkOK
  <2>5. QueueOK'
    <3>1. Events \subseteq Events'
      BY <2>3 DEF Events
    <3>2. queue' = queue /\ limited' = limited /\ queue \in Seq(Events)
      BY <1>1, <1>4 DEF Watched, QueueOK
    <3>3. queue \in Seq(Events')
      BY <3>1, <3>2
    <3> QED  BY <3>2, <3>3 DEF QueueOK
  <2>6. TableOK'
    <3>1. \A w \in DOMAIN wd2path' : w \in 1..lastWd' /\ wd2path'[w] \in Seq(Names)
      BY <1>4, <2>1, <2>2, <2>3 DEF Watched, TableOK
    <3>2. \A p \in DOMAIN path2wd' : p \in Seq(Names) /\ path2wd'[p] \in 1..lastWd'
      BY <1>4, <2>1, <2>2, <2>3 DEF Watched, TableOK
    <3>3. misled' = misled
      BY <1>4 DEF Watched
    <3> QED  BY <3>1, <3>2, <3>3 DEF TableOK
  <2> QED  BY <1>2, <1>3, <2>4, <2>5, <2>6
<1>5. CASE limited' = (limited \/ Lookup(Top.path) # Nil) /\ UNCHANGED <<watches, lastWd, tables>>
  <2>1. MarkOK' /\ TableOK'
    BY <1>1, <1>5 DEF MarkOK, TableOK, tables
  <2>2. QueueOK'
    <3>1. limited' \in BOOLEAN
      BY <1>5 DEF QueueOK
    <3> QED  BY <1>1, <1>5, <3>1 DEF QueueOK, Events
  <2> QED  BY <1>2, <1>3, <2>1, <2>2
<1> QED  BY <1>4, <1>5, InotifyIs

LEMMA UninoType == TypeInv /\ inotify_monitor_unmark_directory => TypeInv'
<1> SUFFICES ASSUME TypeInv, inotify_monitor_unmark_directory PROVE TypeInv'
  OBVIOUS
<1> USE DEF TypeInv
<1>1. /\ UNCHANGED <<fanMarks, mountMarks, lastWd, queue, limited, signals, announced, programs, main, conf,
                     status, todo, misled, scans>>
      /\ stack # <<>> /\ stack' = Return
  BY DEF inotify_monitor_unmark_directory, At
<1>2. MInv' /\ FilesOK' /\ MediaOK' /\ StartOK'
  BY <1>1, CallsType DEF MonitorThread
<1>3. CallOK'
  BY <1>1, ReturnType
<1>4. QueueOK'
  BY <1>1 DEF QueueOK, Events
<1>5. PICK wds : /\ watches' = [w \in DOMAIN watches \ wds |-> watches[w]]
                 /\ wd2path' = [w \in DOMAIN wd2path \ wds |-> wd2path[w]]
  BY DEF inotify_monitor_unmark_directory
<1>6. path2wd' = [p \in DOMAIN path2wd \ {Top.path} |-> path2wd[p]]
  BY DEF inotify_monitor_unmark_directory
<1>7. MarkOK'
  BY <1>1, <1>5 DEF MarkOK
<1>8. TableOK'
  BY <1>1, <1>5, <1>6 DEF TableOK
<1> QED  BY <1>2, <1>3, <1>4, <1>7, <1>8

LEMMA OpenType == TypeInv /\ opendir => TypeInv'
<1> SUFFICES ASSUME TypeInv, opendir PROVE TypeInv'
  OBVIOUS
<1> USE DEF TypeInv
<1>1. UNCHANGED <<kernel, programs, main, conf, status, todo, tables, scans>> /\ stack # <<>>
  BY DEF opendir, At
<1>2. MInv' /\ FilesOK' /\ MediaOK' /\ StartOK'
  BY <1>1, CallsType DEF MonitorThread, kernel
<1>3. QueueOK' /\ MarkOK' /\ TableOK'
  BY <1>1 DEF QueueOK, Events, MarkOK, TableOK, tables, kernel
<1>4. CallOK'
  <2>1. CASE stack' = Return
    BY <1>1, <2>1, ReturnType
  <2> DEFINE c == [at |-> "read", path |-> Top.path, names |-> {n \in Names : Child(Lookup(Top.path), n) # Nil}]
  <2>2. CASE stack' = Append(Return, c)
    <3>1. c \in Calls /\ c.at = "read"
      BY <1>1, TopIs DEF Calls, CallSteps
    <3> HIDE DEF c
    <3>2. Return \in Seq(Calls) /\ \A i \in 1..Len(Return) : Return[i].at = "read"
      BY <1>1, ReturnIs
    <3> QED  BY <1>1, <2>2, <3>1, <3>2, PushType
  <2> QED  BY <2>1, <2>2 DEF opendir
<1> QED  BY <1>2, <1>3, <1>4

\* The entry n is taken from the buffer, and entered.
Entered(n) ==
    /\ n \in Top.names
    /\ stack' = Append([stack EXCEPT ![Len(stack)] = [at |-> "read", path |-> Top.path, names |-> Top.names \ {n}]],
                       [at |-> "fan", path |-> Append(Top.path, n), names |-> {}])

LEMMA ReaddirIs ==
    ASSUME CallOK, readdir
    PROVE  /\ stack # <<>> /\ Top.at = "read" /\ Top = stack[Len(stack)]
           /\ UNCHANGED <<kernel, programs, main, conf, status, todo, tables, scans>>
           /\ \/ Top.names = {} /\ stack' = Return
              \/ \E n \in Names : Entered(n)
<1>1. stack # <<>> /\ Top.at = "read"
  BY DEF readdir, At
<1>2. Top = stack[Len(stack)] /\ Top \in Calls
  BY <1>1, TopIs
<1>3. ASSUME NEW n \in Top.names,
             stack' = Append([stack EXCEPT ![Len(stack)].names = @ \ {n}],
                             [at |-> "fan", path |-> Append(Top.path, n), names |-> {}])
      PROVE  \E m \in Names : Entered(m)
  <2>1. n \in Names
    BY <1>2 DEF Calls
  <2>2. [Top EXCEPT !.names = @ \ {n}] = [at |-> "read", path |-> Top.path, names |-> Top.names \ {n}]
    <3>1. ASSUME NEW c \in Calls, NEW X
          PROVE  [c EXCEPT !.names = X] = [at |-> c.at, path |-> c.path, names |-> X]
      BY <3>1 DEF Calls
    <3> QED  BY <1>1, <1>2, <3>1
  <2>3. Entered(n)
    BY <1>2, <1>3, <2>2 DEF Entered
  <2> QED  BY <2>1, <2>3
<1> QED  BY <1>1, <1>2, <1>3 DEF readdir

LEMMA ReadType == TypeInv /\ readdir => TypeInv'
<1> SUFFICES ASSUME TypeInv, readdir PROVE TypeInv'
  OBVIOUS
<1> USE DEF TypeInv
<1>1. UNCHANGED <<kernel, programs, main, conf, status, todo, tables, scans>> /\ stack # <<>>
  BY DEF readdir, At
<1>2. MInv' /\ FilesOK' /\ MediaOK' /\ StartOK'
  BY <1>1, CallsType DEF MonitorThread, kernel
<1>3. QueueOK' /\ MarkOK' /\ TableOK'
  BY <1>1 DEF QueueOK, Events, MarkOK, TableOK, tables, kernel
<1>4. CallOK'
  <2>1. CASE stack' = Return
    BY <1>1, <2>1, ReturnType
  <2>2. ASSUME NEW n \in Names, Entered(n) PROVE CallOK'
    <3> DEFINE b == [at |-> "read", path |-> Top.path, names |-> Top.names \ {n}]
               s == [stack EXCEPT ![Len(stack)] = b]
               c == [at |-> "fan", path |-> Append(Top.path, n), names |-> {}]
    <3>1. b \in Calls /\ b.at = "read"
      BY <1>1, TopIs DEF Calls, CallSteps
    <3>2. c \in Calls /\ c.at = "fan"
      BY <1>1, TopIs DEF Calls, CallSteps
    <3>3. stack' = Append(s, c)
      BY <2>2 DEF Entered
    <3> HIDE DEF b, c
    <3>4. /\ s \in Seq(Calls) /\ Len(s) = Len(stack) /\ s[Len(stack)] = b
          /\ \A i \in 1..Len(stack) - 1 : s[i] = stack[i] /\ stack[i].at = "read"
      BY <1>1, <3>1, TopReplaced
    <3> HIDE DEF s
    <3>5. \A i \in 1..Len(s) : i = Len(stack) \/ i \in 1..Len(stack) - 1
      BY <3>4
    <3>6. \A i \in 1..Len(s) : s[i].at = "read"
      BY <3>1, <3>4, <3>5
    <3> QED  BY <1>1, <3>2, <3>3, <3>4, <3>6, PushType
  <2> QED  BY <2>1, <2>2, ReaddirIs
<1> QED  BY <1>2, <1>3, <1>4

LEMMA HeadIs ==
    ASSUME QueueOK, queue # <<>>, queue' = Tail(queue)
    PROVE  /\ Head(queue) = queue[1] /\ Head(queue) \in Events /\ queue' \in Seq(Events) /\ Len(queue) \in Nat
           /\ Len(queue') = Len(queue) - 1 /\ \A i \in 1..Len(queue') : queue'[i] = queue[i + 1]
           /\ DOMAIN queue = 1..Len(queue) /\ DOMAIN queue' = 1..Len(queue')
<1>1. queue \in Seq(Events)
  BY DEF QueueOK
<1>2. /\ Head(queue) \in Events /\ queue' \in Seq(Events)
      /\ Len(queue') = Len(queue) - 1 /\ \A i \in 1..Len(queue') : queue'[i] = queue[i + 1]
  BY <1>1, HeadTailProperties
<1> QED  BY <1>1, <1>2

LEMMA EventType == TypeInv /\ inotify_event_process => TypeInv'
<1> SUFFICES ASSUME TypeInv, inotify_event_process PROVE TypeInv'
  OBVIOUS
<1> USE DEF TypeInv
<1>1. /\ UNCHANGED <<fanMarks, mountMarks, watches, lastWd, limited, signals, announced, programs, main, conf,
                     status, todo, wd2path, path2wd, scans>>
      /\ stack = <<>> /\ status = "started" /\ queue # <<>> /\ queue' = Tail(queue)
  BY DEF inotify_event_process, Dispatching
<1>2. MInv' /\ FilesOK' /\ MediaOK' /\ StartOK'
  BY <1>1, CallsType DEF MonitorThread
<1>3. QueueOK'
  <2>1. queue' \in Seq(Events) /\ Len(queue') = Len(queue) - 1 /\ Len(queue) \in Nat
    BY <1>1, HeadIs
  <2>2. Len(queue') <= QueueLimit
    BY <2>1, BoundsAssumption DEF QueueOK
  <2> QED  BY <1>1, <2>1, <2>2 DEF QueueOK, Events
<1>4. MarkOK'
  BY <1>1 DEF MarkOK
<1>5. TableOK'
  <2>1. misled' \in BOOLEAN
    BY DEF inotify_event_process, TableOK
  <2> QED  BY <1>1, <2>1 DEF TableOK
<1>6. CallOK'
  <2> DEFINE e == Head(queue)
             step == IF e.kind \in {"CREATE", "MOVED_TO"} THEN "fan" ELSE "unfan"
             c == [at |-> step, path |-> Append(wd2path[e.wd], e.name), names |-> {}]
  <2>1. CASE e.wd \notin DOMAIN wd2path
    <3>1. stack' = <<>>
      BY <1>1, <2>1 DEF inotify_event_process
    <3> QED  BY <3>1 DEF CallOK
  <2>2. CASE e.wd \in DOMAIN wd2path
    <3>1. stack' = Append(<<>>, c)
      BY <1>1, <2>2 DEF inotify_event_process, Call
    <3>2. Started'
      BY <1>1 DEF Started, StartOK
    <3>3. wd2path[e.wd] \in Seq(Names) /\ e.name \in Names
      BY <1>1, <2>2, HeadIs DEF TableOK, Events
    <3>4. Append(wd2path[e.wd], e.name) \in Seq(Names) /\ Append(wd2path[e.wd], e.name) # <<>>
      BY <3>3
    <3>5. c \in Calls /\ c.path # <<>>
      BY <3>4 DEF Calls, CallSteps
    <3> HIDE DEF c
    <3> QED  BY <3>1, <3>2, <3>5, OneCallType
  <2> QED  BY <2>1, <2>2
<1> QED  BY <1>2, <1>3, <1>4, <1>5, <1>6

LEMMA MountIdleType == TypeInv /\ mount_idle_cb => TypeInv'
<1> SUFFICES ASSUME TypeInv, mount_idle_cb PROVE TypeInv'
  OBVIOUS
<1> USE DEF TypeInv
<1>1. UNCHANGED <<fanMarks, watches, lastWd, queue, limited, announced, programs, main, conf, status, todo, stack, tables>>
  BY DEF mount_idle_cb
<1>2. MInv'
  BY MonitorMInv DEF MonitorThread
<1>3. FilesOK' /\ MarkOK' /\ QueueOK' /\ StartOK' /\ CallOK' /\ TableOK'
  BY <1>1 DEF FilesOK, PlaceOK, TreeInv, Exists, MarkOK, QueueOK, Events, StartOK, CallOK, Calls, Started, TableOK,
              programs, main, tables
<1>4. MediaOK'
  <2>1. signals' \in Seq(Seq(Points))
    BY <1>2 DEF MInv, HeardInv
  <2>2. Head(signals) \in Seq(Points)
    <3>1. signals \in Seq(Seq(Points)) /\ signals # <<>>
      BY DEF MediaOK, mount_idle_cb
    <3> QED  BY <3>1, HeadTailProperties
  <2>3. Head(signals) # <<>> => Head(signals)[1] \in Points
    BY <2>2
  <2>4. mountMarks' \subseteq Points \cup {Slash}
    BY <2>3 DEF mount_idle_cb, mark_mount_point, MediaOK
  <2>5. scans' \subseteq Points
    BY <2>3 DEF mount_idle_cb, MediaOK
  <2> QED  BY <1>1, <2>1, <2>4, <2>5 DEF MediaOK, programs, conf
<1> QED  BY <1>2, <1>3, <1>4

LEMMA StutterType == TypeInv /\ UNCHANGED vars => TypeInv'
<1> SUFFICES ASSUME TypeInv, UNCHANGED vars PROVE TypeInv'
  OBVIOUS
<1>1. MInv'
  BY DEF TypeInv, vars, programs, kernel, main, conf, monitor, tables, MInv, PipeInv, HeardInv, MediumInv
<1>2. FilesOK' /\ MediaOK' /\ MarkOK' /\ QueueOK' /\ StartOK' /\ CallOK' /\ TableOK'
  BY DEF TypeInv, FilesOK, PlaceOK, TreeInv, Exists, MediaOK, MarkOK, QueueOK, Events, StartOK, CallOK, Calls, Started,
         TableOK, vars, programs, kernel, main, conf, monitor, tables
<1> QED  BY <1>1, <1>2 DEF TypeInv

LEMMA NextType == TypeInv /\ [Next]_vars => TypeInv'
<1> SUFFICES ASSUME TypeInv, [Next]_vars PROVE TypeInv'
  OBVIOUS
<1>1. CASE Programs
  BY <1>1, MkdirType, RmdirType, RenameType, MediaType DEF Programs
<1>2. CASE MonitorThread
  BY <1>2, StartType, EntriesType, FanType, InoType, OpenType, ReadType, EventType, UnfanType, UninoType, MountIdleType
     DEF MonitorThread
<1> QED  BY <1>1, <1>2, MainType, StutterType DEF Next

-----------------------------------------------------------------------------
(* Removals.                                                               *)

\* The entries of directories after x got the place <<d, n>>.
LEMMA ChildArrives ==
    ASSUME PlaceOK, PlaceOK', TreeInv', NEW x \in Dirs, NEW d, NEW n, place' = [place EXCEPT ![x] = <<d, n>>]
    PROVE  \A a, m : Child(a, m)' # Nil => Child(a, m) # Nil \/ (a = d /\ m = n)
<1> SUFFICES ASSUME NEW a, NEW m, Child(a, m)' # Nil PROVE Child(a, m) # Nil \/ (a = d /\ m = n)
  OBVIOUS
<1> DEFINE c == Child(a, m)'
<1>1. c \in Dirs /\ place'[c] = <<a, m>>
  BY TreeNext
<1>2. place'[c] = IF c = x THEN <<d, n>> ELSE place[c]
  BY <1>1 DEF PlaceOK
<1> HIDE DEF c
<1> QED  BY <1>1, <1>2, ChildIs

\* Its old entry is gone.
LEMMA ChildGone ==
    ASSUME PlaceOK, TreeInv, PlaceOK', TreeInv', NEW x \in Dirs, NEW v, place' = [place EXCEPT ![x] = v],
           NEW a, NEW m, place[x] = <<a, m>>, v # place[x]
    PROVE  Child(a, m)' = Nil
<1> SUFFICES ASSUME Child(a, m)' # Nil PROVE FALSE
  OBVIOUS
<1> DEFINE c == Child(a, m)'
<1>1. c \in Dirs /\ place'[c] = <<a, m>>
  BY TreeNext
<1>2. place'[c] = IF c = x THEN v ELSE place[c]
  BY <1>1 DEF PlaceOK
<1>3. place[x] # <<>>
  OBVIOUS
<1> HIDE DEF c
<1> QED  BY <1>1, <1>2, <1>3 DEF TreeInv

LEMMA ChildLeaves ==
    ASSUME PlaceOK, PlaceOK', TreeInv', NEW x \in Dirs, place' = [place EXCEPT ![x] = <<>>]
    PROVE  \A a, m : Child(a, m)' # Nil => Child(a, m) # Nil
<1> SUFFICES ASSUME NEW a, NEW m, Child(a, m)' # Nil PROVE Child(a, m) # Nil
  OBVIOUS
<1> DEFINE c == Child(a, m)'
<1>1. c \in Dirs /\ place'[c] = <<a, m>> /\ <<a, m>> # <<>>
  BY TreeNext
<1>2. place'[c] = IF c = x THEN <<>> ELSE place[c]
  BY <1>1 DEF PlaceOK
<1> HIDE DEF c
<1> QED  BY <1>1, <1>2, ChildIs

\* A later event tells that the entry of the event i is there.
ToldAgain(i) ==
    \E j \in DOMAIN queue :
        /\ j > i /\ queue[j].kind \in Creations /\ queue[j].wd = queue[i].wd /\ queue[j].name = queue[i].name

LEMMA RemovalIs ==
    RemovalInv <=> \A i \in DOMAIN queue :
        /\ queue[i].kind \notin Creations /\ queue[i].wd \in DOMAIN watches
        /\ Child(watches[queue[i].wd], queue[i].name) # Nil
        => ToldAgain(i)
BY DEF RemovalInv, ToldAgain

\* The new events are after the ones that waited.
LEMMA AgainAfter ==
    ASSUME QueueOK, NEW es \in Seq(Events), queue' = queue \o es, NEW i \in DOMAIN queue
    PROVE  /\ i \in DOMAIN queue' /\ queue'[i] = queue[i]
           /\ ToldAgain(i) => ToldAgain(i)'
           /\ (\E k \in DOMAIN es : /\ es[k].kind \in Creations
                                    /\ es[k].wd = queue[i].wd /\ es[k].name = queue[i].name) => ToldAgain(i)'
<1>1. queue \in Seq(Events)
  BY DEF QueueOK
<1>2. /\ Len(queue) \in Nat /\ DOMAIN queue = 1..Len(queue) /\ DOMAIN es = 1..Len(es) /\ DOMAIN queue' = 1..Len(queue')
      /\ \A k \in 1..Len(queue) : k \in 1..Len(queue') /\ queue'[k] = queue[k]
      /\ \A k \in 1..Len(es) : Len(queue) + k \in 1..Len(queue') /\ queue'[Len(queue) + k] = es[k]
  BY <1>1, AddedAt
<1>3. i \in DOMAIN queue' /\ queue'[i] = queue[i]
  BY <1>2
<1>4. ASSUME ToldAgain(i) PROVE ToldAgain(i)'
  BY <1>2, <1>3, <1>4 DEF ToldAgain
<1>5. ASSUME NEW k \in DOMAIN es, es[k].kind \in Creations, es[k].wd = queue[i].wd, es[k].name = queue[i].name
      PROVE  ToldAgain(i)'
  <2> DEFINE j == Len(queue) + k
  <2>1. j \in DOMAIN queue' /\ queue'[j] = es[k] /\ j > i
    BY <1>2
  <2> QED  BY <1>3, <1>5, <2>1 DEF ToldAgain
<1> QED  BY <1>3, <1>4, <1>5

\* What the index of an event may be after some were added.
LEMMA OldOrNew ==
    ASSUME QueueOK, NEW es \in Seq(Events), queue' = queue \o es, NEW i \in DOMAIN queue'
    PROVE  i \in DOMAIN queue \/ \E k \in DOMAIN es : queue'[i] = es[k]
<1>1. queue \in Seq(Events)
  BY DEF QueueOK
<1>2. /\ DOMAIN queue = 1..Len(queue) /\ DOMAIN es = 1..Len(es) /\ DOMAIN queue' = 1..Len(queue')
      /\ \A k \in 1..Len(queue') : k \in 1..Len(queue) \/ (k - Len(queue) \in 1..Len(es) /\ queue'[k] = es[k - Len(queue)])
  BY <1>1, AddedAt
<1> QED  BY <1>2

\* What the events of a directory are.
LEMMA EventAt ==
    ASSUME MarkOK, NEW kind \in Kinds, NEW d, NEW n \in Names
    PROVE  /\ \A k \in DOMAIN Event(kind, d, n) :
                 /\ Event(kind, d, n)[k].kind = kind /\ Event(kind, d, n)[k].name = n
                 /\ Event(kind, d, n)[k].wd \in DOMAIN watches /\ watches[Event(kind, d, n)[k].wd] = d
           /\ \A w \in DOMAIN watches : watches[w] = d =>
                 \E k \in DOMAIN Event(kind, d, n) :
                    Event(kind, d, n)[k].kind = kind /\ Event(kind, d, n)[k].wd = w /\ Event(kind, d, n)[k].name = n
<1>1. CASE WatchesOf(d) = {}
  <2>1. Cardinality(WatchesOf(d)) = 0
    BY <1>1, FS_EmptySet
  <2>2. DOMAIN Event(kind, d, n) = {}
    BY <2>1 DEF Event
  <2> QED  BY <1>1, <2>2 DEF WatchesOf
<1>2. ASSUME NEW w \in DOMAIN watches, watches[w] = d
      PROVE  Event(kind, d, n) = <<[kind |-> kind, wd |-> w, name |-> n]>>
  BY <1>2, EventIs
<1>3. ASSUME NEW e PROVE DOMAIN <<e>> = {1} /\ <<e>>[1] = e
  OBVIOUS
<1>4. CASE WatchesOf(d) # {}
  <2>1. PICK w \in DOMAIN watches : watches[w] = d
    BY <1>4 DEF WatchesOf
  <2>2. DOMAIN Event(kind, d, n) = {1} /\ Event(kind, d, n)[1] = [kind |-> kind, wd |-> w, name |-> n]
    BY <1>2, <1>3, <2>1
  <2>3. \A v \in DOMAIN watches : watches[v] = d => v = w
    BY <2>1 DEF MarkOK
  <2> QED  BY <2>1, <2>2, <2>3
<1> QED  BY <1>1, <1>4

LEMMA MkdirRemoval ==
    ASSUME TypeInv, TypeInv', RemovalInv, ~limited', NEW d \in Dirs \cup {Root, Outside}, NEW n \in Names, NEW new \in Dirs,
           Mkdir(d, n, new)
    PROVE  RemovalInv'
<1> USE DEF TypeInv, FilesOK
<1> DEFINE es == Event("CREATE", d, n)
<1>1. "CREATE" \in Kinds /\ "CREATE" \in Creations
  BY DEF Kinds, Creations
<1>2. es \in Seq(Events)
  BY <1>1, EventIs
<1>3. queue' = queue \o es /\ watches' = watches
  BY <1>2, PostIs DEF Mkdir
<1>4. \A a, m : Child(a, m)' # Nil => Child(a, m) # Nil \/ (a = d /\ m = n)
  BY ChildArrives DEF Mkdir
<1>5. \A k \in DOMAIN es : es[k].kind = "CREATE"
  BY <1>1, EventAt
<1>6. \A w \in DOMAIN watches : watches[w] = d => 
          \E k \in DOMAIN es : es[k].kind = "CREATE" /\ es[k].wd = w /\ es[k].name = n
  BY <1>1, EventAt
<1> HIDE DEF es
<1> SUFFICES ASSUME NEW i \in DOMAIN queue', queue'[i].kind \notin Creations, queue'[i].wd \in DOMAIN watches,
                    Child(watches[queue[i].wd], queue[i].name)' # Nil
             PROVE  ToldAgain(i)'
  BY <1>3 DEF RemovalInv, ToldAgain
<1>7. i \in DOMAIN queue
  BY <1>1, <1>2, <1>3, <1>5, OldOrNew
<1>8. queue'[i] = queue[i]
  BY <1>2, <1>3, <1>7, AgainAfter
<1>9. CASE Child(watches[queue[i].wd], queue[i].name) # Nil
  BY <1>2, <1>3, <1>7, <1>8, <1>9, AgainAfter, RemovalIs
<1>10. CASE watches[queue[i].wd] = d /\ queue[i].name = n
  <2>1. PICK k \in DOMAIN es : es[k].kind = "CREATE" /\ es[k].wd = queue[i].wd /\ es[k].name = n
    BY <1>6, <1>8, <1>10
  <2>2. es[k].kind \in Creations /\ es[k].wd = queue[i].wd /\ es[k].name = queue[i].name
    BY <1>1, <1>10, <2>1
  <2> QED  BY <1>2, <1>3, <1>7, <2>2, AgainAfter
<1> QED  BY <1>3, <1>4, <1>8, <1>9, <1>10

LEMMA RmdirRemoval ==
    ASSUME TypeInv, TypeInv', RemovalInv, ~limited', NEW d \in Dirs, Rmdir(d)
    PROVE  RemovalInv'
<1> USE DEF TypeInv, FilesOK
<1>0. PICK p \in Dirs \cup {Root, Outside}, n \in Names : place[d] = <<p, n>>
  BY DEF Rmdir, PlaceOK, Places
<1> DEFINE es == Event("DELETE", p, n)
<1>1. "DELETE" \in Kinds /\ place[d][1] = p /\ place[d][2] = n /\ place[d] # <<>>
  BY <1>0 DEF Kinds
<1>2. es \in Seq(Events)
  BY <1>1, EventIs
<1>3. queue' = queue \o es /\ DOMAIN watches' \subseteq DOMAIN watches /\ \A w \in DOMAIN watches' : watches'[w] = watches[w]
  BY <1>1, <1>2, PostIs DEF Rmdir
<1>4. \A a, m : Child(a, m)' # Nil => Child(a, m) # Nil
  BY ChildLeaves DEF Rmdir
<1>5. \A k \in DOMAIN es : es[k].name = n /\ watches[es[k].wd] = p
  BY <1>1, EventAt
<1>6. Child(p, n)' = Nil
  BY <1>0, <1>1, ChildGone DEF Rmdir
<1> HIDE DEF es
<1> SUFFICES ASSUME NEW i \in DOMAIN queue', queue'[i].kind \notin Creations, queue'[i].wd \in DOMAIN watches',
                    Child(watches[queue[i].wd], queue[i].name)' # Nil
             PROVE  ToldAgain(i)'
  BY DEF RemovalInv, ToldAgain
<1>7. PICK a, m : a = watches'[queue'[i].wd] /\ m = queue'[i].name
  OBVIOUS
<1>8. Child(a, m)' # Nil /\ a = watches[queue'[i].wd]
  BY <1>3, <1>7
<1>9. i \in DOMAIN queue
  <2> SUFFICES ASSUME i \notin DOMAIN queue PROVE FALSE
    OBVIOUS
  <2>1. PICK k \in DOMAIN es : queue'[i] = es[k]
    BY <1>2, <1>3, OldOrNew
  <2>2. a = p /\ m = n
    BY <1>5, <1>7, <1>8, <2>1
  <2> QED  BY <1>6, <1>8, <2>2
<1>10. queue'[i] = queue[i]
  BY <1>2, <1>3, <1>9, AgainAfter
<1>11. Child(a, m) # Nil
  BY <1>4, <1>8
<1> QED  BY <1>2, <1>3, <1>7, <1>8, <1>9, <1>10, <1>11, AgainAfter, RemovalIs

LEMMA RenameRemoval ==
    ASSUME TypeInv, TypeInv', RemovalInv, ~limited', NEW d \in Dirs \cup {Root, Outside}, NEW n \in Names, NEW c \in Dirs,
           Rename(c, d, n)
    PROVE  RemovalInv'
<1> USE DEF TypeInv, FilesOK
<1>0. PICK p \in Dirs \cup {Root, Outside}, o \in Names : place[c] = <<p, o>>
  BY DEF Rename, PlaceOK, Places
<1> DEFINE es1 == Event("MOVED_FROM", p, o)
           es2 == Event("MOVED_TO", d, n)
           es == es1 \o es2
<1>1. /\ "MOVED_FROM" \in Kinds /\ "MOVED_TO" \in Kinds /\ "MOVED_TO" \in Creations
      /\ place[c][1] = p /\ place[c][2] = o /\ place[c] # <<>>
  BY <1>0 DEF Kinds, Creations
<1>2. es1 \in Seq(Events) /\ es2 \in Seq(Events)
  BY <1>1, EventIs
<1>3. es \in Seq(Events)
  BY <1>2, ConcatProperties
<1>4. queue' = queue \o es /\ watches' = watches
  BY <1>1, <1>3, PostIs DEF Rename
<1>5. \A a, m : Child(a, m)' # Nil => Child(a, m) # Nil \/ (a = d /\ m = n)
  <2>1. place' = [place EXCEPT ![c] = <<d, n>>]
    BY DEF Rename
  <2> QED  BY <2>1, ChildArrives
<1>6. Child(p, o)' = Nil
  <2>1. <<d, n>> # place[c]
    BY ChildIs DEF Rename
  <2> QED  BY <1>0, <2>1, ChildGone DEF Rename
<1>7. \A k \in DOMAIN es1 : es1[k].name = o /\ watches[es1[k].wd] = p
  BY <1>1, EventAt
<1>8. \A k \in DOMAIN es2 : es2[k].kind = "MOVED_TO"
  BY <1>1, EventAt
<1>9. \A w \in DOMAIN watches : watches[w] = d =>
          \E k \in DOMAIN es2 : es2[k].kind = "MOVED_TO" /\ es2[k].wd = w /\ es2[k].name = n
  <2>1. "MOVED_TO" \in Kinds
    BY <1>1
  <2> QED  BY ONLY MarkOK, <2>1, n \in Names, EventAt
<1> HIDE DEF es1, es2
<1>10. /\ \A k \in DOMAIN es2 : \E j \in DOMAIN es : es[j] = es2[k]
       /\ \A j \in DOMAIN es : (\E k \in DOMAIN es1 : es[j] = es1[k]) \/ (\E k \in DOMAIN es2 : es[j] = es2[k])
  <2>1. es = es1 \o es2
    OBVIOUS
  <2> HIDE DEF es
  <2>2. /\ DOMAIN es = 1..Len(es) /\ DOMAIN es1 = 1..Len(es1) /\ DOMAIN es2 = 1..Len(es2)
        /\ \A k \in 1..Len(es1) : es[k] = es1[k]
        /\ \A k \in 1..Len(es2) : Len(es1) + k \in 1..Len(es) /\ es[Len(es1) + k] = es2[k]
        /\ \A j \in 1..Len(es) : j \in 1..Len(es1) \/ (j - Len(es1) \in 1..Len(es2) /\ es[j] = es2[j - Len(es1)])
    BY <1>2, <2>1, AddedAt
  <2> QED  BY <2>2
<1> HIDE DEF es
<1> SUFFICES ASSUME NEW i \in DOMAIN queue', queue'[i].kind \notin Creations, queue'[i].wd \in DOMAIN watches,
                    Child(watches[queue[i].wd], queue[i].name)' # Nil
             PROVE  ToldAgain(i)'
  BY <1>4 DEF RemovalInv, ToldAgain
<1>11. PICK a, m : a = watches'[queue'[i].wd] /\ m = queue'[i].name
  OBVIOUS
<1>12. Child(a, m)' # Nil /\ a = watches[queue'[i].wd]
  BY <1>4, <1>11
<1>13. i \in DOMAIN queue
  <2> SUFFICES ASSUME i \notin DOMAIN queue PROVE FALSE
    OBVIOUS
  <2>1. PICK j \in DOMAIN es : queue'[i] = es[j]
    BY <1>3, <1>4, OldOrNew
  <2>2. CASE \E k \in DOMAIN es1 : es[j] = es1[k]
    <3>1. a = p /\ m = o
      BY <1>7, <1>11, <1>12, <2>1, <2>2
    <3> QED  BY <1>6, <1>12, <3>1
  <2>3. CASE \E k \in DOMAIN es2 : es[j] = es2[k]
    BY <1>1, <1>8, <2>1, <2>3
  <2> QED  BY <1>10, <2>2, <2>3
<1>14. queue'[i] = queue[i]
  BY <1>3, <1>4, <1>13, AgainAfter
<1>15. CASE Child(a, m) # Nil
  BY <1>3, <1>4, <1>11, <1>12, <1>13, <1>14, <1>15, AgainAfter, RemovalIs
<1>16. CASE a = d /\ m = n
  <2>1. PICK k \in DOMAIN es2 : es2[k].kind = "MOVED_TO" /\ es2[k].wd = queue[i].wd /\ es2[k].name = n
    BY <1>9, <1>12, <1>14, <1>16
  <2>2. PICK j \in DOMAIN es : es[j] = es2[k]
    BY <1>10
  <2>3. es[j].kind \in Creations /\ es[j].wd = queue[i].wd /\ es[j].name = queue[i].name
    BY <1>1, <1>11, <1>14, <1>16, <2>1, <2>2
  <2> QED  BY <1>3, <1>4, <1>13, <2>3, AgainAfter
<1> QED  BY <1>5, <1>12, <1>15, <1>16

\* The steps of the monitor keep it: a new watch has no events yet, and events are taken in order.
LEMMA MonitorRemoval ==
    ASSUME TypeInv, RemovalInv, MonitorThread
    PROVE  RemovalInv'
<1> USE DEF TypeInv
<1>1. place' = place
  BY DEF MonitorThread, start_command, mark_entries, fanotify_monitor_mark_directory, inotify_monitor_mark_directory,
         opendir, readdir, inotify_event_process, fanotify_monitor_unmark_directory, inotify_monitor_unmark_directory,
         mount_idle_cb, programs
<1>2. \A a, m : Child(a, m)' = Child(a, m)
  BY <1>1, SameChildren
<1>3. ASSUME queue' = queue, DOMAIN watches' \cap 1..lastWd \subseteq DOMAIN watches,
             \A w \in DOMAIN watches' \cap 1..lastWd : watches'[w] = watches[w]
      PROVE  RemovalInv'
  <2> SUFFICES ASSUME NEW i \in DOMAIN queue, queue[i].kind \notin Creations, queue[i].wd \in DOMAIN watches',
                      Child(watches[queue[i].wd], queue[i].name)' # Nil
               PROVE  ToldAgain(i)'
    BY <1>3 DEF RemovalInv, ToldAgain
  <2>1. queue[i] \in Events
    BY DEF QueueOK
  <2>2. queue[i].wd \in DOMAIN watches /\ watches'[queue[i].wd] = watches[queue[i].wd]
    BY <1>3, <2>1 DEF Events
  <2>3. Child(watches[queue[i].wd], queue[i].name) # Nil
    <3>1. PICK a, m : a = watches[queue[i].wd] /\ m = queue[i].name
      OBVIOUS
    <3>2. Child(a, m)' # Nil
      BY <1>3, <2>2, <3>1
    <3> QED  BY <1>2, <3>1, <3>2
  <2>4. ToldAgain(i)
    BY <2>2, <2>3, RemovalIs
  <2> QED  BY <1>3, <2>4 DEF ToldAgain
<1>4. CASE UNCHANGED <<queue, watches>>
  BY <1>3, <1>4
<1>5. CASE inotify_monitor_mark_directory
  <2>1. CASE Watched
    <3>1. queue' = queue
      BY <1>5, InotifyIs
    <3>2. \A w \in DOMAIN watches' \cap 1..lastWd : w \in DOMAIN watches /\ watches'[w] = watches[w]
      <4> SUFFICES ASSUME NEW w \in DOMAIN watches', w \in 1..lastWd PROVE w \in DOMAIN watches /\ watches'[w] = watches[w]
        OBVIOUS
      <4>1. w # lastWd + 1
        BY DEF MarkOK
      <4>2. w = NewWd => w \in DOMAIN watches /\ watches[w] = Lookup(Top.path)
        BY <4>1, NewWdIs
      <4> QED  BY <2>1, <4>2 DEF Watched
    <3> QED  BY <1>3, <3>1, <3>2
  <2>2. CASE UNCHANGED watches
    BY <1>3, <1>5, <2>2, InotifyIs
  <2> QED  BY <1>5, <2>1, <2>2, InotifyIs
<1>6. CASE inotify_monitor_unmark_directory
  <2>1. queue' = queue /\ \A w \in DOMAIN watches' : w \in DOMAIN watches /\ watches'[w] = watches[w]
    BY <1>6 DEF inotify_monitor_unmark_directory
  <2> QED  BY <1>3, <2>1
<1>7. CASE inotify_event_process
  <2>0. queue # <<>> /\ queue' = Tail(queue) /\ watches' = watches
    BY <1>7 DEF inotify_event_process
  <2>1. /\ Len(queue) \in Nat /\ Len(queue') = Len(queue) - 1 /\ DOMAIN queue = 1..Len(queue) /\ DOMAIN queue' = 1..Len(queue')
        /\ \A i \in 1..Len(queue') : queue'[i] = queue[i + 1]
    BY <2>0, HeadIs
  <2> SUFFICES ASSUME NEW i \in DOMAIN queue', queue'[i].kind \notin Creations, queue'[i].wd \in DOMAIN watches,
                      Child(watches[queue[i].wd], queue[i].name)' # Nil
               PROVE  ToldAgain(i)'
    BY <2>0 DEF RemovalInv, ToldAgain
  <2>2. i + 1 \in DOMAIN queue /\ queue'[i] = queue[i + 1]
    BY <2>1
  <2>3. Child(watches[queue[i + 1].wd], queue[i + 1].name) # Nil
    <3>1. PICK a, m : a = watches'[queue'[i].wd] /\ m = queue'[i].name
      OBVIOUS
    <3>2. Child(a, m)' # Nil
      BY <3>1
    <3> QED  BY <1>2, <2>0, <2>2, <3>1, <3>2
  <2>4. ToldAgain(i + 1)
    BY <2>2, <2>3, RemovalIs
  <2>5. PICK j \in DOMAIN queue : /\ j > i + 1 /\ queue[j].kind \in Creations
                                  /\ queue[j].wd = queue[i + 1].wd /\ queue[j].name = queue[i + 1].name
    BY <2>4 DEF ToldAgain
  <2>6. j - 1 \in DOMAIN queue' /\ j - 1 > i /\ queue'[j - 1] = queue[j]
    BY <2>1, <2>5
  <2> QED  BY <2>2, <2>5, <2>6 DEF ToldAgain
<1> QED  BY <1>4, <1>5, <1>6, <1>7
         DEF MonitorThread, start_command, mark_entries, fanotify_monitor_mark_directory,
             opendir, readdir, fanotify_monitor_unmark_directory, mount_idle_cb, kernel

\* Dropped events and refused watches are remembered.
LEMMA LimitedStays == TypeInv /\ [Next]_vars /\ limited => limited'
<1> SUFFICES ASSUME TypeInv, [Next]_vars, limited PROVE limited'
  OBVIOUS
<1>1. CASE UNCHANGED limited
  BY <1>1
<1>2. ASSUME NEW es, Post(es) PROVE limited'
  BY <1>2 DEF Post
<1>3. CASE inotify_monitor_mark_directory
  BY <1>3 DEF inotify_monitor_mark_directory
<1> QED  BY <1>1, <1>2, <1>3
         DEF Next, vars, Programs, Mkdir, Rmdir, Rename, Mount, Umount, MainThread, post_init, main_loop_run, delayed_start_cb,
             MonitorThread, start_command, mark_entries, fanotify_monitor_mark_directory, opendir, readdir,
             inotify_event_process, fanotify_monitor_unmark_directory, inotify_monitor_unmark_directory, mount_idle_cb, kernel

LEMMA NextRemoval ==
    TypeInv /\ TypeInv' /\ (limited \/ RemovalInv) /\ [Next]_vars => limited' \/ RemovalInv'
<1> SUFFICES ASSUME TypeInv, TypeInv', limited \/ RemovalInv, [Next]_vars, ~limited' PROVE RemovalInv'
  OBVIOUS
<1>1. RemovalInv
  BY LimitedStays
<1>2. CASE UNCHANGED <<place, queue, watches>>
  <2>1. \A a, m : Child(a, m)' = Child(a, m)
    BY <1>2, SameChildren
  <2> SUFFICES ASSUME NEW i \in DOMAIN queue, queue[i].kind \notin Creations, queue[i].wd \in DOMAIN watches,
                      Child(watches[queue[i].wd], queue[i].name)' # Nil
               PROVE  ToldAgain(i)'
    BY <1>2 DEF RemovalInv, ToldAgain
  <2>2. PICK a, m : a = watches[queue[i].wd] /\ m = queue[i].name
    OBVIOUS
  <2>3. Child(a, m)' # Nil
    BY <1>2, <2>2
  <2>4. ToldAgain(i)
    BY <1>1, <2>1, <2>2, <2>3, RemovalIs
  <2> QED  BY <1>2, <2>4 DEF ToldAgain
<1>3. CASE MonitorThread
  BY <1>1, <1>3, MonitorRemoval
<1>4. CASE MainThread
  BY <1>2, <1>4 DEF MainThread, post_init, main_loop_run, delayed_start_cb, programs, kernel
<1>5. ASSUME NEW p \in Points, Mount(p) \/ Umount(p) PROVE RemovalInv'
  BY <1>2, <1>5 DEF Mount, Umount
<1>6. CASE UNCHANGED vars
  BY <1>2, <1>6 DEF vars, programs, kernel
<1> QED  BY <1>1, <1>3, <1>4, <1>5, <1>6, MkdirRemoval, RmdirRemoval, RenameRemoval DEF Next, Programs

-----------------------------------------------------------------------------
(* The two tables.                                                         *)

LEMMA LookupPlaced == ASSUME PlaceOK, NEW q \in Seq(Names), Lookup(q) \in Dirs PROVE place[Lookup(q)] # <<>>
<1>1. Lookup(q) # Nil /\ Lookup(q) # Root
  BY DirsAssumption
<1>2. Len(q) \in Nat /\ Len(q) # 0
  BY <1>1, LookupParts, LookupIs, EmptySeq
<1>3. Len(q) \in 1..Len(q)
  BY <1>2
<1>4. PICK d, n : Lookup(q) = Child(d, n)
  BY <1>3, LookupParts
<1>5. place[Lookup(q)] = <<d, n>>
  BY <1>1, <1>4, ChildIs
<1> QED  BY <1>5

\* Paths that led somewhere stay when a directory is made or arrives from outside.
LEMMA MkdirPaths ==
    ASSUME TypeInv, TypeInv', NEW d, NEW n, NEW new \in Dirs, Mkdir(d, n, new)
    PROVE  \A q \in Seq(Names) :
               /\ Lookup(q) # Nil => Lookup(q)' = Lookup(q)
               /\ Lookup(q) = Nil /\ Lookup(q)' # Nil =>
                     \E k \in 1..Len(q) : Lookup(Part(q, k - 1)) = d /\ q[k] = n
<1>1. PlaceOK /\ PlaceOK' /\ TreeInv /\ TreeInv'
  BY DEF TypeInv, FilesOK
<1>2. place' = [place EXCEPT ![new] = <<d, n>>] /\ Child(d, n) = Nil /\ place[new] = <<>>
  BY DEF Mkdir
<1>3. \A q \in Seq(Names) : Lookup(q) # new
  BY <1>1, <1>2, LookupPlaced
<1>4. Placed(new, d, n)
  BY <1>2 DEF Placed
<1> QED  BY <1>1, <1>2, <1>3, <1>4, Arrives

LEMMA RenamePaths ==
    ASSUME TypeInv, TypeInv', NEW d, NEW n, NEW c \in Dirs, Rename(c, d, n), ~moved'
    PROVE  \A q \in Seq(Names) :
               /\ Lookup(q) # Nil => Lookup(q)' = Lookup(q)
               /\ Lookup(q) = Nil /\ Lookup(q)' # Nil =>
                     \E k \in 1..Len(q) : Lookup(Part(q, k - 1)) = d /\ q[k] = n
<1>1. PlaceOK /\ PlaceOK' /\ TreeInv /\ TreeInv'
  BY DEF TypeInv, FilesOK
<1>2. place' = [place EXCEPT ![c] = <<d, n>>] /\ Child(d, n) = Nil /\ Root \notin Above(c)
  BY DEF Rename
<1>3. \A q \in Seq(Names) : Lookup(q) # c
  BY <1>1, <1>2, AboveReaches
<1>4. Placed(c, d, n)
  BY <1>2 DEF Placed
<1> QED  BY <1>1, <1>2, <1>3, <1>4, Arrives

LEMMA RmdirPaths ==
    ASSUME TypeInv, TypeInv', NEW d \in Dirs, Rmdir(d)
    PROVE  \A q \in Seq(Names) : Lookup(q)' = IF Lookup(q) = d THEN Nil ELSE Lookup(q)
<1>1. PlaceOK /\ PlaceOK' /\ TreeInv /\ TreeInv'
  BY DEF TypeInv, FilesOK
<1>2. place' = [place EXCEPT ![d] = <<>>] /\ \A c \in Dirs : place[c] # <<>> => place[c][1] # d
  BY DEF Rmdir
<1> QED  BY <1>1, <1>2, Leaves

\* inotify_add_watch changes no entry of wd2path that has one.
LEMMA SameEntry ==
    ASSUME TypeInv, WatchPath, stack # <<>>, Lookup(Top.path) # Nil
    PROVE  /\ NewWd \in DOMAIN watches => NewWd \in DOMAIN wd2path /\ wd2path[NewWd] = Top.path
           /\ NewWd \notin DOMAIN watches => NewWd = lastWd + 1 /\ NewWd \notin 1..lastWd
           /\ NewWd \in DOMAIN wd2path => wd2path[NewWd] = Top.path
<1>1. Top.path \in Seq(Names)
  BY TopIs DEF TypeInv, Calls
<1>2. ASSUME NewWd \in DOMAIN watches PROVE NewWd \in DOMAIN wd2path /\ wd2path[NewWd] = Top.path
  <2>1. NewWd \in DOMAIN wd2path /\ Lookup(wd2path[NewWd]) = watches[NewWd] /\ watches[NewWd] = Lookup(Top.path)
    BY <1>2, NewWdIs DEF WatchPath, TypeInv
  <2>2. wd2path[NewWd] \in Seq(Names)
    BY <2>1 DEF TypeInv, TableOK
  <2> QED  BY <1>1, <2>1, <2>2, OnePath DEF TypeInv, FilesOK
<1>3. ASSUME NewWd \notin DOMAIN watches PROVE NewWd = lastWd + 1 /\ NewWd \notin 1..lastWd
  <2>1. NewWd = lastWd + 1
    BY <1>3, NewWdIs DEF TypeInv
  <2> QED  BY <2>1 DEF TypeInv, MarkOK
<1> QED  BY <1>2, <1>3 DEF TypeInv, TableOK

LEMMA NextTables ==
    TypeInv /\ TypeInv' /\ (moved \/ (WatchPath /\ TablesInv)) /\ [Next]_vars => moved' \/ (WatchPath' /\ TablesInv')
<1> SUFFICES ASSUME TypeInv, TypeInv', moved \/ (WatchPath /\ TablesInv), [Next]_vars, ~moved'
             PROVE  WatchPath' /\ TablesInv'
  OBVIOUS
<1>1. CASE UNCHANGED <<place, moved, watches, wd2path, path2wd>>
  <2>1. \A q : Lookup(q)' = Lookup(q)
    BY <1>1, SameTree
  <2>2. TablesInv'
    BY <1>1 DEF TablesInv
  <2>3. WatchPath'
    <3> SUFFICES ASSUME NEW w \in DOMAIN watches PROVE w \in DOMAIN wd2path /\ Lookup(wd2path[w])' = watches[w]
      BY <1>1 DEF WatchPath
    <3>1. PICK q : q = wd2path[w]
      OBVIOUS
    <3>2. w \in DOMAIN wd2path /\ Lookup(q) = watches[w]
      BY <1>1, <3>1 DEF WatchPath
    <3>3. Lookup(q)' = Lookup(wd2path[w])'
      BY <1>1, <3>1
    <3> QED  BY <2>1, <3>2, <3>3
  <2> QED  BY <2>2, <2>3
\* The paths of the watched directories are the same, or those of other directories went.
<1>2. ASSUME UNCHANGED <<wd2path, path2wd>>, ~moved,
             \A w \in DOMAIN watches' : w \in DOMAIN watches /\ watches'[w] = watches[w],
             \A q \in Seq(Names), w \in DOMAIN watches' : Lookup(q) = watches[w] => Lookup(q)' = watches[w]
      PROVE  WatchPath' /\ TablesInv'
  <2>1. TablesInv'
    BY <1>2 DEF TablesInv
  <2>2. WatchPath'
    <3> SUFFICES ASSUME NEW w \in DOMAIN watches' PROVE w \in DOMAIN wd2path' /\ Lookup(wd2path[w])' = watches'[w]
      BY DEF WatchPath
    <3>1. PICK q : q = wd2path[w]
      OBVIOUS
    <3>2. w \in DOMAIN wd2path /\ Lookup(q) = watches[w] /\ q \in Seq(Names)
      BY <1>2, <3>1 DEF WatchPath, TypeInv, TableOK
    <3>3. Lookup(q)' = Lookup(wd2path[w])'
      BY <1>2, <3>1
    <3> QED  BY <1>2, <3>2, <3>3
  <2> QED  BY <2>1, <2>2
<1>3. ASSUME NEW d, NEW n, NEW new \in Dirs, Mkdir(d, n, new) PROVE WatchPath' /\ TablesInv'
  <2>1. UNCHANGED <<wd2path, path2wd, watches, moved>>
    BY <1>3 DEF Mkdir, monitor, tables
  <2>2. \A w \in DOMAIN watches : watches[w] # Nil
    BY DirsAssumption DEF TypeInv, MarkOK
  <2>3. \A q \in Seq(Names) : Lookup(q) # Nil => Lookup(q)' = Lookup(q)
    BY <1>3, MkdirPaths
  <2> QED  BY <1>2, <2>1, <2>2, <2>3
<1>4. ASSUME NEW d, NEW n, NEW c \in Dirs, Rename(c, d, n) PROVE WatchPath' /\ TablesInv'
  <2>1. UNCHANGED <<wd2path, path2wd, watches>> /\ ~moved
    BY <1>4 DEF Rename, monitor, tables
  <2>2. \A w \in DOMAIN watches : watches[w] # Nil
    BY DirsAssumption DEF TypeInv, MarkOK
  <2>3. \A q \in Seq(Names) : Lookup(q) # Nil => Lookup(q)' = Lookup(q)
    BY <1>4, RenamePaths
  <2> QED  BY <1>2, <2>1, <2>2, <2>3
<1>5. ASSUME NEW d \in Dirs, Rmdir(d) PROVE WatchPath' /\ TablesInv'
  <2>1. /\ UNCHANGED <<wd2path, path2wd, moved>>
        /\ \A w \in DOMAIN watches' : w \in DOMAIN watches /\ watches'[w] = watches[w] /\ watches[w] # d
    BY <1>5 DEF Rmdir, WatchesOf, monitor, tables
  <2>2. \A q \in Seq(Names) : Lookup(q)' = IF Lookup(q) = d THEN Nil ELSE Lookup(q)
    BY <1>5, RmdirPaths
  <2> QED  BY <1>2, <2>1, <2>2
<1>6. CASE inotify_monitor_mark_directory /\ Watched
  <2> USE <1>6 DEF Watched
  <2>1. place' = place /\ moved' = moved /\ stack # <<>>
    BY InotifyIs DEF programs
  <2>2. WatchPath /\ TablesInv
    BY <2>1
  <2>3. \A q : Lookup(q)' = Lookup(q)
    BY <2>1, SameTree
  <2>4. /\ NewWd \in DOMAIN watches => NewWd \in DOMAIN wd2path /\ wd2path[NewWd] = Top.path
        /\ NewWd \notin DOMAIN watches => NewWd = lastWd + 1 /\ NewWd \notin 1..lastWd
        /\ NewWd \in DOMAIN wd2path => wd2path[NewWd] = Top.path
    BY <2>1, <2>2, SameEntry
  <2>5. WatchPath'
    <3> SUFFICES ASSUME NEW w \in DOMAIN watches' PROVE w \in DOMAIN wd2path' /\ Lookup(wd2path[w])' = watches'[w]
      BY DEF WatchPath
    <3>1. PICK q : q = wd2path'[w]
      OBVIOUS
    <3>2. w \in DOMAIN wd2path' /\ Lookup(q) = watches'[w]
      <4>1. CASE w = NewWd
        BY <3>1, <4>1
      <4>2. CASE w # NewWd
        BY <2>2, <3>1, <4>2 DEF WatchPath
      <4> QED  BY <4>1, <4>2
    <3>3. Lookup(q)' = Lookup(wd2path[w])'
      BY <3>1
    <3> QED  BY <2>3, <3>2, <3>3
  <2>6. TablesInv'
    <3> SUFFICES ASSUME NEW p \in DOMAIN path2wd', path2wd'[p] \in DOMAIN wd2path' PROVE wd2path'[path2wd'[p]] = p
      BY DEF TablesInv
    <3>1. CASE p = Top.path
      BY <3>1
    <3>2. CASE p # Top.path
      <4>1. p \in DOMAIN path2wd /\ path2wd'[p] = path2wd[p] /\ path2wd[p] \in 1..lastWd
        BY <3>2 DEF TypeInv, TableOK
      <4>2. path2wd[p] # NewWd
        BY <2>2, <2>4, <3>2, <4>1 DEF TablesInv
      <4> QED  BY <2>2, <4>1, <4>2 DEF TablesInv
    <3> QED  BY <3>1, <3>2
  <2> QED  BY <2>5, <2>6
<1>7. CASE inotify_monitor_mark_directory /\ UNCHANGED <<watches, tables>>
  BY <1>1, <1>7, InotifyIs DEF programs, tables
<1>8. CASE inotify_monitor_unmark_directory
  <2>1. PICK wds : /\ watches' = [w \in DOMAIN watches \ wds |-> watches[w]]
                   /\ wd2path' = [w \in DOMAIN wd2path \ wds |-> wd2path[w]]
    BY <1>8 DEF inotify_monitor_unmark_directory
  <2>2. path2wd' = [p \in DOMAIN path2wd \ {Top.path} |-> path2wd[p]] /\ place' = place /\ moved' = moved
    BY <1>8 DEF inotify_monitor_unmark_directory, programs
  <2>3. \A q : Lookup(q)' = Lookup(q)
    BY <2>2, SameTree
  <2>4. TablesInv'
    BY <2>1, <2>2 DEF TablesInv
  <2>5. WatchPath'
    <3> SUFFICES ASSUME NEW w \in DOMAIN watches' PROVE w \in DOMAIN wd2path' /\ Lookup(wd2path[w])' = watches'[w]
      BY DEF WatchPath
    <3>1. PICK q : q = wd2path'[w]
      OBVIOUS
    <3>2. w \in DOMAIN wd2path' /\ Lookup(q) = watches'[w]
      BY <2>1, <2>2, <3>1 DEF WatchPath
    <3>3. Lookup(q)' = Lookup(wd2path[w])'
      BY <3>1
    <3> QED  BY <2>3, <3>2, <3>3
  <2> QED  BY <2>4, <2>5
<1>9. CASE MainThread \/ UNCHANGED vars
  BY <1>1, <1>9 DEF MainThread, post_init, main_loop_run, delayed_start_cb, vars, programs, kernel, monitor, tables
<1>10. ASSUME NEW p \in Points, Mount(p) \/ Umount(p) PROVE WatchPath' /\ TablesInv'
  BY <1>1, <1>10 DEF Mount, Umount, monitor, tables
<1>11. CASE \/ start_command \/ mark_entries \/ fanotify_monitor_mark_directory \/ opendir \/ readdir
            \/ inotify_event_process \/ fanotify_monitor_unmark_directory \/ mount_idle_cb
  BY <1>1, <1>11 DEF start_command, mark_entries, fanotify_monitor_mark_directory, opendir, readdir, inotify_event_process,
         fanotify_monitor_unmark_directory, mount_idle_cb, programs, kernel, tables
<1>12. CASE MonitorThread
  BY <1>6, <1>7, <1>8, <1>11, <1>12, InotifyIs DEF MonitorThread
<1> QED  BY <1>3, <1>4, <1>5, <1>9, <1>10, <1>12 DEF Next, Programs

-----------------------------------------------------------------------------
(* What exists is told, reached or followed.                               *)

LEMMA ToldBelow == \A q \in Seq(Names) : \A k \in 0..Len(q) : Told(Part(q, k)) => Told(q)
<1> SUFFICES ASSUME NEW q \in Seq(Names), NEW k \in 0..Len(q), Told(Part(q, k)) PROVE Told(q)
  OBVIOUS
<1>1. /\ Len(Part(q, k)) = k /\ \A i \in 1..k : Part(q, k)[i] = q[i]
      /\ \A j \in 0..k : Part(Part(q, k), j) = Part(q, j)
  BY PartIs
<1>2. PICK j \in DOMAIN queue, m \in 1..k :
        /\ queue[j].kind \in Creations /\ queue[j].wd \in DOMAIN wd2path
        /\ wd2path[queue[j].wd] = Part(Part(q, k), m - 1) /\ queue[j].name = Part(q, k)[m]
  BY <1>1 DEF Told
<1>3. m - 1 \in 0..k /\ m \in 1..Len(q)
  OBVIOUS
<1> QED  BY <1>1, <1>2, <1>3 DEF Told

LEMMA EntersBelow ==
    ASSUME NEW c, NEW q \in Seq(Names), NEW k \in 0..Len(q) - 1, Enters(c, Part(q, k)) \/ Marks(c, Part(q, k))
    PROVE  Enters(c, q)
<1> DEFINE p == Part(q, k)
<1>1. Len(q) \in Nat /\ k \in 0..Len(q)
  OBVIOUS
<1>2. /\ Len(p) = k /\ \A i \in 1..k : p[i] = q[i]
      /\ \A j \in 0..k : Part(p, j) = Part(q, j)
  BY <1>1, PartIs
<1> HIDE DEF p
<1>3. CASE Marks(c, p)
  BY <1>3 DEF Marks, Enters, p
<1>4. CASE c.at = "fan" /\ \E j \in 0..Len(p) : c.path = Part(p, j)
  <2>1. PICK j \in 0..k : c.path = Part(q, j)
    BY <1>2, <1>4
  <2>2. j \in 0..Len(q)
    BY <1>1
  <2> QED  BY <1>4, <2>1, <2>2 DEF Enters
<1>5. CASE c.at \in {"ino", "open"} /\ \E j \in 0..Len(p) - 1 : c.path = Part(p, j)
  <2>1. PICK j \in 0..k - 1 : c.path = Part(p, j)
    BY <1>2, <1>5
  <2>2. j \in 0..k /\ j \in 0..Len(q) - 1
    BY <1>1
  <2> QED  BY <1>2, <1>5, <2>1, <2>2 DEF Enters
<1>6. CASE c.at = "read" /\ \E j \in 1..Len(p) : c.path = Part(p, j - 1) /\ p[j] \in c.names
  <2>1. PICK j \in 1..k : c.path = Part(p, j - 1) /\ p[j] \in c.names
    BY <1>2, <1>6
  <2>2. j - 1 \in 0..k /\ j \in 1..Len(q)
    BY <1>1
  <2> QED  BY <1>2, <1>6, <2>1, <2>2 DEF Enters
<1>7. Enters(c, p) \/ Marks(c, p)
  BY DEF p
<1> QED  BY <1>3, <1>4, <1>5, <1>6, <1>7 DEF Enters

\* What was told stays told when events are added.
LEMMA ToldStays ==
    ASSUME QueueOK, NEW es \in Seq(Events), queue' = queue \o es, wd2path' = wd2path, NEW q
    PROVE  /\ Told(q) => Told(q)'
           /\ \A k \in DOMAIN es, m \in 1..Len(q) :
                 /\ es[k].kind \in Creations /\ es[k].wd \in DOMAIN wd2path
                 /\ wd2path[es[k].wd] = Part(q, m - 1) /\ es[k].name = q[m]
                 => Told(q)'
<1>1. queue \in Seq(Events)
  BY DEF QueueOK
<1>2. /\ DOMAIN queue = 1..Len(queue) /\ DOMAIN es = 1..Len(es) /\ DOMAIN queue' = 1..Len(queue')
      /\ \A k \in 1..Len(queue) : k \in 1..Len(queue') /\ queue'[k] = queue[k]
      /\ \A k \in 1..Len(es) : Len(queue) + k \in 1..Len(queue') /\ queue'[Len(queue) + k] = es[k]
  BY <1>1, AddedAt
<1>3. Told(q) => Told(q)'
  BY <1>2 DEF Told, Part
<1>4. ASSUME NEW k \in DOMAIN es, NEW m \in 1..Len(q), es[k].kind \in Creations, es[k].wd \in DOMAIN wd2path,
             wd2path[es[k].wd] = Part(q, m - 1), es[k].name = q[m]
      PROVE  Told(q)'
  <2>1. Len(queue) + k \in DOMAIN queue' /\ queue'[Len(queue) + k] = es[k]
    BY <1>2
  <2> QED  BY <1>4, <2>1 DEF Told, Part
<1> QED  BY <1>3, <1>4

\* Paths stay, and a new one goes through the place <<d, n>>.
NewThrough(d, n) ==
    \A q \in Seq(Names) :
        /\ Lookup(q) # Nil => Lookup(q)' = Lookup(q)
        /\ Lookup(q) = Nil /\ Lookup(q)' # Nil =>
              \E k \in 1..Len(q) : Lookup(Part(q, k - 1)) = d /\ q[k] = n

\* The events es tell of it.
Tells(es, d, n) ==
    \A w \in DOMAIN watches : watches[w] = d =>
        \E k \in DOMAIN es : es[k].kind \in Creations /\ es[k].wd = w /\ es[k].name = n

\* A directory gets the place <<d, n>>: if its directory is followed, an event tells of it.
LEMMA ArrivalFollowed ==
    ASSUME TypeInv, WatchPath, FollowInv, UnmarkInv,
           NEW es \in Seq(Events), queue' = queue \o es,
           UNCHANGED <<fanMarks, watches, wd2path, stack, status, todo>>,
           NEW d, d # Nil, NEW n, NewThrough(d, n), Tells(es, d, n)
    PROVE  FollowInv' /\ UnmarkInv'
<1>1. ASSUME NEW q \in Seq(Names), Lookup(q) = Nil, Lookup(q)' # Nil, Started
      PROVE  Told(q)' \/ \E i \in DOMAIN stack : Enters(stack[i], q)
  <2>1. PICK k \in 1..Len(q) : Lookup(Part(q, k - 1)) = d /\ q[k] = n
    BY <1>1 DEF NewThrough
  <2> DEFINE p == Part(q, k - 1)
  <2>2. k - 1 \in 0..Len(q) /\ k - 1 \in 0..Len(q) - 1 /\ p \in Seq(Names)
    <3>1. k - 1 \in 0..Len(q) /\ k - 1 \in 0..Len(q) - 1
      OBVIOUS
    <3> QED  BY <3>1, PartIs
  <2>3. Told(p) \/ Reached(p) \/ Followed(p)
    BY <1>1, <2>1, <2>2 DEF FollowInv
  <2>4. CASE Told(p)
    BY <2>2, <2>4, ToldBelow, ToldStays DEF TypeInv
  <2>5. CASE Reached(p)
    <3>1. PICK i \in DOMAIN stack : Enters(stack[i], p) \/ Marks(stack[i], p)
      BY <2>5 DEF Reached
    <3>2. Enters(stack[i], q)
      BY <2>2, <3>1, EntersBelow
    <3> QED  BY <3>2
  <2>6. CASE Followed(p)
    <3>1. PICK w \in DOMAIN watches : watches[w] = d /\ wd2path[w] = p
      BY <2>1, <2>6 DEF Followed, WatchesOf
    <3>2. w \in DOMAIN wd2path
      BY DEF WatchPath
    <3>3. PICK j \in DOMAIN es : es[j].kind \in Creations /\ es[j].wd = w /\ es[j].name = n
      BY <3>1 DEF Tells
    <3> QED  BY <2>1, <3>1, <3>2, <3>3, ToldStays DEF TypeInv
  <2> QED  BY <2>3, <2>4, <2>5, <2>6
<1>2. \A q : Told(q) => Told(q)'
  BY ToldStays DEF TypeInv
<1>3. FollowInv'
  <2> SUFFICES ASSUME Started', NEW q \in Seq(Names), Lookup(q)' # Nil
               PROVE  Told(q)' \/ Reached(q)' \/ Followed(q)'
    BY DEF FollowInv
  <2>1. Started
    BY DEF Started
  <2>2. CASE Lookup(q) = Nil
    <3>1. (\E i \in DOMAIN stack : Enters(stack[i], q)) => Reached(q)'
      BY DEF Reached, Enters, Part
    <3> QED  BY <1>1, <2>1, <2>2, <3>1
  <2>3. CASE Lookup(q) # Nil
    <3>1. Lookup(q)' = Lookup(q)
      BY <2>3 DEF NewThrough
    <3>2. Reached(q) => Reached(q)'
      BY <3>1 DEF Reached, Enters, Marks, Part
    <3>3. Followed(q) => Followed(q)'
      BY <3>1 DEF Followed, WatchesOf
    <3> QED  BY <1>2, <2>1, <2>3, <3>2, <3>3 DEF FollowInv
  <2> QED  BY <2>2, <2>3
<1>4. UnmarkInv'
  <2> SUFFICES ASSUME NEW i \in DOMAIN stack, stack[i].at \in {"unfan", "unino"}, NEW q, q = stack[i].path, Lookup(q)' # Nil
               PROVE  Told(q)'
    <3>1. ASSUME NEW i \in DOMAIN stack', stack'[i].at \in {"unfan", "unino"}, Lookup(stack[i].path)' # Nil
          PROVE  Told(stack[i].path)'
      <4>1. PICK q : q = stack[i].path
        OBVIOUS
      <4>2. Lookup(q)' = Lookup(stack[i].path)' /\ (Told(q)' <=> Told(stack[i].path)')
        BY <4>1
      <4> QED  BY <3>1, <4>1, <4>2
    <3> QED  BY <3>1 DEF UnmarkInv
  <2>1. stack \in Seq(Calls) /\ stack # <<>> /\ Started /\ i \in 1..Len(stack)
    BY DEF TypeInv, CallOK
  <2>2. Len(stack) = 1 /\ q \in Seq(Names)
    <3>1. Len(stack) = 1
      BY <2>1 DEF TypeInv, CallOK
    <3>2. stack[i] \in Calls
      BY <2>1
    <3> QED  BY <3>1, <3>2 DEF Calls
  <2>3. CASE Lookup(q) # Nil
    BY <1>2, <2>3 DEF UnmarkInv
  <2>4. CASE Lookup(q) = Nil
    <3>1. \A j \in DOMAIN stack : stack[j].at \in {"unfan", "unino"}
      BY <2>1, <2>2
    <3> QED  BY <1>1, <2>1, <2>2, <2>4, <3>1 DEF Enters
  <2> QED  BY <2>3, <2>4
<1> QED  BY <1>3, <1>4

LEMMA MkdirFollow ==
    ASSUME TypeInv, TypeInv', WatchPath, FollowInv, UnmarkInv, ~limited',
           NEW d \in Dirs \cup {Root, Outside}, NEW n \in Names, NEW new \in Dirs, Mkdir(d, n, new)
    PROVE  FollowInv' /\ UnmarkInv'
<1> USE DEF TypeInv
<1> DEFINE es == Event("CREATE", d, n)
<1>1. "CREATE" \in Kinds /\ "CREATE" \in Creations /\ d # Nil
  BY DirsAssumption DEF Kinds, Creations
<1>2. es \in Seq(Events)
  BY <1>1, EventIs
<1>3. queue' = queue \o es
  BY <1>2, PostIs DEF Mkdir
<1>4. UNCHANGED <<fanMarks, watches, wd2path, stack, status, todo>>
  BY DEF Mkdir, monitor, tables
<1>5. Tells(es, d, n)
  <2>1. \A w \in DOMAIN watches : watches[w] = d =>
            \E k \in DOMAIN es : es[k].kind = "CREATE" /\ es[k].wd = w /\ es[k].name = n
    <3>1. "CREATE" \in Kinds /\ MarkOK
      BY <1>1
    <3>2. ASSUME NEW w \in DOMAIN watches, watches[w] = d
          PROVE  \E k \in DOMAIN es : es[k].kind = "CREATE" /\ es[k].wd = w /\ es[k].name = n
      BY ONLY <3>1, <3>2, n \in Names, EventAt
    <3> QED  BY <3>2
  <2> HIDE DEF es
  <2> QED  BY <1>1, <2>1 DEF Tells
<1>6. NewThrough(d, n)
  BY MkdirPaths DEF NewThrough
<1> HIDE DEF es, TypeInv
<1> QED  BY <1>1, <1>2, <1>3, <1>4, <1>5, <1>6, ArrivalFollowed

LEMMA RenameFollow ==
    ASSUME TypeInv, TypeInv', WatchPath, FollowInv, UnmarkInv, ~limited', ~moved',
           NEW d \in Dirs \cup {Root, Outside}, NEW n \in Names, NEW c \in Dirs, Rename(c, d, n)
    PROVE  FollowInv' /\ UnmarkInv'
<1> USE DEF TypeInv
<1>0. PICK p \in Dirs \cup {Root, Outside}, o \in Names : place[c] = <<p, o>>
  BY DEF Rename, FilesOK, PlaceOK, Places
<1> DEFINE es1 == Event("MOVED_FROM", p, o)
           es2 == Event("MOVED_TO", d, n)
           es == es1 \o es2
<1>1. /\ "MOVED_FROM" \in Kinds /\ "MOVED_TO" \in Kinds /\ "MOVED_TO" \in Creations /\ d # Nil
      /\ place[c][1] = p /\ place[c][2] = o
  BY <1>0, DirsAssumption DEF Kinds, Creations
<1>2. es1 \in Seq(Events) /\ es2 \in Seq(Events)
  BY <1>1, EventIs
<1>3. es \in Seq(Events)
  BY <1>2, ConcatProperties
<1>4. queue' = queue \o es
  BY <1>1, <1>3, PostIs DEF Rename
<1>5. UNCHANGED <<fanMarks, watches, wd2path, stack, status, todo>>
  BY DEF Rename, monitor, tables
<1>6. \A w \in DOMAIN watches : watches[w] = d =>
          \E k \in DOMAIN es2 : es2[k].kind = "MOVED_TO" /\ es2[k].wd = w /\ es2[k].name = n
  <2>1. "MOVED_TO" \in Kinds
    BY <1>1
  <2> QED  BY ONLY MarkOK, <2>1, n \in Names, EventAt
<1> HIDE DEF es1, es2
<1>7. \A k \in DOMAIN es2 : \E j \in DOMAIN es : es[j] = es2[k]
  <2>1. es = es1 \o es2
    OBVIOUS
  <2> HIDE DEF es
  <2>2. /\ DOMAIN es = 1..Len(es) /\ DOMAIN es2 = 1..Len(es2)
        /\ \A k \in 1..Len(es2) : Len(es1) + k \in 1..Len(es) /\ es[Len(es1) + k] = es2[k]
    BY <1>2, <2>1, AddedAt
  <2> QED  BY <2>2
<1> HIDE DEF es
<1>8. Tells(es, d, n)
  BY <1>1, <1>6, <1>7 DEF Tells
<1>9. NewThrough(d, n)
  BY RenamePaths DEF NewThrough
<1> HIDE DEF TypeInv
<1> QED  BY <1>1, <1>3, <1>4, <1>5, <1>8, <1>9, ArrivalFollowed

\* The call that unmarks q is the only one.
LEMMA UnmarkNext ==
    ASSUME \A i \in DOMAIN stack' : \A q : stack'[i].at \in {"unfan", "unino"} /\ q = stack'[i].path /\ Lookup(q)' # Nil => Told(q)'
    PROVE  UnmarkInv'
<1>1. ASSUME NEW i \in DOMAIN stack', stack'[i].at \in {"unfan", "unino"}, Lookup(stack[i].path)' # Nil
      PROVE  Told(stack[i].path)'
  <2>1. PICK q : q = stack'[i].path
    OBVIOUS
  <2>2. Lookup(q)' = Lookup(stack[i].path)' /\ (Told(q)' <=> Told(stack[i].path)')
    BY <2>1
  <2> QED  BY <1>1, <2>1, <2>2
<1> QED  BY <1>1 DEF UnmarkInv

\* Directories go, or nothing happens.
LEMMA FewerFollow ==
    ASSUME TypeInv, FollowInv, UnmarkInv, Started' => Started,
           \A q : Told(q) => Told(q)', UNCHANGED <<stack, wd2path>>,
           \A q \in Seq(Names) : Lookup(q)' # Nil =>
               /\ Lookup(q)' = Lookup(q)
               /\ Lookup(q) \in fanMarks => Lookup(q) \in fanMarks'
               /\ \A w \in DOMAIN watches : watches[w] = Lookup(q) => w \in DOMAIN watches' /\ watches'[w] = Lookup(q)
    PROVE  FollowInv' /\ UnmarkInv'
<1>1. FollowInv'
  <2> SUFFICES ASSUME Started', NEW q \in Seq(Names), Lookup(q)' # Nil
               PROVE  Told(q)' \/ Reached(q)' \/ Followed(q)'
    BY DEF FollowInv
  <2>1. Told(q) \/ Reached(q) \/ Followed(q)
    BY DEF FollowInv
  <2>2. Reached(q) => Reached(q)'
    BY DEF Reached, Enters, Marks, Part
  <2>3. Followed(q) => Followed(q)'
    BY DEF Followed, WatchesOf
  <2> QED  BY <2>1, <2>2, <2>3
<1>2. UnmarkInv'
  <2> SUFFICES ASSUME NEW i \in DOMAIN stack', NEW q, stack'[i].at \in {"unfan", "unino"}, q = stack'[i].path, Lookup(q)' # Nil
               PROVE  Told(q)'
    BY UnmarkNext
  <2>1. stack[i] \in Calls
    BY DEF TypeInv, CallOK
  <2>2. q \in Seq(Names)
    BY <2>1 DEF Calls
  <2> QED  BY <2>2 DEF UnmarkInv
<1> QED  BY <1>1, <1>2

LEMMA RmdirFollow ==
    ASSUME TypeInv, TypeInv', FollowInv, UnmarkInv, ~limited', NEW d \in Dirs, Rmdir(d)
    PROVE  FollowInv' /\ UnmarkInv'
<1>0. PICK p \in Dirs \cup {Root, Outside}, n \in Names : place[d] = <<p, n>>
  BY DEF Rmdir, TypeInv, FilesOK, PlaceOK, Places
<1> DEFINE es == Event("DELETE", p, n)
<1>1. "DELETE" \in Kinds /\ place[d][1] = p /\ place[d][2] = n
  BY <1>0 DEF Kinds
<1>2. es \in Seq(Events)
  BY <1>1, EventIs DEF TypeInv
<1>3. queue' = queue \o es
  BY <1>1, <1>2, PostIs DEF Rmdir, TypeInv
<1>4. UNCHANGED <<wd2path, stack, status, todo>>
  BY DEF Rmdir, monitor, tables
<1> HIDE DEF es
<1>5. \A q : Told(q) => Told(q)'
  BY <1>2, <1>3, <1>4, ToldStays DEF TypeInv
<1>6. \A q \in Seq(Names) : Lookup(q)' = IF Lookup(q) = d THEN Nil ELSE Lookup(q)
  BY RmdirPaths
<1>7. /\ fanMarks' = fanMarks \ {d}
      /\ \A w \in DOMAIN watches : watches[w] # d => w \in DOMAIN watches' /\ watches'[w] = watches[w]
  BY DEF Rmdir, WatchesOf
<1>8. Started' => Started
  BY <1>4 DEF Started
<1> QED  BY <1>4, <1>5, <1>6, <1>7, <1>8, FewerFollow

LEMMA SameFollow ==
    ASSUME TypeInv, FollowInv, UnmarkInv, UNCHANGED <<place, fanMarks, watches, queue, stack, wd2path>>, Started' => Started
    PROVE  FollowInv' /\ UnmarkInv'
<1>1. \A q : Lookup(q)' = Lookup(q)
  BY SameTree
<1>2. \A q : Told(q) => Told(q)'
  BY DEF Told, Part
<1> QED  BY <1>1, <1>2, FewerFollow

\* A step of a call that marks leaves the calls below it, and unmarks nothing.
LEMMA BelowTop ==
    ASSUME CallOK, CallOK', stack # <<>>, Len(stack') >= Len(stack) - 1,
           \A i \in 1..Len(stack) - 1 : stack'[i] = stack[i],
           NEW q, Reached(q)
    PROVE  Reached(q)' \/ Enters(Top, q) \/ Marks(Top, q)
<1>1. /\ stack \in Seq(Calls) /\ stack' \in Seq(Calls) /\ Len(stack) \in Nat /\ Top = stack[Len(stack)]
      /\ DOMAIN stack = 1..Len(stack) /\ DOMAIN stack' = 1..Len(stack') /\ Len(stack') \in Nat
  <2>1. stack \in Seq(Calls) /\ stack' \in Seq(Calls)
    BY DEF CallOK, Calls
  <2> QED  BY <2>1, TopIs
<1>2. PICK i \in 1..Len(stack) : Enters(stack[i], q) \/ Marks(stack[i], q)
  BY <1>1 DEF Reached
<1>3. CASE i = Len(stack)
  BY <1>1, <1>2, <1>3
<1>4. CASE i \in 1..Len(stack) - 1
  <2>1. stack[i].at = "read" /\ stack'[i] = stack[i] /\ i \in DOMAIN stack'
    BY <1>1, <1>4 DEF CallOK
  <2>2. Enters(stack[i], q)
    BY <1>2, <2>1 DEF Marks
  <2>3. Enters(stack[i], q)'
    BY <2>1, <2>2 DEF Enters, Part
  <2> QED  BY <2>1, <2>3 DEF Reached
<1>5. i = Len(stack) \/ i \in 1..Len(stack) - 1
  <2>1. Len(stack) \in Nat /\ i \in 1..Len(stack)
    BY <1>1
  <2>2. ASSUME NEW m \in Nat, NEW j \in 1..m PROVE j = m \/ j \in 1..m - 1
    OBVIOUS
  <2> QED  BY ONLY <2>1, <2>2
<1> QED  BY <1>3, <1>4, <1>5

LEMMA NoUnmark ==
    ASSUME \A i \in DOMAIN stack' : stack'[i].at \notin {"unfan", "unino"}
    PROVE  UnmarkInv'
BY DEF UnmarkInv

\* The call at the top comes to q after the step.
LEMMA TopReaches ==
    ASSUME CallOK', NEW i \in 1..Len(stack'), NEW c, c = stack'[i], NEW q, Enters(c, q)
    PROVE  Reached(q)'
<1>1. i \in DOMAIN stack'
  BY DEF CallOK
<1>2. Enters(stack[i], q)'
  BY DEF Enters, Part
<1> QED  BY <1>1, <1>2 DEF Reached

LEMMA TopMarks ==
    ASSUME CallOK', NEW i \in 1..Len(stack'), NEW q, stack'[i].at = "ino", stack'[i].path = q, Lookup(q)' \in fanMarks'
    PROVE  Reached(q)'
<1>1. i \in DOMAIN stack'
  BY DEF CallOK
<1>2. Marks(stack[i], q)'
  BY DEF Marks
<1> QED  BY <1>1, <1>2 DEF Reached

LEMMA FanFollow ==
    ASSUME TypeInv, TypeInv', FollowInv, fanotify_monitor_mark_directory
    PROVE  FollowInv' /\ UnmarkInv'
<1> USE DEF TypeInv
<1> DEFINE L == Len(stack)
           d == Lookup(Top.path)
<1>1. /\ UNCHANGED <<watches, queue, programs, status, todo, tables>> /\ stack # <<>> /\ Top.at = "fan"
      /\ fanMarks \subseteq fanMarks'
  BY DEF fanotify_monitor_mark_directory, At
<1>2. \A q : Lookup(q)' = Lookup(q)
  BY <1>1, SameTree DEF programs
<1>3. PICK step \in {"ino", "open"} : /\ stack' = GoOn(step) /\ (d # Nil => step = "ino" /\ d \in fanMarks')
  BY DEF fanotify_monitor_mark_directory
<1>4. /\ stack' \in Seq(Calls) /\ Len(stack') = L /\ L \in Nat /\ L \in 1..L /\ L >= 1
      /\ stack'[L] = [at |-> step, path |-> Top.path, names |-> Top.names]
      /\ \A i \in 1..L - 1 : stack'[i] = stack[i] /\ stack[i].at = "read"
  <2>1. step \in CallSteps
    BY DEF CallSteps
  <2> QED  BY <1>1, <1>3, <2>1, GoOnIs, TopIs
<1>5. stack'[L].at = step /\ stack'[L].path = Top.path /\ DOMAIN stack' = 1..L
  <2>1. stack'[L].at = step /\ stack'[L].path = Top.path
    BY <1>4
  <2> QED  BY <1>4, <2>1
<1> HIDE DEF L, d
<1>6. UnmarkInv'
  <2>1. \A i \in 1..L : i = L \/ i \in 1..L - 1
    BY <1>4
  <2> QED  BY <1>4, <1>5, <2>1, NoUnmark
<1>7. FollowInv'
  <2> SUFFICES ASSUME Started', NEW q \in Seq(Names), Lookup(q)' # Nil
               PROVE  Told(q)' \/ Reached(q)' \/ Followed(q)'
    BY DEF FollowInv
  <2>1. Lookup(q) # Nil /\ Started
    BY <1>1, <1>2 DEF Started
  <2>2. Told(q) => Told(q)'
    BY <1>1 DEF Told, Part, tables
  <2>3. Followed(q) => Followed(q)'
    BY <1>1, <1>2 DEF Followed, WatchesOf, tables
  <2>4. CASE Enters(Top, q) \/ Marks(Top, q)
    <3>1. PICK k \in 0..Len(q) : Top.path = Part(q, k)
      BY <1>1, <2>4 DEF Enters, Marks
    <3>2. CASE k = Len(q)
      <4>1. Top.path = q /\ d # Nil
        BY <2>1, <3>1, <3>2, PartIs DEF d
      <4>2. stack'[L].at = "ino" /\ stack'[L].path = q /\ Lookup(q)' \in fanMarks'
        BY <1>2, <1>3, <1>5, <4>1 DEF d
      <4> QED  BY <1>4, <4>2, TopMarks
    <3>3. CASE k # Len(q)
      <4>1. k \in 0..Len(q) - 1
        BY <3>3
      <4>2. Enters(stack'[L], q)
        BY <1>5, <3>1, <4>1 DEF Enters
      <4> QED  BY <1>4, <4>2, TopReaches
    <3> QED  BY <3>2, <3>3
  <2>5. Reached(q) => Reached(q)' \/ Enters(Top, q) \/ Marks(Top, q)
    BY <1>1, <1>4, BelowTop DEF L
  <2> QED  BY <2>1, <2>2, <2>3, <2>4, <2>5 DEF FollowInv
<1> QED  BY <1>6, <1>7

LEMMA InoFollow ==
    ASSUME TypeInv, TypeInv', WatchPath, FollowInv, ~limited', inotify_monitor_mark_directory
    PROVE  FollowInv' /\ UnmarkInv'
<1> USE DEF TypeInv
<1> DEFINE L == Len(stack)
           d == Lookup(Top.path)
<1>1. /\ UNCHANGED <<fanMarks, queue, programs, status, todo>> /\ stack # <<>> /\ Top.at = "ino"
      /\ stack' = GoOn("open")
      /\ (Watched \/ (d = Nil /\ UNCHANGED <<watches, lastWd, tables>>))
  BY InotifyIs
<1>2. \A q : Lookup(q)' = Lookup(q)
  BY <1>1, SameTree DEF programs
<1>3. /\ stack' \in Seq(Calls) /\ Len(stack') = L /\ L \in Nat /\ L \in 1..L /\ L >= 1
      /\ stack'[L] = [at |-> "open", path |-> Top.path, names |-> Top.names]
      /\ \A i \in 1..L - 1 : stack'[i] = stack[i] /\ stack[i].at = "read"
  <2>1. "open" \in CallSteps
    BY DEF CallSteps
  <2> QED  BY <1>1, <2>1, GoOnIs, TopIs
<1>4. stack'[L].at = "open" /\ stack'[L].path = Top.path /\ DOMAIN stack' = 1..L
  <2>1. stack'[L].at = "open" /\ stack'[L].path = Top.path
    BY <1>3
  <2> QED  BY <1>3, <2>1
\* No entry and no watch is lost.
<1>5. /\ \A w \in DOMAIN wd2path : w \in DOMAIN wd2path' /\ wd2path'[w] = wd2path[w]
      /\ \A w \in DOMAIN watches : w \in DOMAIN watches' /\ watches'[w] = watches[w]
  <2>1. CASE Watched
    <3>1. /\ NewWd \in DOMAIN watches => watches[NewWd] = d
          /\ NewWd \in DOMAIN wd2path => wd2path[NewWd] = Top.path
      BY <1>1, <2>1, NewWdIs, SameEntry DEF Watched
    <3> QED  BY <2>1, <3>1 DEF Watched
  <2> QED  BY <1>1, <2>1 DEF tables
<1> HIDE DEF L, d
<1>6. UnmarkInv'
  <2>1. \A i \in 1..L : i = L \/ i \in 1..L - 1
    BY <1>3
  <2> QED  BY <1>3, <1>4, <2>1, NoUnmark
<1>7. FollowInv'
  <2> SUFFICES ASSUME Started', NEW q \in Seq(Names), Lookup(q)' # Nil
               PROVE  Told(q)' \/ Reached(q)' \/ Followed(q)'
    BY DEF FollowInv
  <2>1. Lookup(q) # Nil /\ Started
    BY <1>1, <1>2 DEF Started
  <2>2. Told(q) => Told(q)'
    BY <1>1, <1>5 DEF Told, Part
  <2>3. Followed(q) => Followed(q)'
    BY <1>1, <1>2, <1>5 DEF Followed, WatchesOf, WatchPath
  <2>4. CASE Marks(Top, q)
    <3>1. Watched /\ Top.path = q /\ Lookup(q) = d /\ d \in fanMarks'
      BY <1>1, <2>1, <2>4 DEF Marks, d
    <3>2. NewWd \in DOMAIN watches' /\ watches'[NewWd] = Lookup(q) /\ wd2path'[NewWd] = q
      BY <3>1 DEF Watched
    <3>3. \E w \in DOMAIN watches' : watches'[w] = Lookup(q) /\ wd2path'[w] = q
      BY <3>2
    <3> QED  BY <1>2, <3>1, <3>3 DEF Followed, WatchesOf
  <2>5. CASE Enters(Top, q)
    <3>1. Enters(stack'[L], q)
      BY <1>1, <1>4, <2>5 DEF Enters
    <3> QED  BY <1>3, <3>1, TopReaches
  <2>6. Reached(q) => Reached(q)' \/ Enters(Top, q) \/ Marks(Top, q)
    BY <1>1, <1>3, BelowTop DEF L
  <2> QED  BY <2>1, <2>2, <2>3, <2>4, <2>5, <2>6 DEF FollowInv
<1> QED  BY <1>6, <1>7

LEMMA OpenFollow ==
    ASSUME TypeInv, TypeInv', FollowInv, opendir
    PROVE  FollowInv' /\ UnmarkInv'
<1> USE DEF TypeInv
<1> DEFINE L == Len(stack)
           d == Lookup(Top.path)
           c == [at |-> "read", path |-> Top.path, names |-> {n \in Names : Child(d, n) # Nil}]
<1>1. /\ UNCHANGED <<kernel, programs, status, todo, tables>> /\ stack # <<>> /\ Top.at = "open"
      /\ stack' = IF d = Nil THEN Return ELSE Append(Return, c)
  BY DEF opendir, At
<1>2. \A q : Lookup(q)' = Lookup(q)
  BY <1>1, SameTree DEF programs
<1>3. /\ Return \in Seq(Calls) /\ Len(Return) = L - 1 /\ L \in Nat /\ L >= 1
      /\ \A i \in 1..L - 1 : Return[i] = stack[i] /\ stack[i].at = "read"
  BY <1>1, ReturnIs, TopIs
<1>4. c \in Calls /\ c.at = "read" /\ c.path = Top.path /\ c.names = {n \in Names : Child(d, n) # Nil}
  BY <1>1, TopIs DEF Calls, CallSteps
<1> HIDE DEF L, d, c
<1>5. d # Nil => Len(stack') = L /\ stack'[L] = c /\ \A i \in 1..L - 1 : stack'[i] = Return[i]
  <2> SUFFICES ASSUME d # Nil PROVE Len(stack') = L /\ stack'[L] = c /\ \A i \in 1..L - 1 : stack'[i] = Return[i]
    OBVIOUS
  <2>1. /\ Len(stack') = Len(Return) + 1 /\ stack'[Len(Return) + 1] = c
        /\ \A i \in 1..Len(Return) : stack'[i] = Return[i]
    BY <1>1, <1>3, <1>4, PushIs
  <2>2. Len(Return) + 1 = L
    BY <1>3
  <2> QED  BY <1>3, <2>1, <2>2
<1>6. d = Nil => stack' = Return
  BY <1>1
<1>7. Len(stack') >= L - 1 /\ \A i \in 1..L - 1 : stack'[i] = stack[i]
  BY <1>3, <1>5, <1>6
<1>8. UnmarkInv'
  <2>1. DOMAIN stack' = 1..Len(stack')
    BY DEF CallOK
  <2>2. \A i \in 1..L : i = L \/ i \in 1..L - 1
    BY <1>3
  <2>3. \A i \in DOMAIN stack' : stack'[i].at = "read"
    <3>1. CASE d = Nil
      BY <1>3, <1>6, <2>1, <3>1
    <3>2. CASE d # Nil
      BY <1>3, <1>4, <1>5, <2>1, <2>2, <3>2
    <3> QED  BY <3>1, <3>2
  <2> QED  BY <2>3, NoUnmark
<1>9. FollowInv'
  <2> SUFFICES ASSUME Started', NEW q \in Seq(Names), Lookup(q)' # Nil
               PROVE  Told(q)' \/ Reached(q)' \/ Followed(q)'
    BY DEF FollowInv
  <2>1. Lookup(q) # Nil /\ Started
    BY <1>1, <1>2 DEF Started
  <2>2. Told(q) => Told(q)'
    BY <1>1 DEF Told, Part, tables, kernel
  <2>3. Followed(q) => Followed(q)'
    BY <1>1, <1>2 DEF Followed, WatchesOf, tables, kernel
  <2>4. CASE Enters(Top, q) \/ Marks(Top, q)
    <3>1. PICK k \in 0..Len(q) - 1 : Top.path = Part(q, k)
      BY <1>1, <2>4 DEF Enters, Marks
    <3>2. k \in 0..Len(q) /\ k + 1 \in 1..Len(q) /\ k + 1 \in 0..Len(q) /\ (k + 1) - 1 = k /\ k + 1 # 0
      OBVIOUS
    <3>3. d # Nil /\ Lookup(Part(q, k + 1)) # Nil
      BY <2>1, <3>1, <3>2, PartsExist DEF d, FilesOK
    <3>4. Lookup(Part(q, k + 1)) = Child(d, q[k + 1])
      BY <3>1, <3>2, LookupParts DEF d, FilesOK
    <3>5. q[k + 1] \in Names
      BY <3>2, PartIs
    <3>6. c.path = Part(q, (k + 1) - 1) /\ q[k + 1] \in c.names
      BY <1>4, <3>1, <3>2, <3>3, <3>4, <3>5
    <3>7. Enters(c, q)
      BY <1>4, <3>2, <3>6 DEF Enters
    <3>8. L \in 1..Len(stack') /\ stack'[L] = c
      BY <1>3, <1>5, <3>3
    <3> QED  BY <3>7, <3>8, TopReaches
  <2>5. Reached(q) => Reached(q)' \/ Enters(Top, q) \/ Marks(Top, q)
    BY <1>1, <1>7, BelowTop DEF L
  <2> QED  BY <2>1, <2>2, <2>3, <2>4, <2>5 DEF FollowInv
<1> QED  BY <1>8, <1>9

LEMMA ReadFollow ==
    ASSUME TypeInv, TypeInv', FollowInv, readdir
    PROVE  FollowInv' /\ UnmarkInv'
<1> USE DEF TypeInv
<1> DEFINE L == Len(stack)
<1>1. /\ UNCHANGED <<kernel, programs, status, todo, tables>> /\ stack # <<>> /\ Top.at = "read"
      /\ \/ Top.names = {} /\ stack' = Return
         \/ \E n \in Names : Entered(n)
  BY ReaddirIs
<1>2. \A q : Lookup(q)' = Lookup(q)
  BY <1>1, SameTree DEF programs
<1>3. /\ Return \in Seq(Calls) /\ Len(Return) = L - 1 /\ L \in Nat /\ L >= 1 /\ L \in 1..L
      /\ \A i \in 1..L - 1 : Return[i] = stack[i] /\ stack[i].at = "read"
  BY <1>1, ReturnIs, TopIs
<1>4. DOMAIN stack' = 1..Len(stack')
  BY DEF CallOK
<1>5. ASSUME NEW q \in Seq(Names)
      PROVE  /\ Lookup(q)' # Nil /\ Started' => Lookup(q) # Nil /\ Started
             /\ Told(q) => Told(q)'
             /\ Followed(q) => Followed(q)'
  <2>1. Lookup(q)' # Nil /\ Started' => Lookup(q) # Nil /\ Started
    BY <1>1, <1>2 DEF Started
  <2>2. Told(q) => Told(q)'
    BY <1>1 DEF Told, Part, tables, kernel
  <2>3. Followed(q) => Followed(q)'
    BY <1>1, <1>2 DEF Followed, WatchesOf, tables, kernel
  <2> QED  BY <2>1, <2>2, <2>3
<1>6. CASE Top.names = {} /\ stack' = Return
  <2>1. UnmarkInv'
    BY <1>3, <1>4, <1>6, NoUnmark
  <2>2. ASSUME NEW q \in Seq(Names), Reached(q) PROVE Reached(q)'
    <3>1. Reached(q)' \/ Enters(Top, q) \/ Marks(Top, q)
      BY <1>1, <1>3, <1>6, <2>2, BelowTop
    <3> QED  BY <1>1, <1>6, <3>1 DEF Enters, Marks
  <2>3. FollowInv'
    BY <1>5, <2>2 DEF FollowInv
  <2> QED  BY <2>1, <2>3
<1>7. ASSUME NEW n \in Names, Entered(n) PROVE FollowInv' /\ UnmarkInv'
  <2> DEFINE b == [at |-> "read", path |-> Top.path, names |-> Top.names \ {n}]
             s == [stack EXCEPT ![Len(stack)] = b]
             c == [at |-> "fan", path |-> Append(Top.path, n), names |-> {}]
  <2>1. b \in Calls /\ b.at = "read" /\ b.path = Top.path /\ b.names = Top.names \ {n}
    BY <1>1, TopIs DEF Calls, CallSteps
  <2>2. c \in Calls /\ c.at = "fan" /\ c.path = Append(Top.path, n)
    BY <1>1, TopIs DEF Calls, CallSteps
  <2>3. stack' = Append(s, c)
    BY <1>7 DEF Entered
  <2> HIDE DEF b, c
  <2>4. /\ s \in Seq(Calls) /\ Len(s) = L /\ s[L] = b
        /\ \A i \in 1..L - 1 : s[i] = stack[i]
    BY <1>1, <2>1, TopReplaced
  <2> HIDE DEF s
  <2>5. Len(stack') = L + 1 /\ stack'[L + 1] = c /\ \A i \in 1..L : stack'[i] = s[i]
    BY <2>2, <2>3, <2>4, PushIs
  <2> HIDE DEF L
  <2>6. stack'[L] = b /\ \A i \in 1..L - 1 : stack'[i] = stack[i]
    BY <1>3, <2>4, <2>5
  <2>7. UnmarkInv'
    <3>1. \A i \in 1..L + 1 : i = L + 1 \/ i = L \/ i \in 1..L - 1
      BY <1>3
    <3> QED  BY <1>3, <1>4, <2>1, <2>2, <2>5, <2>6, <3>1, NoUnmark
  <2>8. ASSUME NEW q \in Seq(Names), Reached(q) PROVE Reached(q)'
    <3>1. Reached(q)' \/ Enters(Top, q) \/ Marks(Top, q)
      BY <1>1, <1>3, <2>5, <2>6, <2>8, BelowTop DEF L
    <3>2. CASE Enters(Top, q)
      <4>1. PICK k \in 1..Len(q) : Top.path = Part(q, k - 1) /\ q[k] \in Top.names
        BY <1>1, <3>2 DEF Enters
      <4>2. CASE q[k] = n
        <5>1. k \in 0..Len(q) /\ k # 0
          OBVIOUS
        <5>2. c.path = Part(q, k)
          <6>1. Part(q, k) = Append(Part(q, k - 1), q[k])
            BY <5>1, PartIs
          <6> QED  BY <2>2, <4>1, <4>2, <6>1
        <5>3. Enters(c, q)
          BY <2>2, <5>1, <5>2 DEF Enters
        <5>4. L + 1 \in 1..Len(stack')
          BY <1>3, <2>5
        <5> QED  BY <2>5, <5>3, <5>4, TopReaches
      <4>3. CASE q[k] # n
        <5>1. Enters(b, q)
          BY <2>1, <4>1, <4>3 DEF Enters
        <5>2. L \in 1..Len(stack')
          BY <1>3, <2>5
        <5> QED  BY <2>6, <5>1, <5>2, TopReaches
      <4> QED  BY <4>2, <4>3
    <3> QED  BY <1>1, <3>1, <3>2 DEF Marks
  <2>9. FollowInv'
    BY <1>5, <2>8 DEF FollowInv
  <2> QED  BY <2>7, <2>9
<1> QED  BY <1>1, <1>6, <1>7

\* Root is about to be marked.
LEMMA EntriesFollow ==
    ASSUME TypeInv, TypeInv', FollowInv, UnmarkInv, mark_entries
    PROVE  FollowInv' /\ UnmarkInv'
<1>1. UNCHANGED <<place, fanMarks, watches, queue, wd2path>> /\ stack = <<>> /\ status = "starting"
  BY DEF mark_entries, programs, tables
<1>2. CASE stack' = Call("fan", <<>>)
  <2> DEFINE c == [at |-> "fan", path |-> <<>>, names |-> {}]
  <2>1. c.at = "fan" /\ c.path = <<>>
    OBVIOUS
  <2>2. stack' = <<c>>
    BY <1>1, <1>2 DEF Call
  <2> HIDE DEF c
  <2>3. Len(stack') = 1 /\ stack'[1] = c /\ DOMAIN stack' = {1} /\ 1 \in 1..Len(stack')
    BY <2>2
  <2>4. UnmarkInv'
    BY <2>1, <2>3, NoUnmark
  <2>5. ASSUME NEW q \in Seq(Names) PROVE Reached(q)'
    <3>1. 0 \in 0..Len(q)
      OBVIOUS
    <3>2. Part(q, 0) = <<>>
      BY <3>1, PartIs
    <3>3. Enters(c, q)
      BY <2>1, <3>1, <3>2 DEF Enters
    <3> QED  BY <2>3, <3>3, TopReaches DEF TypeInv
  <2> QED  BY <2>4, <2>5 DEF FollowInv
<1>3. CASE stack' = stack
  <2>1. Started' => Started
    <3>1. CASE Root \in todo /\ stack' = Call("fan", <<>>)
      <4>1. stack' # <<>>
        BY <1>1, <3>1 DEF Call
      <4> QED  BY <1>1, <1>3, <4>1
    <3>2. CASE \E p \in todo \ {Root} : todo' = todo \ {p} /\ status' = status
      BY <3>2 DEF Started
    <3>3. CASE todo = {}
      BY <1>1, <3>3 DEF Started
    <3> QED  BY <3>1, <3>2, <3>3 DEF mark_entries
  <2> QED  BY <1>1, <1>3, <2>1, SameFollow
<1> QED  BY <1>2, <1>3 DEF mark_entries

LEMMA EventFollow ==
    ASSUME TypeInv, TypeInv', RemovalInv, WatchPath, FollowInv, ~misled', inotify_event_process
    PROVE  FollowInv' /\ UnmarkInv'
<1> USE DEF TypeInv
<1> DEFINE e == Head(queue)
           path == Append(wd2path[e.wd], e.name)
           step == IF e.kind \in Creations THEN "fan" ELSE "unfan"
           c == [at |-> step, path |-> path, names |-> {}]
<1>1. /\ UNCHANGED <<place, fanMarks, watches, status, todo, wd2path>>
      /\ stack = <<>> /\ queue # <<>> /\ queue' = Tail(queue)
  BY DEF inotify_event_process, Dispatching, programs
<1>2. stack' = IF e.wd \notin DOMAIN wd2path THEN <<>> ELSE Append(<<>>, c)
  BY <1>1 DEF inotify_event_process, Call, Creations
<1>3. e.kind \notin Creations /\ e.wd \in DOMAIN wd2path /\ e.wd \notin DOMAIN watches => Lookup(path) = Nil
  BY DEF inotify_event_process, Creations
<1>4. /\ e = queue[1] /\ e \in Events /\ Len(queue) \in Nat
      /\ Len(queue') = Len(queue) - 1 /\ \A i \in 1..Len(queue') : queue'[i] = queue[i + 1]
      /\ DOMAIN queue = 1..Len(queue) /\ DOMAIN queue' = 1..Len(queue')
  BY <1>1, HeadIs
<1>5. \A q : Lookup(q)' = Lookup(q)
  BY <1>1, SameTree
<1>6. c.at = step /\ c.path = path
  OBVIOUS
<1> HIDE DEF e, c
<1>7. e.wd \in DOMAIN wd2path => Len(stack') = 1 /\ stack'[1] = c /\ DOMAIN stack' = {1} /\ 1 \in 1..Len(stack')
  <2>1. Append(<<>>, c) = <<c>>
    OBVIOUS
  <2>2. Len(<<c>>) = 1 /\ <<c>>[1] = c /\ DOMAIN <<c>> = {1} /\ 1 \in 1..Len(<<c>>)
    OBVIOUS
  <2> QED  BY <1>2, <2>1, <2>2
<1>8. e.wd \in DOMAIN wd2path => wd2path[e.wd] \in Seq(Names) /\ e.name \in Names /\ path \in Seq(Names)
  <2>1. e.name \in Names
    BY <1>4 DEF Events
  <2> QED  BY <2>1 DEF TableOK
\* An event that is not the first stays.
<1>9. ASSUME NEW q, NEW j \in DOMAIN queue, j # 1, NEW k \in 1..Len(q),
             queue[j].kind \in Creations, queue[j].wd \in DOMAIN wd2path,
             wd2path[queue[j].wd] = Part(q, k - 1), queue[j].name = q[k]
      PROVE  Told(q)'
  <2>1. j - 1 \in DOMAIN queue' /\ queue'[j - 1] = queue[j]
    BY <1>4, <1>9
  <2> QED  BY <1>1, <1>9, <2>1 DEF Told, Part
<1>10. FollowInv'
  <2> SUFFICES ASSUME Started', NEW q \in Seq(Names), Lookup(q)' # Nil
               PROVE  Told(q)' \/ Reached(q)' \/ Followed(q)'
    BY DEF FollowInv
  <2>1. Lookup(q) # Nil /\ Started
    BY <1>1, <1>5 DEF Started
  <2>2. Followed(q) => Followed(q)'
    BY <1>1, <1>5 DEF Followed, WatchesOf
  <2>3. ~Reached(q)
    BY <1>1 DEF Reached
  <2>4. CASE Told(q)
    <3>1. PICK j \in DOMAIN queue, k \in 1..Len(q) :
            /\ queue[j].kind \in Creations /\ queue[j].wd \in DOMAIN wd2path
            /\ wd2path[queue[j].wd] = Part(q, k - 1) /\ queue[j].name = q[k]
      BY <2>4 DEF Told
    <3>2. CASE j # 1
      BY <1>9, <3>1, <3>2
    <3>3. CASE j = 1
      <4>1. k \in 0..Len(q) /\ k # 0
        OBVIOUS
      <4>2. Part(q, k) = Append(Part(q, k - 1), q[k])
        BY <4>1, PartIs
      <4>3. path = Part(q, k) /\ step = "fan" /\ e.wd \in DOMAIN wd2path
        BY <1>4, <3>1, <3>3, <4>2
      <4>4. Enters(c, q)
        BY <1>6, <4>1, <4>3 DEF Enters
      <4> QED  BY <1>7, <4>3, <4>4, TopReaches
    <3> QED  BY <3>2, <3>3
  <2> QED  BY <2>1, <2>2, <2>3, <2>4 DEF FollowInv
<1>11. UnmarkInv'
  <2> SUFFICES ASSUME NEW i \in DOMAIN stack', NEW q, stack'[i].at \in {"unfan", "unino"}, q = stack'[i].path, Lookup(q)' # Nil
               PROVE  Told(q)'
    BY UnmarkNext
  <2>1. e.wd \in DOMAIN wd2path
    BY <1>2
  <2>2. i = 1 /\ stack'[i] = c
    BY <1>7, <2>1
  <2>3. q = path /\ e.kind \notin Creations /\ Lookup(q) # Nil /\ q \in Seq(Names)
    BY <1>5, <1>6, <1>8, <2>1, <2>2
  <2>4. e.wd \in DOMAIN watches
    BY <1>3, <2>1, <2>3
  <2>5. Lookup(wd2path[e.wd]) = watches[e.wd]
    BY <2>4 DEF WatchPath
  <2>6. Lookup(q) = Child(watches[e.wd], e.name)
    BY <1>8, <2>1, <2>3, <2>5, LookupIs DEF FilesOK
  <2>7. 1 \in DOMAIN queue
    <3>1. queue \in Seq(Events)
      BY DEF QueueOK
    <3>2. Len(queue) # 0
      BY <1>1, <3>1, EmptySeq
    <3> QED  BY <1>4, <3>2
  <2>8. ToldAgain(1)
    BY <1>4, <2>3, <2>4, <2>6, <2>7, RemovalIs
  <2>9. PICK j \in DOMAIN queue : /\ j > 1 /\ queue[j].kind \in Creations
                                  /\ queue[j].wd = e.wd /\ queue[j].name = e.name
    BY <1>4, <2>8 DEF ToldAgain
  <2> DEFINE p == wd2path[e.wd]
             K == Len(q)
  <2>10. p \in Seq(Names) /\ e.name \in Names /\ q = Append(p, e.name)
    BY <1>8, <2>1, <2>3
  <2> HIDE DEF p
  <2>11. K \in 1..K /\ K \in 0..K /\ K - 1 \in 0..K /\ K # 0 /\ q[K] = e.name /\ K - 1 = Len(p) /\ K \in Nat
    BY <2>10
  <2>12. Part(q, K - 1) = p
    <3>1. Part(q, K - 1) \in Seq(Names) /\ Len(Part(q, K - 1)) = Len(p) /\ \A m \in 1..K - 1 : Part(q, K - 1)[m] = q[m]
      BY <2>3, <2>11, PartIs
    <3>2. \A m \in 1..K - 1 : q[m] = p[m]
      BY <2>10, <2>11
    <3> QED  BY <2>10, <2>11, <3>1, <3>2, SeqEqual
  <2>13. j # 1
    BY <1>4, <2>9
  <2> QED  BY <1>9, <2>1, <2>9, <2>11, <2>12, <2>13 DEF p
<1> QED  BY <1>10, <1>11

\* The calls that unmark are alone, and mark nothing.
LEMMA AloneUnmarks ==
    ASSUME CallOK, stack # <<>>, Top.at \in {"unfan", "unino"}
    PROVE  /\ Len(stack) = 1 /\ Top = stack[1] /\ Top.path \in Seq(Names) /\ Return = <<>> /\ 1 \in DOMAIN stack
           /\ \A q : ~Reached(q)
<1>1. /\ Len(stack) \in 1..Len(stack) /\ Top = stack[Len(stack)] /\ Top \in Calls /\ stack \in Seq(Calls)
  BY TopIs DEF CallOK
<1>2. Len(stack) = 1
  BY <1>1 DEF CallOK
<1>3. DOMAIN stack = {1}
  BY <1>1, <1>2
<1>4. \A q : ~Reached(q)
  BY <1>1, <1>2, <1>3 DEF Reached, Enters, Marks
<1>5. Return = <<>>
  <2>1. Return \in Seq(Calls) /\ Len(Return) = 0
    BY <1>2, ReturnIs
  <2> QED  BY <2>1, EmptySeq
<1> QED  BY <1>1, <1>2, <1>3, <1>4, <1>5 DEF Calls

LEMMA UnfanFollow ==
    ASSUME TypeInv, TypeInv', FollowInv, UnmarkInv, fanotify_monitor_unmark_directory
    PROVE  FollowInv' /\ UnmarkInv'
<1> USE DEF TypeInv
<1>1. /\ UNCHANGED <<watches, queue, programs, status, todo, tables>> /\ stack # <<>> /\ Top.at = "unfan"
      /\ \/ Lookup(Top.path) \in fanMarks /\ fanMarks' = fanMarks \ {Lookup(Top.path)} /\ stack' = GoOn("unino")
         \/ fanMarks' = fanMarks /\ stack' = Return
  BY DEF fanotify_monitor_unmark_directory, At
<1>2. \A q : Lookup(q)' = Lookup(q)
  BY <1>1, SameTree DEF programs
<1>3. /\ Len(stack) = 1 /\ Top = stack[1] /\ Top.path \in Seq(Names) /\ Return = <<>> /\ 1 \in DOMAIN stack
      /\ \A q : ~Reached(q)
  BY <1>1, AloneUnmarks
<1>4. \A q : Told(q) => Told(q)'
  BY <1>1 DEF Told, Part, tables
<1>5. Lookup(Top.path) # Nil => Told(Top.path)
  BY <1>1, <1>3 DEF UnmarkInv
<1>6. FollowInv'
  <2> SUFFICES ASSUME Started', NEW q \in Seq(Names), Lookup(q)' # Nil
               PROVE  Told(q)' \/ Reached(q)' \/ Followed(q)'
    BY DEF FollowInv
  <2>1. Lookup(q) # Nil /\ Started
    BY <1>1, <1>2 DEF Started
  <2>2. Told(q) \/ Followed(q)
    BY <1>3, <2>1 DEF FollowInv
  <2>3. CASE q = Top.path
    BY <1>4, <1>5, <2>1, <2>3
  <2>4. CASE q # Top.path /\ Followed(q)
    <3>1. Lookup(q) # Lookup(Top.path)
      BY <1>3, <2>1, <2>4, OnePath DEF FilesOK
    <3> QED  BY <1>1, <1>2, <2>4, <3>1 DEF Followed, WatchesOf, tables
  <2> QED  BY <1>4, <2>2, <2>3, <2>4
<1>7. UnmarkInv'
  <2> SUFFICES ASSUME NEW i \in DOMAIN stack', NEW q, stack'[i].at \in {"unfan", "unino"}, q = stack'[i].path, Lookup(q)' # Nil
               PROVE  Told(q)'
    BY UnmarkNext
  <2>1. stack' = GoOn("unino")
    BY <1>1, <1>3
  <2>2. /\ stack' \in Seq(Calls) /\ Len(stack') = 1
        /\ stack'[1] = [at |-> "unino", path |-> Top.path, names |-> Top.names]
    <3>1. "unino" \in CallSteps
      BY DEF CallSteps
    <3> QED  BY <1>1, <1>3, <2>1, <3>1, GoOnIs
  <2>3. i = 1
    BY <2>2
  <2>4. q = Top.path
    BY <2>2, <2>3
  <2> QED  BY <1>2, <1>4, <1>5, <2>4
<1> QED  BY <1>6, <1>7

LEMMA UninoFollow ==
    ASSUME TypeInv, TypeInv', WatchPath, TablesInv, FollowInv, UnmarkInv, inotify_monitor_unmark_directory
    PROVE  FollowInv' /\ UnmarkInv'
<1> USE DEF TypeInv
<1>1. /\ UNCHANGED <<fanMarks, queue, programs, status, todo>> /\ stack # <<>> /\ Top.at = "unino" /\ stack' = Return
  BY DEF inotify_monitor_unmark_directory, At
<1>2. \A q : Lookup(q)' = Lookup(q)
  BY <1>1, SameTree DEF programs
<1>3. /\ Len(stack) = 1 /\ Top = stack[1] /\ Top.path \in Seq(Names) /\ Return = <<>> /\ 1 \in DOMAIN stack
      /\ \A q : ~Reached(q)
  BY <1>1, AloneUnmarks
<1>4. UnmarkInv'
  BY <1>1, <1>3, NoUnmark
<1>5. PICK path : path = Top.path
  OBVIOUS
<1>6. PICK wds : /\ watches' = [w \in DOMAIN watches \ wds |-> watches[w]]
                 /\ wd2path' = [w \in DOMAIN wd2path \ wds |-> wd2path[w]]
                 /\ \A w \in wds \cap DOMAIN wd2path : wd2path[w] = path
  <2> DEFINE wds == IF Top.path \in DOMAIN path2wd THEN {path2wd[Top.path]} ELSE {}
  <2>1. /\ watches' = [w \in DOMAIN watches \ wds |-> watches[w]]
        /\ wd2path' = [w \in DOMAIN wd2path \ wds |-> wd2path[w]]
    BY DEF inotify_monitor_unmark_directory
  <2>2. \A w \in wds \cap DOMAIN wd2path : wd2path[w] = path
    BY <1>5 DEF TablesInv
  <2> HIDE DEF wds
  <2> QED  BY <2>1, <2>2
<1>7. Lookup(path) # Nil => Told(path)'
  <2> SUFFICES ASSUME Lookup(path) # Nil PROVE Told(path)'
    OBVIOUS
  <2>1. Told(path)
    BY <1>1, <1>3, <1>5 DEF UnmarkInv
  <2>2. PICK j \in DOMAIN queue, k \in 1..Len(path) :
          /\ queue[j].kind \in Creations /\ queue[j].wd \in DOMAIN wd2path
          /\ wd2path[queue[j].wd] = Part(path, k - 1) /\ queue[j].name = path[k]
    BY <2>1 DEF Told
  <2>3. Part(path, k - 1) # path
    <3>1. k - 1 \in 0..Len(path) /\ k - 1 # Len(path) /\ path \in Seq(Names)
      BY <1>3, <1>5
    <3>2. Len(Part(path, k - 1)) = k - 1
      BY <3>1, PartIs
    <3> QED  BY <3>1, <3>2
  <2>4. queue[j].wd \in DOMAIN wd2path' /\ wd2path'[queue[j].wd] = wd2path[queue[j].wd]
    BY <1>6, <2>2, <2>3
  <2> QED  BY <1>1, <2>2, <2>4 DEF Told, Part
<1>8. (\A q \in Seq(Names) : \A k \in 0..Len(q) : Told(Part(q, k)) => Told(q))'
  BY ToldBelow, PTL
<1>9. FollowInv'
  <2> SUFFICES ASSUME Started', NEW q \in Seq(Names), Lookup(q)' # Nil
               PROVE  Told(q)' \/ Reached(q)' \/ Followed(q)'
    BY DEF FollowInv
  <2>1. Lookup(q) # Nil /\ Started
    BY <1>1, <1>2 DEF Started
  <2>2. Told(q) \/ Followed(q)
    BY <1>3, <2>1 DEF FollowInv
  <2>3. CASE Told(q)
    <3>1. PICK j \in DOMAIN queue, k \in 1..Len(q) :
            /\ queue[j].kind \in Creations /\ queue[j].wd \in DOMAIN wd2path
            /\ wd2path[queue[j].wd] = Part(q, k - 1) /\ queue[j].name = q[k]
      BY <2>3 DEF Told
    <3>2. CASE queue[j].wd \notin wds
      <4>1. queue[j].wd \in DOMAIN wd2path' /\ wd2path'[queue[j].wd] = wd2path[queue[j].wd]
        BY <1>6, <3>1, <3>2
      <4> QED  BY <1>1, <3>1, <4>1 DEF Told, Part
    <3>3. CASE queue[j].wd \in wds
      <4>1. path = Part(q, k - 1) /\ k - 1 \in 0..Len(q)
        BY <1>6, <3>1, <3>3
      <4>2. Lookup(path) # Nil
        BY <2>1, <4>1, PartsExist DEF FilesOK
      <4>3. Told(Part(q, k - 1))'
        BY <1>7, <4>1, <4>2
      <4> QED  BY <1>8, <4>1, <4>3
    <3> QED  BY <3>2, <3>3
  <2>4. CASE Followed(q)
    <3>1. PICK w \in DOMAIN watches : watches[w] = Lookup(q) /\ wd2path[w] = q
      BY <2>4 DEF Followed, WatchesOf
    <3>2. w \in DOMAIN wd2path
      BY DEF WatchPath
    <3>3. CASE w \notin wds
      <4>1. w \in DOMAIN watches' /\ watches'[w] = Lookup(q) /\ wd2path'[w] = q
        BY <1>6, <3>1, <3>2, <3>3
      <4> QED  BY <1>1, <1>2, <2>4, <4>1 DEF Followed, WatchesOf
    <3>4. CASE w \in wds
      BY <1>6, <1>7, <2>1, <3>1, <3>2, <3>4
    <3> QED  BY <3>3, <3>4
  <2> QED  BY <2>2, <2>3, <2>4
<1> QED  BY <1>4, <1>9

\* What was moved away, and a removal that misled the monitor, are remembered.
LEMMA HistoryStays ==
    TypeInv /\ [Next]_vars => (moved => moved') /\ (misled => misled')
<1> SUFFICES ASSUME TypeInv, [Next]_vars PROVE (moved => moved') /\ (misled => misled')
  OBVIOUS
<1>1. CASE UNCHANGED <<moved, misled>>
  BY <1>1
<1>2. ASSUME NEW c, NEW d, NEW n, Rename(c, d, n) PROVE (moved => moved') /\ misled' = misled
  BY <1>2 DEF Rename, monitor, tables
<1>3. CASE inotify_event_process
  BY <1>3 DEF inotify_event_process, programs
<1>4. CASE inotify_monitor_mark_directory
  BY <1>4 DEF inotify_monitor_mark_directory, programs, tables
<1> QED  BY <1>1, <1>2, <1>3, <1>4
         DEF Next, vars, Programs, Mkdir, Rmdir, Mount, Umount, MainThread, post_init, main_loop_run, delayed_start_cb,
             MonitorThread, start_command, mark_entries, fanotify_monitor_mark_directory, opendir, readdir,
             fanotify_monitor_unmark_directory, inotify_monitor_unmark_directory, mount_idle_cb,
             programs, monitor, tables

LEMMA NextFollow ==
    ASSUME TInv, TypeInv', [Next]_vars, ~moved', ~limited', ~misled'
    PROVE  FollowInv' /\ UnmarkInv'
<1>1. ~moved /\ ~limited /\ ~misled
  BY HistoryStays, LimitedStays DEF TInv
<1>2. TypeInv /\ RemovalInv /\ WatchPath /\ TablesInv /\ FollowInv /\ UnmarkInv
  BY <1>1 DEF TInv
<1>3. CASE Programs
  <2>1. ASSUME NEW p \in Points, Mount(p) \/ Umount(p) PROVE FollowInv' /\ UnmarkInv'
    <3>1. UNCHANGED <<place, fanMarks, watches, queue, stack, wd2path, status, todo>>
      BY <2>1 DEF Mount, Umount, monitor, tables
    <3>2. Started' => Started
      BY <3>1 DEF Started
    <3> QED  BY <1>2, <3>1, <3>2, SameFollow
  <2> QED  BY <1>2, <1>3, <2>1, MkdirFollow, RenameFollow, RmdirFollow DEF Programs
<1>4. CASE MainThread \/ UNCHANGED vars \/ mount_idle_cb
  <2>1. UNCHANGED <<place, fanMarks, watches, queue, stack, wd2path, status, todo>>
    BY <1>4 DEF MainThread, post_init, main_loop_run, delayed_start_cb, mount_idle_cb, vars, programs, kernel, monitor, tables
  <2>2. Started' => Started
    BY <2>1 DEF Started
  <2> QED  BY <1>2, <2>1, <2>2, SameFollow
<1>5. CASE start_command
  <2>1. UNCHANGED <<place, fanMarks, watches, queue, stack, wd2path>>
    BY <1>5 DEF start_command, programs, kernel, tables
  <2>2. ~Started'
    BY <1>5 DEF start_command, Started
  <2> QED  BY <1>2, <2>1, <2>2, SameFollow
<1>6. CASE MonitorThread
  BY <1>2, <1>4, <1>5, <1>6, EntriesFollow, FanFollow, InoFollow, OpenFollow, ReadFollow, EventFollow, UnfanFollow, UninoFollow
     DEF MonitorThread
<1> QED  BY <1>3, <1>4, <1>6 DEF Next

LEMMA InitTInv == Init => TInv
<1> SUFFICES ASSUME Init PROVE TInv
  OBVIOUS
<1>1. TypeInv
  BY InitType
<1>2. DOMAIN queue = {} /\ DOMAIN watches = {} /\ DOMAIN path2wd = {} /\ DOMAIN stack = {}
  BY DEF Init
<1>3. ~Started
  BY DEF Init, Started
<1> QED  BY <1>1, <1>2, <1>3 DEF TInv, RemovalInv, WatchPath, TablesInv, FollowInv, UnmarkInv

LEMMA NextTInv == TInv /\ [Next]_vars => TInv'
<1> SUFFICES ASSUME TInv, [Next]_vars PROVE TInv'
  OBVIOUS
<1>1. TypeInv'
  BY NextType DEF TInv
<1>2. limited' \/ RemovalInv'
  BY <1>1, NextRemoval DEF TInv
<1>3. moved' \/ (WatchPath' /\ TablesInv')
  BY <1>1, NextTables DEF TInv
<1>4. moved' \/ limited' \/ misled' \/ (FollowInv' /\ UnmarkInv')
  BY <1>1, NextFollow
<1> QED  BY <1>1, <1>2, <1>3, <1>4 DEF TInv

LEMMA TypeInvOK == TypeInv => TypeOK
<1> SUFFICES ASSUME TypeInv PROVE TypeOK
  OBVIOUS
<1>1. place \in [Dirs -> {<<>>} \cup ((Dirs \cup {Root, Outside}) \X Names)] /\ ops \in 0..MaxOps /\ moved \in BOOLEAN
  BY DEF TypeInv, FilesOK, PlaceOK, Places
<1>2. /\ mounted \in Seq(Points) /\ IsInjective(mounted) /\ mountMarks \subseteq Points \cup {Slash}
      /\ signals \in Seq(Seq(Points)) /\ announced \in BOOLEAN /\ setting \in Settings /\ entries \subseteq Points
      /\ scans \subseteq Points
  BY DEF TypeInv, MediaOK
<1>3. /\ fanMarks \subseteq Dirs \cup {Root} /\ Range(watches) \subseteq Dirs \cup {Root} /\ DOMAIN watches \subseteq 1..lastWd
  BY DEF TypeInv, MarkOK, Range
<1>4. Len(queue) <= QueueLimit /\ limited \in BOOLEAN
  BY DEF TypeInv, QueueOK
<1>5. /\ inited \subseteq Modules /\ looping \in BOOLEAN
      /\ status \in {"off", "starting", "started", "failed"} /\ todo \subseteq Points \cup {Root}
  BY DEF TypeInv, StartOK
<1>6. start_pipe \in 0..1 /\ command_pipe \in {<<>>, <<"START">>}
  BY DEF TypeInv, MInv, PipeInv
<1>7. \A i \in DOMAIN stack :
          stack[i].at \in (IF i = Len(stack) THEN {"fan", "ino", "open", "read", "unfan", "unino"} ELSE {"read"})
  <2> SUFFICES ASSUME NEW i \in DOMAIN stack
               PROVE  stack[i].at \in (IF i = Len(stack) THEN {"fan", "ino", "open", "read", "unfan", "unino"} ELSE {"read"})
    OBVIOUS
  <2>1. stack \in Seq(Calls) /\ i \in 1..Len(stack) /\ Len(stack) \in Nat
    BY DEF TypeInv, CallOK
  <2>2. stack[i].at \in CallSteps
    <3>1. stack[i] \in Calls
      BY <2>1
    <3> QED  BY <3>1 DEF Calls
  <2>3. i # Len(stack) => i \in 1..Len(stack) - 1
    BY <2>1
  <2> QED  BY <2>2, <2>3 DEF CallSteps, TypeInv, CallOK
<1>8. DOMAIN wd2path \subseteq 1..lastWd /\ Range(path2wd) \subseteq 1..lastWd
  BY DEF TypeInv, TableOK, Range
<1>9. misled \in BOOLEAN
  BY DEF TypeInv, TableOK
<1> QED  BY <1>1, <1>2, <1>3, <1>4, <1>5, <1>6, <1>7, <1>8, <1>9 DEF TypeOK

\* However programs make, remove and move directories in between two system calls of the
\* monitor, for any number of directories, names and operations and any limit of the queue:
\* once it is quiet, every directory below the configured one has its mark and its watch, and
\* is known under its path, unless the kernel dropped something, a directory was moved away,
\* or a removal told by a watch that is gone hit a new directory
\* (access_monitor_recursive_mark_directory of monitor.c, imonitor.c).
THEOREM TreeIsFollowed == Spec => []MarksFitTree
<1>1. TInv /\ WatchesKnown => MarksFitTree
  <2> SUFFICES ASSUME TInv, WatchesKnown PROVE MarksFitTree
    OBVIOUS
  <2>1. TypeOK
    BY TypeInvOK DEF TInv
  <2>2. FollowedUnlessMoved
    <3> SUFFICES ASSUME ~moved, ~misled, Quiet, ~limited, NEW q \in Paths, Lookup(q) # Nil PROVE Followed(q)
      BY DEF FollowedUnlessMoved, DirectoriesMonitored
    <3>1. q \in Seq(Names)
      <4>1. PICK k \in 0..Cardinality(Dirs) : q \in [1..k -> Names]
        BY DEF Paths
      <4>2. k \in Nat
        OBVIOUS
      <4> QED  BY <4>1, <4>2, SeqDef
    <3>2. Started
      BY DEF Quiet, Started, TInv, TypeInv, StartOK
    <3>3. ~Told(q) /\ ~Reached(q)
      BY DEF Quiet, Told, Reached
    <3> QED  BY <3>1, <3>2, <3>3 DEF TInv, FollowInv
  <2> QED  BY <2>1, <2>2 DEF MarksFitTree
<1> QED  BY InitTInv, NextTInv, WatchesAreKnown, <1>1, PTL DEF Spec

==============================================================================
