------------------------------- MODULE OnDemand -------------------------------
(***************************************************************************)
(* One on-demand scan (a6o_on_demand_run): the calling thread walks the    *)
(* directory and hands plain files to a pool of threads (or scans them     *)
(* itself), a second thread walks the same directory to count the files,   *)
(* and every scanned file updates shared counters and fires events.        *)
(*                                                                         *)
(* A file or directory is named by its place: <<>> is the root of the      *)
(* scan, Append(d, i) the i-th entry readdir returns for the directory d.  *)
(* So the place os_dir_map has reached, with all the calls it is nested    *)
(* in, is itself such a sequence.                                          *)
(***************************************************************************)
EXTENDS FileStatus, Sequences, FiniteSets

CONSTANTS
    Places,       \* the places entries may have
    Verdicts,     \* what the report of a scanned file may say
    Inputs,       \* trees, with what a6o_on_demand_new is given for them
    MaxThreads    \* get_max_threads()

\* "nopath" is a plain file realpath fails for, "unreadable" a directory opendir
\* fails for, "ioerror" the point where readdir fails, "other" a link, a device...
PlainKinds == Verdicts \cup {"nopath"}
Kinds == PlainKinds \cup {"other", "dir", "unreadable", "ioerror", "absent"}

Entries(kinds) == {p \in Places : kinds[p] # "absent"}

\* The entries of a tree are a prefix closed set without gaps, and only directories
\* have entries.
IsTree(kinds) ==
    /\ <<>> \in Entries(kinds)
    /\ \A n \in Entries(kinds) \ {<<>>} :
          /\ \A k \in 0..Len(n) - 1 : SubSeq(n, 1, k) \in Entries(kinds)
          /\ kinds[SubSeq(n, 1, Len(n) - 1)] \in {"dir", "unreadable"}
          /\ \A i \in 1..n[Len(n)] : [n EXCEPT ![Len(n)] = i] \in Entries(kinds)

ASSUME PlacesAssumption == Places \subseteq Seq(Nat \ {0}) /\ IsFiniteSet(Places)
ASSUME VerdictsAssumption == Verdicts \subseteq FileStatuses
ASSUME InputsAssumption ==
    /\ Inputs \subseteq [kind : [Places -> Kinds],
                         flags : [threaded : BOOLEAN, recurse : BOOLEAN, progress : BOOLEAN]]
    /\ \A i \in Inputs : IsTree(i.kind)
ASSUME MaxThreadsAssumption == MaxThreads \in Nat \ {0}

Unknown == -1   \* A6O_ON_DEMAND_PROGRESS_UNKNOWN

VARIABLES
    kind,          \* what each entry is
    flags,         \* A6O_SCAN_THREADED, A6O_SCAN_RECURSE, progress_period # 0
    pc,            \* of the thread in a6o_on_demand_run
    counter,       \* of the counting thread: "none", "walk", "done"
    pos,           \* pos[w]: the entry the walker w looks at next; <<>>: none left
    count,         \* the local counter of count_thread_fun
    to_scan_count, scanned_count, malware_count, suspicious_count,
    last_progress_value,
    task,          \* task[f]: the scan_file of the plain file f
    detections,    \* files for which a detection event was fired
    shown,         \* what the last progress event said
    completed      \* what the completed event said

counts == <<to_scan_count, scanned_count, malware_count, suspicious_count>>
walks  == <<counter, pos, count>>
events == <<detections, shown, completed>>
vars   == <<kind, flags, pc, walks, counts, last_progress_value, task, events>>

NoEvent == [progress |-> Unknown, malware |-> 0, suspicious |-> 0, scanned |-> 0]
NoTask == [pc |-> "none", progress |-> Unknown, malware |-> 0, suspicious |-> 0]

Nodes == Entries(kind)

Init ==
    /\ \E i \in Inputs : kind = i.kind /\ flags = i.flags
    /\ kind[<<>>] \notin {"ioerror", "nopath"}   \* a6o_on_demand_new got a path from realpath
    /\ pc = "new" /\ counter = "none" /\ count = 0
    /\ pos = [w \in {"scan", "count"} |-> <<>>]
    /\ to_scan_count = 0 /\ scanned_count = 0 /\ malware_count = 0 /\ suspicious_count = 0
    /\ last_progress_value = Unknown
    /\ task = [f \in Places |-> NoTask]
    /\ detections = {} /\ shown = NoEvent /\ completed = NoEvent

-------------------------------------------------------------------------------
(* os_dir_map.                                                             *)

After(p) == [p EXCEPT ![Len(p)] = @ + 1]

\* The loop over a directory breaks or ends: os_dir_map returns 0 whatever
\* happened, and the calling loop goes on behind that directory.
Leave(p) == IF Len(p) = 1 THEN <<>> ELSE After(SubSeq(p, 1, Len(p) - 1))

\* Mutant: the directory that cannot be opened is tried again.
MutErrorRetries(p, ret) ==
    IF p \notin Nodes \/ kind[p] = "ioerror"      THEN Leave(p)
    ELSE IF kind[p] = "dir" /\ flags.recurse            THEN Append(p, 1)
    ELSE IF kind[p] = "unreadable" /\ flags.recurse     THEN p
    ELSE After(p)

\* Where the walk goes after the entry p, when the callback returns ret for an
\* error: a nonzero value for a directory that cannot be opened ends the loop
\* over the directory that holds it.
dir_map(p, ret) ==
    IF p \notin Nodes \/ kind[p] = "ioerror"      THEN Leave(p)
    ELSE IF kind[p] = "dir" /\ flags.recurse            THEN Append(p, 1)
    ELSE IF kind[p] = "unreadable" /\ flags.recurse /\ ret # 0 THEN Leave(p)
    ELSE After(p)

IsPlain(p) == p \in Nodes /\ kind[p] \in PlainKinds

-------------------------------------------------------------------------------
(* The pool and scan_file.                                                 *)

Live(f) == task[f].pc \notin {"none", "done"}
Scanning == {f \in Places : Live(f) /\ task[f].pc # "queued"}

\* A file goes to the pool, or is scanned here and now; the pool is given no file
\* without a path.
HandOver(f) ==
    task' = [task EXCEPT ![f].pc = IF ~flags.threaded THEN "scan"
                                   ELSE IF kind[f] # "nopath" THEN "queued" ELSE "none"]

\* The walking thread is inside scan_file.
InScanFile == ~flags.threaded /\ Scanning # {}

PoolStarts(f) ==
    /\ task[f].pc = "queued" /\ Cardinality(Scanning) < MaxThreads
    /\ task' = [task EXCEPT ![f].pc = "scan"]
    /\ UNCHANGED <<kind, flags, pc, walks, counts, last_progress_value, events>>

\* The scan itself and its detection event.
ScanFile(f) ==
    /\ task[f].pc = "scan"
    /\ detections' = IF kind[f] \in Detected THEN detections \cup {f} ELSE detections
    /\ task' = [task EXCEPT ![f].pc = "scanned"]
    /\ UNCHANGED <<kind, flags, pc, walks, counts, last_progress_value, shown, completed>>

\* Mutant: scanned_count is incremented in the default case of the switch.
MutCountOnlyClean(f) ==
    /\ task[f].pc = "scanned"
    /\ scanned_count' = scanned_count + (IF kind[f] \in Detected THEN 0 ELSE 1)
    /\ task' = [task EXCEPT ![f].pc = "classify"]
    /\ UNCHANGED <<kind, flags, pc, walks, to_scan_count, malware_count, suspicious_count,
                   last_progress_value, events>>

\* update_counters: two atomic increments, in this order.
CountScanned(f) ==
    /\ task[f].pc = "scanned"
    /\ scanned_count' = scanned_count + 1
    /\ task' = [task EXCEPT ![f].pc = "classify"]
    /\ UNCHANGED <<kind, flags, pc, walks, to_scan_count, malware_count, suspicious_count,
                   last_progress_value, events>>

CountDetected(f) ==
    /\ task[f].pc = "classify"
    /\ malware_count' = malware_count + (IF kind[f] = "MALWARE" THEN 1 ELSE 0)
    /\ suspicious_count' = suspicious_count + (IF kind[f] = "SUSPICIOUS" THEN 1 ELSE 0)
    /\ task' = [task EXCEPT ![f].pc = "progress"]
    /\ UNCHANGED <<kind, flags, pc, walks, to_scan_count, scanned_count, last_progress_value, events>>

Percent(n, total) == LET p == (100 * n) \div total IN IF p > 100 THEN 100 ELSE p

\* update_progress: nothing to do without a period or as long as the number of
\* files is not known; otherwise the progress is computed.
NoProgress(f) ==
    /\ task[f].pc = "progress"
    /\ ~flags.progress \/ to_scan_count = 0
    /\ task' = [task EXCEPT ![f].pc = "done"]
    /\ UNCHANGED <<kind, flags, pc, walks, counts, last_progress_value, events>>

ComputeProgress(f) ==
    /\ task[f].pc = "progress" /\ flags.progress /\ to_scan_count # 0
    /\ task' = [task EXCEPT ![f].pc = "decide",
                            ![f].progress = Percent(scanned_count, to_scan_count)]
    /\ UNCHANGED <<kind, flags, pc, walks, counts, last_progress_value, events>>

\* must_send_progress_event: a file without a path sends nothing; a new value is
\* sent, an old one if the period is over (timeout).
Decide(f, timeout) ==
    /\ task[f].pc = "decide"
    /\ LET must == /\ kind[f] # "nopath"
                   /\ last_progress_value # task[f].progress \/ timeout
       IN  task' = [task EXCEPT ![f].pc = IF must THEN "malware" ELSE "done"]
    /\ UNCHANGED <<kind, flags, pc, walks, counts, last_progress_value, events>>

\* fire_progress_event reads the counters one after the other ...
ReadMalware(f) ==
    /\ task[f].pc = "malware"
    /\ task' = [task EXCEPT ![f].pc = "suspicious", ![f].malware = malware_count]
    /\ UNCHANGED <<kind, flags, pc, walks, counts, last_progress_value, events>>

ReadSuspicious(f) ==
    /\ task[f].pc = "suspicious"
    /\ task' = [task EXCEPT ![f].pc = "fire", ![f].suspicious = suspicious_count]
    /\ UNCHANGED <<kind, flags, pc, walks, counts, last_progress_value, events>>

\* ... the number of scanned files last, and fires.
FireProgress(f) ==
    /\ task[f].pc = "fire"
    /\ shown' = [progress |-> task[f].progress, malware |-> task[f].malware,
                 suspicious |-> task[f].suspicious, scanned |-> scanned_count]
    /\ task' = [task EXCEPT ![f].pc = "note"]
    /\ UNCHANGED <<kind, flags, pc, walks, counts, last_progress_value, detections, completed>>

NoteProgress(f) ==
    /\ task[f].pc = "note"
    /\ last_progress_value' = task[f].progress
    /\ task' = [task EXCEPT ![f].pc = "done"]
    /\ UNCHANGED <<kind, flags, pc, walks, counts, events>>

-------------------------------------------------------------------------------
(* a6o_on_demand_run.                                                      *)

RunFile ==
    /\ pc = "new" /\ IsPlain(<<>>)
    /\ to_scan_count' = 1
    /\ HandOver(<<>>)
    /\ pc' = "walk"
    /\ UNCHANGED <<kind, flags, walks, scanned_count, malware_count, suspicious_count,
                   last_progress_value, events>>

\* The root is a directory, perhaps one that cannot be opened.
RunDirectory ==
    /\ pc = "new" /\ kind[<<>>] \in {"dir", "unreadable"}
    /\ LET first == IF kind[<<>>] = "dir" THEN <<1>> ELSE <<>>
       IN  pos' = [scan |-> first, count |-> IF flags.progress THEN first ELSE <<>>]
    /\ counter' = IF flags.progress THEN "walk" ELSE "none"
    /\ pc' = "walk"
    /\ UNCHANGED <<kind, flags, count, counts, last_progress_value, task, events>>

RunNeither ==
    /\ pc = "new" /\ kind[<<>>] = "other"
    /\ pc' = "walk"
    /\ UNCHANGED <<kind, flags, walks, counts, last_progress_value, task, events>>

\* One iteration of os_dir_map with scan_entry, which returns 1 for an error.
ScanWalk ==
    /\ pc = "walk" /\ pos["scan"] # <<>> /\ ~InScanFile
    /\ pos' = [pos EXCEPT !["scan"] = dir_map(@, 1)]
    /\ IF IsPlain(pos["scan"]) THEN HandOver(pos["scan"]) ELSE UNCHANGED task
    /\ UNCHANGED <<kind, flags, pc, counter, count, counts, last_progress_value, events>>

\* Mutant: the shared counter is incremented file by file.
MutCountInPlace ==
    /\ counter = "walk" /\ pos["count"] # <<>>
    /\ pos' = [pos EXCEPT !["count"] = dir_map(@, 0)]
    /\ count' = count + (IF IsPlain(pos["count"]) THEN 1 ELSE 0)
    /\ to_scan_count' = count'
    /\ UNCHANGED <<kind, flags, pc, counter, scanned_count, malware_count, suspicious_count,
                   last_progress_value, task, events>>

\* One iteration of os_dir_map with count_entry, which returns 0 for an error.
CountWalk ==
    /\ counter = "walk" /\ pos["count"] # <<>>
    /\ pos' = [pos EXCEPT !["count"] = dir_map(@, 0)]
    /\ count' = count + (IF IsPlain(pos["count"]) THEN 1 ELSE 0)
    /\ UNCHANGED <<kind, flags, pc, counter, counts, last_progress_value, task, events>>

\* The counter is published once, at the end.
PublishCount ==
    /\ counter = "walk" /\ pos["count"] = <<>>
    /\ to_scan_count' = count
    /\ counter' = "done"
    /\ UNCHANGED <<kind, flags, pc, pos, count, scanned_count, malware_count, suspicious_count,
                   last_progress_value, task, events>>

\* Mutant: g_thread_pool_free(pool, FALSE, FALSE) does not wait.
MutCompleteAtOnce ==
    /\ pc = "walk" /\ pos["scan"] = <<>> /\ ~InScanFile
    /\ completed' = [progress |-> 100, malware |-> malware_count,
                     suspicious |-> suspicious_count, scanned |-> scanned_count]
    /\ pc' = "completed"
    /\ UNCHANGED <<kind, flags, walks, counts, last_progress_value, task, detections, shown>>

\* g_thread_pool_free waits for every queued scan; then the completed event.
Complete ==
    /\ pc = "walk" /\ pos["scan"] = <<>> /\ \A f \in Nodes : ~Live(f)
    /\ completed' = [progress |-> 100, malware |-> malware_count,
                     suspicious |-> suspicious_count, scanned |-> scanned_count]
    /\ pc' = "completed"
    /\ UNCHANGED <<kind, flags, walks, counts, last_progress_value, task, detections, shown>>

\* Mutant: the counting thread is not joined.
MutNoJoin ==
    /\ pc = "completed"
    /\ pc' = "returned"
    /\ UNCHANGED <<kind, flags, walks, counts, last_progress_value, task, events>>

\* g_thread_join of the counting thread; the caller may now free the scan.
Join ==
    /\ pc = "completed" /\ counter # "walk"
    /\ pc' = "returned"
    /\ UNCHANGED <<kind, flags, walks, counts, last_progress_value, task, events>>

Done == pc = "returned" /\ UNCHANGED vars

Task(f) == \/ PoolStarts(f) \/ ScanFile(f) \/ CountScanned(f) \/ CountDetected(f)
           \/ NoProgress(f) \/ ComputeProgress(f)
           \/ \E timeout \in BOOLEAN : Decide(f, timeout)
           \/ ReadMalware(f) \/ ReadSuspicious(f) \/ FireProgress(f) \/ NoteProgress(f)

Run == RunFile \/ RunDirectory \/ RunNeither \/ ScanWalk \/ Complete \/ Join

Counting == CountWalk \/ PublishCount

Next == Run \/ Counting \/ (\E f \in Places : Task(f)) \/ Done

Spec == Init /\ [][Next]_vars

\* Every thread of the scan is scheduled, and the pool serves what it is given.
FairSpec == /\ Spec
            /\ WF_vars(Run)
            /\ WF_vars(Counting)
            /\ \A f \in Places : WF_vars(Task(f))

-------------------------------------------------------------------------------
EventStates == [progress : {Unknown} \cup 0..100, malware : Nat, suspicious : Nat, scanned : Nat]
TaskStates == [pc : {"none", "queued", "scan", "scanned", "classify", "progress", "decide",
                     "malware", "suspicious", "fire", "note", "done"},
               progress : {Unknown} \cup 0..100, malware : Nat, suspicious : Nat]

\* The types of the variables.
TypeOK ==
    /\ kind \in [Places -> Kinds] /\ flags \in [threaded : BOOLEAN, recurse : BOOLEAN, progress : BOOLEAN]
    /\ pc \in {"new", "walk", "completed", "returned"}
    /\ counter \in {"none", "walk", "done"}
    /\ pos \in [{"scan", "count"} -> Seq(Nat \ {0})]
    /\ count \in Nat
    /\ to_scan_count \in Nat /\ scanned_count \in Nat
    /\ malware_count \in Nat /\ suspicious_count \in Nat
    /\ last_progress_value \in {Unknown} \cup 0..100
    /\ task \in [Places -> TaskStates]
    /\ detections \subseteq Nodes
    /\ shown \in EventStates /\ completed \in EventStates

\* The entries on the way to f, f included.
Path(f) == {SubSeq(f, 1, i) : i \in 1..Len(f)}

\* The entries readdir returns before p, in the same directory.
Before(p) == {[p EXCEPT ![Len(p)] = i] : i \in 1..(p[Len(p)] - 1)}

\* A walk of the tree finds f if it can open every directory on the way and
\* nothing on the way ends a loop early.
Found(f, stops) ==
    /\ f # <<>> => kind[<<>>] = "dir"
    /\ Len(f) > 1 => flags.recurse
    /\ \A p \in Path(f) : /\ p # f => kind[p] = "dir"
                          /\ \A b \in Before(p) : kind[b] \notin stops

Plain == {f \in Nodes : IsPlain(f)}

\* What the scan goes through, and what the count goes through.
ToScan == {f \in Plain : /\ Found(f, {"ioerror"} \cup (IF flags.recurse THEN {"unreadable"} ELSE {}))
                         /\ ~(flags.threaded /\ kind[f] = "nopath")}
ToCount == {f \in Plain : Found(f, {"ioerror"})}

(* The completed event comes after the last scan and its totals are those of *)
(* the files that were handed over: no increment is lost between the pool's  *)
(* threads, each file is scanned once, and each infected one is reported.    *)
CompletedTotals ==
    pc \in {"completed", "returned"} =>
        /\ completed.scanned = Cardinality(ToScan)
        /\ completed.malware = Cardinality({f \in ToScan : kind[f] = "MALWARE"})
        /\ completed.suspicious = Cardinality({f \in ToScan : kind[f] = "SUSPICIOUS"})
        /\ detections = {f \in ToScan : kind[f] \in Detected}

(* A progress event never shows more detections than scanned files, although *)
(* other threads count while it is put together: update_counters increments  *)
(* scanned_count first, fire_progress_event reads it last.                   *)
ShownConsistent == shown.malware + shown.suspicious <= shown.scanned

(* A listener that is told 100% can rely on it: every counted file has been  *)
(* scanned.  to_scan_count is set "only at the end, so that the scan         *)
(* function does not see the intermediate values".                           *)
HundredPercentMeansAll ==
    shown.progress = 100 => \A f \in ToCount : task[f].pc \notin {"none", "queued", "scan", "scanned"}

(* The number the counting thread publishes is the number of plain files in  *)
(* the directories that can be read.                                         *)
CountIsRight == counter = "done" => to_scan_count = Cardinality(ToCount)

(* When a6o_on_demand_run returns ("blocks until scan is finished, even if   *)
(* scan is multi-threaded"), no thread uses the scan any more: it is freed.  *)
QuietAfterReturn ==
    pc = "returned" => counter # "walk" /\ \A f \in Nodes : ~Live(f)

(* A scan that was started returns.                                          *)
Returns == <>(pc = "returned")

\* What a listener is told of a scan's progress is true while the threads of the pool and
\* the counting thread run: the count is that of the files the walk can reach, it is not
\* seen before it is complete, and 100% means that all of them were scanned.
ProgressTrue == TypeOK /\ CountIsRight /\ HundredPercentMeansAll
===============================================================================
