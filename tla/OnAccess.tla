------------------------------- MODULE OnAccess -------------------------------
(***************************************************************************)
(* The fanotify monitor of the Linux on-access module (famonitor.c,        *)
(* response.c, watchdog.c, queue.c) together with the part of the kernel   *)
(* it talks to.                                                            *)
(*                                                                         *)
(* A request is one open() of a file under a mark.  In permission mode the *)
(* kernel blocks the opener until the daemon writes an answer that names   *)
(* the event's descriptor; in notification mode it only sends the event.   *)
(* The monitor thread reads events in batches and makes two passes over a  *)
(* batch; files to scan go to a thread pool with no limit on its threads,  *)
(* so every pushed context has a thread of its own, named here by the      *)
(* request it was made for.                                                *)
(*                                                                         *)
(* The watchdog is compiled out (#undef ENABLE_WATCHDOG): EnableWatchdog = *)
(* FALSE is the code as built, TRUE the code behind the #ifdef.            *)
(***************************************************************************)
EXTENDS FileStatus, Sequences

CONSTANTS
    Requests,          \* open() calls; each happens at most once
    Fds,               \* descriptor numbers the kernel can give to events
    NoReq,             \* no request
    Verdicts,          \* what a6o_scan_context_scan may return
    EnablePermission,  \* f->enable_permission
    EnableWatchdog,    \* ENABLE_WATCHDOG
    MagicMarked,       \* libmagic's database lies under a marked directory or mount
    N_FD               \* most entries the watchdog takes from its queue at once

ASSUME FdsNat == Fds \subseteq Nat
ASSUME NoReqIsNone == NoReq \notin Requests
ASSUME VerdictsAreStatuses == Verdicts \subseteq FileStatuses
ASSUME Switches == EnablePermission \in BOOLEAN /\ EnableWatchdog \in BOOLEAN
                   /\ MagicMarked \in BOOLEAN
ASSUME ThreadNames == {"monitor", "watchdog"} \cap Requests = {}
ASSUME N_FDNat == N_FD \in Nat \ {0}

NoFd == -1

\* Threads of the daemon that write answers: the monitor thread, the watchdog
\* thread, and the pool thread of each request.
Actors == Requests \cup {"monitor", "watchdog"}

\* What the monitor finds the file to be: something stat_check refuses, a path on the
\* white list, a file whose type no module scans, or one a scan of which gives a verdict.
\* A file on the white list whose path cannot be found is one of the last two.
Kinds == {"special", "white", "untyped"} \cup Verdicts

VARIABLES
    event,    \* kernel: "none", "queued" (not read yet), "read"
    answer,   \* kernel: "none", "ALLOW", "DENY", or "NOFD" (denied, no descriptor left)
    own,      \* the opener is a thread of the daemon (event->pid == my_pid)
    kind,     \* what the file is
    evfd,     \* event->fd
    fdt,      \* fdt[n]: the request whose file descriptor n is open on
    pass1,    \* events of the batch the first pass has still to see
    pass2,    \* events of the batch the second pass has still to see
    blocked,  \* the request the monitor thread itself waits for
    magic,    \* the monitor thread has loaded its copy of libmagic's database
    queue,    \* the watchdog's queue of descriptors, newest first
    expired,  \* descriptors the watchdog took from the queue and must answer
    rw,       \* rw[a]: the response_write the thread a is in
    task,     \* task[r]: the pool thread working on the context made for r
    detection \* requests for which a detection event was fired

kernel  == <<event, answer, own, kind>>
monitor == <<pass1, pass2, blocked, magic>>
dog     == <<queue, expired>>
vars    == <<kernel, evfd, fdt, monitor, dog, rw, task, detection>>

Idle == [ph |-> "idle", fd |-> NoFd, ans |-> "none"]
NoTask == [pc |-> "none", fd |-> NoFd, path |-> FALSE, status |-> "UNDECIDED"]

Init ==
    /\ event = [r \in Requests |-> "none"]
    /\ answer = [r \in Requests |-> "none"]
    /\ own = [r \in Requests |-> FALSE]
    /\ kind = [r \in Requests |-> "special"]
    /\ evfd = [r \in Requests |-> NoFd]
    /\ fdt = [n \in Fds |-> NoReq]
    /\ pass1 = {} /\ pass2 = {} /\ blocked = NoReq
    /\ magic = FALSE   \* os_mime_type_init only loads the main thread's copy
    /\ queue = <<>> /\ expired = <<>>
    /\ rw = [a \in Actors |-> Idle]
    /\ task = [r \in Requests |-> NoTask]
    /\ detection = {}

-------------------------------------------------------------------------------
(* The kernel and the programs that open files.                            *)

Free == {n \in Fds : fdt[n] = NoReq}

\* A program (or, if mine, a thread of the daemon) opens a file of kind k under a mark.
Open(r, mine, k) ==
    /\ event[r] = "none"
    /\ event' = [event EXCEPT ![r] = "queued"]
    /\ own' = [own EXCEPT ![r] = mine]
    /\ kind' = [kind EXCEPT ![r] = k]
    /\ UNCHANGED <<answer, evfd, fdt, monitor, dog, rw, task, detection>>

\* Close a descriptor number; -1 stands for "nothing to close", and a number
\* that is not open gives EBADF, which the code only logs.
Closed(n) == [m \in Fds |-> IF m = n THEN NoReq ELSE fdt[m]]

\* The kernel looks the answered descriptor up among the events that wait for
\* an answer; an answer that matches none gives ENOENT, which the code only logs.
Answered(n, ans) ==
    [r \in Requests |-> IF event[r] = "read" /\ evfd[r] = n /\ answer[r] = "none"
                        THEN ans ELSE answer[r]]

-------------------------------------------------------------------------------
(* response_write: the answer is written, then the descriptor closed.      *)

Answering(a) == rw[a].ph # "idle"

StartResponse(a, n, ans) == rw' = [rw EXCEPT ![a] = [ph |-> "write", fd |-> n, ans |-> ans]]

ResponseWrite(a) ==
    /\ rw[a].ph = "write"
    /\ answer' = Answered(rw[a].fd, rw[a].ans)
    /\ rw' = [rw EXCEPT ![a].ph = "close"]
    /\ UNCHANGED <<event, own, kind, evfd, fdt, monitor, dog, task, detection>>

ResponseClose(a) ==
    /\ rw[a].ph = "close"
    /\ fdt' = Closed(rw[a].fd)
    /\ rw' = [rw EXCEPT ![a] = Idle]
    /\ UNCHANGED <<kernel, evfd, monitor, dog, task, detection>>

-------------------------------------------------------------------------------
(* The watchdog and its queue.                                             *)

\* queue_push puts a new entry at the head.
queue_push(n) == <<n>> \o queue

\* queue_pop_fd removes the first entry from the head that holds n.
queue_pop_fd(n) ==
    LET hits == {i \in 1..Len(queue) : queue[i] = n}
        k    == CHOOSE i \in hits : \A j \in hits : i <= j
    IN  SubSeq(queue, 1, k - 1) \o SubSeq(queue, k + 1, Len(queue))

watchdog_add(n) ==
    queue' = IF EnableWatchdog THEN queue_push(n) ELSE queue

\* Removed(n) is the value watchdog_remove returns; with the watchdog compiled
\* out it is always 1.
Removed(n) == ~EnableWatchdog \/ \E i \in 1..Len(queue) : queue[i] = n

\* if (watchdog_remove(n)) response_write(n, ans): what every answering site does.
RemoveAndRespond(a, n, ans) ==
    IF Removed(n)
    THEN /\ queue' = IF EnableWatchdog THEN queue_pop_fd(n) ELSE queue
         /\ StartResponse(a, n, ans)
    ELSE UNCHANGED <<queue, rw>>

\* Mutant: the expired entries stay in the queue.
MutWatchdogPeeks(k) ==
    /\ EnableWatchdog /\ expired = <<>> /\ ~Answering("watchdog")
    /\ k <= N_FD /\ k <= Len(queue)
    /\ expired' = [i \in 1..k |-> queue[Len(queue) + 1 - i]]
    /\ UNCHANGED <<kernel, evfd, fdt, monitor, queue, rw, task, detection>>

\* Mutant: the newest entry is never taken.
MutWatchdogKeepsNewest(k) ==
    /\ EnableWatchdog /\ expired = <<>> /\ ~Answering("watchdog")
    /\ k <= N_FD /\ k < Len(queue)
    /\ expired' = [i \in 1..k |-> queue[Len(queue) + 1 - i]]
    /\ queue' = SubSeq(queue, 1, Len(queue) - k)
    /\ UNCHANGED <<kernel, evfd, fdt, monitor, rw, task, detection>>

\* The watchdog thread wakes up and takes the oldest entries whose time is over,
\* from the tail, at most N_FD of them.  Only the monitor thread pushes, so the
\* queue is ordered by time.
WatchdogWakes(k) ==
    /\ EnableWatchdog /\ expired = <<>> /\ ~Answering("watchdog")
    /\ k <= N_FD /\ k <= Len(queue)
    /\ expired' = [i \in 1..k |-> queue[Len(queue) + 1 - i]]
    /\ queue' = SubSeq(queue, 1, Len(queue) - k)
    /\ UNCHANGED <<kernel, evfd, fdt, monitor, rw, task, detection>>

\* Mutant: only the first of the expired entries is answered.
MutWatchdogAllowsOne ==
    /\ expired # <<>> /\ ~Answering("watchdog")
    /\ StartResponse("watchdog", Head(expired), "ALLOW")
    /\ expired' = <<>>
    /\ UNCHANGED <<kernel, evfd, fdt, monitor, queue, task, detection>>

\* ... and allows each of them.
WatchdogAllows ==
    /\ expired # <<>> /\ ~Answering("watchdog")
    /\ StartResponse("watchdog", Head(expired), "ALLOW")
    /\ expired' = Tail(expired)
    /\ UNCHANGED <<kernel, evfd, fdt, monitor, queue, task, detection>>

-------------------------------------------------------------------------------
(* The monitor thread.                                                     *)

MonitorFree == blocked = NoReq /\ ~Answering("monitor")

\* fanotify_cb reads a batch: the kernel opens a descriptor for each event, from
\* the numbers that are free.
ReadBatch(S, f) ==
    /\ MonitorFree /\ pass1 = {} /\ pass2 = {}
    /\ S # {}
    /\ \A r \in S : event[r] = "queued" /\ f[r] \in Free
    /\ \A r, q \in S : r # q => f[r] # f[q]
    /\ event' = [r \in Requests |-> IF r \in S THEN "read" ELSE event[r]]
    /\ evfd' = [r \in Requests |-> IF r \in S THEN f[r] ELSE evfd[r]]
    /\ fdt' = [n \in Fds |-> IF \E r \in S : f[r] = n
                             THEN CHOOSE r \in S : f[r] = n ELSE fdt[n]]
    /\ pass1' = S /\ pass2' = S
    /\ UNCHANGED <<answer, own, kind, blocked, magic, dog, rw, task, detection>>

\* The kernel has no descriptor left for the next event: it drops the event,
\* denies the open if it was a permission event, and read() fails; fanotify_cb
\* logs the error and goes on.
ReadNoFd(r) ==
    /\ MonitorFree /\ pass1 = {} /\ pass2 = {}
    /\ event[r] = "queued" /\ Free = {}
    /\ event' = [event EXCEPT ![r] = "read"]
    /\ answer' = [answer EXCEPT ![r] = IF EnablePermission THEN "NOFD" ELSE "none"]
    /\ UNCHANGED <<own, kind, evfd, fdt, monitor, dog, rw, task, detection>>

\* fanotify_pass_1: allow what the daemon itself opens, give the watchdog the rest.
Pass1(r) ==
    /\ MonitorFree /\ r \in pass1
    /\ pass1' = pass1 \ {r}
    /\ IF EnablePermission
       THEN IF own[r] THEN StartResponse("monitor", evfd[r], "ALLOW") /\ UNCHANGED queue
                      ELSE watchdog_add(evfd[r]) /\ UNCHANGED rw
       ELSE UNCHANGED <<queue, rw>>
    /\ UNCHANGED <<kernel, evfd, fdt, pass2, blocked, magic, expired, task, detection>>

\* The monitor is about to handle the event r in the second pass.
InPass2(r) == MonitorFree /\ pass1 = {} /\ r \in pass2

\* What the monitor sees through the event's descriptor: the watchdog may have
\* answered and closed it since the batch was read.
SeenKind(n) == IF fdt[n] = NoReq THEN "special" ELSE kind[fdt[n]]

\* fanotify_pass_2 skips what the daemon itself opened, without closing it.
Pass2Own(r) ==
    /\ InPass2(r) /\ own[r]
    /\ pass2' = pass2 \ {r}
    /\ UNCHANGED <<kernel, evfd, fdt, pass1, blocked, magic, dog, rw, task, detection>>

\* stat_check refuses the file: allowed in permission mode; in notification mode
\* the function returns without closing the descriptor.
Pass2Special(r) ==
    /\ InPass2(r) /\ ~own[r] /\ SeenKind(evfd[r]) = "special"
    /\ pass2' = pass2 \ {r}
    /\ IF EnablePermission THEN RemoveAndRespond("monitor", evfd[r], "ALLOW")
                           ELSE UNCHANGED <<queue, rw>>
    /\ UNCHANGED <<kernel, evfd, fdt, pass1, blocked, magic, expired, task, detection>>

\* The first a6o_scan_context_get that guesses a type loads libmagic's database in
\* the calling thread.  A database under a mark makes an event of its own; in
\* permission mode open() then returns to the monitor thread only after an answer,
\* which takes a read() by this very thread: no action below ends the wait.
NeedsMagic(r) == ~magic /\ SeenKind(evfd[r]) \notin {"special", "white"}

LoadMagic(r) ==
    /\ InPass2(r) /\ ~own[r] /\ NeedsMagic(r)
    /\ magic' = TRUE
    /\ IF MagicMarked
       THEN \E q \in Requests :
               /\ event[q] = "none"
               /\ event' = [event EXCEPT ![q] = "queued"]
               /\ own' = [own EXCEPT ![q] = TRUE]
               /\ blocked' = IF EnablePermission THEN q ELSE NoReq
       ELSE UNCHANGED <<event, own, blocked>>
    /\ UNCHANGED <<answer, kind, evfd, fdt, pass1, pass2, dog, rw, task, detection>>

\* a6o_scan_context_get says "not scanned".  Permission mode answers and keeps
\* a6o_scan_context_destroy from closing again; notification mode lets it close.
Pass2NotScanned(r) ==
    /\ InPass2(r) /\ ~own[r] /\ ~NeedsMagic(r)
    /\ SeenKind(evfd[r]) \in {"white", "untyped"}
    /\ pass2' = pass2 \ {r}
    /\ IF EnablePermission
       THEN RemoveAndRespond("monitor", evfd[r], "ALLOW") /\ UNCHANGED fdt
       ELSE fdt' = Closed(evfd[r]) /\ UNCHANGED <<queue, rw>>
    /\ UNCHANGED <<kernel, evfd, pass1, blocked, magic, expired, task, detection>>

\* The file is to be scanned: its context goes to the pool, with the path that readlink
\* finds for the descriptor.  There is none if it fails, and none for descriptor 0.
Pass2Push(r) ==
    /\ InPass2(r) /\ ~own[r] /\ ~NeedsMagic(r)
    /\ SeenKind(evfd[r]) \in Verdicts
    /\ pass2' = pass2 \ {r}
    /\ \E found \in BOOLEAN :
          task' = [task EXCEPT ![r] = [NoTask EXCEPT !.pc = "scan", !.fd = evfd[r], !.path = found]]
    /\ UNCHANGED <<kernel, evfd, fdt, pass1, blocked, magic, dog, rw, detection>>

-------------------------------------------------------------------------------
(* scan_file_thread_fun, in the pool thread of the context made for r.     *)

\* a6o_scan_context_scan reads the file through the descriptor.  One that was
\* closed under it (by the watchdog) cannot be rewound: IERROR.
ScanVerdict(n) ==
    IF fdt[n] = NoReq THEN "IERROR"
    ELSE IF kind[fdt[n]] \in Verdicts THEN kind[fdt[n]] ELSE "UNDECIDED"

\* Mutant: a suspicious file is scanned again and again.
MutScanRetries(r) ==
    /\ task[r].pc = "scan" /\ ScanVerdict(task[r].fd) # "SUSPICIOUS"
    /\ task' = [task EXCEPT ![r].pc = "respond", ![r].status = ScanVerdict(task[r].fd)]
    /\ UNCHANGED <<kernel, evfd, fdt, monitor, dog, rw, detection>>

Scan(r) ==
    /\ task[r].pc = "scan"
    /\ task' = [task EXCEPT ![r].pc = "respond", ![r].status = ScanVerdict(task[r].fd)]
    /\ UNCHANGED <<kernel, evfd, fdt, monitor, dog, rw, detection>>

\* Mutant: the context keeps the descriptor that response_write closes.
MutRespondKeepsFd(r) ==
    /\ task[r].pc = "respond"
    /\ task' = [task EXCEPT ![r].pc = "destroy"]
    /\ IF EnablePermission
       THEN RemoveAndRespond(r, task[r].fd,
                             IF task[r].status = "MALWARE" THEN "DENY" ELSE "ALLOW")
       ELSE UNCHANGED <<queue, rw>>
    /\ UNCHANGED <<kernel, evfd, fdt, monitor, expired, detection>>

\* Mutant: whatever was detected is refused.
MutRespondDetected(r) ==
    /\ task[r].pc = "respond"
    /\ RemoveAndRespond(r, task[r].fd, IF task[r].status \in Detected THEN "DENY" ELSE "ALLOW")
    /\ task' = [task EXCEPT ![r].pc = "destroy", ![r].fd = NoFd]
    /\ UNCHANGED <<kernel, evfd, fdt, monitor, expired, detection>>

\* The answer; the context forgets the descriptor that response_write closes.
Respond(r) ==
    /\ task[r].pc = "respond"
    /\ IF EnablePermission
       THEN /\ RemoveAndRespond(r, task[r].fd,
                                IF task[r].status = "MALWARE" THEN "DENY" ELSE "ALLOW")
            /\ task' = [task EXCEPT ![r].pc = "destroy", ![r].fd = NoFd]
       ELSE task' = [task EXCEPT ![r].pc = "destroy"] /\ UNCHANGED <<queue, rw>>
    /\ UNCHANGED <<kernel, evfd, fdt, monitor, expired, detection>>

\* a6o_scan_context_destroy closes the descriptor the context still has.
Destroy(r) ==
    /\ task[r].pc = "destroy" /\ ~Answering(r)
    /\ fdt' = Closed(task[r].fd)
    /\ task' = [task EXCEPT ![r].pc = "fire", ![r].fd = NoFd]
    /\ UNCHANGED <<kernel, evfd, monitor, dog, rw, detection>>

\* Mutant: a file whose opening was refused is not reported.
MutFireUnlessDenied(r) ==
    /\ task[r].pc = "fire"
    /\ detection' = IF task[r].status \in Detected /\ task[r].path /\ answer[r] # "DENY"
                    THEN detection \cup {r} ELSE detection
    /\ task' = [task EXCEPT ![r].pc = "done"]
    /\ UNCHANGED <<kernel, evfd, fdt, monitor, dog, rw>>

\* The detection event, after the answer.
Fire(r) ==
    /\ task[r].pc = "fire"
    /\ detection' = IF task[r].status \in Detected /\ task[r].path
                    THEN detection \cup {r} ELSE detection
    /\ task' = [task EXCEPT ![r].pc = "done"]
    /\ UNCHANGED <<kernel, evfd, fdt, monitor, dog, rw>>

-------------------------------------------------------------------------------
Read == \/ \E S \in SUBSET Requests : \E f \in [S -> Fds] : ReadBatch(S, f)
        \/ \E r \in Requests : ReadNoFd(r)

Pass2(r) == Pass2Own(r) \/ Pass2Special(r) \/ LoadMagic(r) \/ Pass2NotScanned(r)
            \/ Pass2Push(r)

ResponseStep(a) == ResponseWrite(a) \/ ResponseClose(a)

Monitor == \/ Read
           \/ \E r \in Requests : Pass1(r) \/ Pass2(r)
           \/ ResponseStep("monitor")

Pool(r) == Scan(r) \/ Respond(r) \/ Destroy(r) \/ Fire(r) \/ ResponseStep(r)

Watchdog == \/ \E k \in 1..N_FD : WatchdogWakes(k)
            \/ WatchdogAllows
            \/ ResponseStep("watchdog")

Next == \/ \E r \in Requests, mine \in BOOLEAN, k \in Kinds : Open(r, mine, k)
        \/ \E r \in Requests : Pool(r)
        \/ Monitor
        \/ Watchdog

Spec == Init /\ [][Next]_vars

\* The daemon's threads are scheduled and a scan ends; programs need not open files.
FairSpec == /\ Spec
            /\ WF_vars(Monitor)
            /\ WF_vars(Watchdog)
            /\ \A r \in Requests : WF_vars(Pool(r))

\* A module may never return from its scan function: only the other steps of a
\* pool thread are fair.
HungScanSpec == /\ Spec
                /\ WF_vars(Monitor)
                /\ WF_vars(Watchdog)
                /\ \A r \in Requests :
                      WF_vars(Respond(r) \/ Destroy(r) \/ Fire(r) \/ ResponseStep(r))
-------------------------------------------------------------------------------
ResponseStates == [ph : {"idle", "write", "close"}, fd : Fds \cup {NoFd},
                   ans : {"none", "ALLOW", "DENY"}]
TaskStates == [pc : {"none", "scan", "respond", "destroy", "fire", "done"},
               fd : Fds \cup {NoFd}, path : BOOLEAN, status : FileStatuses]

\* The types of the variables.
TypeOK ==
    /\ event \in [Requests -> {"none", "queued", "read"}]
    /\ answer \in [Requests -> {"none", "ALLOW", "DENY", "NOFD"}]
    /\ own \in [Requests -> BOOLEAN]
    /\ kind \in [Requests -> Kinds]
    /\ evfd \in [Requests -> Fds \cup {NoFd}]
    /\ fdt \in [Fds -> Requests \cup {NoReq}]
    /\ pass1 \subseteq Requests /\ pass2 \subseteq Requests
    /\ blocked \in Requests \cup {NoReq}
    /\ magic \in BOOLEAN
    /\ queue \in Seq(Fds) /\ expired \in Seq(Fds)
    /\ rw \in [Actors -> ResponseStates]
    /\ task \in [Requests -> TaskStates]
    /\ detection \subseteq Requests

\* The kernel waits for the daemon's answer to r.
Waiting(r) == EnablePermission /\ event[r] = "read" /\ answer[r] = "none"

(* A file a scan finds to be MALWARE is never opened, and nothing else is    *)
(* refused except for want of a descriptor: the answer of each request is    *)
(* the one for its own file, whatever other requests were in flight and      *)
(* whichever descriptor numbers were reused (scan_file_thread_fun, passes).  *)
AnswerFitsFile ==
    \A r \in Requests :
        /\ answer[r] = "DENY" => ~own[r] /\ kind[r] = "MALWARE"
        /\ answer[r] = "ALLOW" => own[r] \/ kind[r] # "MALWARE"

(* As long as the kernel waits for an answer, the event's descriptor is open *)
(* on that very file: nobody closed it early and nobody reused its number    *)
(* ("this will prevent a6o_scan_context_destroy from closing the file        *)
(* descriptor twice").                                                       *)
DescriptorHeld == \A r \in Requests : Waiting(r) => fdt[evfd[r]] = r

(* The file a pool thread reads is the file of the event its context was     *)
(* made for, although only the descriptor's number was handed over.          *)
ScansItsOwnFile ==
    \A r \in Requests : task[r].pc \in {"scan", "respond"} => fdt[task[r].fd] = r

(* Every answer reaches a waiting request: no thread is about to answer a    *)
(* descriptor somebody else already answered, and no two threads answer the  *)
(* same one (what watchdog_remove is there to arbitrate).                    *)
NoStrayAnswer ==
    \A a \in Actors :
        /\ rw[a].ph = "write" =>
              \E r \in Requests : Waiting(r) /\ evfd[r] = rw[a].fd
        /\ Answering(a) => \A b \in Actors \ {a} : rw[b].fd # rw[a].fd

\* Some thread still has the descriptor n of request r in hand.
InHand(n, r) ==
    \/ r \in pass1 \/ (r \in pass2 /\ ~own[r])
    \/ \E a \in Actors : rw[a].fd = n
    \/ task[r].fd = n
    \/ \E i \in 1..Len(expired) : expired[i] = n

(* A descriptor received with an event is never lost: some thread has it in  *)
(* hand until it is closed.  Notification mode has two exceptions, events of *)
(* the daemon itself (pass 2 skips them) and files stat_check refuses.       *)
NoDescriptorLost ==
    \A n \in Fds : fdt[n] # NoReq =>
        \/ InHand(n, fdt[n])
        \/ ~EnablePermission /\ (own[fdt[n]] \/ kind[fdt[n]] = "special")

(* Listeners (among them the quarantine) hear of a detection only after the  *)
(* opener has got its answer, and only of a file found infected.             *)
DetectionAfterAnswer ==
    \A r \in detection :
        /\ EnablePermission => answer[r] # "none"
        /\ kind[r] \in Detected

(* The monitor thread, the only one that answers, never waits for an answer  *)
(* itself: os_mime_type_init pre-loads libmagic's database "to avoid a       *)
(* dead-lock for the first scanned file".                                    *)
MonitorNeverWaits == blocked = NoReq

(* Every open the kernel asks about is answered.                             *)
EveryOpenAnswered ==
    \A r \in Requests : (EnablePermission /\ event[r] = "queued") ~> answer[r] # "none"

(* An open that was refused is reported to the listeners.                    *)
DenialReported ==
    \A r \in Requests : (answer[r] = "DENY") ~> (r \in detection \/ ~task[r].path)

\* What a program sees of a request.
gateView == [r \in Requests |-> IF event[r] = "none" THEN "none"
                                ELSE IF answer[r] = "none" THEN "asked" ELSE answer[r]]

Gate == INSTANCE PermissionGate WITH gate <- gateView

(* The monitor, its pool and the watchdog implement the abstract gate: one   *)
(* answer per open, the right one for its file, and it comes.                *)
ImplementsGate == Gate!GateSpec
===============================================================================
