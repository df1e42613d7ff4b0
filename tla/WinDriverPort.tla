---------------------------- MODULE WinDriverPort ----------------------------
(***************************************************************************)
(* On-access scanning of the Windows service (service/scan_onaccess.c):    *)
(* UserScanInit connects to the driver's port and starts the worker        *)
(* threads, UserScanWorker answers the driver's messages, UserScanFinalize *)
(* stops the workers and closes the port.                                  *)
(*                                                                         *)
(* A worker receives messages in buffers: FilterGetMessage gives an empty  *)
(* buffer to the filter manager, which returns it through the completion   *)
(* port, filled with a message or cancelled.  There is one buffer per      *)
(* worker, but any worker may receive any of them.  Workers that a failed  *)
(* UserScanInit leaves behind find the context of the next one.            *)
(***************************************************************************)
EXTENDS FileStatus, FiniteSets, Sequences

CONSTANTS
    Threads,      \* number of workers, USER_SCAN_THREAD_COUNT
    Opens,        \* the opens of files the driver asks about, each at most once
    Verdict,      \* Verdict[o]: what a6o_scan_simple says of the file of the open o
    Device,       \* Device[o]: the device of that file
    Drives,       \* the devices of the drive letters, in the order of GetLogicalDriveStrings
    Occurs,       \* pairs <<d, o>>: the name of the device d occurs in the name of the file of o
    MaxStarts,    \* bound on calls of UserScanInit
    MaxFaults     \* bound on system calls that fail

ASSUME ThreadsAssumption == Threads \in Nat \ {0}
ASSUME OpensAssumption == "empty" \notin Opens
ASSUME VerdictAssumption == Verdict \in [Opens -> FileStatuses]
ASSUME DrivesAssumption ==
    /\ DOMAIN Drives = 1..Len(Drives) /\ Len(Drives) \in Nat
    /\ \A i \in DOMAIN Drives : Drives[i] # "none"
    /\ \A i, j \in DOMAIN Drives : Drives[i] = Drives[j] => i = j
ASSUME OccursAssumption == \A o \in Opens : <<Device[o], o>> \in Occurs
ASSUME BoundsAssumption == MaxStarts \in Nat /\ MaxFaults \in Nat

Workers == (1..MaxStarts) \X (1..Threads)   \* those of each call of UserScanInit
Buffers == (1..MaxStarts) \X (1..Threads)
NoBuffer == <<0, 0>>
NoOpen == "empty"

VARIABLES
    ctl,         \* of the thread in UserScanInit or UserScanFinalize; "idle": in neither
    starts,      \* calls of UserScanInit so far
    live,        \* Context->onAccessCtx points to a context
    connected,   \* its ConnectionPort is open
    completion,  \* its Completion port is open
    ctxes,       \* its ScanThreadCtxes is set
    Finalized,   \* its flag
    state_flag,  \* of the module on-access
    pumped,      \* buffers UserScanInit has given to the filter manager
    pc, held,    \* of each worker, and the buffer it works on
    result,      \* scan_result of each worker
    gets,        \* buffers with the filter manager
    packets,     \* what waits in the completion port
    content,     \* content[b]: the open whose message is in the buffer b
    open,        \* state of each open: idle, asked, released, or the answer
    faults,      \* system calls that failed
    unnamed,     \* opens whose file name could not be converted
    undelivered, \* opens that wait, whose answer FilterReplyMessage failed to send
    lateFailure, \* UserScanInit failed with workers already running
    strayed,     \* a worker of an earlier call waited at the port of a later one
    wild         \* a worker used the context when there was none, which ends the process

ctxVars == <<live, connected, completion, ctxes, Finalized, state_flag>>
wVars   == <<pc, held, result>>
msgVars == <<gets, packets, content, open>>
aVars   == <<unnamed, undelivered>>
ghosts  == <<lateFailure, strayed, wild>>
vars    == <<ctl, starts, pumped, faults, ctxVars, wVars, msgVars, aVars, ghosts>>

Init ==
    /\ ctl = "idle" /\ starts = 0 /\ pumped = 0
    /\ live = FALSE /\ connected = FALSE /\ completion = FALSE /\ ctxes = FALSE
    /\ Finalized = FALSE /\ state_flag = 0
    /\ pc = [w \in Workers |-> "none"] /\ held = [w \in Workers |-> NoBuffer]
    /\ result = [w \in Workers |-> "IERROR"]
    /\ gets = {} /\ packets = {} /\ content = [b \in Buffers |-> NoOpen]
    /\ open = [o \in Opens |-> "idle"]
    /\ faults = 0 /\ unnamed = {} /\ undelivered = {}
    /\ lateFailure = FALSE /\ strayed = FALSE /\ wild = FALSE

\* A system call fails, or none does.
Fault == faults < MaxFaults /\ faults' = faults + 1
NoFault == UNCHANGED faults

-----------------------------------------------------------------------------
(* The name of the file.                                                   *)

\* The device whose drive letter ConvertDeviceNameToMsDosName puts before the rest of
\* the name: the first one whose name occurs (strstr) in the device name of the file.
ConvertDeviceNameToMsDosName(o) ==
    LET hits == {i \in DOMAIN Drives : <<Drives[i], o>> \in Occurs}
    IN  IF hits = {} THEN "none" ELSE Drives[CHOOSE i \in hits : \A j \in hits : i <= j]

\* The result of the scan of what the conversion names, if no system call of it fails: no file
\* has the name it builds with the letter of another device.
ScanResult(o) ==
    LET d == ConvertDeviceNameToMsDosName(o)
    IN  IF d = "none" THEN "EINVAL" ELSE IF d = Device[o] THEN Verdict[o] ELSE "IERROR"

-----------------------------------------------------------------------------
(* UserScanInit.                                                           *)

\* The workers of this call.
Current == {w \in Workers : w[1] = starts}

\* Allocation, and CreateThread for every worker, suspended.
InitThreads ==
    /\ ctl = "idle" /\ ~live /\ starts < MaxStarts
    /\ starts' = starts + 1 /\ pumped' = 0
    /\ live' = TRUE /\ Finalized' = FALSE
    /\ \/ /\ pc' = [w \in Workers |-> IF w[1] = starts + 1 THEN "suspended" ELSE pc[w]]
          /\ ctl' = "connect" /\ NoFault
       \/ ctl' = "fail" /\ Fault /\ UNCHANGED pc   \* threads created so far stay suspended
    /\ UNCHANGED <<connected, completion, ctxes, state_flag, held, result, msgVars, aVars, ghosts>>

\* FilterConnectCommunicationPort, CreateIoCompletionPort, and the fields the workers read.
InitConnect ==
    /\ ctl = "connect"
    /\ \/ /\ connected' = TRUE /\ completion' = TRUE
          /\ Finalized' = FALSE /\ ctxes' = TRUE
          /\ ctl' = "resume" /\ NoFault
       \/ /\ connected' \in BOOLEAN
          /\ ctl' = "fail" /\ Fault /\ UNCHANGED <<completion, Finalized, ctxes>>
    /\ UNCHANGED <<starts, pumped, live, state_flag, wVars, msgVars, aVars, ghosts>>

\* ResumeThread for every worker; it may fail for one after it resumed others.
InitResume ==
    /\ ctl = "resume"
    /\ \E k \in 0..Threads :
          /\ pc' = [w \in Workers |-> IF w \in Current /\ w[2] <= k THEN "start" ELSE pc[w]]
          /\ IF k = Threads THEN ctl' = "pump" /\ NoFault ELSE ctl' = "fail" /\ Fault
          /\ lateFailure' = (lateFailure \/ k \in 1..(Threads - 1))
    /\ UNCHANGED <<starts, pumped, ctxVars, held, result, msgVars, aVars, strayed, wild>>

\* One buffer is allocated and given to the filter manager, which may refuse it.
InitPump ==
    /\ ctl = "pump" /\ pumped < Threads
    /\ \/ /\ gets' = gets \cup {<<starts, pumped + 1>>} /\ pumped' = pumped + 1
          /\ NoFault /\ UNCHANGED <<ctl, lateFailure>>
       \/ ctl' = "fail" /\ Fault /\ lateFailure' = TRUE /\ UNCHANGED <<gets, pumped>>
    /\ UNCHANGED <<starts, ctxVars, wVars, packets, content, open, aVars, strayed, wild>>

toggle_onaccess_state == state_flag' = 1 - state_flag

InitDone ==
    /\ ctl = "pump" /\ pumped = Threads
    /\ ctl' = "idle"
    /\ toggle_onaccess_state
    /\ NoFault /\ UNCHANGED <<starts, pumped, live, connected, completion, ctxes, Finalized, wVars, msgVars, aVars, ghosts>>

\* What the driver still waits for is released when the port is closed, the calls of
\* GetQueuedCompletionStatus fail, buffers no worker holds are never seen again, and nothing
\* resumes the threads that are suspended.
Released == [o \in Opens |-> IF open[o] = "asked" THEN "released" ELSE open[o]]

ClosePorts ==
    /\ connected' = FALSE /\ completion' = FALSE /\ ctxes' = FALSE
    /\ gets' = {} /\ packets' = {} /\ open' = Released
    /\ undelivered' = {}
    /\ content' = [b \in Buffers |-> IF \E w \in Workers : held[w] = b THEN content[b] ELSE NoOpen]
    /\ pc' = [w \in Workers |-> CASE pc[w] = "wait" -> "exited"
                                [] pc[w] = "suspended" -> "none"
                                [] OTHER -> pc[w]]

\* The __finally block: handles are closed and the contexts freed, whatever the workers do.
InitFail ==
    /\ ctl = "fail"
    /\ ctl' = "idle"
    /\ live' = FALSE /\ ClosePorts
    /\ NoFault /\ UNCHANGED <<starts, pumped, Finalized, state_flag, held, result, unnamed, ghosts>>

-----------------------------------------------------------------------------
(* The driver: a thread that opens a file waits until its message is       *)
(* answered.                                                               *)

Ask(o) ==
    /\ open[o] = "idle" /\ connected
    /\ \E b \in gets :
          /\ gets' = gets \ {b}
          /\ packets' = packets \cup {[buffer |-> b, ok |-> TRUE]}
          /\ content' = [content EXCEPT ![b] = o]
    /\ open' = [open EXCEPT ![o] = "asked"]
    /\ NoFault /\ UNCHANGED <<ctl, starts, pumped, ctxVars, wVars, aVars, ghosts>>

-----------------------------------------------------------------------------
(* UserScanWorker.                                                         *)

Goto(w, l) == pc' = [pc EXCEPT ![w] = l]

\* A step of w that dereferences Context->onAccessCtx before it goes on at l.
Uses(w, l) ==
    IF live THEN Goto(w, l) /\ UNCHANGED wild
            ELSE Goto(w, "exited") /\ wild' = TRUE

wUnchanged == UNCHANGED <<ctl, starts, pumped, ctxVars, lateFailure>>
aUnchanged == UNCHANGED <<aVars, strayed>>

\* Wow64DisableWow64FsRedirection, and the search of the thread's own context, which a worker
\* of an earlier call does not find.
WorkerStart(w) ==
    /\ pc[w] = "start"
    /\ \/ Goto(w, "exited") /\ Fault /\ UNCHANGED wild
       \/ ctxes /\ Uses(w, IF w \in Current THEN "call" ELSE "exited") /\ NoFault
       \/ ~ctxes /\ Goto(w, "exited") /\ wild' = TRUE /\ NoFault
    /\ UNCHANGED <<held, result, msgVars>> /\ wUnchanged /\ aUnchanged

\* GetQueuedCompletionStatus is called: it fails if there is no completion port yet.
WorkerCall(w) ==
    /\ pc[w] = "call"
    /\ Uses(w, IF completion THEN "wait" ELSE "exited")
    /\ strayed' = (strayed \/ (completion /\ w \notin Current))
    /\ UNCHANGED <<held, result, msgVars, aVars>> /\ NoFault /\ wUnchanged

\* It returns a message.
WorkerReceive(w) ==
    /\ pc[w] = "wait"
    /\ \E p \in packets :
          /\ p.ok
          /\ packets' = packets \ {p}
          /\ held' = [held EXCEPT ![w] = p.buffer]
    /\ Goto(w, "scan")
    /\ UNCHANGED <<result, gets, content, open, wild>> /\ NoFault /\ wUnchanged /\ aUnchanged

\* Mutant: a worker whose request was cancelled waits for the next.
MutWokenGoesOn(w) ==
    /\ pc[w] = "wait"
    /\ \E p \in packets : ~p.ok /\ packets' = packets \ {p}
    /\ Goto(w, "call")
    /\ UNCHANGED <<held, result, gets, content, open, wild>> /\ NoFault /\ wUnchanged /\ aUnchanged

\* It fails: a request was cancelled.  (ClosePorts has the other case.)
WorkerWoken(w) ==
    /\ pc[w] = "wait"
    /\ \E p \in packets : ~p.ok /\ packets' = packets \ {p}
    /\ Goto(w, "exited")
    /\ UNCHANGED <<held, result, gets, content, open, wild>> /\ NoFault /\ wUnchanged /\ aUnchanged

\* Mutant: the buffer goes back to the filter manager before the reply is sent.
MutScanRearms(w) ==
    /\ pc[w] = "scan"
    /\ result' = [result EXCEPT ![w] = ScanResult(content[held[w]])]
    /\ gets' = gets \cup {held[w]}
    /\ Goto(w, "reply")
    /\ UNCHANGED <<held, packets, content, open, wild>> /\ NoFault /\ wUnchanged /\ aUnchanged

\* The conversion of the name and a6o_scan_simple.  GetLogicalDriveStrings or QueryDosDevice
\* may fail, the latter for the letter of another drive too: there is no name then.
WorkerScan(w) ==
    LET o == content[held[w]] IN
    /\ pc[w] = "scan"
    /\ \/ result' = [result EXCEPT ![w] = ScanResult(o)] /\ NoFault /\ UNCHANGED unnamed
       \/ result' = [result EXCEPT ![w] = "EINVAL"] /\ Fault /\ unnamed' = unnamed \cup {o}
    /\ Goto(w, "reply")
    /\ UNCHANGED <<held, msgVars, undelivered, strayed, wild>> /\ wUnchanged

\* FilterReplyMessage to the message in the buffer.  It may fail, and is not tried again.
WorkerReply(w) ==
    LET o == content[held[w]] IN
    /\ pc[w] = "reply"
    /\ \/ /\ connected /\ open[o] = "asked"
          /\ open' = [open EXCEPT ![o] = result[w]]
          /\ Uses(w, IF result[w] = "MALWARE" THEN "rescan" ELSE "check")
          /\ NoFault /\ UNCHANGED undelivered
       \/ /\ open[o] = "asked" /\ undelivered' = undelivered \cup {o}
          /\ Uses(w, "check") /\ Fault /\ UNCHANGED open
       \/ /\ open[o] # "asked"   \* the port of the message is closed
          /\ Uses(w, "check") /\ NoFault /\ UNCHANGED <<open, undelivered>>
    /\ UNCHANGED <<held, result, gets, packets, content, unnamed, strayed>> /\ wUnchanged

\* The second scan of an infected file, after the answer.
WorkerRescan(w) ==
    /\ pc[w] = "rescan"
    /\ result' = [result EXCEPT ![w] = ScanResult(content[held[w]])]
    /\ Goto(w, "check")
    /\ UNCHANGED <<held, msgVars, wild>> /\ NoFault /\ wUnchanged /\ aUnchanged

WorkerCheck(w) ==
    /\ pc[w] = "check"
    /\ Uses(w, IF Finalized THEN "exited" ELSE "rearm")
    /\ held' = IF Finalized THEN [held EXCEPT ![w] = NoBuffer] ELSE held
    /\ result' = [result EXCEPT ![w] = "IERROR"]   \* not read before the next scan
    /\ UNCHANGED msgVars /\ NoFault /\ wUnchanged /\ aUnchanged

\* FilterGetMessage, which may fail: then the worker ends.
WorkerRearm(w) ==
    /\ pc[w] = "rearm"
    /\ \/ connected /\ gets' = gets \cup {held[w]} /\ Uses(w, "call") /\ NoFault
       \/ ~connected /\ Uses(w, "exited") /\ NoFault /\ UNCHANGED gets
       \/ Uses(w, "exited") /\ Fault /\ UNCHANGED gets
    /\ held' = [held EXCEPT ![w] = NoBuffer]
    /\ content' = [content EXCEPT ![held[w]] = NoOpen]
    /\ UNCHANGED <<result, packets, open>> /\ wUnchanged /\ aUnchanged

-----------------------------------------------------------------------------
(* UserScanFinalize, and the reset of onAccessCtx by its caller.           *)

FinalizeFlag ==
    /\ ctl = "idle" /\ live /\ ctxes
    /\ Finalized' = TRUE
    /\ ctl' = "cancel"
    /\ NoFault /\ UNCHANGED <<starts, pumped, live, connected, completion, ctxes, state_flag, wVars, msgVars, aVars, ghosts>>

\* CancelIoEx: every buffer with the filter manager comes back, cancelled.
FinalizeCancel ==
    /\ ctl = "cancel"
    /\ packets' = packets \cup {[buffer |-> b, ok |-> FALSE] : b \in gets}
    /\ gets' = {}
    /\ ctl' = "join"
    /\ NoFault /\ UNCHANGED <<starts, pumped, ctxVars, wVars, content, open, aVars, ghosts>>

\* Mutant: WaitForMultipleObjects returns when one thread has ended.
MutJoinAny ==
    /\ ctl = "join" /\ \E w \in Current : pc[w] = "exited"
    /\ ctl' = "close"
    /\ NoFault /\ UNCHANGED <<starts, pumped, ctxVars, wVars, msgVars, aVars, ghosts>>

\* WaitForMultipleObjects on all threads of this start.
FinalizeJoin ==
    /\ ctl = "join" /\ \A w \in Current : pc[w] = "exited"
    /\ ctl' = "close"
    /\ NoFault /\ UNCHANGED <<starts, pumped, ctxVars, wVars, msgVars, aVars, ghosts>>

FinalizeClose ==
    /\ ctl = "close"
    /\ ctl' = "idle"
    /\ ClosePorts /\ live' = FALSE
    /\ toggle_onaccess_state
    /\ NoFault /\ UNCHANGED <<starts, pumped, Finalized, held, result, unnamed, ghosts>>

-----------------------------------------------------------------------------
Worker(w) ==
    /\ ~wild
    /\ \/ WorkerStart(w) \/ WorkerCall(w) \/ WorkerReceive(w) \/ WorkerWoken(w) \/ WorkerScan(w)
       \/ WorkerReply(w) \/ WorkerRescan(w) \/ WorkerCheck(w) \/ WorkerRearm(w)

InitGoesOn == ~wild /\ (InitConnect \/ InitResume \/ InitPump \/ InitDone \/ InitFail)
FinalizeGoesOn == ~wild /\ (FinalizeCancel \/ FinalizeJoin \/ FinalizeClose)

UserScanInit == (~wild /\ InitThreads) \/ InitGoesOn
UserScanFinalize == (~wild /\ FinalizeFlag) \/ FinalizeGoesOn

Next ==
    \/ UserScanInit \/ UserScanFinalize
    \/ \E w \in Workers : Worker(w)
    \/ \E o \in Opens : ~wild /\ Ask(o)

Spec == Init /\ [][Next]_vars

\* Threads that can run do run; nothing makes the service stop or a program open a file.
FairSpec ==
    /\ Spec
    /\ \A w \in Workers : WF_vars(Worker(w))
    /\ WF_vars(InitGoesOn) /\ WF_vars(FinalizeGoesOn)

-----------------------------------------------------------------------------
(* Properties.                                                             *)

Packets == [buffer : Buffers, ok : BOOLEAN]

\* The variables keep their types.
TypeOK ==
    /\ ctl \in {"idle", "connect", "resume", "pump", "fail", "cancel", "join", "close"}
    /\ starts \in 0..MaxStarts /\ pumped \in 0..Threads
    /\ live \in BOOLEAN /\ connected \in BOOLEAN /\ completion \in BOOLEAN /\ ctxes \in BOOLEAN
    /\ Finalized \in BOOLEAN /\ state_flag \in {0, 1}
    /\ pc \in [Workers -> {"none", "suspended", "start", "call", "wait", "scan", "reply",
                           "rescan", "check", "rearm", "exited"}]
    /\ held \in [Workers -> Buffers \cup {NoBuffer}] /\ result \in [Workers -> FileStatuses]
    /\ gets \subseteq Buffers /\ packets \subseteq Packets
    /\ content \in [Buffers -> Opens \cup {NoOpen}]
    /\ open \in [Opens -> FileStatuses \cup {"idle", "asked", "released"}]
    /\ faults \in 0..MaxFaults /\ unnamed \subseteq Opens /\ undelivered \subseteq Opens
    /\ lateFailure \in BOOLEAN /\ strayed \in BOOLEAN /\ wild \in BOOLEAN

\* The name of no other drive's device occurs in the name of the file of o.
Unambiguous(o) ==
    /\ \E i \in DOMAIN Drives : Drives[i] = Device[o]
    /\ \A i \in DOMAIN Drives : <<Drives[i], o>> \in Occurs => Drives[i] = Device[o]

\* The driver gets, for each open, the verdict on the file of that very open, although the
\* workers exchange buffers and the driver refills them as soon as they are given back
\* (UserScanWorker gives a buffer back only after the reply), or EINVAL if its name could not
\* be converted.  Files whose device name contains that of another drive are excepted: strstr
\* picks the wrong drive for them.
AnswerFitsOpen ==
    \A o \in Opens : open[o] \in FileStatuses /\ Unambiguous(o) =>
        open[o] = IF o \in unnamed THEN "EINVAL" ELSE Verdict[o]

\* A worker dereferences Context->onAccessCtx only while it is there, provided that
\* UserScanInit did not fail after it had resumed the workers: UserScanFinalize frees the
\* context when the last worker has ended, and the fields are set before the first runs.
ContextOutlivesWorkers == wild => lateFailure

\* Between calls of UserScanInit and UserScanFinalize the module on-access says that it is
\* active (state_flag, shown by mod_onaccess_info) exactly if the port is connected, though
\* both functions only toggle the flag and either may fail.
FlagTellsConnection == ctl = "idle" => (state_flag = 1 <=> connected)

\* UserScanFinalize ends, unless a worker that had tested Finalized before it was set gave
\* its buffer to the filter manager after CancelIoEx (nothing cancels that request), or a
\* worker that a failed start left behind waited at this start's port: it takes the packet
\* that should wake another one.  WaitForMultipleObjects has no time-out.  (A worker that
\* finds no context ends the process.)
FinalizeEnds == (ctl = "cancel") ~> (ctl = "idle" \/ (ctl = "join" /\ gets # {}) \/ strayed \/ wild)

\* An open the driver asks about does not wait for ever while a worker is left, unless its
\* answer could not be sent: the worker forgets it and the open waits for the port to close.
OpensAnswered ==
    \A o \in Opens :
        (open[o] = "asked") ~> (\/ open[o] # "asked" \/ o \in undelivered \/ wild
                                \/ \A w \in Workers : pc[w] \in {"exited", "none"})

\* The exchange of buffers between workers, completion port and driver keeps questions and
\* answers together.
AnswersFitOpens == TypeOK /\ AnswerFitsOpen

\* The shared context follows the connection through starts, failures and stops: workers find
\* it as long as they run, and the module's flag tells of it afterwards.
ContextFollowsPort == ContextOutlivesWorkers /\ FlagTellsConnection

\* Opens and the stop of the service do not wait for ever for the workers, but in the cases
\* that are named.
PortProgress == FinalizeEnds /\ OpensAnswered
==============================================================================
