---------------------------- MODULE OnAccessProofs ----------------------------
(***************************************************************************)
(* Proofs about OnAccess, for any number of requests and descriptors, in   *)
(* permission and in notification mode, for the code as it is built: with  *)
(* the watchdog compiled out.                                              *)
(***************************************************************************)
EXTENDS OnAccess, TLAPS

\* The request a thread in response_write is answering.
Served(a) == fdt[rw[a].fd]

\* Nothing of the watchdog ever moves.
DogAsleep == queue = <<>> /\ expired = <<>> /\ ~Answering("watchdog")

\* An open descriptor is open on the file of the event that carries its number.
OwnerInv == \A n \in Fds : fdt[n] # NoReq => event[fdt[n]] = "read" /\ evfd[fdt[n]] = n

\* No thread has anything to do with an event that was not read.
UnreadInv ==
    \A r \in Requests : event[r] # "read" =>
        answer[r] = "none" /\ r \notin pass1 /\ r \notin pass2 /\ task[r].pc = "none"

\* An event of the current batch.
BatchInv ==
    /\ pass1 \subseteq pass2
    /\ \A r \in pass1 : evfd[r] \in Fds /\ fdt[evfd[r]] = r /\ answer[r] = "none"
    /\ \A r \in pass2 : /\ task[r].pc = "none"
                        /\ ~own[r] => evfd[r] \in Fds /\ fdt[evfd[r]] = r
                                      /\ answer[r] = "none"

\* A pool thread keeps the descriptor of its event until it answers or, in
\* notification mode, until the context is destroyed.
TaskInv ==
    \A r \in Requests :
        /\ task[r].pc \in {"scan", "respond"} =>
              /\ task[r].fd = evfd[r] /\ evfd[r] \in Fds /\ fdt[evfd[r]] = r
              /\ answer[r] = "none" /\ ~own[r] /\ kind[r] \in Verdicts
        /\ task[r].pc \in {"respond", "destroy", "fire"} =>
              task[r].status = kind[r]
        /\ task[r].pc = "destroy" =>
              IF EnablePermission THEN task[r].fd = NoFd
              ELSE task[r].fd = evfd[r] /\ evfd[r] \in Fds /\ fdt[evfd[r]] = r
        /\ task[r].pc \in {"none", "fire", "done"} => task[r].fd = NoFd
        /\ (task[r].pc = "destroy" /\ ~Answering(r) /\ EnablePermission) =>
              answer[r] # "none"
        /\ (task[r].pc \in {"fire", "done"} /\ EnablePermission) => answer[r] # "none"

\* A thread in response_write serves one request, which nobody else serves.
ResponseInv ==
    \A a \in Actors :
        /\ ~Answering(a) => rw[a].fd = NoFd
        /\ Answering(a) =>
              /\ EnablePermission
              /\ rw[a].fd \in Fds
              /\ Served(a) \in Requests
              /\ Served(a) \notin pass1
              /\ own[Served(a)] \/ Served(a) \notin pass2
              /\ task[Served(a)].pc \notin {"scan", "respond"}
              /\ a \in Requests => Served(a) = a /\ task[a].pc = "destroy"
              /\ a = "monitor" => task[Served(a)].pc = "none"
              /\ rw[a].ph = "write" =>
                    /\ answer[Served(a)] = "none"
                    /\ rw[a].ans = Gate!Policy(own[Served(a)], kind[Served(a)])
              /\ rw[a].ph = "close" => answer[Served(a)] # "none"

\* The kernel's side: a request that waits has its descriptor, and somebody is
\* going to answer it.
WaitingInv ==
    \A r \in Requests :
        /\ Waiting(r) => evfd[r] \in Fds /\ fdt[evfd[r]] = r
        /\ ~EnablePermission => answer[r] = "none"
        /\ answer[r] \in {"none", "NOFD", Gate!Policy(own[r], kind[r])}

DetectionInv ==
    \A r \in detection : task[r].pc = "done" /\ kind[r] \in Detected

IInv == /\ TypeOK /\ DogAsleep /\ OwnerInv /\ UnreadInv /\ BatchInv
        /\ TaskInv /\ ResponseInv /\ WaitingInv /\ DetectionInv

\* The initial states satisfy the invariant.
LEMMA InitInv == Init => IInv
<1> SUFFICES ASSUME Init PROVE IInv
  OBVIOUS
<1> USE DEF Init, Idle, NoTask, NoFd, Actors, Kinds
<1>1. TypeOK
  <2>1. Idle \in ResponseStates /\ NoTask \in TaskStates
    BY DEF ResponseStates, TaskStates, FileStatuses, RankedStatus
  <2>2. rw \in [Actors -> ResponseStates] /\ task \in [Requests -> TaskStates]
    BY <2>1
  <2>3. queue \in Seq(Fds) /\ expired \in Seq(Fds)
    OBVIOUS
  <2>4. /\ event \in [Requests -> {"none", "queued", "read"}]
        /\ answer \in [Requests -> {"none", "ALLOW", "DENY", "NOFD"}]
        /\ own \in [Requests -> BOOLEAN]
        /\ kind \in [Requests -> Kinds]
        /\ evfd \in [Requests -> Fds \cup {NoFd}]
        /\ fdt \in [Fds -> Requests \cup {NoReq}]
    OBVIOUS
  <2>5. /\ pass1 \subseteq Requests /\ pass2 \subseteq Requests
        /\ blocked \in Requests \cup {NoReq}
        /\ magic \in BOOLEAN
        /\ detection \subseteq Requests
    OBVIOUS
  <2> QED
    BY <2>2, <2>3, <2>4, <2>5 DEF TypeOK
<1>2. DogAsleep /\ OwnerInv /\ UnreadInv /\ BatchInv /\ DetectionInv
  BY DEF DogAsleep, OwnerInv, UnreadInv, BatchInv, DetectionInv, Answering
<1>3. TaskInv /\ ResponseInv /\ WaitingInv
  BY DEF TaskInv, ResponseInv, WaitingInv, Waiting, Answering
<1> QED
  BY <1>1, <1>2, <1>3 DEF IInv

\* A step that touches no response_write, and nothing of the requests served by
\* one, preserves ResponseInv.
LEMMA ServedUntouched ==
  ASSUME ResponseInv, UNCHANGED rw, pass1' \subseteq pass1, pass2' \subseteq pass2,
         \A a \in Actors : Answering(a) =>
             /\ fdt' = fdt
             /\ own'[Served(a)] = own[Served(a)] /\ kind'[Served(a)] = kind[Served(a)]
             /\ answer'[Served(a)] = answer[Served(a)] /\ task'[Served(a)] = task[Served(a)]
  PROVE  ResponseInv'
<1> SUFFICES ASSUME NEW a \in Actors, Answering(a)
             PROVE  /\ Served(a)' = Served(a)
                    /\ own'[Served(a)] = own[Served(a)] /\ kind'[Served(a)] = kind[Served(a)]
                    /\ answer'[Served(a)] = answer[Served(a)] /\ task'[Served(a)] = task[Served(a)]
  BY DEF ResponseInv, Answering, Served
<1> QED
  BY DEF Served

\* The action Open preserves the invariant.
LEMMA OpenInv ==
  ASSUME IInv, ~EnableWatchdog, NEW r \in Requests, NEW mine \in BOOLEAN, NEW k \in Kinds,
         Open(r, mine, k)
  PROVE  IInv'
<1> USE NoReqIsNone, ThreadNames, FdsNat, VerdictsAreStatuses
    DEF IInv, kernel, monitor, dog, Actors, Idle, NoTask, NoFd, Answering, Served, Waiting,
        Open
<1>1. TypeOK'
  BY DEF TypeOK, Kinds, FileStatuses, RankedStatus, ResponseInv, TaskInv, ResponseStates, TaskStates
<1>2. DogAsleep'
  BY DEF DogAsleep, TypeOK
<1>3. OwnerInv'
  BY DEF OwnerInv, TypeOK, BatchInv, UnreadInv, ResponseInv, TaskInv
<1>4. UnreadInv'
  BY DEF UnreadInv, TypeOK, BatchInv, OwnerInv, TaskInv, ResponseInv
<1>5. BatchInv'
  BY DEF BatchInv, TypeOK, UnreadInv, OwnerInv, ResponseInv, TaskInv
<1>6. TaskInv'
  BY DEF TaskInv, TypeOK, BatchInv, UnreadInv, OwnerInv, ResponseInv, WaitingInv, Kinds
<1>7. ResponseInv'
  <2> SUFFICES ASSUME NEW a \in Actors, Answering(a)
               PROVE  Served(a) # r
    BY DEF ResponseInv, TypeOK, UnreadInv, OwnerInv, Gate!Policy
  <2>1. rw[a].fd \in Fds /\ Served(a) \in Requests
    BY DEF ResponseInv
  <2>2. event[Served(a)] = "read"
    BY <2>1 DEF OwnerInv
  <2> QED
    BY <2>2
<1>8. WaitingInv'
  BY DEF WaitingInv, TypeOK, BatchInv, UnreadInv, OwnerInv, TaskInv, ResponseInv, Gate!Policy
<1>9. DetectionInv'
  BY DEF DetectionInv, TypeOK, UnreadInv, BatchInv, TaskInv, OwnerInv, ResponseInv
<1> QED
  BY <1>1, <1>2, <1>3, <1>4, <1>5, <1>6, <1>7, <1>8, <1>9

\* The action ResponseWrite preserves the invariant.
LEMMA ResponseWriteInv ==
  ASSUME IInv, ~EnableWatchdog, NEW a \in Actors,
         ResponseWrite(a)
  PROVE  IInv'
<1> USE NoReqIsNone, ThreadNames, FdsNat, VerdictsAreStatuses
    DEF IInv, kernel, monitor, dog, Actors, Idle, NoTask, NoFd, Answering, Served, Waiting,
        ResponseWrite, Answered
<1>1. TypeOK'
  <2>1. rw[a] \in ResponseStates
    BY DEF TypeOK
  <2>2. rw' \in [Actors -> ResponseStates]
    BY <2>1 DEF TypeOK, ResponseStates
  <2>3. answer' \in [Requests -> {"none", "ALLOW", "DENY", "NOFD"}]
    BY <2>1 DEF TypeOK, ResponseStates
  <2> QED
    BY <2>2, <2>3 DEF TypeOK
<1>2. DogAsleep'
  BY DEF DogAsleep, TypeOK
<1>3. OwnerInv'
  BY DEF OwnerInv, TypeOK, BatchInv, UnreadInv, ResponseInv, TaskInv
<1>4. UnreadInv'
  BY DEF UnreadInv, TypeOK, BatchInv, OwnerInv, TaskInv, ResponseInv
<1>5. BatchInv'
  BY DEF BatchInv, TypeOK, UnreadInv, OwnerInv, ResponseInv, TaskInv
<1>6. TaskInv'
  BY DEF TaskInv, TypeOK, BatchInv, UnreadInv, OwnerInv, ResponseInv, WaitingInv, Kinds
<1>7. ResponseInv'
  BY SMTT(90) DEF ResponseInv, TypeOK, BatchInv, UnreadInv, OwnerInv, TaskInv, DogAsleep, Gate!Policy, Kinds
<1>8. WaitingInv'
  BY DEF WaitingInv, TypeOK, BatchInv, UnreadInv, OwnerInv, TaskInv, ResponseInv, Gate!Policy
<1>9. DetectionInv'
  BY DEF DetectionInv, TypeOK, UnreadInv, BatchInv, TaskInv, OwnerInv, ResponseInv
<1> QED
  BY <1>1, <1>2, <1>3, <1>4, <1>5, <1>6, <1>7, <1>8, <1>9

\* The action ResponseClose preserves the invariant.
LEMMA ResponseCloseInv ==
  ASSUME IInv, ~EnableWatchdog, NEW a \in Actors,
         ResponseClose(a)
  PROVE  IInv'
<1> USE NoReqIsNone, ThreadNames, FdsNat, VerdictsAreStatuses
    DEF IInv, kernel, monitor, dog, Actors, Idle, NoTask, NoFd, Answering, Served, Waiting,
        ResponseClose, Closed
<1>1. TypeOK'
  BY DEF TypeOK, Kinds, FileStatuses, RankedStatus, ResponseInv, TaskInv, ResponseStates, TaskStates
<1>2. DogAsleep'
  BY DEF DogAsleep, TypeOK
<1>3. OwnerInv'
  BY DEF OwnerInv, TypeOK, BatchInv, UnreadInv, ResponseInv, TaskInv
<1>4. UnreadInv'
  BY DEF UnreadInv, TypeOK, BatchInv, OwnerInv, TaskInv, ResponseInv
<1>5. BatchInv'
  BY DEF BatchInv, TypeOK, UnreadInv, OwnerInv, ResponseInv, TaskInv
<1>6. TaskInv'
  BY DEF TaskInv, TypeOK, BatchInv, UnreadInv, OwnerInv, ResponseInv, WaitingInv, Kinds
<1>7. ResponseInv'
  <2>1. rw' \in [Actors -> ResponseStates] /\ rw'[a] = Idle
    BY <1>1 DEF TypeOK
  <2>2. ASSUME NEW b \in Actors \ {a}
        PROVE  rw'[b] = rw[b]
    BY DEF TypeOK
  <2>3. ASSUME NEW b \in Actors \ {a}, Answering(b)
        PROVE  rw[b].fd # rw[a].fd
    <3>1. a \in Requests => Served(a) = a /\ task[a].pc = "destroy"
      BY DEF ResponseInv
    <3>2. b \in Requests => Served(b) = b /\ task[b].pc = "destroy"
      BY <2>3 DEF ResponseInv
    <3>3. /\ a = "monitor" => task[Served(a)].pc = "none"
          /\ b = "monitor" => task[Served(b)].pc = "none"
      BY <2>3 DEF ResponseInv
    <3>4. a # "watchdog" /\ b # "watchdog"
      BY <2>3 DEF DogAsleep
    <3> QED
      BY <3>1, <3>2, <3>3, <3>4
  <2>4. ASSUME NEW b \in Actors \ {a}, Answering(b)
        PROVE  fdt'[rw[b].fd] = fdt[rw[b].fd]
    BY <2>3, <2>4 DEF ResponseInv
  <2>5. ~Answering(a)' /\ rw'[a].fd = NoFd
    BY <2>1
  <2> QED
    BY <2>2, <2>4, <2>5, SMTT(30) DEF ResponseInv
<1>8. WaitingInv'
  BY DEF WaitingInv, TypeOK, BatchInv, UnreadInv, OwnerInv, TaskInv, ResponseInv, Gate!Policy
<1>9. DetectionInv'
  BY DEF DetectionInv, TypeOK, UnreadInv, BatchInv, TaskInv, OwnerInv, ResponseInv
<1> QED
  BY <1>1, <1>2, <1>3, <1>4, <1>5, <1>6, <1>7, <1>8, <1>9

\* The action ReadBatch preserves the invariant.
LEMMA ReadBatchInv ==
  ASSUME IInv, ~EnableWatchdog, NEW S \in SUBSET Requests, NEW f \in [S -> Fds],
         ReadBatch(S, f)
  PROVE  IInv'
<1> USE NoReqIsNone, ThreadNames, FdsNat, VerdictsAreStatuses
    DEF IInv, kernel, monitor, dog, Actors, Idle, NoTask, NoFd, Answering, Served, Waiting,
        ReadBatch, Free, MonitorFree
<1>1. TypeOK'
  BY DEF TypeOK, Kinds, FileStatuses, RankedStatus, ResponseInv, TaskInv, ResponseStates, TaskStates
<1>2. DogAsleep'
  BY DEF DogAsleep, TypeOK
<1>3. OwnerInv'
  BY DEF OwnerInv, TypeOK, BatchInv, UnreadInv, ResponseInv, TaskInv
<1>4. UnreadInv'
  BY DEF UnreadInv, TypeOK, BatchInv, OwnerInv, TaskInv, ResponseInv
<1>5. BatchInv'
  BY DEF BatchInv, TypeOK, UnreadInv, OwnerInv, ResponseInv, TaskInv
<1>6. TaskInv'
  BY DEF TaskInv, TypeOK, BatchInv, UnreadInv, OwnerInv, ResponseInv, WaitingInv, Kinds
<1>7. ResponseInv'
  BY SMTT(30) DEF ResponseInv, TypeOK, BatchInv, UnreadInv, OwnerInv, TaskInv, DogAsleep, Gate!Policy, Kinds
<1>8. WaitingInv'
  BY DEF WaitingInv, TypeOK, BatchInv, UnreadInv, OwnerInv, TaskInv, ResponseInv, Gate!Policy
<1>9. DetectionInv'
  BY DEF DetectionInv, TypeOK, UnreadInv, BatchInv, TaskInv, OwnerInv, ResponseInv
<1> QED
  BY <1>1, <1>2, <1>3, <1>4, <1>5, <1>6, <1>7, <1>8, <1>9

\* The action ReadNoFd preserves the invariant.
LEMMA ReadNoFdInv ==
  ASSUME IInv, ~EnableWatchdog, NEW r \in Requests,
         ReadNoFd(r)
  PROVE  IInv'
<1> USE NoReqIsNone, ThreadNames, FdsNat, VerdictsAreStatuses
    DEF IInv, kernel, monitor, dog, Actors, Idle, NoTask, NoFd, Answering, Served, Waiting,
        ReadNoFd, Free, MonitorFree
<1>1. TypeOK'
  BY DEF TypeOK, Kinds, FileStatuses, RankedStatus, ResponseInv, TaskInv, ResponseStates, TaskStates
<1>2. DogAsleep'
  BY DEF DogAsleep, TypeOK
<1>3. OwnerInv'
  BY DEF OwnerInv, TypeOK, BatchInv, UnreadInv, ResponseInv, TaskInv
<1>4. UnreadInv'
  BY DEF UnreadInv, TypeOK, BatchInv, OwnerInv, TaskInv, ResponseInv
<1>5. BatchInv'
  BY DEF BatchInv, TypeOK, UnreadInv, OwnerInv, ResponseInv, TaskInv
<1>6. TaskInv'
  BY DEF TaskInv, TypeOK, BatchInv, UnreadInv, OwnerInv, ResponseInv, WaitingInv, Kinds
<1>7. ResponseInv'
  BY DEF ResponseInv, TypeOK, BatchInv, UnreadInv, OwnerInv, TaskInv, DogAsleep, Gate!Policy, Kinds
<1>8. WaitingInv'
  BY DEF WaitingInv, TypeOK, BatchInv, UnreadInv, OwnerInv, TaskInv, ResponseInv, Gate!Policy
<1>9. DetectionInv'
  BY DEF DetectionInv, TypeOK, UnreadInv, BatchInv, TaskInv, OwnerInv, ResponseInv
<1> QED
  BY <1>1, <1>2, <1>3, <1>4, <1>5, <1>6, <1>7, <1>8, <1>9

\* The action Pass1 preserves the invariant.
LEMMA Pass1Inv ==
  ASSUME IInv, ~EnableWatchdog, NEW r \in Requests,
         Pass1(r)
  PROVE  IInv'
<1> USE NoReqIsNone, ThreadNames, FdsNat, VerdictsAreStatuses
    DEF IInv, kernel, monitor, dog, Actors, Idle, NoTask, NoFd, Answering, Served, Waiting,
        Pass1, MonitorFree, StartResponse, watchdog_add
<1>1. TypeOK'
  BY DEF TypeOK, Kinds, FileStatuses, RankedStatus, ResponseInv, TaskInv, ResponseStates, TaskStates
<1>2. DogAsleep'
  BY DEF DogAsleep, TypeOK
<1>3. OwnerInv'
  BY DEF OwnerInv, TypeOK, BatchInv, UnreadInv, ResponseInv, TaskInv
<1>4. UnreadInv'
  BY DEF UnreadInv, TypeOK, BatchInv, OwnerInv, TaskInv, ResponseInv
<1>5. BatchInv'
  BY DEF BatchInv, TypeOK, UnreadInv, OwnerInv, ResponseInv, TaskInv
<1>6. TaskInv'
  BY DEF TaskInv, TypeOK, BatchInv, UnreadInv, OwnerInv, ResponseInv, WaitingInv, Kinds
<1>7. ResponseInv'
  BY DEF ResponseInv, TypeOK, BatchInv, UnreadInv, OwnerInv, TaskInv, DogAsleep, Gate!Policy, Kinds
<1>8. WaitingInv'
  BY DEF WaitingInv, TypeOK, BatchInv, UnreadInv, OwnerInv, TaskInv, ResponseInv, Gate!Policy
<1>9. DetectionInv'
  BY DEF DetectionInv, TypeOK, UnreadInv, BatchInv, TaskInv, OwnerInv, ResponseInv
<1> QED
  BY <1>1, <1>2, <1>3, <1>4, <1>5, <1>6, <1>7, <1>8, <1>9

\* The action Pass2Own preserves the invariant.
LEMMA Pass2OwnInv ==
  ASSUME IInv, ~EnableWatchdog, NEW r \in Requests,
         Pass2Own(r)
  PROVE  IInv'
<1> USE NoReqIsNone, ThreadNames, FdsNat, VerdictsAreStatuses
    DEF IInv, kernel, monitor, dog, Actors, Idle, NoTask, NoFd, Answering, Served, Waiting,
        Pass2Own, InPass2, MonitorFree
<1>1. TypeOK'
  BY DEF TypeOK, Kinds, FileStatuses, RankedStatus, ResponseInv, TaskInv, ResponseStates, TaskStates
<1>2. DogAsleep'
  BY DEF DogAsleep, TypeOK
<1>3. OwnerInv'
  BY DEF OwnerInv, TypeOK, BatchInv, UnreadInv, ResponseInv, TaskInv
<1>4. UnreadInv'
  BY DEF UnreadInv, TypeOK, BatchInv, OwnerInv, TaskInv, ResponseInv
<1>5. BatchInv'
  BY DEF BatchInv, TypeOK, UnreadInv, OwnerInv, ResponseInv, TaskInv
<1>6. TaskInv'
  BY DEF TaskInv, TypeOK, BatchInv, UnreadInv, OwnerInv, ResponseInv, WaitingInv, Kinds
<1>7. ResponseInv'
  <2>1. \A a \in Actors : Answering(a) => Served(a) \in Requests
    BY DEF ResponseInv
  <2> QED
    BY <2>1, ServedUntouched
<1>8. WaitingInv'
  BY DEF WaitingInv, TypeOK, BatchInv, UnreadInv, OwnerInv, TaskInv, ResponseInv, Gate!Policy
<1>9. DetectionInv'
  BY DEF DetectionInv, TypeOK, UnreadInv, BatchInv, TaskInv, OwnerInv, ResponseInv
<1> QED
  BY <1>1, <1>2, <1>3, <1>4, <1>5, <1>6, <1>7, <1>8, <1>9

\* The action Pass2Special preserves the invariant.
LEMMA Pass2SpecialInv ==
  ASSUME IInv, ~EnableWatchdog, NEW r \in Requests,
         Pass2Special(r)
  PROVE  IInv'
<1> USE NoReqIsNone, ThreadNames, FdsNat, VerdictsAreStatuses
    DEF IInv, kernel, monitor, dog, Actors, Idle, NoTask, NoFd, Answering, Served, Waiting,
        Pass2Special, InPass2, MonitorFree, SeenKind, RemoveAndRespond, Removed, StartResponse
<1>1. TypeOK'
  BY DEF TypeOK, Kinds, FileStatuses, RankedStatus, ResponseInv, TaskInv, ResponseStates, TaskStates
<1>2. DogAsleep'
  BY DEF DogAsleep, TypeOK
<1>3. OwnerInv'
  BY DEF OwnerInv, TypeOK, BatchInv, UnreadInv, ResponseInv, TaskInv
<1>4. UnreadInv'
  BY DEF UnreadInv, TypeOK, BatchInv, OwnerInv, TaskInv, ResponseInv
<1>5. BatchInv'
  BY DEF BatchInv, TypeOK, UnreadInv, OwnerInv, ResponseInv, TaskInv
<1>6. TaskInv'
  BY DEF TaskInv, TypeOK, BatchInv, UnreadInv, OwnerInv, ResponseInv, WaitingInv, Kinds
<1>7. ResponseInv'
  BY SMTT(30) DEF ResponseInv, TypeOK, BatchInv, UnreadInv, OwnerInv, TaskInv, DogAsleep, Gate!Policy, Kinds
<1>8. WaitingInv'
  BY DEF WaitingInv, TypeOK, BatchInv, UnreadInv, OwnerInv, TaskInv, ResponseInv, Gate!Policy
<1>9. DetectionInv'
  BY DEF DetectionInv, TypeOK, UnreadInv, BatchInv, TaskInv, OwnerInv, ResponseInv
<1> QED
  BY <1>1, <1>2, <1>3, <1>4, <1>5, <1>6, <1>7, <1>8, <1>9

\* The action LoadMagic preserves the invariant.
LEMMA LoadMagicInv ==
  ASSUME IInv, ~EnableWatchdog, NEW r \in Requests,
         LoadMagic(r)
  PROVE  IInv'
<1> USE NoReqIsNone DEF IInv, Answering, Served, Waiting, dog
<1>1. /\ UNCHANGED <<answer, kind, evfd, fdt, pass1, pass2, queue, expired, rw, task, detection>>
      /\ magic' = TRUE
  BY DEF LoadMagic
<1>2. CASE ~MagicMarked
  <2>1. UNCHANGED <<event, own, blocked>>
    BY <1>2 DEF LoadMagic
  <2> QED
    BY <1>1, <2>1 DEF TypeOK, DogAsleep, OwnerInv, UnreadInv, BatchInv, TaskInv, ResponseInv,
                      WaitingInv, DetectionInv
<1>3. CASE MagicMarked
  <2>1. PICK q \in Requests :
          /\ event[q] = "none"
          /\ event' = [event EXCEPT ![q] = "queued"]
          /\ own' = [own EXCEPT ![q] = TRUE]
          /\ blocked' = IF EnablePermission THEN q ELSE NoReq
    BY <1>3 DEF LoadMagic
  <2>2. answer[q] = "none" /\ q \notin pass1 /\ q \notin pass2 /\ task[q].pc = "none"
    BY <2>1 DEF UnreadInv
  <2>3. TypeOK'
    BY <1>1, <2>1 DEF TypeOK
  <2>4. DogAsleep' /\ OwnerInv' /\ UnreadInv' /\ BatchInv' /\ DetectionInv'
    BY <1>1, <2>1, <2>2 DEF DogAsleep, OwnerInv, UnreadInv, BatchInv, DetectionInv, TypeOK
  <2>5. TaskInv'
    BY <1>1, <2>1, <2>2 DEF TaskInv, TypeOK
  <2>6. \A a \in Actors : Answering(a) => Served(a) \in Requests /\ Served(a) # q
    BY <2>1 DEF ResponseInv, OwnerInv
  <2>7. ResponseInv'
    <3>1. \A a \in Actors : Answering(a) => own'[Served(a)] = own[Served(a)]
      BY <2>1, <2>6 DEF TypeOK
    <3> QED
      BY <1>1, <2>6, <3>1 DEF ResponseInv, Gate!Policy
  <2>8. WaitingInv'
    BY <1>1, <2>1, <2>2, ZenonT(30) DEF WaitingInv, TypeOK
  <2> QED
    BY <2>3, <2>4, <2>5, <2>7, <2>8
<1> QED
  BY <1>2, <1>3

\* The action Pass2NotScanned preserves the invariant.
LEMMA Pass2NotScannedInv ==
  ASSUME IInv, ~EnableWatchdog, NEW r \in Requests,
         Pass2NotScanned(r)
  PROVE  IInv'
<1> USE NoReqIsNone, ThreadNames, FdsNat, VerdictsAreStatuses
    DEF IInv, kernel, monitor, dog, Actors, Idle, NoTask, NoFd, Answering, Served, Waiting,
        Pass2NotScanned, InPass2, MonitorFree, SeenKind, NeedsMagic, RemoveAndRespond, Removed, StartResponse, Closed
<1>0. /\ evfd[r] \in Fds /\ fdt[evfd[r]] = r /\ task[r].pc = "none"
      /\ ~EnablePermission =>
            \A q \in Requests : q # r /\ evfd[q] \in Fds /\ fdt[evfd[q]] = q => fdt'[evfd[q]] = q
  <2>1. evfd[r] \in Fds /\ fdt[evfd[r]] = r /\ task[r].pc = "none"
    BY DEF BatchInv
  <2>2. ~EnablePermission => fdt' = Closed(evfd[r])
    OBVIOUS
  <2>3. ASSUME NEW q \in Requests, q # r, evfd[q] \in Fds, fdt[evfd[q]] = q
        PROVE  Closed(evfd[r])[evfd[q]] = q
    BY <2>1, <2>3
  <2> QED
    BY <2>1, <2>2, <2>3
<1>1. TypeOK'
  BY DEF TypeOK, Kinds, FileStatuses, RankedStatus, ResponseInv, TaskInv, ResponseStates, TaskStates
<1>2. DogAsleep'
  BY DEF DogAsleep, TypeOK
<1>3. OwnerInv'
  BY DEF OwnerInv, TypeOK, BatchInv, UnreadInv, ResponseInv, TaskInv
<1>4. UnreadInv'
  BY DEF UnreadInv, TypeOK, BatchInv, OwnerInv, TaskInv, ResponseInv
<1>5. BatchInv'
  <2>1. CASE EnablePermission
    BY <2>1 DEF BatchInv, TypeOK
  <2>2. CASE ~EnablePermission
    BY <1>0, <2>2 DEF BatchInv, TypeOK
  <2> QED
    BY <2>1, <2>2
<1>6. TaskInv'
  <2>1. CASE EnablePermission
    BY <2>1 DEF TaskInv, TypeOK, BatchInv
  <2>2. CASE ~EnablePermission
    BY <1>0, <2>2 DEF TaskInv, TypeOK
  <2> QED
    BY <2>1, <2>2
<1>7. ResponseInv'
  BY SMTT(30) DEF ResponseInv, TypeOK, BatchInv, UnreadInv, OwnerInv, TaskInv, DogAsleep, Gate!Policy, Kinds
<1>8. WaitingInv'
  BY DEF WaitingInv, TypeOK, BatchInv, UnreadInv, OwnerInv, TaskInv, ResponseInv, Gate!Policy
<1>9. DetectionInv'
  BY DEF DetectionInv, TypeOK, UnreadInv, BatchInv, TaskInv, OwnerInv, ResponseInv
<1> QED
  BY <1>1, <1>2, <1>3, <1>4, <1>5, <1>6, <1>7, <1>8, <1>9

\* The action Pass2Push preserves the invariant.
LEMMA Pass2PushInv ==
  ASSUME IInv, ~EnableWatchdog, NEW r \in Requests,
         Pass2Push(r)
  PROVE  IInv'
<1> USE NoReqIsNone, ThreadNames, FdsNat, VerdictsAreStatuses
    DEF IInv, kernel, monitor, dog, Actors, Idle, NoTask, NoFd, Answering, Served, Waiting,
        Pass2Push, InPass2, MonitorFree, SeenKind, NeedsMagic
<1>1. TypeOK'
  <2>1. evfd[r] \in Fds \cup {NoFd}
    BY DEF TypeOK
  <2>2. \E found \in BOOLEAN :
           task'[r] = [pc |-> "scan", fd |-> evfd[r], path |-> found, status |-> "UNDECIDED"]
    <3>1. PICK found \in BOOLEAN :
             task' = [task EXCEPT ![r] = [NoTask EXCEPT !.pc = "scan", !.fd = evfd[r], !.path = found]]
      BY Zenon
    <3>2. task'[r] = [pc |-> "scan", fd |-> evfd[r], path |-> found, status |-> "UNDECIDED"]
      BY <3>1 DEF TypeOK
    <3> QED  BY <3>2
  <2>3. \A b \in BOOLEAN, n \in Fds \cup {NoFd} :
           [pc |-> "scan", fd |-> n, path |-> b, status |-> "UNDECIDED"] \in TaskStates
    BY DEF TaskStates, FileStatuses, RankedStatus
  <2>3a. task'[r] \in TaskStates
    BY <2>1, <2>2, <2>3, Zenon
  <2>4. task' \in [Requests -> TaskStates]
    BY <2>3a DEF TypeOK
  <2> QED
    BY <2>4 DEF TypeOK
<1>2. DogAsleep'
  BY DEF DogAsleep, TypeOK
<1>3. OwnerInv'
  BY DEF OwnerInv, TypeOK, BatchInv, UnreadInv, ResponseInv, TaskInv
<1>4. UnreadInv'
  BY DEF UnreadInv, TypeOK, BatchInv, OwnerInv, TaskInv, ResponseInv
<1>5. BatchInv'
  BY DEF BatchInv, TypeOK, UnreadInv, OwnerInv, ResponseInv, TaskInv
<1>6. TaskInv'
  BY DEF TaskInv, TypeOK, BatchInv, UnreadInv, OwnerInv, ResponseInv, WaitingInv, Kinds
<1>7. ResponseInv'
  <2>1. ASSUME NEW a \in Actors, Answering(a)
        PROVE  Served(a) # r /\ Served(a) \in Requests
    BY <2>1 DEF ResponseInv, DogAsleep
  <2> QED
    BY <2>1, ServedUntouched DEF TypeOK
<1>8. WaitingInv'
  BY DEF WaitingInv, TypeOK, BatchInv, UnreadInv, OwnerInv, TaskInv, ResponseInv, Gate!Policy
<1>9. DetectionInv'
  BY DEF DetectionInv, TypeOK, UnreadInv, BatchInv, TaskInv, OwnerInv, ResponseInv
<1> QED
  BY <1>1, <1>2, <1>3, <1>4, <1>5, <1>6, <1>7, <1>8, <1>9

\* The action Scan preserves the invariant.
LEMMA ScanInv ==
  ASSUME IInv, ~EnableWatchdog, NEW r \in Requests,
         Scan(r)
  PROVE  IInv'
<1> USE NoReqIsNone, ThreadNames, FdsNat, VerdictsAreStatuses
    DEF IInv, kernel, monitor, dog, Actors, Idle, NoTask, NoFd, Answering, Served, Waiting,
        Scan, ScanVerdict
<1>1. TypeOK'
  <2>1. task[r] \in TaskStates
    BY DEF TypeOK
  <2>2. task'[r] \in TaskStates
    BY <2>1 DEF TypeOK, TaskStates, FileStatuses, RankedStatus, Kinds
  <2>3. task' \in [Requests -> TaskStates]
    BY <2>2 DEF TypeOK
  <2> QED
    BY <2>3 DEF TypeOK
<1>2. DogAsleep'
  BY DEF DogAsleep, TypeOK
<1>3. OwnerInv'
  BY DEF OwnerInv, TypeOK, BatchInv, UnreadInv, ResponseInv, TaskInv
<1>4. UnreadInv'
  BY DEF UnreadInv, TypeOK, BatchInv, OwnerInv, TaskInv, ResponseInv
<1>5. BatchInv'
  BY DEF BatchInv, TypeOK, UnreadInv, OwnerInv, ResponseInv, TaskInv
<1>6. TaskInv'
  BY DEF TaskInv, TypeOK
<1>7. ResponseInv'
  <2>1. ASSUME NEW a \in Actors, Answering(a)
        PROVE  Served(a) # r /\ Served(a) \in Requests
    BY <2>1 DEF ResponseInv, DogAsleep
  <2> QED
    BY <2>1, ServedUntouched DEF TypeOK
<1>8. WaitingInv'
  BY DEF WaitingInv, TypeOK, BatchInv, UnreadInv, OwnerInv, TaskInv, ResponseInv, Gate!Policy
<1>9. DetectionInv'
  BY DEF DetectionInv, TypeOK, UnreadInv, BatchInv, TaskInv, OwnerInv, ResponseInv
<1> QED
  BY <1>1, <1>2, <1>3, <1>4, <1>5, <1>6, <1>7, <1>8, <1>9

\* The action Respond preserves the invariant.
LEMMA RespondInv ==
  ASSUME IInv, ~EnableWatchdog, NEW r \in Requests,
         Respond(r)
  PROVE  IInv'
<1> USE NoReqIsNone, ThreadNames, FdsNat, VerdictsAreStatuses
    DEF IInv, kernel, monitor, dog, Actors, Idle, NoTask, NoFd, Answering, Served, Waiting
<1> DEFINE ans == IF task[r].status = "MALWARE" THEN "DENY" ELSE "ALLOW"
<1>1. /\ task[r].pc = "respond" /\ task[r] \in TaskStates
      /\ task[r].fd = evfd[r] /\ evfd[r] \in Fds /\ fdt[evfd[r]] = r /\ answer[r] = "none"
      /\ ~own[r] /\ kind[r] \in Verdicts /\ task[r].status = kind[r]
      /\ event[r] = "read" /\ r \notin pass1 /\ r \notin pass2
  BY DEF Respond, TaskInv, TypeOK, UnreadInv, BatchInv
<1>2. /\ UNCHANGED <<event, answer, own, kind, evfd, fdt, pass1, pass2, blocked, magic>>
      /\ UNCHANGED <<queue, expired, detection>>
  BY DEF Respond, RemoveAndRespond, Removed
<1>3. \A a \in Actors : Answering(a) => rw[a].fd # evfd[r]
  BY <1>1 DEF ResponseInv
<1>4. CASE EnablePermission
  <2>1. /\ rw' = [rw EXCEPT ![r] = [ph |-> "write", fd |-> evfd[r], ans |-> ans]]
        /\ task' = [task EXCEPT ![r] = [pc |-> "destroy", fd |-> NoFd, path |-> task[r].path,
                                        status |-> task[r].status]]
    BY <1>1, <1>4 DEF Respond, RemoveAndRespond, Removed, StartResponse, TypeOK, TaskStates
  <2>2. TypeOK'
    <3>1. task' \in [Requests -> TaskStates] /\ rw' \in [Actors -> ResponseStates]
      BY <1>1, <2>1 DEF TypeOK, TaskStates, ResponseStates
    <3> QED
      BY <3>1, <1>2 DEF TypeOK
  <2>3. DogAsleep' /\ OwnerInv' /\ UnreadInv' /\ BatchInv' /\ DetectionInv'
    BY <1>1, <1>2, <2>1 DEF DogAsleep, OwnerInv, UnreadInv, BatchInv, DetectionInv, TypeOK
  <2>4. TaskInv'
    BY <1>1, <1>2, <1>4, <2>1 DEF TaskInv, TypeOK
  <2>5. ResponseInv'
    <3>1. ans = Gate!Policy(own[r], kind[r])
      BY <1>1 DEF Gate!Policy
    <3> QED
      BY <1>1, <1>2, <1>3, <1>4, <2>1, <3>1, SMTT(30) DEF ResponseInv, TypeOK
  <2>6. WaitingInv'
    BY <1>2 DEF WaitingInv
  <2> QED
    BY <2>2, <2>3, <2>4, <2>5, <2>6
<1>5. CASE ~EnablePermission
  <2>1. /\ rw' = rw
        /\ task' = [task EXCEPT ![r] = [pc |-> "destroy", fd |-> task[r].fd, path |-> task[r].path,
                                        status |-> task[r].status]]
    BY <1>1, <1>5 DEF Respond, TypeOK, TaskStates
  <2>2. TypeOK'
    <3>1. task' \in [Requests -> TaskStates]
      BY <1>1, <2>1 DEF TypeOK, TaskStates
    <3> QED
      BY <3>1, <2>1, <1>2 DEF TypeOK
  <2>3. DogAsleep' /\ OwnerInv' /\ UnreadInv' /\ BatchInv' /\ DetectionInv'
    BY <1>1, <1>2, <2>1 DEF DogAsleep, OwnerInv, UnreadInv, BatchInv, DetectionInv, TypeOK
  <2>4. TaskInv'
    BY <1>1, <1>2, <1>5, <2>1 DEF TaskInv, TypeOK
  <2>5. ResponseInv' /\ WaitingInv'
    BY <1>2, <1>5, <2>1 DEF ResponseInv, WaitingInv, TypeOK
  <2> QED
    BY <2>2, <2>3, <2>4, <2>5
<1> QED
  BY <1>4, <1>5

\* The action Destroy preserves the invariant.
LEMMA DestroyInv ==
  ASSUME IInv, ~EnableWatchdog, NEW r \in Requests,
         Destroy(r)
  PROVE  IInv'
<1> USE NoReqIsNone, ThreadNames, FdsNat, VerdictsAreStatuses
    DEF IInv, kernel, monitor, dog, Actors, Idle, NoTask, NoFd, Answering, Served, Waiting,
        Destroy, Closed
<1>1. TypeOK'
  <2>1. task[r] \in TaskStates
    BY DEF TypeOK
  <2>2. task'[r] \in TaskStates
    BY <2>1 DEF TypeOK, TaskStates, FileStatuses, RankedStatus, Kinds
  <2>3. task' \in [Requests -> TaskStates]
    BY <2>2 DEF TypeOK
  <2> QED
    BY <2>3 DEF TypeOK
<1>2. DogAsleep'
  BY DEF DogAsleep, TypeOK
<1>3. OwnerInv'
  BY DEF OwnerInv, TypeOK, BatchInv, UnreadInv, ResponseInv, TaskInv
<1>4. UnreadInv'
  BY DEF UnreadInv, TypeOK, BatchInv, OwnerInv, TaskInv, ResponseInv
<1>5. BatchInv'
  BY DEF BatchInv, TypeOK, UnreadInv, OwnerInv, ResponseInv, TaskInv
<1>6. TaskInv'
  BY DEF TaskInv, TypeOK
<1>7. ResponseInv'
  <2>1. ASSUME NEW a \in Actors, Answering(a)
        PROVE  Served(a) # r /\ Served(a) \in Requests
    BY <2>1 DEF ResponseInv, DogAsleep
  <2>2. ASSUME NEW a \in Actors, Answering(a)
        PROVE  fdt' = fdt
    BY <2>2 DEF ResponseInv, TaskInv, TypeOK
  <2> QED
    BY <2>1, <2>2, ServedUntouched DEF TypeOK
<1>8. WaitingInv'
  BY DEF WaitingInv, TypeOK, BatchInv, UnreadInv, OwnerInv, TaskInv, ResponseInv, Gate!Policy
<1>9. DetectionInv'
  BY DEF DetectionInv, TypeOK, UnreadInv, BatchInv, TaskInv, OwnerInv, ResponseInv
<1> QED
  BY <1>1, <1>2, <1>3, <1>4, <1>5, <1>6, <1>7, <1>8, <1>9

\* The action Fire preserves the invariant.
LEMMA FireInv ==
  ASSUME IInv, ~EnableWatchdog, NEW r \in Requests,
         Fire(r)
  PROVE  IInv'
<1> USE NoReqIsNone, ThreadNames, FdsNat, VerdictsAreStatuses
    DEF IInv, kernel, monitor, dog, Actors, Idle, NoTask, NoFd, Answering, Served, Waiting,
        Fire
<1>1. TypeOK'
  <2>1. task[r] \in TaskStates
    BY DEF TypeOK
  <2>2. task'[r] \in TaskStates
    BY <2>1 DEF TypeOK, TaskStates, FileStatuses, RankedStatus, Kinds
  <2>3. task' \in [Requests -> TaskStates]
    BY <2>2 DEF TypeOK
  <2> QED
    BY <2>3 DEF TypeOK
<1>2. DogAsleep'
  BY DEF DogAsleep, TypeOK
<1>3. OwnerInv'
  BY DEF OwnerInv, TypeOK, BatchInv, UnreadInv, ResponseInv, TaskInv
<1>4. UnreadInv'
  BY DEF UnreadInv, TypeOK, BatchInv, OwnerInv, TaskInv, ResponseInv
<1>5. BatchInv'
  BY DEF BatchInv, TypeOK, UnreadInv, OwnerInv, ResponseInv, TaskInv
<1>6. TaskInv'
  BY DEF TaskInv, TypeOK, BatchInv, UnreadInv, OwnerInv, ResponseInv, WaitingInv, Kinds
<1>7. ResponseInv'
  <2>1. ASSUME NEW a \in Actors, Answering(a)
        PROVE  Served(a) # r /\ Served(a) \in Requests
    BY <2>1 DEF ResponseInv, DogAsleep
  <2> QED
    BY <2>1, ServedUntouched DEF TypeOK
<1>8. WaitingInv'
  BY DEF WaitingInv, TypeOK, BatchInv, UnreadInv, OwnerInv, TaskInv, ResponseInv, Gate!Policy
<1>9. DetectionInv'
  BY DEF DetectionInv, TypeOK, UnreadInv, BatchInv, TaskInv, OwnerInv, ResponseInv
<1> QED
  BY <1>1, <1>2, <1>3, <1>4, <1>5, <1>6, <1>7, <1>8, <1>9

\* Every step of the specification preserves the invariant.
LEMMA StepInv == IInv /\ ~EnableWatchdog /\ [Next]_vars => IInv'
<1> SUFFICES ASSUME IInv, ~EnableWatchdog, [Next]_vars
             PROVE  IInv'
  OBVIOUS
<1>1. CASE UNCHANGED vars
  BY <1>1 DEF IInv, vars, kernel, monitor, dog, TypeOK, DogAsleep, OwnerInv, UnreadInv,
              BatchInv, TaskInv, ResponseInv, WaitingInv, DetectionInv, Waiting, Answering,
              Served
<1>2. CASE \E r \in Requests, mine \in BOOLEAN, k \in Kinds : Open(r, mine, k)
  BY <1>2, OpenInv
<1>3. CASE \E r \in Requests : Pool(r)
  BY <1>3, ScanInv, RespondInv, DestroyInv, FireInv, ResponseWriteInv, ResponseCloseInv
     DEF Pool, ResponseStep, Actors
<1>4. CASE Monitor
  <2>1. CASE Read
    BY <2>1, ReadBatchInv, ReadNoFdInv DEF Read
  <2>2. CASE \E r \in Requests : Pass1(r) \/ Pass2(r)
    BY <2>2, Pass1Inv, Pass2OwnInv, Pass2SpecialInv, LoadMagicInv, Pass2NotScannedInv,
       Pass2PushInv DEF Pass2
  <2>3. CASE ResponseStep("monitor")
    BY <2>3, ResponseWriteInv, ResponseCloseInv DEF ResponseStep, Actors
  <2> QED
    BY <1>4, <2>1, <2>2, <2>3 DEF Monitor
<1>5. CASE Watchdog
  BY <1>5 DEF Watchdog, WatchdogWakes, WatchdogAllows, ResponseStep, ResponseWrite,
              ResponseClose, IInv, DogAsleep, Answering
<1> QED
  BY <1>1, <1>2, <1>3, <1>4, <1>5 DEF Next

\* The invariant holds in every state the as-built monitor can reach.
LEMMA Invariant == ASSUME ~EnableWatchdog PROVE Spec => []IInv
<1>1. Init => IInv
  BY InitInv
<1>2. IInv /\ [Next]_vars => IInv'
  BY StepInv
<1> QED
  BY <1>1, <1>2, PTL DEF Spec

(* The variables keep their types (watchdog compiled out).                  *)
THEOREM TypeCorrect == ASSUME ~EnableWatchdog PROVE Spec => []TypeOK
<1>1. IInv => TypeOK
  BY DEF IInv
<1> QED
  BY <1>1, Invariant, PTL

(* Each open gets the answer its own file deserves: DENY exactly for        *)
(* scanned malware opened by another process.                               *)
THEOREM AnswersFit == ASSUME ~EnableWatchdog PROVE Spec => []AnswerFitsFile
<1>1. IInv => AnswerFitsFile
  BY DEF IInv, TypeOK, WaitingInv, AnswerFitsFile, Gate!Policy
<1> QED
  BY <1>1, Invariant, PTL

(* The descriptor of an unanswered event stays open on its file, so no      *)
(* thread closes a descriptor twice or answers for a reused number.         *)
THEOREM DescriptorsHeld == ASSUME ~EnableWatchdog PROVE Spec => [](DescriptorHeld /\ ScansItsOwnFile)
<1>1. IInv => DescriptorHeld /\ ScansItsOwnFile
  BY DEF IInv, WaitingInv, TaskInv, DescriptorHeld, ScansItsOwnFile
<1> QED
  BY <1>1, Invariant, PTL

(* No answer is written for an event that is already answered, and no two   *)
(* threads answer the same event.                                           *)
THEOREM NoStrayAnswers == ASSUME ~EnableWatchdog PROVE Spec => []NoStrayAnswer
<1>1. IInv => NoStrayAnswer
  <2> SUFFICES ASSUME IInv, NEW a \in Actors
               PROVE  /\ rw[a].ph = "write" =>
                            \E r \in Requests : Waiting(r) /\ evfd[r] = rw[a].fd
                      /\ Answering(a) => \A b \in Actors \ {a} : rw[b].fd # rw[a].fd
    BY DEF NoStrayAnswer
  <2>1. ASSUME Answering(a)
        PROVE  /\ EnablePermission /\ Served(a) \in Requests /\ rw[a].fd \in Fds
               /\ event[Served(a)] = "read" /\ evfd[Served(a)] = rw[a].fd
    BY <2>1, NoReqIsNone DEF IInv, ResponseInv, OwnerInv, Served
  <2>2. rw[a].ph = "write" => \E r \in Requests : Waiting(r) /\ evfd[r] = rw[a].fd
    BY <2>1 DEF IInv, ResponseInv, Waiting, Answering
  <2>3. ASSUME Answering(a), NEW b \in Actors \ {a}, rw[b].fd = rw[a].fd
        PROVE  FALSE
    BY <2>1, <2>3, ThreadNames, FdsNat DEF IInv, ResponseInv, DogAsleep, Actors, Served, NoFd
  <2> QED
    BY <2>2, <2>3
<1> QED
  BY <1>1, Invariant, PTL

(* Listeners hear of a detection only once the opener has its answer, and   *)
(* only for a file found infected.                                          *)
THEOREM DetectionsFollowAnswers == ASSUME ~EnableWatchdog PROVE Spec => []DetectionAfterAnswer
<1>1. IInv => DetectionAfterAnswer
  BY DEF IInv, TypeOK, DetectionInv, TaskInv, DetectionAfterAnswer
<1> QED
  BY <1>1, Invariant, PTL

-------------------------------------------------------------------------------
(* Descriptors: given the invariant, no step loses one.                     *)

\* The descriptor n is closed, in hand, or one of the two leaks.
Kept(n) ==
    fdt[n] # NoReq => \/ InHand(n, fdt[n])
                      \/ ~EnablePermission /\ (own[fdt[n]] \/ kind[fdt[n]] = "special")

\* If the thread a starts an answer for the descriptor of r, or nothing in
\* response_write changes, every other descriptor stays where it is.
LEMMA KeptByRespond ==
  ASSUME IInv, NEW r \in Requests, NEW a \in Actors, NEW ans,
         ~Answering(a), evfd[r] \in Fds,
         StartResponse(a, evfd[r], ans)
  PROVE  /\ rw'[a].fd = evfd[r]
         /\ \A n \in Fds, b \in Actors : rw[b].fd = n => rw'[b].fd = n
BY FdsNat DEF IInv, ResponseInv, StartResponse, TypeOK, NoFd

LEMMA StepLosesNothing ==
  ASSUME IInv, ~EnableWatchdog, NoDescriptorLost, [Next]_vars
  PROVE  NoDescriptorLost'
<1> SUFFICES ASSUME NEW n \in Fds, fdt'[n] # NoReq
             PROVE  (\/ InHand(n, fdt[n])
                     \/ ~EnablePermission /\ (own[fdt[n]] \/ kind[fdt[n]] = "special"))'
  BY DEF NoDescriptorLost
<1> USE DEF InHand, kernel, monitor, dog
<1>0. /\ fdt[n] # NoReq => Kept(n) /\ fdt[n] \in Requests /\ evfd[fdt[n]] = n
      /\ expired = <<>> /\ n # NoFd
  BY FdsNat DEF NoDescriptorLost, Kept, IInv, TypeOK, OwnerInv, DogAsleep, NoFd
<1>1. CASE UNCHANGED vars
  BY <1>0, <1>1 DEF vars, Kept
<1>2. ASSUME NEW r \in Requests, NEW mine \in BOOLEAN, NEW k \in Kinds, Open(r, mine, k)
      PROVE  Kept(n)'
  BY <1>0, <1>2 DEF Open, Kept, IInv, OwnerInv, TypeOK
<1>3. ASSUME NEW a \in Actors, ResponseStep(a)
      PROVE  Kept(n)'
  <2>1. CASE ResponseWrite(a)
    BY <1>0, <2>1 DEF ResponseWrite, Kept, IInv, TypeOK, ResponseStates
  <2>2. CASE ResponseClose(a)
    BY <1>0, <2>2 DEF ResponseClose, Closed, Kept, IInv, TypeOK
  <2> QED
    BY <1>3, <2>1, <2>2 DEF ResponseStep
<1>4. ASSUME NEW S \in SUBSET Requests, NEW f \in [S -> Fds], ReadBatch(S, f)
      PROVE  Kept(n)'
  BY <1>0, <1>4 DEF ReadBatch, Free, Kept, IInv, TypeOK
<1>5. ASSUME NEW r \in Requests, ReadNoFd(r)
      PROVE  Kept(n)'
  BY <1>0, <1>5 DEF ReadNoFd, Kept
<1>6. ASSUME NEW r \in Requests, Pass1(r)
      PROVE  Kept(n)'
  <2>1. /\ pass1' = pass1 \ {r} /\ r \in pass2 /\ evfd[r] \in Fds
        /\ UNCHANGED <<fdt, own, kind, pass2, task>>
    BY <1>6 DEF Pass1, IInv, BatchInv
  <2>2. CASE EnablePermission /\ own[r]
    <3>1. /\ rw'["monitor"].fd = evfd[r]
          /\ \A b \in Actors : rw[b].fd = n => rw'[b].fd = n
      BY <1>6, <2>1, <2>2, KeptByRespond DEF Pass1, MonitorFree, Actors
    <3> QED
      BY <1>0, <1>6, <2>1, <2>2, <3>1 DEF Pass1, Actors, Kept
  <2>3. CASE ~(EnablePermission /\ own[r])
    <3>1. rw' = rw
      BY <1>6, <2>3 DEF Pass1
    <3> QED
      BY <1>0, <2>1, <2>3, <3>1 DEF Kept, IInv, TypeOK
  <2> QED
    BY <2>2, <2>3
<1>7. ASSUME NEW r \in Requests, Pass2Own(r) \/ Pass2Push(r)
      PROVE  Kept(n)'
  <2>1. CASE Pass2Own(r)
    BY <1>0, <2>1 DEF Pass2Own, InPass2, Kept
  <2>2. CASE Pass2Push(r)
    <3>1. task[r].fd = NoFd
      BY <2>2 DEF Pass2Push, InPass2, IInv, BatchInv, TaskInv
    <3>2. task'[r].fd = evfd[r] /\ \A q \in Requests \ {r} : task'[q] = task[q]
      BY <2>2 DEF Pass2Push, IInv, TypeOK, NoTask
    <3> QED
      BY <1>0, <2>2, <3>1, <3>2 DEF Pass2Push, InPass2, Kept
  <2> QED
    BY <1>7, <2>1, <2>2
<1>8. ASSUME NEW r \in Requests, Pass2Special(r) \/ Pass2NotScanned(r)
      PROVE  Kept(n)'
  <2>1. /\ evfd[r] \in Fds /\ fdt[evfd[r]] = r /\ ~Answering("monitor")
        /\ pass2' = pass2 \ {r}
        /\ UNCHANGED <<own, kind, pass1, task>>
    BY <1>8 DEF Pass2Special, Pass2NotScanned, InPass2, MonitorFree, IInv, BatchInv
  <2>2. CASE EnablePermission
    <3>1. StartResponse("monitor", evfd[r], "ALLOW") /\ fdt' = fdt
      BY <1>8, <2>2 DEF Pass2Special, Pass2NotScanned, RemoveAndRespond, Removed
    <3> QED
      <4>1. /\ rw'["monitor"].fd = evfd[r]
            /\ \A b \in Actors : rw[b].fd = n => rw'[b].fd = n
        BY <2>1, <3>1, KeptByRespond DEF Actors
      <4> QED
        BY <1>0, <2>1, <2>2, <3>1, <4>1 DEF Actors, Kept
  <2>3. CASE ~EnablePermission
    <3>1. rw' = rw
      BY <1>8, <2>3 DEF Pass2Special, Pass2NotScanned
    <3>2. CASE Pass2Special(r)
      BY <1>0, <2>1, <2>3, <3>1, <3>2, NoReqIsNone DEF Pass2Special, SeenKind, Kept
    <3>3. CASE Pass2NotScanned(r)
      <4>1. fdt' = Closed(evfd[r])
        BY <2>3, <3>3 DEF Pass2NotScanned
      <4> QED
        BY <1>0, <2>1, <2>3, <3>1, <4>1 DEF Closed, Kept
    <3> QED
      BY <1>8, <3>2, <3>3
  <2> QED
    BY <2>2, <2>3
<1>9. ASSUME NEW r \in Requests, LoadMagic(r)
      PROVE  Kept(n)'
  <2>1. UNCHANGED <<fdt, kind, pass1, pass2, rw, task, expired>>
    BY <1>9 DEF LoadMagic
  <2>2. own'[fdt[n]] = own[fdt[n]]
    BY <1>0, <1>9, <2>1 DEF LoadMagic, IInv, TypeOK, OwnerInv
  <2> QED
    BY <1>0, <2>1, <2>2 DEF Kept
<1>10. ASSUME NEW r \in Requests, Scan(r) \/ Fire(r)
       PROVE  Kept(n)'
  <2>1. \A q \in Requests : task'[q].fd = task[q].fd
    BY <1>10 DEF Scan, Fire, IInv, TypeOK, TaskStates
  <2> QED
    BY <1>0, <1>10, <2>1 DEF Scan, Fire, Kept
<1>11. ASSUME NEW r \in Requests, Respond(r)
       PROVE  Kept(n)'
  <2>1. /\ task[r].fd = evfd[r] /\ evfd[r] \in Fds /\ ~Answering(r)
        /\ UNCHANGED <<fdt, own, kind, pass1, pass2>>
    BY <1>11 DEF Respond, IInv, TaskInv, ResponseInv, Actors
  <2>2. CASE EnablePermission
    <3>1. \A q \in Requests \ {r} : task'[q] = task[q]
      BY <1>11, <2>2 DEF Respond, IInv, TypeOK
    <3>2. StartResponse(r, evfd[r], IF task[r].status = "MALWARE" THEN "DENY" ELSE "ALLOW")
      BY <1>11, <2>1, <2>2 DEF Respond, RemoveAndRespond, Removed
    <3> QED
      BY <1>0, <2>1, <3>1, <3>2, KeptByRespond DEF Actors, Kept
  <2>3. CASE ~EnablePermission
    <3>1. rw' = rw /\ \A q \in Requests : task'[q].fd = task[q].fd
      BY <1>11, <2>3 DEF Respond, IInv, TypeOK, TaskStates
    <3> QED
      BY <1>0, <2>1, <3>1 DEF Kept
  <2> QED
    BY <2>2, <2>3
<1>12. ASSUME NEW r \in Requests, Destroy(r)
       PROVE  Kept(n)'
  <2>1. /\ task[r].fd # n /\ fdt'[n] = fdt[n]
        /\ UNCHANGED <<own, kind, pass1, pass2, rw, expired>>
    BY <1>12 DEF Destroy, Closed
  <2>2. \A q \in Requests \ {r} : task'[q] = task[q]
    BY <1>12 DEF Destroy, IInv, TypeOK
  <2> QED
    BY <1>0, <2>1, <2>2 DEF Kept
<1>13. ASSUME Watchdog
       PROVE  Kept(n)'
  BY <1>13 DEF Watchdog, WatchdogWakes, WatchdogAllows, ResponseStep, ResponseWrite,
               ResponseClose, Answering, IInv, DogAsleep
<1>14. Kept(n)' \/ UNCHANGED vars
  BY <1>2, <1>3, <1>4, <1>5, <1>6, <1>7, <1>8, <1>9, <1>10, <1>11, <1>12, <1>13
     DEF Next, Pool, Monitor, Read, Pass2, Actors
<1> QED
  BY <1>1, <1>14 DEF Kept

(* A descriptor received with an event is in some thread's hands until it   *)
(* is closed, but for the two leaks of notification mode.                   *)
THEOREM DescriptorsNotLost == ASSUME ~EnableWatchdog PROVE Spec => []NoDescriptorLost
<1>1. Init => NoDescriptorLost
  BY DEF Init, NoDescriptorLost
<1>2. IInv /\ NoDescriptorLost /\ [Next]_vars => NoDescriptorLost'
  BY StepLosesNothing
<1> QED
  BY <1>1, <1>2, Invariant, PTL DEF Spec

-------------------------------------------------------------------------------
(* The refinement: what programs see of the monitor is a PermissionGate.    *)

\* A step that leaves the requests and their answers alone is invisible.
LEMMA GateStutters ==
  ASSUME UNCHANGED <<gateView, own, kind>>
  PROVE  UNCHANGED Gate!gateVars
BY DEF Gate!gateVars

\* The first move of a request, by a program or by the monitor itself.
LEMMA AskStep ==
  ASSUME IInv, NEW r \in Requests, NEW mine \in BOOLEAN, NEW k \in Kinds,
         event[r] = "none",
         event' = [event EXCEPT ![r] = "queued"],
         own' = [own EXCEPT ![r] = mine],
         kind' = [kind EXCEPT ![r] = k],
         UNCHANGED answer
  PROVE  Gate!Ask(r, mine, k)
<1>1. answer[r] = "none"
  BY DEF IInv, UnreadInv
<1>2. gateView' = [gateView EXCEPT ![r] = "asked"]
  BY <1>1 DEF IInv, TypeOK, gateView
<1> QED
  BY <1>2 DEF Gate!Ask, gateView

\* Writing an answer answers one request, the way the policy wants it.
LEMMA ReplyStep ==
  ASSUME IInv, NEW a \in Actors, ResponseWrite(a)
  PROVE  Gate!Reply(Served(a))
<1> DEFINE s == Served(a)
<1>1. /\ EnablePermission /\ rw[a].fd \in Fds /\ s \in Requests /\ answer[s] = "none"
      /\ rw[a].ans = Gate!Policy(own[s], kind[s])
  BY DEF IInv, ResponseInv, ResponseWrite, Answering
<1>2. event[s] = "read" /\ evfd[s] = rw[a].fd
  BY <1>1, NoReqIsNone DEF IInv, OwnerInv, Served
<1>3. \A r \in Requests : event[r] = "read" /\ evfd[r] = rw[a].fd /\ answer[r] = "none" => r = s
  BY <1>1 DEF IInv, WaitingInv, Waiting, Served
<1>4. answer' = [answer EXCEPT ![s] = Gate!Policy(own[s], kind[s])]
  BY <1>1, <1>2, <1>3 DEF IInv, TypeOK, ResponseWrite, Answered
<1>5. Gate!Policy(own[s], kind[s]) # "none"
  BY DEF Gate!Policy
<1>6. gateView[s] = "asked" /\ gateView' = [gateView EXCEPT ![s] = Gate!Policy(own[s], kind[s])]
  BY <1>1, <1>2, <1>4, <1>5 DEF IInv, TypeOK, ResponseWrite, gateView
<1> QED
  BY <1>6 DEF Gate!Reply, ResponseWrite

\* The kernel refuses an open it has no descriptor for.
LEMMA NoFdStep ==
  ASSUME IInv, NEW r \in Requests, ReadNoFd(r)
  PROVE  Gate!Reply(r) \/ UNCHANGED Gate!gateVars
<1>1. answer[r] = "none" /\ event[r] = "queued"
  BY DEF IInv, UnreadInv, ReadNoFd
<1>2. CASE EnablePermission
  <2>1. gateView[r] = "asked" /\ gateView' = [gateView EXCEPT ![r] = "NOFD"]
    BY <1>1, <1>2 DEF IInv, TypeOK, ReadNoFd, gateView
  <2> QED
    BY <2>1 DEF Gate!Reply, ReadNoFd
<1>3. CASE ~EnablePermission
  <2>1. gateView' = gateView
    BY <1>1, <1>3 DEF IInv, TypeOK, ReadNoFd, gateView
  <2> QED
    BY <2>1, GateStutters DEF ReadNoFd
<1> QED
  BY <1>2, <1>3

\* Every step of the monitor is a step of the gate or invisible.
LEMMA RefinesStep ==
  ASSUME IInv, ~EnableWatchdog, [Next]_vars
  PROVE  [Gate!GateNext]_(Gate!gateVars)
<1>1. CASE UNCHANGED <<event, answer, own, kind>>
  BY <1>1, GateStutters DEF gateView
<1>2. CASE \E r \in Requests, mine \in BOOLEAN, k \in Kinds : Open(r, mine, k)
  BY <1>2, AskStep DEF Open, Gate!GateNext
<1>3. CASE \E a \in Actors : ResponseWrite(a)
  <2>1. PICK a \in Actors : ResponseWrite(a)
    BY <1>3
  <2>2. Served(a) \in Requests
    BY <2>1 DEF IInv, ResponseInv, ResponseWrite, Answering
  <2> QED
    BY <2>1, <2>2, ReplyStep DEF Gate!GateNext
<1>4. CASE \E r \in Requests : ReadNoFd(r)
  BY <1>4, NoFdStep DEF Gate!GateNext
<1>5. CASE \E r \in Requests : LoadMagic(r)
  <2>1. CASE MagicMarked
    <3>1. PICK q \in Requests : /\ event[q] = "none"
                                /\ event' = [event EXCEPT ![q] = "queued"]
                                /\ own' = [own EXCEPT ![q] = TRUE]
      BY <1>5, <2>1 DEF LoadMagic
    <3>2. kind' = [kind EXCEPT ![q] = kind[q]] /\ kind[q] \in Kinds /\ UNCHANGED answer
      BY <1>5 DEF LoadMagic, IInv, TypeOK
    <3> QED
      BY <3>1, <3>2, AskStep DEF Gate!GateNext
  <2>2. CASE ~MagicMarked
    BY <1>1, <1>5, <2>2 DEF LoadMagic
  <2> QED
    BY <2>1, <2>2
<1>6. CASE \E S \in SUBSET Requests : \E f \in [S -> Fds] : ReadBatch(S, f)
  <2>1. gateView' = gateView
    BY <1>6 DEF ReadBatch, IInv, TypeOK, gateView
  <2> QED
    BY <1>6, <2>1, GateStutters DEF ReadBatch
<1>7. CASE \E r \in Requests : \/ Pass1(r) \/ Pass2Own(r) \/ Pass2Special(r)
                               \/ Pass2NotScanned(r) \/ Pass2Push(r)
                               \/ Scan(r) \/ Respond(r) \/ Destroy(r) \/ Fire(r)
  BY <1>1, <1>7 DEF Pass1, Pass2Own, Pass2Special, Pass2NotScanned, Pass2Push, Scan, Respond,
                    Destroy, Fire, kernel
<1>8. CASE \/ \E a \in Actors : ResponseClose(a)
           \/ \E k \in 1..N_FD : WatchdogWakes(k)
           \/ WatchdogAllows
           \/ UNCHANGED vars
  BY <1>1, <1>8 DEF ResponseClose, WatchdogWakes, WatchdogAllows, vars, kernel
<1> QED
  BY <1>2, <1>3, <1>4, <1>5, <1>6, <1>7, <1>8
     DEF Next, Pool, Monitor, Watchdog, Read, Pass2, ResponseStep, Actors

(* As-built on-access protection implements the safety part of the abstract *)
(* gate: an open is answered at most once, with the answer the policy gives *)
(* for that file or the kernel's refusal for want of a descriptor.          *)
THEOREM RefinesGate ==
  ASSUME ~EnableWatchdog
  PROVE  Spec => Gate!GateInit /\ [][Gate!GateNext]_(Gate!gateVars)
<1>1. Init => Gate!GateInit
  BY DEF Init, Gate!GateInit, gateView
<1>2. IInv /\ [Next]_vars => [Gate!GateNext]_(Gate!gateVars)
  BY RefinesStep
<1> QED
  BY <1>1, <1>2, Invariant, PTL DEF Spec
===============================================================================
