------------------------- MODULE WinDriverPortProofs -------------------------
(***************************************************************************)
(* Proofs about the interface of the Windows service to the driver, for    *)
(* any number of worker threads, of opens, of drives, of restarts and of   *)
(* system calls that fail.                                                 *)
(***************************************************************************)
EXTENDS WinDriverPort, TLAPS

(***************************************************************************)
(* The inductive invariant: where the context is in its life (LifeInv,     *)
(* ThreadsInv), that every buffer is in one place (GivenInv, PlaceInv) and *)
(* has a message of its own (ContentInv), so that what a worker is about   *)
(* to send is about the message in its buffer (MessageInv).                *)
(***************************************************************************)
Holding == {w \in Workers : pc[w] \in {"scan", "reply", "rescan", "check", "rearm"}}
Stopping == {"cancel", "join", "close"}
Asleep == {"none", "suspended", "exited"}

\* The context is there outside the idle state, the flag and the port follow it.
LifeInv ==
    /\ ctl # "idle" => live
    /\ ctl \in {"resume", "pump"} \cup Stopping => connected /\ ctxes
    /\ ctl = "idle" => connected = live /\ ctxes = live
    /\ state_flag = IF ctl \in Stopping \/ (ctl = "idle" /\ live) THEN 1 ELSE 0
    /\ wild => lateFailure
    /\ live => starts > 0

\* Workers run only between ResumeThread and the end of UserScanFinalize, a late failure excepted.
ThreadsInv ==
    ~lateFailure =>
        /\ ctl \in {"connect", "resume", "fail", "close"} \/ ~live => \A w \in Workers : pc[w] \in Asleep
        /\ \A w \in Workers : w[1] # starts => pc[w] \in Asleep

\* Buffers that were given to the filter manager: of earlier starts, and of this one so far.
Given(b) == b[1] < starts \/ (b[1] = starts /\ b[2] <= pumped)

GivenInv ==
    /\ \A b \in gets : Given(b)
    /\ \A p \in packets : Given(p.buffer)
    /\ \A w \in Holding : Given(held[w])

\* A buffer is with the filter manager, in the completion port or with one worker.
PlaceInv ==
    /\ \A w \in Holding : held[w] \in Buffers \ gets
    /\ \A w \in Holding, p \in packets : p.buffer # held[w]
    /\ \A v, w \in Holding : held[v] = held[w] => v = w
    /\ \A p \in packets : p.buffer \notin gets
    /\ \A p, q \in packets : p.buffer = q.buffer => p = q

\* Every open is asked about in one buffer at most.
ContentInv ==
    /\ \A b \in Buffers : content[b] \in Opens => open[content[b]] # "idle"
    /\ \A b, c \in Buffers : content[b] \in Opens /\ content[b] = content[c] => b = c
    /\ \A o \in unnamed : open[o] # "idle"

Fresh(o) == o \in Opens /\ open[o] \in {"asked", "released"} /\ o \notin unnamed

\* A buffer that is received or worked on has a message that is not answered before the reply,
\* and the result is the scan's of it.
MessageInv ==
    /\ \A p \in packets : p.ok => Fresh(content[p.buffer])
    /\ \A w \in Holding : content[held[w]] \in Opens
    /\ \A w \in Workers : pc[w] = "scan" => Fresh(content[held[w]])
    /\ \A w \in Workers : pc[w] = "reply" =>
          /\ open[content[held[w]]] \in {"asked", "released"}
          /\ result[w] = IF content[held[w]] \in unnamed THEN "EINVAL" ELSE ScanResult(content[held[w]])

IInv ==
    /\ TypeOK /\ LifeInv /\ ThreadsInv /\ GivenInv /\ PlaceInv /\ ContentInv /\ MessageInv
    /\ AnswerFitsOpen

----------------------------------------------------------------------------
LEMMA Constants ==
    /\ Threads \in Nat /\ Threads > 0 /\ MaxStarts \in Nat /\ MaxFaults \in Nat
    /\ NoOpen \notin Opens
BY ThreadsAssumption, BoundsAssumption, OpensAssumption DEF NoOpen

LEMMA Pairs ==
    /\ \A w \in Workers : w[1] \in 1..MaxStarts /\ w[2] \in 1..Threads
    /\ \A b \in Buffers : b[1] \in 1..MaxStarts /\ b[2] \in 1..Threads
    /\ \A i \in 1..MaxStarts, j \in 1..Threads :
          <<i, j>> \in Buffers /\ <<i, j>>[1] = i /\ <<i, j>>[2] = j
BY DEF Workers, Buffers

\* What the scan of an open gives, and for which opens it is the verdict.
LEMMA ScanResultType == ASSUME NEW o \in Opens PROVE ScanResult(o) \in FileStatuses
BY VerdictAssumption DEF ScanResult, FileStatuses, RankedStatus, UnrankedStatus

LEMMA ScanResultFits == ASSUME NEW o \in Opens, Unambiguous(o) PROVE ScanResult(o) = Verdict[o]
<1> DEFINE hits == {i \in DOMAIN Drives : <<Drives[i], o>> \in Occurs}
<1>1. PICK k \in DOMAIN Drives : Drives[k] = Device[o]
  BY DEF Unambiguous
<1>2. hits = {k}
  BY <1>1, DrivesAssumption, OccursAssumption DEF Unambiguous
<1>3. (CHOOSE i \in hits : \A j \in hits : i <= j) = k
  <2>1. k \in Nat
    BY DrivesAssumption
  <2> QED  BY <1>2, <2>1
<1>4. ConvertDeviceNameToMsDosName(o) = Device[o]
  BY <1>1, <1>2, <1>3 DEF ConvertDeviceNameToMsDosName
<1> QED  BY <1>1, <1>4, DrivesAssumption DEF ScanResult

LEMMA NotAnswers ==
    /\ {"idle", "asked", "released"} \cap FileStatuses = {}
    /\ "IERROR" \in FileStatuses /\ "EINVAL" \in FileStatuses
BY DEF FileStatuses, RankedStatus, UnrankedStatus

\* A worker that runs finds the context, late failures excepted.
LEMMA StillThere ==
    ASSUME IInv, NEW w \in Workers, pc[w] \notin {"none", "suspended", "exited"}
    PROVE  live \/ lateFailure
BY DEF IInv, TypeOK, LifeInv, ThreadsInv, Asleep

LEMMA InitIInv == Init => IInv
<1> SUFFICES ASSUME Init PROVE IInv
  OBVIOUS
<1> USE Constants, NotAnswers DEF Init
<1>1. TypeOK
  <2>1. pumped \in 0..Threads /\ starts \in 0..MaxStarts /\ faults \in 0..MaxFaults
    OBVIOUS
  <2> QED  BY <2>1 DEF TypeOK
<1>2. LifeInv /\ ThreadsInv /\ GivenInv /\ PlaceInv /\ ContentInv /\ MessageInv
  BY DEF LifeInv, ThreadsInv, GivenInv, PlaceInv, ContentInv, MessageInv, Holding, Stopping, Asleep
<1>3. AnswerFitsOpen
  BY DEF AnswerFitsOpen
<1> QED  BY <1>1, <1>2, <1>3 DEF IInv

LEMMA InitThreadsIInv ==
    ASSUME IInv, InitThreads PROVE IInv'
<1> USE Constants, NotAnswers
        DEF IInv, InitThreads, TypeOK, ctxVars, wVars, msgVars, aVars, ghosts, Fault, NoFault
<1>1. TypeOK'
  <2>1. pc' \in [Workers -> {"none", "suspended", "start", "call", "wait", "scan", "reply",
                              "rescan", "check", "rearm", "exited"}]
    OBVIOUS
  <2>2. starts' \in 0..MaxStarts /\ pumped' \in 0..Threads /\ faults' \in 0..MaxFaults
    OBVIOUS
  <2> QED  BY <2>1, <2>2
<1>2. LifeInv'
  <2>1. starts' > 0
    OBVIOUS
  <2> QED  BY <2>1 DEF LifeInv, Stopping
<1>3. ThreadsInv'
  BY DEF ThreadsInv, Asleep
<1>4. GivenInv'
  <2>1. \A b \in Buffers : Given(b) => Given(b)'
    <3> SUFFICES ASSUME NEW b \in Buffers, Given(b) PROVE b[1] < starts + 1
      BY DEF Given
    <3>1. b[1] \in Nat /\ starts \in Nat
      BY Pairs
    <3> QED  BY <3>1 DEF Given
  <2>2. /\ \A b \in gets : b \in Buffers
        /\ \A p \in packets : p.buffer \in Buffers
        /\ \A w \in Holding : held[w] \in Buffers
    BY DEF Packets, PlaceInv
  <2>3. Holding' \subseteq Holding /\ UNCHANGED <<gets, packets, held>>
    BY DEF Holding
  <2> QED  BY ONLY GivenInv, <2>1, <2>2, <2>3 DEF GivenInv
<1>5. PlaceInv'
  BY DEF PlaceInv, Holding
<1>8. ContentInv'
  BY DEF ContentInv
<1>6. MessageInv'
  BY DEF MessageInv, Fresh, Holding
<1>7. AnswerFitsOpen'
  BY DEF AnswerFitsOpen
<1> QED  BY <1>1, <1>2, <1>3, <1>4, <1>5, <1>6, <1>7, <1>8

LEMMA InitConnectIInv ==
    ASSUME IInv, InitConnect PROVE IInv'
<1> USE Constants, NotAnswers
        DEF IInv, InitConnect, TypeOK, ctxVars, wVars, msgVars, aVars, ghosts, Fault, NoFault
<1>1. TypeOK'
  <2>1. faults' \in 0..MaxFaults
    OBVIOUS
  <2> QED  BY <2>1
<1>2. LifeInv'
  BY DEF LifeInv, Stopping
<1>3. ThreadsInv'
  BY DEF ThreadsInv, Asleep
<1>4. GivenInv'
  BY DEF GivenInv, Given, Holding
<1>5. PlaceInv'
  BY DEF PlaceInv, Holding
<1>8. ContentInv'
  BY DEF ContentInv
<1>6. MessageInv'
  BY DEF MessageInv, Fresh, Holding
<1>7. AnswerFitsOpen'
  BY DEF AnswerFitsOpen
<1> QED  BY <1>1, <1>2, <1>3, <1>4, <1>5, <1>6, <1>7, <1>8

LEMMA InitResumeIInv ==
    ASSUME IInv, InitResume PROVE IInv'
<1> USE Constants, NotAnswers
        DEF IInv, InitResume, TypeOK, ctxVars, wVars, msgVars, aVars, ghosts, Fault, NoFault
<1>1. TypeOK'
  BY DEF TypeOK
<1>2. LifeInv'
  BY DEF LifeInv, Stopping
<1>3. ThreadsInv'
  <2> SUFFICES ASSUME ~lateFailure' PROVE ThreadsInv'
    BY DEF ThreadsInv
  <2>1. /\ ~lateFailure /\ UNCHANGED <<live, starts>> /\ live
        /\ \A w \in Workers : pc[w] \in Asleep
    BY DEF ThreadsInv, LifeInv
  <2>2. PICK k \in 0..Threads :
            /\ pc' = [w \in Workers |-> IF w \in Current /\ w[2] <= k THEN "start" ELSE pc[w]]
            /\ IF k = Threads THEN ctl' = "pump" ELSE ctl' = "fail"
            /\ lateFailure' = (lateFailure \/ k \in 1..(Threads - 1))
    OBVIOUS
  <2>3. CASE k = Threads
    <3>1. ctl' = "pump" /\ \A w \in Workers : w[1] # starts => pc'[w] = pc[w]
      BY <2>2, <2>3 DEF Current
    <3> QED  BY <2>1, <3>1 DEF ThreadsInv
  <2>4. CASE k = 0
    <3>1. \A w \in Workers : ~(w[2] <= 0)
      BY Pairs
    <3>2. \A w \in Workers : pc'[w] = pc[w]
      BY <2>2, <2>4, <3>1
    <3> QED  BY <2>1, <3>2 DEF ThreadsInv
  <2>5. k \notin 1..(Threads - 1)
    BY <2>2
  <2>6. k = Threads \/ k = 0
    BY ONLY <2>5, Threads \in Nat, k \in 0..Threads
  <2> QED  BY <2>3, <2>4, <2>6
<1>4. GivenInv'
  BY DEF GivenInv, Given, Holding
<1>5. PlaceInv'
  BY DEF PlaceInv, Holding
<1>8. ContentInv'
  BY DEF ContentInv
<1>6. MessageInv'
  BY DEF MessageInv, Fresh, Holding
<1>7. AnswerFitsOpen'
  BY DEF AnswerFitsOpen
<1> QED  BY <1>1, <1>2, <1>3, <1>4, <1>5, <1>6, <1>7, <1>8

LEMMA InitPumpIInv ==
    ASSUME IInv, InitPump PROVE IInv'
<1> USE Constants, NotAnswers
        DEF IInv, InitPump, TypeOK, ctxVars, wVars, msgVars, aVars, ghosts, Fault, NoFault
<1>a. starts \in 1..MaxStarts /\ pumped \in Nat /\ pumped + 1 \in 1..Threads
  BY DEF LifeInv
<1>b. PICK new \in Buffers : new = <<starts, pumped + 1>> /\ new[1] = starts /\ new[2] = pumped + 1
  <2>1. <<starts, pumped + 1>> \in Buffers
    BY <1>a, Pairs
  <2> QED  BY ONLY <2>1
<1>c. Holding' = Holding /\ UNCHANGED <<packets, held, starts, content, pc, result, open, unnamed>>
  BY DEF Holding
<1>d. \/ gets' = gets \cup {new} /\ pumped' = pumped + 1 /\ ctl' = ctl
      \/ gets' = gets /\ pumped' = pumped /\ ctl' = "fail"
  BY <1>b
<1>e. \A b \in Buffers : Given(b) => b # new /\ Given(b)'
  BY <1>a, <1>b, <1>c, <1>d, Pairs DEF Given
<1>f. /\ \A b \in gets : b \in Buffers
      /\ \A p \in packets : p.buffer \in Buffers
      /\ \A w \in Holding : held[w] \in Buffers
  BY DEF Packets, PlaceInv
<1>1. TypeOK'
  <2>1. gets' \subseteq Buffers
    BY <1>b, <1>d
  <2>2. pumped' \in 0..Threads
    BY <1>a, <1>d
  <2>3. faults' \in 0..MaxFaults
    OBVIOUS
  <2> QED  BY <2>1, <2>2, <2>3
<1>2. LifeInv'
  BY DEF LifeInv, Stopping
<1>3. ThreadsInv'
  BY DEF ThreadsInv, Asleep
<1>4. GivenInv'
  <2>1. Given(new)' \/ new \notin gets'
    <3>1. CASE gets' = gets \cup {new} /\ pumped' = pumped + 1
      <4>1. Given(new)' <=> new[1] < starts \/ (new[1] = starts /\ new[2] <= pumped + 1)
        BY <1>c, <3>1 DEF Given
      <4> QED  BY <1>a, <1>b, <4>1
    <3>2. CASE gets' = gets
      BY <1>e, <1>f, <3>2 DEF GivenInv
    <3> QED  BY <1>d, <3>1, <3>2
  <2>2. \A b \in gets' : Given(b)'
    BY ONLY GivenInv, <1>d, <1>e, <1>f, <2>1 DEF GivenInv
  <2>3. \A p \in packets : Given(p.buffer)'
    BY ONLY GivenInv, <1>e, <1>f DEF GivenInv
  <2>4. \A w \in Holding : Given(held[w])'
    <3> SUFFICES ASSUME NEW w \in Holding PROVE Given(held[w])'
      OBVIOUS
    <3>1. Given(held[w]) /\ held[w] \in Buffers /\ held' = held
      BY <1>c, <1>f DEF GivenInv
    <3> DEFINE b == held[w]
    <3>2. b' = b
      BY <3>1
    <3> QED  BY <1>a, <1>c, <1>d, <3>1, Pairs DEF Given
  <2> QED  BY ONLY <1>c, <2>2, <2>3, <2>4 DEF GivenInv, Given
<1>5. PlaceInv'
  <2>1. /\ \A w \in Holding : held[w] # new
        /\ \A p \in packets : p.buffer # new
    BY <1>e, <1>f DEF GivenInv
  <2> HIDE DEF InitPump, TypeOK
  <2> QED  BY <1>c, <1>d, <2>1 DEF PlaceInv
<1>8. ContentInv'
  BY <1>c DEF ContentInv
<1>6. MessageInv'
  BY <1>c DEF MessageInv, Fresh
<1>7. AnswerFitsOpen'
  BY DEF AnswerFitsOpen
<1> QED  BY <1>1, <1>2, <1>3, <1>4, <1>5, <1>6, <1>7, <1>8

LEMMA InitDoneIInv ==
    ASSUME IInv, InitDone PROVE IInv'
<1> USE Constants, NotAnswers
        DEF IInv, InitDone, TypeOK, ctxVars, wVars, msgVars, aVars, ghosts, Fault, NoFault, toggle_onaccess_state
<1>1. TypeOK'
  BY DEF TypeOK
<1>2. LifeInv'
  BY DEF LifeInv, Stopping
<1>3. ThreadsInv'
  BY DEF ThreadsInv, Asleep, LifeInv
<1>4. GivenInv'
  BY DEF GivenInv, Given, Holding
<1>5. PlaceInv'
  BY DEF PlaceInv, Holding
<1>8. ContentInv'
  BY DEF ContentInv
<1>6. MessageInv'
  BY DEF MessageInv, Fresh, Holding
<1>7. AnswerFitsOpen'
  BY DEF AnswerFitsOpen
<1> QED  BY <1>1, <1>2, <1>3, <1>4, <1>5, <1>6, <1>7, <1>8

LEMMA InitFailIInv ==
    ASSUME IInv, InitFail PROVE IInv'
<1> USE Constants, NotAnswers
        DEF IInv, InitFail, TypeOK, ctxVars, wVars, msgVars, aVars, ghosts, Fault, NoFault, ClosePorts, Released
<1>1. TypeOK'
  BY DEF TypeOK
<1>2. LifeInv'
  BY DEF LifeInv, Stopping
<1>3. ThreadsInv'
  BY DEF ThreadsInv, Asleep
<1>4. GivenInv'
  BY DEF GivenInv, Given, Holding
<1>5. PlaceInv'
  BY DEF PlaceInv, Holding
<1>8. ContentInv'
  BY DEF ContentInv
<1>h. /\ Holding' \subseteq Holding /\ packets' = {}
      /\ \A w \in Workers : pc'[w] \in {"scan", "reply"} => pc[w] = pc'[w] /\ w \in Holding
      /\ UNCHANGED <<held, result, unnamed>>
  BY DEF Holding
<1>i. \A w \in Holding : held[w] \in Buffers /\ content'[held[w]] = content[held[w]]
  BY DEF PlaceInv, Holding
<1>j. \A x \in Opens : open[x] \in {"asked", "released"} => open'[x] \in {"asked", "released"}
  OBVIOUS
<1>6. MessageInv'
  <2>1. MessageInv
    OBVIOUS
  <2>2. \A w \in Holding' : content'[held'[w]] \in Opens
    BY ONLY <1>h, <1>i, <2>1 DEF MessageInv
  <2>3. \A w \in Workers : pc'[w] = "scan" => Fresh(content[held[w]])'
    BY ONLY <1>h, <1>i, <1>j, <2>1 DEF MessageInv, Fresh
  <2>4. \A w \in Workers : pc'[w] = "reply" =>
          /\ open'[content'[held'[w]]] \in {"asked", "released"}
          /\ result'[w] = IF content'[held'[w]] \in unnamed' THEN "EINVAL" ELSE ScanResult(content'[held'[w]])
    BY ONLY <1>h, <1>i, <1>j, <2>1 DEF MessageInv
  <2> QED  BY ONLY <1>h, <2>2, <2>3, <2>4 DEF MessageInv
<1>7. AnswerFitsOpen'
  BY DEF AnswerFitsOpen
<1> QED  BY <1>1, <1>2, <1>3, <1>4, <1>5, <1>6, <1>7, <1>8

LEMMA AskIInv ==
    ASSUME IInv, NEW o \in Opens, Ask(o) PROVE IInv'
<1> USE Constants, NotAnswers DEF IInv, Ask, TypeOK, ctxVars, wVars, msgVars, aVars, ghosts, Fault, NoFault
<1>a. PICK b \in gets :
        /\ gets' = gets \ {b}
        /\ packets' = packets \cup {[buffer |-> b, ok |-> TRUE]}
        /\ content' = [content EXCEPT ![b] = o]
  OBVIOUS
<1>b. b \in Buffers /\ [buffer |-> b, ok |-> TRUE] \in Packets /\ Holding' = Holding
  BY DEF Packets, Holding
<1>c. UNCHANGED <<pc, held, result>>
  OBVIOUS
<1>1. TypeOK'
  <2>1. content' \in [Buffers -> Opens \cup {NoOpen}]
    BY <1>a, <1>b
  <2>2. gets' \subseteq Buffers /\ packets' \subseteq Packets
    BY <1>a, <1>b
  <2>3. open' \in [Opens -> FileStatuses \cup {"idle", "asked", "released"}]
    OBVIOUS
  <2> QED  BY <2>1, <2>2, <2>3
<1>2. LifeInv'
  BY DEF LifeInv, Stopping
<1>3. ThreadsInv'
  BY DEF ThreadsInv, Asleep
<1>4. GivenInv'
  BY <1>a, <1>b, <1>c DEF GivenInv, Given
<1>5. PlaceInv'
  <2> HIDE DEF Ask, TypeOK, IInv
  <2>1. PlaceInv
    BY DEF IInv
  <2> DEFINE q == [buffer |-> b, ok |-> TRUE]
  <2>2. q.buffer = b /\ packets' = packets \cup {q}
    BY <1>a
  <2> HIDE DEF q
  <2>3. /\ \A w \in Holding : held[w] \in Buffers \ gets'
        /\ \A w \in Holding, p \in packets' : p.buffer # held[w]
    BY <2>1, <2>2, <1>a DEF PlaceInv
  <2>4. /\ \A p \in packets' : p.buffer \notin gets'
        /\ \A p, r \in packets' : p.buffer = r.buffer => p = r
    BY <2>1, <2>2, <1>a DEF PlaceInv
  <2> QED  BY <2>1, <2>3, <2>4, <1>b, <1>c DEF PlaceInv
<1>e. /\ \A c \in Buffers : content[c] # o
      /\ o \notin unnamed /\ open[o] = "idle" /\ open' = [open EXCEPT ![o] = "asked"]
  BY DEF ContentInv
<1>8. ContentInv'
  <2>1. \A c \in Buffers : content'[c] = IF c = b THEN o ELSE content[c]
    BY <1>a, <1>b
  <2>2. \A x \in Opens : open'[x] # "idle" <=> open[x] # "idle" \/ x = o
    BY <1>e
  <2>3. ContentInv /\ unnamed' = unnamed /\ unnamed \subseteq Opens
    OBVIOUS
  <2> QED  BY ONLY <2>1, <2>2, <2>3, <1>e DEF ContentInv
<1>6. MessageInv'
  <2>1. \A w \in Holding : held[w] # b /\ held[w] \in Buffers
    BY DEF PlaceInv
  <2>2. \A p \in packets : p.buffer # b /\ p.buffer \in Buffers
    BY DEF PlaceInv, Packets
  <2>3. \A w \in Holding : content'[held[w]] = content[held[w]]
    BY <1>a, <1>b, <2>1
  <2>4. \A x : Fresh(x) => Fresh(x)'
    BY <1>e DEF Fresh
  <2>5. \A p \in packets' : p.ok => Fresh(content[p.buffer])'
    <3> SUFFICES ASSUME NEW p \in packets', p.ok PROVE Fresh(content[p.buffer])'
      OBVIOUS
    <3>1. CASE p \in packets
      <4>1. content'[p.buffer] = content[p.buffer]
        BY <1>a, <1>b, <2>2, <3>1
      <4> QED  BY <2>4, <3>1, <4>1 DEF MessageInv
    <3>2. CASE p \notin packets
      <4>1. content'[p.buffer] = o
        BY <1>a, <1>b, <3>2
      <4> QED  BY <1>e, <4>1 DEF Fresh
    <3> QED  BY <3>1, <3>2
  <2>6. \A w \in Workers : pc[w] \in {"scan", "reply"} => w \in Holding
    BY DEF Holding
  <2>7. \A x \in Opens : open[x] \in {"asked", "released"} => open'[x] \in {"asked", "released"}
    BY <1>e
  <2>8. MessageInv /\ unnamed' = unnamed
    OBVIOUS
  <2>9. \A w \in Workers : pc[w] = "scan" => Fresh(content[held[w]])'
    <3> SUFFICES ASSUME NEW w \in Workers, pc[w] = "scan" PROVE Fresh(content[held[w]])'
      OBVIOUS
    <3>1. Fresh(content[held[w]]) /\ content'[held[w]] = content[held[w]] /\ held' = held
      BY <2>3, <2>6, <2>8 DEF MessageInv
    <3> QED  BY ONLY <2>4, <3>1
  <2>10. \A w \in Holding : content'[held[w]] \in Opens
    BY ONLY <2>3, <2>8 DEF MessageInv
  <2>11. \A w \in Workers : pc[w] = "reply" =>
           /\ open'[content'[held[w]]] \in {"asked", "released"}
           /\ result[w] = IF content'[held[w]] \in unnamed' THEN "EINVAL" ELSE ScanResult(content'[held[w]])
    BY ONLY <2>3, <2>6, <2>7, <2>8, <2>10 DEF MessageInv
  <2> QED  BY ONLY <1>b, <1>c, <2>5, <2>9, <2>10, <2>11 DEF MessageInv
<1>7. AnswerFitsOpen'
  BY DEF AnswerFitsOpen
<1> QED  BY <1>1, <1>2, <1>3, <1>4, <1>5, <1>6, <1>7, <1>8

LEMMA WorkerStartIInv ==
    ASSUME IInv, NEW w \in Workers, WorkerStart(w) PROVE IInv'
<1> USE Constants, NotAnswers
        DEF IInv, WorkerStart, TypeOK, ctxVars, wVars, msgVars, aVars, ghosts, Fault, NoFault, wUnchanged, aUnchanged, Uses, Goto
<1>a. (live /\ ctxes) \/ lateFailure
  <2>1. live \/ lateFailure
    BY StillThere
  <2>2. ~lateFailure => ctl \notin {"connect", "resume", "fail", "close"}
    BY DEF ThreadsInv, Asleep
  <2> QED  BY <2>1, <2>2 DEF LifeInv, Stopping
<1>1. TypeOK'
  <2>1. pc' \in [Workers -> {"none", "suspended", "start", "call", "wait", "scan", "reply",
                              "rescan", "check", "rearm", "exited"}]
    OBVIOUS
  <2>2. wild' \in BOOLEAN
    OBVIOUS
  <2> QED  BY <2>1, <2>2
<1>2. LifeInv'
  BY <1>a DEF LifeInv, Stopping
<1>3. ThreadsInv'
  BY DEF ThreadsInv, Asleep
<1>4. GivenInv'
  BY DEF GivenInv, Given, Holding
<1>5. PlaceInv'
  <2>1. Holding' = Holding
    BY DEF Holding
  <2> QED  BY <2>1 DEF PlaceInv
<1>8. ContentInv'
  BY DEF ContentInv
<1>6. MessageInv'
  BY DEF MessageInv, Fresh, Holding
<1>7. AnswerFitsOpen'
  BY DEF AnswerFitsOpen
<1> QED  BY <1>1, <1>2, <1>3, <1>4, <1>5, <1>6, <1>7, <1>8

LEMMA WorkerCallIInv ==
    ASSUME IInv, NEW w \in Workers, WorkerCall(w) PROVE IInv'
<1> USE Constants, NotAnswers
        DEF IInv, WorkerCall, TypeOK, ctxVars, wVars, msgVars, aVars, ghosts, Fault, NoFault, wUnchanged, aUnchanged, Uses, Goto
<1>a. live \/ lateFailure
  BY StillThere
<1>1. TypeOK'
  <2>1. pc' \in [Workers -> {"none", "suspended", "start", "call", "wait", "scan", "reply",
                              "rescan", "check", "rearm", "exited"}]
    OBVIOUS
  <2>2. wild' \in BOOLEAN
    OBVIOUS
  <2> QED  BY <2>1, <2>2
<1>2. LifeInv'
  BY <1>a DEF LifeInv, Stopping
<1>3. ThreadsInv'
  BY DEF ThreadsInv, Asleep
<1>4. GivenInv'
  BY DEF GivenInv, Given, Holding
<1>5. PlaceInv'
  BY DEF PlaceInv, Holding
<1>8. ContentInv'
  BY DEF ContentInv
<1>6. MessageInv'
  BY DEF MessageInv, Fresh, Holding
<1>7. AnswerFitsOpen'
  BY DEF AnswerFitsOpen
<1> QED  BY <1>1, <1>2, <1>3, <1>4, <1>5, <1>6, <1>7, <1>8

LEMMA WorkerReceiveIInv ==
    ASSUME IInv, NEW w \in Workers, WorkerReceive(w) PROVE IInv'
<1> USE Constants, NotAnswers
        DEF IInv, WorkerReceive, TypeOK, ctxVars, wVars, msgVars, aVars, ghosts, Fault, NoFault, wUnchanged, aUnchanged, Uses, Goto
<1>a. PICK p \in packets :
        p.ok /\ packets' = packets \ {p} /\ held' = [held EXCEPT ![w] = p.buffer]
  OBVIOUS
<1>b. p.buffer \in Buffers
  BY DEF Packets
<1>c. Holding' = Holding \cup {w} /\ w \notin Holding
  BY DEF Holding
<1>d. held'[w] = p.buffer /\ \A v \in Holding : held'[v] = held[v]
  BY <1>a, <1>c DEF Holding
<1>1. TypeOK'
  <2>1. held' \in [Workers -> Buffers \cup {NoBuffer}]
    BY <1>a, <1>b
  <2>2. packets' \subseteq Packets
    BY <1>a
  <2> QED  BY <2>1, <2>2
<1>2. LifeInv'
  BY DEF LifeInv, Stopping
<1>3. ThreadsInv'
  BY DEF ThreadsInv, Asleep
<1>4. GivenInv'
  BY <1>a, <1>b, <1>c, <1>d DEF GivenInv, Given
<1>5. PlaceInv'
  <2> HIDE DEF TypeOK
  <2>1. /\ \A v \in Holding' : held'[v] \in Buffers \ gets
        /\ \A v \in Holding', q \in packets' : q.buffer # held'[v]
    BY <1>a, <1>b, <1>c, <1>d DEF PlaceInv
  <2>2. \A v, u \in Holding' : held'[v] = held'[u] => v = u
    BY <1>a, <1>c, <1>d DEF PlaceInv
  <2> QED  BY <1>a, <2>1, <2>2 DEF PlaceInv
<1>8. ContentInv'
  BY DEF ContentInv
<1>6. MessageInv'
  <2>1. /\ \A v \in Workers : pc'[v] = "reply" => pc[v] = "reply" /\ held'[v] = held[v]
        /\ \A v \in Workers : pc'[v] = "scan" => v = w \/ (pc[v] = "scan" /\ held'[v] = held[v])
    OBVIOUS
  <2>2. MessageInv /\ UNCHANGED <<content, open, unnamed, result>>
    OBVIOUS
  <2> HIDE DEF WorkerReceive, TypeOK
  <2>3. \A v \in Holding' : content'[held'[v]] \in Opens
    BY <1>a, <1>c, <1>d, <2>2 DEF MessageInv, Fresh
  <2>4. \A v \in Workers : pc'[v] = "scan" => Fresh(content[held[v]])'
    BY <1>a, <1>c, <1>d, <2>1, <2>2 DEF MessageInv, Fresh
  <2> QED  BY <1>a, <2>1, <2>2, <2>3, <2>4 DEF MessageInv, Fresh
<1>7. AnswerFitsOpen'
  BY DEF AnswerFitsOpen
<1> QED  BY <1>1, <1>2, <1>3, <1>4, <1>5, <1>6, <1>7, <1>8

LEMMA WorkerWokenIInv ==
    ASSUME IInv, NEW w \in Workers, WorkerWoken(w) PROVE IInv'
<1> USE Constants, NotAnswers
        DEF IInv, WorkerWoken, TypeOK, ctxVars, wVars, msgVars, aVars, ghosts, Fault, NoFault, wUnchanged, aUnchanged, Uses, Goto
<1>1. TypeOK'
  BY DEF TypeOK
<1>2. LifeInv'
  BY DEF LifeInv, Stopping
<1>3. ThreadsInv'
  BY DEF ThreadsInv, Asleep
<1>4. GivenInv'
  BY DEF GivenInv, Given, Holding
<1>5. PlaceInv'
  BY DEF PlaceInv, Holding
<1>8. ContentInv'
  BY DEF ContentInv
<1>6. MessageInv'
  BY DEF MessageInv, Fresh, Holding
<1>7. AnswerFitsOpen'
  BY DEF AnswerFitsOpen
<1> QED  BY <1>1, <1>2, <1>3, <1>4, <1>5, <1>6, <1>7, <1>8

LEMMA WorkerScanIInv ==
    ASSUME IInv, NEW w \in Workers, WorkerScan(w) PROVE IInv'
<1> USE Constants, NotAnswers
        DEF IInv, WorkerScan, TypeOK, ctxVars, wVars, msgVars, aVars, ghosts, Fault, NoFault, wUnchanged, aUnchanged, Uses, Goto
<1>a. content[held[w]] \in Opens
  BY DEF MessageInv, Holding
<1>1. TypeOK'
  <2>1. ScanResult(content[held[w]]) \in FileStatuses
    BY <1>a, ScanResultType
  <2>2. result' \in [Workers -> FileStatuses]
    BY <2>1
  <2>3. unnamed' \subseteq Opens /\ faults' \in 0..MaxFaults
    BY <1>a
  <2> QED  BY <2>2, <2>3
<1>2. LifeInv'
  BY DEF LifeInv, Stopping
<1>3. ThreadsInv'
  BY DEF ThreadsInv, Asleep
<1>4. GivenInv'
  BY DEF GivenInv, Given, Holding
<1>5. PlaceInv'
  BY DEF PlaceInv, Holding
<1> DEFINE x == content[held[w]]
<1>b. /\ Fresh(x) /\ held[w] \in Buffers
      /\ \A v \in Holding : v # w => content[held[v]] # x
      /\ \A p \in packets : p.ok => content[p.buffer] # x
  <2>1. Fresh(x) /\ w \in Holding /\ held[w] \in Buffers
    BY DEF MessageInv, Holding, PlaceInv
  <2>2. ASSUME NEW v \in Holding, v # w PROVE content[held[v]] # x
    <3>1. held[v] # held[w] /\ held[v] \in Buffers
      BY <2>1, <2>2 DEF PlaceInv
    <3> QED  BY <2>1, <3>1 DEF ContentInv, Fresh
  <2>3. ASSUME NEW p \in packets PROVE content[p.buffer] # x
    <3>1. p.buffer # held[w] /\ p.buffer \in Buffers
      BY <2>1 DEF PlaceInv, Packets
    <3> QED  BY <2>1, <3>1 DEF ContentInv, Fresh
  <2> QED  BY <2>1, <2>2, <2>3
<1>c. \/ result' = [result EXCEPT ![w] = ScanResult(x)] /\ unnamed' = unnamed
      \/ result' = [result EXCEPT ![w] = "EINVAL"] /\ unnamed' = unnamed \cup {x}
  OBVIOUS
<1>d. UNCHANGED <<content, held, open, packets>> /\ pc' = [pc EXCEPT ![w] = "reply"]
  OBVIOUS
<1> HIDE DEF x
<1>8. ContentInv'
  BY <1>b, <1>c, <1>d DEF ContentInv, Fresh
<1>6. MessageInv'
  <2>1. MessageInv /\ Holding' = Holding /\ w \in Holding
    BY <1>d DEF Holding
  <2>2. \A p \in packets' : p.ok => Fresh(content[p.buffer])'
    BY <2>1, <1>b, <1>c, <1>d DEF MessageInv, Fresh
  <2>3. \A v \in Workers : pc'[v] = "scan" => Fresh(content[held[v]])'
    <3> SUFFICES ASSUME NEW v \in Workers, pc'[v] = "scan" PROVE Fresh(content[held[v]])'
      OBVIOUS
    <3>1. v # w /\ pc[v] = "scan" /\ v \in Holding
      BY <1>d DEF Holding
    <3> QED  BY <2>1, <3>1, <1>b, <1>c, <1>d DEF MessageInv, Fresh
  <2>4. ASSUME NEW v \in Workers, pc'[v] = "reply"
        PROVE  /\ open[content[held[v]]] \in {"asked", "released"}
               /\ result'[v] = IF content[held[v]] \in unnamed' THEN "EINVAL" ELSE ScanResult(content[held[v]])
    <3>1. CASE v = w
      BY <3>1, <1>b, <1>c, <1>d DEF Fresh, x
    <3>2. CASE v # w
      <4>1. pc[v] = "reply" /\ v \in Holding /\ result'[v] = result[v]
        BY <2>4, <3>2, <1>c, <1>d DEF Holding
      <4> QED  BY <2>1, <3>2, <4>1, <1>b, <1>c DEF MessageInv
    <3> QED  BY <3>1, <3>2
  <2> QED  BY <2>1, <2>2, <2>3, <2>4, <1>d DEF MessageInv
<1>7. AnswerFitsOpen'
  <2>1. open[x] \notin FileStatuses
    BY <1>b DEF Fresh
  <2> QED  BY <1>c, <1>d, <2>1 DEF AnswerFitsOpen
<1> QED  BY <1>1, <1>2, <1>3, <1>4, <1>5, <1>6, <1>7, <1>8

LEMMA WorkerReplyIInv ==
    ASSUME IInv, NEW w \in Workers, WorkerReply(w) PROVE IInv'
<1> USE Constants, NotAnswers
        DEF IInv, WorkerReply, TypeOK, ctxVars, wVars, msgVars, aVars, ghosts, Fault, NoFault, wUnchanged, aUnchanged, Uses, Goto
<1>a. live \/ lateFailure
  BY StillThere
<1>b. content[held[w]] \in Opens
  BY DEF MessageInv, Holding
<1> DEFINE x == content[held[w]]
<1>c. /\ \/ /\ open[x] = "asked" /\ open' = [open EXCEPT ![x] = result[w]]
            /\ undelivered' = undelivered
         \/ open' = open /\ undelivered' \subseteq undelivered \cup {x}
      /\ pc' = [pc EXCEPT ![w] = "rescan"] \/ pc' = [pc EXCEPT ![w] = "check"]
         \/ pc' = [pc EXCEPT ![w] = "exited"]
      /\ wild' = wild \/ (wild' = TRUE /\ ~live)
      /\ faults' \in 0..MaxFaults
      /\ UNCHANGED <<ctl, starts, pumped, live, connected, completion, ctxes, Finalized, state_flag>>
      /\ UNCHANGED <<held, result, gets, packets, content, unnamed, strayed, lateFailure>>
  OBVIOUS
<1>d. /\ held[w] \in Buffers /\ w \in Holding
      /\ \A v \in Holding : v # w => content[held[v]] # x
      /\ \A p \in packets : content[p.buffer] # x
  <2>1. w \in Holding /\ held[w] \in Buffers
    BY DEF Holding, PlaceInv
  <2>2. ASSUME NEW v \in Holding, v # w PROVE content[held[v]] # x
    <3>1. held[v] # held[w] /\ held[v] \in Buffers
      BY <2>1, <2>2 DEF PlaceInv
    <3> QED  BY <1>b, <2>1, <3>1 DEF ContentInv
  <2>3. ASSUME NEW p \in packets PROVE content[p.buffer] # x
    <3>1. p.buffer # held[w] /\ p.buffer \in Buffers
      BY <2>1 DEF PlaceInv, Packets
    <3> QED  BY <1>b, <2>1, <3>1 DEF ContentInv
  <2> QED  BY <2>1, <2>2, <2>3
<1>e. /\ x \in Opens /\ result[w] \in FileStatuses
      /\ result[w] = IF x \in unnamed THEN "EINVAL" ELSE ScanResult(x)
  BY <1>b DEF MessageInv
<1> HIDE DEF x, WorkerReply
<1>1. TypeOK'
  <2>1. open' \in [Opens -> FileStatuses \cup {"idle", "asked", "released"}]
    BY <1>c, <1>e
  <2>2. wild' \in BOOLEAN
    BY <1>c
  <2>3. pc' \in [Workers -> {"none", "suspended", "start", "call", "wait", "scan", "reply",
                              "rescan", "check", "rearm", "exited"}]
    BY <1>c
  <2>4. undelivered' \subseteq Opens
    BY <1>c, <1>e
  <2> QED  BY <1>c, <2>1, <2>2, <2>3, <2>4
<1>2. LifeInv'
  BY <1>a, <1>c DEF LifeInv, Stopping
<1>h. Holding' \subseteq Holding /\ \A v \in Workers : v # w => pc'[v] = pc[v]
  <2>1. \A v \in Workers : v # w => pc'[v] = pc[v]
    BY <1>c
  <2> QED  BY <1>d, <2>1 DEF Holding
<1>3. ThreadsInv'
  <2>1. pc[w] \notin Asleep
    BY <1>d DEF Holding, Asleep
  <2> QED  BY <1>c, <1>h, <2>1 DEF ThreadsInv
<1>4. GivenInv'
  BY <1>c, <1>h DEF GivenInv, Given
<1>5. PlaceInv'
  BY <1>c, <1>h DEF PlaceInv
<1>8. ContentInv'
  <2>1. \A o \in Opens : open[o] # "idle" => open'[o] # "idle"
    BY <1>c, <1>e
  <2> QED  BY <1>c, <2>1 DEF ContentInv
<1>6. MessageInv'
  <2>1. \A o \in Opens : o # x => open'[o] = open[o]
    BY <1>c, <1>e
  <2>2. \A o \in Opens : o # x /\ Fresh(o) => Fresh(o)'
    BY <1>c, <2>1 DEF Fresh
  <2>3. MessageInv /\ \A v \in Holding : content[held[v]] \in Opens
    BY DEF MessageInv
  <2>4. \A p \in packets' : p.ok => Fresh(content[p.buffer])'
    BY <1>c, <1>d, <2>2, <2>3 DEF MessageInv, Fresh
  <2>5. \A v \in Workers : pc'[v] \in {"scan", "reply"} => v # w /\ v \in Holding /\ pc[v] = pc'[v]
    BY <1>c, <1>h DEF Holding
  <2>6. \A v \in Workers : pc'[v] = "scan" => Fresh(content[held[v]])'
    BY <1>c, <1>d, <2>2, <2>3, <2>5 DEF MessageInv
  <2>7. \A v \in Workers : pc'[v] = "reply" =>
          /\ open'[content'[held'[v]]] \in {"asked", "released"}
          /\ result'[v] = IF content'[held'[v]] \in unnamed' THEN "EINVAL" ELSE ScanResult(content'[held'[v]])
    BY <1>c, <1>d, <2>1, <2>3, <2>5 DEF MessageInv
  <2> QED  BY <1>c, <1>h, <2>3, <2>4, <2>6, <2>7 DEF MessageInv
<1>7. AnswerFitsOpen'
  <2> SUFFICES ASSUME NEW o \in Opens, open'[o] \in FileStatuses, Unambiguous(o)
               PROVE  open'[o] = IF o \in unnamed THEN "EINVAL" ELSE Verdict[o]
    BY <1>c DEF AnswerFitsOpen
  <2>1. CASE open'[o] = open[o]
    BY <2>1 DEF AnswerFitsOpen
  <2>2. CASE open'[o] # open[o]
    <3>1. o = x /\ open'[o] = result[w]
      BY <1>c, <1>e, <2>2
    <3> QED  BY <1>e, <3>1, ScanResultFits
  <2> QED  BY <2>1, <2>2
<1> QED  BY <1>1, <1>2, <1>3, <1>4, <1>5, <1>6, <1>7, <1>8

LEMMA WorkerRescanIInv ==
    ASSUME IInv, NEW w \in Workers, WorkerRescan(w) PROVE IInv'
<1> USE Constants, NotAnswers
        DEF IInv, WorkerRescan, TypeOK, ctxVars, wVars, msgVars, aVars, ghosts, Fault, NoFault, wUnchanged, aUnchanged, Uses, Goto
<1>a. content[held[w]] \in Opens
  BY DEF MessageInv, Holding
<1>1. TypeOK'
  <2>1. ScanResult(content[held[w]]) \in FileStatuses
    BY <1>a, ScanResultType
  <2>2. result' \in [Workers -> FileStatuses]
    BY <2>1
  <2> QED  BY <2>2
<1>2. LifeInv'
  BY DEF LifeInv, Stopping
<1>3. ThreadsInv'
  BY DEF ThreadsInv, Asleep
<1>4. GivenInv'
  BY DEF GivenInv, Given, Holding
<1>5. PlaceInv'
  BY DEF PlaceInv, Holding
<1>8. ContentInv'
  BY DEF ContentInv
<1>6. MessageInv'
  BY DEF MessageInv, Fresh, Holding
<1>7. AnswerFitsOpen'
  BY DEF AnswerFitsOpen
<1> QED  BY <1>1, <1>2, <1>3, <1>4, <1>5, <1>6, <1>7, <1>8

LEMMA WorkerCheckIInv ==
    ASSUME IInv, NEW w \in Workers, WorkerCheck(w) PROVE IInv'
<1> USE Constants, NotAnswers
        DEF IInv, WorkerCheck, TypeOK, ctxVars, wVars, msgVars, aVars, ghosts, Fault, NoFault, wUnchanged, aUnchanged, Uses, Goto
<1>a. live \/ lateFailure
  BY StillThere
<1>1. TypeOK'
  <2>1. held' \in [Workers -> Buffers \cup {NoBuffer}] /\ result' \in [Workers -> FileStatuses]
    OBVIOUS
  <2>2. wild' \in BOOLEAN
    OBVIOUS
  <2>3. pc' \in [Workers -> {"none", "suspended", "start", "call", "wait", "scan", "reply",
                              "rescan", "check", "rearm", "exited"}]
    OBVIOUS
  <2> QED  BY <2>1, <2>2, <2>3
<1>2. LifeInv'
  BY <1>a DEF LifeInv, Stopping
<1>3. ThreadsInv'
  BY DEF ThreadsInv, Asleep
<1>4. GivenInv'
  BY DEF GivenInv, Given, Holding
<1>5. PlaceInv'
  <2>1. Holding' \subseteq Holding /\ \A v \in Holding' : held'[v] = held[v]
    BY DEF Holding
  <2> QED  BY <2>1 DEF PlaceInv
<1>8. ContentInv'
  BY DEF ContentInv
<1>6. MessageInv'
  BY DEF MessageInv, Fresh, Holding
<1>7. AnswerFitsOpen'
  BY DEF AnswerFitsOpen
<1> QED  BY <1>1, <1>2, <1>3, <1>4, <1>5, <1>6, <1>7, <1>8

LEMMA WorkerRearmIInv ==
    ASSUME IInv, NEW w \in Workers, WorkerRearm(w) PROVE IInv'
<1> USE Constants, NotAnswers
        DEF IInv, WorkerRearm, TypeOK, ctxVars, wVars, msgVars, aVars, ghosts, Fault, NoFault, wUnchanged, aUnchanged, Uses, Goto
<1>a. live \/ lateFailure
  BY StillThere
<1>b. w \in Holding /\ held[w] \in Buffers
  BY DEF PlaceInv, Holding
<1>c. Holding' = Holding \ {w} /\ \A v \in Holding' : held'[v] = held[v] /\ held[v] # held[w]
  BY DEF PlaceInv, Holding
<1>d. gets' = gets \/ gets' = gets \cup {held[w]}
  BY ONLY WorkerRearm(w) DEF WorkerRearm
<1>e. content' = [content EXCEPT ![held[w]] = NoOpen] /\ packets' = packets
  OBVIOUS
<1>1. TypeOK'
  <2>1. gets' \subseteq Buffers
    BY <1>b, <1>d
  <2>5. held' \in [Workers -> Buffers \cup {NoBuffer}]
    OBVIOUS
  <2>2. content' \in [Buffers -> Opens \cup {NoOpen}]
    BY <1>b
  <2>3. wild' \in BOOLEAN
    OBVIOUS
  <2>4. pc' \in [Workers -> {"none", "suspended", "start", "call", "wait", "scan", "reply",
                              "rescan", "check", "rearm", "exited"}]
    OBVIOUS
  <2> QED  BY <2>1, <2>2, <2>3, <2>4, <2>5
<1>2. LifeInv'
  BY <1>a DEF LifeInv, Stopping
<1>3. ThreadsInv'
  BY DEF ThreadsInv, Asleep
<1>4. GivenInv'
  <2>1. UNCHANGED <<starts, pumped, packets>> /\ Given(held[w])
    BY <1>b DEF GivenInv
  <2> HIDE DEF WorkerRearm, TypeOK
  <2> QED  BY <1>c, <1>d, <2>1 DEF GivenInv, Given
<1>5. PlaceInv'
  <2>1. /\ \A v \in Holding' : held'[v] \in Buffers \ gets'
        /\ \A p \in packets : p.buffer \notin gets'
    BY <1>b, <1>c, <1>d DEF PlaceInv
  <2> QED  BY <1>c, <1>e, <2>1 DEF PlaceInv
<1>6. MessageInv'
  <2>1. \A p \in packets : p.buffer # held[w] /\ p.buffer \in Buffers
    BY <1>b DEF PlaceInv, Packets
  <2>2. \A v \in Holding' : content'[held'[v]] = content[held[v]]
    <3> SUFFICES ASSUME NEW v \in Holding' PROVE content'[held'[v]] = content[held[v]]
      OBVIOUS
    <3>1. held[v] \in Buffers
      BY <1>c DEF PlaceInv
    <3> QED  BY <1>b, <1>c, <1>e, <3>1
  <2>3. MessageInv /\ UNCHANGED <<open, unnamed, result>>
    OBVIOUS
  <2>4. \A p \in packets' : p.ok => Fresh(content[p.buffer])'
    <3>1. \A p \in packets : content'[p.buffer] = content[p.buffer]
      BY <1>e, <2>1
    <3> QED  BY ONLY <1>e, <2>3, <3>1 DEF MessageInv, Fresh
  <2>5. \A v \in Workers : pc'[v] \in {"scan", "reply"} => v \in Holding' /\ pc[v] = pc'[v]
    BY DEF Holding
  <2>6. Holding' \subseteq Holding
    BY <1>c
  <2>7. \A v \in Workers : pc'[v] = "scan" => Fresh(content[held[v]])'
    BY ONLY <2>2, <2>3, <2>5 DEF MessageInv, Fresh
  <2>8. \A v \in Workers : pc'[v] = "reply" =>
          /\ open'[content'[held'[v]]] \in {"asked", "released"}
          /\ result'[v] = IF content'[held'[v]] \in unnamed' THEN "EINVAL" ELSE ScanResult(content'[held'[v]])
    BY ONLY <2>2, <2>3, <2>5 DEF MessageInv
  <2> QED  BY ONLY <2>2, <2>3, <2>4, <2>6, <2>7, <2>8 DEF MessageInv
<1>8. ContentInv'
  <2>1. \A b \in Buffers : content'[b] \in Opens => content'[b] = content[b]
    BY <1>b, <1>e
  <2> QED  BY <2>1 DEF ContentInv
<1>7. AnswerFitsOpen'
  BY DEF AnswerFitsOpen
<1> QED  BY <1>1, <1>2, <1>3, <1>4, <1>5, <1>6, <1>7, <1>8

LEMMA FinalizeFlagIInv ==
    ASSUME IInv, FinalizeFlag PROVE IInv'
<1> USE Constants, NotAnswers
        DEF IInv, FinalizeFlag, TypeOK, ctxVars, wVars, msgVars, aVars, ghosts, Fault, NoFault
<1>1. TypeOK'
  BY DEF TypeOK
<1>2. LifeInv'
  BY DEF LifeInv, Stopping
<1>3. ThreadsInv'
  BY DEF ThreadsInv, Asleep
<1>4. GivenInv'
  BY DEF GivenInv, Given, Holding
<1>5. PlaceInv'
  BY DEF PlaceInv, Holding
<1>8. ContentInv'
  BY DEF ContentInv
<1>6. MessageInv'
  BY DEF MessageInv, Fresh, Holding
<1>7. AnswerFitsOpen'
  BY DEF AnswerFitsOpen
<1> QED  BY <1>1, <1>2, <1>3, <1>4, <1>5, <1>6, <1>7, <1>8

LEMMA FinalizeCancelIInv ==
    ASSUME IInv, FinalizeCancel PROVE IInv'
<1> USE Constants, NotAnswers
        DEF IInv, FinalizeCancel, TypeOK, ctxVars, wVars, msgVars, aVars, ghosts, Fault, NoFault
<1>a. \A p \in packets' : 
        p \in packets \/ (p.buffer \in gets /\ p = [buffer |-> p.buffer, ok |-> FALSE])
  OBVIOUS
<1>b. Holding' = Holding /\ gets' = {} /\ UNCHANGED <<held, content>>
  BY DEF Holding
<1>1. TypeOK'
  <2>1. \A b \in gets : [buffer |-> b, ok |-> FALSE] \in Packets
    BY DEF Packets
  <2>2. packets' \subseteq Packets
    BY <2>1
  <2> QED  BY <2>2
<1>2. LifeInv'
  BY DEF LifeInv, Stopping
<1>3. ThreadsInv'
  BY DEF ThreadsInv, Asleep
<1>4. GivenInv'
  BY DEF GivenInv, Given, Holding
<1>5. PlaceInv'
  <2> HIDE DEF FinalizeCancel, TypeOK
  <2>1. \A p, q \in packets' : p.buffer = q.buffer => p = q
    BY <1>a DEF PlaceInv
  <2>2. \A w \in Holding', p \in packets' : p.buffer # held'[w]
    BY <1>a, <1>b DEF PlaceInv
  <2> QED  BY <1>b, <2>1, <2>2 DEF PlaceInv
<1>8. ContentInv'
  BY DEF ContentInv
<1>6. MessageInv'
  <2>1. \A p \in packets' : p.ok => p \in packets
    BY <1>a
  <2>2. UNCHANGED <<open, unnamed, result, pc>>
    OBVIOUS
  <2> QED  BY <1>b, <2>1, <2>2 DEF MessageInv, Fresh
<1>7. AnswerFitsOpen'
  BY DEF AnswerFitsOpen
<1> QED  BY <1>1, <1>2, <1>3, <1>4, <1>5, <1>6, <1>7, <1>8

LEMMA FinalizeJoinIInv ==
    ASSUME IInv, FinalizeJoin PROVE IInv'
<1> USE Constants, NotAnswers
        DEF IInv, FinalizeJoin, TypeOK, ctxVars, wVars, msgVars, aVars, ghosts, Fault, NoFault
<1>1. TypeOK'
  BY DEF TypeOK
<1>2. LifeInv'
  BY DEF LifeInv, Stopping
<1>3. ThreadsInv'
  <2> SUFFICES ASSUME ~lateFailure PROVE \A w \in Workers : pc[w] \in Asleep
    BY DEF ThreadsInv
  <2>1. \A w \in Workers : w[1] = starts => pc[w] = "exited"
    BY DEF Current
  <2> QED  BY <2>1 DEF ThreadsInv, Asleep
<1>4. GivenInv'
  BY DEF GivenInv, Given, Holding
<1>5. PlaceInv'
  BY DEF PlaceInv, Holding
<1>8. ContentInv'
  BY DEF ContentInv
<1>6. MessageInv'
  BY DEF MessageInv, Fresh, Holding
<1>7. AnswerFitsOpen'
  BY DEF AnswerFitsOpen
<1> QED  BY <1>1, <1>2, <1>3, <1>4, <1>5, <1>6, <1>7, <1>8

LEMMA FinalizeCloseIInv ==
    ASSUME IInv, FinalizeClose PROVE IInv'
<1> USE Constants, NotAnswers
        DEF IInv, FinalizeClose, TypeOK, ctxVars, wVars, msgVars, aVars, ghosts, Fault, NoFault,
            ClosePorts, Released, toggle_onaccess_state
<1>1. TypeOK'
  <2>1. open' \in [Opens -> FileStatuses \cup {"idle", "asked", "released"}]
    OBVIOUS
  <2>2. state_flag' \in {0, 1}
    OBVIOUS
  <2> QED  BY <2>1, <2>2
<1>2. LifeInv'
  <2>1. state_flag = 1
    BY DEF LifeInv, Stopping
  <2>2. state_flag' = 0
    BY <2>1
  <2> QED  BY <2>1, <2>2 DEF LifeInv, Stopping
<1>3. ThreadsInv'
  BY DEF ThreadsInv, Asleep
<1>4. GivenInv'
  BY DEF GivenInv, Given, Holding
<1>5. PlaceInv'
  BY DEF PlaceInv, Holding
<1>8. ContentInv'
  BY DEF ContentInv
<1>h. /\ Holding' \subseteq Holding /\ packets' = {}
      /\ \A w \in Workers : pc'[w] \in {"scan", "reply"} => pc[w] = pc'[w] /\ w \in Holding
      /\ UNCHANGED <<held, result, unnamed>>
  BY DEF Holding
<1>i. \A w \in Holding : held[w] \in Buffers /\ content'[held[w]] = content[held[w]]
  BY DEF PlaceInv, Holding
<1>j. \A x \in Opens : open[x] \in {"asked", "released"} => open'[x] \in {"asked", "released"}
  OBVIOUS
<1>6. MessageInv'
  <2>1. MessageInv
    OBVIOUS
  <2>2. \A w \in Holding' : content'[held'[w]] \in Opens
    BY ONLY <1>h, <1>i, <2>1 DEF MessageInv
  <2>3. \A w \in Workers : pc'[w] = "scan" => Fresh(content[held[w]])'
    BY ONLY <1>h, <1>i, <1>j, <2>1 DEF MessageInv, Fresh
  <2>4. \A w \in Workers : pc'[w] = "reply" =>
          /\ open'[content'[held'[w]]] \in {"asked", "released"}
          /\ result'[w] = IF content'[held'[w]] \in unnamed' THEN "EINVAL" ELSE ScanResult(content'[held'[w]])
    BY ONLY <1>h, <1>i, <1>j, <2>1 DEF MessageInv
  <2> QED  BY ONLY <1>h, <2>2, <2>3, <2>4 DEF MessageInv
<1>7. AnswerFitsOpen'
  BY DEF AnswerFitsOpen
<1> QED  BY <1>1, <1>2, <1>3, <1>4, <1>5, <1>6, <1>7, <1>8

----------------------------------------------------------------------------
LEMMA StepIInv == IInv /\ [Next]_vars => IInv'
<1> SUFFICES ASSUME IInv, [Next]_vars PROVE IInv'
  OBVIOUS
<1>1. CASE UserScanInit
  BY <1>1, InitThreadsIInv, InitConnectIInv, InitResumeIInv, InitPumpIInv, InitDoneIInv,
     InitFailIInv DEF UserScanInit, InitGoesOn
<1>2. CASE UserScanFinalize
  BY <1>2, FinalizeFlagIInv, FinalizeCancelIInv, FinalizeJoinIInv, FinalizeCloseIInv
     DEF UserScanFinalize, FinalizeGoesOn
<1>3. ASSUME NEW w \in Workers, Worker(w) PROVE IInv'
  BY <1>3, WorkerStartIInv, WorkerCallIInv, WorkerReceiveIInv, WorkerWokenIInv, WorkerScanIInv,
     WorkerReplyIInv, WorkerRescanIInv, WorkerCheckIInv, WorkerRearmIInv DEF Worker
<1>4. ASSUME NEW o \in Opens, Ask(o) PROVE IInv'
  BY <1>4, AskIInv
<1>5. CASE UNCHANGED vars
  <2> USE <1>5 DEF vars, ctxVars, wVars, msgVars, aVars, ghosts, Fault, NoFault, IInv
  <2>1. TypeOK'
    BY DEF TypeOK
  <2>2. LifeInv' /\ ThreadsInv' /\ GivenInv'
    BY DEF LifeInv, ThreadsInv, GivenInv, Given, Stopping, Holding
  <2>3. PlaceInv' /\ ContentInv' /\ MessageInv' /\ AnswerFitsOpen'
    BY DEF PlaceInv, ContentInv, MessageInv, Fresh, AnswerFitsOpen, Holding
  <2> QED  BY <2>1, <2>2, <2>3
<1> QED  BY <1>1, <1>2, <1>3, <1>4, <1>5 DEF Next

\* However many workers exchange however many buffers, the driver gets for each open the
\* verdict on the file of that open, or EINVAL if its name could not be converted, through any
\* failures and restarts, wrong drive letters excepted (UserScanWorker).
THEOREM VerdictsFitOpens == Spec => []AnswersFitOpens
<1>1. IInv => AnswersFitOpens
  BY DEF IInv, AnswersFitOpens
<1> QED  BY InitIInv, StepIInv, <1>1, PTL DEF Spec

\* Through any number of starts, failures and stops no worker finds the context gone, unless
\* UserScanInit failed after it had resumed them, and the flag of the module on-access tells
\* whether the port is connected (UserScanInit and UserScanFinalize).
THEOREM ContextIsKept == Spec => []ContextFollowsPort
<1>1. IInv => ContextFollowsPort
  <2> SUFFICES ASSUME IInv PROVE ContextFollowsPort
    OBVIOUS
  <2>1. ContextOutlivesWorkers
    BY DEF IInv, LifeInv, ContextOutlivesWorkers
  <2>2. FlagTellsConnection
    BY DEF IInv, TypeOK, LifeInv, Stopping, FlagTellsConnection
  <2> QED  BY <2>1, <2>2 DEF ContextFollowsPort
<1> QED  BY InitIInv, StepIInv, <1>1, PTL DEF Spec
==============================================================================
