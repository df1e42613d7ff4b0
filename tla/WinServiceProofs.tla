-------------------------- MODULE WinServiceProofs --------------------------
(***************************************************************************)
(* Proofs about the Windows service, for any processes that give any       *)
(* commands: what is loaded fits the state that the service control        *)
(* manager is told, and the registry keys follow the installation.         *)
(***************************************************************************)
EXTENDS WinService, SequenceTheorems, TLAPS

-----------------------------------------------------------------------------
(***************************************************************************)
(* What is loaded.  What a thread of the service still does is known from  *)
(* its next step and its last one: each step is followed by one of its     *)
(* Successors.  As long as nothing is Unordered, one thread is at work at  *)
(* a time (LifeInv); what exists is what gScanContext has and what the     *)
(* procedure that is being done has not closed yet (LiveInv); a load       *)
(* begins with nothing (Holds); and the reported state tells how far the   *)
(* threads have got (MainInv, HandlerInv) or, when none is at work, what   *)
(* they left behind (StateInv).                                            *)
(***************************************************************************)
Successor(l) ==
    CASE l = "register" -> {"init"}
      [] l \in {"init", "RUNNING"} -> {"open"}
      [] l = "open" -> {"connect"}
      [] l = "connect" -> {"start_pipe"}
      [] l = "start_pipe" -> {"first", "getchar"}
      [] l = "START_PENDING" -> {"RUNNING"}
      [] l \in {"query_stop", "PAUSE_PENDING", "STOP_PENDING"} -> {"finalize"}
      [] l = "finalize" -> {"close_pipe"}
      [] l = "close_pipe" -> {"close_engine"}
      [] l = "close_engine" -> {"PAUSED", "STOPPED", "STOP", "getchar", "finalize"}
      [] OTHER -> {}

Loading == {"open", "connect", "start_pipe"}
Unloading == {"finalize", "close_pipe", "close_engine"}
\* The last steps of ServiceMain, of the handler and of the console.
MainLast == {"start_pipe", "STOP", "hung"}
HandlerLast == {"start_pipe", "PAUSED", "STOPPED", "STOP", "hung"}
ConsoleLast == {"close_engine", "first", "getchar", "hung"}
LastSteps(a) == IF a = "handler" THEN HandlerLast ELSE IF proc = "service" THEN MainLast ELSE ConsoleLast

LastStep(p) == p[Len(p)]

InOrder(p, last) ==
    /\ p \in Seq(Steps)
    /\ \A i \in 1..Len(p) - 1 : p[i + 1] \in Successor(p[i])
    /\ p # <<>> => LastStep(p) \in last

\* What the fields of gScanContext say of, but a thread with the steps p left has closed.
Closed(p) ==
    IF p = <<>> THEN {}
    ELSE IF Head(p) \in {"close_pipe", "close_engine"} THEN {"port"} ELSE {}

\* What a thread with the steps p left has loaded.
Holds(p) ==
    p # <<>> =>
        /\ Head(p) \in {"register", "init", "START_PENDING", "RUNNING", "open", "PAUSED", "STOPPED", "STOP"}
              => ctx = {}
        /\ Head(p) = "connect" => ctx = {"engine"}
        /\ Head(p) = "start_pipe" => "engine" \in ctx /\ "pipe" \notin ctx /\ "listener" \notin ctx
        /\ Head(p) = "close_engine" => "listener" \notin ctx

LifeInv ==
    /\ proc = "none" => job["main"] = <<>>
    /\ proc # "service" => state = "STOPPED" /\ job["handler"] = <<>>
    /\ proc = "service" => installed # "no"
    /\ proc # "service" /\ job["main"] = <<>> => ctx = {}
    /\ \A a \in Threads : InOrder(job[a], LastSteps(a))
    /\ job["handler"] = <<>> \/ job["main"] = <<>>

LiveInv ==
    \A r \in {"engine", "port", "listener"} :
        live[r] = IF r \in ctx \ (Closed(job["main"]) \cup Closed(job["handler"])) THEN 1 ELSE 0

StateInv ==
    proc = "service" =>
        /\ state = "PAUSED" => ctx = {} /\ job["main"] = <<>>
        /\ state = "STOPPED" => ctx = {} /\ job["main"] = <<>> /\ job["handler"] = <<>>
        /\ state = "RUNNING" /\ job["main"] = <<>> /\ job["handler"] = <<>>
              => \/ "continueFailed" \in odd
                 \/ {"engine", "pipe"} \subseteq ctx /\ ("listener" \in ctx \/ failed)

MainInv ==
    job["main"] # <<>> =>
        LET h == Head(job["main"])
        IN  IF proc = "service"
            THEN /\ h \notin Reports
                 /\ h \in {"register", "init"} => state = "START_PENDING"
                 /\ h \in Loading => state = "RUNNING"
                 /\ h \in Unloading \cup {"query_stop", "STOP"} => state \in {"START_PENDING", "RUNNING"}
            ELSE h \in Loading \cup Unloading \cup {"first", "getchar", "hung"}

HandlerInv ==
    job["handler"] # <<>> =>
        LET h == Head(job["handler"])
            e == LastStep(job["handler"])
        IN  /\ h \notin {"register", "init"}
            /\ h \in Loading => state = "RUNNING"
            /\ h \in Unloading \cup {"PAUSED", "STOPPED"} /\ e \in {"PAUSED", "STOPPED"}
                  => state \in {"PAUSE_PENDING", "STOP_PENDING"}
            /\ h = "query_stop" => e = "STOP"
            /\ e = "STOP" => h \notin Reports /\ state = "RUNNING" /\ "continueFailed" \in odd

Ordered ==
    /\ LifeInv /\ LiveInv /\ StateInv /\ MainInv /\ HandlerInv
    /\ Holds(job["main"]) /\ Holds(job["handler"])

\* The listener threads and their pipe instances, whatever the order of the steps.
PipeInv == opening <= live.listener /\ InstancesServed

IInv == TypeOK /\ PipeInv /\ (Unordered \/ (Ordered /\ CleanExit))

-----------------------------------------------------------------------------
(* Sequences of steps.                                                     *)

\* A thread goes on to a successor of its step, or had reached its last one.
LEMMA TailInOrder ==
    ASSUME NEW p, NEW last, InOrder(p, last), p # <<>>
    PROVE  /\ Head(p) \in Steps /\ Tail(p) \in Seq(Steps) /\ InOrder(Tail(p), last)
           /\ Tail(p) # <<>> => /\ Head(Tail(p)) \in Successor(Head(p))
                                /\ LastStep(Tail(p)) = LastStep(p)
           /\ Tail(p) = <<>> => LastStep(p) = Head(p)
           /\ LastStep(p) \in last
           /\ Successor(Head(p)) = {} => Tail(p) = <<>>
<1> DEFINE q == Tail(p)
<1>1. p \in Seq(Steps) /\ Len(p) \in Nat /\ Len(p) > 0 /\ \A i \in 1..Len(p) : p[i] \in Steps
  BY DEF InOrder
<1>2. q \in Seq(Steps) /\ Len(q) = Len(p) - 1 /\ \A i \in 1..Len(q) : q[i] = p[i + 1]
  BY <1>1
<1>3. Head(p) = p[1]
  BY <1>1
<1>4. q # <<>> => Head(q) = q[1] /\ Len(q) > 0
  BY <1>2
<1>5. q = <<>> => Len(p) = 1
  BY <1>2, <1>1, EmptySeq
<1>6. \A i \in 1..Len(q) - 1 : q[i + 1] \in Successor(q[i])
  <2> SUFFICES ASSUME NEW i \in 1..Len(q) - 1 PROVE q[i + 1] \in Successor(q[i])
    OBVIOUS
  <2>1. q[i + 1] = p[i + 2] /\ q[i] = p[i + 1] /\ i + 1 \in 1..Len(p) - 1
    BY <1>1, <1>2
  <2>2. p[(i + 1) + 1] \in Successor(p[i + 1])
    BY <2>1 DEF InOrder
  <2> QED  BY <2>1, <2>2, <1>1
<1>7. q # <<>> => LastStep(q) = LastStep(p) /\ Head(q) \in Successor(Head(p))
  <2> SUFFICES ASSUME q # <<>> PROVE LastStep(q) = LastStep(p) /\ Head(q) \in Successor(Head(p))
    OBVIOUS
  <2>1. Len(q) > 0 /\ Head(q) = p[2] /\ q[Len(q)] = p[Len(p)] /\ 1 \in 1..Len(p) - 1
    BY <1>1, <1>2, <1>4
  <2>2. p[1 + 1] \in Successor(p[1])
    BY <2>1 DEF InOrder
  <2> QED  BY <2>1, <2>2, <1>3 DEF LastStep
<1>8. LastStep(p) \in last
  BY DEF InOrder
<1>9. InOrder(q, last)
  BY <1>2, <1>6, <1>7, <1>8 DEF InOrder
<1>10. q = <<>> => LastStep(p) = Head(p)
  BY <1>3, <1>5 DEF LastStep
<1> QED  BY <1>1, <1>2, <1>3, <1>7, <1>8, <1>9, <1>10

\* A procedure that is inserted before another one.
LEMMA JoinInOrder ==
    ASSUME NEW p, NEW q, NEW m, NEW last, InOrder(p, m), InOrder(q, last), p # <<>>, q # <<>>,
           Head(q) \in Successor(LastStep(p))
    PROVE  /\ InOrder(p \o q, last) /\ p \o q # <<>>
           /\ Head(p \o q) = Head(p) /\ LastStep(p \o q) = LastStep(q)
<1> DEFINE r == p \o q
<1>1. p \in Seq(Steps) /\ q \in Seq(Steps) /\ Len(p) \in Nat /\ Len(q) \in Nat /\ Len(p) > 0 /\ Len(q) > 0
  BY EmptySeq DEF InOrder
<1>2. /\ r \in Seq(Steps) /\ Len(r) = Len(p) + Len(q)
      /\ \A i \in 1..Len(p) + Len(q) : r[i] = IF i <= Len(p) THEN p[i] ELSE q[i - Len(p)]
  BY <1>1, ConcatProperties
<1> HIDE DEF r
<1>3. r # <<>> /\ Head(r) = r[1] /\ Head(p) = p[1] /\ Head(q) = q[1] /\ r[1] = p[1]
  BY <1>1, <1>2
<1>4. r[Len(r)] = q[Len(q)]
  BY <1>1, <1>2
<1>5. ASSUME NEW i \in 1..Len(r) - 1 PROVE r[i + 1] \in Successor(r[i])
  <2>1. CASE i < Len(p)
    <3>1. r[i] = p[i] /\ r[i + 1] = p[i + 1] /\ i \in 1..Len(p) - 1
      BY <1>1, <1>2, <2>1
    <3> QED  BY <3>1 DEF InOrder
  <2>2. CASE i = Len(p)
    <3>1. r[i] = LastStep(p) /\ r[i + 1] = q[1]
      BY <1>1, <1>2, <2>2 DEF LastStep
    <3> QED  BY <3>1, <1>3
  <2>3. CASE i > Len(p)
    <3>1. r[i] = q[i - Len(p)] /\ r[i + 1] = q[(i - Len(p)) + 1] /\ i - Len(p) \in 1..Len(q) - 1
      BY <1>1, <1>2, <2>3
    <3> QED  BY <3>1 DEF InOrder
  <2> QED  BY <2>1, <2>2, <2>3, <1>1
<1>6. LastStep(q) \in last
  BY DEF InOrder
<1> QED  BY <1>2, <1>3, <1>4, <1>5, <1>6 DEF InOrder, LastStep, r

\* The parts that procedures are made of.
LEMMA Parts ==
    /\ \A l \in Steps : /\ InOrder(<<l>>, {l}) /\ <<l>> # <<>>
                        /\ Head(<<l>>) = l /\ LastStep(<<l>>) = l
    /\ InOrder(ServiceLoadProcedure, {"start_pipe"}) /\ ServiceLoadProcedure # <<>>
    /\ Head(ServiceLoadProcedure) = "open" /\ LastStep(ServiceLoadProcedure) = "start_pipe"
    /\ InOrder(ServiceUnloadProcedure, {"close_engine"}) /\ ServiceUnloadProcedure # <<>>
    /\ Head(ServiceUnloadProcedure) = "finalize" /\ LastStep(ServiceUnloadProcedure) = "close_engine"
<1>1. ASSUME NEW l \in Steps PROVE /\ InOrder(<<l>>, {l}) /\ <<l>> # <<>>
                                   /\ Head(<<l>>) = l /\ LastStep(<<l>>) = l
  BY <1>1 DEF InOrder, LastStep
<1>2. ASSUME NEW x \in Steps, NEW y \in Steps, NEW z \in Steps, y \in Successor(x), z \in Successor(y)
      PROVE  LET p == <<x, y, z>> IN InOrder(p, {z}) /\ p # <<>> /\ Head(p) = x /\ LastStep(p) = z
  <2> DEFINE p == <<x, y, z>>
  <2>1. p \in Seq(Steps) /\ Len(p) = 3 /\ p # <<>> /\ p[1] = x /\ p[2] = y /\ p[3] = z /\ Head(p) = x
    BY <1>2
  <2> HIDE DEF p
  <2>2. \A i \in 1..Len(p) - 1 : p[i + 1] \in Successor(p[i])
    <3> SUFFICES ASSUME NEW i \in 1..2 PROVE p[i + 1] \in Successor(p[i])
      BY <2>1
    <3>1. i = 1 \/ i = 2
      OBVIOUS
    <3>2. CASE i = 1
      BY <2>1, <1>2, <3>2
    <3>3. CASE i = 2
      BY <2>1, <1>2, <3>3
    <3> QED  BY <3>1, <3>2, <3>3
  <2>3. InOrder(p, {z}) /\ LastStep(p) = z
    BY <2>1, <2>2 DEF InOrder, LastStep
  <2> QED  BY <2>1, <2>3 DEF p
<1>3. /\ {"open", "connect", "start_pipe", "finalize", "close_pipe", "close_engine"} \subseteq Steps
      /\ "connect" \in Successor("open") /\ "start_pipe" \in Successor("connect")
      /\ "close_pipe" \in Successor("finalize") /\ "close_engine" \in Successor("close_pipe")
  BY DEF Steps, Reports, Successor
<1> QED  BY <1>1, <1>2, <1>3 DEF ServiceLoadProcedure, ServiceUnloadProcedure

\* What is known of a procedure.
Procedure(p, first, last) == InOrder(p, {last}) /\ p # <<>> /\ Head(p) = first /\ LastStep(p) = last

LEMMA Pairs ==
    ASSUME NEW x \in Steps, NEW y \in Steps, y \in Successor(x)
    PROVE  Procedure(<<x, y>>, x, y)
<1> DEFINE p == <<x, y>>
<1>1. p \in Seq(Steps) /\ Len(p) = 2 /\ p # <<>> /\ p[1] = x /\ p[2] = y /\ Head(p) = x
  OBVIOUS
<1> HIDE DEF p
<1>2. \A i \in 1..Len(p) - 1 : p[i + 1] \in Successor(p[i])
  <2>1. \A i \in 1..Len(p) - 1 : i = 1
    BY <1>1
  <2> QED  BY <2>1, <1>1
<1> QED  BY <1>1, <1>2 DEF Procedure, InOrder, LastStep, p

\* Two procedures in order are a procedure.
LEMMA JoinProcedures ==
    ASSUME NEW p, NEW q, NEW x, NEW y, NEW u, NEW v,
           Procedure(p, x, y), Procedure(q, u, v), u \in Successor(y)
    PROVE  Procedure(p \o q, x, v)
<1>1. /\ InOrder(p, {y}) /\ p # <<>> /\ Head(p) = x /\ LastStep(p) = y
      /\ InOrder(q, {v}) /\ q # <<>> /\ Head(q) = u /\ LastStep(q) = v
  BY DEF Procedure
<1> QED  BY <1>1, JoinInOrder DEF Procedure

LEMMA Procedures ==
    /\ Procedure(ServiceMain, "register", "start_pipe")
    /\ \A a \in Threads : Procedure(ServiceStop(a), "query_stop", "STOP")
    /\ Procedure(ServiceCtrlHandler("PAUSE"), "PAUSE_PENDING", "PAUSED")
    /\ Procedure(ServiceCtrlHandler("STOP"), "STOP_PENDING", "STOPPED")
    /\ Procedure(ServiceCtrlHandler("CONTINUE"), "START_PENDING", "start_pipe")
    /\ Procedure(LaunchCmdLineService, "open", "first")
    /\ Procedure(ServiceUnloadProcedure, "finalize", "close_engine")
    /\ Procedure(ServiceUnloadProcedure \o <<"getchar">>, "finalize", "getchar")
    /\ Procedure(ServiceUnloadProcedure \o ServiceUnloadProcedure, "finalize", "close_engine")
    /\ Procedure(ServiceLoadProcedure \o <<"getchar">>, "open", "getchar")
    /\ Procedure(<<"getchar">>, "getchar", "getchar") /\ Procedure(<<"hung">>, "hung", "hung")
<1> DEFINE L == ServiceLoadProcedure
           U == ServiceUnloadProcedure
<1>0. ASSUME NEW x \in Steps PROVE Procedure(<<x>>, x, x)
  BY <1>0, Parts DEF Procedure
<1>1. ASSUME NEW x \in Steps, NEW y, NEW p, NEW z, Procedure(p, y, z), y \in Successor(x)
      PROVE  Procedure(<<x>> \o p, x, z)
  BY <1>1, <1>0, JoinProcedures
<1>2. ASSUME NEW x, NEW y, NEW p, NEW z \in Steps, Procedure(p, x, y), z \in Successor(y)
      PROVE  Procedure(p \o <<z>>, x, z)
  BY <1>2, <1>0, JoinProcedures
<1>3. Procedure(L, "open", "start_pipe") /\ Procedure(U, "finalize", "close_engine")
  BY Parts DEF Procedure
<1> HIDE DEF L, U
<1>5. /\ Reports \cup {"register", "init", "query_stop", "STOP", "first", "getchar", "hung"} \subseteq Steps
      /\ "init" \in Successor("register") /\ "open" \in Successor("init")
      /\ "finalize" \in Successor("query_stop") /\ "finalize" \in Successor("PAUSE_PENDING")
      /\ "finalize" \in Successor("STOP_PENDING") /\ "RUNNING" \in Successor("START_PENDING")
      /\ "open" \in Successor("RUNNING")
      /\ "first" \in Successor("start_pipe") /\ "getchar" \in Successor("start_pipe")
      /\ {"PAUSED", "STOPPED", "STOP", "getchar", "finalize"} \subseteq Successor("close_engine")
  BY DEF Steps, Reports, Successor
<1>6. Procedure(<<"register", "init">> \o L, "register", "start_pipe")
  <2>1. Procedure(<<"register", "init">>, "register", "init")
    BY <1>5, Pairs DEF Reports
  <2> QED  BY <2>1, <1>3, <1>5, JoinProcedures
<1>7. Procedure(<<"START_PENDING", "RUNNING">> \o L, "START_PENDING", "start_pipe")
  <2>1. Procedure(<<"START_PENDING", "RUNNING">>, "START_PENDING", "RUNNING")
    BY <1>5, Pairs DEF Reports
  <2> QED  BY <2>1, <1>3, <1>5, JoinProcedures
<1>8. ASSUME NEW x \in {"query_stop", "PAUSE_PENDING", "STOP_PENDING"}, NEW y \in {"PAUSED", "STOPPED", "STOP"}
      PROVE  Procedure(<<x>> \o U \o <<y>>, x, y)
  <2>1. Procedure(<<x>> \o U, x, "close_engine")
    BY <1>1, <1>3, <1>5 DEF Reports
  <2> QED  BY <2>1, <1>2, <1>5 DEF Reports
<1>9. Procedure(L \o <<"first">>, "open", "first") /\ Procedure(L \o <<"getchar">>, "open", "getchar")
      /\ Procedure(U \o <<"getchar">>, "finalize", "getchar")
  BY <1>2, <1>3, <1>5
<1>10. \A a \in Threads : ServiceStop(a) = <<"query_stop">> \o U \o <<"STOP">>
  BY DEF ServiceStop, U
<1>11. /\ ServiceCtrlHandler("PAUSE") = <<"PAUSE_PENDING">> \o U \o <<"PAUSED">>
       /\ ServiceCtrlHandler("STOP") = <<"STOP_PENDING">> \o U \o <<"STOPPED">>
       /\ ServiceCtrlHandler("CONTINUE") = <<"START_PENDING", "RUNNING">> \o L
  BY DEF ServiceCtrlHandler, U, L
<1>12. ServiceMain = <<"register", "init">> \o L /\ LaunchCmdLineService = L \o <<"first">>
  BY DEF ServiceMain, LaunchCmdLineService, L
<1>13. Procedure(U \o U, "finalize", "close_engine")
  BY <1>3, <1>5, JoinProcedures
<1> QED  BY <1>13, <1>3, <1>0, <1>5, <1>6, <1>7, <1>8, <1>9, <1>10, <1>11, <1>12 DEF U, L

-----------------------------------------------------------------------------
(* Types.                                                                  *)

LEMMA ProcedureSteps ==
    /\ ServiceMain \in Seq(Steps) /\ LaunchCmdLineService \in Seq(Steps)
    /\ ServiceUnloadProcedure \in Seq(Steps)
    /\ ServiceUnloadProcedure \o <<"getchar">> \in Seq(Steps)
    /\ ServiceUnloadProcedure \o ServiceUnloadProcedure \in Seq(Steps)
    /\ ServiceLoadProcedure \o <<"getchar">> \in Seq(Steps)
    /\ \A c \in {"STOP", "PAUSE", "CONTINUE"} : ServiceCtrlHandler(c) \in Seq(Steps)
    /\ \A a : ServiceStop(a) \in Seq(Steps)
<1>1. \A a \in Threads : ServiceStop(a) \in Seq(Steps)
  BY Procedures DEF Procedure, InOrder
<1>2. ASSUME NEW a, a \notin Threads PROVE ServiceStop(a) \in Seq(Steps)
  <2>1. ServiceStop(a) = <<"query_stop">> \o <<>> \o <<"STOP">>
    BY <1>2 DEF ServiceStop
  <2>2. <<"query_stop">> \o <<>> \in Seq(Steps)
    BY ConcatProperties, EmptySeq DEF Steps
  <2>3. (<<"query_stop">> \o <<>>) \o <<"STOP">> \in Seq(Steps)
    BY <2>2, ConcatProperties DEF Steps
  <2> QED  BY <2>1, <2>3
<1> QED  BY <1>1, <1>2, Procedures DEF Procedure, InOrder

LEMMA Moves ==
    ASSUME TypeOK, NEW a \in Actors
    PROVE  /\ Continue(a) /\ job[a] # <<>> => job' \in [Actors -> Seq(Steps)]
           /\ \A p \in Seq(Steps) : Instead(a, p) => job' \in [Actors -> Seq(Steps)]
           /\ Return(a) => job' \in [Actors -> Seq(Steps)]
<1> USE DEF TypeOK
<1>1. job[a] # <<>> => Tail(job[a]) \in Seq(Steps)
  BY HeadTailProperties
<1>2. \A p \in Seq(Steps) : [job EXCEPT ![a] = p] \in [Actors -> Seq(Steps)]
  OBVIOUS
<1>3. <<>> \in Seq(Steps)
  OBVIOUS
<1> QED  BY <1>1, <1>2, <1>3 DEF Continue, Instead, Return

\* QueryServiceStatusEx and ControlService go on, or end the command.
LEMMA StopEndsType ==
    ASSUME TypeOK, NEW a \in Actors, StopEnds(a)
    PROVE  job' \in [Actors -> Seq(Steps)]
<1>1. ServiceDelete \in Seq(Steps) /\ <<>> \in Seq(Steps)
  BY DEF ServiceDelete, Steps
<1> QED  BY <1>1, Moves DEF StopEnds

LEMMA QueryType ==
    ASSUME TypeOK, NEW a \in Actors, Query(a)
    PROVE  TypeOK'
<1>1. job' \in [Actors -> Seq(Steps)]
  BY Moves, StopEndsType DEF Query
<1> QED  BY <1>1 DEF TypeOK, Query, ctxVars, pipeVars, scmVars, keyVars

LEMMA ControlType ==
    ASSUME TypeOK, NEW a \in Actors, NEW c \in {"STOP", "PAUSE", "CONTINUE"}, Control(a, c)
    PROVE  TypeOK'
<1>1. CASE job' = [job EXCEPT ![a] = Tail(@), !["handler"] = ServiceCtrlHandler(c)]
  <2>1. Tail(job[a]) \in Seq(Steps) /\ ServiceCtrlHandler(c) \in Seq(Steps)
    BY ProcedureSteps, HeadTailProperties DEF TypeOK, Control, At
  <2>2. job' \in [Actors -> Seq(Steps)]
    BY <1>1, <2>1 DEF TypeOK
  <2> QED  BY <2>2 DEF TypeOK, Control, ctxVars, pipeVars, scmVars, keyVars
<1>2. CASE StopEnds(a)
  <2>1. job' \in [Actors -> Seq(Steps)]
    BY <1>2, StopEndsType
  <2> QED  BY <2>1 DEF TypeOK, Control, ctxVars, pipeVars, scmVars, keyVars
<1> QED  BY <1>1, <1>2 DEF Control

LEMMA LoadFailsType ==
    ASSUME TypeOK, NEW a \in Threads, LoadFails(a)
    PROVE  job' \in [Actors -> Seq(Steps)] /\ odd' \subseteq odd \cup {"continueFailed"}
<1> DEFINE p == CASE proc = "service" -> ServiceStop(a)
                  [] job[a][Len(job[a])] = "first" -> ServiceUnloadProcedure
                  [] OTHER -> <<"getchar">>
<1>1. p \in Seq(Steps)
  BY ProcedureSteps
<1>2. Instead(a, p)
  BY DEF LoadFails
<1> HIDE DEF p
<1>3. job' \in [Actors -> Seq(Steps)]
  BY <1>1, <1>2, Moves DEF Actors
<1> QED  BY <1>3 DEF LoadFails

LEMMA ThreadType ==
    ASSUME TypeOK, NEW a \in Threads, Thread(a)
    PROVE  TypeOK'
<1> USE DEF ctxVars, pipeVars, scmVars, keyVars
<1>a. a \in Actors
  BY DEF Actors
<1>1. CASE open(a)
  <2>1. job' \in [Actors -> Seq(Steps)]
    BY <1>a, <1>1, Moves, LoadFailsType DEF open, At
  <2>2. odd' \subseteq odd \cup {"continueFailed"}
    BY <1>1, LoadFailsType DEF open
  <2> QED  BY <1>1, <2>1, <2>2 DEF open, TypeOK
<1>2. CASE connect(a)
  <2>1. job' \in [Actors -> Seq(Steps)]
    BY <1>a, <1>2, Moves, LoadFailsType DEF connect, At
  <2>2. odd' \subseteq odd \cup {"continueFailed"}
    BY <1>2, LoadFailsType DEF connect
  <2> QED  BY <1>2, <2>1, <2>2 DEF connect, TypeOK
<1>3. CASE start_pipe(a)
  <2>1. job' \in [Actors -> Seq(Steps)]
    BY <1>a, <1>3, Moves, LoadFailsType DEF start_pipe, At
  <2>2. odd' \subseteq odd \cup {"continueFailed"}
    BY <1>3, LoadFailsType DEF start_pipe
  <2>3. live' \in [{"engine", "port", "listener"} -> Int] /\ opening' \in Nat
    BY <1>3 DEF start_pipe, TypeOK
  <2>4. failed' \in BOOLEAN
    BY <1>3 DEF start_pipe, TypeOK
  <2>5. ctx' \subseteq {"engine", "port", "pipe", "listener"}
    BY <1>3 DEF start_pipe, TypeOK
  <2> QED  BY <1>3, <2>1, <2>2, <2>3, <2>4, <2>5 DEF start_pipe, TypeOK
<1>4. ASSUME NEW l, NEW what \in {"engine", "port"}, Close(a, l, what)
      PROVE  TypeOK'
  <2>1. job' \in [Actors -> Seq(Steps)]
    BY <1>a, <1>4, Moves DEF Close, At
  <2>2. live' \in [{"engine", "port", "listener"} -> Int]
    BY <1>4 DEF Close, TypeOK
  <2>3. ctx' \subseteq {"engine", "port", "pipe", "listener"}
    BY <1>4 DEF Close, TypeOK
  <2> QED  BY <1>4, <2>1, <2>2, <2>3 DEF Close, TypeOK
<1>5. CASE Hang(a)
  <2>1. job' \in [Actors -> Seq(Steps)]
    <3>1. <<"hung">> \in Seq(Steps)
      BY DEF Steps
    <3> QED  BY <1>a, <1>5, <3>1, Moves DEF Hang
  <2> QED  BY <1>5, <2>1 DEF Hang, TypeOK
<1>6. ASSUME NEW s \in Reports, ReportSvcStatus(a, s)
      PROVE  TypeOK'
  <2>1. job' \in [Actors -> Seq(Steps)]
    BY <1>a, <1>6, Moves DEF ReportSvcStatus, At
  <2> QED  BY <1>6, <2>1 DEF ReportSvcStatus, TypeOK, Reports
<1>7. CASE Query(a) \/ Control(a, "STOP")
  BY <1>a, <1>7, QueryType, ControlType
<1>9. CASE Close_IHM_Connection(a)
  <2>1. job' \in [Actors -> Seq(Steps)]
    BY <1>a, <1>9, Moves DEF Close_IHM_Connection, At
  <2>2. opening' \in Nat
    BY <1>9 DEF Close_IHM_Connection, TypeOK
  <2>3. live' \in [{"engine", "port", "listener"} -> Int]
    BY <1>9 DEF Close_IHM_Connection, TypeOK
  <2> QED  BY <1>9, <2>1, <2>2, <2>3 DEF Close_IHM_Connection, TypeOK
<1>8. CASE Unload(a)
  BY <1>8, <1>4, <1>5, <1>9 DEF Unload
<1> QED  BY <1>1, <1>2, <1>3, <1>6, <1>7, <1>8 DEF Thread, Load, Reports

LEMMA CallerType ==
    ASSUME TypeOK, NEW a \in Callers, Caller(a) \/ Killed(a) \/ main(a)
    PROVE  TypeOK'
<1> USE DEF ctxVars, pipeVars, scmVars, keyVars
<1>a. a \in Actors /\ "main" \in Actors
  BY DEF Actors, Threads
<1>1. CASE StartService(a)
  <2>1. job' \in [Actors -> Seq(Steps)]
    <3>1. job[a] # <<>> /\ Tail(job[a]) \in Seq(Steps)
      BY <1>1, <1>a, HeadTailProperties DEF TypeOK, StartService, At
    <3>2. [job EXCEPT ![a] = Tail(@), !["main"] = ServiceMain] \in [Actors -> Seq(Steps)]
      BY <3>1, <1>a, ProcedureSteps DEF TypeOK
    <3> QED  BY <1>1, <3>2, <1>a, Moves DEF StartService
  <2> QED  BY <1>1, <2>1 DEF StartService, TypeOK, Reports
<1>2. CASE ServiceInstall(a) \/ InstallKeys(a)
  <2>1. job' \in [Actors -> Seq(Steps)]
    BY <1>2, <1>a, Moves DEF ServiceInstall, InstallKeys, At
  <2> QED  BY <1>2, <2>1 DEF ServiceInstall, InstallKeys, RegistryKeysInitialization, TypeOK
<1>3. CASE ServiceRemove(a)
  <2>1. ServiceDelete \in Seq(Steps) /\ <<>> \in Seq(Steps)
    BY DEF ServiceDelete, Steps
  <2>2. (IF state \in {"RUNNING", "START_PENDING"} THEN ServiceStop(a) ELSE <<>>) \o ServiceDelete \in Seq(Steps)
    BY <2>1, ProcedureSteps, ConcatProperties
  <2>3. job' \in [Actors -> Seq(Steps)]
    BY <1>3, <2>2, <1>a, Moves DEF ServiceRemove
  <2> QED  BY <1>3, <2>3 DEF ServiceRemove, TypeOK
<1>4. CASE DeleteService(a) \/ RemoveKeys(a) \/ Killed(a)
  <2>1. job' \in [Actors -> Seq(Steps)]
    BY <1>4, <1>a, Moves DEF DeleteService, RemoveKeys, Killed, At
  <2> QED  BY <1>4, <2>1 DEF DeleteService, RemoveKeys, Killed, DeleteRegistryKeys, TypeOK
<1>5. CASE main(a)
  <2>1. /\ ServiceLaunch \in Seq(Steps) /\ ServicePause \in Seq(Steps) /\ ServiceContinue \in Seq(Steps)
        /\ <<"install", "keys">> \in Seq(Steps) /\ <<"remove">> \in Seq(Steps)
    BY DEF ServiceLaunch, ServicePause, ServiceContinue, Steps
  <2>2. ASSUME NEW c \in Commands[a], c # "test"
        PROVE  (CASE c = "start" -> ServiceLaunch
                  [] c = "stop" -> ServiceStop(a)
                  [] c = "pause" -> ServicePause
                  [] c = "continue" -> ServiceContinue
                  [] c = "install" -> <<"install", "keys">>
                  [] c = "uninstall" -> <<"remove">>) \in Seq(Steps)
    BY <2>1, <2>2, ProcedureSteps, CommandsAssumption
  <2>3. [job EXCEPT !["main"] = LaunchCmdLineService] \in [Actors -> Seq(Steps)]
    BY <1>a, ProcedureSteps DEF TypeOK
  <2>4. job' \in [Actors -> Seq(Steps)]
    BY <1>5, <1>a, <2>2, <2>3, Moves DEF main
  <2>5. commands' \in 0..MaxCommands /\ proc' \in {"none", "service", "console"}
    BY <1>5, MaxCommandsAssumption DEF main, TypeOK
  <2> QED  BY <1>5, <2>4, <2>5 DEF main, TypeOK
<1> QED  BY <1>a, <1>1, <1>2, <1>3, <1>4, <1>5, QueryType, ControlType DEF Caller

LEMMA NothingType ==
    Nothing \in [{"engine", "port", "listener"} -> Int] /\ \A r \in {"engine", "port", "listener"} : Nothing[r] = 0
BY DEF Nothing

LEMMA InitType ==
    ASSUME Init PROVE TypeOK
<1>1. ServiceMain \in Seq(Steps) /\ <<>> \in Seq(Steps)
  BY ProcedureSteps
<1>2. job \in [Actors -> Seq(Steps)]
  BY <1>1 DEF Init
<1>3. failed \in BOOLEAN /\ unkeyed \in BOOLEAN
  BY DEF Init
<1>4. commands \in 0..MaxCommands
  BY MaxCommandsAssumption DEF Init
<1>5. live \in [{"engine", "port", "listener"} -> Int] /\ opening \in Nat /\ instances \in Nat
  BY NothingType DEF Init
<1>6. proc \in {"none", "service", "console"} /\ state \in Reports /\ installed \in {"no", "yes", "marked"} /\ keys \subseteq Keys
  BY DEF Init, Reports
<1> QED  BY <1>2, <1>3, <1>4, <1>5, <1>6 DEF Init, TypeOK

LEMMA EndType ==
    ASSUME TypeOK, ProcessEnds
    PROVE  /\ proc' \in {"none", "service", "console"}
           /\ ctx' \subseteq {"engine", "port", "pipe", "listener"} /\ live' \in [{"engine", "port", "listener"} -> Int]
           /\ opening' \in Nat /\ instances' \in Nat /\ failed' \in BOOLEAN
           /\ odd' \subseteq odd \cup {"unclean"}
<1>1. failed' \in BOOLEAN
  BY DEF ProcessEnds
<1> QED  BY <1>1, NothingType DEF ProcessEnds

LEMMA NextType ==
    ASSUME TypeOK, [Next]_vars
    PROVE  TypeOK'
<1> USE DEF ctxVars, pipeVars, scmVars, keyVars
<1>a. "main" \in Actors /\ "main" \in Threads
  BY DEF Actors, Threads
<1>1. CASE register
  <2>1. job' \in [Actors -> Seq(Steps)]
    BY <1>1, <1>a, Moves, ProcedureSteps DEF register, At
  <2> QED  BY <1>1, <2>1 DEF register, TypeOK
<1>2. CASE ServiceInit
  <2>1. job' \in [Actors -> Seq(Steps)]
    BY <1>2, <1>a, Moves DEF ServiceInit, At
  <2> QED  BY <1>2, <2>1 DEF ServiceInit, TypeOK, Reports
<1>3. CASE getchar
  <2>1. job' \in [Actors -> Seq(Steps)]
    BY <1>3, <1>a, Moves, ProcedureSteps DEF getchar
  <2>2. commands' \in 0..MaxCommands
    BY <1>3, MaxCommandsAssumption DEF getchar, TypeOK
  <2> QED  BY <1>3, <2>1, <2>2 DEF getchar, TypeOK
<1>4. CASE Exit
  <2>1. job' \in [Actors -> Seq(Steps)]
    BY <1>4, <1>a DEF Exit, TypeOK
  <2> QED  BY <1>4, <2>1, EndType DEF Exit, TypeOK
<1>5. CASE ConsoleEnds
  BY <1>5, EndType DEF ConsoleEnds, TypeOK
<1>7. CASE MainThreadWork
  <2>1. opening' \in Nat /\ instances' \in Nat
    BY <1>7 DEF MainThreadWork, TypeOK
  <2>2. live' \in [{"engine", "port", "listener"} -> Int]
    BY <1>7 DEF MainThreadWork, ListenerFails, TypeOK
  <2>3. failed' \in BOOLEAN
    BY <1>7 DEF MainThreadWork, ListenerFails, TypeOK
  <2>4. ctx' \subseteq {"engine", "port", "pipe", "listener"}
    BY <1>7 DEF MainThreadWork, ListenerFails, TypeOK
  <2> QED  BY <1>7, <2>1, <2>2, <2>3, <2>4 DEF MainThreadWork, TypeOK
<1>8. CASE ServiceForgotten
  BY <1>8 DEF ServiceForgotten, TypeOK
<1>6. CASE UNCHANGED vars
  BY <1>6 DEF vars, TypeOK
<1> QED  BY <1>1, <1>2, <1>3, <1>4, <1>5, <1>6, <1>7, <1>8, ThreadType, CallerType DEF Next

-----------------------------------------------------------------------------
(***************************************************************************)
(* The installation.  What is left of a command has one of few forms       *)
(* (CallerJobs); a removal that is about to delete the keys finds the      *)
(* service marked, and keeps it so by its handle (KeyInv): so nobody can   *)
(* have installed it anew.                                                 *)
(***************************************************************************)
CallerJobs ==
    {<<>>, <<"query_start", "start">>, <<"start">>, <<"query_pause", "PAUSE">>, <<"PAUSE">>,
     <<"query_continue", "CONTINUE">>, <<"CONTINUE">>, <<"query_stop", "STOP">>, <<"STOP">>,
     <<"query_stop", "STOP", "delete", "delete_keys">>, <<"STOP", "delete", "delete_keys">>,
     <<"delete", "delete_keys">>, <<"delete_keys">>, <<"install", "keys">>, <<"keys">>, <<"remove">>}

KeyInv ==
    /\ \A a \in Callers : /\ job[a] \in CallerJobs
                          /\ At(a, "delete_keys") => installed = "marked"
    /\ InstalledHasKey

LEMMA CallerJobsGoOn ==
    ASSUME NEW p \in CallerJobs, p # <<>>
    PROVE  /\ Tail(p) \in CallerJobs
           /\ Head(p) # "delete" /\ Tail(p) # <<>> => Head(Tail(p)) # "delete_keys"
           /\ Head(p) = "install" => Tail(p) = <<"keys">>
<1>1. \A x : Head(<<x>>) = x /\ Tail(<<x>>) = <<>>
  OBVIOUS
<1>2. \A x, y : Head(<<x, y>>) = x /\ Tail(<<x, y>>) = <<y>>
  OBVIOUS
<1>3. \A x, y, z : Head(<<x, y, z>>) = x /\ Tail(<<x, y, z>>) = <<y, z>>
  OBVIOUS
<1>4. \A x, y, z, u : Head(<<x, y, z, u>>) = x /\ Tail(<<x, y, z, u>>) = <<y, z, u>>
  OBVIOUS
<1>5. CASE p \in {<<"start">>, <<"PAUSE">>, <<"CONTINUE">>, <<"STOP">>, <<"delete_keys">>, <<"keys">>, <<"remove">>}
  <2>1. PICK x : p = <<x>> /\ x \in {"start", "PAUSE", "CONTINUE", "STOP", "delete_keys", "keys", "remove"}
    BY <1>5
  <2>2. Head(p) = x /\ Tail(p) = <<>>
    BY <1>1, <2>1
  <2> QED  BY <2>1, <2>2 DEF CallerJobs
<1>6. CASE p \in {<<"query_start", "start">>, <<"query_pause", "PAUSE">>, <<"query_continue", "CONTINUE">>,
                  <<"query_stop", "STOP">>, <<"delete", "delete_keys">>, <<"install", "keys">>}
  <2>1. PICK x, y : /\ p = <<x, y>> /\ (x # "delete" => y # "delete_keys") /\ (x = "install" => y = "keys")
                    /\ y \in {"start", "PAUSE", "CONTINUE", "STOP", "delete_keys", "keys"}
    BY <1>6
  <2>2. Head(p) = x /\ Tail(p) = <<y>> /\ Head(Tail(p)) = y
    BY <1>1, <1>2, <2>1
  <2> QED  BY <2>1, <2>2 DEF CallerJobs
<1>7. CASE p = <<"query_stop", "STOP", "delete", "delete_keys">>
  BY <1>3, <1>4, <1>7 DEF CallerJobs
<1>8. CASE p = <<"STOP", "delete", "delete_keys">>
  BY <1>2, <1>3, <1>8 DEF CallerJobs
<1>9. p \in CallerJobs /\ p # <<>>
  OBVIOUS
<1> QED  BY <1>5, <1>6, <1>7, <1>8, <1>9 DEF CallerJobs

\* Short procedures one after the other.
LEMMA TwoSteps ==
    ASSUME NEW x \in Steps, NEW y \in Steps PROVE <<x>> \o <<y>> = <<x, y>>
<1> DEFINE p == <<x>>
           q == <<y>>
           s == p \o q
           t == <<x, y>>
<1>1. /\ p \in Seq(Steps) /\ Len(p) = 1 /\ p[1] = x
      /\ q \in Seq(Steps) /\ Len(q) = 1 /\ q[1] = y
  OBVIOUS
<1>2. t \in Seq(Steps) /\ Len(t) = 2 /\ t[1] = x /\ t[2] = y
  OBVIOUS
<1> HIDE DEF p, q, t
<1>3. s \in Seq(Steps) /\ Len(s) = 2 /\ s[1] = x /\ s[2] = y
  <2>1. /\ s \in Seq(Steps) /\ Len(s) = Len(p) + Len(q)
        /\ \A i \in 1..Len(p) + Len(q) : s[i] = IF i <= Len(p) THEN p[i] ELSE q[i - Len(p)]
    BY ONLY <1>1, ConcatProperties
  <2> HIDE DEF s
  <2>2. \A i \in 1..2 : s[i] = IF i <= 1 THEN p[i] ELSE q[i - 1]
    BY <1>1, <2>1
  <2>3. s[1] = p[1] /\ s[2] = q[1]
    BY ONLY <2>2
  <2> QED  BY ONLY <1>1, <2>1, <2>3
<1> HIDE DEF s
<1>4. \A i \in 1..Len(s) : s[i] = t[i]
  BY ONLY <1>2, <1>3
<1>5. s = t
  BY ONLY <1>2, <1>3, <1>4, SeqEqual
<1> QED  BY <1>5 DEF p, q, s, t

LEMMA FourSteps ==
    ASSUME NEW x \in Steps, NEW y \in Steps, NEW z \in Steps, NEW u \in Steps
    PROVE  <<x, y>> \o <<z, u>> = <<x, y, z, u>>
<1> DEFINE p == <<x, y>>
           q == <<z, u>>
           s == p \o q
           t == <<x, y, z, u>>
<1>1. /\ p \in Seq(Steps) /\ Len(p) = 2 /\ p[1] = x /\ p[2] = y
      /\ q \in Seq(Steps) /\ Len(q) = 2 /\ q[1] = z /\ q[2] = u
  OBVIOUS
<1>2. t \in Seq(Steps) /\ Len(t) = 4 /\ t[1] = x /\ t[2] = y /\ t[3] = z /\ t[4] = u
  OBVIOUS
<1> HIDE DEF p, q, t
<1>3. s \in Seq(Steps) /\ Len(s) = 4 /\ s[1] = x /\ s[2] = y /\ s[3] = z /\ s[4] = u
  <2>1. /\ s \in Seq(Steps) /\ Len(s) = Len(p) + Len(q)
        /\ \A i \in 1..Len(p) + Len(q) : s[i] = IF i <= Len(p) THEN p[i] ELSE q[i - Len(p)]
    BY ONLY <1>1, ConcatProperties
  <2> HIDE DEF s
  <2>2. \A i \in 1..4 : s[i] = IF i <= 2 THEN p[i] ELSE q[i - 2]
    BY <1>1, <2>1
  <2>3. s[1] = p[1] /\ s[2] = p[2] /\ s[3] = q[1] /\ s[4] = q[2]
    BY ONLY <2>2
  <2> QED  BY ONLY <1>1, <2>1, <2>3
<1> HIDE DEF s
<1>4. \A i \in 1..Len(s) : s[i] = t[i]
  BY ONLY <1>2, <1>3
<1>5. s = t
  BY ONLY <1>2, <1>3, <1>4, SeqEqual
<1> QED  BY <1>5 DEF p, q, s, t

\* The forms of the commands, and of what follows a ServiceStop.
LEMMA CommandJobs ==
    /\ ServiceLaunch \in CallerJobs /\ ServicePause \in CallerJobs /\ ServiceContinue \in CallerJobs
    /\ <<"install", "keys">> \in CallerJobs /\ <<"remove">> \in CallerJobs /\ <<>> \in CallerJobs
    /\ ServiceDelete \in CallerJobs /\ Head(ServiceDelete) = "delete"
    /\ <<>> \o ServiceDelete = ServiceDelete
    /\ \A a \in Callers : /\ ServiceStop(a) = <<"query_stop", "STOP">>
                          /\ ServiceStop(a) \o ServiceDelete = <<"query_stop", "STOP", "delete", "delete_keys">>
<1>1. ASSUME NEW a \in Callers PROVE ServiceStop(a) = <<"query_stop", "STOP">>
  <2>1. a \notin Threads
    BY CallersAssumption DEF Threads
  <2>2. <<"query_stop">> \in Seq(Steps) /\ <<"STOP">> \in Seq(Steps) /\ <<"query_stop", "STOP">> \in Seq(Steps)
    BY DEF Steps
  <2>3. <<"query_stop">> \o <<>> = <<"query_stop">>
    BY <2>2, ConcatEmptySeq
  <2>4. <<"query_stop">> \o <<"STOP">> = <<"query_stop", "STOP">>
    BY <2>2, TwoSteps
  <2> QED  BY <2>1, <2>3, <2>4 DEF ServiceStop
<1>2. <<"query_stop", "STOP">> \o ServiceDelete = <<"query_stop", "STOP", "delete", "delete_keys">>
  BY FourSteps DEF ServiceDelete, Steps
<1>3. /\ <<>> \o ServiceDelete = ServiceDelete
      /\ ServiceDelete \in CallerJobs /\ Head(ServiceDelete) = "delete"
  BY DEF ServiceDelete, CallerJobs
<1> QED  BY <1>1, <1>2, <1>3 DEF ServiceLaunch, ServicePause, ServiceContinue, CallerJobs

\* A step that is nobody's command.
LEMMA OtherKeepsKeys ==
    ASSUME KeyInv, \A a \in Callers : job'[a] = job[a], UNCHANGED <<installed, keys, unkeyed>>
    PROVE  KeyInv'
BY DEF KeyInv, InstalledHasKey, At

\* A step of a command that is not about the keys.
LEMMA CommandKeepsKeys ==
    ASSUME KeyInv, NEW a \in Callers, \A b \in Callers : b # a => job'[b] = job[b],
           job'[a] \in CallerJobs, job'[a] # <<>> => Head(job'[a]) # "delete_keys",
           ~At(a, "keys"), UNCHANGED <<installed, keys, unkeyed>>
    PROVE  KeyInv'
<1>1. \A b \in Callers : At(b, "keys") => At(b, "keys")'
  BY DEF At
<1>2. InstalledHasKey'
  BY <1>1 DEF KeyInv, InstalledHasKey
<1> QED  BY <1>2 DEF KeyInv, At

\* What a step of the caller a does to the jobs of the callers.
LEMMA CallerMoves ==
    ASSUME TypeOK, NEW a \in Callers
    PROVE  /\ Continue(a) => job'[a] = Tail(job[a]) /\ \A b \in Callers : b # a => job'[b] = job[b]
           /\ \A p : Instead(a, p) => job'[a] = p /\ \A b \in Callers : b # a => job'[b] = job[b]
           /\ Return(a) => job'[a] = <<>> /\ \A b \in Callers : b # a => job'[b] = job[b]
BY DEF TypeOK, Actors, Continue, Instead, Return

LEMMA QueryKeepsKeys ==
    ASSUME TypeOK, KeyInv, NEW a \in Callers, Query(a) \/ \E c \in {"STOP", "PAUSE", "CONTINUE"} : Control(a, c)
    PROVE  KeyInv'
<1> USE DEF scmVars, keyVars
<1>1. /\ job[a] \in CallerJobs /\ job[a] # <<>> /\ ~At(a, "keys") /\ Head(job[a]) # "delete"
      /\ UNCHANGED <<installed, keys, unkeyed>>
  BY DEF KeyInv, Query, Control, At
<1>2. CASE StopEnds(a)
  <2>1. /\ job'[a] \in {ServiceDelete, <<>>}
        /\ \A b \in Callers : b # a => job'[b] = job[b]
    BY <1>2, CallerMoves DEF StopEnds
  <2> QED  BY <1>1, <2>1, CommandJobs, CommandKeepsKeys
<1>3. CASE job'[a] = Tail(job[a]) /\ \A b \in Callers : b # a => job'[b] = job[b]
  BY <1>1, <1>3, CallerJobsGoOn, CommandKeepsKeys
<1>4. ASSUME NEW p, job' = [job EXCEPT ![a] = Tail(@), !["handler"] = p]
      PROVE  job'[a] = Tail(job[a]) /\ \A b \in Callers : b # a => job'[b] = job[b]
  BY <1>4, CallersAssumption DEF TypeOK, Actors
<1> QED  BY <1>2, <1>3, <1>4, CallerMoves DEF Query, Control

LEMMA StartKeepsKeys ==
    ASSUME TypeOK, KeyInv, NEW a \in Callers, StartService(a)
    PROVE  KeyInv'
<1>1. /\ job[a] \in CallerJobs /\ job[a] # <<>> /\ ~At(a, "keys") /\ Head(job[a]) = "start"
      /\ UNCHANGED <<installed, keys, unkeyed>>
  BY DEF KeyInv, StartService, At, keyVars
<1>2. /\ job'[a] \in {Tail(job[a]), <<>>}
      /\ \A b \in Callers : b # a => job'[b] = job[b]
  <2>1. CASE Return(a)
    BY <2>1, CallerMoves
  <2>2. CASE job' = [job EXCEPT ![a] = Tail(@), !["main"] = ServiceMain]
    BY <2>2, CallersAssumption DEF TypeOK, Actors
  <2> QED  BY <2>1, <2>2 DEF StartService
<1> QED  BY <1>1, <1>2, CallerJobsGoOn, CommandJobs, CommandKeepsKeys

\* CreateService precedes the keys, and the command that made the service goes on to them.
LEMMA InstallKeepsKeys ==
    ASSUME TypeOK, KeyInv, NEW a \in Callers, ServiceInstall(a)
    PROVE  KeyInv'
<1>1. job[a] \in CallerJobs /\ job[a] # <<>> /\ Head(job[a]) = "install" /\ Tail(job[a]) = <<"keys">>
  <2>1. job[a] \in CallerJobs /\ job[a] # <<>> /\ Head(job[a]) = "install"
    BY DEF KeyInv, ServiceInstall, At
  <2> QED  BY <2>1, CallerJobsGoOn
<1>2. CASE Return(a) /\ UNCHANGED <<installed, unkeyed>>
  BY <1>1, <1>2, CallerMoves, CommandJobs, CommandKeepsKeys DEF ServiceInstall, At
<1>3. CASE installed = "no" /\ installed' = "yes" /\ Continue(a)
  <2>1. job'[a] = <<"keys">> /\ \A b \in Callers : b # a => job'[b] = job[b]
    BY <1>1, <1>3, CallerMoves
  <2>2. At(a, "keys")' /\ ~At(a, "delete_keys")' /\ job'[a] \in CallerJobs
    BY <2>1 DEF At, CallerJobs
  <2>3. \A b \in Callers : ~At(b, "delete_keys")
    BY <1>3 DEF KeyInv
  <2>4. \A b \in Callers : ~At(b, "delete_keys")' /\ job'[b] \in CallerJobs
    BY <2>1, <2>2, <2>3 DEF At, KeyInv
  <2> QED  BY <2>2, <2>4 DEF KeyInv, InstalledHasKey
<1> QED  BY <1>2, <1>3 DEF ServiceInstall

LEMMA InstallKeysKeeps ==
    ASSUME TypeOK, KeyInv, NEW a \in Callers, InstallKeys(a)
    PROVE  KeyInv'
<1>1. job'[a] = <<>> /\ \A b \in Callers : b # a => job'[b] = job[b]
  BY CallerMoves DEF InstallKeys
<1>2. InstalledHasKey'
  BY DEF InstallKeys, InstalledHasKey
<1>3. \A b \in Callers : job'[b] \in CallerJobs /\ (At(b, "delete_keys")' => installed' = "marked")
  BY <1>1, CommandJobs DEF KeyInv, At, InstallKeys, scmVars
<1> QED  BY <1>2, <1>3 DEF KeyInv

\* The keys go only with a service that is marked, and nothing unmarks it.
LEMMA DeleteKeepsKeys ==
    ASSUME TypeOK, KeyInv, NEW a \in Callers, DeleteService(a) \/ RemoveKeys(a)
    PROVE  KeyInv'
<1>1. CASE DeleteService(a)
  <2>1. job[a] \in CallerJobs /\ job[a] # <<>> /\ Head(job[a]) = "delete" /\ UNCHANGED <<keys, unkeyed>>
    BY <1>1 DEF KeyInv, DeleteService, At, keyVars
  <2>2. CASE Return(a) /\ UNCHANGED installed
    BY <2>1, <2>2, CallerMoves, CommandJobs, CommandKeepsKeys DEF At
  <2>3. CASE installed' = "marked" /\ Continue(a)
    <3>1. job'[a] \in CallerJobs /\ \A b \in Callers : b # a => job'[b] = job[b]
      BY <2>1, <2>3, CallerMoves, CallerJobsGoOn
    <3> QED  BY <2>3, <3>1 DEF KeyInv, InstalledHasKey
  <2> QED  BY <1>1, <2>2, <2>3 DEF DeleteService
<1>2. CASE RemoveKeys(a)
  <2>1. installed' = "marked"
    BY <1>2 DEF KeyInv, RemoveKeys, scmVars
  <2>2. job'[a] = <<>> /\ \A b \in Callers : b # a => job'[b] = job[b]
    BY <1>2, CallerMoves DEF RemoveKeys
  <2> QED  BY <2>1, <2>2, CommandJobs DEF KeyInv, InstalledHasKey
<1> QED  BY <1>1, <1>2

LEMMA RemoveKeepsKeys ==
    ASSUME TypeOK, KeyInv, NEW a \in Callers, ServiceRemove(a)
    PROVE  KeyInv'
<1>1. ~At(a, "keys") /\ UNCHANGED <<installed, keys, unkeyed>>
  BY DEF ServiceRemove, At, scmVars, keyVars
<1>2. /\ job'[a] \in {<<>>, ServiceDelete, <<"query_stop", "STOP", "delete", "delete_keys">>}
      /\ \A b \in Callers : b # a => job'[b] = job[b]
  <2>1. CASE Return(a)
    BY <2>1, CallerMoves
  <2>2. CASE Instead(a, (IF state \in {"RUNNING", "START_PENDING"} THEN ServiceStop(a) ELSE <<>>) \o ServiceDelete)
    <3>1. (IF state \in {"RUNNING", "START_PENDING"} THEN ServiceStop(a) ELSE <<>>) \o ServiceDelete
             \in {ServiceDelete, <<"query_stop", "STOP", "delete", "delete_keys">>}
      BY CommandJobs
    <3> QED  BY <2>2, <3>1, CallerMoves
  <2> QED  BY <2>1, <2>2 DEF ServiceRemove
<1>3. job'[a] \in CallerJobs /\ (job'[a] # <<>> => Head(job'[a]) # "delete_keys")
  <2>1. LET p == <<"query_stop", "STOP", "delete", "delete_keys">> IN p \in CallerJobs /\ Head(p) = "query_stop"
    BY DEF CallerJobs
  <2> QED  BY <1>2, <2>1, CommandJobs
<1> QED  BY <1>1, <1>2, <1>3, CommandKeepsKeys

LEMMA MainKeepsKeys ==
    ASSUME TypeOK, KeyInv, NEW a \in Callers, main(a)
    PROVE  KeyInv'
<1>1. ~At(a, "keys") /\ UNCHANGED <<installed, keys, unkeyed>>
  BY DEF main, At, keyVars
<1>2. CASE job' = [job EXCEPT !["main"] = LaunchCmdLineService]
  <2>1. \A b \in Callers : job'[b] = job[b]
    BY <1>2, CallersAssumption DEF TypeOK, Actors
  <2> QED  BY <1>1, <2>1, OtherKeepsKeys
<1>3. ASSUME NEW p \in CallerJobs, Instead(a, p), p # <<>> => Head(p) # "delete_keys" PROVE KeyInv'
  BY <1>1, <1>3, CallerMoves, CommandKeepsKeys
<1>4. ASSUME NEW c \in Commands[a], c # "test"
      PROVE  LET p == CASE c = "start" -> ServiceLaunch
                        [] c = "stop" -> ServiceStop(a)
                        [] c = "pause" -> ServicePause
                        [] c = "continue" -> ServiceContinue
                        [] c = "install" -> <<"install", "keys">>
                        [] c = "uninstall" -> <<"remove">>
             IN  p \in CallerJobs /\ p # <<>> /\ Head(p) # "delete_keys"
  <2>1. /\ Head(ServiceLaunch) = "query_start" /\ ServiceLaunch # <<>>
        /\ Head(ServicePause) = "query_pause" /\ ServicePause # <<>>
        /\ Head(ServiceContinue) = "query_continue" /\ ServiceContinue # <<>>
    BY DEF ServiceLaunch, ServicePause, ServiceContinue
  <2>2. /\ ServiceStop(a) \in CallerJobs /\ Head(ServiceStop(a)) = "query_stop" /\ ServiceStop(a) # <<>>
    BY CommandJobs DEF CallerJobs
  <2>3. c \in {"start", "stop", "pause", "continue", "install", "uninstall"}
    BY <1>4, CommandsAssumption
  <2> QED  BY <2>1, <2>2, <2>3, CommandJobs
<1> QED  BY <1>2, <1>3, <1>4 DEF main

LEMMA KilledKeepsKeys ==
    ASSUME TypeOK, KeyInv, NEW a \in Callers, Killed(a)
    PROVE  KeyInv'
<1>1. job'[a] = <<>> /\ (\A b \in Callers : b # a => job'[b] = job[b]) /\ UNCHANGED <<installed, keys>>
  BY CallerMoves DEF Killed, scmVars
<1>2. InstalledHasKey'
  <2>1. CASE At(a, "keys") \/ unkeyed
    BY <2>1 DEF Killed, InstalledHasKey
  <2>2. CASE ~At(a, "keys") /\ ~unkeyed
    <3>1. \A b \in Callers : At(b, "keys") => At(b, "keys")'
      BY <1>1, <2>2 DEF At
    <3> QED  BY <1>1, <2>2, <3>1 DEF KeyInv, InstalledHasKey
  <2> QED  BY <2>1, <2>2
<1>3. \A b \in Callers : job'[b] \in CallerJobs /\ (At(b, "delete_keys")' => installed' = "marked")
  BY <1>1, CommandJobs DEF KeyInv, At
<1> QED  BY <1>2, <1>3 DEF KeyInv

\* The SCM forgets no service that a removal still has a handle of.
LEMMA ForgottenKeepsKeys ==
    ASSUME TypeOK, KeyInv, ServiceForgotten
    PROVE  KeyInv'
<1>1. \A a \in Callers : At(a, "delete_keys") => HasHandle(a)
  BY DEF At, HasHandle
<1>2. \A a \in Callers : ~At(a, "delete_keys")
  BY <1>1 DEF ServiceForgotten
<1> QED  BY <1>2 DEF KeyInv, InstalledHasKey, ServiceForgotten, At

\* The threads of the service leave commands and installation alone.
LEMMA ThreadKeepsKeys ==
    ASSUME TypeOK, KeyInv, NEW a \in Threads, Thread(a)
    PROVE  KeyInv'
<1> USE DEF ctxVars, pipeVars, scmVars, keyVars
<1>1. UNCHANGED <<installed, keys, unkeyed>>
  <2>1. CASE Load(a)
    BY <2>1 DEF Load, open, connect, start_pipe
  <2>2. CASE Unload(a)
    BY <2>2 DEF Unload, Close, Close_IHM_Connection, Hang
  <2>3. CASE Query(a) \/ Control(a, "STOP") \/ \E x \in Reports : ReportSvcStatus(a, x)
    BY <2>3 DEF Query, Control, ReportSvcStatus
  <2> QED  BY <2>1, <2>2, <2>3 DEF Thread, Reports
<1>2. \E p, q : job' = [job EXCEPT ![a] = p] \/ job' = [job EXCEPT ![a] = p, !["handler"] = q]
  <2>1. \/ Continue(a) \/ (\E p : Instead(a, p)) \/ Control(a, "STOP")
    <3>1. CASE Load(a)
      BY <3>1 DEF Load, open, connect, start_pipe, LoadFails
    <3>2. CASE Unload(a)
      BY <3>2 DEF Unload, Close, Close_IHM_Connection, Hang
    <3>3. CASE Query(a) \/ \E x \in Reports : ReportSvcStatus(a, x)
      BY <3>3 DEF Query, StopEnds, ReportSvcStatus
    <3> QED  BY <3>1, <3>2, <3>3 DEF Thread, Reports
  <2> QED  BY <2>1 DEF Continue, Instead, Control, StopEnds
<1>3. \A b \in Callers : job'[b] = job[b]
  BY <1>2, CallersAssumption DEF TypeOK, Actors, Threads
<1> QED  BY <1>1, <1>3, OtherKeepsKeys

LEMMA NextKeepsKeys ==
    ASSUME TypeOK, KeyInv, [Next]_vars
    PROVE  KeyInv'
<1>1. ASSUME NEW a \in Callers, Caller(a) \/ Killed(a) \/ main(a) PROVE KeyInv'
  BY <1>1, QueryKeepsKeys, StartKeepsKeys, InstallKeepsKeys, InstallKeysKeeps, DeleteKeepsKeys,
     RemoveKeepsKeys, KilledKeepsKeys, MainKeepsKeys DEF Caller
<1>2. CASE register \/ ServiceInit \/ getchar \/ Exit \/ ConsoleEnds \/ MainThreadWork \/ UNCHANGED vars
  <2>1. UNCHANGED <<installed, keys, unkeyed>>
    BY <1>2 DEF register, ServiceInit, getchar, Exit, ConsoleEnds, MainThreadWork, vars, scmVars, keyVars
  <2>2. job' = job \/ \E p : job' = [job EXCEPT !["main"] = p]
    BY <1>2 DEF register, ServiceInit, getchar, Exit, ConsoleEnds, MainThreadWork, vars, Continue, Instead
  <2>3. \A b \in Callers : job'[b] = job[b]
    BY <2>2, CallersAssumption DEF TypeOK, Actors
  <2> QED  BY <2>1, <2>3, OtherKeepsKeys
<1> QED  BY <1>1, <1>2, ThreadKeepsKeys, ForgottenKeepsKeys DEF Next

LEMMA InitKeys == Init => TypeOK /\ KeyInv
<1> SUFFICES ASSUME Init PROVE TypeOK /\ KeyInv
  OBVIOUS
<1>1. \A a \in Callers : job[a] = <<>>
  BY CallersAssumption DEF Init, Actors
<1>2. TypeOK
  BY InitType
<1>3. InstalledHasKey
  BY DEF Init, InstalledHasKey, Keys
<1> QED  BY <1>1, <1>2, <1>3 DEF KeyInv, At, CallerJobs

(* Whatever commands are given by any processes, which may be ended between *)
(* any two calls, and in whatever order these interleave: an installed      *)
(* service has its crash dump key, unless its own installation has not got  *)
(* to the key, could not create it or was ended before.  A removal that is  *)
(* under way never takes the key from a later installation: its handle      *)
(* keeps the service marked (ServiceInstall and ServiceRemove in            *)
(* service.c).                                                              *)
THEOREM KeyFollowsService == Spec => []InstalledHasKey
<1>1. TypeOK /\ KeyInv /\ [Next]_vars => TypeOK' /\ KeyInv'
  BY NextType, NextKeepsKeys
<1>2. KeyInv => InstalledHasKey
  BY DEF KeyInv
<1> QED  BY InitKeys, <1>1, <1>2, PTL DEF Spec


-----------------------------------------------------------------------------
(* Threads.                                                                *)

LEMMA SuccessorIs ==
    /\ Successor("register") = {"init"} /\ Successor("init") = {"open"}
    /\ Successor("START_PENDING") = {"RUNNING"} /\ Successor("RUNNING") = {"open"}
    /\ Successor("open") = {"connect"} /\ Successor("connect") = {"start_pipe"}
    /\ Successor("start_pipe") = {"first", "getchar"}
    /\ Successor("query_stop") = {"finalize"} /\ Successor("PAUSE_PENDING") = {"finalize"}
    /\ Successor("STOP_PENDING") = {"finalize"} /\ Successor("finalize") = {"close_pipe"}
    /\ Successor("close_pipe") = {"close_engine"}
    /\ Successor("close_engine") = {"PAUSED", "STOPPED", "STOP", "getchar", "finalize"}
    /\ Successor("PAUSED") = {} /\ Successor("STOPPED") = {} /\ Successor("STOP") = {}
    /\ Successor("hung") = {} /\ Successor("first") = {} /\ Successor("getchar") = {}
BY DEF Successor

\* A thread at work is alone.
LEMMA Alone ==
    ASSUME Ordered, NEW a \in Threads, job[a] # <<>>
    PROVE  /\ a = "handler" => proc = "service" /\ job["main"] = <<>>
           /\ a = "main" => job["handler"] = <<>>
           /\ proc # "none" /\ InOrder(job[a], LastSteps(a)) /\ Holds(job[a])
BY DEF Ordered, LifeInv, Threads

\* A thread goes on.
LEMMA GoesOn ==
    ASSUME TypeOK, Ordered, NEW a \in Threads, job[a] # <<>>, Continue(a)
    PROVE  /\ job'[a] = Tail(job[a]) /\ InOrder(job'[a], LastSteps(a))
           /\ a = "main" => job'["handler"] = <<>> /\ job["handler"] = <<>>
           /\ a = "handler" => job'["main"] = <<>> /\ job["main"] = <<>>
           /\ job'[a] # <<>> => Head(job'[a]) \in Successor(Head(job[a])) /\ LastStep(job'[a]) = LastStep(job[a])
           /\ job'[a] = <<>> => LastStep(job[a]) = Head(job[a])
           /\ Successor(Head(job[a])) = {} => job'[a] = <<>>
           /\ LastStep(job[a]) \in LastSteps(a)
<1>1. /\ job'[a] = Tail(job[a])
      /\ a = "main" => job'["handler"] = job["handler"]
      /\ a = "handler" => job'["main"] = job["main"]
  BY DEF TypeOK, Continue, Actors, Threads
<1> QED  BY <1>1, Alone, TailInOrder

\* A thread does something else instead.
LEMMA DoesInstead ==
    ASSUME TypeOK, Ordered, NEW a \in Threads, job[a] # <<>>, NEW p, NEW first, NEW last,
           Instead(a, p), Procedure(p, first, last), last \in LastSteps(a)
    PROVE  /\ job'[a] = p /\ job'[a] # <<>> /\ InOrder(job'[a], LastSteps(a))
           /\ a = "main" => job'["handler"] = <<>> /\ job["handler"] = <<>>
           /\ a = "handler" => job'["main"] = <<>> /\ job["main"] = <<>>
           /\ Head(job'[a]) = first /\ LastStep(job'[a]) = last
<1>1. /\ job'[a] = p
      /\ a = "main" => job'["handler"] = job["handler"]
      /\ a = "handler" => job'["main"] = job["main"]
  BY DEF TypeOK, Instead, Actors, Threads
<1>2. InOrder(p, LastSteps(a))
  BY DEF Procedure, InOrder
<1> QED  BY <1>1, <1>2, Alone DEF Procedure

\* After a step of one thread that leaves the process as it is.
LEMMA LifeStep ==
    ASSUME Ordered, NEW a \in Threads, job[a] # <<>>, proc' = proc, installed' = installed,
           a = "main" => job'["handler"] = <<>>,
           a = "handler" => job'["main"] = <<>>,
           InOrder(job'[a], LastSteps(a)),
           proc # "service" => state' = state /\ (job'[a] = <<>> => ctx' = {})
    PROVE  LifeInv'
<1>1. \A last : InOrder(<<>>, last)
  BY DEF InOrder
<1>2. \A b : LastSteps(b)' = LastSteps(b)
  BY DEF LastSteps
<1>3. \A b \in Threads : InOrder(job[b], LastSteps(b))'
  BY <1>1, <1>2 DEF Threads
<1> QED  BY <1>3, Alone DEF LifeInv, Ordered, Threads

\* A step without a successor is the last one.
LEMMA FinalStep ==
    ASSUME NEW p, NEW last, InOrder(p, last), p # <<>>, Successor(Head(p)) = {}
    PROVE  LastStep(p) = Head(p) /\ Head(p) \in last
BY TailInOrder

\* What exists, after a step of one thread.
LEMMA LiveStep ==
    ASSUME NEW a \in Threads,
           a = "main" => job'["handler"] = <<>>,
           a = "handler" => job'["main"] = <<>>,
           \A r \in {"engine", "port", "listener"} :
               live'[r] = IF r \in ctx' \ Closed(job[a])' THEN 1 ELSE 0
    PROVE  LiveInv'
<1>1. a = "main" => Closed(job["handler"])' = {}
  BY DEF Closed
<1>2. a = "handler" => Closed(job["main"])' = {}
  BY DEF Closed
<1> QED  BY <1>1, <1>2 DEF LiveInv, Threads

LEMMA LiveBefore ==
    ASSUME Ordered, NEW a \in Threads, job[a] # <<>>
    PROVE  \A r \in {"engine", "port", "listener"} : live[r] = IF r \in ctx \ Closed(job[a]) THEN 1 ELSE 0
<1>1. a = "main" => Closed(job["handler"]) = {}
  BY Alone DEF Closed
<1>2. a = "handler" => Closed(job["main"]) = {}
  BY Alone DEF Closed
<1> QED  BY <1>1, <1>2 DEF LiveInv, Threads, Ordered

LEMMA OpenKeeps ==
    ASSUME TypeOK, Ordered, NEW a \in Threads, open(a), Continue(a), ctx' = {"engine"},
           live' = [live EXCEPT !.engine = @ + 1], UNCHANGED odd
    PROVE  Ordered'
<1> USE DEF open, ctxVars, pipeVars, scmVars, keyVars
<1>1. job[a] # <<>> /\ Head(job[a]) = "open" /\ ctx = {} /\ Closed(job[a]) = {}
  BY Alone DEF At, Holds, Closed
<1>2. job'[a] # <<>> /\ Head(job'[a]) = "connect" /\ LastStep(job'[a]) = LastStep(job[a])
  BY <1>1, GoesOn, SuccessorIs DEF LastSteps, MainLast, HandlerLast, ConsoleLast
<1>3. LifeInv'
  BY <1>1, <1>2, GoesOn, LifeStep
<1>4. LiveInv'
  <2>1. Closed(job[a])' = {}
    BY <1>2 DEF Closed
  <2>2. \A r \in {"engine", "port", "listener"} : live'[r] = IF r \in ctx' THEN 1 ELSE 0
    BY <1>1, LiveBefore DEF TypeOK
  <2> QED  BY <2>1, <2>2, <1>1, GoesOn, LiveStep
<1>5. Holds(job["main"])' /\ Holds(job["handler"])'
  BY <1>1, <1>2, GoesOn DEF Holds, Threads
<1>6. StateInv' /\ MainInv' /\ HandlerInv'
  BY <1>1, <1>2, GoesOn, Alone DEF StateInv, MainInv, HandlerInv, Ordered, Threads, Loading, Unloading, Reports
<1> QED  BY <1>3, <1>4, <1>5, <1>6 DEF Ordered

LEMMA ConnectKeeps ==
    ASSUME TypeOK, Ordered, NEW a \in Threads, connect(a), Continue(a), UNCHANGED odd,
           \/ live' = [live EXCEPT !.port = @ + 1] /\ ctx' = ctx \cup {"port"}
           \/ UNCHANGED ctxVars
    PROVE  Ordered'
<1> USE DEF connect, ctxVars, pipeVars, scmVars, keyVars
<1>1. job[a] # <<>> /\ Head(job[a]) = "connect" /\ ctx = {"engine"} /\ Closed(job[a]) = {}
  BY Alone DEF At, Holds, Closed
<1>2. job'[a] # <<>> /\ Head(job'[a]) = "start_pipe" /\ LastStep(job'[a]) = LastStep(job[a])
  BY <1>1, GoesOn, SuccessorIs DEF LastSteps, MainLast, HandlerLast, ConsoleLast
<1>3. LifeInv'
  BY <1>1, <1>2, GoesOn, LifeStep
<1>4. LiveInv'
  <2>1. Closed(job[a])' = {}
    BY <1>2 DEF Closed
  <2>2. \A r \in {"engine", "port", "listener"} : live'[r] = IF r \in ctx' THEN 1 ELSE 0
    BY <1>1, LiveBefore DEF TypeOK
  <2> QED  BY <2>1, <2>2, <1>1, GoesOn, LiveStep
<1>5. Holds(job["main"])' /\ Holds(job["handler"])'
  BY <1>1, <1>2, GoesOn DEF Holds, Threads
<1>6. StateInv' /\ MainInv' /\ HandlerInv'
  BY <1>1, <1>2, GoesOn, Alone DEF StateInv, MainInv, HandlerInv, Ordered, Threads, Loading, Unloading, Reports
<1> QED  BY <1>3, <1>4, <1>5, <1>6 DEF Ordered

\* Start_IHM_Connection is the last step of a load; the console goes on with the keyboard.
LEMMA StartPipeKeeps ==
    ASSUME TypeOK, Ordered, NEW a \in Threads, start_pipe(a), Continue(a), UNCHANGED odd,
           live' = [live EXCEPT !.listener = @ + 1], ctx' = ctx \cup {"pipe", "listener"}
    PROVE  Ordered'
<1> USE DEF start_pipe, ctxVars, pipeVars, scmVars, keyVars
<1>1. /\ job[a] # <<>> /\ Head(job[a]) = "start_pipe" /\ "engine" \in ctx /\ "pipe" \notin ctx
      /\ "listener" \notin ctx /\ Closed(job[a]) = {}
  BY Alone DEF At, Holds, Closed
<1>2. job'[a] # <<>> => Head(job'[a]) \in {"first", "getchar"} /\ proc # "service"
  <2>1. job'[a] # <<>> => Head(job'[a]) \in {"first", "getchar"}
    BY <1>1, GoesOn, SuccessorIs
  <2>2. job'[a] # <<>> => Head(job'[a]) \in LastSteps(a)
    BY <1>1, <2>1, GoesOn, FinalStep, SuccessorIs
  <2> QED  BY <1>1, <2>1, <2>2, Alone DEF LastSteps, MainLast, HandlerLast, ConsoleLast
<1>3. proc # "service" => job'[a] # <<>>
  BY <1>1, GoesOn, Alone DEF LastSteps, ConsoleLast
<1>4. LifeInv'
  BY <1>1, <1>2, <1>3, GoesOn, LifeStep
<1>5. LiveInv'
  <2>1. Closed(job[a])' = {}
    BY <1>2 DEF Closed
  <2>2. \A r \in {"engine", "port", "listener"} : live'[r] = IF r \in ctx' THEN 1 ELSE 0
    BY <1>1, LiveBefore DEF TypeOK
  <2> QED  BY <2>1, <2>2, <1>1, GoesOn, LiveStep
<1>6. Holds(job["main"])' /\ Holds(job["handler"])'
  BY <1>1, <1>2, GoesOn DEF Holds, Threads
<1>7. StateInv' /\ MainInv' /\ HandlerInv'
  BY <1>1, <1>2, GoesOn, Alone DEF StateInv, MainInv, HandlerInv, Ordered, Threads, Loading, Unloading, Reports
<1> QED  BY <1>4, <1>5, <1>6, <1>7 DEF Ordered

\* A load that fails is followed by ServiceStop; the console unloads, or waits for a key.
LEMMA LoadFailsKeeps ==
    ASSUME TypeOK, Ordered, NEW a \in Threads, job[a] # <<>>, Head(job[a]) \in Loading, LoadFails(a),
           UNCHANGED <<ctxVars, failed, scmVars>>
    PROVE  Ordered'
<1> USE DEF ctxVars, pipeVars, scmVars, keyVars
<1>1. Closed(job[a]) = {}
  BY DEF Closed, Loading
<1>2. odd \subseteq odd' /\ (a = "handler" => "continueFailed" \in odd')
  BY DEF LoadFails
<1>3. PICK p, first, last : Instead(a, p) /\ Procedure(p, first, last) /\ last \in LastSteps(a)
                            /\ IF proc = "service" THEN first = "query_stop" /\ last = "STOP"
                               ELSE first \in {"finalize", "getchar"}
  <2>1. CASE proc = "service"
    <3>1. job[a][Len(job[a])] # "first"
      <4>1. LastStep(job[a]) \in LastSteps(a)
        BY Alone, TailInOrder
      <4> QED  BY <2>1, <4>1 DEF LastStep, LastSteps, MainLast, HandlerLast
    <3>2. Instead(a, ServiceStop(a))
      BY <2>1, <3>1 DEF LoadFails
    <3> QED  BY <2>1, <3>2, Procedures DEF LastSteps, MainLast, HandlerLast
  <2>2. CASE proc # "service" /\ job[a][Len(job[a])] = "first"
    <3>1. Instead(a, ServiceUnloadProcedure)
      BY <2>2 DEF LoadFails
    <3> QED  BY <2>2, <3>1, Procedures, Alone DEF LastSteps, ConsoleLast
  <2>3. CASE proc # "service" /\ job[a][Len(job[a])] # "first"
    <3>1. Instead(a, <<"getchar">>)
      BY <2>3 DEF LoadFails
    <3> QED  BY <2>3, <3>1, Procedures, Alone DEF LastSteps, ConsoleLast
  <2> QED  BY <2>1, <2>2, <2>3
<1>4. /\ job'[a] # <<>> /\ Head(job'[a]) = first /\ LastStep(job'[a]) = last
      /\ InOrder(job'[a], LastSteps(a))
      /\ a = "main" => job'["handler"] = <<>> /\ job["handler"] = <<>>
      /\ a = "handler" => job'["main"] = <<>> /\ job["main"] = <<>>
  BY <1>3, DoesInstead
<1>5. LifeInv'
  BY <1>4, LifeStep
<1>6. LiveInv'
  <2>1. Closed(job[a])' = {}
    BY <1>3, <1>4 DEF Closed
  <2> QED  BY <1>1, <1>4, <2>1, LiveBefore, LiveStep
<1>7. Holds(job["main"])' /\ Holds(job["handler"])'
  BY <1>3, <1>4 DEF Holds, Threads
<1>8. StateInv' /\ MainInv' /\ HandlerInv'
  BY <1>2, <1>3, <1>4, Alone DEF StateInv, MainInv, HandlerInv, Ordered, Threads, Loading, Unloading, Reports
<1> QED  BY <1>5, <1>6, <1>7, <1>8 DEF Ordered

LEMMA LoadKeeps ==
    ASSUME TypeOK, Ordered, NEW a \in Threads, Load(a)
    PROVE  Ordered'
<1>1. CASE open(a)
  <2>1. CASE LoadFails(a) /\ UNCHANGED ctxVars
    <3>1. job[a] # <<>> /\ Head(job[a]) \in Loading
      BY <1>1 DEF open, At, Loading
    <3> QED  BY <1>1, <2>1, <3>1, LoadFailsKeeps DEF open, pipeVars
  <2> QED  BY <1>1, <2>1, OpenKeeps DEF open
<1>2. CASE connect(a)
  <2>1. CASE LoadFails(a) /\ ctx' = ctx \ {"port"} /\ UNCHANGED live
    <3>1. job[a] # <<>> /\ Head(job[a]) \in Loading /\ ctx' = ctx
      BY <1>2, <2>1, Alone DEF connect, At, Loading, Holds
    <3> QED  BY <1>2, <2>1, <3>1, LoadFailsKeeps DEF connect, ctxVars, pipeVars
  <2> QED  BY <1>2, <2>1, ConnectKeeps DEF connect, ctxVars
<1>3. CASE start_pipe(a)
  <2>1. CASE LoadFails(a) /\ ctx' = ctx \ {"pipe", "listener"} /\ UNCHANGED <<live, opening, failed>>
    <3>1. job[a] # <<>> /\ Head(job[a]) \in Loading /\ ctx' = ctx
      BY <1>3, <2>1, Alone DEF start_pipe, At, Loading, Holds
    <3> QED  BY <1>3, <2>1, <3>1, LoadFailsKeeps DEF start_pipe, ctxVars
  <2> QED  BY <1>3, <2>1, StartPipeKeeps DEF start_pipe
<1> QED  BY <1>1, <1>2, <1>3 DEF Load

\* A step of the unload procedure.
LEMMA CloseKeeps ==
    ASSUME TypeOK, Ordered, NEW a \in Threads,
           \/ Close(a, "finalize", "port") \/ Close_IHM_Connection(a) \/ Close(a, "close_engine", "engine")
    PROVE  Ordered'
<1> USE DEF Close, Close_IHM_Connection, ctxVars, pipeVars, scmVars, keyVars
<1> DEFINE h == Head(job[a])
           n == Head(job'[a])
<1>1. job[a] # <<>> /\ h \in Unloading /\ Continue(a) /\ UNCHANGED <<proc, state, installed, odd>>
  BY DEF At, Unloading
<1>2. job'[a] # <<>> => n \in Successor(h) /\ LastStep(job'[a]) = LastStep(job[a])
  BY <1>1, GoesOn
<1>3. h # "close_engine" => job'[a] # <<>>
  BY <1>1, GoesOn DEF LastSteps, MainLast, HandlerLast, ConsoleLast, Unloading
<1>4. /\ h = "finalize" => n = "close_pipe"
      /\ h = "close_pipe" => n = "close_engine"
      /\ job'[a] # <<>> /\ h = "close_engine" =>
            \/ n \in {"PAUSED", "STOPPED", "STOP", "getchar"} /\ LastStep(job'[a]) = n
            \/ n = "finalize"
  <2>1. job'[a] # <<>> /\ h = "close_engine" => n \in {"PAUSED", "STOPPED", "STOP", "getchar", "finalize"}
    BY <1>2, SuccessorIs
  <2>2. job'[a] # <<>> /\ h = "close_engine" => LastStep(job'[a]) = n \/ n = "finalize"
    BY <2>1, <1>1, GoesOn, FinalStep, SuccessorIs
  <2> QED  BY <1>2, <1>3, <2>1, <2>2, SuccessorIs
<1>5. ctx' = IF h = "close_engine" THEN {} ELSE IF h = "close_pipe" THEN ctx \ {"listener"} ELSE ctx
  BY DEF At
<1>6. LifeInv'
  BY <1>1, <1>3, <1>5, GoesOn, LifeStep
<1>7. LiveInv'
  <2>1. Closed(job[a])' = IF h = "close_engine" THEN {} ELSE {"port"}
    BY <1>1, <1>3, <1>4 DEF Closed, Unloading
  <2>2. Closed(job[a]) = IF h = "finalize" THEN {} ELSE {"port"}
    BY <1>1 DEF Closed, Unloading
  <2>3. \A r \in {"engine", "port", "listener"} : live[r] = IF r \in ctx \ Closed(job[a]) THEN 1 ELSE 0
    BY <1>1, LiveBefore
  <2>4. CASE h = "finalize"
    <3>1. live' = IF "port" \in ctx THEN [live EXCEPT !["port"] = @ - 1] ELSE live
      BY <2>4 DEF At
    <3>2. \A r \in {"engine", "port", "listener"} : live'[r] = IF r \in ctx' \ Closed(job[a])' THEN 1 ELSE 0
      BY <2>1, <2>2, <2>3, <2>4, <1>5, <3>1 DEF TypeOK
    <3> QED  BY <3>2, <1>1, GoesOn, LiveStep
  <2>5. CASE h = "close_pipe"
    <3>1. live' = IF "listener" \in ctx THEN [live EXCEPT !["listener"] = @ - 1] ELSE live
      BY <2>5 DEF At
    <3>2. \A r \in {"engine", "port", "listener"} : live'[r] = IF r \in ctx' \ Closed(job[a])' THEN 1 ELSE 0
      BY <2>1, <2>2, <2>3, <2>5, <1>5, <3>1 DEF TypeOK
    <3> QED  BY <3>2, <1>1, GoesOn, LiveStep
  <2>6. CASE h = "close_engine"
    <3>1. live' = IF "engine" \in ctx THEN [live EXCEPT !["engine"] = @ - 1] ELSE live
      BY <2>6 DEF At
    <3>2. \A r \in {"engine", "port", "listener"} : live'[r] = IF r \in ctx' \ Closed(job[a])' THEN 1 ELSE 0
      BY <2>1, <2>2, <2>3, <2>6, <1>1, <1>5, <3>1, Alone DEF TypeOK, Holds
    <3> QED  BY <3>2, <1>1, GoesOn, LiveStep
  <2> QED  BY <1>1, <2>4, <2>5, <2>6 DEF Unloading
<1>8. Holds(job["main"])' /\ Holds(job["handler"])'
  BY <1>1, <1>4, <1>5, GoesOn DEF Holds, Threads, Unloading
<1>9. proc = "service" => job'[a] # <<>> /\ n # "getchar"
  BY <1>1, <1>3, <1>4, GoesOn, Alone DEF LastSteps, MainLast, HandlerLast, Unloading
<1>10. a = "main" => MainInv' /\ HandlerInv'
  <2>1. a = "main" /\ job'[a] # <<>> => n \notin Reports /\ (proc # "service" => n # "STOP")
    BY <1>1, <1>2, <1>4, GoesOn DEF LastSteps, MainLast, ConsoleLast, Unloading, Reports
  <2>2. a = "main" /\ job'[a] # <<>> => n \in {"finalize", "close_pipe", "close_engine", "STOP", "getchar"}
    BY <1>1, <1>4, <2>1 DEF Unloading, Reports
  <2>3. a = "main" /\ proc = "service" => state \in {"START_PENDING", "RUNNING"}
    BY <1>1 DEF MainInv, Ordered
  <2>4. a = "main" => MainInv'
    BY <1>1, <1>9, <2>1, <2>2, <2>3 DEF MainInv, Loading, Unloading
  <2>5. a = "main" => HandlerInv'
    BY <1>1, GoesOn DEF HandlerInv
  <2> QED  BY <2>4, <2>5
<1>11. a = "handler" => MainInv' /\ HandlerInv'
  BY <1>1, <1>2, <1>4, <1>9, GoesOn, Alone DEF MainInv, HandlerInv, Ordered, Loading, Unloading, Reports
<1>12. StateInv'
  BY <1>1, <1>5, <1>9, GoesOn, Alone DEF StateInv, Ordered, Threads
<1> QED  BY <1>6, <1>7, <1>8, <1>10, <1>11, <1>12 DEF Ordered, Threads

LEMMA HangKeeps ==
    ASSUME TypeOK, Ordered, NEW a \in Threads, Hang(a)
    PROVE  Ordered'
<1> USE DEF Hang, ctxVars, pipeVars, scmVars, keyVars
<1>1. job[a] # <<>> /\ Head(job[a]) = "finalize" /\ Closed(job[a]) = {}
  BY DEF At, Closed
<1>2. /\ job'[a] # <<>> /\ Head(job'[a]) = "hung" /\ LastStep(job'[a]) = "hung"
      /\ InOrder(job'[a], LastSteps(a))
      /\ a = "main" => job'["handler"] = <<>> /\ job["handler"] = <<>>
      /\ a = "handler" => job'["main"] = <<>> /\ job["main"] = <<>>
  <2>1. "hung" \in LastSteps(a)
    BY DEF LastSteps, MainLast, HandlerLast, ConsoleLast
  <2> QED  BY <1>1, <2>1, Procedures, DoesInstead
<1>3. LifeInv'
  BY <1>1, <1>2, LifeStep
<1>4. LiveInv'
  <2>1. Closed(job[a])' = {}
    BY <1>2 DEF Closed
  <2> QED  BY <1>1, <1>2, <2>1, LiveBefore, LiveStep
<1>5. Holds(job["main"])' /\ Holds(job["handler"])'
  BY <1>2 DEF Holds, Threads
<1>6. StateInv' /\ MainInv' /\ HandlerInv'
  BY <1>1, <1>2, Alone DEF StateInv, MainInv, HandlerInv, Ordered, Threads, Loading, Unloading, Reports
<1> QED  BY <1>3, <1>4, <1>5, <1>6 DEF Ordered

\* Only the handler reports a state here.
LEMMA ReportKeeps ==
    ASSUME TypeOK, Ordered, NEW a \in Threads, NEW s \in Reports, ReportSvcStatus(a, s)
    PROVE  Ordered'
<1> USE DEF ReportSvcStatus, ctxVars
<1>1. job[a] # <<>> /\ Head(job[a]) = s /\ Closed(job[a]) = {} /\ Continue(a)
  BY DEF At, Closed, Reports
<1>2. a = "handler" /\ proc = "service" /\ job["main"] = <<>> /\ job'["main"] = <<>>
  <2>1. a = "handler"
    BY <1>1, Alone DEF Ordered, MainInv, Threads, Reports, Loading, Unloading
  <2> QED  BY <1>1, <2>1, Alone, GoesOn
<1>3. /\ s \in {"PAUSED", "STOPPED"} => job'[a] = <<>>
      /\ s \notin {"PAUSED", "STOPPED"} => job'[a] # <<>> /\ Head(job'[a]) \in Successor(s)
                                           /\ LastStep(job'[a]) = LastStep(job[a])
  BY <1>1, <1>2, GoesOn, SuccessorIs DEF LastSteps, HandlerLast, Reports
<1>4. /\ s = "START_PENDING" => Head(job'[a]) = "RUNNING"
      /\ s = "RUNNING" => Head(job'[a]) = "open"
      /\ s \in {"PAUSE_PENDING", "STOP_PENDING"} => Head(job'[a]) = "finalize"
  BY <1>3, SuccessorIs
<1>5. LifeInv'
  BY <1>1, <1>2, GoesOn, LifeStep
<1>6. LiveInv'
  <2>1. Closed(job[a])' = {}
    BY <1>3, <1>4 DEF Closed, Reports
  <2> QED  BY <1>1, <1>2, <2>1, LiveBefore, LiveStep
<1>7. Holds(job["main"])' /\ Holds(job["handler"])'
  BY <1>1, <1>2, <1>3, <1>4, Alone DEF Holds, Reports
<1>8. MainInv' /\ StateInv'
  BY <1>1, <1>2, <1>3, Alone DEF MainInv, StateInv, Ordered, Holds, Reports
<1>9. LastStep(job[a]) # "STOP"
  BY <1>1, <1>2, Alone DEF Ordered, HandlerInv
<1>10. HandlerInv'
  BY <1>2, <1>3, <1>4, <1>9 DEF HandlerInv, Reports, Loading, Unloading
<1> QED  BY <1>5, <1>6, <1>7, <1>8, <1>10 DEF Ordered

\* ServiceStop, in a thread, finds the service running.
LEMMA QueryKeeps ==
    ASSUME TypeOK, Ordered, NEW a \in Threads, Query(a)
    PROVE  Ordered'
<1> USE DEF Query, ctxVars, pipeVars, scmVars, keyVars
<1>1. job[a] # <<>> /\ Head(job[a]) \in {"query_start", "query_pause", "query_continue", "query_stop"}
  OBVIOUS
<1>2. Head(job[a]) = "query_stop" /\ proc = "service"
  <2>1. Head(job[a]) = "query_stop"
    <3>1. Successor("query_start") = {} /\ Successor("query_pause") = {} /\ Successor("query_continue") = {}
      BY DEF Successor
    <3>2. Head(job[a]) # "query_stop" => Head(job[a]) \in LastSteps(a)
      BY <1>1, <3>1, Alone, FinalStep
    <3> QED  BY <1>1, <3>2 DEF LastSteps, MainLast, HandlerLast, ConsoleLast
  <2> QED  BY <1>1, <2>1, Alone DEF Ordered, MainInv, Threads, Loading, Unloading
<1>3. LastStep(job[a]) # "query_stop" /\ state \in {"START_PENDING", "RUNNING"} /\ installed # "no"
      /\ (a = "handler" /\ LastStep(job[a]) = "STOP" => state = "RUNNING" /\ "continueFailed" \in odd)
  <2>1. LastStep(job[a]) \in LastSteps(a)
    BY <1>1, Alone, TailInOrder
  <2>2. state \in {"START_PENDING", "RUNNING"}
    BY <1>1, <1>2, Alone DEF Ordered, MainInv, HandlerInv, Threads, Unloading
  <2> QED  BY <1>2, <2>1, <2>2 DEF LastSteps, MainLast, HandlerLast, Ordered, LifeInv, HandlerInv
<1>4. Continue(a)
  BY <1>2, <1>3 DEF Wanted
<1>5. job'[a] # <<>> /\ Head(job'[a]) = "finalize" /\ LastStep(job'[a]) = LastStep(job[a])
  BY <1>1, <1>2, <1>3, <1>4, GoesOn, SuccessorIs
<1>6. LifeInv'
  BY <1>1, <1>2, <1>4, GoesOn, LifeStep
<1>7. LiveInv'
  <2>1. Closed(job[a])' = {} /\ Closed(job[a]) = {}
    BY <1>1, <1>2, <1>5 DEF Closed
  <2> QED  BY <1>1, <1>4, <2>1, GoesOn, LiveBefore, LiveStep
<1>8. Holds(job["main"])' /\ Holds(job["handler"])'
  BY <1>1, <1>4, <1>5, GoesOn DEF Holds, Threads
<1>9. StateInv' /\ MainInv' /\ HandlerInv'
  BY <1>1, <1>2, <1>3, <1>4, <1>5, GoesOn, Alone
     DEF StateInv, MainInv, HandlerInv, Ordered, Threads, Loading, Unloading, Reports
<1> QED  BY <1>6, <1>7, <1>8, <1>9 DEF Ordered

\* A command that leaves the threads of the service alone.
LEMMA CommandStep ==
    ASSUME Ordered, job'["main"] = job["main"], job'["handler"] = job["handler"],
           UNCHANGED <<ctx, live, failed, proc, state>>, odd \subseteq odd', proc = "service" => installed' # "no"
    PROVE  Ordered'
<1>1. LifeInv'
  BY DEF Ordered, LifeInv, Threads, LastSteps
<1>2. LiveInv'
  BY DEF Ordered, LiveInv, Closed
<1>3. Holds(job["main"])' /\ Holds(job["handler"])'
  BY DEF Ordered, Holds
<1>4. StateInv' /\ MainInv' /\ HandlerInv'
  BY DEF Ordered, StateInv, MainInv, HandlerInv
<1> QED  BY <1>1, <1>2, <1>3, <1>4 DEF Ordered

\* The handler, idle so far, gets a control, and no other thread is at work.
LEMMA HandlerStarts ==
    ASSUME TypeOK, Ordered, NEW c \in {"STOP", "PAUSE", "CONTINUE"}, Accepts,
           job["handler"] = <<>>, job'["handler"] = ServiceCtrlHandler(c), job'["main"] = <<>>,
           job["main"] # <<>> => Head(job["main"]) = "STOP",
           c = "CONTINUE" => state = "PAUSED", UNCHANGED <<ctx, live, failed, proc, state, installed>>, odd \subseteq odd'
    PROVE  Ordered'
<1>1. PICK first, last :
         /\ Procedure(ServiceCtrlHandler(c), first, last) /\ last \in HandlerLast \ {"STOP"}
         /\ first \in {"PAUSE_PENDING", "STOP_PENDING"} \/ (c = "CONTINUE" /\ first = "START_PENDING")
  BY Procedures DEF HandlerLast
<1>2. /\ job'["handler"] # <<>> /\ Head(job'["handler"]) = first /\ LastStep(job'["handler"]) = last
      /\ InOrder(job'["handler"], HandlerLast)
  BY <1>1 DEF Procedure, InOrder
<1>3. proc = "service" /\ state \notin {"STOPPED", "STOP_PENDING", "START_PENDING"}
  BY DEF Accepts
<1>4. LifeInv'
  <2>1. \A last2 : InOrder(<<>>, last2)
    BY DEF InOrder
  <2>2. \A b \in Threads : InOrder(job[b], LastSteps(b))'
    BY <1>2, <2>1 DEF Threads, LastSteps
  <2> QED  BY <1>3, <2>2 DEF Ordered, LifeInv
<1>5. LiveInv'
  <2>1. Closed(job["main"]) = {} /\ Closed(job["handler"]) = {}
    BY DEF Closed
  <2>2. Closed(job["main"])' = {} /\ Closed(job["handler"])' = {}
    BY <1>1, <1>2 DEF Closed
  <2> QED  BY <2>1, <2>2 DEF Ordered, LiveInv
<1>6. Holds(job["main"])' /\ Holds(job["handler"])'
  BY <1>1, <1>2, <1>3 DEF Holds, Ordered, StateInv
<1>7. StateInv' /\ MainInv' /\ HandlerInv'
  BY <1>1, <1>2, <1>3 DEF StateInv, MainInv, HandlerInv, Ordered, Loading, Unloading, HandlerLast
<1> QED  BY <1>4, <1>5, <1>6, <1>7 DEF Ordered

\* The STOP of ServiceStop in a thread: ServiceMain hands it to the handler or finds that the
\* service has not reported RUNNING, the handler cannot reach itself.
LEMMA ThreadControlKeeps ==
    ASSUME TypeOK, Ordered, NEW a \in Threads, Control(a, "STOP")
    PROVE  Ordered'
<1> USE DEF Control, ctxVars, pipeVars, scmVars, keyVars
<1>1. job[a] # <<>> /\ Head(job[a]) = "STOP" /\ LastStep(job[a]) = "STOP" /\ ctx = {}
  <2>1. job[a] # <<>> /\ Head(job[a]) = "STOP"
    BY DEF At
  <2> QED  BY <2>1, Alone, FinalStep, SuccessorIs DEF Holds
<1>2. Tail(job[a]) = <<>>
  BY <1>1, Alone, TailInOrder, SuccessorIs
<1>3. a = "main" => proc = "service"
  BY <1>1 DEF Ordered, MainInv, Loading, Unloading
<1>4. CASE Accepts /\ job["handler"] = <<>>
  <2>1. a = "main"
    BY <1>1, <1>4 DEF Threads
  <2>2. job' = [job EXCEPT ![a] = Tail(@), !["handler"] = ServiceCtrlHandler("STOP")] /\ odd \subseteq odd'
    BY <1>4
  <2>3. job'["main"] = <<>> /\ job'["handler"] = ServiceCtrlHandler("STOP")
    BY <1>2, <2>1, <2>2 DEF TypeOK, Actors, Threads
  <2> QED  BY <1>1, <1>4, <2>1, <2>2, <2>3, HandlerStarts
<1>5. CASE ~Accepts \/ job["handler"] # <<>>
  <2>1. job' = [job EXCEPT ![a] = <<>>] /\ odd \subseteq odd'
    BY <1>1, <1>5 DEF LastStep, StopEnds, Instead
  <2>2. job'["main"] = <<>> /\ job'["handler"] = <<>> /\ job'[a] = <<>>
    BY <1>1, <2>1, Alone DEF TypeOK, Actors, Threads
  <2>3. state # "RUNNING" \/ "continueFailed" \in odd
    BY <1>1, <1>3, <1>5, Alone DEF Ordered, HandlerInv, MainInv, Threads, Accepts
  <2>4. LifeInv'
    <3>1. InOrder(job'[a], LastSteps(a))
      BY <2>2 DEF InOrder
    <3> QED  BY <1>1, <2>2, <3>1, LifeStep
  <2>5. LiveInv'
    <3>1. Closed(job[a]) = {} /\ Closed(job[a])' = {}
      BY <1>1, <2>2 DEF Closed
    <3> QED  BY <1>1, <2>2, <3>1, LiveBefore, LiveStep
  <2>6. Holds(job["main"])' /\ Holds(job["handler"])'
    BY <2>2 DEF Holds
  <2>7. StateInv' /\ MainInv' /\ HandlerInv'
    BY <1>1, <2>1, <2>2, <2>3 DEF StateInv, MainInv, HandlerInv
  <2> QED  BY <2>4, <2>5, <2>6, <2>7 DEF Ordered
<1> QED  BY <1>4, <1>5

-----------------------------------------------------------------------------
(* The steps of ServiceMain and of the console, the ends of the process.   *)

LEMMA RegisterKeeps ==
    ASSUME TypeOK, Ordered, register
    PROVE  Ordered'
<1> USE DEF register, ctxVars, pipeVars, scmVars, keyVars
<1>a. "main" \in Threads
  BY DEF Threads
<1>1. /\ job["main"] # <<>> /\ Head(job["main"]) = "register" /\ ctx = {} /\ Closed(job["main"]) = {}
      /\ proc = "service" /\ state = "START_PENDING"
  <2>1. job["main"] # <<>> /\ Head(job["main"]) = "register" /\ ctx = {}
    BY <1>a, Alone DEF At, Holds
  <2> QED  BY <2>1 DEF Ordered, MainInv, Closed, Loading, Unloading
<1>2. /\ InOrder(job'["main"], LastSteps("main")) /\ job'["handler"] = <<>>
      /\ job'["main"] # <<>> /\ Head(job'["main"]) \in {"init", "query_stop"}
  <2>1. CASE Continue("main")
    BY <1>a, <1>1, <2>1, GoesOn, SuccessorIs DEF LastSteps, MainLast
  <2>2. CASE Instead("main", ServiceStop("main"))
    <3>1. "STOP" \in LastSteps("main")
      BY <1>1 DEF LastSteps, MainLast
    <3> QED  BY <1>a, <1>1, <2>2, <3>1, Procedures, DoesInstead
  <2> QED  BY <2>1, <2>2
<1>3. LifeInv'
  BY <1>a, <1>1, <1>2, LifeStep
<1>4. LiveInv'
  <2>1. Closed(job["main"])' = {}
    BY <1>2 DEF Closed
  <2> QED  BY <1>a, <1>1, <1>2, <2>1, LiveBefore, LiveStep
<1>5. Holds(job["main"])' /\ Holds(job["handler"])'
  BY <1>1, <1>2 DEF Holds
<1>6. StateInv' /\ MainInv' /\ HandlerInv'
  BY <1>1, <1>2 DEF StateInv, MainInv, HandlerInv, Loading, Unloading, Reports
<1> QED  BY <1>3, <1>4, <1>5, <1>6 DEF Ordered

\* ServiceInit reports RUNNING before anything is loaded.
LEMMA ServiceInitKeeps ==
    ASSUME TypeOK, Ordered, ServiceInit, ~Unordered'
    PROVE  Ordered'
<1> USE DEF ServiceInit, ctxVars
<1>a. "main" \in Threads
  BY DEF Threads
<1>1. /\ job["main"] # <<>> /\ Head(job["main"]) = "init" /\ ctx = {} /\ Closed(job["main"]) = {}
      /\ proc = "service" /\ state' = "RUNNING"
  <2>1. job["main"] # <<>> /\ Head(job["main"]) = "init" /\ ctx = {}
    BY <1>a, Alone DEF At, Holds
  <2> QED  BY <2>1 DEF Ordered, MainInv, Closed, Loading, Unloading, Unordered
<1>2. /\ InOrder(job'["main"], LastSteps("main")) /\ job'["handler"] = <<>>
      /\ job'["main"] # <<>> /\ Head(job'["main"]) = "open"
  BY <1>a, <1>1, GoesOn, SuccessorIs DEF LastSteps, MainLast
<1>3. LifeInv'
  BY <1>a, <1>1, <1>2, LifeStep
<1>4. LiveInv'
  <2>1. Closed(job["main"])' = {}
    BY <1>2 DEF Closed
  <2> QED  BY <1>a, <1>1, <1>2, <2>1, LiveBefore, LiveStep
<1>5. Holds(job["main"])' /\ Holds(job["handler"])'
  BY <1>1, <1>2 DEF Holds
<1>6. StateInv' /\ MainInv' /\ HandlerInv'
  BY <1>1, <1>2 DEF StateInv, MainInv, HandlerInv, Loading, Unloading, Reports
<1> QED  BY <1>3, <1>4, <1>5, <1>6 DEF Ordered

\* A key stroke: q and p unload, c loads, which is Unordered unless nothing is loaded.
LEMMA GetcharKeeps ==
    ASSUME TypeOK, Ordered, getchar, ~Unordered'
    PROVE  Ordered'
<1> USE DEF getchar, ctxVars, pipeVars, scmVars, keyVars
<1>a. "main" \in Threads
  BY DEF Threads
<1>1. /\ job["main"] # <<>> /\ Head(job["main"]) \in {"first", "getchar"} /\ Closed(job["main"]) = {}
      /\ Successor(Head(job["main"])) = {}
  BY SuccessorIs DEF At, Closed
<1>2. proc = "console" /\ state = "STOPPED"
  <2>1. Head(job["main"]) \in LastSteps("main") /\ proc # "none"
    BY <1>a, <1>1, Alone, FinalStep
  <2> QED  BY <2>1, <1>1 DEF LastSteps, MainLast, TypeOK, Ordered, LifeInv
<1>3. PICK p, first, last :
         /\ Instead("main", p) /\ Procedure(p, first, last) /\ last \in ConsoleLast
         /\ first = "finalize" \/ (first = "open" /\ ctx = {})
  <2>1. CASE Instead("main", ServiceUnloadProcedure)
    BY <2>1, Procedures DEF ConsoleLast
  <2>2. CASE \/ Instead("main", ServiceUnloadProcedure \o <<"getchar">>)
             \/ Instead("main", ServiceUnloadProcedure \o ServiceUnloadProcedure)
    BY <2>2, Procedures DEF ConsoleLast
  <2>3. CASE Instead("main", ServiceLoadProcedure \o <<"getchar">>) /\ odd' = IF ctx # {} THEN odd \cup {"lateContinue"} ELSE odd
    <3>1. ctx = {}
      BY <2>3 DEF Unordered
    <3> QED  BY <2>3, <3>1, Procedures DEF ConsoleLast
  <2> QED  BY <2>1, <2>2, <2>3
<1>4. last \in LastSteps("main")
  BY <1>2, <1>3 DEF LastSteps
<1>5. /\ InOrder(job'["main"], LastSteps("main")) /\ job'["handler"] = <<>>
      /\ job'["main"] # <<>> /\ Head(job'["main"]) = first
  BY <1>a, <1>1, <1>3, <1>4, DoesInstead
<1>6. LifeInv'
  BY <1>a, <1>1, <1>5, LifeStep
<1>7. LiveInv'
  <2>1. Closed(job["main"])' = {}
    BY <1>3, <1>5 DEF Closed
  <2> QED  BY <1>a, <1>1, <1>5, <2>1, LiveBefore, LiveStep
<1>8. Holds(job["main"])' /\ Holds(job["handler"])'
  BY <1>3, <1>5 DEF Holds
<1>9. StateInv' /\ MainInv' /\ HandlerInv'
  BY <1>2, <1>3, <1>5 DEF StateInv, MainInv, HandlerInv, Loading, Unloading
<1> QED  BY <1>6, <1>7, <1>8, <1>9 DEF Ordered

\* A process that ends, with no thread at work, has nothing left.
LEMMA NothingLeft ==
    ASSUME TypeOK, Ordered, job["main"] = <<>>, job["handler"] = <<>>, ctx = {}
    PROVE  live = Nothing
<1>1. \A r \in {"engine", "port", "listener"} : live[r] = 0
  BY DEF Ordered, LiveInv
<1>2. Nothing \in [{"engine", "port", "listener"} -> Int] /\ \A r \in {"engine", "port", "listener"} : Nothing[r] = 0
  BY DEF Nothing
<1> QED  BY <1>1, <1>2 DEF TypeOK

\* The state after the process ended.
LEMMA EndOrdered ==
    ASSUME Ordered, proc' = "none", job'["main"] = <<>>, job'["handler"] = <<>>, ctx' = {}, live' = Nothing,
           state' = "STOPPED"
    PROVE  Ordered'
<1>1. LifeInv'
  <2>1. \A last : InOrder(<<>>, last)
    BY DEF InOrder
  <2>2. \A a \in Threads : InOrder(job[a], LastSteps(a))'
    BY <2>1 DEF Threads
  <2> QED  BY <2>2 DEF LifeInv
<1>2. LiveInv'
  BY DEF LiveInv, Nothing
<1> QED  BY <1>1, <1>2 DEF Ordered, Holds, StateInv, MainInv, HandlerInv

LEMMA ExitsClean ==
    ASSUME TypeOK, Ordered, Exit
    PROVE  Ordered' /\ odd' = odd
<1>1. job["main"] = <<>> /\ ctx = {}
  BY DEF Ordered, StateInv, Exit
<1>2. live = Nothing
  BY <1>1, NothingLeft DEF Exit
<1>3. job'["main"] = <<>> /\ job'["handler"] = <<>>
  BY DEF TypeOK, Actors, Threads, Exit
<1> QED  BY <1>2, <1>3, EndOrdered DEF Exit, ProcessEnds

LEMMA ConsoleEndsClean ==
    ASSUME TypeOK, Ordered, ConsoleEnds
    PROVE  Ordered' /\ odd' = odd
<1> USE DEF ConsoleEnds, ProcessEnds
<1>1. job["main"] = <<>> /\ ctx = {} /\ job["handler"] = <<>> /\ state = "STOPPED"
  BY DEF Ordered, LifeInv
<1>2. live = Nothing
  BY <1>1, NothingLeft
<1> QED  BY <1>1, <1>2, EndOrdered

-----------------------------------------------------------------------------
(* Commands.                                                               *)

\* The steps of a caller are not those of a thread.
LEMMA CallerJob ==
    ASSUME TypeOK, NEW a \in Callers
    PROVE  /\ "main" \in DOMAIN job /\ "handler" \in DOMAIN job /\ a \in DOMAIN job
           /\ a # "main" /\ a # "handler"
BY CallersAssumption DEF TypeOK, Actors, Threads

\* A process that begins, with the steps p of its first thread.
LEMMA ProcessBegins ==
    ASSUME TypeOK, Ordered, proc = "none", job'["handler"] = job["handler"], UNCHANGED <<ctx, live, failed>>,
           \/ proc' = "service" /\ installed' # "no" /\ state' = "START_PENDING" /\ job'["main"] = ServiceMain
           \/ proc' = "console" /\ state' = state /\ job'["main"] = LaunchCmdLineService
    PROVE  Ordered'
<1>1. job["main"] = <<>> /\ job["handler"] = <<>> /\ ctx = {} /\ state = "STOPPED"
  BY DEF Ordered, LifeInv
<1>2. /\ InOrder(job'["main"], LastSteps("main")') /\ job'["main"] # <<>>
      /\ Head(job'["main"]) = IF proc' = "service" THEN "register" ELSE "open"
  BY Procedures DEF Procedure, InOrder, LastSteps, MainLast, ConsoleLast
<1>3. InOrder(job'["handler"], LastSteps("handler")')
  BY <1>1 DEF InOrder
<1>4. LifeInv'
  <2>1. \A a \in Threads : InOrder(job[a], LastSteps(a))'
    BY <1>2, <1>3 DEF Threads
  <2> QED  BY <1>1, <1>2, <2>1 DEF LifeInv
<1>5. LiveInv'
  <2>1. Closed(job["main"])' = {} /\ Closed(job["handler"])' = {}
    BY <1>1, <1>2 DEF Closed
  <2>2. Closed(job["main"]) = {} /\ Closed(job["handler"]) = {}
    BY <1>1 DEF Closed
  <2> QED  BY <2>1, <2>2 DEF Ordered, LiveInv
<1>6. Holds(job["main"])' /\ Holds(job["handler"])'
  BY <1>1, <1>2 DEF Holds
<1>7. StateInv' /\ MainInv' /\ HandlerInv'
  BY <1>1, <1>2 DEF StateInv, MainInv, HandlerInv, Loading, Unloading, Reports
<1> QED  BY <1>4, <1>5, <1>6, <1>7 DEF Ordered

LEMMA CallerControlKeeps ==
    ASSUME TypeOK, Ordered, NEW a \in Callers, NEW c \in {"STOP", "PAUSE", "CONTINUE"}, Control(a, c), ~Unordered'
    PROVE  Ordered'
<1> USE DEF Control, ctxVars, pipeVars, scmVars, keyVars
<1>1. CASE /\ Accepts /\ job["handler"] = <<>>
           /\ job' = [job EXCEPT ![a] = Tail(@), !["handler"] = ServiceCtrlHandler(c)]
           /\ odd' = odd \cup (IF a # "main" /\ job["main"] # <<>> THEN {"earlyControl"} ELSE {})
                         \cup (IF c = "CONTINUE" /\ state # "PAUSED" THEN {"lateContinue"} ELSE {})
  <2>1. job["main"] = <<>> /\ (c = "CONTINUE" => state = "PAUSED") /\ odd \subseteq odd'
    BY <1>1, CallerJob DEF Unordered, Threads
  <2>2. job'["main"] = <<>> /\ job'["handler"] = ServiceCtrlHandler(c)
    BY <1>1, <2>1, CallerJob
  <2> QED  BY <1>1, <2>1, <2>2, HandlerStarts
<1>2. CASE /\ ~Accepts \/ job["handler"] # <<>>
           /\ StopEnds(a)
           /\ odd' = IF a \in Threads THEN odd \cup {"stopRefused"} ELSE odd
  <2>1. job'["main"] = job["main"] /\ job'["handler"] = job["handler"]
    BY <1>2, CallerJob DEF StopEnds, Instead
  <2> QED  BY <1>2, <2>1, CommandStep DEF Ordered, LifeInv
<1> QED  BY <1>1, <1>2

LEMMA CallerOrdered ==
    ASSUME TypeOK, Ordered, NEW a \in Callers, Caller(a) \/ Killed(a) \/ main(a), ~Unordered'
    PROVE  Ordered'
<1> USE DEF ctxVars, pipeVars, scmVars, keyVars
<1>0. proc = "service" => installed # "no"
  BY DEF Ordered, LifeInv
<1>1. CASE Query(a)
  <2>1. job'["main"] = job["main"] /\ job'["handler"] = job["handler"]
    BY <1>1, CallerJob DEF Query, Continue, StopEnds, Instead
  <2> QED  BY <1>0, <1>1, <2>1, CommandStep DEF Query
<1>2. CASE StartService(a)
  <2>1. CASE Return(a) /\ UNCHANGED <<proc, state>>
    <3>1. job'["main"] = job["main"] /\ job'["handler"] = job["handler"]
      BY <2>1, CallerJob DEF Return, Instead
    <3> QED  BY <1>0, <1>2, <2>1, <3>1, CommandStep DEF StartService
  <2>2. CASE /\ proc = "none" /\ installed = "yes" /\ proc' = "service" /\ state' = "START_PENDING"
             /\ job' = [job EXCEPT ![a] = Tail(@), !["main"] = ServiceMain]
    <3>1. job'["main"] = ServiceMain /\ job'["handler"] = job["handler"]
      BY <2>2, CallerJob
    <3> QED  BY <1>2, <2>2, <3>1, ProcessBegins DEF StartService
  <2> QED  BY <1>2, <2>1, <2>2 DEF StartService
<1>3. CASE ServiceInstall(a) \/ InstallKeys(a) \/ RemoveKeys(a) \/ Killed(a)
  <2>1. job'["main"] = job["main"] /\ job'["handler"] = job["handler"]
    BY <1>3, CallerJob DEF ServiceInstall, InstallKeys, RemoveKeys, Killed, Return, Instead, Continue
  <2> QED  BY <1>0, <1>3, <2>1, CommandStep DEF ServiceInstall, InstallKeys, RemoveKeys, Killed
<1>4. CASE ServiceRemove(a)
  <2>1. job'["main"] = job["main"] /\ job'["handler"] = job["handler"]
    BY <1>4, CallerJob DEF ServiceRemove, Return, Instead
  <2> QED  BY <1>0, <1>4, <2>1, CommandStep DEF ServiceRemove
<1>5. CASE DeleteService(a)
  <2>1. job'["main"] = job["main"] /\ job'["handler"] = job["handler"]
    BY <1>5, CallerJob DEF DeleteService, Return, Instead, Continue
  <2> QED  BY <1>0, <1>5, <2>1, CommandStep DEF DeleteService
<1>6. CASE main(a)
  <2>1. CASE proc = "none" /\ proc' = "console" /\ job' = [job EXCEPT !["main"] = LaunchCmdLineService]
    <3>1. job'["main"] = LaunchCmdLineService /\ job'["handler"] = job["handler"]
      BY <2>1 DEF TypeOK, Actors, Threads
    <3> QED  BY <1>6, <2>1, <3>1, ProcessBegins DEF main
  <2>2. ASSUME NEW p, Instead(a, p), UNCHANGED proc PROVE Ordered'
    <3>1. job'["main"] = job["main"] /\ job'["handler"] = job["handler"]
      BY <2>2, CallerJob DEF Instead
    <3> QED  BY <1>0, <1>6, <2>2, <3>1, CommandStep DEF main
  <2> QED  BY <1>6, <2>1, <2>2 DEF main
<1> QED  BY <1>1, <1>2, <1>3, <1>4, <1>5, <1>6, CallerControlKeeps DEF Caller

-----------------------------------------------------------------------------
(* The inductive invariant.                                                *)

LEMMA InitIInv ==
    ASSUME Init
    PROVE  IInv
<1> USE DEF Init
<1>3. TypeOK
  BY InitType
<1>4. /\ InOrder(job["main"], LastSteps("main")) /\ job["handler"] = <<>>
      /\ job["main"] = <<>> \/ (job["main"] # <<>> /\ Head(job["main"]) = "register" /\ proc = "service")
  <2>1. "main" \in Actors /\ "handler" \in Actors
    BY DEF Actors, Threads
  <2>2. CASE job = [a \in Actors |-> <<>>]
    BY <2>1, <2>2 DEF InOrder
  <2>3. CASE proc = "service" /\ job = [a \in Actors |-> IF a = "main" THEN ServiceMain ELSE <<>>]
    <3>1. job["main"] = ServiceMain /\ job["handler"] = <<>>
      BY <2>1, <2>3
    <3>2. Procedure(job["main"], "register", "start_pipe")
      BY <3>1, Procedures
    <3>3. "start_pipe" \in LastSteps("main")
      BY <2>3 DEF LastSteps, MainLast
    <3> HIDE DEF Init
    <3> QED  BY <2>3, <3>1, <3>2, <3>3 DEF Procedure, InOrder
  <2> QED  BY <2>2, <2>3
<1>5. LifeInv
  <2>1. InOrder(job["handler"], LastSteps("handler"))
    BY <1>4 DEF InOrder
  <2> QED  BY <1>4, <2>1 DEF LifeInv, Threads
<1>6. LiveInv
  BY DEF LiveInv, Nothing
<1>7. Holds(job["main"]) /\ Holds(job["handler"])
  BY <1>4 DEF Holds
<1>8. StateInv /\ MainInv /\ HandlerInv
  BY <1>4 DEF StateInv, MainInv, HandlerInv, Loading, Unloading, Reports
<1>9. CleanExit /\ PipeInv
  BY DEF CleanExit, PipeInv, InstancesServed, Nothing
<1> QED  BY <1>3, <1>5, <1>6, <1>7, <1>8, <1>9 DEF IInv, Ordered

\* What happened stays known; only the end of a process may be unclean.
LEMMA OddGrows ==
    ASSUME [Next]_vars
    PROVE  odd \subseteq odd' /\ (Exit \/ ConsoleEnds \/ ("unclean" \in odd' => "unclean" \in odd))
<1>1. ASSUME NEW a \in Threads, Thread(a) PROVE odd \subseteq odd' /\ ("unclean" \in odd' => "unclean" \in odd)
  <2>1. CASE Load(a)
    BY <2>1 DEF Load, open, connect, start_pipe, LoadFails
  <2>2. CASE Unload(a)
    BY <2>2 DEF Unload, Close, Close_IHM_Connection, Hang
  <2>3. CASE \E s \in Reports : ReportSvcStatus(a, s)
    BY <2>3 DEF ReportSvcStatus
  <2>4. CASE Query(a) \/ Control(a, "STOP")
    BY <2>4 DEF Query, Control
  <2> QED  BY <1>1, <2>1, <2>2, <2>3, <2>4 DEF Thread, Reports
<1>2. ASSUME NEW a \in Callers, Caller(a) \/ Killed(a) \/ main(a)
      PROVE  odd \subseteq odd' /\ ("unclean" \in odd' => "unclean" \in odd)
  BY <1>2 DEF Caller, main, Query, Control, StartService, ServiceInstall, InstallKeys, ServiceRemove,
              DeleteService, RemoveKeys, Killed
<1>3. CASE register \/ ServiceInit \/ getchar \/ MainThreadWork \/ ServiceForgotten \/ UNCHANGED vars
  BY <1>3 DEF register, ServiceInit, getchar, MainThreadWork, ServiceForgotten, vars
<1>4. CASE Exit \/ ConsoleEnds
  BY <1>4 DEF Exit, ConsoleEnds, ProcessEnds
<1> QED  BY <1>1, <1>2, <1>3, <1>4 DEF Next

\* The listener's own steps, beside whatever thread is at work.
LEMMA ListenerKeeps ==
    ASSUME TypeOK, PipeInv, Ordered, MainThreadWork
    PROVE  Ordered'
<1> USE DEF MainThreadWork, ListenerFails, ctxVars, scmVars
<1>1. \/ UNCHANGED <<ctx, live, failed>>
      \/ /\ live.listener > 0 /\ ctx' = ctx \ {"listener"} /\ failed' = TRUE
         /\ live' = [live EXCEPT !.listener = @ - 1]
  BY DEF TypeOK, PipeInv
<1>2. CASE UNCHANGED <<ctx, live, failed>>
  BY <1>2, CommandStep DEF Ordered, LifeInv
<1>3. CASE /\ live.listener > 0 /\ ctx' = ctx \ {"listener"} /\ failed' = TRUE
           /\ live' = [live EXCEPT !.listener = @ - 1]
  <2>1. LifeInv'
    <3>1. \A b : LastSteps(b)' = LastSteps(b)
      BY DEF LastSteps
    <3> QED  BY <1>3, <3>1 DEF Ordered, LifeInv, InOrder
  <2>2. LiveInv'
    <3>1. \A p : Closed(p)' = Closed(p) /\ "listener" \notin Closed(p)
      BY DEF Closed
    <3>2. live["listener"] = 1
      BY <1>3 DEF Ordered, LiveInv
    <3> QED  BY <1>3, <3>1, <3>2 DEF Ordered, LiveInv, TypeOK
  <2>3. Holds(job["main"])' /\ Holds(job["handler"])'
    BY <1>3 DEF Ordered, Holds
  <2>4. StateInv' /\ MainInv' /\ HandlerInv'
    BY <1>3 DEF Ordered, StateInv, MainInv, HandlerInv
  <2> QED  BY <2>1, <2>2, <2>3, <2>4 DEF Ordered
<1> QED  BY <1>1, <1>2, <1>3

LEMMA ForgottenKeeps ==
    ASSUME TypeOK, Ordered, ServiceForgotten
    PROVE  Ordered'
BY CommandStep DEF ServiceForgotten, ctxVars, pipeVars

\* A listener is counted as opening until it has its instance, and no step takes an instance
\* away from a listener that goes on.
LEMMA NextPipes ==
    ASSUME TypeOK, PipeInv, [Next]_vars
    PROVE  PipeInv'
<1> USE DEF PipeInv, InstancesServed, TypeOK
<1>0. ASSUME UNCHANGED <<opening, instances>>, live'.listener = live.listener PROVE PipeInv'
  BY <1>0
<1>1. ASSUME NEW a \in Threads, Thread(a) PROVE PipeInv'
  <2>1. CASE open(a) \/ connect(a)
    BY <2>1 DEF open, connect, ctxVars, pipeVars
  <2>2. CASE start_pipe(a)
    BY <2>2 DEF start_pipe
  <2>3. CASE Close(a, "finalize", "port") \/ Close(a, "close_engine", "engine")
    BY <2>3 DEF Close, pipeVars
  <2>4. CASE Close_IHM_Connection(a)
    BY <2>4 DEF Close_IHM_Connection, ctxVars
  <2>5. CASE Hang(a) \/ (\E x \in Reports : ReportSvcStatus(a, x)) \/ Query(a) \/ Control(a, "STOP")
    BY <2>5, <1>0 DEF Hang, ReportSvcStatus, Query, Control, ctxVars, pipeVars
  <2> QED  BY <1>1, <2>1, <2>2, <2>3, <2>4, <2>5 DEF Thread, Load, Unload, Reports
<1>2. ASSUME NEW a \in Callers, Caller(a) \/ Killed(a) \/ main(a) PROVE PipeInv'
  BY <1>0, <1>2 DEF Caller, main, Query, Control, StartService, ServiceInstall, InstallKeys, ServiceRemove,
              DeleteService, RemoveKeys, Killed, ctxVars, pipeVars
<1>3. CASE register \/ ServiceInit \/ getchar \/ ServiceForgotten \/ UNCHANGED vars
  BY <1>0, <1>3 DEF register, ServiceInit, getchar, ServiceForgotten, vars, ctxVars, pipeVars
<1>4. CASE Exit \/ ConsoleEnds
  BY <1>4 DEF Exit, ConsoleEnds, ProcessEnds, Nothing
<1>5. CASE MainThreadWork
  BY <1>5 DEF MainThreadWork, ListenerFails, ctxVars
<1> QED  BY <1>1, <1>2, <1>3, <1>4, <1>5 DEF Next

LEMMA NextIInv ==
    ASSUME IInv, [Next]_vars
    PROVE  IInv'
<1>1. TypeOK /\ TypeOK'
  BY NextType DEF IInv
<1>p. PipeInv /\ PipeInv'
  BY NextPipes DEF IInv
<1>2. SUFFICES ASSUME ~Unordered' PROVE Ordered' /\ CleanExit'
  BY <1>1, <1>p DEF IInv
<1>3. Ordered /\ CleanExit /\ ~Unordered
  BY <1>2, OddGrows DEF IInv, Unordered
<1>4. ASSUME NEW a \in Threads, Thread(a) PROVE Ordered'
  BY <1>1, <1>3, <1>4, LoadKeeps, CloseKeeps, HangKeeps, ReportKeeps, QueryKeeps, ThreadControlKeeps
     DEF Thread, Unload, Reports
<1>5. CASE Exit \/ ConsoleEnds
  BY <1>1, <1>3, <1>5, ExitsClean, ConsoleEndsClean DEF CleanExit, Unordered
<1>6. CASE UNCHANGED vars
  BY <1>3, <1>6, CommandStep DEF vars, ctxVars, pipeVars, scmVars, Ordered, LifeInv, CleanExit, Unordered
<1>7. ~(Exit \/ ConsoleEnds) => CleanExit'
  BY <1>3, OddGrows DEF CleanExit
<1>8. Ordered'
  BY <1>1, <1>2, <1>3, <1>p, <1>4, <1>5, <1>6, RegisterKeeps, ServiceInitKeeps, GetcharKeeps, CallerOrdered,
     ListenerKeeps, ForgottenKeeps DEF Next
<1> QED  BY <1>5, <1>7, <1>8

LEMMA IInvLoaded ==
    ASSUME IInv
    PROVE  LoadedFitsState
<1>1. TypeOK /\ CleanExit
  BY DEF IInv, CleanExit
<1>2. ASSUME ~Unordered, state = "PAUSED" PROVE live = Nothing
  <2>1. ctx = {}
    BY <1>2 DEF IInv, Ordered, LifeInv, StateInv
  <2>2. \A r \in {"engine", "port", "listener"} : live[r] = 0
    BY <1>2, <2>1 DEF IInv, Ordered, LiveInv
  <2>3. Nothing \in [{"engine", "port", "listener"} -> Int] /\ \A r \in {"engine", "port", "listener"} : Nothing[r] = 0
    BY DEF Nothing
  <2> QED  BY <1>1, <2>2, <2>3 DEF TypeOK
<1>3. ASSUME ~Unordered PROVE \A r \in DOMAIN live : live[r] \in 0..1
  <2>1. DOMAIN live = {"engine", "port", "listener"}
    BY <1>1 DEF TypeOK
  <2>2. \A r \in {"engine", "port", "listener"} : live[r] \in {0, 1}
    BY <1>3 DEF IInv, Ordered, LiveInv
  <2> QED  BY <2>1, <2>2
<1>4. RunningIsLoaded
  <2> SUFFICES ASSUME proc = "service", state = "RUNNING", job["main"] = <<>>, job["handler"] = <<>>,
                      ~Unordered, "continueFailed" \notin odd
               PROVE  {"engine", "pipe"} \subseteq ctx /\ live.engine = 1 /\ (live.listener = 1 \/ failed)
    BY DEF RunningIsLoaded
  <2>1. {"engine", "pipe"} \subseteq ctx /\ ("listener" \in ctx \/ failed)
    BY DEF IInv, Ordered, StateInv
  <2>2. Closed(job["main"]) = {} /\ Closed(job["handler"]) = {}
    BY DEF Closed
  <2>3. live["engine"] = 1 /\ ("listener" \in ctx => live["listener"] = 1)
    BY <2>1, <2>2 DEF IInv, Ordered, LiveInv
  <2> QED  BY <2>1, <2>3
<1>5. InstancesServed
  BY DEF IInv, PipeInv
<1> QED  BY <1>1, <1>2, <1>3, <1>4, <1>5 DEF LoadedFitsState, PausedIsUnloaded, AtMostOne

\* However load, pause, resume, stop, the console's keys, the listener and the end of the
\* process interleave with commands of any number of callers, and whichever load fails half way:
\* a paused service has neither engine nor driver port nor listener, there is never a second one
\* of each and none is closed twice, a service that says RUNNING with no thread at work has its
\* engine, and its listener unless that failed by itself, each listener that waits for clients
\* has a pipe instance of its own, and the process ends with all of them closed.  Excepted are
\* the orders that the code leaves open (Unordered) and a resume that failed.
THEOREM LoadedFits == Spec => []LoadedFitsState
<1>1. Init => IInv
  BY InitIInv
<1>2. IInv /\ [Next]_vars => IInv'
  BY NextIInv
<1>3. IInv => LoadedFitsState
  BY IInvLoaded
<1> QED  BY <1>1, <1>2, <1>3, PTL DEF Spec

==============================================================================
