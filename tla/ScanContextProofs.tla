-------------------------- MODULE ScanContextProofs --------------------------
(***************************************************************************)
(* Proofs about ScanContext, for any number of modules and whatever they   *)
(* return.                                                                 *)
(***************************************************************************)
EXTENDS ScanContext, TLAPS

\* Nothing has happened before a6o_scan_context_get.
BeforeGet ==
    pc = "get" =>
        /\ closed = 0 /\ report.status = "UNDECIDED" /\ current = "UNDECIDED"
        /\ next = 1 /\ ~seekFailed
        /\ \A k \in Modules : calls[k] = "none"

\* What a6o_scan_context_get left in the context.
ContextInv ==
    /\ pc # "get" => ctx.status = get_status
    /\ pc \in {"scan", "report", "destroy", "abort"} => ctx.fd = get_fd /\ closed = 0
    /\ pc \in {"scan", "abort"} => ctx.status = "MUST_SCAN"

\* A module that was called is a good one, no later than the loop, and nothing is
\* called for a file that is not scanned.
CallsInv ==
    \A k \in Modules : calls[k] # "none" =>
        /\ ok[k] /\ k <= in.nmods /\ ctx.status = "MUST_SCAN" /\ calls[k] \in ModuleResults
        /\ k <= next /\ (pc = "scan" => k < next)

\* What the loop knows while it runs, and what it leaves behind.
LoopInv ==
    /\ pc = "scan" => current \notin Authoritative /\ report.status = current
                      /\ ~seekFailed
    /\ (pc = "scan" \/ (Finished /\ ~seekFailed /\ current \notin Authoritative)) =>
           \A k \in Modules : (k < next /\ ok[k]) => calls[k] # "none"
    /\ (Finished /\ ~seekFailed /\ current \notin Authoritative) => next > in.nmods
    /\ (Finished /\ ~seekFailed) => report.status = current
    /\ (pc \in {"scan", "report", "destroy", "done"} /\ ~seekFailed /\ current # "UNDECIDED") =>
           report.module \in Modules /\ calls[report.module] = current

\* An authoritative verdict was the last one, and it is the current one.
AuthorityInv ==
    \A j \in Modules : calls[j] \in Authoritative /\ pc # "abort" =>
        /\ pc # "scan" /\ current = calls[j] /\ report.status = calls[j]
        /\ \A k \in Modules : calls[k] # "none" => k <= j

\* A file with a MALWARE verdict has been or will be reported.
ReportedInv ==
    (pc \in {"destroy", "done"} /\ in.path /\ \E k \in Modules : calls[k] = "MALWARE") => detection

\* The descriptor at the end.
ClosedInv ==
    pc = "done" =>
        \/ ctx.fd = "garbage"
        \/ closed = IF fdGiven \/ (~in.whiteListed /\ in.opens) THEN 1 ELSE 0

\* An abort happens only in the comparison, with no authoritative verdict before it.
AbortInv ==
    pc = "abort" => \A j, k \in Modules : (j < k /\ calls[k] # "none") => calls[j] \notin Authoritative

IInv == /\ TypeOK /\ BeforeGet /\ ContextInv /\ CallsInv /\ LoopInv /\ AuthorityInv
        /\ ReportedInv /\ ClosedInv /\ AbortInv

\* With ranked results only, no verdict was worse than the current one.
WorstInv ==
    (AllRanked /\ ~seekFailed) =>
        /\ current \in RankedStatus
        /\ \A k \in Modules : calls[k] # "none" => Rank(calls[k]) <= Rank(current)

\* The order of the comparison is the order of the ranks, for the verdicts it knows.
LEMMA CmpIsRank ==
  ASSUME NEW s1 \in RankedStatus, NEW s2 \in RankedStatus
  PROVE  /\ file_status_cmp(s1, s2) < 0 => Rank(s1) < Rank(s2)
         /\ ~(file_status_cmp(s1, s2) < 0) => Rank(s2) <= Rank(s1)
         /\ Rank(s1) \in Int
BY DEF RankedStatus, file_status_cmp, Below, Rank, FileStatuses, UnrankedStatus

\* MALWARE beats every verdict that lets the loop go on.
LEMMA MalwareWins ==
  ASSUME NEW s \in FileStatuses \ Authoritative
  PROVE  file_status_cmp(s, "MALWARE") < 0
BY DEF FileStatuses, RankedStatus, UnrankedStatus, Authoritative, file_status_cmp, Below

\* ... and an authoritative verdict beats every ranked one of those.
LEMMA AuthorityWins ==
  ASSUME NEW s \in RankedStatus \ Authoritative, NEW t \in Authoritative
  PROVE  file_status_cmp(s, t) < 0
BY DEF FileStatuses, RankedStatus, UnrankedStatus, Authoritative, file_status_cmp, Below

\* The initial states satisfy the invariant.
LEMMA InitInv == Init => IInv
<1> SUFFICES ASSUME Init PROVE IInv
  OBVIOUS
<1> USE MaxModulesNat DEF Init
<1>1. TypeOK
  <2>1. "UNDECIDED" \in FileStatuses
    BY DEF FileStatuses, RankedStatus
  <2>2. report \in [status : FileStatuses, module : 0..MaxModules, text : 0..MaxModules]
    BY <2>1
  <2>3. calls \in [Modules -> FileStatuses \cup {"none"}]
    OBVIOUS
  <2>4. ctx \in [status : CtxStatuses \cup {"none"}, fd : {"uninitialised", "open", "none", "garbage"}]
    OBVIOUS
  <2>5. next \in 1..(MaxModules + 1) /\ closed \in 0..2
    OBVIOUS
  <2>6. seekFailed \in BOOLEAN /\ detection \in BOOLEAN /\ in \in Inputs /\ ok \in [Modules -> BOOLEAN]
    BY Zenon
  <2>7. pc \in {"get", "scan", "report", "destroy", "done", "abort"} /\ current \in FileStatuses
    BY <2>1
  <2> QED
    BY <2>2, <2>3, <2>4, <2>5, <2>6, <2>7, Zenon DEF TypeOK
<1>2. BeforeGet /\ ContextInv /\ CallsInv /\ LoopInv /\ AuthorityInv /\ ReportedInv /\ ClosedInv
      /\ AbortInv
  BY DEF BeforeGet, ContextInv, CallsInv, LoopInv, AuthorityInv, ReportedInv, ClosedInv, AbortInv,
         Finished, Authoritative
<1> QED
  BY <1>1, <1>2 DEF IInv

\* a6o_scan_context_get preserves the invariant.
LEMMA GetInv ==
  ASSUME IInv, scan_context_get
  PROVE  IInv'
<1> USE MaxModulesNat DEF IInv, scan_context_get
<1>1. /\ get_status \in CtxStatuses /\ get_fd \in {"uninitialised", "open", "none"}
      /\ get_report_status \in FileStatuses
      /\ get_status = "MUST_SCAN" => get_report_status = "UNDECIDED"
  BY DEF get_status, get_fd, get_report_status, CtxStatuses, FileStatuses, RankedStatus, UnrankedStatus
<1>2. get_status' = get_status /\ get_fd' = get_fd /\ fdGiven' = fdGiven
  BY DEF get_status, get_fd, fdGiven
<1>3. report'.status = get_report_status /\ ctx'.status = get_status /\ ctx'.fd = get_fd
  BY DEF TypeOK
<1>4. TypeOK'
  BY <1>1 DEF TypeOK
<1>5. BeforeGet' /\ ContextInv' /\ CallsInv' /\ AuthorityInv' /\ ReportedInv' /\ ClosedInv' /\ AbortInv'
  BY <1>1, <1>2, <1>3 DEF BeforeGet, ContextInv, CallsInv, AuthorityInv, ReportedInv, ClosedInv, AbortInv,
                          Authoritative
<1>6. LoopInv'
  <2>1. /\ current' = "UNDECIDED" /\ next' = 1 /\ ~seekFailed' /\ calls' = calls /\ in' = in
        /\ pc' = "scan" => report'.status = "UNDECIDED"
        /\ ~Finished'
    BY <1>1, <1>3 DEF BeforeGet, Finished
  <2> QED
    BY <2>1 DEF LoopInv, Authoritative, Modules
<1> QED
  BY <1>4, <1>5, <1>6

\* Skipping a module, ending the loop and a failing rewind preserve the invariant.
LEMMA LoopStepInv ==
  ASSUME IInv, SkipModule \/ EndOfModules \/ SeekFails
  PROVE  IInv'
<1> USE MaxModulesNat DEF IInv, SkipModule, EndOfModules, SeekFails
<1>1. get_status' = get_status /\ get_fd' = get_fd /\ fdGiven' = fdGiven
  BY DEF get_status, get_fd, fdGiven
<1>2. TypeOK'
  <2>1. in.nmods \in 0..MaxModules /\ "IERROR" \in FileStatuses
    BY DEF TypeOK, Inputs, FileStatuses, RankedStatus
  <2>2. next' \in 1..(MaxModules + 1)
    BY <2>1 DEF TypeOK
  <2>3. seekFailed' \in BOOLEAN /\ detection' \in BOOLEAN
    BY Zenon DEF TypeOK
  <2>4. current' \in FileStatuses /\ pc' \in {"get", "scan", "report", "destroy", "done", "abort"}
    BY <2>1 DEF TypeOK
  <2>5. UNCHANGED <<in, ok, ctx, report, calls, closed>>
    OBVIOUS
  <2> QED
    BY <2>2, <2>3, <2>4, <2>5 DEF TypeOK
<1>3. BeforeGet' /\ ContextInv' /\ ReportedInv' /\ ClosedInv' /\ AbortInv'
  BY <1>1 DEF BeforeGet, ContextInv, ReportedInv, ClosedInv, AbortInv
<1>4. CallsInv'
  BY DEF CallsInv, TypeOK, Modules
<1>5. LoopInv'
  BY DEF LoopInv, Finished, TypeOK, Modules
<1>6. AuthorityInv'
  BY DEF AuthorityInv
<1> QED
  BY <1>2, <1>3, <1>4, <1>5, <1>6

\* Calling a module preserves the invariant.
LEMMA CallInv ==
  ASSUME IInv, NEW s \in ModuleResults, NEW t \in BOOLEAN, CallModule(s, t)
  PROVE  IInv'
<1> USE MaxModulesNat, ResultsAreStatuses DEF IInv
<1> DEFINE adopt == file_status_cmp(current, s) < 0
<1>0. /\ pc = "scan" /\ next <= in.nmods /\ ok[next] /\ next \in Modules
      /\ current \notin Authoritative /\ current \in FileStatuses /\ s \in FileStatuses
      /\ ctx.status = "MUST_SCAN" /\ in.nmods \in Nat /\ in.nmods <= MaxModules
      /\ ~seekFailed /\ report.status = current
  BY DEF CallModule, TypeOK, LoopInv, ContextInv, Modules, Inputs
<1>1. /\ calls' = [calls EXCEPT ![next] = s]
      /\ current' = IF adopt THEN s ELSE current
      /\ report' = IF adopt THEN report_change(s, next, t) ELSE report
      /\ IF current' \in Authoritative THEN pc' = "report" /\ next' = next
                                       ELSE pc' = "scan" /\ next' = next + 1
      /\ UNCHANGED <<in, ok, ctx, seekFailed, detection, closed>>
  BY <1>0 DEF CallModule
<1>2. get_status' = get_status /\ get_fd' = get_fd /\ fdGiven' = fdGiven
  BY <1>1 DEF get_status, get_fd, fdGiven
<1>3. TypeOK'
  BY <1>0, <1>1 DEF TypeOK, report_change, Modules
<1>4. BeforeGet' /\ ContextInv' /\ ReportedInv' /\ ClosedInv' /\ AbortInv'
  BY <1>0, <1>1, <1>2 DEF BeforeGet, ContextInv, ReportedInv, ClosedInv, AbortInv
<1>5. calls'[next] = s /\ \A k \in Modules \ {next} : calls'[k] = calls[k]
  BY <1>0, <1>1 DEF TypeOK
<1>6. s # "none"
  BY <1>0 DEF FileStatuses, RankedStatus, UnrankedStatus
<1>7. CallsInv'
  BY <1>0, <1>1, <1>5 DEF CallsInv, Modules, TypeOK
<1>8. LoopInv'
  <2>1. report'.status = current' /\ (adopt => report'.module = next)
    BY <1>0, <1>1 DEF report_change
  <2>2. current' # "UNDECIDED" =>
           report'.module \in Modules /\ calls'[report'.module] = current'
    <3>1. CASE adopt
      BY <1>0, <1>1, <1>5, <2>1, <3>1
    <3>2. CASE ~adopt
      <4>1. current' = current /\ report' = report
        BY <1>1, <3>2
      <4>2. current # "UNDECIDED" => report.module \in Modules /\ calls[report.module] = current
        BY <1>0 DEF LoopInv
      <4>3. current # "UNDECIDED" => report.module # next
        BY <1>0, <4>2 DEF CallsInv, FileStatuses, RankedStatus, UnrankedStatus, Modules
      <4> QED
        BY <1>5, <4>1, <4>2, <4>3
    <3> QED
      BY <3>1, <3>2
  <2>3. \A k \in Modules : (k < next' /\ ok'[k]) => calls'[k] # "none"
    BY <1>0, <1>1, <1>5, <1>6 DEF LoopInv, Modules, TypeOK
  <2> QED
    BY <1>0, <1>1, <2>1, <2>2, <2>3 DEF LoopInv, Finished
<1>9. AuthorityInv'
  <2>1. \A j \in Modules : calls[j] \notin Authoritative
    BY <1>0 DEF AuthorityInv
  <2>2. ASSUME s \in Authoritative
        PROVE  adopt
    <3>1. CASE current \in RankedStatus
      BY <1>0, <2>2, <3>1, AuthorityWins
    <3>2. CASE current \notin RankedStatus
      <4>1. current = s
        BY <1>0, <3>2 DEF CallModule, FileStatuses
      <4> QED
        BY <1>0, <2>2, <4>1
    <3> QED
      BY <3>1, <3>2
  <2>3. ASSUME s \in Authoritative
        PROVE  pc' = "report" /\ current' = s /\ report'.status = s
    BY <1>1, <2>2, <2>3 DEF report_change
  <2> QED
    BY <1>0, <1>1, <1>5, <1>6, <2>1, <2>3 DEF AuthorityInv, CallsInv, Modules
<1> QED
  BY <1>3, <1>4, <1>7, <1>8, <1>9

\* The failing comparison preserves the invariant.
LEMMA AbortStepInv ==
  ASSUME IInv, NEW s \in ModuleResults, CompareAborts(s)
  PROVE  IInv'
<1> USE MaxModulesNat, ResultsAreStatuses DEF IInv, CompareAborts
<1>1. get_status' = get_status /\ get_fd' = get_fd /\ fdGiven' = fdGiven
  BY DEF get_status, get_fd, fdGiven
<1>2. next \in Modules /\ calls'[next] = s /\ \A k \in Modules \ {next} : calls'[k] = calls[k]
  BY DEF TypeOK, Modules, Inputs
<1>3. TypeOK'
  BY DEF TypeOK
<1>4. BeforeGet' /\ ContextInv' /\ ReportedInv' /\ ClosedInv'
  BY <1>1 DEF BeforeGet, ContextInv, ReportedInv, ClosedInv
<1>5. CallsInv'
  BY <1>2 DEF CallsInv, ContextInv, Modules, TypeOK
<1>6. LoopInv' /\ AuthorityInv'
  BY DEF LoopInv, Finished, AuthorityInv
<1>7. AbortInv'
  BY <1>2 DEF AbortInv, AuthorityInv, CallsInv, Modules, TypeOK
<1> QED
  BY <1>3, <1>4, <1>5, <1>6, <1>7

\* Reporting and destroying preserve the invariant.
LEMMA TailInv ==
  ASSUME IInv, FireDetection \/ scan_context_destroy
  PROVE  IInv'
<1> USE MaxModulesNat DEF IInv
<1>1. get_status' = get_status /\ get_fd' = get_fd /\ fdGiven' = fdGiven
  BY DEF get_status, get_fd, fdGiven, FireDetection, scan_context_destroy
<1>2. TypeOK'
  <2>1. CASE FireDetection
    BY <2>1 DEF FireDetection, TypeOK
  <2>2. CASE scan_context_destroy
    BY <2>2 DEF scan_context_destroy, TypeOK, ContextInv
  <2> QED
    BY <2>1, <2>2
<1>3. /\ UNCHANGED <<in, ok, next, current, report, calls, seekFailed>>
      /\ ctx'.status = ctx.status
      /\ pc \in {"report", "destroy"} /\ pc' \in {"destroy", "done"}
  BY DEF FireDetection, scan_context_destroy, TypeOK
<1>4. BeforeGet' /\ ContextInv' /\ CallsInv' /\ LoopInv' /\ AuthorityInv' /\ AbortInv'
  <2>1. pc' = "destroy" => UNCHANGED <<ctx, closed>>
    BY DEF FireDetection, scan_context_destroy
  <2> QED
    BY <1>1, <1>3, <2>1 DEF BeforeGet, ContextInv, CallsInv, LoopInv, AuthorityInv, AbortInv, Finished
<1>5. ReportedInv'
  <2>1. CASE FireDetection
    <3>1. (\E k \in Modules : calls[k] = "MALWARE") => callerStatus = "MALWARE"
      BY <2>1 DEF FireDetection, AuthorityInv, Authoritative, callerStatus
    <3> QED
      BY <2>1, <3>1 DEF FireDetection, ReportedInv, Detected
  <2>2. CASE scan_context_destroy
    BY <2>2 DEF scan_context_destroy, ReportedInv
  <2> QED
    BY <2>1, <2>2
<1>6. ClosedInv'
  <2>1. CASE FireDetection
    BY <2>1 DEF FireDetection, ClosedInv
  <2>2. CASE scan_context_destroy
    <3>1. closed = 0 /\ ctx.fd = get_fd
      BY <2>2 DEF scan_context_destroy, ContextInv
    <3> QED
      BY <2>2, <3>1 DEF scan_context_destroy, ClosedInv, get_fd, fdGiven, TypeOK
  <2> QED
    BY <2>1, <2>2
<1> QED
  BY <1>2, <1>4, <1>5, <1>6

\* Every step preserves the invariant.
LEMMA StepInv == IInv /\ [Next]_vars => IInv'
<1> SUFFICES ASSUME IInv, [Next]_vars
             PROVE  IInv'
  OBVIOUS
<1>1. CASE UNCHANGED vars
  BY <1>1 DEF vars, IInv, TypeOK, BeforeGet, ContextInv, CallsInv, LoopInv, AuthorityInv, ReportedInv,
              ClosedInv, AbortInv, Finished, get_status, get_fd, fdGiven
<1>2. CASE Next
  BY <1>1, <1>2, GetInv, LoopStepInv, CallInv, AbortStepInv, TailInv DEF Next, Done
<1> QED
  BY <1>1, <1>2

LEMMA Invariant == Spec => []IInv
BY InitInv, StepInv, PTL DEF Spec

(* The variables keep their types.                                          *)
THEOREM TypeCorrect == Spec => []TypeOK
<1>1. IInv => TypeOK
  BY DEF IInv
<1> QED
  BY <1>1, Invariant, PTL

(* A module's MALWARE is never overruled, and a file with a known path that *)
(* a module calls MALWARE is reported, for any results of the other modules.*)
THEOREM MalwareIsDetected == Spec => []MalwareDetected
<1>1. IInv => MalwareDetected
  BY DEF IInv, AuthorityInv, ReportedInv, MalwareDetected, called, Authoritative
<1> QED
  BY <1>1, Invariant, PTL

(* Exactly the modules in a good state are consulted, in order, up to the   *)
(* first authoritative verdict.                                             *)
THEOREM RightModulesConsulted == Spec => []ModulesConsulted
<1>1. IInv => ModulesConsulted
  <2> SUFFICES ASSUME IInv
               PROVE  ModulesConsulted
    OBVIOUS
  <2>1. \A k \in called : ok[k] /\ k <= in.nmods
    BY DEF IInv, CallsInv, called
  <2>2. (Finished /\ ~seekFailed /\ current \notin Authoritative) =>
           \A k \in 1..in.nmods : ok[k] => k \in called
    BY MaxModulesNat DEF IInv, LoopInv, called, TypeOK, Modules, Inputs
  <2>3. ASSUME NEW j \in called, NEW k \in called, j < k
        PROVE  calls[j] \notin Authoritative
    BY <2>3, MaxModulesNat DEF IInv, AuthorityInv, AbortInv, called, Modules
  <2> QED
    BY <2>1, <2>2, <2>3 DEF ModulesConsulted
<1> QED
  BY <1>1, Invariant, PTL

(* A context that a6o_scan_context_get filled gives its descriptor back     *)
(* exactly once, on every path.                                             *)
THEOREM DescriptorReturned == Spec => []DescriptorClosedOnce
<1>1. IInv => DescriptorClosedOnce
  BY DEF IInv, ClosedInv, DescriptorClosedOnce
<1> QED
  BY <1>1, Invariant, PTL

\* "none" stands for a module that was not called.
LEMMA NoneIsNoStatus == "none" \notin FileStatuses
BY DEF FileStatuses, RankedStatus, UnrankedStatus

\* With ranked results only, the current verdict stays the worst one.
LEMMA WorstStep ==
  ASSUME IInv, WorstInv, [Next]_vars
  PROVE  WorstInv'
<1>1. CASE UNCHANGED <<current, calls, seekFailed>>
  BY <1>1 DEF WorstInv, AllRanked, called
<1>2. CASE SeekFails
  BY <1>2 DEF SeekFails, WorstInv
<1>3. ASSUME NEW s \in ModuleResults, NEW t \in BOOLEAN, CallModule(s, t)
      PROVE  WorstInv'
  <2> SUFFICES ASSUME AllRanked'
               PROVE  WorstInv'
    BY DEF WorstInv
  <2>1. next \in Modules /\ ~seekFailed /\ calls[next] = "none" /\ s # "none"
    BY <1>3, MaxModulesNat, ResultsAreStatuses, NoneIsNoStatus DEF CallModule, IInv, TypeOK, Modules, Inputs, LoopInv, CallsInv
  <2>2. calls'[next] = s /\ \A k \in Modules \ {next} : calls'[k] = calls[k]
    BY <1>3, <2>1 DEF CallModule, IInv, TypeOK
  <2>0. AllRanked /\ s \in RankedStatus
    BY <2>1, <2>2 DEF AllRanked, called
  <2>3. current \in RankedStatus /\ s \in RankedStatus /\ current' \in RankedStatus
    BY <1>3, <2>0, <2>1 DEF CallModule, WorstInv
  <2>4. Rank(current) <= Rank(current') /\ Rank(s) <= Rank(current')
        /\ Rank(current) \in Int /\ Rank(current') \in Int
    BY <1>3, <2>3, CmpIsRank DEF CallModule
  <2>5. \A k \in Modules : calls[k] # "none" => Rank(calls[k]) \in Int /\ Rank(calls[k]) <= Rank(current)
    BY <2>0, <2>1, CmpIsRank DEF AllRanked, called, WorstInv
  <2> QED
    BY <2>2, <2>3, <2>4, <2>5 DEF WorstInv
<1>4. ASSUME NEW s \in ModuleResults, CompareAborts(s)
      PROVE  WorstInv'
  <2>1. next \in Modules /\ ~seekFailed /\ calls[next] = "none"
    BY <1>4, MaxModulesNat DEF CompareAborts, IInv, TypeOK, Modules, Inputs, LoopInv, CallsInv
  <2>2. AllRanked' => AllRanked
    BY <1>4, <2>1 DEF CompareAborts, AllRanked, called, IInv, TypeOK
  <2>3. ~AllRanked
    BY <1>4, <2>1 DEF CompareAborts, WorstInv, UnrankedStatus, RankedStatus
  <2> QED
    BY <2>2, <2>3 DEF WorstInv
<1> QED
  BY <1>1, <1>2, <1>3, <1>4 DEF Next, vars, scan_context_get, SkipModule, EndOfModules, FireDetection,
                                scan_context_destroy, Done

(* As long as the modules asked give verdicts that the comparison ranks, the *)
(* final verdict is the worst one given, and the report agrees with it.      *)
THEOREM WorstVerdictWins == Spec => []WorstVerdict
<1>1. Init => WorstInv
  BY DEF Init, WorstInv, RankedStatus
<1>2. IInv /\ WorstInv /\ [Next]_vars => WorstInv'
  BY WorstStep
<1>3. IInv /\ WorstInv => WorstVerdict
  BY DEF IInv, LoopInv, WorstInv, WorstVerdict, Finished, called
<1> QED
  BY <1>1, <1>2, <1>3, Invariant, PTL DEF Spec

(* The daemon aborts in the comparison only after a module gave a status it  *)
(* has no case for and a later module another one.  The earlier module is    *)
(* the one the report names: its status is the current one.                  *)
THEOREM AbortsAreExplained == Spec => []AbortExplained
<1>1. Init => AbortExplained
  BY DEF Init, AbortExplained
<1>2. IInv /\ AbortExplained /\ [Next]_vars => AbortExplained'
  <2> SUFFICES ASSUME IInv, AbortExplained, [Next]_vars, pc' = "abort"
               PROVE  \E j, k \in called' :
                         j < k /\ calls'[j] \in UnrankedStatus /\ calls'[k] # calls'[j]
    BY DEF AbortExplained
  <2>1. ASSUME NEW s \in ModuleResults, CompareAborts(s)
        PROVE  \E j, k \in called' :
                  j < k /\ calls'[j] \in UnrankedStatus /\ calls'[k] # calls'[j]
    <3> DEFINE j == report.module
    <3>1. current \in UnrankedStatus /\ current # "UNDECIDED" /\ current # s /\ ~seekFailed
      BY <2>1 DEF CompareAborts, UnrankedStatus, IInv, LoopInv
    <3>2. next \in Modules
      BY <2>1, MaxModulesNat DEF CompareAborts, IInv, TypeOK, Modules, Inputs
    <3>3. j \in Modules /\ calls[j] = current
      BY <2>1, <3>1 DEF CompareAborts, IInv, LoopInv
    <3>4. current # "none" /\ s # "none"
      BY <3>1, NoneIsNoStatus, ResultsAreStatuses DEF FileStatuses
    <3>5. j < next
      BY <2>1, <3>3, <3>4 DEF CompareAborts, IInv, CallsInv
    <3>6. calls'[next] = s /\ calls'[j] = current
      BY <2>1, <3>2, <3>3, <3>5, MaxModulesNat DEF CompareAborts, IInv, TypeOK, Modules
    <3>7. j \in called' /\ next \in called'
      BY <3>2, <3>3, <3>4, <3>6 DEF called
    <3> QED
      BY <3>1, <3>5, <3>6, <3>7
  <2>2. CASE UNCHANGED <<pc, calls>>
    BY <2>2 DEF AbortExplained, called
  <2>3. ASSUME NEW s \in ModuleResults, NEW t \in BOOLEAN, CallModule(s, t)
        PROVE  FALSE
    BY <2>3 DEF CallModule
  <2> QED
    BY <2>1, <2>2, <2>3 DEF Next, vars, scan_context_get, SkipModule, SeekFails, EndOfModules,
                            FireDetection, scan_context_destroy, Done
<1> QED
  BY <1>1, <1>2, Invariant, PTL DEF Spec
==============================================================================
