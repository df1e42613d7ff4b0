------------------------------ MODULE ScanContext ------------------------------
(***************************************************************************)
(* The life of one scan context: a6o_scan_context_get decides whether the  *)
(* file is scanned at all, scan_apply_modules runs the modules that apply  *)
(* to its type, one loop iteration per step, the caller reports what was   *)
(* found, and a6o_scan_context_destroy gives the descriptor back.          *)
(*                                                                         *)
(* Two callers exist.  "access" is the fanotify monitor: it passes an open *)
(* descriptor and trusts the status that scan_apply_modules RETURNS (the   *)
(* permission mode, where response_write closes the descriptor instead, is *)
(* in OnAccess).                                                           *)
(* "demand" is scan_file of the on-demand scan: it passes only a path and  *)
(* trusts the status left in the REPORT.                                   *)
(***************************************************************************)
EXTENDS FileStatus

CONSTANTS
    MaxModules,      \* largest number of modules that apply to one file type
    ModuleResults    \* what the scan function of a module may return

ASSUME MaxModulesNat == MaxModules \in Nat
ASSUME ResultsAreStatuses == ModuleResults \subseteq FileStatuses

VARIABLES
    in,        \* the caller and what the file and the configuration look like
    ok,        \* ok[k]: the k-th applicable module has status A6O_MOD_OK
    pc,
    ctx,       \* the struct a6o_scan_context
    next,      \* the next module the loop looks at
    current,   \* current_status of scan_apply_modules
    report,    \* the struct a6o_report of the caller
    calls,     \* calls[k]: what module k returned, "none" if it was not called
    seekFailed,
    detection, \* a detection event was fired for this file
    closed     \* how many times the descriptor of the context was closed

vars == <<in, ok, pc, ctx, next, current, report, calls, seekFailed, detection, closed>>

Modules == 1..MaxModules

\* nmods = 0 is a NULL array of applicable modules.
Inputs == [caller : {"access", "demand"}, path : BOOLEAN, whiteListed : BOOLEAN,
           opens : BOOLEAN, mime : BOOLEAN, nmods : 0..MaxModules]

\* The monitor has an open descriptor; its path may be unknown (readlink failed).
\* The on-demand scan of a tree walked without threads may pass a NULL path.
fdGiven == in.caller = "access"

CtxStatuses == {"MUST_SCAN", "WHITE_LISTED_DIRECTORY", "FILE_TYPE_NOT_SCANNED",
                "FILE_OPEN_ERROR"}

\* Which a6o_scan_context_status the early returns of a6o_scan_context_get give,
\* in their order.
get_status ==
    CASE ~fdGiven /\ ~in.path             -> "FILE_OPEN_ERROR"
      [] in.path /\ in.whiteListed        -> "WHITE_LISTED_DIRECTORY"
      [] ~fdGiven /\ ~in.opens            -> "FILE_OPEN_ERROR"
      [] ~in.mime \/ in.nmods = 0         -> "FILE_TYPE_NOT_SCANNED"
      [] OTHER                            -> "MUST_SCAN"

\* Mutant: the descriptor is stored only after the white list was looked at.
MutFdStoredLate ==
    IF ~fdGiven /\ ~in.path THEN "uninitialised"
    ELSE IF ~(in.path /\ in.whiteListed) /\ (fdGiven \/ in.opens) THEN "open"
    ELSE "none"

\* The descriptor the context holds when a6o_scan_context_get returns: not even
\* initialised on the first return, the given or the opened one later.
get_fd ==
    IF ~fdGiven /\ ~in.path THEN "uninitialised"
    ELSE IF fdGiven \/ (~in.whiteListed /\ in.opens) THEN "open"
    ELSE "none"

\* The status a6o_scan_context_get puts in the report, when it is given one:
\* the monitor passes NULL.
get_report_status ==
    IF in.caller = "access" THEN "UNDECIDED"
    ELSE CASE get_status = "FILE_OPEN_ERROR"        -> "IERROR"
           [] get_status = "WHITE_LISTED_DIRECTORY" -> "WHITE_LISTED"
           [] get_status = "FILE_TYPE_NOT_SCANNED"  -> "UNKNOWN_TYPE"
           [] OTHER                                 -> "UNDECIDED"

Init ==
    /\ in \in Inputs
    /\ ok \in [Modules -> BOOLEAN]
    /\ pc = "get"
    /\ ctx = [status |-> "none", fd |-> "uninitialised"]
    /\ next = 1
    /\ current = "UNDECIDED"
    /\ report = [status |-> "UNDECIDED", module |-> 0, text |-> 0]
    /\ calls = [k \in Modules |-> "none"]
    /\ seekFailed = FALSE
    /\ detection = FALSE
    /\ closed = 0

\* a6o_scan_context_get; a file that must not be scanned goes to the caller's
\* tail.  The monitor does not report such a file at all: it destroys the context.
scan_context_get ==
    /\ pc = "get"
    /\ ctx' = [status |-> get_status, fd |-> get_fd]
    /\ report' = [report EXCEPT !.status = get_report_status]
    /\ pc' = IF get_status = "MUST_SCAN" THEN "scan"
             ELSE IF in.caller = "access" THEN "destroy" ELSE "report"
    /\ UNCHANGED <<in, ok, next, current, calls, seekFailed, detection, closed>>

\* The loop skips a module whose status is not OK.
SkipModule ==
    /\ pc = "scan" /\ next <= in.nmods /\ ~ok[next]
    /\ next' = next + 1
    /\ UNCHANGED <<in, ok, pc, ctx, current, report, calls, seekFailed, detection, closed>>

\* Rewinding the file fails: scan_apply_modules returns IERROR at once and
\* leaves the report as the earlier modules made it.
SeekFails ==
    /\ pc = "scan" /\ next <= in.nmods /\ ok[next]
    /\ seekFailed' = TRUE
    /\ current' = "IERROR"
    /\ pc' = "report"
    /\ UNCHANGED <<in, ok, ctx, next, report, calls, detection, closed>>

\* a6o_report_change: a NULL text keeps the text of an earlier module.
report_change(s, k, hasText) ==
    [status |-> s, module |-> k, text |-> IF hasText THEN k ELSE report.text]

\* One module is called and returns s; its result is adopted when it is worse
\* than the current one, and an authoritative result ends the loop.
CallModule(s, hasText) ==
    /\ pc = "scan" /\ next <= in.nmods /\ ok[next]
    /\ current \notin UnrankedStatus \/ current = s
    /\ calls' = [calls EXCEPT ![next] = s]
    /\ LET adopt == file_status_cmp(current, s) < 0
       IN  /\ current' = IF adopt THEN s ELSE current
           /\ report' = IF adopt THEN report_change(s, next, hasText) ELSE report
    /\ IF current' \in Authoritative
       THEN pc' = "report" /\ UNCHANGED next
       ELSE pc' = pc /\ next' = next + 1
    /\ UNCHANGED <<in, ok, ctx, seekFailed, detection, closed>>

\* Mutant: a status without a case on either side aborts.
MutAbortsBothWays(s) ==
    /\ pc = "scan" /\ next <= in.nmods /\ ok[next]
    /\ {current, s} \cap UnrankedStatus # {} /\ current # s
    /\ calls' = [calls EXCEPT ![next] = s]
    /\ pc' = "abort"
    /\ UNCHANGED <<in, ok, ctx, next, current, report, seekFailed, detection, closed>>

\* The comparison is handed a status it has no case for: assert(1 == 0) aborts
\* the daemon.
CompareAborts(s) ==
    /\ pc = "scan" /\ next <= in.nmods /\ ok[next]
    /\ current \in UnrankedStatus /\ current # s
    /\ calls' = [calls EXCEPT ![next] = s]
    /\ pc' = "abort"
    /\ UNCHANGED <<in, ok, ctx, next, current, report, seekFailed, detection, closed>>

EndOfModules ==
    /\ pc = "scan" /\ next > in.nmods
    /\ pc' = "report"
    /\ UNCHANGED <<in, ok, ctx, next, current, report, calls, seekFailed, detection, closed>>

\* What the caller goes by: the monitor the returned status, scan_file the report.
callerStatus == IF in.caller = "access" THEN current ELSE report.status

\* Mutant: only detections with a text are reported.
MutFireWithText ==
    /\ pc = "report"
    /\ detection' = (callerStatus \in Detected /\ in.path /\ report.text # 0)
    /\ pc' = "destroy"
    /\ UNCHANGED <<in, ok, ctx, next, current, report, calls, seekFailed, closed>>

\* The detection event of scan_file and of scan_file_thread_fun.
FireDetection ==
    /\ pc = "report"
    /\ detection' = (callerStatus \in Detected /\ in.path)
    /\ pc' = "destroy"
    /\ UNCHANGED <<in, ok, ctx, next, current, report, calls, seekFailed, closed>>

\* a6o_scan_context_destroy closes a non-negative descriptor.  On a context that
\* was never initialised the descriptor is whatever the stack held.
scan_context_destroy ==
    /\ pc = "destroy"
    /\ closed' \in (CASE ctx.fd = "open" -> {closed + 1}
                      [] ctx.fd = "none" -> {closed}
                      [] OTHER           -> {closed, closed + 1})
    /\ ctx' = [ctx EXCEPT !.fd = IF @ = "uninitialised" THEN "garbage" ELSE "none"]
    /\ pc' = "done"
    /\ UNCHANGED <<in, ok, next, current, report, calls, seekFailed, detection>>

Done == pc \in {"done", "abort"} /\ UNCHANGED vars

Next ==
    \/ scan_context_get
    \/ SkipModule
    \/ SeekFails
    \/ \E s \in ModuleResults, t \in BOOLEAN : CallModule(s, t)
    \/ \E s \in ModuleResults : CompareAborts(s)
    \/ EndOfModules
    \/ FireDetection
    \/ scan_context_destroy
    \/ Done

Spec == Init /\ [][Next]_vars

-------------------------------------------------------------------------------
\* The types of the variables.
TypeOK ==
    /\ in \in Inputs
    /\ ok \in [Modules -> BOOLEAN]
    /\ pc \in {"get", "scan", "report", "destroy", "done", "abort"}
    /\ ctx \in [status : CtxStatuses \cup {"none"},
                fd : {"uninitialised", "open", "none", "garbage"}]
    /\ next \in 1..(MaxModules + 1)
    /\ current \in FileStatuses
    /\ report \in [status : FileStatuses, module : 0..MaxModules, text : 0..MaxModules]
    /\ calls \in [Modules -> FileStatuses \cup {"none"}]
    /\ seekFailed \in BOOLEAN
    /\ detection \in BOOLEAN
    /\ closed \in 0..2

\* Severity of a verdict, the order the enum and status.c intend.
Rank(s) ==
    CASE s = "UNDECIDED"    -> 0
      [] s = "CLEAN"        -> 1
      [] s = "IERROR"       -> 2
      [] s = "SUSPICIOUS"   -> 3
      [] s = "WHITE_LISTED" -> 4
      [] s = "MALWARE"      -> 5
      [] OTHER              -> -1

called == {k \in Modules : calls[k] # "none"}

Finished == pc \in {"report", "destroy", "done"} /\ ctx.status = "MUST_SCAN"

\* The consulted modules gave only verdicts that the comparison has a place for.
AllRanked == \A k \in called : calls[k] \in RankedStatus

(* As long as the consulted modules give verdicts the comparison ranks, the  *)
(* verdict of scan_apply_modules is the worst of them, and it is the one in  *)
(* the report, decided by the module the report names (unless a rewind       *)
(* failed).                                                                  *)
WorstVerdict ==
    (Finished /\ ~seekFailed /\ AllRanked) =>
        /\ \A k \in called : Rank(calls[k]) <= Rank(current)
        /\ report.status = current
        /\ current # "UNDECIDED" => calls[report.module] = current

(* Whatever the modules return, a module that says MALWARE is never          *)
(* overruled by another one, and its file is always reported as detected     *)
(* when the caller knows a path (the daemon may abort first).                *)
MalwareDetected ==
    /\ (pc # "abort" /\ \E k \in called : calls[k] = "MALWARE") => current = "MALWARE"
    /\ (pc = "done" /\ in.path /\ \E k \in called : calls[k] = "MALWARE") => detection

(* Unless a verdict is authoritative or a rewind failed, every module in a   *)
(* good state is consulted, a module in error never is, and nothing is       *)
(* consulted after an authoritative verdict (early exit of the loop).        *)
ModulesConsulted ==
    /\ \A k \in called : ok[k] /\ k <= in.nmods
    /\ (Finished /\ ~seekFailed /\ current \notin Authoritative) =>
           \A k \in 1..in.nmods : ok[k] => k \in called
    /\ \A j, k \in called : j < k => calls[j] \notin Authoritative

(* Whichever early return a scan takes, the descriptor that                  *)
(* a6o_scan_context_get was given or opened is closed exactly once.          *)
DescriptorClosedOnce ==
    (pc = "done" /\ ctx.fd # "garbage") =>
        closed = IF fdGiven \/ (~in.whiteListed /\ in.opens) THEN 1 ELSE 0

(* The comparison of verdicts reaches its assert(1 == 0), which ends the      *)
(* daemon, only when a module gave a status it has no case for and a later   *)
(* module another one: never with one module, and never with ranked ones.    *)
AbortExplained ==
    pc = "abort" => \E j, k \in called : j < k /\ calls[j] \in UnrankedStatus /\ calls[k] # calls[j]
===============================================================================
