----------------------------- MODULE WinService -----------------------------
(***************************************************************************)
(* The Windows service (service/service.c): loading and unloading the      *)
(* engine, the driver port and the pipe; ServiceMain and the control       *)
(* handler, which run in two threads of the service; the commands that     *)
(* install, start, stop, pause, resume and remove the service from other   *)
(* processes; the console mode.                                            *)
(*                                                                         *)
(* A thread or command is a sequence of steps left to do (job), so that a  *)
(* procedure such as ServiceUnloadProcedure is inserted where it is        *)
(* called.  The service control manager (SCM) is external: it keeps the    *)
(* reported state, hands one control at a time to the handler, and forgets *)
(* a deleted service when nothing uses it any more.  The listener thread   *)
(* of the pipe (MainThreadWork in scan_ondemand.c) runs beside them; its   *)
(* clients are not followed.                                               *)
(***************************************************************************)
EXTENDS Integers, Sequences, FiniteSets

CONSTANTS
    Callers,       \* processes that run service.exe with a command
    MaxCommands,   \* bound on commands and on console input
    Commands       \* Commands[a]: the commands the process a gives

ASSUME CallersAssumption == Callers \cap {"main", "handler"} = {}
ASSUME CommandsAssumption ==
    Commands \in [Callers -> SUBSET {"start", "stop", "pause", "continue", "install", "uninstall", "test"}]
ASSUME MaxCommandsAssumption == MaxCommands \in Nat

Threads == {"main", "handler"}     \* of the service's own process
Actors == Threads \cup Callers
Keys == {"dump"}                   \* the crash dump key; nothing depends on the event log key

VARIABLES
    job,        \* steps left to each actor
    proc,       \* the process that may hold an engine: none, service, console
    state,      \* dwCurrentState, as the SCM knows it
    ctx,        \* fields of gScanContext that are set; pipe: onDemandCtx, listener: its MainThreadCtx
    live,       \* engines, driver ports and listener threads that exist in the process
    opening,    \* listeners that have not created their pipe instance yet
    instances,  \* pipe instances that are open
    failed,     \* the listener of this load ended by itself
    installed,  \* no, yes, or marked for deletion
    keys,       \* registry keys that exist
    unkeyed,    \* the last installation failed or was ended before the crash dump key was there
    commands,   \* commands and key strokes so far
    odd         \* unordered or failed steps the properties except

ctxVars == <<ctx, live>>
pipeVars == <<opening, instances, failed>>
scmVars == <<proc, state, installed>>
keyVars == <<keys, unkeyed>>
vars == <<job, ctxVars, pipeVars, scmVars, keyVars, commands, odd>>

Nothing == [engine |-> 0, port |-> 0, listener |-> 0]

-----------------------------------------------------------------------------
(* Procedures, as sequences of steps.                                      *)

ServiceLoadProcedure   == <<"open", "connect", "start_pipe">>
ServiceUnloadProcedure == <<"finalize", "close_pipe", "close_engine">>

\* The unload procedure of a command works on the empty gScanContext of its own process.
ServiceStop(a) ==
    <<"query_stop">> \o (IF a \in Threads THEN ServiceUnloadProcedure ELSE <<>>) \o <<"STOP">>
ServicePause    == <<"query_pause", "PAUSE">>
ServiceContinue == <<"query_continue", "CONTINUE">>
ServiceLaunch   == <<"query_start", "start">>

ServiceMain ==
    <<"register", "init">> \o ServiceLoadProcedure

\* Mutant: the handler of STOP forgets to report STOPPED.
MutStopSilent(control) ==
    CASE control = "PAUSE" -> <<"PAUSE_PENDING">> \o ServiceUnloadProcedure \o <<"PAUSED">>
      [] control = "CONTINUE" -> <<"START_PENDING", "RUNNING">> \o ServiceLoadProcedure
      [] control = "STOP"  -> <<"STOP_PENDING">> \o ServiceUnloadProcedure

\* Mutant: the handler of CONTINUE loads nothing.
MutContinueEmpty(control) ==
    CASE control = "PAUSE" -> <<"PAUSE_PENDING">> \o ServiceUnloadProcedure \o <<"PAUSED">>
      [] control = "CONTINUE" -> <<"START_PENDING", "RUNNING">>
      [] control = "STOP"  -> <<"STOP_PENDING">> \o ServiceUnloadProcedure \o <<"STOPPED">>

ServiceCtrlHandler(control) ==
    CASE control = "PAUSE" -> <<"PAUSE_PENDING">> \o ServiceUnloadProcedure \o <<"PAUSED">>
      [] control = "CONTINUE" -> <<"START_PENDING", "RUNNING">> \o ServiceLoadProcedure
      [] control = "STOP"  -> <<"STOP_PENDING">> \o ServiceUnloadProcedure \o <<"STOPPED">>

\* The load procedure of LaunchCmdLineService before the first key stroke ends in "first".
LaunchCmdLineService == ServiceLoadProcedure \o <<"first">>

-----------------------------------------------------------------------------
\* The machine has booted: the service was never installed, is installed to be started on
\* demand, or was started by the SCM (--installboot).
Init ==
    /\ ctx = {} /\ live = Nothing /\ opening = 0 /\ instances = 0 /\ failed = FALSE
    /\ unkeyed = FALSE /\ commands = 0 /\ odd = {}
    /\ \/ /\ proc = "none" /\ state = "STOPPED" /\ job = [a \in Actors |-> <<>>]
          /\ \/ installed = "no" /\ keys = {}
             \/ installed = "yes" /\ keys = Keys
       \/ /\ proc = "service" /\ state = "START_PENDING"
          /\ job = [a \in Actors |-> IF a = "main" THEN ServiceMain ELSE <<>>]
          /\ installed = "yes" /\ keys = Keys

At(a, l) == job[a] # <<>> /\ Head(job[a]) = l
Continue(a) == job' = [job EXCEPT ![a] = Tail(@)]
Instead(a, p) == job' = [job EXCEPT ![a] = p]

\* The end of a thread or of a command.
Return(a) == Instead(a, <<>>)

\* After ServiceLoadProcedure failed: ServiceStop, in the thread that loaded.  The console
\* unloads and ends, or after 'c' waits for the next key.
LoadFails(a) ==
    /\ Instead(a, CASE proc = "service" -> ServiceStop(a)
                    [] job[a][Len(job[a])] = "first" -> ServiceUnloadProcedure
                    [] OTHER -> <<"getchar">>)
    /\ odd' = IF a = "handler" \/ (proc = "console" /\ job[a][Len(job[a])] = "getchar")
                 THEN odd \cup {"continueFailed"} ELSE odd

\* Configuration and a6o_open.  The fields of gScanContext are reset.
open(a) ==
    /\ At(a, "open")
    /\ \/ /\ live' = [live EXCEPT !.engine = @ + 1]
          /\ ctx' = {"engine"}
          /\ Continue(a) /\ UNCHANGED odd
       \/ LoadFails(a) /\ UNCHANGED ctxVars
    /\ UNCHANGED <<pipeVars, scmVars, keyVars, commands>>

\* UserScanInit, if on-access scanning is configured and this is not GUI_ONLY mode.
connect(a) ==
    /\ At(a, "connect")
    /\ \/ /\ live' = [live EXCEPT !.port = @ + 1]
          /\ ctx' = ctx \cup {"port"}
          /\ Continue(a) /\ UNCHANGED odd
       \/ Continue(a) /\ UNCHANGED <<ctxVars, odd>>
       \/ LoadFails(a) /\ ctx' = ctx \ {"port"} /\ UNCHANGED live
    /\ UNCHANGED <<pipeVars, scmVars, keyVars, commands>>

\* Start_IHM_Connection, which fails if there is no engine.  It creates the listener and does
\* not wait for it.
start_pipe(a) ==
    /\ At(a, "start_pipe")
    /\ \/ /\ "engine" \in ctx
          /\ live' = [live EXCEPT !.listener = @ + 1] /\ opening' = opening + 1
          /\ ctx' = ctx \cup {"pipe", "listener"}
          /\ failed' = FALSE
          /\ Continue(a) /\ UNCHANGED odd
       \/ LoadFails(a) /\ ctx' = ctx \ {"pipe", "listener"} /\ UNCHANGED <<live, opening, failed>>
    /\ UNCHANGED <<instances, scmVars, keyVars, commands>>

\* The listener ends by itself: it frees its context, never its pipe instance.
ListenerFails ==
    live' = [live EXCEPT !.listener = @ - 1] /\ ctx' = ctx \ {"listener"} /\ failed' = TRUE

\* MainThreadWork: CreateNamedPipe, which may fail; the wait for clients, which may fail too.
MainThreadWork ==
    /\ "pipe" \in ctx
    /\ \/ opening > 0 /\ opening' = opening - 1 /\ instances' = instances + 1
          /\ UNCHANGED <<ctxVars, failed>>
       \/ opening > 0 /\ opening' = opening - 1 /\ ListenerFails /\ UNCHANGED instances
       \/ opening < live.listener /\ ListenerFails /\ UNCHANGED <<opening, instances>>
    /\ UNCHANGED <<job, scmVars, keyVars, commands, odd>>

\* One step of the unload procedure: what the field points to is closed.  After the last
\* one all fields are reset.
Close(a, l, what) ==
    /\ At(a, l)
    /\ live' = IF what \in ctx THEN [live EXCEPT ![what] = @ - 1] ELSE live
    /\ ctx' = IF what = "engine" THEN {} ELSE ctx
    /\ Continue(a)
    /\ UNCHANGED <<pipeVars, scmVars, keyVars, commands, odd>>

\* Close_IHM_Connection: TerminateThread on the listener.  It closes only PipeHandle, which
\* nothing sets: the instance the listener had created (k = 0) stays open.
Close_IHM_Connection(a) ==
    /\ At(a, "close_pipe")
    /\ \/ /\ "listener" \in ctx
          /\ live' = [live EXCEPT !.listener = @ - 1] /\ ctx' = ctx \ {"listener"}
          /\ \E k \in {0, 1} : opening - k \in 0..(live.listener - 1) /\ opening' = opening - k
       \/ "listener" \notin ctx /\ UNCHANGED <<ctxVars, opening>>
    /\ Continue(a) /\ failed' = FALSE
    /\ UNCHANGED <<instances, scmVars, keyVars, commands, odd>>

\* UserScanFinalize may never return (WinDriverPort, FinalizeEnds).
Hang(a) ==
    /\ At(a, "finalize") /\ "port" \in ctx
    /\ Instead(a, <<"hung">>)
    /\ odd' = odd \cup {"hung"}
    /\ UNCHANGED <<ctxVars, pipeVars, scmVars, keyVars, commands>>

Load(a) == open(a) \/ connect(a) \/ start_pipe(a)
Unload(a) ==
    \/ Close(a, "finalize", "port") \/ Close_IHM_Connection(a) \/ Close(a, "close_engine", "engine")
    \/ Hang(a)

-----------------------------------------------------------------------------
(* The threads of the service.                                             *)

\* RegisterServiceCtrlHandler, and the report of START_PENDING, which the SCM assumes anyway.
register ==
    /\ At("main", "register")
    /\ \/ Continue("main") /\ UNCHANGED odd
       \/ Instead("main", ServiceStop("main")) /\ odd' = odd \cup {"noHandler"}
    /\ UNCHANGED <<ctxVars, pipeVars, scmVars, keyVars, commands>>

ReportSvcStatus(a, s) ==
    /\ At(a, s)
    /\ state' = s
    /\ Continue(a)
    /\ UNCHANGED <<ctxVars, pipeVars, proc, installed, keyVars, commands, odd>>

\* Without an event STOPPED is reported, and ServiceMain goes on all the same.
ServiceInit ==
    /\ At("main", "init")
    /\ Continue("main")
    /\ \/ state' = "RUNNING" /\ UNCHANGED odd
       \/ state' = "STOPPED" /\ odd' = odd \cup {"noEvent"}
    /\ UNCHANGED <<ctxVars, pipeVars, proc, installed, keyVars, commands>>

\* The end of the process closes what it has.
ProcessEnds ==
    /\ proc' = "none" /\ ctx' = {} /\ live' = Nothing
    /\ opening' = 0 /\ instances' = 0 /\ failed' = FALSE
    /\ odd' = IF live # Nothing THEN odd \cup {"unclean"} ELSE odd

\* StartServiceCtrlDispatcher returns when STOPPED was reported; the process ends.
Exit ==
    /\ proc = "service" /\ state = "STOPPED" /\ job["handler"] = <<>>
    /\ job' = [job EXCEPT !["main"] = <<>>]
    /\ ProcessEnds
    /\ UNCHANGED <<state, installed, keyVars, commands>>

\* LaunchCmdLineService, between two key strokes: q, p or c.  A p whose unload fails ends the
\* loop, and everything is unloaded once more; Close_IHM_Connection hides the failure.
getchar ==
    /\ At("main", "first") \/ At("main", "getchar")
    /\ \/ /\ Instead("main", ServiceUnloadProcedure) /\ UNCHANGED <<commands, odd>>
       \/ /\ commands < MaxCommands /\ commands' = commands + 1
          /\ \/ Instead("main", ServiceUnloadProcedure \o <<"getchar">>)
             \/ /\ "port" \in ctx /\ "pipe" \notin ctx
                /\ Instead("main", ServiceUnloadProcedure \o ServiceUnloadProcedure)
          /\ UNCHANGED odd
       \/ /\ commands < MaxCommands /\ commands' = commands + 1
          /\ Instead("main", ServiceLoadProcedure \o <<"getchar">>)
          /\ odd' = IF ctx # {} THEN odd \cup {"lateContinue"} ELSE odd
    /\ UNCHANGED <<ctxVars, pipeVars, scmVars, keyVars>>

ConsoleEnds ==
    /\ proc = "console" /\ job["main"] = <<>>
    /\ ProcessEnds
    /\ UNCHANGED <<job, state, installed, keyVars, commands>>

-----------------------------------------------------------------------------
(* Commands.                                                               *)

\* What a step of the query kind must find to go on; otherwise the command ends.
Wanted(l) ==
    CASE l = "query_start"    -> {"STOPPED", "STOP_PENDING"}
      [] l = "query_pause"    -> {"RUNNING"}
      [] l = "query_continue" -> {"PAUSED"}
      [] l = "query_stop"     -> {"START_PENDING", "RUNNING", "PAUSE_PENDING", "PAUSED"}

\* The end of a command; ServiceRemove goes on whatever ServiceStop returned.
ServiceDelete == <<"delete", "delete_keys">>
StopEnds(a) == Instead(a, IF job[a][Len(job[a])] = "delete_keys" THEN ServiceDelete ELSE <<>>)

\* QueryServiceStatusEx.  ServiceStop waits, without a time-out, while a stop is pending.
Query(a) ==
    /\ job[a] # <<>>
    /\ LET l == Head(job[a])
       IN  /\ l \in {"query_start", "query_pause", "query_continue", "query_stop"}
           /\ ~(l = "query_stop" /\ state = "STOP_PENDING")
           /\ IF state \in Wanted(l) /\ installed # "no"
                 THEN Continue(a)
                 ELSE StopEnds(a)
    /\ UNCHANGED <<ctxVars, pipeVars, scmVars, keyVars, commands, odd>>

\* The SCM refuses a control unless the service accepts it.
Accepts == proc = "service" /\ state \notin {"STOPPED", "STOP_PENDING", "START_PENDING"}

\* ControlService: refused, or timed out while the handler is busy (always so in the
\* handler itself), or handed to the handler.  ControlService and the loop behind it that
\* waits for the new state end after a time in any case and change nothing: the command may
\* go on at once.
Control(a, c) ==
    /\ At(a, c)
    /\ \/ /\ Accepts /\ job["handler"] = <<>>
          /\ job' = [job EXCEPT ![a] = Tail(@), !["handler"] = ServiceCtrlHandler(c)]
          /\ odd' = odd \cup (IF a # "main" /\ job["main"] # <<>> THEN {"earlyControl"} ELSE {})
                        \cup (IF c = "CONTINUE" /\ state # "PAUSED" THEN {"lateContinue"} ELSE {})
       \/ /\ ~Accepts \/ job["handler"] # <<>>
          /\ StopEnds(a)
          /\ odd' = IF a \in Threads THEN odd \cup {"stopRefused"} ELSE odd
    /\ UNCHANGED <<ctxVars, pipeVars, scmVars, keyVars, commands>>

\* StartService: the SCM creates the process, whose main calls StartServiceCtrlDispatcher.
StartService(a) ==
    /\ At(a, "start")
    /\ \/ /\ proc = "none" /\ installed = "yes" /\ state = "STOPPED"
          /\ proc' = "service" /\ state' = "START_PENDING"
          /\ job' = [job EXCEPT ![a] = Tail(@), !["main"] = ServiceMain]
       \/ /\ proc # "none" \/ installed # "yes" \/ state # "STOPPED"
          /\ Return(a) /\ UNCHANGED <<proc, state>>
    /\ UNCHANGED <<ctxVars, pipeVars, installed, keyVars, commands, odd>>

\* It may fail.  The part that creates the event log key comes before and fails or not without
\* effect on this one or on the result.
RegistryKeysInitialization == keys' \in {keys \cup k : k \in SUBSET Keys}

\* ServiceInstall: CreateService.
ServiceInstall(a) ==
    /\ At(a, "install")
    /\ \/ installed = "no" /\ installed' = "yes" /\ unkeyed' = FALSE /\ Continue(a)
       \/ Return(a) /\ UNCHANGED <<installed, unkeyed>>
    /\ UNCHANGED <<ctxVars, pipeVars, proc, state, keys, commands, odd>>

\* ServiceInstall: the registry keys, with the handle of the service open.
InstallKeys(a) ==
    /\ At(a, "keys")
    /\ RegistryKeysInitialization
    /\ unkeyed' = ("dump" \notin keys')
    /\ Return(a)
    /\ UNCHANGED <<ctxVars, pipeVars, scmVars, commands, odd>>

\* It may fail; the result is always 0.
DeleteRegistryKeys == keys' \in SUBSET keys

\* Mutant: the registry keys are deleted before the service is stopped.
MutRemoveKeysFirst(a) ==
    /\ At(a, "remove")
    /\ IF installed = "no" THEN Return(a) /\ UNCHANGED keys
       ELSE /\ DeleteRegistryKeys
            /\ Instead(a, (IF state \in {"RUNNING", "START_PENDING"} THEN ServiceStop(a) ELSE <<>>)
                              \o ServiceDelete)
    /\ UNCHANGED <<ctxVars, pipeVars, scmVars, unkeyed, commands, odd>>

\* ServiceRemove: the query, ServiceStop if the service runs or starts, the deletion.
ServiceRemove(a) ==
    /\ At(a, "remove")
    /\ IF installed = "no" THEN Return(a)
       ELSE Instead(a, (IF state \in {"RUNNING", "START_PENDING"} THEN ServiceStop(a) ELSE <<>>)
                          \o ServiceDelete)
    /\ UNCHANGED <<ctxVars, pipeVars, scmVars, keyVars, commands, odd>>

\* The SCM marks the service, and refuses if it is marked already.
DeleteService(a) ==
    /\ At(a, "delete")
    /\ \/ installed = "yes" /\ installed' = "marked" /\ Continue(a)
       \/ installed # "yes" /\ Return(a) /\ UNCHANGED installed
    /\ UNCHANGED <<ctxVars, pipeVars, proc, state, keyVars, commands, odd>>

\* ServiceRemove: the registry keys, with the handle of the service open.
RemoveKeys(a) ==
    /\ At(a, "delete_keys")
    /\ DeleteRegistryKeys
    /\ Return(a)
    /\ UNCHANGED <<ctxVars, pipeVars, scmVars, unkeyed, commands, odd>>

\* Between OpenService or CreateService and CloseServiceHandle.
HasHandle(a) ==
    /\ job[a] # <<>>
    /\ \/ Head(job[a]) \notin {"install", "remove", "query_start", "query_pause", "query_continue", "query_stop"}
       \/ job[a][Len(job[a])] = "delete_keys"

\* The SCM forgets a marked service that does not run, once all handles are closed.
ServiceForgotten ==
    /\ installed = "marked" /\ proc # "service" /\ \A a \in Callers : ~HasHandle(a)
    /\ installed' = "no"
    /\ UNCHANGED <<job, ctxVars, pipeVars, proc, state, keyVars, commands, odd>>

\* The process that gives a command is ended from outside, between any two calls.
Killed(a) ==
    /\ job[a] # <<>> /\ Return(a)
    /\ unkeyed' = (unkeyed \/ At(a, "keys"))
    /\ UNCHANGED <<ctxVars, pipeVars, scmVars, keys, commands, odd>>

\* main, by its first argument.  --test runs the console in a process of its own, which
\* is followed here only when there is no service process.
main(a) ==
    /\ a \in Callers /\ job[a] = <<>> /\ commands < MaxCommands
    /\ commands' = commands + 1
    /\ \E c \in Commands[a] :
          \/ /\ c = "test" /\ proc = "none"
             /\ proc' = "console" /\ job' = [job EXCEPT !["main"] = LaunchCmdLineService]
          \/ /\ c # "test" /\ UNCHANGED proc
             /\ Instead(a, CASE c = "start" -> ServiceLaunch
                             [] c = "stop" -> ServiceStop(a)
                             [] c = "pause" -> ServicePause
                             [] c = "continue" -> ServiceContinue
                             [] c = "install" -> <<"install", "keys">>
                             [] c = "uninstall" -> <<"remove">>)
    /\ UNCHANGED <<ctxVars, pipeVars, state, installed, keyVars, odd>>

-----------------------------------------------------------------------------
Thread(a) ==
    \/ Load(a) \/ Unload(a) \/ (\E s \in {"START_PENDING", "RUNNING", "PAUSE_PENDING", "PAUSED",
                                          "STOP_PENDING", "STOPPED"} : ReportSvcStatus(a, s))
    \/ Query(a) \/ Control(a, "STOP")

Caller(a) ==
    \/ Query(a) \/ (\E c \in {"STOP", "PAUSE", "CONTINUE"} : Control(a, c))
    \/ StartService(a) \/ ServiceInstall(a) \/ InstallKeys(a)
    \/ ServiceRemove(a) \/ DeleteService(a) \/ RemoveKeys(a)

Next ==
    \/ \E a \in Threads : Thread(a)
    \/ \E a \in Callers : Caller(a) \/ Killed(a) \/ main(a)
    \/ register \/ ServiceInit \/ getchar \/ Exit \/ ConsoleEnds \/ MainThreadWork \/ ServiceForgotten

Spec == Init /\ [][Next]_vars

\* Threads and commands that can go on do so; nobody has to give a command.
FairSpec ==
    /\ Spec
    /\ \A a \in Threads : WF_vars(Thread(a))
    /\ \A a \in Callers : WF_vars(Caller(a))
    /\ WF_vars(register \/ ServiceInit) /\ WF_vars(Exit)

-----------------------------------------------------------------------------
(* Properties.                                                             *)

Reports == {"START_PENDING", "RUNNING", "PAUSE_PENDING", "PAUSED", "STOP_PENDING", "STOPPED"}

\* The steps of the service's threads and of the commands.
Steps ==
    Reports \cup {"register", "init", "open", "connect", "start_pipe", "finalize", "close_pipe", "close_engine",
                  "query_start", "query_pause", "query_continue", "query_stop", "start", "PAUSE", "CONTINUE",
                  "STOP", "install", "keys", "remove", "delete", "delete_keys", "first", "getchar", "hung"}

\* The variables keep their types.
TypeOK ==
    /\ job \in [Actors -> Seq(Steps)]
    /\ proc \in {"none", "service", "console"}
    /\ state \in Reports
    /\ ctx \subseteq {"engine", "port", "pipe", "listener"}
    /\ live \in [{"engine", "port", "listener"} -> Int]
    /\ opening \in Nat /\ instances \in Nat /\ failed \in BOOLEAN
    /\ installed \in {"no", "yes", "marked"} /\ keys \subseteq Keys /\ unkeyed \in BOOLEAN
    /\ commands \in 0..MaxCommands
    /\ odd \subseteq {"continueFailed", "hung", "noHandler", "noEvent", "unclean", "earlyControl",
                      "lateContinue", "stopRefused"}

\* Steps that the code does not order: a control that reaches the handler while ServiceMain
\* still loads (RUNNING is reported before the load), a CONTINUE sent on a stale query, a
\* service that goes on after STOPPED.
Unordered == odd \cap {"earlyControl", "lateContinue", "noEvent"} # {}

\* A paused service has given up its engine, its driver port and its listener: PAUSED is
\* reported after the unload, and what a load left half done is unloaded as well.  (The pipe
\* instance it keeps: see InstancesServed.)
PausedIsUnloaded == state = "PAUSED" /\ ~Unordered => live = Nothing

\* However often the service is paused, resumed and stopped, there is at most one engine,
\* one driver port and one listener, and none is closed twice.
AtMostOne == ~Unordered => \A r \in DOMAIN live : live[r] \in 0..1

\* A service that says RUNNING with no thread of it at work has an engine and a listener,
\* unless resuming it failed (ServiceStop, called in the handler, cannot reach the handler) or
\* the listener failed, which nobody waits for: Start_IHM_Connection had succeeded.
RunningIsLoaded ==
    /\ proc = "service" /\ state = "RUNNING" /\ job["main"] = <<>> /\ job["handler"] = <<>>
    /\ ~Unordered /\ "continueFailed" \notin odd
    => /\ {"engine", "pipe"} \subseteq ctx /\ live.engine = 1
       /\ live.listener = 1 \/ failed

\* Each listener that waits for clients has a pipe instance of its own, whatever the order of
\* the steps.  There may be more instances than listeners: one stays after each pause, and its
\* clients are not served.
InstancesServed == instances >= live.listener - opening

\* The process ends with everything closed, whatever failed before, also in console mode:
\* a load that failed half way is unloaded by ServiceStop or by the end of the console.
CleanExit == "unclean" \in odd => Unordered

\* An installed service has its crash dump key, unless its installation is not yet there, could
\* not create it or was ended before: ServiceInstall then leaves the service installed.  A
\* removal that goes on beside it never takes the key of the next installation away, for the
\* keys go after the mark and before the handle that keeps the service from being forgotten.
InstalledHasKey ==
    installed = "yes" => "dump" \in keys \/ unkeyed \/ \E a \in Callers : At(a, "keys")

\* Every command ends: only ServiceStop waits without a time-out, while a stop is pending,
\* and the handler ends that state unless UserScanFinalize hangs.  (TerminateAllScanThreads
\* waits without a time-out only for three client threads, which are not modelled; for fewer
\* the wait fails at once.)
CommandsEnd == \A a \in Callers : job[a] # <<>> ~> (job[a] = <<>> \/ "hung" \in odd)

\* A service whose first load failed stops, unless a control reached it meanwhile or
\* UserScanFinalize hangs.
FailedStartStops ==
    (At("main", "query_stop") /\ "noHandler" \notin odd)
        ~> (state = "STOPPED" \/ Unordered \/ odd \cap {"hung", "stopRefused"} # {})

\* What is loaded fits the state the service reports, through every order of load, pause,
\* resume, stop and end that the code's threads allow, but for the orders named Unordered.
LoadedFitsState ==
    TypeOK /\ PausedIsUnloaded /\ AtMostOne /\ RunningIsLoaded /\ InstancesServed /\ CleanExit

\* The service and the commands about it come to an end: no caller waits for ever for a
\* pending stop, and a service that could not start does not stay.
ServiceProgress == CommandsEnd /\ FailedStartStops
==============================================================================
