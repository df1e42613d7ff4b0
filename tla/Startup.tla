------------------------------- MODULE Startup -------------------------------
(***************************************************************************)
(* The daemon from its configuration files to its first scans: a6o_open    *)
(* (armadito.c) initialises, configures and post-initialises the modules   *)
(* (module.c), the built-in scan modules fill the scan configurations      *)
(* (scanconf.c), and then threads ask for the modules to run on a type of  *)
(* file, and clients for the state of the modules (info.c).                *)
(***************************************************************************)
EXTENDS Configuration, FiniteSets

CONSTANTS
    Modules,     \* the modules that are found, in order
    ScanModules, \* the built-in ones that have a scan configuration: on-demand, on-access
    Functions,   \* Functions[m]: which of init, post_init and close module m has
    ConfTable,   \* ConfTable[m]: the types of value each key of module m takes
    Supports,    \* Supports[m]: the types of files module m is for, "*" for all
    Types,       \* types of files that are met
    Threads      \* threads, each with one file to scan

ASSUME ModulesAssumption == Range(Modules) = DOMAIN ConfTable
ASSUME ScanModulesAssumption == ScanModules \subseteq Range(Modules)

M == Range(Modules)
UpdateStatus == {"NON_AVAILABLE", "OK", "LATE", "CRITICAL"}

VARIABLES
    phase,     \* load, init, configure, post_init, running, close, closed
    n,         \* modules or sections of this phase that are done
    k,         \* keys of the section that are done
    status,    \* module->status
    did,       \* the functions of each module that were called
    scanconf,  \* the scan configuration of each scan module, NULL before its first use
    cache,     \* mime_type_cache of each
    thread,    \* what each scan thread does, for which module and type, and what it found
    info       \* the last answer of a6o_info_new

mVars == <<n, k, status, did>>
sVars == <<scanconf, cache, thread>>
vars == <<confVars, phase, mVars, sVars, info>>

Empty == [modules |-> <<>>, types |-> <<>>, white |-> <<>>, size |-> "0"]
Idle == [pc |-> "idle", conf |-> NULL, type |-> NULL, found |-> NULL]
NoInfo == [said |-> <<>>, global |-> "NON_AVAILABLE", listed |-> {}]

StartupInit ==
    /\ Init
    /\ phase = "load" /\ n = 0 /\ k = 0
    /\ status = [m \in M |-> "OK"] /\ did = [m \in M |-> <<>>]
    /\ scanconf = [s \in ScanModules |-> NULL] /\ cache = [s \in ScanModules |-> <<>>]
    /\ thread = [t \in Threads |-> Idle] /\ info = NoInfo

-----------------------------------------------------------------------------
(* a6o_open.                                                               *)

Load ==
    /\ phase = "load" /\ ConfigurationNext
    /\ UNCHANGED <<phase, mVars, sVars, info>>

a6o_open ==
    /\ phase = "load" /\ Loaded /\ loaded # NULL
    /\ phase' = "init" /\ loaded' = NULL
    /\ UNCHANGED <<conf, files, pVars, saved, mVars, sVars, info>>

\* Mutant: modules that failed are called like the others.
MutAllModules(step, next) ==
    /\ phase = step
    /\ \/ /\ n < Len(Modules)
          /\ n' = n + 1 /\ UNCHANGED phase
          /\ LET m == Modules[n + 1]
             IN  \/ /\ step \in Functions[m]
                    /\ \E ok \in BOOLEAN :
                          /\ status' = [status EXCEPT ![m] = IF ok THEN "OK" ELSE "failed"]
                          /\ did' = [did EXCEPT ![m] = Append(@, [fun |-> step, ok |-> ok])]
                 \/ step \notin Functions[m] /\ UNCHANGED <<status, did>>
       \/ n = Len(Modules) /\ n' = 0 /\ phase' = next /\ UNCHANGED <<status, did>>
    /\ UNCHANGED <<confVars, k, sVars, info>>

\* module_manager_all: a function of each module whose status is still good, in order.
module_manager_all(step, next) ==
    /\ phase = step
    /\ \/ /\ n < Len(Modules)
          /\ n' = n + 1 /\ UNCHANGED phase
          /\ LET m == Modules[n + 1]
             IN  \/ /\ status[m] = "OK" /\ step \in Functions[m]
                    /\ \E ok \in BOOLEAN :
                          /\ status' = [status EXCEPT ![m] = IF ok THEN "OK" ELSE "failed"]
                          /\ did' = [did EXCEPT ![m] = Append(@, [fun |-> step, ok |-> ok])]
                 \/ (status[m] # "OK" \/ step \notin Functions[m]) /\ UNCHANGED <<status, did>>
       \/ n = Len(Modules) /\ n' = 0 /\ phase' = next /\ UNCHANGED <<status, did>>
    /\ UNCHANGED <<confVars, k, sVars, info>>

module_manager_init_all == module_manager_all("init", "configure")
module_manager_post_init_all == module_manager_all("post_init", "running")
module_manager_close_all == module_manager_all("close", "closed")

-----------------------------------------------------------------------------
(* module_manager_configure_all: module_conf_fun for every entry.          *)

\* get_conf: the configuration is made on first use.
Made(s) == IF scanconf[s] = NULL THEN Empty ELSE scanconf[s]

\* a6o_scan_conf_add_module, for names of modules that exist.
AddModules(c, names) == [c EXCEPT !.modules = @ \o SelectSeq(names, LAMBDA m : m \in M)]

\* Mutant: only the first item of a list is used.
MutFirstItem(s, name, v) ==
    [scanconf EXCEPT ![s] =
        CASE name = "modules" -> AddModules(Made(s), <<v.items[1]>>)
          [] name = "types"   -> [Made(s) EXCEPT !.types = @ \o v.items]
          [] name = "white"   -> [Made(s) EXCEPT !.white = @ \o v.items]
          [] name = "size"    -> [Made(s) EXCEPT !.size = v.items[1]]]

\* The conf functions of the on-demand and the on-access module.
conf_fun(s, name, v) ==
    [scanconf EXCEPT ![s] =
        CASE name = "modules" -> AddModules(Made(s), v.items)
          [] name = "types"   -> [Made(s) EXCEPT !.types = @ \o v.items]
          [] name = "white"   -> [Made(s) EXCEPT !.white = @ \o v.items]
          [] name = "size"    -> [Made(s) EXCEPT !.size = v.items[1]]]

\* module_conf_fun calls a function: the module and the key exist, and the type is right.
Applies(m, e) == m \in M /\ e.key \in DOMAIN ConfTable[m] /\ e.value.type \in ConfTable[m][e.key]

module_conf_fun ==
    /\ phase = "configure" /\ n < Len(conf) /\ k < Len(conf[n + 1].keys)
    /\ k' = k + 1
    /\ LET m == conf[n + 1].section
           e == conf[n + 1].keys[k + 1]
       IN  IF Applies(m, e)
           THEN /\ did' = [did EXCEPT ![m] = Append(@, [fun |-> "conf", ok |-> TRUE])]
                /\ scanconf' = IF m \in ScanModules THEN conf_fun(m, e.key, e.value) ELSE scanconf
           ELSE UNCHANGED <<did, scanconf>>
    /\ UNCHANGED <<confVars, phase, n, status, cache, thread, info>>

\* The next section, and the end of a6o_conf_apply.
a6o_conf_apply ==
    /\ phase = "configure"
    /\ \/ /\ n < Len(conf) /\ k = Len(conf[n + 1].keys)
          /\ n' = n + 1 /\ k' = 0 /\ UNCHANGED phase
       \/ n = Len(conf) /\ n' = 0 /\ k' = 0 /\ phase' = "post_init"
    /\ UNCHANGED <<confVars, status, did, sVars, info>>

-----------------------------------------------------------------------------
(* Scans.                                                                  *)

mime_type_contains(types, t) == t \in types \/ "*" \in types

\* build_module_array
Build(s, t) == SelectSeq(scanconf[s].modules, LAMBDA m : mime_type_contains(Supports[m], t))

\* The scan of one file calls get_conf, and finds a configuration or none.
get_conf(t) ==
    /\ phase = "running" /\ thread[t].pc = "idle" /\ info = NoInfo
    /\ \E s \in ScanModules, y \in Types :
          thread' = [thread EXCEPT ![t] = [pc |-> IF scanconf[s] = NULL THEN "new" ELSE "lookup",
                                           conf |-> s, type |-> y, found |-> NULL]]
    /\ UNCHANGED <<confVars, phase, mVars, scanconf, cache, info>>

\* a6o_scan_conf_new: another thread may have made one since; it is replaced.
a6o_scan_conf_new(t) ==
    /\ thread[t].pc = "new"
    /\ scanconf' = [scanconf EXCEPT ![thread[t].conf] = Empty]
    /\ cache' = [cache EXCEPT ![thread[t].conf] = <<>>]
    /\ thread' = [thread EXCEPT ![t].pc = "lookup"]
    /\ UNCHANGED <<confVars, phase, mVars, info>>

\* Cached values: <<type, modules>>, at most one for a type that counts.
Cached(s, y) == \E i \in DOMAIN cache[s] : cache[s][i][1] = y

\* get_applicable_modules, up to the result: from the cache, or built, or none.
get_applicable_modules(t) ==
    LET s == thread[t].conf
        y == thread[t].type
    IN  /\ thread[t].pc = "lookup"
        /\ \/ /\ Cached(s, y)
              /\ \E i \in DOMAIN cache[s] :
                    /\ cache[s][i][1] = y
                    /\ thread' = [thread EXCEPT ![t].pc = "done", ![t].found = cache[s][i][2]]
           \/ /\ ~Cached(s, y)
              /\ thread' = [thread EXCEPT
                    ![t].pc = "insert",
                    ![t].found = IF mime_type_contains(Range(scanconf[s].types), y) THEN Build(s, y) ELSE <<>>]
        /\ UNCHANGED <<confVars, phase, mVars, scanconf, cache, info>>

\* g_hash_table_insert replaces what another thread has put there.
Insert(t) ==
    /\ thread[t].pc = "insert"
    /\ cache' = [cache EXCEPT ![thread[t].conf] =
                    Append(SelectSeq(@, LAMBDA e : e[1] # thread[t].type), <<thread[t].type, thread[t].found>>)]
    /\ thread' = [thread EXCEPT ![t].pc = "done"]
    /\ UNCHANGED <<confVars, phase, mVars, scanconf, info>>

-----------------------------------------------------------------------------
(* a6o_info_new, and the end.                                              *)

\* update_status_compare(a, b) < 0
update_status_compare(a, b) ==
    \/ a = "NON_AVAILABLE" /\ b # a
    \/ a = "OK" /\ b \in {"LATE", "CRITICAL"}
    \/ a = "LATE" /\ b = "CRITICAL"

\* The modules answer as they like, good status or not.  Scans neither see nor change this, so
\* only the requests that come before them are looked at.
a6o_info_new ==
    /\ phase = "running" /\ info = NoInfo /\ \A t \in Threads : thread[t].pc = "idle"
    /\ \E said \in [DOMAIN Modules -> UpdateStatus] :
          /\ \A i \in DOMAIN Modules : Modules[i] \in ScanModules => said[i] = "NON_AVAILABLE"
          /\ info' = [said   |-> said,
                      global |-> FoldLeft(LAMBDA g, u : IF update_status_compare(g, u) THEN u ELSE g,
                                          "NON_AVAILABLE", said),
                      listed |-> {Modules[i] : i \in {i \in DOMAIN Modules : said[i] # "NON_AVAILABLE"}}]
    /\ UNCHANGED <<confVars, phase, mVars, sVars>>

a6o_info_free ==
    /\ info # NoInfo /\ info' = NoInfo
    /\ UNCHANGED <<confVars, phase, mVars, sVars>>

a6o_close ==
    /\ phase = "running" /\ info = NoInfo /\ \A t \in Threads : thread[t].pc \in {"idle", "done"}
    /\ phase' = "close"
    /\ UNCHANGED <<confVars, mVars, sVars, info>>

-----------------------------------------------------------------------------
Open == a6o_open \/ module_manager_init_all \/ module_conf_fun \/ a6o_conf_apply \/ module_manager_post_init_all
Scan(t) == get_conf(t) \/ a6o_scan_conf_new(t) \/ get_applicable_modules(t) \/ Insert(t)

Next ==
    \/ Load \/ Open \/ (\E t \in Threads : Scan(t))
    \/ a6o_info_new \/ a6o_info_free \/ a6o_close \/ module_manager_close_all

Spec == StartupInit /\ [][Next]_vars

-----------------------------------------------------------------------------
(* Properties.                                                             *)

\* The variables keep their types.
TypeOK ==
    /\ phase \in {"load", "init", "configure", "post_init", "running", "close", "closed"}
    /\ at \in {"idle", "section_list", "section_name", "right_brace", "definition_list", "equal_sign",
               "value", "opt_string_list", "list_string_value", "callback"}
    /\ value.type \in {"void", "int", "string", "list"}
    /\ status \in [M -> {"OK", "failed"}]
    /\ \A s \in ScanModules : scanconf[s] # NULL => Range(scanconf[s].modules) \subseteq M
    /\ info.global \in UpdateStatus

Order(fun) == CASE fun = "init" -> 1 [] fun = "conf" -> 2 [] fun = "post_init" -> 3 [] fun = "close" -> 4

\* Each module is initialised, configured, post-initialised and closed in this order, each
\* once but for its configuration functions, and after a failure only these are called
\* (module_manager_all, module_conf_fun).
LifeCycle ==
    \A m \in M : \A i, j \in DOMAIN did[m] : i < j =>
        /\ \/ Order(did[m][i].fun) < Order(did[m][j].fun)
           \/ did[m][i].fun = "conf" /\ did[m][j].fun = "conf"
        /\ did[m][i].ok \/ did[m][j].fun = "conf"

\* What key name of section s says, all definitions together.
Said(s, name) == UNION {Range(e[3].items) : e \in {e \in Entries(conf) : e[1] = s /\ e[2] = name /\ e[3].type # "int"}}

\* The modules a scan runs on a type of file are those the configuration file names for it, of
\* the ones that exist and support the type, if the file names the type; although the
\* configurations are made on first use and the answers are cached by several threads
\* without a lock, and nothing refreshes the cache.
ScansAsConfigured ==
    \A t \in Threads : thread[t].pc = "done" =>
        LET s == thread[t].conf
            y == thread[t].type
        IN  Range(thread[t].found) =
                IF mime_type_contains(Said(s, "types"), y)
                THEN {m \in Said(s, "modules") \cap M : mime_type_contains(Supports[m], y)}
                ELSE {}

Severity(u) == CASE u = "NON_AVAILABLE" -> 0 [] u = "OK" -> 1 [] u = "LATE" -> 2 [] u = "CRITICAL" -> 3

\* The global status is the worst one that a module gave.
WorstStatus ==
    info # NoInfo =>
        /\ \A i \in DOMAIN Modules : Severity(info.said[i]) <= Severity(info.global)
        /\ info.global = "NON_AVAILABLE" <=> info.listed = {}

\* Modules go through their life cycle whichever of them fails, and what a6o_info_new says of
\* all of them is what the worst one says.
ModulesInOrder == TypeOK /\ LifeCycle /\ WorstStatus
==============================================================================
