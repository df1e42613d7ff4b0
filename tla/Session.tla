------------------------------- MODULE Session -------------------------------
(***************************************************************************)
(* Clients of the Linux daemon and the events they get: connections and    *)
(* their threads (server.c), the methods scan and listen (rpcbe.c), the    *)
(* list of callbacks of the event source (event.c), the journal, and the   *)
(* scan client (armadito-scan.c).                                          *)
(*                                                                         *)
(* The list is changed and walked by several threads without a lock, its   *)
(* entries are never removed, and they point to connections and scans that *)
(* are freed.  What reading freed memory gives is a choice.  Scans are     *)
(* told apart by ids that their clients chose.  The client may throw any   *)
(* message away: its reads of the stream merge and cut them, as JsonRpc    *)
(* has it in detail.                                                       *)
(***************************************************************************)
EXTENDS Integers, Sequences, FiniteSets

CONSTANTS
    Clients,
    Wants,         \* Wants[c]: what client c may ask for: scan, listen, other
    Ids,           \* the ids of scans
    IdsOf,         \* IdsOf[t]: those that client t may choose, or the monitor's events have
    ListenMask,    \* the types of events the listening clients ask for
    ScanScript,    \* the types of the events a scan fires, in order
    MonitorScript  \* the same for the on-access monitor

EventTypes == {"start", "detection", "progress", "completed"}

ASSUME ClientsAssumption == {"journal", "nil", "monitor", "idle"} \cap Clients = {}
ASSUME WantsAssumption == Wants \in [Clients -> SUBSET {"scan", "listen", "other"}]
ASSUME MaskAssumption == ListenMask \subseteq EventTypes
ASSUME ScriptAssumption == ScanScript \in Seq(EventTypes) /\ MonitorScript \in Seq({"detection"})

Nodes == Clients \cup {"journal"}        \* entries of the list: one per client at most
Firing == Clients \cup {"monitor"}       \* threads that fire events: of scans, and the monitor's
ASSUME IdsAssumption == Ids # {} /\ IdsOf \in [Firing -> SUBSET Ids]
Event == [type : EventTypes, scan : Firing, id : Ids]

VARIABLES
    up,          \* the daemon runs
    peer,        \* the client's end of the socket: idle, connected, closed
    conn,        \* the daemon's connection: none, open, freed
    want, id,    \* the request of each client, and the id it gives to its scan
    stage,       \* of the request in client_thread: none, sent, linked, reply, done
    head, next,  \* s->callbacks and the entries' links
    scan,        \* the on-demand scan of each client: none, running, freed
    script,      \* events each thread has still to fire
    at, ev,      \* the entry a firing thread is at, and its event
    got,         \* events each client received
    lost,        \* clients that threw the completed event of their scan away
    journal,     \* events in the journal
    fired,       \* events whose firing has ended
    overlap,     \* two a6o_event_source_add_cb ran at the same time
    freedUse,    \* clients whose scan was read after it was freed
    strayed      \* a freed connection was written to

cVars == <<peer, conn, want, id>>
lVars == <<stage, head, next, overlap>>
sVars == <<scan, script, at, ev, fired>>
oVars == <<got, lost, journal, freedUse, strayed>>
vars == <<up, cVars, lVars, sVars, oVars>>

Message(type, t, i) == [type |-> type, scan |-> t, id |-> i]
AnyId == CHOOSE i \in Ids : TRUE
NoEvent == Message("start", "monitor", AnyId)

Init ==
    /\ up = TRUE
    /\ peer = [c \in Clients |-> "idle"] /\ conn = [c \in Clients |-> "none"]
    /\ want = [c \in Clients |-> "none"] /\ id = [c \in Clients |-> AnyId]
    /\ stage = [c \in Clients |-> "none"]
    /\ head = "journal" /\ next = [n \in Nodes |-> "nil"]
    /\ scan = [c \in Clients |-> "none"]
    /\ script = [t \in Firing |-> IF t = "monitor" THEN MonitorScript ELSE <<>>]
    /\ at = [t \in Firing |-> "idle"] /\ ev = [t \in Firing |-> NoEvent]
    /\ got = [c \in Clients |-> {}] /\ lost = {}
    /\ journal = {} /\ fired = {}
    /\ overlap = FALSE /\ freedUse = {} /\ strayed = FALSE

-----------------------------------------------------------------------------
(* Connections.                                                            *)

\* connect(), server_listen_cb, which gives the connection to a thread, and the request, with
\* an id that nothing makes different from another client's (create_scan_id).
server_listen_cb(c) ==
    /\ up /\ peer[c] = "idle"
    /\ peer' = [peer EXCEPT ![c] = "connected"]
    /\ conn' = [conn EXCEPT ![c] = "open"]
    /\ \E w \in Wants[c] :
          /\ want' = [want EXCEPT ![c] = w]
          /\ \E i \in (IF w = "scan" THEN IdsOf[c] ELSE {id[c]}) : id' = [id EXCEPT ![c] = i]
    /\ stage' = [stage EXCEPT ![c] = "sent"]
    /\ UNCHANGED <<up, head, next, overlap, sVars, oVars>>

\* The client's process ends: do_scan leaves its loop when a completed event has come, a client
\* is killed, or a listener leaves.
Leave(c) ==
    /\ up /\ peer[c] = "connected"
    /\ peer' = [peer EXCEPT ![c] = "closed"]
    /\ got' = [got EXCEPT ![c] = {}] /\ lost' = lost \ {c}
    /\ UNCHANGED <<up, conn, want, id, lVars, sVars, journal, freedUse, strayed>>

\* client_thread meets the end of the stream: the connection is freed, the callbacks stay.
client_thread_eof(c) ==
    /\ up /\ conn[c] = "open" /\ peer[c] = "closed" /\ stage[c] = "done"
    /\ conn' = [conn EXCEPT ![c] = "freed"]
    /\ UNCHANGED <<up, peer, want, id, lVars, sVars, oVars>>

-----------------------------------------------------------------------------
(* scan_method and listen_method: a6o_event_source_add_cb, in the two      *)
(* steps that matter to the other threads, then the scan thread, and the   *)
(* reply to the request.                                                   *)

\* status, or parameters that cannot be read: nothing is registered.
status_method(c) ==
    /\ up /\ stage[c] = "sent" /\ want[c] = "other"
    /\ stage' = [stage EXCEPT ![c] = "reply"]
    /\ UNCHANGED <<up, cVars, head, next, overlap, sVars, oVars>>

\* p->next = s->callbacks
add_cb_link(c) ==
    /\ up /\ stage[c] = "sent" /\ want[c] \in {"scan", "listen"}
    /\ next' = [next EXCEPT ![c] = head]
    /\ stage' = [stage EXCEPT ![c] = "linked"]
    /\ overlap' = (overlap \/ \E d \in Clients : stage[d] = "linked")
    /\ UNCHANGED <<up, cVars, head, sVars, oVars>>

\* Mutant: the entry gets its link after it was put into the list.
MutHeadFirst(c) ==
    /\ up /\ stage[c] = "linked"
    /\ IF head # c
          THEN head' = c /\ next' = [next EXCEPT ![c] = "nil"] /\ UNCHANGED <<stage, scan, script>>
          ELSE /\ next' = [next EXCEPT ![c] = "journal"] /\ UNCHANGED head
               /\ stage' = [stage EXCEPT ![c] = "reply"]
               /\ scan' = IF want[c] = "scan" THEN [scan EXCEPT ![c] = "running"] ELSE scan
               /\ script' = IF want[c] = "scan" THEN [script EXCEPT ![c] = ScanScript] ELSE script
    /\ UNCHANGED <<up, cVars, overlap, at, ev, fired, oVars>>

\* s->callbacks = p, and g_thread_new for a scan.
add_cb_publish(c) ==
    /\ up /\ stage[c] = "linked"
    /\ head' = c
    /\ stage' = [stage EXCEPT ![c] = "reply"]
    /\ scan' = IF want[c] = "scan" THEN [scan EXCEPT ![c] = "running"] ELSE scan
    /\ script' = IF want[c] = "scan" THEN [script EXCEPT ![c] = ScanScript] ELSE script
    /\ UNCHANGED <<up, cVars, next, overlap, at, ev, fired, oVars>>

\* connection_process_request sends the result, or the error, to its client.  To a socket whose
\* other end is closed, SIGPIPE ends the daemon unless it was started with the signal ignored.
reply(c) ==
    /\ up /\ stage[c] = "reply"
    /\ stage' = [stage EXCEPT ![c] = "done"]
    /\ up' \in {TRUE, peer[c] = "connected"}
    /\ UNCHANGED <<cVars, head, next, overlap, sVars, oVars>>

-----------------------------------------------------------------------------
(* a6o_event_source_fire_event.                                            *)

\* The monitor never sets the id of its events: it is whatever is on the stack.
Fire(t) ==
    /\ up /\ at[t] = "idle" /\ script[t] # <<>>
    /\ \E i \in (IF t = "monitor" THEN IdsOf[t] ELSE {id[t]}) :
          ev' = [ev EXCEPT ![t] = Message(Head(script[t]), t, i)]
    /\ script' = [script EXCEPT ![t] = Tail(@)]
    /\ at' = [at EXCEPT ![t] = head]
    /\ UNCHANGED <<up, cVars, lVars, scan, fired, oVars>>

\* Mutant: scan_method does not ask for the completed event.
MutMaskNoCompleted(n) ==
    IF n = "journal" THEN {"start", "detection", "completed"}
    ELSE IF want[n] = "scan" THEN {"detection", "progress"} ELSE ListenMask

Mask(n) ==
    IF n = "journal" THEN {"start", "detection", "completed"}
    ELSE IF want[n] = "scan" THEN {"detection", "progress", "completed"} ELSE ListenMask

\* Message m over the stream to client c: it comes to jrpc_process, or stands behind another
\* one of the same recv, or is cut by the end of the buffer, and is thrown away.
Send(c, m) ==
    \/ got' = [got EXCEPT ![c] = @ \cup {m}] /\ UNCHANGED lost
    \/ /\ lost' = IF m.type = "completed" /\ m.scan = c THEN lost \cup {c} ELSE lost
       /\ UNCHANGED got

\* jrpc_notify to client c: written to a freed connection, to a socket whose other end is
\* closed, or to the stream.  A freed connection has a lock, a function and a descriptor of
\* whatever is in memory: nothing is written, or the daemon ends, or, if the number
\* of the socket was given again, another client gets the message.
notify(c, t) ==
    \/ /\ conn[c] = "freed" /\ strayed' = TRUE
       /\ \/ up' \in BOOLEAN /\ UNCHANGED <<got, lost>>
          \/ /\ \E d \in Clients : conn[d] = "open" /\ peer[d] = "connected" /\ Send(d, ev[t])
             /\ UNCHANGED up
    \/ /\ conn[c] = "open" /\ peer[c] = "closed"
       /\ up' \in BOOLEAN /\ UNCHANGED <<got, lost, strayed>>
    \/ /\ conn[c] = "open" /\ peer[c] = "connected"
       /\ Send(c, ev[t]) /\ UNCHANGED <<up, strayed>>

ignore == UNCHANGED <<up, got, lost, strayed>>

\* Mutant: detections are not filtered.
MutScanCbAll(c, t) ==
    \/ /\ scan[c] = "freed" /\ freedUse' = freedUse \cup {c}
       /\ notify(c, t) \/ ignore
    \/ /\ scan[c] # "freed" /\ UNCHANGED freedUse
       /\ IF ev[t].id = id[c] \/ ev[t].type = "detection" THEN notify(c, t) ELSE ignore

\* scan_event_cb compares the event's id with that of the client's scan.  The id of a freed
\* scan is whatever is in memory.
scan_event_cb(c, t) ==
    \/ /\ scan[c] = "freed" /\ freedUse' = freedUse \cup {c}
       /\ notify(c, t) \/ ignore
    \/ /\ scan[c] # "freed" /\ UNCHANGED freedUse
       /\ IF ev[t].id = id[c] THEN notify(c, t) ELSE ignore

\* The callback of entry n.
callback(n, t) ==
    \/ n = "journal" /\ journal' = journal \cup {ev[t]} /\ ignore /\ UNCHANGED freedUse
    \/ n # "journal" /\ want[n] = "scan" /\ scan_event_cb(n, t) /\ UNCHANGED journal
    \/ n # "journal" /\ want[n] # "scan" /\ notify(n, t) /\ UNCHANGED <<freedUse, journal>>

\* One round of the loop over the list; after the last entry the event has been fired.
fire_event(t) ==
    /\ up /\ at[t] \in Nodes
    /\ IF ev[t].type \in Mask(at[t]) THEN callback(at[t], t) ELSE UNCHANGED <<up, oVars>>
    /\ IF next[at[t]] \in Nodes
          THEN at' = [at EXCEPT ![t] = next[at[t]]] /\ UNCHANGED fired
          ELSE at' = [at EXCEPT ![t] = "idle"] /\ fired' = fired \cup {ev[t]}
    /\ UNCHANGED <<cVars, lVars, scan, script, ev>>

\* scan_thread_fun, after a6o_on_demand_run.
scan_thread_ends(c) ==
    /\ up /\ scan[c] = "running" /\ script[c] = <<>> /\ at[c] = "idle"
    /\ scan' = [scan EXCEPT ![c] = "freed"]
    /\ UNCHANGED <<up, cVars, lVars, script, at, ev, fired, oVars>>

-----------------------------------------------------------------------------
Serve(c) == status_method(c) \/ add_cb_link(c) \/ add_cb_publish(c) \/ reply(c) \/ client_thread_eof(c)
FireThread(t) == Fire(t) \/ fire_event(t)

Next ==
    \/ \E c \in Clients :
          server_listen_cb(c) \/ Leave(c) \/ Serve(c) \/ scan_thread_ends(c)
    \/ \E t \in Firing : FireThread(t)

Spec == Init /\ [][Next]_vars

\* The daemon's threads run.
FairSpec ==
    /\ Spec
    /\ \A c \in Clients : WF_vars(Serve(c))
    /\ \A t \in Firing : WF_vars(FireThread(t))

-----------------------------------------------------------------------------
(* Properties.                                                             *)

\* The variables keep their types.
TypeOK ==
    /\ up \in BOOLEAN /\ overlap \in BOOLEAN
    /\ peer \in [Clients -> {"idle", "connected", "closed"}]
    /\ conn \in [Clients -> {"none", "open", "freed"}]
    /\ want \in [Clients -> {"none", "scan", "listen", "other"}]
    /\ id \in [Clients -> Ids]
    /\ stage \in [Clients -> {"none", "sent", "linked", "reply", "done"}]
    /\ head \in Nodes /\ next \in [Nodes -> Nodes \cup {"nil"}]
    /\ scan \in [Clients -> {"none", "running", "freed"}]
    /\ script \in [Firing -> Seq(EventTypes)]
    /\ at \in [Firing -> Nodes \cup {"idle"}] /\ ev \in [Firing -> Event]
    /\ got \in [Clients -> SUBSET Event] /\ lost \subseteq Clients
    /\ journal \subseteq Event /\ fired \subseteq Event
    /\ freedUse \subseteq Clients /\ strayed \in BOOLEAN

\* Every event that was fired is in the journal, progress excepted, although clients add
\* callbacks to the list while it is walked: an entry is linked before it is published, and
\* the journal's entry stays at the end of every list (a6o_event_source_add_cb).
JournalComplete == \A e \in fired : e.type # "progress" => e \in journal

\* The message is of the client's own scan, or of one that cannot be told from it: a scan to
\* which another client gave the same id, or the monitor with that id by chance.
OfScan(m, c) ==
    \/ m.scan = c
    \/ m.scan = "monitor" /\ m.id = id[c]
    \/ m.scan \in Clients /\ id[m.scan] = id[c]

\* A scan client gets the events of its own scan only, unless the ids are equal, or
\* scan_event_cb read the id of its scan after it was freed, or a connection was written to
\* that was freed.
OwnEventsOnly ==
    \A c \in Clients : want[c] = "scan" =>
        \/ \A m \in got[c] : OfScan(m, c)
        \/ c \in freedUse \/ strayed

\* The events of a scan never read the freed scan itself: scan_thread_fun frees it after
\* a6o_on_demand_run has fired the last one.  Other threads' events do.
OwnScanAlive == \A c \in Clients : at[c] # "idle" => scan[c] = "running"

\* The entries in the list from node head on: those in every set of entries that has head
\* and with each entry the one it links to.
Reachable ==
    {n \in Nodes : \A S \in SUBSET (Nodes \cup {"nil"}) :
        head \in S /\ (\A m \in S \cap Nodes : next[m] \in S) => n \in S}

\* A registered callback stays in the list, unless two threads added callbacks at the same
\* time: the list has no lock, and one of the two entries is then lost.
ListenersKept ==
    \A c \in Clients : stage[c] \in {"reply", "done"} /\ want[c] # "other" /\ ~overlap => c \in Reachable

\* A client that asked for a scan and stays connected gets the completed event, if no
\* registration was lost, the daemon was not ended by SIGPIPE or a freed connection, and
\* the client threw no message away: the callback is in the list before the scan starts,
\* and every walk of the list ends.  A client that lost the event waits for ever.
CompletedReaches ==
    \A c \in Clients :
        (want[c] = "scan") ~> (\/ \E e \in got[c] : e.type = "completed" /\ e.scan = c
                               \/ peer[c] = "closed" \/ ~up \/ overlap \/ c \in lost)

\* The unlocked list of callbacks stays a list under concurrent additions and walks: no walk
\* misses the journal, and registered callbacks stay, but for additions at the same time.
CallbackListSound == TypeOK /\ JournalComplete /\ ListenersKept

\* scan_event_cb tells scans apart as far as their ids do, although callbacks outlive their
\* scans: a client gets the events of its own scan, whose own thread never finds it freed.
EventsOfOwnScan == OwnEventsOnly /\ OwnScanAlive
==============================================================================
