---------------------------- MODULE SessionProofs ----------------------------
(***************************************************************************)
(* Proofs about the clients of the daemon and the list of callbacks, for   *)
(* any number of clients, any requests, any events of the scans and of the *)
(* monitor.                                                                *)
(***************************************************************************)
EXTENDS Session, TLAPS

(***************************************************************************)
(* The inductive invariant.  The list is safe to walk without a lock       *)
(* because an entry is complete before it can be found: whatever a thread  *)
(* reads, the head, a link or its own place, is an entry whose request is  *)
(* registered (FoundInv), registered entries and those about to be link to *)
(* an entry (LinkInv), and only the journal's is the last.                 *)
(***************************************************************************)
Registered == {c \in Clients : stage[c] \in {"reply", "done"} /\ want[c] \in {"scan", "listen"}}

\* Before a client connects nothing is known of it.
PeerInv == \A c \in Clients : peer[c] = "idle" => stage[c] = "none" /\ got[c] = {}

\* What the threads can find are registered entries.
FoundInv ==
    /\ head \in Registered \cup {"journal"}
    /\ \A n \in Nodes : next[n] \in Registered \cup {"journal", "nil"}
    /\ \A t \in Firing : at[t] \in Registered \cup {"journal", "idle"}

\* Only the journal's entry, and entries nobody can find, have no successor.
LinkInv ==
    /\ next["journal"] = "nil"
    /\ \A c \in Clients : stage[c] = "linked" => want[c] \in {"scan", "listen"} /\ next[c] # "nil"
    /\ \A c \in Registered : next[c] # "nil"
    /\ \A c \in Clients : stage[c] \in {"none", "sent"} => next[c] = "nil"

\* A thread walks with its own event, of the id that its client chose.
WalkInv ==
    \A t \in Firing : at[t] # "idle" =>
        /\ ev[t].scan = t
        /\ t \in Clients => ev[t].id = id[t] /\ peer[t] # "idle"

\* The events that were sent are of scans whose clients have chosen their ids.
SentInv == \A c \in Clients : \A m \in got[c] : m.scan \in Clients => peer[m.scan] # "idle"

\* A scan is there while its thread has events.
ScanInv ==
    \A c \in Clients :
        /\ stage[c] \notin {"reply", "done"} => scan[c] = "none"
        /\ stage[c] # "none" => peer[c] # "idle"
        /\ scan[c] # "running" => script[c] = <<>> /\ at[c] = "idle"

\* Without additions at the same time the entry to be published links to the head.
AloneInv ==
    ~overlap => \A c \in Clients : stage[c] = "linked" =>
        next[c] = head /\ \A d \in Clients : stage[d] = "linked" => d = c

IInv ==
    /\ TypeOK /\ PeerInv /\ FoundInv /\ LinkInv /\ WalkInv /\ SentInv /\ ScanInv /\ AloneInv
    /\ JournalComplete /\ ListenersKept /\ OwnEventsOnly /\ OwnScanAlive

----------------------------------------------------------------------------
LEMMA NamesApart ==
    /\ "journal" \notin Clients /\ "nil" \notin Clients
    /\ "monitor" \notin Clients /\ "idle" \notin Clients
    /\ Nodes = Clients \cup {"journal"} /\ Firing = Clients \cup {"monitor"}
BY ClientsAssumption DEF Nodes, Firing

LEMMA InitIInv == Init => IInv
<1> SUFFICES ASSUME Init PROVE IInv
  OBVIOUS
<1> USE NamesApart DEF Init
<1>1. TypeOK
  <2>1. script \in [Firing -> Seq(EventTypes)]
    BY ScriptAssumption DEF EventTypes
  <2>2. NoEvent \in Event /\ AnyId \in Ids
    BY IdsAssumption DEF NoEvent, Message, AnyId, Event, EventTypes
  <2> QED  BY <2>1, <2>2 DEF TypeOK
<1>2. PeerInv /\ FoundInv /\ LinkInv /\ WalkInv /\ SentInv /\ ScanInv /\ AloneInv
  BY DEF PeerInv, FoundInv, LinkInv, WalkInv, SentInv, ScanInv, AloneInv, Registered
<1>3. JournalComplete /\ ListenersKept /\ OwnEventsOnly /\ OwnScanAlive
  BY DEF JournalComplete, ListenersKept, OwnEventsOnly, OwnScanAlive
<1> QED  BY <1>1, <1>2, <1>3 DEF IInv

----------------------------------------------------------------------------
(* Connections.                                                            *)

LEMMA ListenIInv == ASSUME IInv, NEW c \in Clients, server_listen_cb(c) PROVE IInv'
<1> USE NamesApart DEF IInv, TypeOK, server_listen_cb, cVars, lVars, sVars, oVars
<1>a. PICK w \in {"scan", "listen", "other"} : want' = [want EXCEPT ![c] = w]
  BY WantsAssumption
<1>i. PICK i \in Ids : id' = [id EXCEPT ![c] = i]
  <2>1. IdsOf[c] \subseteq Ids /\ id[c] \in Ids
    BY IdsAssumption
  <2> QED  BY <2>1
<1>b. stage[c] = "none" /\ got[c] = {} /\ at[c] = "idle"
  BY DEF PeerInv, ScanInv
<1>c. Registered' = Registered
  BY <1>a, <1>b DEF Registered
<1>d. Reachable' = Reachable
  BY DEF Reachable
<1>1. TypeOK'
  BY <1>a, <1>i
<1>2. FoundInv'
  BY <1>c DEF FoundInv
<1>3. LinkInv'
  BY <1>a, <1>b, <1>c DEF LinkInv
<1>4. ScanInv'
  BY <1>b DEF ScanInv
<1>5. ListenersKept'
  BY <1>a, <1>b, <1>d DEF ListenersKept
<1>6. OwnEventsOnly'
  <2> SUFFICES ASSUME NEW d \in Clients, want'[d] = "scan", d \notin freedUse, ~strayed,
                      NEW m \in got[d]
               PROVE  OfScan(m, d)'
    BY DEF OwnEventsOnly
  <2>1. d # c /\ OfScan(m, d) /\ (m.scan \in Clients => m.scan # c)
    BY <1>a, <1>b DEF OwnEventsOnly, SentInv
  <2> QED  BY <2>1, <1>i DEF OfScan
<1>7. PeerInv' /\ SentInv'
  BY DEF PeerInv, SentInv
<1>w. WalkInv'
  BY <1>b, <1>i DEF WalkInv
<1>8. AloneInv' /\ JournalComplete'
  BY DEF AloneInv, JournalComplete
<1>9. OwnScanAlive'
  BY DEF OwnScanAlive
<1> QED  BY <1>1, <1>2, <1>3, <1>4, <1>5, <1>6, <1>7, <1>8, <1>9, <1>w

LEMMA LeaveIInv == ASSUME IInv, NEW c \in Clients, Leave(c) PROVE IInv'
<1> USE NamesApart DEF IInv, TypeOK, Leave, cVars, lVars, sVars, oVars
<1>1. TypeOK'
  OBVIOUS
<1>2. PeerInv' /\ FoundInv' /\ LinkInv' /\ WalkInv' /\ SentInv'
  BY DEF PeerInv, FoundInv, Registered, LinkInv, WalkInv, SentInv
<1>3. ScanInv' /\ AloneInv' /\ JournalComplete'
  BY DEF ScanInv, AloneInv, JournalComplete
<1>4. ListenersKept' /\ OwnScanAlive'
  BY DEF ListenersKept, Reachable, OwnScanAlive
<1>5. OwnEventsOnly'
  BY DEF OwnEventsOnly, OfScan
<1> QED  BY <1>1, <1>2, <1>3, <1>4, <1>5

LEMMA EofIInv == ASSUME IInv, NEW c \in Clients, client_thread_eof(c) PROVE IInv'
<1> USE NamesApart DEF IInv, TypeOK, client_thread_eof, cVars, lVars, sVars, oVars
<1>1. TypeOK'
  OBVIOUS
<1>2. PeerInv' /\ FoundInv' /\ LinkInv' /\ WalkInv' /\ SentInv'
  BY DEF PeerInv, FoundInv, Registered, LinkInv, WalkInv, SentInv
<1>3. ScanInv' /\ AloneInv' /\ JournalComplete'
  BY DEF ScanInv, AloneInv, JournalComplete
<1>4. ListenersKept' /\ OwnEventsOnly' /\ OwnScanAlive'
  BY DEF ListenersKept, Reachable, OwnEventsOnly, OfScan, OwnScanAlive
<1> QED  BY <1>1, <1>2, <1>3, <1>4

----------------------------------------------------------------------------
(* Additions to the list.                                                  *)

LEMMA StatusIInv == ASSUME IInv, NEW c \in Clients, status_method(c) PROVE IInv'
<1> USE NamesApart DEF IInv, TypeOK, status_method, cVars, lVars, sVars, oVars
<1>1. TypeOK'
  OBVIOUS
<1>2. PeerInv' /\ FoundInv' /\ LinkInv' /\ WalkInv' /\ SentInv'
  BY DEF PeerInv, FoundInv, Registered, LinkInv, WalkInv, SentInv
<1>3. ScanInv' /\ AloneInv' /\ JournalComplete'
  BY DEF ScanInv, AloneInv, JournalComplete
<1>4. Reachable' = Reachable
  BY DEF Reachable
<1>5. ListenersKept'
  BY <1>4 DEF ListenersKept
<1>6. OwnEventsOnly' /\ OwnScanAlive'
  BY DEF OwnEventsOnly, OfScan, OwnScanAlive
<1> QED  BY <1>1, <1>2, <1>3, <1>5, <1>6

\* The list from the head on is the same before and after p->next is set: nobody finds the
\* entry yet.
LEMMA LinkIInv == ASSUME IInv, NEW c \in Clients, add_cb_link(c) PROVE IInv'
<1> USE NamesApart DEF IInv, TypeOK, add_cb_link, cVars, lVars, sVars, oVars
<1>a. stage[c] = "sent" /\ next[c] = "nil" /\ c \notin Registered /\ Registered' = Registered
  BY DEF LinkInv, Registered
<1>1. ListenersKept'
  <2> SUFFICES ASSUME NEW d \in Clients, stage'[d] \in {"reply", "done"}, want'[d] # "other", ~overlap'
               PROVE  d \in Reachable'
    BY DEF ListenersKept
  <2> SUFFICES ASSUME NEW S \in SUBSET (Nodes \cup {"nil"}), head' \in S,
                      \A m \in S \cap Nodes : next'[m] \in S
               PROVE  d \in S
    BY DEF Reachable
  <2>1. d \in Reachable
    BY DEF ListenersKept
  <2> DEFINE U == S \cup {"nil"}
  <2>2. U \in SUBSET (Nodes \cup {"nil"}) /\ head \in U
    OBVIOUS
  <2>3. ASSUME NEW m \in U \cap Nodes PROVE next[m] \in U
    <3>1. CASE m = c
      BY <1>a, <3>1
    <3>2. CASE m # c
      BY <3>2
    <3> QED  BY <3>1, <3>2
  <2>4. d \in U
    BY <2>1, <2>2, <2>3 DEF Reachable
  <2> QED  BY <2>4
<1>2. TypeOK'
  OBVIOUS
<1>3. PeerInv' /\ FoundInv' /\ LinkInv' /\ WalkInv' /\ SentInv'
  BY DEF PeerInv, FoundInv, Registered, LinkInv, WalkInv, SentInv
<1>4. ScanInv' /\ JournalComplete'
  BY DEF ScanInv, JournalComplete
<1>6. AloneInv'
  <2> SUFFICES ASSUME ~overlap', NEW d \in Clients, stage'[d] = "linked"
               PROVE  d = c /\ next'[d] = head'
    BY DEF AloneInv
  <2>1. \A e \in Clients : stage[e] # "linked"
    OBVIOUS
  <2> QED  BY <2>1
<1>5. OwnEventsOnly' /\ OwnScanAlive'
  BY DEF OwnEventsOnly, OfScan, OwnScanAlive
<1> QED  BY <1>1, <1>2, <1>3, <1>4, <1>5, <1>6

\* The new list is the entry followed by the old one, if its link is still the head.
LEMMA PublishIInv == ASSUME IInv, NEW c \in Clients, add_cb_publish(c) PROVE IInv'
<1> USE NamesApart DEF IInv, TypeOK, add_cb_publish, cVars, lVars, sVars, oVars
<1>a. stage[c] = "linked" /\ want[c] \in {"scan", "listen"} /\ next[c] # "nil"
  BY DEF LinkInv
<1>b. Registered' = Registered \cup {c}
  BY <1>a DEF Registered
<1>1. TypeOK'
  BY ScriptAssumption
<1>2. FoundInv'
  BY <1>b DEF FoundInv
<1>3. LinkInv'
  BY <1>a, <1>b DEF LinkInv
<1>4. ListenersKept'
  <2> SUFFICES ASSUME NEW d \in Clients, stage'[d] \in {"reply", "done"}, want'[d] # "other", ~overlap'
               PROVE  d \in Reachable'
    BY DEF ListenersKept
  <2> SUFFICES ASSUME NEW S \in SUBSET (Nodes \cup {"nil"}), c \in S,
                      \A m \in S \cap Nodes : next[m] \in S
               PROVE  d \in S
    BY DEF Reachable
  <2>1. CASE d = c
    BY <2>1
  <2>2. CASE d # c
    <3>1. d \in Reachable
      BY <2>2 DEF ListenersKept
    <3>2. next[c] = head
      BY <1>a DEF AloneInv
    <3>3. head \in S
      BY <3>2
    <3> QED  BY <3>1, <3>3 DEF Reachable
  <2> QED  BY <2>1, <2>2
<1>5. PeerInv' /\ WalkInv' /\ SentInv'
  BY DEF PeerInv, WalkInv, SentInv
<1>6. ScanInv' /\ AloneInv' /\ JournalComplete'
  BY DEF ScanInv, AloneInv, JournalComplete
<1>7. OwnEventsOnly' /\ OwnScanAlive'
  BY DEF OwnEventsOnly, OfScan, OwnScanAlive
<1> QED  BY <1>1, <1>2, <1>3, <1>4, <1>5, <1>6, <1>7

LEMMA ReplyIInv == ASSUME IInv, NEW c \in Clients, reply(c) PROVE IInv'
<1> USE NamesApart DEF IInv, TypeOK, reply, cVars, lVars, sVars, oVars
<1>1. TypeOK'
  OBVIOUS
<1>2. PeerInv' /\ FoundInv' /\ LinkInv' /\ WalkInv' /\ SentInv'
  BY DEF PeerInv, FoundInv, Registered, LinkInv, WalkInv, SentInv
<1>3. ScanInv' /\ AloneInv' /\ JournalComplete'
  BY DEF ScanInv, AloneInv, JournalComplete
<1>4. Reachable' = Reachable
  BY DEF Reachable
<1>5. ListenersKept'
  BY <1>4 DEF ListenersKept
<1>6. OwnEventsOnly' /\ OwnScanAlive'
  BY DEF OwnEventsOnly, OfScan, OwnScanAlive
<1> QED  BY <1>1, <1>2, <1>3, <1>5, <1>6

----------------------------------------------------------------------------
(* Events.                                                                 *)

LEMMA FireIInv == ASSUME IInv, NEW t \in Firing, Fire(t) PROVE IInv'
<1> USE NamesApart DEF IInv, TypeOK, Fire, cVars, lVars, sVars, oVars
<1>a. Head(script[t]) \in EventTypes /\ Tail(script[t]) \in Seq(EventTypes)
  OBVIOUS
<1>b. PICK i \in Ids : /\ ev' = [ev EXCEPT ![t] = Message(Head(script[t]), t, i)]
                       /\ t \in Clients => i = id[t]
  <2>1. t = "monitor" => IdsOf[t] \subseteq Ids
    BY IdsAssumption
  <2> QED  BY <2>1
<1>c. Message(Head(script[t]), t, i) \in Event
  BY <1>a DEF Event, Message
<1>1. TypeOK'
  BY <1>a, <1>b, <1>c
<1>w. WalkInv'
  <2>1. t \in Clients => peer[t] # "idle"
    BY DEF ScanInv
  <2> QED  BY <2>1, <1>b DEF WalkInv, Message
<1>2. PeerInv' /\ FoundInv' /\ LinkInv' /\ SentInv'
  BY DEF PeerInv, FoundInv, Registered, LinkInv, SentInv
<1>3. ScanInv' /\ AloneInv' /\ JournalComplete'
  BY DEF ScanInv, AloneInv, JournalComplete
<1>4. ListenersKept' /\ OwnEventsOnly' /\ OwnScanAlive'
  BY DEF ListenersKept, Reachable, OwnEventsOnly, OfScan, OwnScanAlive, ScanInv
<1> QED  BY <1>1, <1>2, <1>3, <1>4, <1>w

LEMMA ThreadEndsIInv == ASSUME IInv, NEW c \in Clients, scan_thread_ends(c) PROVE IInv'
<1> USE NamesApart DEF IInv, TypeOK, scan_thread_ends, cVars, lVars, sVars, oVars
<1>1. TypeOK'
  OBVIOUS
<1>2. PeerInv' /\ FoundInv' /\ LinkInv' /\ WalkInv' /\ SentInv'
  BY DEF PeerInv, FoundInv, Registered, LinkInv, WalkInv, SentInv
<1>3. ScanInv' /\ AloneInv' /\ JournalComplete'
  BY DEF ScanInv, AloneInv, JournalComplete
<1>4. Reachable' = Reachable
  BY DEF Reachable
<1>5. ListenersKept' /\ OwnScanAlive'
  BY <1>4 DEF ListenersKept, OwnScanAlive
<1>6. OwnEventsOnly'
  BY DEF OwnEventsOnly, OfScan
<1> QED  BY <1>1, <1>2, <1>3, <1>5, <1>6

\* What a message changes: at most the events its client got.
LEMMA SendEffect ==
    ASSUME TypeOK, NEW c \in Clients, NEW m \in Event, Send(c, m)
    PROVE  /\ lost' \subseteq Clients
           /\ got' = got \/ got' = [got EXCEPT ![c] = @ \cup {m}]
BY DEF Send, TypeOK

\* What jrpc_notify changes: at most the events of the client, while it is connected, or those
\* of another one, when the connection was freed.
LEMMA NotifyEffect ==
    ASSUME TypeOK, NEW c \in Clients, NEW t \in Firing, notify(c, t)
    PROVE  /\ up' \in BOOLEAN /\ lost' \subseteq Clients
           /\ strayed' \in {TRUE, strayed}
           /\ \/ got' = got
              \/ \E d \in Clients :
                    /\ peer[d] = "connected" /\ got' = [got EXCEPT ![d] = @ \cup {ev[t]}]
                    /\ d = c \/ strayed'
<1>0. ev[t] \in Event
  BY DEF TypeOK
<1>1. CASE conn[c] = "freed"
  <2>1. CASE got' = got /\ lost' = lost
    BY <1>1, <2>1 DEF notify, TypeOK
  <2>2. CASE ~(got' = got /\ lost' = lost)
    <3>1. PICK d \in Clients : peer[d] = "connected" /\ Send(d, ev[t])
      BY <1>1, <2>2 DEF notify
    <3>2. up' = up /\ strayed'
      BY <1>1, <2>2 DEF notify
    <3>3. lost' \subseteq Clients /\ (got' = got \/ got' = [got EXCEPT ![d] = @ \cup {ev[t]}])
      BY <1>0, <3>1, SendEffect
    <3>4. strayed' = TRUE
      BY <1>1, <2>2 DEF notify
    <3> QED  BY <3>1, <3>2, <3>3, <3>4 DEF TypeOK
  <2> QED  BY <2>1, <2>2
<1>2. CASE conn[c] = "open" /\ peer[c] = "closed"
  BY <1>2 DEF notify, TypeOK
<1>3. CASE conn[c] = "open" /\ peer[c] = "connected"
  <2>1. Send(c, ev[t]) /\ UNCHANGED <<up, strayed>>
    BY <1>3 DEF notify
  <2>2. lost' \subseteq Clients /\ (got' = got \/ got' = [got EXCEPT ![c] = @ \cup {ev[t]}])
    BY <1>0, <2>1, SendEffect
  <2> QED  BY <1>3, <2>1, <2>2 DEF TypeOK
<1> QED  BY <1>1, <1>2, <1>3 DEF notify

\* The same for scan_event_cb: an event of another id comes with the use of a freed scan.
LEMMA ScanCbEffect ==
    ASSUME TypeOK, NEW c \in Clients, NEW t \in Firing, scan_event_cb(c, t)
    PROVE  /\ up' \in BOOLEAN /\ lost' \subseteq Clients
           /\ strayed' \in {TRUE, strayed}
           /\ freedUse' \in {freedUse, freedUse \cup {c}}
           /\ \/ got' = got
              \/ \E d \in Clients :
                    /\ peer[d] = "connected" /\ got' = [got EXCEPT ![d] = @ \cup {ev[t]}]
                    /\ (d = c /\ (ev[t].id = id[c] \/ c \in freedUse')) \/ strayed'
<1>1. freedUse' \in {freedUse, freedUse \cup {c}}
  BY DEF scan_event_cb
<1>2. CASE ignore
  BY <1>1, <1>2 DEF ignore, TypeOK
<1>3. CASE notify(c, t) /\ (ev[t].id = id[c] \/ c \in freedUse')
  BY <1>1, <1>3, NotifyEffect
<1> QED  BY <1>2, <1>3 DEF scan_event_cb

\* One round of a walk.
LEMMA WalkIInv == ASSUME IInv, NEW t \in Firing, fire_event(t) PROVE IInv'
<1> USE NamesApart DEF IInv, cVars, lVars
<1> DEFINE n == at[t]
<1>1. n \in Registered \cup {"journal"} /\ ev[t] \in Event
  <2>1. at[t] \in Nodes
    BY DEF fire_event
  <2>2. at[t] \in Registered \cup {"journal", "idle"}
    BY DEF FoundInv
  <2>3. ev[t] \in Event
    BY DEF TypeOK
  <2> QED  BY ONLY <2>1, <2>2, <2>3, NamesApart
<1>2. /\ UNCHANGED <<peer, conn, want, id, stage, head, next, overlap>>
      /\ UNCHANGED <<scan, script, ev>>
      /\ \/ next[n] \in Nodes /\ at' = [at EXCEPT ![t] = next[n]] /\ fired' = fired
         \/ /\ next[n] \notin Nodes
            /\ at' = [at EXCEPT ![t] = "idle"] /\ fired' = fired \cup {ev[t]}
  BY DEF fire_event
<1>3. /\ up' \in BOOLEAN /\ lost' \subseteq Clients
      /\ strayed' \in {TRUE, strayed}
      /\ freedUse \subseteq freedUse' /\ freedUse' \subseteq Clients
      /\ journal \subseteq journal' /\ journal' \subseteq Event
      /\ n = "journal" => ev[t].type = "progress" \/ ev[t] \in journal'
      /\ \/ got' = got
         \/ \E d \in Clients :
               /\ peer[d] = "connected" /\ got' = [got EXCEPT ![d] = @ \cup {ev[t]}]
               /\ \/ want[d] = "scan" => ev[t].id = id[d] \/ d \in freedUse'
                  \/ strayed'
  <2>1. CASE ev[t].type \notin Mask(n)
    <3>1. n = "journal" => ev[t].type = "progress"
      BY <2>1, <1>1 DEF Mask, Event, EventTypes
    <3> QED  BY <2>1, <3>1 DEF fire_event, oVars, TypeOK
  <2>2. CASE ev[t].type \in Mask(n) /\ n = "journal"
    BY <2>2, <1>1 DEF fire_event, callback, ignore, TypeOK
  <2>3. CASE ev[t].type \in Mask(n) /\ n # "journal"
    <3>1. n \in Clients /\ journal' = journal
      BY <2>3, <1>1 DEF fire_event, callback, Registered
    <3>2. CASE want[n] = "scan"
      <4>1. scan_event_cb(n, t)
        BY <2>3, <3>2 DEF fire_event, callback
      <4>2. /\ up' \in BOOLEAN /\ lost' \subseteq Clients /\ strayed' \in {TRUE, strayed}
            /\ freedUse' \in {freedUse, freedUse \cup {n}}
            /\ \/ got' = got
               \/ \E d \in Clients :
                     /\ peer[d] = "connected" /\ got' = [got EXCEPT ![d] = @ \cup {ev[t]}]
                     /\ (d = n /\ (ev[t].id = id[n] \/ n \in freedUse')) \/ strayed'
        BY <3>1, <4>1, ScanCbEffect
      <4>3. freedUse \subseteq Clients /\ journal \subseteq Event
        BY DEF TypeOK
      <4> HIDE DEF n
      <4> QED  BY ONLY <3>1, <2>3, <4>2, <4>3
    <3>3. CASE want[n] # "scan"
      <4>1. notify(n, t) /\ freedUse' = freedUse
        BY <2>3, <3>3 DEF fire_event, callback
      <4>2. /\ up' \in BOOLEAN /\ lost' \subseteq Clients /\ strayed' \in {TRUE, strayed}
            /\ \/ got' = got
               \/ \E d \in Clients :
                     /\ peer[d] = "connected" /\ got' = [got EXCEPT ![d] = @ \cup {ev[t]}]
                     /\ d = n \/ strayed'
        BY <3>1, <4>1, NotifyEffect
      <4>3. freedUse \subseteq Clients /\ journal \subseteq Event
        BY DEF TypeOK
      <4> HIDE DEF n
      <4> QED  BY ONLY <3>1, <3>3, <2>3, <4>1, <4>2, <4>3
    <3> QED  BY <3>2, <3>3
  <2> QED  BY <2>1, <2>2, <2>3
<1>a. Registered' = Registered /\ Registered \subseteq Clients
  BY <1>2 DEF Registered
<1>b. next[n] \in Registered \cup {"journal", "nil"}
  BY <1>1, <1>a DEF FoundInv
<1>c. ev[t].scan = t /\ (t \in Clients => ev[t].id = id[t] /\ peer[t] # "idle")
  BY <1>1, <1>a DEF WalkInv
<1>d. next[n] \notin Nodes => n = "journal"
  BY <1>1, <1>b, <1>a DEF LinkInv
<1> HIDE DEF n
<1>4. TypeOK'
  <2>1. got' \in [Clients -> SUBSET Event]
    <3>1. got \in [Clients -> SUBSET Event]
      BY DEF TypeOK
    <3>2. ASSUME NEW d \in Clients, got' = [got EXCEPT ![d] = @ \cup {ev[t]}]
          PROVE  got' \in [Clients -> SUBSET Event]
      <4>1. got[d] \cup {ev[t]} \in SUBSET Event
        BY <3>1, <3>2, <1>1
      <4> QED  BY ONLY <3>1, <3>2, <4>1
    <3> QED  BY <3>1, <3>2, <1>3
  <2>2. at' \in [Firing -> Nodes \cup {"idle"}]
    BY <1>2 DEF TypeOK
  <2>3. fired' \subseteq Event
    BY <1>1, <1>2 DEF TypeOK
  <2>4. strayed' \in BOOLEAN
    BY <1>3 DEF TypeOK
  <2> QED  BY <2>1, <2>2, <2>3, <2>4, <1>2, <1>3 DEF TypeOK
<1>5. PeerInv' /\ FoundInv' /\ LinkInv'
  <2>1. PeerInv'
    <3>1. \A c \in Clients : peer[c] = "idle" => got'[c] = got[c]
      BY <1>3 DEF TypeOK
    <3> QED  BY <3>1, <1>2 DEF PeerInv
  <2>2. FoundInv'
    BY <1>2, <1>a, <1>b DEF FoundInv, TypeOK
  <2>3. LinkInv'
    BY <1>2, <1>a DEF LinkInv
  <2> QED  BY <2>1, <2>2, <2>3
<1>6. WalkInv'
  BY <1>2, <1>c DEF WalkInv, TypeOK
<1>s. SentInv'
  <2> SUFFICES ASSUME NEW c \in Clients, NEW m \in got'[c], m.scan \in Clients
               PROVE  peer[m.scan] # "idle"
    BY <1>2 DEF SentInv
  <2>1. m \in got[c] \/ m = ev[t]
    <3>1. got \in [Clients -> SUBSET Event]
      BY DEF TypeOK
    <3>2. CASE got' = got
      BY <3>2
    <3>3. ASSUME NEW d \in Clients, got' = [got EXCEPT ![d] = @ \cup {ev[t]}]
          PROVE  m \in got[c] \/ m = ev[t]
      BY ONLY <3>1, <3>3, m \in got'[c], c \in Clients
    <3> QED  BY <3>2, <3>3, <1>3
  <2> QED  BY <2>1, <1>c DEF SentInv
<1>7. ScanInv'
  <2>1. t \in Clients => scan[t] = "running"
    BY <1>1, <1>a DEF ScanInv, n
  <2> QED  BY <1>2, <2>1 DEF ScanInv, TypeOK
<1>8. AloneInv' /\ JournalComplete'
  <2>1. AloneInv'
    BY <1>2 DEF AloneInv
  <2>2. JournalComplete'
    BY <1>2, <1>3, <1>d DEF JournalComplete
  <2> QED  BY <2>1, <2>2
<1>9. ListenersKept'
  <2>1. Reachable' = Reachable
    BY <1>2 DEF Reachable
  <2> QED  BY <1>2, <2>1 DEF ListenersKept
<1>10. OwnEventsOnly'
  <2> SUFFICES ASSUME NEW c \in Clients, want[c] = "scan", c \notin freedUse', ~strayed',
                      NEW m \in got'[c]
               PROVE  OfScan(m, c)
    BY <1>2 DEF OwnEventsOnly, OfScan
  <2>0. ~strayed
    BY <1>3
  <2>1. CASE m \in got[c]
    BY <2>0, <2>1, <1>3 DEF OwnEventsOnly
  <2>2. CASE m \notin got[c]
    <3>0. got \in [Clients -> SUBSET Event]
      BY DEF TypeOK
    <3>2. PICK d \in Clients :
              /\ got' = [got EXCEPT ![d] = @ \cup {ev[t]}]
              /\ want[d] = "scan" => ev[t].id = id[d] \/ d \in freedUse'
      BY <2>2, <1>3
    <3>3. d = c /\ m = ev[t]
      BY ONLY <3>0, <3>2, <2>2, m \in got'[c], c \in Clients
    <3>1. m = ev[t] /\ ev[t].id = id[c]
      BY <3>2, <3>3
    <3> QED  BY <3>1, <1>c DEF OfScan
  <2> QED  BY <2>1, <2>2
<1>11. OwnScanAlive'
  <2>1. ScanInv'
    BY <1>7
  <2> QED  BY <2>1 DEF ScanInv, OwnScanAlive
<1> QED  BY <1>4, <1>5, <1>6, <1>7, <1>8, <1>9, <1>10, <1>11, <1>s

----------------------------------------------------------------------------
LEMMA StepIInv == IInv /\ [Next]_vars => IInv'
<1> SUFFICES ASSUME IInv, [Next]_vars PROVE IInv'
  OBVIOUS
<1>1. ASSUME NEW c \in Clients,
             server_listen_cb(c) \/ Leave(c) \/ Serve(c) \/ scan_thread_ends(c)
      PROVE  IInv'
  BY <1>1, ListenIInv, LeaveIInv, EofIInv, StatusIInv, LinkIInv, PublishIInv,
     ThreadEndsIInv, ReplyIInv DEF Serve
<1>2. ASSUME NEW t \in Firing, FireThread(t) PROVE IInv'
  BY <1>2, FireIInv, WalkIInv DEF FireThread
<1>3. CASE UNCHANGED vars
  <2> USE <1>3 DEF vars, cVars, lVars, sVars, oVars, IInv
  <2>1. TypeOK'
    BY DEF TypeOK
  <2>2. PeerInv' /\ FoundInv' /\ LinkInv' /\ WalkInv' /\ SentInv' /\ ScanInv' /\ AloneInv'
    BY DEF PeerInv, FoundInv, LinkInv, WalkInv, SentInv, ScanInv, AloneInv, Registered
  <2>3. Reachable' = Reachable
    BY DEF Reachable
  <2>4. JournalComplete' /\ ListenersKept' /\ OwnEventsOnly' /\ OwnScanAlive'
    BY <2>3 DEF JournalComplete, ListenersKept, OwnEventsOnly, OfScan, OwnScanAlive
  <2> QED  BY <2>1, <2>2, <2>4
<1> QED  BY <1>1, <1>2, <1>3 DEF Next

\* The unlocked list of callbacks stays a list under additions and walks of any number of
\* threads: no walk misses the journal, and registered callbacks stay, but for additions at
\* the same time (a6o_event_source_add_cb and fire_event in event.c).
THEOREM ListStaysSound == Spec => []CallbackListSound
<1>1. IInv => CallbackListSound
  BY DEF IInv, CallbackListSound
<1> QED  BY InitIInv, StepIInv, <1>1, PTL DEF Spec

\* A client of any number, with any ids, gets the events of its own scan and of those that
\* carry its id only, until freed memory is read or written, and the thread of a scan never
\* finds it freed; the events of others may (scan_event_cb in rpcbe.c).
THEOREM ScansToldApart == Spec => []EventsOfOwnScan
<1>1. IInv => EventsOfOwnScan
  BY DEF IInv, EventsOfOwnScan
<1> QED  BY InitIInv, StepIInv, <1>1, PTL DEF Spec
==============================================================================
