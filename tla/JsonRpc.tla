------------------------------- MODULE JsonRpc -------------------------------
(***************************************************************************)
(* One JSON-RPC connection between a client program and the daemon         *)
(* (jrpc.c, connection.c, mapper.c): calls with a callback, calls without  *)
(* one, the daemon's answers and its notifications, and the table of       *)
(* callbacks that wait (HashTable).                                        *)
(*                                                                         *)
(* The socket is a stream and every message is read with one recv() of a   *)
(* fixed buffer: what else the buffer holds is thrown away, and a message  *)
(* that does not fit cannot be parsed.                                     *)
(***************************************************************************)
EXTENDS HashTable, Sequences, FiniteSets

CONSTANTS
    MaxCalls,        \* bound: calls with a callback
    MaxPlain,        \* bound: calls without one, by the client
    MaxNotify,       \* bound: notifications, by the daemon
    WireLimit,       \* bound: messages in the socket, each way
    Long             \* kinds of messages that may be longer than the buffer

ASSUME BoundsAssumption == {MaxCalls, MaxPlain, MaxNotify, WireLimit} \subseteq Nat
ASSUME LongAssumption == Long \subseteq {"request", "result"}

Ids == 0..MaxCalls                      \* 0: a message without an id
Message == [kind : {"request", "result", "error", "fragment"},
            id : Ids,                   \* the id that is on the wire
            about : Ids,                \* the call whose parameters or result it carries
            long : BOOLEAN]

VARIABLES
    table,        \* conn->response_table of the client
    current_id,   \* conn->current_id of the client
    toServer, toClient,
    plain, notifications,   \* how many were sent
    called,       \* callbacks run: user data, and the call the result is about
    errors,       \* ids given to the error handler
    unanswered    \* calls whose method has no result, or of which a message was thrown away

vars == <<table, current_id, toServer, toClient, plain, notifications, called, errors, unanswered>>

Init ==
    /\ table = hash_table_new /\ current_id = 1
    /\ toServer = <<>> /\ toClient = <<>> /\ plain = 0 /\ notifications = 0
    /\ called = {} /\ errors = {} /\ unanswered = {}

-----------------------------------------------------------------------------
(* Messages.                                                               *)

\* The lengths a message of this kind may have.
Lengths(kind) == IF kind \in Long THEN BOOLEAN ELSE {FALSE}

make_call_obj(id) == {[kind |-> "request", id |-> id, about |-> id, long |-> l] : l \in Lengths("request")}

make_result_obj(q) == {[kind |-> "result", id |-> q.id, about |-> q.about, long |-> l] : l \in Lengths("result")}

make_error_obj(q) == {[kind |-> "error", id |-> q.id, about |-> q.about, long |-> FALSE]}

Fragment == [kind |-> "fragment", id |-> 0, about |-> 0, long |-> FALSE]

\* connection_send: one of the messages, in one piece.
connection_send(wire, messages) == {Append(wire, m) : m \in messages}

\* Mutant: a message that does not fit is left in the socket to be read again.
MutReceivePeeks(wire) ==
    IF Head(wire).long THEN {wire}
    ELSE {SubSeq(wire, n + 1, Len(wire)) : n \in {n \in 1..Len(wire) : \A i \in 1..n : ~wire[i].long}}

\* connection_receive: what one recv() leaves in the socket.  It takes a long message in two
\* parts, of which neither parses, and otherwise n messages, the last one not always whole.
connection_receive(wire) ==
    IF Head(wire).long THEN {<<Fragment>> \o Tail(wire)}
    ELSE {SubSeq(wire, n + 1, Len(wire)) : n \in {n \in 1..Len(wire) : \A i \in 1..n : ~wire[i].long}}
         \cup {<<Fragment>> \o SubSeq(wire, n + 1, Len(wire)) :
                  n \in {n \in 2..Len(wire) : \A i \in 1..n - 1 : ~wire[i].long}}

\* The messages of which the buffer got the whole or a part, and that were not parsed.
Wasted(wire, rest) ==
    LET kept == {i \in 1..Len(rest) : rest[i] # Fragment}
        parsed == IF Head(wire).long \/ Head(wire) = Fragment THEN 1 ELSE 2
    IN  {wire[i].about : i \in parsed..Len(wire) - Cardinality(kept)} \ {0}

Parses(wire) == ~Head(wire).long /\ Head(wire) # Fragment

-----------------------------------------------------------------------------
(* The client.                                                             *)

connection_register_callback ==
    /\ table' = hash_table_insert(table, current_id, current_id)
    /\ current_id' = current_id + 1

\* jrpc_call with a callback, which is registered before the request is sent.
jrpc_call ==
    /\ current_id <= MaxCalls /\ Len(toServer) < WireLimit
    /\ connection_register_callback
    /\ toServer' \in connection_send(toServer, make_call_obj(current_id))
    /\ UNCHANGED <<toClient, plain, notifications, called, errors, unanswered>>

\* jrpc_call without one: the request has no id.
jrpc_call_plain ==
    /\ plain < MaxPlain /\ Len(toServer) < WireLimit
    /\ plain' = plain + 1
    /\ toServer' \in connection_send(toServer, make_call_obj(0))
    /\ UNCHANGED <<table, current_id, toClient, notifications, called, errors, unanswered>>

\* connection_find_callback takes the callback it finds out of the table.
connection_find_callback(id) ==
    table' = IF hash_table_search(table, id) = NULL THEN table ELSE hash_table_remove(table, id)

\* Mutant: results are taken to come in the order of the calls.
MutInOrder(r) ==
    LET k == CHOOSE k \in 1..MaxCalls :
                /\ hash_table_search(table, k) # NULL
                /\ \A i \in 1..k - 1 : hash_table_search(table, i) = NULL
    IN  /\ connection_find_callback(k)
        /\ called' = called \cup {<<k, r.about>>}
        /\ UNCHANGED errors

connection_process_result(r) ==
    /\ connection_find_callback(r.id)
    /\ LET user_data == hash_table_search(table, r.id)
       IN  called' = IF user_data = NULL THEN called ELSE called \cup {<<user_data, r.about>>}
    /\ UNCHANGED errors

\* The error handler is called, and the callback stays in the table.
connection_process_error(r) ==
    /\ errors' = errors \cup {r.id}
    /\ UNCHANGED <<table, called>>

\* jrpc_process in the client.  A notification whose method is unknown or fails is answered
\* with an error, without an id as it has none.
client_process ==
    /\ toClient # <<>>
    /\ toClient' \in connection_receive(toClient)
    /\ unanswered' = unanswered \cup Wasted(toClient, toClient')
    /\ LET r == Head(toClient)
       IN \/ ~Parses(toClient) /\ UNCHANGED <<toServer, table, called, errors>>
          \/ /\ Parses(toClient) /\ r.kind = "request"
             /\ \/ UNCHANGED toServer
                \/ Len(toServer) < WireLimit /\ toServer' \in connection_send(toServer, make_error_obj(r))
             /\ UNCHANGED <<table, called, errors>>
          \/ Parses(toClient) /\ r.kind = "result" /\ connection_process_result(r) /\ UNCHANGED toServer
          \/ Parses(toClient) /\ r.kind = "error" /\ connection_process_error(r) /\ UNCHANGED toServer
    /\ UNCHANGED <<current_id, plain, notifications>>

-----------------------------------------------------------------------------
(* The daemon.                                                             *)

\* connection_process_request: the method is unknown or fails, has a result, or has none:
\* json_pack then fails, and nothing is sent.  none tells the calls that got no answer.
connection_process_request(q, none) ==
    \/ toClient' \in connection_send(toClient, make_error_obj(q)) /\ none = {}
    \/ q.id # 0 /\ toClient' \in connection_send(toClient, make_result_obj(q)) /\ none = {}
    \/ q.id = 0 /\ UNCHANGED toClient /\ none = {}
    \/ q.id # 0 /\ UNCHANGED toClient /\ none = {q.id}

\* jrpc_process in the daemon, which has no error handler (server.c).
server_process ==
    /\ toServer # <<>> /\ Len(toClient) < WireLimit
    /\ toServer' \in connection_receive(toServer)
    /\ LET q == Head(toServer)
       IN  \E none \in {{}, {q.id}} :
              /\ unanswered' = unanswered \cup Wasted(toServer, toServer') \cup none
              /\ \/ (~Parses(toServer) \/ q.kind = "error") /\ none = {} /\ UNCHANGED toClient
                 \/ Parses(toServer) /\ q.kind = "request" /\ connection_process_request(q, none)
    /\ UNCHANGED <<table, current_id, plain, notifications, called, errors>>

\* jrpc_notify, from a thread that fires events.
jrpc_notify ==
    /\ notifications < MaxNotify /\ Len(toClient) < WireLimit
    /\ notifications' = notifications + 1
    /\ toClient' \in connection_send(toClient, make_call_obj(0))
    /\ UNCHANGED <<table, current_id, toServer, plain, called, errors, unanswered>>

-----------------------------------------------------------------------------
Next == jrpc_call \/ jrpc_call_plain \/ client_process \/ server_process \/ jrpc_notify

Spec == Init /\ [][Next]_vars

\* Both loops over jrpc_process go on.
FairSpec == Spec /\ WF_vars(client_process) /\ WF_vars(server_process)

-----------------------------------------------------------------------------
(* Properties.                                                             *)

\* The variables keep their types.
TypeOK ==
    /\ table.size \in Nat /\ table.count \in 0..MaxCalls
    /\ table.slots \in [0..table.size - 1 -> [key : Ids, value : (1..MaxCalls) \cup {NULL},
                                              state : {"EMPTY", "REMOVED", "OCCUPIED"}]]
    /\ current_id \in 1..MaxCalls + 1
    /\ toServer \in Seq(Message) /\ toClient \in Seq(Message)
    /\ plain \in 0..MaxPlain /\ notifications \in 0..MaxNotify
    /\ called \subseteq (1..MaxCalls) \X Ids
    /\ errors \subseteq Ids /\ unanswered \subseteq 1..MaxCalls

\* The calls whose callback a search finds.
Pending == {k \in 1..MaxCalls : hash_table_search(table, k) # NULL}

\* A callback gets the result of its own call, although answers come in any order, some never
\* come, and ids share slots of the table (connection_find_callback, lookup_entry).
RightAnswer == \A c \in called : c[1] = c[2]

InFlight == {toServer[i].about : i \in 1..Len(toServer)} \cup {toClient[i].about : i \in 1..Len(toClient)}

\* A callback that is registered still waits for a message that is on its way, or its call
\* was answered with an error, has no result, or had a message thrown away: those four, and
\* no other, leave an entry in the table for the life of the connection.
EntriesExplained == Pending \subseteq InFlight \cup errors \cup unanswered

\* The assertion of hash_table_insert, "this should never happen as we check overflow before
\* inserting": the next insertion finds a slot, although rehashing turns vacant slots into
\* occupied ones that key_count does not count.
NoOverflow == insert_slot(hash_table_check_overflow(table), current_id) # -1

\* The table with its removed slots, collisions and rehashing is a set of waiting calls.
ImplementsPending ==
    INSTANCE PendingCalls WITH issued <- current_id - 1, pending <- Pending,
                               answered <- {c[1] : c \in called}
ImplementsMap == ImplementsPending!Spec

\* Every call comes to one of its ends: its callback, the error handler, or one of the ways in
\* which an answer is never given.  The calls are bounded, so at last all of them have.
CallsEnd ==
    <>[](\A k \in 1..current_id - 1 : <<k, k>> \in called \/ k \in errors \cup unanswered)

\* Callbacks and calls belong together: no callback gets another call's result, and none
\* stays registered but for the reasons that are named.
CallbacksAccounted == TypeOK /\ RightAnswer /\ EntriesExplained
==============================================================================
