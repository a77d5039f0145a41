----------------------------- MODULE SimService -----------------------------
(***************************************************************************)
(* plc_sim.web.services.SimService and the routes that use it: connect,     *)
(* disconnect, and the stream of value changes of one browser tab.          *)
(*                                                                         *)
(* The service holds one OpcUaClient object and replaces it at every        *)
(* connect(), also by one of another server.  An object opens one session   *)
(* at most and shares its number; the actions follow its calls await by     *)
(* await, as OpcUaClient does for one object.  A subscription is a pair of  *)
(* an object and the id its server gave out.                               *)
(*                                                                         *)
(* The list _change_queues is left out: it is read only to take a queue off. *)
(***************************************************************************)
EXTENDS Naturals, Sequences, FiniteSets

CONSTANTS Requests,     \* HTTP requests that may be under way at once
          Servers,      \* servers an endpoint may name, each with a numbering of
                        \* its own; one that restarts counts as another
          MaxClients,   \* bound on the objects made
          MaxSubs       \* bound on the subscriptions created at one server

ASSUME ServiceAssumption == MaxClients \in Nat /\ MaxSubs \in Nat

VARIABLES
    client,         \* _client: the object held, 0 for None
    pc,             \* where each request awaits
    obj,            \* the OpcUaClient object it awaits
    sub,            \* its subscription
    size, seen,     \* disconnect(): dict size when the loop began, keys visited
    endpoint,       \* endpoint[o]: the server of object o
    connected,      \* objects whose is_connected holds
    registered,     \* subscriptions in the dict of their object
    open, live,     \* the servers: sessions, and the subscriptions they serve
    last,           \* last[e]: ids handed out by server e
    dropped,        \* history: objects put out of reach, or that gave up their
                    \* session without closing it
    abandoned,      \* history: subscriptions nobody keeps, because the call that
                    \* created them, their deletion or their stream was cut short
    taken           \* history: <<s, o>>, subscription s was cancelled by a tab of
                    \* object o, an earlier one

request == <<pc, obj, sub, size, seen>>
clients == <<endpoint, connected, registered>>
server  == <<open, live, last>>
history == <<dropped, abandoned, taken>>
vars    == <<client, request, clients, server, history>>

None  == 0
NoSub == <<None, 0>>

Init ==
    /\ client = None
    /\ pc = [r \in Requests |-> "idle"]
    /\ obj = [r \in Requests |-> None] /\ sub = [r \in Requests |-> NoSub]
    /\ size = [r \in Requests |-> 0] /\ seen = [r \in Requests |-> {}]
    /\ endpoint = <<>> /\ connected = {} /\ registered = {}
    /\ open = {} /\ live = {} /\ last = [e \in Servers |-> 0]
    /\ dropped = {} /\ abandoned = {} /\ taken = {}

\* Where r awaits next; what it knows about a loop of disconnect() stays.
At(r, label, o, s) ==
    /\ pc' = [pc EXCEPT ![r] = label]
    /\ obj' = [obj EXCEPT ![r] = o]
    /\ sub' = [sub EXCEPT ![r] = s]

Await(r, label, o, s) == At(r, label, o, s) /\ UNCHANGED <<size, seen>>

\* The request is answered.
Answer(r) ==
    /\ At(r, "idle", None, NoSub)
    /\ size' = [size EXCEPT ![r] = 0] /\ seen' = [seen EXCEPT ![r] = {}]

Of(o, pairs) == {p \in pairs : p[1] = o}

\* Mutant: _subscriptions is an attribute of the class, shared by its objects.
SharedDict(o) == registered

\* _subscriptions of an object.
Dict(o) == Of(o, registered)

\* connect() and disconnect() of one object exclude each other.
Locked(o) ==
    \E q \in Requests :
        pc[q] \in {"connect", "namespaces", "deleteOne", "close"} /\ obj[q] = o

-----------------------------------------------------------------------------
(* POST /connect *)

\* The object held so far is not disconnected.  The endpoint may be a new one.
Connect(r) ==
    /\ pc[r] = "idle" /\ Len(endpoint) < MaxClients
    /\ \E e \in Servers : endpoint' = Append(endpoint, e)
    /\ client' = Len(endpoint')
    /\ dropped' = dropped \cup ({client} \ {None})
    /\ Await(r, "connect", client', NoSub)
    /\ UNCHANGED <<connected, registered, server, abandoned, taken>>

\* await Client.connect(): the session is open; the namespace array is read next.
Opened(r) ==
    /\ pc[r] = "connect"
    /\ open' = open \cup {obj[r]}
    /\ Await(r, "namespaces", obj[r], NoSub)
    /\ UNCHANGED <<client, clients, live, last, history>>

Connected(r) ==
    /\ pc[r] = "namespaces" /\ obj[r] \in open
    /\ connected' = connected \cup {obj[r]}
    /\ Answer(r)
    /\ UNCHANGED <<client, endpoint, registered, server, history>>

\* Refused, lost, or the namespace array did not come in time: connect() reports
\* it and gives up the session, also when it is open.  The service keeps the object.
ConnectFails(r) ==
    /\ pc[r] \in {"connect", "namespaces"}
    /\ dropped' = dropped \cup {obj[r]}
    /\ Answer(r)
    /\ UNCHANGED <<client, clients, server, abandoned, taken>>

-----------------------------------------------------------------------------
(* POST /disconnect *)

Disconnect(r) ==
    /\ pc[r] = "idle" /\ client # None
    /\ Await(r, "disconnect", client, NoSub)
    /\ UNCHANGED <<client, clients, server, history>>

\* services.py:84: _client is set to None, although another request may have put
\* a new object there; with `lost', the session may have been left open.
LetGo(r, lost) ==
    /\ client' = None
    /\ dropped' = dropped \cup ({client} \ {None, obj[r]}) \cup lost
    /\ Answer(r)

\* The object has no session: nothing to do but to let it go.
DisconnectNoop(r) ==
    /\ pc[r] = "disconnect" /\ ~Locked(obj[r]) /\ obj[r] \notin connected
    /\ LetGo(r, {})
    /\ UNCHANGED <<clients, server, abandoned, taken>>

\* A turn of the loop over the dict: delete the next one, or leave the loop,
\* clear the dict and close the session.
NextTurn(r, visited) ==
    \/ \E s \in Dict(obj[r]) \ visited :
          /\ seen' = [seen EXCEPT ![r] = visited \cup {s}]
          /\ At(r, "deleteOne", obj[r], s)
          /\ UNCHANGED registered
    \/ /\ Dict(obj[r]) \subseteq visited
       /\ registered' = registered \ Dict(obj[r])
       /\ At(r, "close", obj[r], NoSub)
       /\ UNCHANGED seen

DisconnectBegin(r) ==
    /\ pc[r] = "disconnect" /\ ~Locked(obj[r]) /\ obj[r] \in connected
    /\ size' = [size EXCEPT ![r] = Cardinality(Dict(obj[r]))]
    /\ NextTurn(r, {})
    /\ UNCHANGED <<client, endpoint, connected, server, history>>

\* await sub.delete() answers or raises.
Deletes(s) ==
    \/ live' = live \ {s} /\ UNCHANGED abandoned
    \/ abandoned' = abandoned \cup {s} /\ UNCHANGED live

DeletedOne(r) ==
    /\ pc[r] = "deleteOne"
    /\ Cardinality(Dict(obj[r])) = size[r]
    /\ Deletes(sub[r])
    /\ NextTurn(r, seen[r])
    /\ UNCHANGED <<client, size, endpoint, connected, open, last, dropped, taken>>

\* A tab has come or gone during the await: RuntimeError, the finally clause
\* forgets the session without closing it.
LoopRaises(r) ==
    /\ pc[r] = "deleteOne"
    /\ Cardinality(Dict(obj[r])) # size[r]
    /\ Deletes(sub[r])
    /\ connected' = connected \ {obj[r]}
    /\ LetGo(r, {obj[r]})
    /\ UNCHANGED <<endpoint, registered, open, last, taken>>

\* Mutant: disconnect() only forgets the session, like the other ways out of it.
SessionForgotten(r) ==
    /\ pc[r] = "close"
    /\ connected' = connected \ {obj[r]}
    /\ LetGo(r, {})
    /\ UNCHANGED <<endpoint, registered, server, abandoned, taken>>

\* await Client.disconnect() ends the session; or it raises, which is logged.
SessionClosed(r) ==
    /\ pc[r] = "close"
    /\ connected' = connected \ {obj[r]}
    /\ \/ /\ open' = open \ {obj[r]} /\ live' = live \ Of(obj[r], live)
          /\ LetGo(r, {})
       \/ LetGo(r, {obj[r]}) /\ UNCHANGED <<open, live>>
    /\ UNCHANGED <<endpoint, registered, last, abandoned, taken>>

-----------------------------------------------------------------------------
(* GET /subscribe *)

\* Subscriptions asked for and not yet created count towards the bound.
Asked(e) == Cardinality({q \in Requests : pc[q] = "create" /\ endpoint[obj[q]] = e})

Subscribe(r) ==
    /\ pc[r] = "idle" /\ client # None /\ client \in connected
    /\ last[endpoint[client]] + Asked(endpoint[client]) < MaxSubs
    /\ Await(r, "create", client, NoSub)
    /\ UNCHANGED <<client, clients, server, history>>

\* create_subscription() answers; then get_node(), which raises when the object
\* was disconnected meanwhile or a node id is malformed.
Created(r) ==
    /\ pc[r] = "create" /\ obj[r] \in open
    /\ LET e   == endpoint[obj[r]]
           new == <<obj[r], last[e] + 1>>
       IN  /\ last' = [last EXCEPT ![e] = @ + 1]
           /\ live' = live \cup {new}
           /\ \/ /\ obj[r] \in connected
                 /\ Await(r, "items", obj[r], new) /\ UNCHANGED abandoned
              \/ Answer(r) /\ abandoned' = abandoned \cup {new}
    /\ UNCHANGED <<client, clients, open, dropped, taken>>

\* subscribe_data_change() answers; the subscription is registered and streamed.
Subscribed(r) ==
    /\ pc[r] = "items" /\ sub[r] \in live
    /\ registered' = registered \cup {sub[r]}
    /\ Await(r, "stream", obj[r], sub[r])
    /\ UNCHANGED <<client, endpoint, connected, server, history>>

\* One of the two raises: the server refuses, or there is no session any more.
SubscribeFails(r) ==
    /\ pc[r] \in {"create", "items"}
    /\ abandoned' = abandoned \cup ({sub[r]} \ {NoSub})
    /\ Answer(r)
    /\ UNCHANGED <<client, clients, server, dropped, taken>>

\* The tab was closed before the generator ran at all: its finally clause, the
\* only caller of stop_monitoring(), never runs.
StreamNeverBegins(r) ==
    /\ pc[r] = "stream"
    /\ abandoned' = abandoned \cup {sub[r]}
    /\ Answer(r)
    /\ UNCHANGED <<client, clients, server, dropped, taken>>

\* Mutant: the generator ends without stop_monitoring().
StreamIsCut(r) ==
    /\ pc[r] = "stream"
    /\ Answer(r)
    /\ UNCHANGED <<client, clients, server, history>>

\* The tab is closed: stop_monitoring() looks for the id at the client of now,
\* which may be another than the one that gave it out.
StreamEnds(r) ==
    /\ pc[r] = "stream"
    /\ LET found == <<client, sub[r][2]>>
       IN  \/ /\ found \in registered
              /\ registered' = registered \ {found}
              /\ taken' = taken \cup ({<<found, obj[r]>>} \ {<<sub[r], obj[r]>>})
              /\ Await(r, "unsubscribe", client, found)
           \/ /\ found \notin registered
              /\ Answer(r) /\ UNCHANGED <<registered, taken>>
    /\ UNCHANGED <<client, endpoint, connected, server, dropped, abandoned>>

\* sub.delete(); what it raises is logged, or the task of the stream is cancelled
\* once more: the id stays forgotten.
Unsubscribed(r) ==
    /\ pc[r] = "unsubscribe"
    /\ Deletes(sub[r])
    /\ Answer(r)
    /\ UNCHANGED <<client, clients, open, last, dropped, taken>>

-----------------------------------------------------------------------------
\* A server or the network drops a session; the object does not notice.
SessionLost ==
    /\ \E o \in open : open' = open \ {o} /\ live' = live \ Of(o, live)
    /\ UNCHANGED <<client, request, clients, last, history>>

Next ==
    \/ \E r \in Requests :
          \/ Connect(r) \/ Opened(r) \/ Connected(r) \/ ConnectFails(r)
          \/ Disconnect(r) \/ DisconnectNoop(r) \/ DisconnectBegin(r)
          \/ DeletedOne(r) \/ LoopRaises(r) \/ SessionClosed(r)
          \/ Subscribe(r) \/ Created(r) \/ Subscribed(r) \/ SubscribeFails(r)
          \/ StreamNeverBegins(r) \/ StreamEnds(r) \/ Unsubscribed(r)
    \/ SessionLost

Spec == Init /\ [][Next]_vars

-----------------------------------------------------------------------------
\* A tab that streams from the client held is served, as long as the session is
\* up and nobody disconnects it: neither the deletions of an earlier client nor
\* the tabs that outlived one take its subscription away, unless that client was
\* of another server, whose ids may be the same.
StreamsAreServed ==
    \A r \in Requests :
        ( /\ pc[r] = "stream" /\ obj[r] = client
          /\ client \in open \cap connected /\ ~Locked(client) ) =>
              \/ sub[r] \in live \cap registered
              \/ \E t \in taken : t[1] = sub[r] /\ endpoint[t[2]] # endpoint[client]

\* In the session of the client held, what the servers serve is in the hands of a
\* request, or was left there by one that was cut short: a tab that ends as it
\* should costs the PLC nothing.
NoOrphanStreams ==
    \A s \in Of(client, live) :
        \/ s \in abandoned
        \/ \E r \in Requests : pc[r] \in {"items", "stream", "unsubscribe"} /\ sub[r] = s

\* A session that is open is the one of the client held, which is connected or on
\* its way to be, or was given up in one of the five ways the code has: connect()
\* replaced the object (services.py:77), a late disconnect() let it go
\* (services.py:84), its namespace array was not read (client.py:249), a tab came
\* or went during the loop of its disconnect() (client.py:263), or its close
\* raised (client.py:272).
LeaksAreKnown ==
    \A o \in open \ dropped :
        /\ o = client
        /\ \/ o \in connected
           \/ \E r \in Requests : pc[r] \in {"connect", "namespaces"} /\ obj[r] = o
=============================================================================
