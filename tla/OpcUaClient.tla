----------------------------- MODULE OpcUaClient -----------------------------
(***************************************************************************)
(* Connection and subscription life cycle of plc_core.opcua.OpcUaClient.   *)
(*                                                                         *)
(* One client object is shared by the tasks of one event loop: the routes  *)
(* of the web application, the steps of a scenario, the CLI.  A task runs  *)
(* until its next await, so each action goes from one await to the next.   *)
(* connect() and disconnect() hold the asyncio lock; subscribe() and       *)
(* unsubscribe() do not.                                                   *)
(*                                                                         *)
(* The server is external: the sessions it has open and the subscriptions  *)
(* it serves, each in the session that created it.                         *)
(***************************************************************************)
EXTENDS Naturals, FiniteSets, Sequences, SequencesExt

CONSTANTS Tasks,            \* asyncio tasks that use the client
          Ops,              \* the operations each task may call: [Tasks -> SUBSET AllOps]
          Faults,           \* what may go wrong
          MaxSessions,      \* bound on the sessions tried
          MaxSubs           \* bound on the subscriptions created

AllOps == {"connect", "disconnect", "subscribe", "unsubscribe"}

\* refuse: the server does not accept the session; lose: it drops a session;
\* late: the namespace array is not read in time; reject: the subscription or its
\* items are refused; badNode: a node id of the caller is malformed; undeleted,
\* unclosed: the deletion of a subscription, the end of a session raises although
\* the session is up; cancel: the calling task is cancelled.
AllFaults == {"refuse", "lose", "late", "reject", "badNode", "undeleted", "unclosed", "cancel"}

ASSUME OpcUaAssumption ==
    /\ Ops \in [Tasks -> SUBSET AllOps]
    /\ Faults \subseteq AllFaults
    /\ MaxSessions \in Nat /\ MaxSubs \in Nat

VARIABLES
    client,         \* _client: the session object held, 0 for None
    connStatus,     \* _status
    subscriptions,  \* keys of _subscriptions
    lock,           \* holder of _lock, then the tasks that wait for it, in order
    pc,             \* where each task awaits
    sess,           \* session object a task works with
    sub,            \* subscription a task works with
    size, seen,     \* disconnect(): dict size when the loop began, ids visited
    returned,       \* what the last call of each task came to
    sessions,       \* session objects made so far
    open,           \* sessions open on the server
    live,           \* subscriptions the server serves
    owner,          \* owner[i]: the session that created subscription i
    abandoned       \* history: subscriptions whose subscribe() raised, whose
                    \* deletion raised, or whose task was cancelled with them in hand

held   == <<client, connStatus, subscriptions>>
locals == <<pc, sess, sub, size, seen, returned>>
server == <<open, live, owner>>
vars   == <<held, lock, locals, sessions, server, abandoned>>

None == 0

Init ==
    /\ client = None /\ connStatus = "disconnected" /\ subscriptions = {}
    /\ lock = <<>>
    /\ pc = [t \in Tasks |-> "idle"]
    /\ sess = [t \in Tasks |-> None] /\ sub = [t \in Tasks |-> None]
    /\ size = [t \in Tasks |-> 0] /\ seen = [t \in Tasks |-> {}]
    /\ returned = [t \in Tasks |-> "nothing"]
    /\ sessions = 0 /\ open = {} /\ live = {} /\ owner = <<>> /\ abandoned = {}

IsConnected == connStatus = "connected" /\ client # None

\* A call of t ends.
Done(t, what) ==
    /\ pc' = [pc EXCEPT ![t] = "idle"]
    /\ sess' = [sess EXCEPT ![t] = None]
    /\ sub' = [sub EXCEPT ![t] = None]
    /\ size' = [size EXCEPT ![t] = 0]
    /\ seen' = [seen EXCEPT ![t] = {}]
    /\ returned' = [returned EXCEPT ![t] = what]

Await(t, label) == pc' = [pc EXCEPT ![t] = label] /\ UNCHANGED returned

-----------------------------------------------------------------------------
(* The lock: asyncio.Lock hands it to its waiters in order. *)

Call(t, op, label) ==
    /\ pc[t] = "idle" /\ op \in Ops[t]
    /\ lock' = Append(lock, t)
    /\ pc' = [pc EXCEPT ![t] = label]
    /\ returned' = [returned EXCEPT ![t] = "nothing"]
    /\ UNCHANGED <<held, sess, sub, size, seen, sessions, server, abandoned>>

\* Calls that are waiting count towards the bounds.
At(label) == Cardinality({t \in Tasks : pc[t] = label})

CallConnect(t)    == /\ sessions + At("connect") < MaxSessions
                     /\ Call(t, "connect", "connect")
CallDisconnect(t) == Call(t, "disconnect", "disconnect")

Holds(t)  == lock # <<>> /\ Head(lock) = t
Release   == lock' = Tail(lock)

-----------------------------------------------------------------------------
(* connect() *)

\* Already connected: nothing to do.
ConnectNoop(t) ==
    /\ pc[t] = "connect" /\ Holds(t) /\ IsConnected
    /\ Release /\ Done(t, "connected")
    /\ UNCHANGED <<held, sessions, server, abandoned>>

\* Mutant: is_connected was looked at before the lock was taken.
ConnectBeginUnchecked(t) ==
    /\ pc[t] = "connect" /\ Holds(t)
    /\ sessions' = sessions + 1
    /\ client' = sessions' /\ connStatus' = "connecting"
    /\ sess' = [sess EXCEPT ![t] = sessions']
    /\ Await(t, "open")
    /\ UNCHANGED <<subscriptions, lock, sub, size, seen, server, abandoned>>

\* The new Client object is held before its session is open.
ConnectBegin(t) ==
    /\ pc[t] = "connect" /\ Holds(t) /\ ~IsConnected
    /\ sessions' = sessions + 1
    /\ client' = sessions' /\ connStatus' = "connecting"
    /\ sess' = [sess EXCEPT ![t] = sessions']
    /\ Await(t, "open")
    /\ UNCHANGED <<subscriptions, lock, sub, size, seen, server, abandoned>>

\* await Client.connect() succeeds; the namespace array is read next.
ConnectOpened(t) ==
    /\ pc[t] = "open"
    /\ open' = open \cup {sess[t]}
    /\ Await(t, "namespaces")
    /\ UNCHANGED <<held, lock, sess, sub, size, seen, sessions, live, owner, abandoned>>

ConnectSucceeds(t) ==
    /\ pc[t] = "namespaces" /\ sess[t] \in open
    /\ connStatus' = "connected"
    /\ Release /\ Done(t, "connected")
    /\ UNCHANGED <<client, subscriptions, sessions, server, abandoned>>

\* Mutant: a failed connect keeps the lock.
ConnectFailsHolding(t) ==
    /\ \/ pc[t] = "open" /\ "refuse" \in Faults
       \/ pc[t] = "namespaces" /\ (sess[t] \notin open \/ "late" \in Faults)
    /\ connStatus' = "error" /\ client' = None
    /\ Done(t, "failed")
    /\ UNCHANGED <<lock, subscriptions, sessions, server, abandoned>>

\* except Exception: the object is dropped, also when its session is open.
ConnectFails(t) ==
    /\ \/ pc[t] = "open" /\ "refuse" \in Faults
       \/ pc[t] = "namespaces" /\ (sess[t] \notin open \/ "late" \in Faults)
    /\ connStatus' = "error" /\ client' = None
    /\ Release /\ Done(t, "failed")
    /\ UNCHANGED <<subscriptions, sessions, server, abandoned>>

-----------------------------------------------------------------------------
(* disconnect() *)

DisconnectNoop(t) ==
    /\ pc[t] = "disconnect" /\ Holds(t) /\ client = None
    /\ Release /\ Done(t, "disconnected")
    /\ UNCHANGED <<held, sessions, server, abandoned>>

\* Mutant: no finally clause.
KeepClient(t, what) ==
    /\ Release /\ Done(t, what)
    /\ UNCHANGED <<client, connStatus>>

\* The finally clause.
DropClient(t, what) ==
    /\ client' = None /\ connStatus' = "disconnected"
    /\ Release /\ Done(t, what)

\* A turn of the loop over the dict, up to the await: delete the next one, or
\* leave the loop, clear the dict and close the session.
NextTurn(t, visited) ==
    \/ \E i \in subscriptions \ visited :
          /\ sub' = [sub EXCEPT ![t] = i]
          /\ seen' = [seen EXCEPT ![t] = visited \cup {i}]
          /\ Await(t, "deleteOne")
          /\ UNCHANGED subscriptions
    \/ /\ subscriptions \subseteq visited
       /\ subscriptions' = {}
       /\ Await(t, "close")
       /\ UNCHANGED <<sub, seen>>

DisconnectBegin(t) ==
    /\ pc[t] = "disconnect" /\ Holds(t) /\ client # None
    /\ size' = [size EXCEPT ![t] = Cardinality(subscriptions)]
    /\ NextTurn(t, {})
    /\ UNCHANGED <<client, connStatus, lock, sess, sessions, server, abandoned>>

\* await sub.delete() is over; when it raised, the subscription may be served
\* still, and the loop goes on.  Python raises RuntimeError when the dict has
\* changed size since the loop began; then nothing after the loop runs but the
\* finally clause.
DeletedOne(t) ==
    /\ pc[t] = "deleteOne"
    /\ \/ live' = live \ {sub[t]}
       \/ "undeleted" \in Faults /\ UNCHANGED live
    /\ \/ /\ Cardinality(subscriptions) = size[t]
          /\ NextTurn(t, seen[t])
          /\ UNCHANGED <<client, connStatus, lock, sess, size>>
       \/ /\ Cardinality(subscriptions) # size[t]
          /\ DropClient(t, "disconnected")
          /\ UNCHANGED subscriptions
    /\ UNCHANGED <<sessions, open, owner, abandoned>>

\* await Client.disconnect(): the server ends the session and what it serves.
\* When it raises, the session may be open still; the object is dropped as well.
CloseSession(t) ==
    /\ pc[t] = "close"
    /\ \/ /\ open' = open \ {client}
          /\ live' = {i \in live : owner[i] # client}
       \/ "unclosed" \in Faults /\ UNCHANGED <<open, live>>
    /\ DropClient(t, "disconnected")
    /\ UNCHANGED <<subscriptions, sessions, owner, abandoned>>

-----------------------------------------------------------------------------
(* subscribe() and unsubscribe(): no lock. *)

CallSubscribe(t) ==
    /\ pc[t] = "idle" /\ "subscribe" \in Ops[t]
    /\ Len(owner) + At("create") < MaxSubs
    /\ IF client = None
       THEN Done(t, "notConnected")
       ELSE /\ sess' = [sess EXCEPT ![t] = client]
            /\ pc' = [pc EXCEPT ![t] = "create"]
            /\ returned' = [returned EXCEPT ![t] = "nothing"]
            /\ UNCHANGED <<sub, size, seen>>
    /\ UNCHANGED <<held, lock, sessions, server, abandoned>>

\* await create_subscription() answers; then self._client.get_node(...), which
\* raises when the client was dropped meanwhile or a node id is malformed: the
\* subscription is there, and nobody keeps it.
Created(t) ==
    /\ pc[t] = "create" /\ sess[t] \in open
    /\ owner' = Append(owner, sess[t])
    /\ live' = live \cup {Len(owner')}
    /\ \/ /\ client # None
          /\ sub' = [sub EXCEPT ![t] = Len(owner')]
          /\ Await(t, "items") /\ UNCHANGED <<sess, size, seen, abandoned>>
       \/ /\ client = None \/ "badNode" \in Faults
          /\ Done(t, "failed")
          /\ abandoned' = abandoned \cup {Len(owner')}
    /\ UNCHANGED <<held, lock, sessions, open>>

\* await subscribe_data_change() answers; the subscription is registered.
Subscribed(t) ==
    /\ pc[t] = "items" /\ sub[t] \in live
    /\ subscriptions' = subscriptions \cup {sub[t]}
    /\ Done(t, "subscribed")
    /\ UNCHANGED <<client, connStatus, lock, sessions, server, abandoned>>

\* One of the two awaits raises, and what is in hand is let go.
SubscribeFails(t) ==
    /\ \/ pc[t] = "create" /\ (sess[t] \notin open \/ "reject" \in Faults)
       \/ pc[t] = "items" /\ (sub[t] \notin live \/ "reject" \in Faults)
    /\ Done(t, "failed")
    /\ abandoned' = abandoned \cup ({sub[t]} \ {None})
    /\ UNCHANGED <<held, lock, sessions, server>>

\* The id is popped before the await.
CallUnsubscribe(t) ==
    /\ pc[t] = "idle" /\ "unsubscribe" \in Ops[t]
    /\ \E i \in subscriptions :
          /\ subscriptions' = subscriptions \ {i}
          /\ sub' = [sub EXCEPT ![t] = i]
    /\ pc' = [pc EXCEPT ![t] = "delete"]
    /\ returned' = [returned EXCEPT ![t] = "nothing"]
    /\ UNCHANGED <<client, connStatus, lock, sess, size, seen, sessions, server, abandoned>>

\* Mutant: the subscription is only forgotten, never deleted on the server.
UnsubscribedLocally(t) ==
    /\ pc[t] = "delete"
    /\ Done(t, "unsubscribed")
    /\ UNCHANGED <<held, lock, sessions, server, abandoned>>

\* await sub.delete(); what it raises is logged, and the id stays forgotten.
Unsubscribed(t) ==
    /\ pc[t] = "delete"
    /\ \/ live' = live \ {sub[t]} /\ UNCHANGED abandoned
       \/ /\ "undeleted" \in Faults
          /\ abandoned' = abandoned \cup {sub[t]} /\ UNCHANGED live
    /\ Done(t, "unsubscribed")
    /\ UNCHANGED <<held, lock, sessions, open, owner>>

-----------------------------------------------------------------------------
(* Cancellation.  CancelledError is no Exception: the handlers of connect()  *)
(* and of the delete loop let it pass, `finally' and the lock do their part. *)
(* A request that the server carries out all the same is the step before.    *)

Cancelled(t) ==
    \/ /\ pc[t] \in {"connect", "disconnect"} /\ ~Holds(t)
       /\ \E i \in 2 .. Len(lock) : lock[i] = t /\ lock' = RemoveAt(lock, i)
       /\ Done(t, "cancelled")
       /\ UNCHANGED <<held, abandoned>>
    \/ /\ pc[t] \in {"open", "namespaces"}
       /\ Release /\ Done(t, "cancelled")
       /\ UNCHANGED <<held, abandoned>>
    \/ /\ pc[t] \in {"deleteOne", "close"}
       /\ DropClient(t, "cancelled")
       /\ UNCHANGED <<subscriptions, abandoned>>
    \/ /\ pc[t] \in {"create", "items", "delete"}
       /\ Done(t, "cancelled")
       /\ abandoned' = abandoned \cup ({sub[t]} \ {None})
       /\ UNCHANGED <<held, lock>>

CancelTask(t) ==
    /\ "cancel" \in Faults
    /\ Cancelled(t)
    /\ UNCHANGED <<sessions, server>>

-----------------------------------------------------------------------------
\* The server, or the network, drops a session.
SessionLost ==
    /\ "lose" \in Faults
    /\ \E s \in open :
          /\ open' = open \ {s}
          /\ live' = {i \in live : owner[i] # s}
    /\ UNCHANGED <<held, lock, locals, sessions, owner, abandoned>>

Resume(t) ==
    \/ ConnectNoop(t) \/ ConnectBegin(t) \/ ConnectOpened(t)
    \/ ConnectSucceeds(t) \/ ConnectFails(t)
    \/ DisconnectNoop(t) \/ DisconnectBegin(t) \/ DeletedOne(t) \/ CloseSession(t)
    \/ Created(t) \/ Subscribed(t) \/ SubscribeFails(t) \/ Unsubscribed(t)

Next ==
    \/ \E t \in Tasks :
          \/ CallConnect(t) \/ CallDisconnect(t) \/ CallSubscribe(t) \/ CallUnsubscribe(t)
          \/ Resume(t) \/ CancelTask(t)
    \/ SessionLost

Spec == Init /\ [][Next]_vars

\* Every await is answered, and the event loop resumes the task.
FairSpec == Spec /\ \A t \in Tasks : WF_vars(Resume(t))

-----------------------------------------------------------------------------
\* A registered subscription of a session that is up is being served: no
\* interleaving of subscribe(), unsubscribe(), disconnect() and reconnection,
\* no fault and no cancellation leaves a key for notifications that will never
\* come while the connection reports itself healthy.
RegisteredIsServed ==
    (lock = <<>> /\ IsConnected /\ client \in open) =>
        \A i \in subscriptions : owner[i] = client => i \in live

\* Every call returns: no interleaving, fault or cancellation leaves a task
\* waiting for the lock.
CallsReturn == \A t \in Tasks : (pc[t] # "idle") ~> (pc[t] = "idle")

\* When one task disconnects and subscribes, in turn, and others may only ask
\* to connect, no session is left open that the client does not hold, even
\* when the server refuses or drops sessions, rejects subscriptions or does not
\* delete them on the way.
NoSessionLeaks == lock = <<>> => open \subseteq {client}

\* What the server serves in the session held is registered, or a task is on its
\* way to register or to delete it, or somebody has heard of its loss: the call
\* that made it raised or was cancelled, or its deletion raised.  No interleaving
\* of calls that succeed leaves a subscription behind that disconnect() would not
\* delete and no id names.
NoOrphans ==
    \A i \in live : (owner[i] = client /\ lock = <<>>) =>
        \/ i \in subscriptions \cup abandoned
        \/ \E t \in Tasks : pc[t] \in {"items", "delete"} /\ sub[t] = i

\* client.py:258-262: disconnect() disconnects from the server and cancels all
\* subscriptions.
DisconnectEndsSession ==
    [][ (lock # <<>> /\ pc[Head(lock)] # "connect" /\ returned'[Head(lock)] = "disconnected")
            => open' = {} ]_vars
=============================================================================
