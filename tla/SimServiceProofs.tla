-------------------------- MODULE SimServiceProofs --------------------------
(***************************************************************************)
(* Proofs about SimService, for any number of requests, servers, objects    *)
(* and subscriptions.                                                      *)
(***************************************************************************)
EXTENDS SimService, TLAPS

Labels  == {"idle", "connect", "namespaces", "disconnect", "deleteOne", "close",
            "create", "items", "stream", "unsubscribe"}
Objects == 1 .. Len(endpoint)
Pairs   == Objects \X (Nat \ {0})

Types ==
    /\ endpoint \in Seq(Servers) /\ client \in 0 .. Len(endpoint)
    /\ pc \in [Requests -> Labels] /\ obj \in [Requests -> 0 .. Len(endpoint)]
    /\ sub \in [Requests -> {NoSub} \cup Pairs] /\ seen \in [Requests -> SUBSET Pairs]
    /\ connected \subseteq Objects /\ open \subseteq Objects
    /\ registered \subseteq Pairs /\ live \subseteq Pairs
    /\ last \in [Servers -> Nat]
    /\ taken \subseteq Pairs \X Objects

Connecting(o) == \E q \in Requests : pc[q] \in {"connect", "namespaces"} /\ obj[q] = o
TornDown(o)   == \E q \in Requests : pc[q] \in {"deleteOne", "close"} /\ obj[q] = o

\* The request has a subscription that is, or will be, its stream.
Streams(r) == pc[r] \in {"items", "stream"}

\* A request that awaits something awaits it at the object it noted.
Awaiting ==
    \A r \in Requests :
        /\ pc[r] # "idle" => obj[r] \in Objects
        /\ pc[r] \in {"deleteOne", "items", "stream", "unsubscribe"} =>
              sub[r] \in Pairs /\ sub[r][1] = obj[r]

\* connect() of an object comes before everything else, and only once.
ConnectFirst ==
    \A q \in Requests : pc[q] \in {"connect", "namespaces"} =>
        /\ obj[q] \notin connected
        /\ \A r \in Requests :
              /\ pc[r] \in {"create", "items", "stream", "deleteOne", "close"} => obj[r] # obj[q]
              /\ pc[r] \in {"connect", "namespaces"} /\ obj[r] = obj[q] => r = q

\* Every id that is around was handed out by the server of its object.
Issued(p) == p[2] <= last[endpoint[p[1]]]
IdsAreIssued ==
    /\ \A p \in registered \cup live : Issued(p)
    /\ \A r \in Requests :
          /\ pc[r] \in {"deleteOne", "items", "stream", "unsubscribe"} => Issued(sub[r])
          /\ \A p \in seen[r] : Issued(p)

\* A server gives an id to one tab.
OneTabEach ==
    \A r, q \in Requests :
        ( /\ Streams(r) /\ Streams(q) /\ sub[r][2] = sub[q][2]
          /\ endpoint[obj[r]] = endpoint[obj[q]] ) => r = q

\* What is not registered yet, and what is being deleted, is not in the dict.
NotInDict ==
    /\ \A r \in Requests : pc[r] \in {"items", "unsubscribe"} => sub[r] \notin registered
    /\ \A r, q \in Requests :
          pc[r] = "items" /\ pc[q] = "unsubscribe" => sub[r] # sub[q]

\* What a loop has passed is deleted, unless its deletion raised.
PassedIsDeleted ==
    \A q \in Requests : \A s \in seen[q] :
        \/ pc[q] = "deleteOne" /\ s = sub[q]
        \/ s \notin live
        \/ s \in abandoned

\* The subscription of a stream is known to its object, until it is deleted.
StreamsAreKnown ==
    \A r \in Requests : pc[r] = "stream" =>
        \/ sub[r] \in registered
        \/ sub[r] \notin live
        \/ sub[r] \in abandoned
        \/ \E q \in Requests : pc[q] = "unsubscribe" /\ sub[q] = sub[r]

TakenByOther(s) == \E t \in taken : t[1] = s /\ endpoint[t[2]] # endpoint[s[1]]

\* StreamsAreServed for every object, not only for the one held.
Served ==
    \A r \in Requests :
        (pc[r] = "stream" /\ obj[r] \in open \cap connected /\ ~TornDown(obj[r])) =>
            sub[r] \in live \cap registered \/ TakenByOther(sub[r])

\* An object that has, or may get, a session is held or was let go.
Accounted ==
    /\ \A o \in open \cup connected : o \in dropped \/ o = client
    /\ \A q \in Requests : pc[q] \in {"connect", "namespaces"} =>
          obj[q] \in dropped \/ obj[q] = client
    /\ \A o \in open : o \in dropped \/ o \in connected \/ Connecting(o)

Inv == /\ Types /\ Awaiting /\ ConnectFirst /\ IdsAreIssued /\ OneTabEach /\ NotInDict
       /\ PassedIsDeleted /\ StreamsAreKnown /\ Served /\ Accounted /\ NoOrphanStreams
-----------------------------------------------------------------------------

\* Every request but r is where it was.
Same(q) == pc'[q] = pc[q] /\ obj'[q] = obj[q] /\ sub'[q] = sub[q] /\ seen'[q] = seen[q]

LEMMA AtMoves ==
    ASSUME Types, NEW r \in Requests, NEW l, NEW o, NEW s, At(r, l, o, s),
           seen' = seen \/ \E v : seen' = [seen EXCEPT ![r] = v]
    PROVE  /\ pc'[r] = l /\ obj'[r] = o /\ sub'[r] = s
           /\ \A q \in Requests : q # r => Same(q)
  BY DEF Types, At, Same

LEMMA AtTyped ==
    ASSUME Types, NEW r \in Requests, NEW l \in Labels, NEW o \in 0 .. Len(endpoint'),
           NEW s \in {NoSub} \cup Pairs', At(r, l, o, s),
           Len(endpoint) <= Len(endpoint'), endpoint' \in Seq(Servers)
    PROVE  /\ pc' \in [Requests -> Labels] /\ obj' \in [Requests -> 0 .. Len(endpoint')]
           /\ sub' \in [Requests -> {NoSub} \cup Pairs']
           /\ [Requests -> SUBSET Pairs] \subseteq [Requests -> SUBSET Pairs']
  <1>1. Len(endpoint) \in Nat /\ Len(endpoint') \in Nat
    BY DEF Types
  <1>2. Pairs \subseteq Pairs' /\ 0 .. Len(endpoint) \subseteq 0 .. Len(endpoint')
    BY <1>1 DEF Pairs, Objects
  <1> QED
    BY <1>2 DEF Types, At

\* A step that takes nothing out of a dict and ends no unsubscribe().
LEMMA KnownKept ==
    ASSUME StreamsAreKnown, NEW r \in Requests, \A q \in Requests : q # r => Same(q),
           pc'[r] # "stream", pc[r] # "unsubscribe",
           registered \subseteq registered', abandoned \subseteq abandoned',
           \A q \in Requests : pc[q] = "stream" /\ sub[q] \in live' => sub[q] \in live
    PROVE  StreamsAreKnown'
  <1> SUFFICES ASSUME NEW q \in Requests, pc'[q] = "stream", sub'[q] \notin registered',
                      sub'[q] \in live', sub'[q] \notin abandoned'
               PROVE  \E p \in Requests : pc'[p] = "unsubscribe" /\ sub'[p] = sub'[q]
    BY DEF StreamsAreKnown
  <1>1. q # r /\ pc[q] = "stream" /\ sub'[q] = sub[q]
    BY DEF Same
  <1>2. PICK p \in Requests : pc[p] = "unsubscribe" /\ sub[p] = sub[q]
    BY <1>1 DEF StreamsAreKnown
  <1>3. p # r
    BY <1>2
  <1> QED
    BY <1>1, <1>2, <1>3 DEF Same

\* A step that takes nothing away from a stream whose session stays in use.
LEMMA ServedKept ==
    ASSUME Types, Awaiting, Served, NEW r \in Requests,
           \A q \in Requests : q # r => Same(q), pc'[r] # "stream",
           pc[r] \in {"deleteOne", "close"} => obj[r] \notin connected',
           registered \subseteq registered', taken \subseteq taken',
           \A o \in Objects : endpoint'[o] = endpoint[o],
           \A q \in Requests : pc[q] = "stream" /\ obj[q] \in open' \cap connected' =>
               /\ obj[q] \in open \cap connected
               /\ sub[q] \in live => sub[q] \in live'
    PROVE  Served'
  <1> SUFFICES ASSUME NEW q \in Requests, pc'[q] = "stream",
                      obj'[q] \in open' \cap connected', ~TornDown(obj[q])'
               PROVE  sub'[q] \in live' \cap registered' \/ TakenByOther(sub[q])'
    BY DEF Served
  <1>1. q # r /\ pc[q] = "stream" /\ sub'[q] = sub[q] /\ obj'[q] = obj[q]
    BY DEF Same
  <1>2. ~TornDown(obj[q])
    <2> SUFFICES ASSUME NEW p \in Requests, pc[p] \in {"deleteOne", "close"}, obj[p] = obj[q]
                 PROVE  FALSE
      BY DEF TornDown
    <2>1. p # r
      BY <1>1
    <2>2. pc'[p] \in {"deleteOne", "close"} /\ obj'[p] = obj'[q]
      BY <1>1, <2>1 DEF Same
    <2> QED
      BY <2>2 DEF TornDown
  <1>3. sub[q] \in live \cap registered \/ TakenByOther(sub[q])
    BY <1>1, <1>2 DEF Served
  <1>4. ASSUME TakenByOther(sub[q]) PROVE TakenByOther(sub[q])'
    <2>1. PICK t \in taken : t[1] = sub[q] /\ endpoint[t[2]] # endpoint[sub[q][1]]
      BY <1>4 DEF TakenByOther
    <2>2. t[2] \in Objects /\ sub[q][1] \in Objects
      BY <1>1, <2>1 DEF Types, Awaiting, Pairs
    <2> QED
      BY <1>1, <2>1, <2>2 DEF TakenByOther
  <1> QED
    BY <1>1, <1>3, <1>4

LEMMA AnswerTyped ==
    ASSUME Types, NEW r \in Requests, Answer(r), endpoint' = endpoint
    PROVE  /\ pc' \in [Requests -> Labels] /\ obj' \in [Requests -> 0 .. Len(endpoint')]
           /\ sub' \in [Requests -> {NoSub} \cup Pairs']
           /\ seen' \in [Requests -> SUBSET Pairs'] /\ None \in 0 .. Len(endpoint')
           /\ Objects' = Objects /\ Pairs' = Pairs
  <1>1. Len(endpoint) \in Nat
    BY DEF Types
  <1>2. Objects' = Objects /\ Pairs' = Pairs
    BY DEF Objects, Pairs
  <1> QED
    BY <1>1, <1>2 DEF Types, Labels, Answer, At, None

LEMMA ConnectInv == ASSUME Inv, NEW r \in Requests, Connect(r) PROVE Inv'
  <1>0. /\ At(r, "connect", client', NoSub)
        /\ pc'[r] = "connect" /\ obj'[r] = client' /\ sub'[r] = NoSub
        /\ \A q \in Requests : q # r => Same(q)
    <2>1. /\ At(r, "connect", client', NoSub)
          /\ seen' = seen \/ \E v : seen' = [seen EXCEPT ![r] = v]
      BY DEF Connect, Await
    <2> QED
      BY <2>1, AtMoves DEF Inv
  <1>1. Types'
    BY DEF Inv, Types, Awaiting, Labels, Objects, Pairs, Connect, At, Await,
           server, None, NoSub
  <1>2. Awaiting'
    <2>1. obj'[r] \in Objects' /\ Objects \subseteq Objects' /\ Pairs \subseteq Pairs'
      BY <1>0 DEF Inv, Types, Objects, Pairs, None, Connect, server
    <2> QED
      BY <1>0, <2>1 DEF Inv, Awaiting, Same
  <1>3. ConnectFirst'
    <2>1. connected' = connected /\ obj'[r] \notin Objects /\ connected \subseteq Objects
      BY <1>0 DEF Inv, Types, Objects, Connect
    <2>2. \A q \in Requests \ {r} : pc'[q] = pc[q] /\ obj'[q] = obj[q]
              /\ (pc[q] # "idle" => obj[q] \in Objects)
      BY <1>0 DEF Same, Inv, Awaiting
    <2> QED
      BY <1>0, <2>1, <2>2 DEF Inv, ConnectFirst
  <1>4. IdsAreIssued'
    BY DEF Inv, Types, Awaiting, IdsAreIssued, Issued, Objects, Pairs,
           Connect, At, Await, server, None, NoSub
  <1>5. OneTabEach'
    <2>1. \A q \in Requests : Streams(q)' =>
              Streams(q) /\ sub'[q] = sub[q] /\ obj'[q] = obj[q]
      BY <1>0 DEF Streams, Same
    <2>2. \A q \in Requests : Streams(q) => endpoint'[obj[q]] = endpoint[obj[q]]
      BY DEF Inv, Types, Awaiting, Streams, Objects, Connect
    <2> QED
      BY <2>1, <2>2 DEF Inv, OneTabEach
  <1>6. NotInDict'
    BY <1>0 DEF Inv, NotInDict, Same, Connect, server
  <1>7. PassedIsDeleted'
    BY DEF Inv, Types, Awaiting, IdsAreIssued, Issued, PassedIsDeleted,
           Objects, Pairs, Connect, At, Await, server, None, NoSub
  <1>8. StreamsAreKnown'
    BY <1>0, KnownKept DEF Inv, Connect, server
  <1>9. Served'
    <2>1. \A o \in Objects : endpoint'[o] = endpoint[o]
      BY DEF Inv, Types, Objects, Connect
    <2> QED
      BY <1>0, <2>1, ServedKept DEF Inv, Connect, server
  <1>10. Accounted'
    <2>1. /\ open' = open /\ connected' = connected /\ client' = Len(endpoint) + 1
          /\ dropped' = dropped \cup ({client} \ {None})
      BY DEF Inv, Types, Connect, server
    <2>2. /\ \A o \in open \cup connected : o # None
          /\ \A q \in Requests : pc[q] # "idle" => obj[q] # None
      BY DEF Inv, Types, Awaiting, Objects, None
    <2>3. \A o : Connecting(o) => Connecting(o)'
      <3> SUFFICES ASSUME NEW q \in Requests, pc[q] \in {"connect", "namespaces"}
                   PROVE  pc'[q] \in {"connect", "namespaces"} /\ obj'[q] = obj[q]
        BY DEF Connecting
      <3> QED
        BY <1>0 DEF Same, Connect
    <2>4. \A q \in Requests : pc'[q] \in {"connect", "namespaces"} =>
              obj'[q] \in dropped' \/ obj'[q] = client'
      BY <1>0, <2>1, <2>2 DEF Inv, Accounted, Same
    <2> QED
      BY <2>1, <2>2, <2>3, <2>4 DEF Inv, Accounted
  <1>11. NoOrphanStreams'
    <2>1. live' \subseteq live /\ \A s \in live : s[1] # client'
      BY DEF Inv, Types, Objects, Pairs, None, Connect, server
    <2> QED
      BY <2>1 DEF NoOrphanStreams, Of
  <1> QED
    BY <1>1, <1>2, <1>3, <1>4, <1>5, <1>6, <1>7, <1>8, <1>9, <1>10, <1>11 DEF Inv

LEMMA OpenedInv == ASSUME Inv, NEW r \in Requests, Opened(r) PROVE Inv'
  <1>0. /\ At(r, "namespaces", obj[r], NoSub)
        /\ pc'[r] = "namespaces" /\ obj'[r] = obj[r] /\ sub'[r] = NoSub
        /\ \A q \in Requests : q # r => Same(q)
    <2>1. /\ At(r, "namespaces", obj[r], NoSub)
          /\ seen' = seen \/ \E v : seen' = [seen EXCEPT ![r] = v]
      BY DEF Opened, Await
    <2> QED
      BY <2>1, AtMoves DEF Inv
  <1>1. Types'
    BY DEF Inv, Types, Awaiting, Labels, Objects, Pairs, Opened, At, Await,
           clients, history, None, NoSub
  <1>2. Awaiting'
    BY <1>0 DEF Inv, Types, Awaiting, Objects, Pairs, Same, Opened, clients,
       history
  <1>3. ConnectFirst'
    BY <1>0 DEF Inv, Awaiting, ConnectFirst, Same, Opened, clients, history
  <1>4. IdsAreIssued'
    BY DEF Inv, Types, Awaiting, IdsAreIssued, Issued, Objects, Pairs,
           Opened, At, Await, clients, history, None, NoSub
  <1>5. OneTabEach'
    <2>1. \A q \in Requests : Streams(q)' =>
              Streams(q) /\ sub'[q] = sub[q] /\ obj'[q] = obj[q]
      BY <1>0 DEF Streams, Same
    <2>2. endpoint' = endpoint
      BY DEF Opened, clients
    <2> QED
      BY <2>1, <2>2 DEF Inv, OneTabEach
  <1>6. NotInDict'
    BY <1>0 DEF Inv, NotInDict, Same, Opened, clients, history
  <1>7. PassedIsDeleted'
    BY DEF Inv, Types, Awaiting, IdsAreIssued, Issued, PassedIsDeleted,
           Objects, Pairs, Opened, At, Await, clients, history, None, NoSub
  <1>8. StreamsAreKnown'
    BY DEF Inv, Types, Awaiting, IdsAreIssued, Issued, NotInDict,
           PassedIsDeleted, StreamsAreKnown, Objects, Pairs, Opened, At,
           Await, clients, history, None, NoSub
  <1>9. Served'
    BY <1>0, ServedKept DEF Inv, Types, Awaiting, ConnectFirst, Objects,
       Pairs, Opened, clients, history
  <1>10. Accounted'
    <2>1. /\ open' = open \cup {obj[r]} /\ connected' = connected /\ client' = client
          /\ dropped' = dropped /\ pc[r] = "connect"
      BY DEF Opened, clients, history
    <2>2. \A q \in Requests : pc'[q] \in {"connect", "namespaces"} =>
              pc[q] \in {"connect", "namespaces"} /\ obj'[q] = obj[q]
      BY <1>0, <2>1 DEF Same
    <2>3. \A o : Connecting(o) => Connecting(o)'
      <3> SUFFICES ASSUME NEW o, NEW q \in Requests, pc[q] \in {"connect", "namespaces"},
                          obj[q] = o
                   PROVE  Connecting(o)'
        BY DEF Connecting
      <3> QED
        BY <1>0, <2>1 DEF Same, Connecting
    <2> QED
      BY <1>0, <2>1, <2>2, <2>3 DEF Inv, Accounted, Connecting
  <1>11. NoOrphanStreams'
    BY <1>0 DEF Inv, NoOrphanStreams, Of, Same, Opened, clients, history
  <1> QED
    BY <1>1, <1>2, <1>3, <1>4, <1>5, <1>6, <1>7, <1>8, <1>9, <1>10, <1>11 DEF Inv

LEMMA ConnectedInv == ASSUME Inv, NEW r \in Requests, Connected(r) PROVE Inv'
  <1>0. /\ At(r, "idle", None, NoSub)
        /\ pc'[r] = "idle" /\ obj'[r] = None /\ sub'[r] = NoSub
        /\ \A q \in Requests : q # r => Same(q)
    <2>1. /\ At(r, "idle", None, NoSub)
          /\ seen' = seen \/ \E v : seen' = [seen EXCEPT ![r] = v]
      BY DEF Connected, Answer
    <2> QED
      BY <2>1, AtMoves DEF Inv
  <1>1. Types'
    <2>1. /\ pc' \in [Requests -> Labels] /\ obj' \in [Requests -> 0 .. Len(endpoint')]
          /\ sub' \in [Requests -> {NoSub} \cup Pairs']
      BY <1>0, AtTyped DEF Inv, Types, Labels, None, Connected
    <2> QED
      BY <2>1 DEF Inv, Types, Awaiting, Objects, Pairs, None, Connected,
         Answer, server, history
  <1>2. Awaiting'
    BY <1>0 DEF Inv, Types, Awaiting, Objects, Pairs, Same, Connected,
       server, history
  <1>3. ConnectFirst'
    <2> SUFFICES ASSUME NEW q \in Requests, pc'[q] \in {"connect", "namespaces"}
                 PROVE  /\ obj'[q] \notin connected'
                        /\ \A p \in Requests :
                              /\ pc'[p] \in {"create", "items", "stream", "deleteOne", "close"}
                                    => obj'[p] # obj'[q]
                              /\ pc'[p] \in {"connect", "namespaces"} /\ obj'[p] = obj'[q]
                                    => p = q
      BY DEF ConnectFirst
    <2>1. q # r /\ pc[q] \in {"connect", "namespaces"} /\ obj'[q] = obj[q]
      BY <1>0 DEF Same
    <2>2. obj[q] \notin connected /\ obj[q] # obj[r]
      BY <2>1 DEF Inv, ConnectFirst, Connected
    <2>3. \A p \in Requests : pc'[p] # "idle"
              => p # r /\ pc'[p] = pc[p] /\ obj'[p] = obj[p]
      BY <1>0 DEF Same
    <2> QED
      BY <2>1, <2>2, <2>3 DEF Inv, ConnectFirst, Connected
  <1>4. IdsAreIssued'
    BY DEF Inv, Types, Awaiting, IdsAreIssued, Issued, Objects, Pairs,
           Connected, Answer, At, server, history, None, NoSub
  <1>5. OneTabEach'
    <2>1. \A q \in Requests : Streams(q)' =>
              Streams(q) /\ sub'[q] = sub[q] /\ obj'[q] = obj[q]
      BY <1>0 DEF Streams, Same
    <2>2. endpoint' = endpoint
      BY DEF Connected
    <2> QED
      BY <2>1, <2>2 DEF Inv, OneTabEach
  <1>6. NotInDict'
    BY <1>0 DEF Inv, NotInDict, Same, Connected, server, history
  <1>7. PassedIsDeleted'
    BY DEF Inv, Types, Awaiting, IdsAreIssued, Issued, PassedIsDeleted,
           Objects, Pairs, Connected, Answer, At, server, history, None,
           NoSub
  <1>8. StreamsAreKnown'
    BY <1>0, KnownKept DEF Inv, Connected, server, history
  <1>9. Served'
    BY <1>0, ServedKept DEF Inv, Types, Awaiting, ConnectFirst, Objects,
       Pairs, Connected, server, history
  <1>10. Accounted'
    <2>1. /\ open' = open /\ connected' = connected \cup {obj[r]} /\ client' = client
          /\ dropped' = dropped /\ pc[r] = "namespaces"
      BY DEF Connected, server, history
    <2>2. \A q \in Requests : pc'[q] \in {"connect", "namespaces"} =>
              pc[q] \in {"connect", "namespaces"} /\ obj'[q] = obj[q]
      BY <1>0, <2>1 DEF Same
    <2>3. \A o : Connecting(o) => o = obj[r] \/ Connecting(o)'
      <3> SUFFICES ASSUME NEW o, NEW q \in Requests, pc[q] \in {"connect", "namespaces"},
                          obj[q] = o
                   PROVE  o = obj[r] \/ Connecting(o)'
        BY DEF Connecting
      <3> QED
        BY <1>0, <2>1 DEF Same, Connecting
    <2> QED
      BY <2>1, <2>2, <2>3 DEF Inv, Accounted
  <1>11. NoOrphanStreams'
    BY <1>0 DEF Inv, NoOrphanStreams, Of, Same, Connected, server, history
  <1> QED
    BY <1>1, <1>2, <1>3, <1>4, <1>5, <1>6, <1>7, <1>8, <1>9, <1>10, <1>11 DEF Inv

LEMMA ConnectFailsInv == ASSUME Inv, NEW r \in Requests, ConnectFails(r) PROVE Inv'
  <1>0. /\ At(r, "idle", None, NoSub)
        /\ pc'[r] = "idle" /\ obj'[r] = None /\ sub'[r] = NoSub
        /\ \A q \in Requests : q # r => Same(q)
    <2>1. /\ At(r, "idle", None, NoSub)
          /\ seen' = seen \/ \E v : seen' = [seen EXCEPT ![r] = v]
      BY DEF ConnectFails, Answer
    <2> QED
      BY <2>1, AtMoves DEF Inv
  <1>1. Types'
    BY DEF Inv, Types, Awaiting, Labels, Objects, Pairs, ConnectFails,
           Answer, At, clients, server, None, NoSub
  <1>2. Awaiting'
    BY <1>0 DEF Inv, Types, Awaiting, Objects, Pairs, Same, ConnectFails,
       clients, server
  <1>3. ConnectFirst'
    BY <1>0 DEF Inv, Awaiting, ConnectFirst, Same, ConnectFails, clients,
       server
  <1>4. IdsAreIssued'
    BY DEF Inv, Types, Awaiting, IdsAreIssued, Issued, Objects, Pairs,
           ConnectFails, Answer, At, clients, server, None, NoSub
  <1>5. OneTabEach'
    <2>1. \A q \in Requests : Streams(q)' =>
              Streams(q) /\ sub'[q] = sub[q] /\ obj'[q] = obj[q]
      BY <1>0 DEF Streams, Same
    <2>2. endpoint' = endpoint
      BY DEF ConnectFails, clients
    <2> QED
      BY <2>1, <2>2 DEF Inv, OneTabEach
  <1>6. NotInDict'
    BY <1>0 DEF Inv, NotInDict, Same, ConnectFails, clients, server
  <1>7. PassedIsDeleted'
    BY DEF Inv, Types, Awaiting, IdsAreIssued, Issued, PassedIsDeleted,
           Objects, Pairs, ConnectFails, Answer, At, clients, server, None,
           NoSub
  <1>8. StreamsAreKnown'
    BY <1>0, KnownKept DEF Inv, ConnectFails, clients, server
  <1>9. Served'
    BY <1>0, ServedKept DEF Inv, ConnectFails, clients, server
  <1>10. Accounted'
    <2>1. /\ open' = open /\ connected' = connected /\ client' = client
          /\ dropped' = dropped \cup {obj[r]}
      BY DEF ConnectFails, clients, server
    <2>2. \A q \in Requests : pc'[q] \in {"connect", "namespaces"} =>
              pc[q] \in {"connect", "namespaces"} /\ obj'[q] = obj[q]
      BY <1>0, <2>1 DEF Same
    <2>3. \A o : Connecting(o) => o = obj[r] \/ Connecting(o)'
      <3> SUFFICES ASSUME NEW o, NEW q \in Requests, pc[q] \in {"connect", "namespaces"},
                          obj[q] = o
                   PROVE  o = obj[r] \/ Connecting(o)'
        BY DEF Connecting
      <3> QED
        BY <1>0, <2>1 DEF Same, Connecting
    <2> QED
      BY <2>1, <2>2, <2>3 DEF Inv, Accounted
  <1>11. NoOrphanStreams'
    BY <1>0 DEF Inv, NoOrphanStreams, Of, Same, ConnectFails, clients,
       server
  <1> QED
    BY <1>1, <1>2, <1>3, <1>4, <1>5, <1>6, <1>7, <1>8, <1>9, <1>10, <1>11 DEF Inv

LEMMA DisconnectInv == ASSUME Inv, NEW r \in Requests, Disconnect(r) PROVE Inv'
  <1>0. /\ At(r, "disconnect", client, NoSub)
        /\ pc'[r] = "disconnect" /\ obj'[r] = client /\ sub'[r] = NoSub
        /\ \A q \in Requests : q # r => Same(q)
    <2>1. /\ At(r, "disconnect", client, NoSub)
          /\ seen' = seen \/ \E v : seen' = [seen EXCEPT ![r] = v]
      BY DEF Disconnect, Await
    <2> QED
      BY <2>1, AtMoves DEF Inv
  <1>1. Types'
    BY DEF Inv, Types, Awaiting, Labels, Objects, Pairs, Disconnect, Await,
           At, clients, server, history, None, NoSub
  <1>2. Awaiting'
    <2>1. obj'[r] \in Objects' /\ Objects \subseteq Objects' /\ Pairs \subseteq Pairs'
      BY <1>0 DEF Inv, Types, Objects, Pairs, None, Disconnect, clients, server, history
    <2> QED
      BY <1>0, <2>1 DEF Inv, Awaiting, Same
  <1>3. ConnectFirst'
    BY <1>0 DEF Inv, Awaiting, ConnectFirst, Same, Disconnect, clients,
       server, history
  <1>4. IdsAreIssued'
    BY DEF Inv, Types, Awaiting, IdsAreIssued, Issued, Objects, Pairs,
           Disconnect, Await, At, clients, server, history, None, NoSub
  <1>5. OneTabEach'
    <2>1. \A q \in Requests : Streams(q)' =>
              Streams(q) /\ sub'[q] = sub[q] /\ obj'[q] = obj[q]
      BY <1>0 DEF Streams, Same
    <2>2. endpoint' = endpoint
      BY DEF Disconnect, clients
    <2> QED
      BY <2>1, <2>2 DEF Inv, OneTabEach
  <1>6. NotInDict'
    BY <1>0 DEF Inv, NotInDict, Same, Disconnect, clients, server, history
  <1>7. PassedIsDeleted'
    BY DEF Inv, Types, Awaiting, IdsAreIssued, Issued, PassedIsDeleted,
           Objects, Pairs, Disconnect, Await, At, clients, server, history,
           None, NoSub
  <1>8. StreamsAreKnown'
    BY <1>0, KnownKept DEF Inv, Disconnect, clients, server, history
  <1>9. Served'
    BY <1>0, ServedKept DEF Inv, Types, Awaiting, ConnectFirst, Objects,
       Pairs, Disconnect, clients, server, history
  <1>10. Accounted'
    <2>1. /\ open' = open /\ connected' = connected /\ client' = client
          /\ dropped \subseteq dropped' /\ pc[r] \notin {"connect", "namespaces"}
      BY DEF Disconnect, clients, server, history
    <2>2. \A q \in Requests : pc'[q] \in {"connect", "namespaces"} =>
              pc[q] \in {"connect", "namespaces"} /\ obj'[q] = obj[q]
      BY <1>0, <2>1 DEF Same
    <2>3. \A o : Connecting(o) => Connecting(o)'
      <3> SUFFICES ASSUME NEW o, NEW q \in Requests, pc[q] \in {"connect", "namespaces"},
                          obj[q] = o
                   PROVE  Connecting(o)'
        BY DEF Connecting
      <3> QED
        BY <1>0, <2>1 DEF Same, Connecting
    <2> QED
      BY <2>1, <2>2, <2>3 DEF Inv, Accounted
  <1>11. NoOrphanStreams'
    BY <1>0 DEF Inv, NoOrphanStreams, Of, Same, Disconnect, clients, server,
       history
  <1> QED
    BY <1>1, <1>2, <1>3, <1>4, <1>5, <1>6, <1>7, <1>8, <1>9, <1>10, <1>11 DEF Inv

LEMMA DisconnectNoopInv == ASSUME Inv, NEW r \in Requests, DisconnectNoop(r) PROVE Inv'
  <1>0. /\ At(r, "idle", None, NoSub)
        /\ pc'[r] = "idle" /\ obj'[r] = None /\ sub'[r] = NoSub
        /\ \A q \in Requests : q # r => Same(q)
    <2>1. /\ At(r, "idle", None, NoSub)
          /\ seen' = seen \/ \E v : seen' = [seen EXCEPT ![r] = v]
      BY DEF DisconnectNoop, LetGo, Answer
    <2> QED
      BY <2>1, AtMoves DEF Inv
  <1>1. Types'
    BY DEF Inv, Types, Awaiting, Labels, Objects, Pairs, DisconnectNoop,
           LetGo, Answer, At, clients, server, Locked, None, NoSub
  <1>2. Awaiting'
    BY <1>0 DEF Inv, Types, Awaiting, Objects, Pairs, Same, DisconnectNoop,
       LetGo, clients, server
  <1>3. ConnectFirst'
    BY <1>0 DEF Inv, Awaiting, ConnectFirst, Same, DisconnectNoop, LetGo,
       clients, server
  <1>4. IdsAreIssued'
    BY DEF Inv, Types, Awaiting, IdsAreIssued, Issued, Objects, Pairs,
           DisconnectNoop, LetGo, Answer, At, clients, server, Locked, None,
           NoSub
  <1>5. OneTabEach'
    <2>1. \A q \in Requests : Streams(q)' =>
              Streams(q) /\ sub'[q] = sub[q] /\ obj'[q] = obj[q]
      BY <1>0 DEF Streams, Same
    <2>2. endpoint' = endpoint
      BY DEF DisconnectNoop, clients
    <2> QED
      BY <2>1, <2>2 DEF Inv, OneTabEach
  <1>6. NotInDict'
    BY <1>0 DEF Inv, NotInDict, Same, DisconnectNoop, LetGo, clients, server
  <1>7. PassedIsDeleted'
    BY DEF Inv, Types, Awaiting, IdsAreIssued, Issued, PassedIsDeleted,
           Objects, Pairs, DisconnectNoop, LetGo, Answer, At, clients,
           server, Locked, None, NoSub
  <1>8. StreamsAreKnown'
    BY <1>0, KnownKept DEF Inv, DisconnectNoop, LetGo, clients, server
  <1>9. Served'
    BY <1>0, ServedKept DEF Inv, Types, Awaiting, ConnectFirst, Objects,
       Pairs, DisconnectNoop, LetGo, clients, server
  <1>10. Accounted'
    BY DEF Inv, Types, Awaiting, ConnectFirst, Accounted, Connecting,
           Objects, DisconnectNoop, LetGo, Answer, At, clients, server,
           Locked, None, NoSub
  <1>11. NoOrphanStreams'
    <2>1. live' \subseteq live /\ \A s \in live : s[1] # client'
      BY DEF Inv, Types, Objects, Pairs, None, DisconnectNoop, LetGo, clients, server
    <2> QED
      BY <2>1 DEF NoOrphanStreams, Of
  <1> QED
    BY <1>1, <1>2, <1>3, <1>4, <1>5, <1>6, <1>7, <1>8, <1>9, <1>10, <1>11 DEF Inv

\* A turn of the loop of disconnect(), whatever the deletion before it came to.
LEMMA TurnInv ==
    ASSUME Inv, NEW r \in Requests, NEW visited \in SUBSET Pairs, NextTurn(r, visited),
           pc[r] \in {"disconnect", "deleteOne"}, ~Connecting(obj[r]),
           UNCHANGED <<client, endpoint, connected, open, last, dropped, taken>>,
           live' \subseteq live, abandoned \subseteq abandoned',
           \A p \in visited : Issued(p),
           \A s \in visited \cup seen[r] : s \notin live' \/ s \in abandoned',
           \A s \in live : s \notin live' => pc[r] = "deleteOne" /\ s = sub[r]
    PROVE  Inv'
  <1>a. /\ client' = client /\ endpoint' = endpoint /\ connected' = connected
        /\ open' = open /\ last' = last /\ dropped' = dropped /\ taken' = taken
        /\ obj[r] \in Objects
    BY DEF Inv, Awaiting
  <1>b. \/ \E s \in Dict(obj[r]) \ visited :
              /\ seen' = [seen EXCEPT ![r] = visited \cup {s}]
              /\ At(r, "deleteOne", obj[r], s)
              /\ registered' = registered
        \/ /\ Dict(obj[r]) \subseteq visited
           /\ registered' = registered \ Dict(obj[r])
           /\ At(r, "close", obj[r], NoSub)
           /\ seen' = seen
    BY DEF NextTurn
  <1>c. \/ /\ pc'[r] = "deleteOne" /\ sub'[r] \in Dict(obj[r]) /\ registered' = registered
           /\ seen'[r] = visited \cup {sub'[r]}
        \/ /\ pc'[r] = "close" /\ sub'[r] = NoSub /\ seen'[r] = seen[r]
           /\ Dict(obj[r]) \subseteq visited
           /\ registered' = registered \ Dict(obj[r])
    <2>1. CASE \E s \in Dict(obj[r]) \ visited :
                  /\ seen' = [seen EXCEPT ![r] = visited \cup {s}]
                  /\ At(r, "deleteOne", obj[r], s)
                  /\ registered' = registered
      BY <2>1 DEF Inv, Types, At
    <2>2. CASE /\ Dict(obj[r]) \subseteq visited
               /\ registered' = registered \ Dict(obj[r])
               /\ At(r, "close", obj[r], NoSub)
               /\ seen' = seen
      BY <2>2 DEF Inv, Types, At
    <2> QED
      BY <1>b, <2>1, <2>2
  <1>0. /\ obj'[r] = obj[r] /\ \A q \in Requests : q # r => Same(q)
        /\ registered' \subseteq registered
    BY <1>b, AtMoves DEF Inv, NextTurn
  <1>d. Dict(obj[r]) \subseteq registered /\ \A s \in Dict(obj[r]) : s \in Pairs /\ s[1] = obj[r]
    BY DEF Dict, Of, Inv, Types
  <1>1. Types'
    <2>0. Objects' = Objects /\ Pairs' = Pairs /\ obj[r] \in 0 .. Len(endpoint')
      BY <1>a DEF Objects, Pairs, Inv, Types
    <2>1. /\ pc' \in [Requests -> Labels] /\ obj' \in [Requests -> 0 .. Len(endpoint')]
          /\ sub' \in [Requests -> {NoSub} \cup Pairs']
      BY <1>a, <1>b, <1>d, <2>0, AtTyped DEF Inv, Types, Labels
    <2>2. seen' \in [Requests -> SUBSET Pairs]
      <3>1. CASE seen' = seen
        BY <3>1 DEF Inv, Types
      <3>2. CASE \E s \in Dict(obj[r]) : seen' = [seen EXCEPT ![r] = visited \cup {s}]
        <4>1. PICK s \in Dict(obj[r]) : seen' = [seen EXCEPT ![r] = visited \cup {s}]
          BY <3>2
        <4>2. visited \cup {s} \in SUBSET Pairs
          BY <1>d
        <4> QED
          BY <4>1, <4>2 DEF Inv, Types
      <3> QED
        BY <1>b, <3>1, <3>2
    <2> QED
      BY <1>0, <1>a, <2>0, <2>1, <2>2 DEF Inv, Types
  <1>2. Awaiting'
    <2>1. Objects' = Objects /\ Pairs' = Pairs
      BY <1>a DEF Objects, Pairs
    <2> QED
      BY <1>0, <1>a, <1>c, <1>d, <2>1 DEF Inv, Awaiting, Same
  <1>3. ConnectFirst'
    <2>1. \A q \in Requests : pc'[q] \in {"connect", "namespaces"} =>
              /\ pc[q] = pc'[q] /\ obj'[q] = obj[q] /\ obj[q] # obj[r]
      BY <1>0, <1>c DEF Same, Connecting
    <2>2. \A q \in Requests : q # r => pc'[q] = pc[q] /\ obj'[q] = obj[q]
      BY <1>0 DEF Same
    <2> QED
      BY <1>0, <1>a, <1>c, <2>1, <2>2 DEF Inv, ConnectFirst
  <1>4. IdsAreIssued'
    <2>1. \A p : Issued(p) => Issued(p)'
      BY <1>a DEF Issued
    <2>2. \A p \in registered' \cup live' : Issued(p)'
      BY <1>0, <2>1 DEF Inv, IdsAreIssued
    <2>3. ASSUME NEW q \in Requests,
                 pc'[q] \in {"deleteOne", "items", "stream", "unsubscribe"}
          PROVE  \A p : p = sub'[q] => Issued(p)'
      <3>1. q # r => pc'[q] = pc[q] /\ sub'[q] = sub[q]
        BY <1>0 DEF Same
      <3>2. q = r => sub'[q] \in registered
        BY <1>c, <1>d, <2>3
      <3> QED
        BY <2>1, <2>3, <3>1, <3>2 DEF Inv, IdsAreIssued
    <2>4. ASSUME NEW q \in Requests, NEW p \in seen'[q] PROVE Issued(p)'
      <3>1. q # r => seen'[q] = seen[q]
        BY <1>0 DEF Same
      <3>2. q = r => p \in visited \cup seen[r] \cup registered
        BY <1>c, <1>d, <2>4
      <3> QED
        BY <2>1, <2>4, <3>1, <3>2 DEF Inv, IdsAreIssued
    <2> QED
      BY <2>2, <2>3, <2>4 DEF IdsAreIssued
  <1>5. OneTabEach'
    <2>1. \A q \in Requests : Streams(q)' =>
              Streams(q) /\ sub'[q] = sub[q] /\ obj'[q] = obj[q]
      BY <1>0, <1>c DEF Streams, Same
    <2> QED
      BY <1>a, <2>1 DEF Inv, OneTabEach
  <1>6. NotInDict'
    <2>1. \A q \in Requests : pc'[q] \in {"items", "unsubscribe"} =>
              pc'[q] = pc[q] /\ sub'[q] = sub[q]
      BY <1>0, <1>c DEF Same
    <2> QED
      BY <1>0, <2>1 DEF Inv, NotInDict
  <1>7. PassedIsDeleted'
    <2> SUFFICES ASSUME NEW q \in Requests, NEW s \in seen'[q]
                 PROVE  \/ pc'[q] = "deleteOne" /\ s = sub'[q]
                        \/ s \notin live' \/ s \in abandoned'
      BY DEF PassedIsDeleted
    <2>1. CASE q = r
      BY <1>c, <2>1
    <2>2. CASE q # r
      BY <1>0, <2>2 DEF Inv, PassedIsDeleted, Same
    <2> QED
      BY <2>1, <2>2
  <1>8. StreamsAreKnown'
    <2> SUFFICES ASSUME NEW q \in Requests, pc'[q] = "stream", sub'[q] \notin registered',
                        sub'[q] \in live', sub'[q] \notin abandoned'
                 PROVE  \E p \in Requests : pc'[p] = "unsubscribe" /\ sub'[p] = sub'[q]
      BY DEF StreamsAreKnown
    <2>1. q # r /\ pc[q] = "stream" /\ sub'[q] = sub[q]
      BY <1>0, <1>c DEF Same
    <2>2. sub[q] \notin registered
      BY <1>c, <2>1
    <2>3. PICK p \in Requests : pc[p] = "unsubscribe" /\ sub[p] = sub[q]
      BY <2>1, <2>2 DEF Inv, StreamsAreKnown
    <2>4. p # r
      BY <2>3
    <2> QED
      BY <1>0, <2>1, <2>3, <2>4 DEF Same
  <1>9. Served'
    <2> SUFFICES ASSUME NEW q \in Requests, pc'[q] = "stream",
                        obj'[q] \in open' \cap connected', ~TornDown(obj[q])'
                 PROVE  sub'[q] \in live' \cap registered' \/ TakenByOther(sub[q])'
      BY <1>0, <1>c DEF Served, Same
    <2>1. q # r /\ pc[q] = "stream" /\ sub'[q] = sub[q] /\ obj'[q] = obj[q]
      BY <1>0, <1>c DEF Same
    <2>2. obj[q] # obj[r]
      BY <1>0, <1>c, <2>1 DEF TornDown
    <2>3. ~TornDown(obj[q])
      <3> SUFFICES ASSUME NEW p \in Requests, pc[p] \in {"deleteOne", "close"},
                          obj[p] = obj[q]
                   PROVE  FALSE
        BY DEF TornDown
      <3>1. pc'[p] \in {"deleteOne", "close"} /\ obj'[p] = obj'[q]
        BY <1>0, <2>1, <2>2 DEF Same
      <3> QED
        BY <3>1 DEF TornDown
    <2>4. sub[q] \in live \cap registered \/ TakenByOther(sub[q])
      BY <1>a, <2>1, <2>3 DEF Inv, Served
    <2>5. CASE TakenByOther(sub[q])
      BY <1>a, <2>1, <2>5 DEF TakenByOther
    <2>6. CASE sub[q] \in live \cap registered
      <3>1. sub[q][1] # obj[r]
        BY <2>1, <2>2 DEF Inv, Awaiting
      <3>2. pc[r] = "deleteOne" => sub[q] # sub[r]
        BY <3>1 DEF Inv, Awaiting
      <3> QED
        BY <1>c, <1>d, <2>1, <2>6, <3>1, <3>2
    <2> QED
      BY <2>4, <2>5, <2>6
  <1>10. Accounted'
    <2>1. \A q \in Requests : pc'[q] \in {"connect", "namespaces"} =>
              pc[q] \in {"connect", "namespaces"} /\ obj'[q] = obj[q]
      BY <1>0, <1>c DEF Same
    <2>2. \A o : Connecting(o) => Connecting(o)'
      <3> SUFFICES ASSUME NEW q \in Requests, pc[q] \in {"connect", "namespaces"}
                   PROVE  pc'[q] \in {"connect", "namespaces"} /\ obj'[q] = obj[q]
        BY DEF Connecting
      <3> QED
        BY <1>0 DEF Same
    <2> QED
      BY <1>a, <2>1, <2>2 DEF Inv, Accounted
  <1>11. NoOrphanStreams'
    <2> SUFFICES ASSUME NEW s \in live', s[1] = client, s \notin abandoned'
                 PROVE  \E q \in Requests :
                           pc'[q] \in {"items", "stream", "unsubscribe"} /\ sub'[q] = s
      BY <1>a DEF NoOrphanStreams, Of
    <2>1. PICK q \in Requests :
              pc[q] \in {"items", "stream", "unsubscribe"} /\ sub[q] = s
      BY DEF Inv, NoOrphanStreams, Of
    <2> QED
      BY <1>0, <2>1 DEF Same
  <1> QED
    BY <1>1, <1>2, <1>3, <1>4, <1>5, <1>6, <1>7, <1>8, <1>9, <1>10, <1>11 DEF Inv

LEMMA DisconnectBeginInv == ASSUME Inv, NEW r \in Requests, DisconnectBegin(r) PROVE Inv'
  <1>1. /\ NextTurn(r, {}) /\ pc[r] = "disconnect" /\ live' = live /\ abandoned' = abandoned
        /\ UNCHANGED <<client, endpoint, connected, open, last, dropped, taken>>
    BY DEF DisconnectBegin, server, history
  <1>2. ~Connecting(obj[r])
    BY DEF DisconnectBegin, Locked, Connecting
  <1>3. \A s \in {} \cup seen[r] : s \notin live' \/ s \in abandoned'
    BY <1>1 DEF Inv, PassedIsDeleted
  <1> QED
    BY <1>1, <1>2, <1>3, TurnInv

LEMMA DeletedOneInv == ASSUME Inv, NEW r \in Requests, DeletedOne(r) PROVE Inv'
  <1>1. /\ NextTurn(r, seen[r]) /\ pc[r] = "deleteOne"
        /\ UNCHANGED <<client, endpoint, connected, open, last, dropped, taken>>
    BY DEF DeletedOne
  <1>2. /\ live' \subseteq live /\ abandoned \subseteq abandoned'
        /\ \A s \in live : s \notin live' => s = sub[r]
        /\ sub[r] \notin live' \/ sub[r] \in abandoned'
    BY DEF DeletedOne, Deletes
  <1>3. ~Connecting(obj[r])
    BY <1>1 DEF Inv, ConnectFirst, Connecting
  <1>4. \A s \in seen[r] : s \notin live' \/ s \in abandoned'
    BY <1>1, <1>2 DEF Inv, PassedIsDeleted
  <1>5. seen[r] \in SUBSET Pairs /\ \A p \in seen[r] : Issued(p)
    BY DEF Inv, Types, IdsAreIssued
  <1> QED
    BY <1>1, <1>2, <1>3, <1>4, <1>5, TurnInv

LEMMA LoopRaisesInv == ASSUME Inv, NEW r \in Requests, LoopRaises(r) PROVE Inv'
  <1>0. /\ At(r, "idle", None, NoSub)
        /\ pc'[r] = "idle" /\ obj'[r] = None /\ sub'[r] = NoSub
        /\ \A q \in Requests : q # r => Same(q)
    <2>1. /\ At(r, "idle", None, NoSub)
          /\ seen' = seen \/ \E v : seen' = [seen EXCEPT ![r] = v]
      BY DEF LoopRaises, LetGo, Answer
    <2> QED
      BY <2>1, AtMoves DEF Inv
  <1>f. /\ live' \subseteq live /\ open' = open /\ registered' = registered
        /\ connected' = connected \ {obj[r]} /\ endpoint' = endpoint /\ last' = last
        /\ taken' = taken /\ abandoned \subseteq abandoned' /\ client' = None
        /\ seen' = [seen EXCEPT ![r] = {}]
    BY DEF LoopRaises, LetGo, Answer, Deletes
  <1>1. Types'
    <2>1. Answer(r)
      BY DEF LoopRaises, LetGo
    <2> QED
      BY <2>1, <1>f, AnswerTyped DEF Inv, Types
  <1>2. Awaiting'
    BY <1>0 DEF Inv, Types, Awaiting, Objects, Pairs, Same, LoopRaises,
       Deletes, LetGo
  <1>3. ConnectFirst'
    BY <1>0 DEF Inv, Awaiting, ConnectFirst, Same, LoopRaises, Deletes,
       LetGo
  <1>4. IdsAreIssued'
    BY DEF Inv, Types, Awaiting, IdsAreIssued, Issued, Objects, Pairs,
           LoopRaises, Deletes, LetGo, Answer, At, None, NoSub
  <1>5. OneTabEach'
    <2>1. \A q \in Requests : Streams(q)' =>
              Streams(q) /\ sub'[q] = sub[q] /\ obj'[q] = obj[q]
      BY <1>0 DEF Streams, Same
    <2>2. endpoint' = endpoint
      BY DEF LoopRaises
    <2> QED
      BY <2>1, <2>2 DEF Inv, OneTabEach
  <1>6. NotInDict'
    BY <1>0 DEF Inv, NotInDict, Same, LoopRaises, Deletes, LetGo
  <1>7. PassedIsDeleted'
    BY DEF Inv, Types, Awaiting, IdsAreIssued, Issued, PassedIsDeleted,
           Objects, Pairs, LoopRaises, Deletes, LetGo, Answer, At, None,
           NoSub
  <1>8. StreamsAreKnown'
    BY <1>0, KnownKept DEF Inv, LoopRaises, Deletes, LetGo
  <1>9. Served'
    BY <1>0, ServedKept DEF Inv, Types, Awaiting, ConnectFirst, Objects,
       Pairs, LoopRaises, Deletes, LetGo
  <1>10. Accounted'
    BY DEF Inv, Types, Awaiting, ConnectFirst, Accounted, Connecting,
           Objects, LoopRaises, Deletes, LetGo, Answer, At, None, NoSub
  <1>11. NoOrphanStreams'
    <2>1. live' \subseteq live /\ \A s \in live : s[1] # client'
      BY DEF Inv, Types, Objects, Pairs, None, LoopRaises, Deletes, LetGo
    <2> QED
      BY <2>1 DEF NoOrphanStreams, Of
  <1> QED
    BY <1>1, <1>2, <1>3, <1>4, <1>5, <1>6, <1>7, <1>8, <1>9, <1>10, <1>11 DEF Inv

LEMMA SessionClosedInv == ASSUME Inv, NEW r \in Requests, SessionClosed(r) PROVE Inv'
  <1>0. /\ At(r, "idle", None, NoSub)
        /\ pc'[r] = "idle" /\ obj'[r] = None /\ sub'[r] = NoSub
        /\ \A q \in Requests : q # r => Same(q)
    <2>1. /\ At(r, "idle", None, NoSub)
          /\ seen' = seen \/ \E v : seen' = [seen EXCEPT ![r] = v]
      BY DEF SessionClosed, LetGo, Answer
    <2> QED
      BY <2>1, AtMoves DEF Inv
  <1>f. /\ live' \subseteq live /\ open' \subseteq open /\ registered' = registered
        /\ connected' = connected \ {obj[r]} /\ endpoint' = endpoint /\ last' = last
        /\ taken' = taken /\ abandoned' = abandoned /\ client' = None
        /\ seen' = [seen EXCEPT ![r] = {}] /\ dropped \cup ({client} \ {None, obj[r]}) \subseteq dropped'
        /\ obj[r] \in open' => obj[r] \in dropped'
    BY DEF SessionClosed, LetGo, Answer
  <1>1. Types'
    <2>1. Answer(r)
      BY DEF SessionClosed, LetGo
    <2> QED
      BY <2>1, <1>f, AnswerTyped DEF Inv, Types
  <1>2. Awaiting'
    BY <1>0 DEF Inv, Types, Awaiting, Objects, Pairs, Same, SessionClosed,
       LetGo, Of
  <1>3. ConnectFirst'
    <2>1. \A q \in Requests : pc'[q] # "idle" => q # r /\ pc'[q] = pc[q] /\ obj'[q] = obj[q]
      BY <1>0 DEF Same
    <2> QED
      BY <2>1, <1>f DEF Inv, ConnectFirst
  <1>4. IdsAreIssued'
    BY <1>0, <1>f DEF Inv, Types, IdsAreIssued, Issued, Same
  <1>5. OneTabEach'
    <2>1. \A q \in Requests : Streams(q)' =>
              Streams(q) /\ sub'[q] = sub[q] /\ obj'[q] = obj[q]
      BY <1>0 DEF Streams, Same
    <2>2. endpoint' = endpoint
      BY DEF SessionClosed
    <2> QED
      BY <2>1, <2>2 DEF Inv, OneTabEach
  <1>6. NotInDict'
    BY <1>0, <1>f DEF Inv, NotInDict, Same
  <1>7. PassedIsDeleted'
    BY DEF Inv, Types, Awaiting, IdsAreIssued, Issued, PassedIsDeleted,
           Objects, Pairs, SessionClosed, LetGo, Answer, At, Of, None, NoSub
  <1>8. StreamsAreKnown'
    BY <1>0, KnownKept DEF Inv, SessionClosed, LetGo
  <1>9. Served'
    BY <1>0, ServedKept DEF Inv, Types, Awaiting, ConnectFirst, Objects,
       Pairs, SessionClosed, LetGo, Of
  <1>10. Accounted'
    <2>1. pc[r] = "close" /\ ~Connecting(obj[r])
      BY DEF Inv, SessionClosed, ConnectFirst, Connecting
    <2>2. \A o : Connecting(o) => Connecting(o)'
      <3> SUFFICES ASSUME NEW q \in Requests, pc[q] \in {"connect", "namespaces"}
                   PROVE  pc'[q] \in {"connect", "namespaces"} /\ obj'[q] = obj[q]
        BY DEF Connecting
      <3> QED
        BY <1>0, <2>1 DEF Same
    <2>3. \A q \in Requests : pc'[q] \in {"connect", "namespaces"} =>
              pc[q] \in {"connect", "namespaces"} /\ obj'[q] = obj[q] /\ obj[q] # obj[r]
      BY <1>0, <2>1 DEF Same, Connecting
    <2>4. \A o \in open' \cup connected' : o \in dropped' \/ o = client'
      BY <1>f DEF Inv, Types, Accounted, Objects, None
    <2>5. \A q \in Requests : pc'[q] \in {"connect", "namespaces"} =>
              obj'[q] \in dropped' \/ obj'[q] = client'
      BY <1>f, <2>3 DEF Inv, Types, Awaiting, Accounted, Objects, None
    <2>6. \A o \in open' : o \in dropped' \/ o \in connected' \/ Connecting(o)'
      BY <1>f, <2>2 DEF Inv, Accounted
    <2> QED
      BY <2>4, <2>5, <2>6 DEF Accounted
  <1>11. NoOrphanStreams'
    <2>1. live' \subseteq live /\ \A s \in live : s[1] # client'
      BY DEF Inv, Types, Objects, Pairs, None, SessionClosed, LetGo
    <2> QED
      BY <2>1 DEF NoOrphanStreams, Of
  <1> QED
    BY <1>1, <1>2, <1>3, <1>4, <1>5, <1>6, <1>7, <1>8, <1>9, <1>10, <1>11 DEF Inv

LEMMA SubscribeInv == ASSUME Inv, NEW r \in Requests, Subscribe(r) PROVE Inv'
  <1>0. /\ At(r, "create", client, NoSub)
        /\ pc'[r] = "create" /\ obj'[r] = client /\ sub'[r] = NoSub
        /\ \A q \in Requests : q # r => Same(q)
    <2>1. /\ At(r, "create", client, NoSub)
          /\ seen' = seen \/ \E v : seen' = [seen EXCEPT ![r] = v]
      BY DEF Subscribe, Await
    <2> QED
      BY <2>1, AtMoves DEF Inv
  <1>1. Types'
    BY DEF Inv, Types, Awaiting, Labels, Objects, Pairs, Subscribe, Await,
           At, clients, server, history, None, NoSub
  <1>2. Awaiting'
    BY <1>0 DEF Inv, Types, Awaiting, Objects, Pairs, Same, Subscribe,
       clients, server, history
  <1>3. ConnectFirst'
    BY <1>0 DEF Inv, Awaiting, ConnectFirst, Same, Subscribe, clients,
       server, history
  <1>4. IdsAreIssued'
    BY DEF Inv, Types, Awaiting, IdsAreIssued, Issued, Objects, Pairs,
           Subscribe, Await, At, clients, server, history, None, NoSub
  <1>5. OneTabEach'
    <2>1. \A q \in Requests : Streams(q)' =>
              Streams(q) /\ sub'[q] = sub[q] /\ obj'[q] = obj[q]
      BY <1>0 DEF Streams, Same
    <2>2. endpoint' = endpoint
      BY DEF Subscribe, clients
    <2> QED
      BY <2>1, <2>2 DEF Inv, OneTabEach
  <1>6. NotInDict'
    BY <1>0 DEF Inv, NotInDict, Same, Subscribe, clients, server, history
  <1>7. PassedIsDeleted'
    BY DEF Inv, Types, Awaiting, IdsAreIssued, Issued, PassedIsDeleted,
           Objects, Pairs, Subscribe, Await, At, clients, server, history,
           None, NoSub
  <1>8. StreamsAreKnown'
    BY <1>0, KnownKept DEF Inv, Subscribe, clients, server, history
  <1>9. Served'
    BY <1>0, ServedKept DEF Inv, Subscribe, clients, server, history
  <1>10. Accounted'
    <2>1. /\ open' = open /\ connected' = connected /\ client' = client
          /\ dropped \subseteq dropped' /\ pc[r] \notin {"connect", "namespaces"}
      BY DEF Subscribe, clients, server, history
    <2>2. \A q \in Requests : pc'[q] \in {"connect", "namespaces"} =>
              pc[q] \in {"connect", "namespaces"} /\ obj'[q] = obj[q]
      BY <1>0, <2>1 DEF Same
    <2>3. \A o : Connecting(o) => Connecting(o)'
      <3> SUFFICES ASSUME NEW o, NEW q \in Requests, pc[q] \in {"connect", "namespaces"},
                          obj[q] = o
                   PROVE  Connecting(o)'
        BY DEF Connecting
      <3> QED
        BY <1>0, <2>1 DEF Same, Connecting
    <2> QED
      BY <2>1, <2>2, <2>3 DEF Inv, Accounted
  <1>11. NoOrphanStreams'
    BY <1>0 DEF Inv, NoOrphanStreams, Of, Same, Subscribe, clients, server,
       history
  <1> QED
    BY <1>1, <1>2, <1>3, <1>4, <1>5, <1>6, <1>7, <1>8, <1>9, <1>10, <1>11 DEF Inv

LEMMA CreatedInv == ASSUME Inv, NEW r \in Requests, Created(r) PROVE Inv'
  <1> DEFINE e   == endpoint[obj[r]]
             new == <<obj[r], last[e] + 1>>
  <1>a. obj[r] \in Objects /\ e \in Servers /\ last[e] \in Nat /\ new \in Pairs
    BY DEF Inv, Types, Awaiting, Created, Objects, Pairs
  <1>b. /\ pc[r] = "create" /\ last' = [last EXCEPT ![e] = @ + 1]
        /\ live' = live \cup {new} /\ open' = open /\ dropped' = dropped /\ taken' = taken
        /\ client' = client /\ endpoint' = endpoint /\ connected' = connected
        /\ registered' = registered
    BY DEF Created, clients
  <1>c. \/ /\ At(r, "items", obj[r], new) /\ seen' = seen /\ abandoned' = abandoned
           /\ obj[r] \in connected
        \/ Answer(r) /\ abandoned' = abandoned \cup {new}
    BY DEF Created, Await
  <1>0. /\ \/ /\ pc'[r] = "items" /\ obj'[r] = obj[r] /\ sub'[r] = new
              /\ obj[r] \in connected
           \/ /\ pc'[r] = "idle" /\ obj'[r] = None /\ sub'[r] = NoSub
              /\ abandoned' = abandoned \cup {new}
        /\ \A q \in Requests : q # r => Same(q)
        /\ abandoned \subseteq abandoned' /\ seen'[r] \subseteq seen[r]
    <2>1. CASE At(r, "items", obj[r], new) /\ seen' = seen /\ abandoned' = abandoned
               /\ obj[r] \in connected
      BY <2>1, AtMoves DEF Inv
    <2>2. CASE Answer(r) /\ abandoned' = abandoned \cup {new}
      <3>1. At(r, "idle", None, NoSub) /\ \E v : seen' = [seen EXCEPT ![r] = v]
        BY <2>2 DEF Answer
      <3>2. seen'[r] \subseteq seen[r]
        BY <2>2 DEF Answer, Inv, Types
      <3> QED
        BY <2>2, <3>1, <3>2, AtMoves DEF Inv
    <2> QED
      BY <1>c, <2>1, <2>2
  <1>d. /\ ~Issued(new) /\ \A p : p = new => Issued(p)'
        /\ \A p \in Pairs : Issued(p) => Issued(p)'
    <2>1. new[1] = obj[r] /\ new[2] = last[e] + 1
      OBVIOUS
    <2>2. \A x \in Servers : last'[x] \in Nat /\ last[x] \in Nat /\ last[x] <= last'[x]
      BY <1>b DEF Inv, Types
    <2>3. \A p \in Pairs : endpoint[p[1]] \in Servers /\ p[2] \in Nat
      BY DEF Pairs, Objects, Inv, Types
    <2>4. \A p \in Pairs : Issued(p) => Issued(p)'
      BY <1>b, <2>2, <2>3 DEF Issued
    <2>5. last'[e] = last[e] + 1
      BY <1>a, <1>b DEF Inv, Types
    <2>6. ~Issued(new)
      BY <1>a, <2>1 DEF Issued
    <2>7. \A p : p = new => Issued(p)'
      BY <1>a, <1>b, <2>1, <2>5 DEF Issued
    <2> QED
      BY <2>4, <2>6, <2>7
  <1> HIDE DEF e, new
  <1>1. Types'
    <2>1. CASE At(r, "items", obj[r], new) /\ seen' = seen /\ abandoned' = abandoned
               /\ obj[r] \in connected
      <3>1. obj[r] \in 0 .. Len(endpoint') /\ new \in {NoSub} \cup Pairs' /\ Pairs' = Pairs
        BY <1>a, <1>b DEF Inv, Types, Objects, Pairs
      <3>2. /\ pc' \in [Requests -> Labels] /\ obj' \in [Requests -> 0 .. Len(endpoint')]
            /\ sub' \in [Requests -> {NoSub} \cup Pairs']
        BY <1>b, <2>1, <3>1, AtTyped DEF Inv, Types, Labels
      <3>3. last' \in [Servers -> Nat]
        BY <1>a, <1>b DEF Inv, Types
      <3> QED
        BY <1>a, <1>b, <2>1, <3>1, <3>2, <3>3 DEF Inv, Types, Objects
    <2>2. CASE Answer(r)
      <3>3. last' \in [Servers -> Nat]
        BY <1>a, <1>b DEF Inv, Types
      <3> QED
        BY <1>a, <1>b, <2>2, <3>3, AnswerTyped DEF Inv, Types
    <2> QED
      BY <1>c, <2>1, <2>2
  <1>2. Awaiting'
    <2>1. Objects' = Objects /\ Pairs' = Pairs /\ new[1] = obj[r]
      BY <1>b DEF Objects, Pairs, new
    <2> QED
      BY <1>0, <1>a, <2>1 DEF Inv, Awaiting, Same
  <1>3. ConnectFirst'
    <2>1. \A q \in Requests : pc'[q] \in {"connect", "namespaces"} =>
              q # r /\ pc'[q] = pc[q] /\ obj'[q] = obj[q]
      BY <1>0 DEF Same
    <2>2. \A q \in Requests : pc'[q] \in {"create", "items", "stream", "deleteOne", "close"} =>
              /\ pc[q] \in {"create", "items", "stream", "deleteOne", "close"}
              /\ obj'[q] = obj[q]
      BY <1>0, <1>b DEF Same
    <2> QED
      BY <1>b, <2>1, <2>2 DEF Inv, ConnectFirst
  <1>4. IdsAreIssued'
    <2>1. ASSUME NEW p \in registered' \cup live' PROVE Issued(p)'
      <3>1. p = new \/ (p \in Pairs /\ Issued(p))
        BY <1>b DEF Inv, Types, IdsAreIssued
      <3> QED
        BY <1>d, <3>1
    <2>2. ASSUME NEW q \in Requests,
                 pc'[q] \in {"deleteOne", "items", "stream", "unsubscribe"}
          PROVE  \A p : p = sub'[q] => Issued(p)'
      <3>1. CASE q = r
        <4>1. sub'[q] = new
          BY <1>0, <2>2, <3>1
        <4> QED
          BY <1>d, <4>1
      <3>2. CASE q # r
        <4>1. pc[q] = pc'[q] /\ sub'[q] = sub[q]
          BY <1>0, <3>2 DEF Same
        <4>2. sub[q] \in Pairs /\ Issued(sub[q])
          BY <2>2, <4>1 DEF Inv, Awaiting, IdsAreIssued
        <4>3. sub[q][2] <= last'[endpoint[sub[q][1]]]
          BY <1>b, <1>d, <4>2 DEF Issued
        <4> QED
          BY <1>b, <4>1, <4>3 DEF Issued
      <3> QED
        BY <3>1, <3>2
    <2>3. ASSUME NEW q \in Requests, NEW p \in seen'[q] PROVE Issued(p)'
      BY <1>0, <1>d DEF Inv, Types, IdsAreIssued, Same
    <2> QED
      BY <2>1, <2>2, <2>3 DEF IdsAreIssued
  <1>5. OneTabEach'
    <2> SUFFICES ASSUME NEW q \in Requests, NEW p \in Requests, Streams(q)', Streams(p)',
                        sub'[q][2] = sub'[p][2], endpoint'[obj'[q]] = endpoint'[obj'[p]]
                 PROVE  q = p
      BY DEF OneTabEach
    <2>1. \A x \in Requests \ {r} : Streams(x)' =>
              /\ Streams(x) /\ sub'[x] = sub[x] /\ obj'[x] = obj[x]
              /\ sub[x] \in Pairs /\ sub[x][1] = obj[x] /\ Issued(sub[x])
      BY <1>0 DEF Same, Streams, Inv, Awaiting, IdsAreIssued
    <2>2. Streams(r)' => sub'[r] = new /\ obj'[r] = obj[r]
      BY <1>0 DEF Streams
    <2>3. \A x \in Requests \ {r} : Streams(x) /\ sub[x] \in Pairs /\ sub[x][1] = obj[x]
              /\ Issued(sub[x]) /\ endpoint[obj[x]] = e => sub[x][2] # new[2]
      BY <1>a DEF Issued, Pairs, new
    <2>4. CASE q # r /\ p # r
      BY <1>b, <2>1, <2>4 DEF Inv, OneTabEach
    <2>5. CASE q = r /\ p # r
      BY <1>b, <2>1, <2>2, <2>3, <2>5 DEF e
    <2>6. CASE q # r /\ p = r
      BY <1>b, <2>1, <2>2, <2>3, <2>6 DEF e
    <2> QED
      BY <2>4, <2>5, <2>6
  <1>6. NotInDict'
    <2>1. new \notin registered
      BY <1>d DEF Inv, IdsAreIssued
    <2>2. \A q \in Requests : pc'[q] = "unsubscribe" =>
              /\ q # r /\ pc[q] = "unsubscribe" /\ sub'[q] = sub[q]
              /\ Issued(sub[q])
      BY <1>0 DEF Same, Inv, IdsAreIssued
    <2>3. \A q \in Requests : pc'[q] = "unsubscribe" => sub'[q] # new
      BY <1>d, <2>2
    <2>4. \A q \in Requests : pc'[q] = "items" =>
              \/ q = r /\ sub'[q] = new
              \/ pc[q] = "items" /\ sub'[q] = sub[q]
      BY <1>0 DEF Same
    <2> QED
      BY <1>b, <2>1, <2>2, <2>3, <2>4 DEF Inv, NotInDict
  <1>7. PassedIsDeleted'
    <2> SUFFICES ASSUME NEW q \in Requests, NEW s \in seen'[q]
                 PROVE  \/ pc'[q] = "deleteOne" /\ s = sub'[q]
                        \/ s \notin live' \/ s \in abandoned'
      BY DEF PassedIsDeleted
    <2>1. s \in seen[q] /\ s # new
      BY <1>0, <1>d DEF Same, Inv, IdsAreIssued
    <2>2. pc[q] = "deleteOne" => pc'[q] = "deleteOne" /\ sub'[q] = sub[q]
      BY <1>0, <1>b DEF Same
    <2> QED
      BY <1>0, <1>b, <2>1, <2>2 DEF Inv, PassedIsDeleted
  <1>8. StreamsAreKnown'
    <2>1. \A q \in Requests : pc[q] = "stream" => sub[q] # new
      BY <1>d DEF Inv, IdsAreIssued
    <2> QED
      BY <1>0, <1>b, <2>1, KnownKept DEF Inv
  <1>9. Served'
    BY <1>0, <1>b, ServedKept DEF Inv
  <1>10. Accounted'
    <2>1. \A q \in Requests : pc'[q] \in {"connect", "namespaces"} =>
              pc[q] \in {"connect", "namespaces"} /\ obj'[q] = obj[q]
      BY <1>0 DEF Same
    <2>2. \A o : Connecting(o) => Connecting(o)'
      <3> SUFFICES ASSUME NEW q \in Requests, pc[q] \in {"connect", "namespaces"}
                   PROVE  pc'[q] \in {"connect", "namespaces"} /\ obj'[q] = obj[q]
        BY DEF Connecting
      <3> QED
        BY <1>0, <1>b DEF Same
    <2> QED
      BY <1>b, <2>1, <2>2 DEF Inv, Accounted
  <1>11. NoOrphanStreams'
    <2> SUFFICES ASSUME NEW s \in live', s[1] = client, s \notin abandoned'
                 PROVE  \E q \in Requests :
                           pc'[q] \in {"items", "stream", "unsubscribe"} /\ sub'[q] = s
      BY <1>b DEF NoOrphanStreams, Of
    <2>1. CASE s = new
      BY <1>0, <2>1
    <2>2. CASE s \in live
      <3>1. PICK q \in Requests :
                pc[q] \in {"items", "stream", "unsubscribe"} /\ sub[q] = s
        BY <1>0, <2>2 DEF Inv, NoOrphanStreams, Of
      <3>2. q # r
        BY <1>b, <3>1
      <3> QED
        BY <1>0, <3>1, <3>2 DEF Same
    <2> QED
      BY <1>b, <2>1, <2>2
  <1> QED
    BY <1>1, <1>2, <1>3, <1>4, <1>5, <1>6, <1>7, <1>8, <1>9, <1>10, <1>11 DEF Inv

LEMMA SubscribedInv == ASSUME Inv, NEW r \in Requests, Subscribed(r) PROVE Inv'
  <1>0. /\ At(r, "stream", obj[r], sub[r])
        /\ pc'[r] = "stream" /\ obj'[r] = obj[r] /\ sub'[r] = sub[r]
        /\ \A q \in Requests : q # r => Same(q)
    <2>1. /\ At(r, "stream", obj[r], sub[r])
          /\ seen' = seen \/ \E v : seen' = [seen EXCEPT ![r] = v]
      BY DEF Subscribed, Await
    <2> QED
      BY <2>1, AtMoves DEF Inv
  <1>1. Types'
    BY DEF Inv, Types, Awaiting, Labels, Objects, Pairs, Subscribed, Await,
           At, server, history, None, NoSub
  <1>2. Awaiting'
    BY <1>0 DEF Inv, Types, Awaiting, Objects, Pairs, Same, Subscribed,
       server, history
  <1>3. ConnectFirst'
    BY <1>0 DEF Inv, Awaiting, ConnectFirst, Same, Subscribed, server,
       history
  <1>4. IdsAreIssued'
    BY DEF Inv, Types, Awaiting, IdsAreIssued, Issued, Objects, Pairs,
           Subscribed, Await, At, server, history, None, NoSub
  <1>5. OneTabEach'
    <2>1. \A q \in Requests : Streams(q)' =>
              Streams(q) /\ sub'[q] = sub[q] /\ obj'[q] = obj[q]
      BY <1>0 DEF Streams, Same, Subscribed
    <2>2. endpoint' = endpoint
      BY DEF Subscribed
    <2> QED
      BY <2>1, <2>2 DEF Inv, OneTabEach
  <1>6. NotInDict'
    <2>1. registered' = registered \cup {sub[r]} /\ pc[r] = "items" /\ sub[r] \in Pairs
      BY DEF Subscribed, Inv, Awaiting
    <2>2. \A q \in Requests : pc'[q] \in {"items", "unsubscribe"} =>
              q # r /\ pc[q] = pc'[q] /\ sub'[q] = sub[q]
      BY <1>0 DEF Same
    <2>3. \A q \in Requests : pc'[q] = "items" => sub[q] # sub[r]
      <3> SUFFICES ASSUME NEW q \in Requests, pc'[q] = "items", sub[q] = sub[r] PROVE FALSE
        OBVIOUS
      <3>1. q # r /\ pc[q] = "items"
        BY <2>2
      <3>2. obj[q] = obj[r]
        BY <2>1, <3>1 DEF Inv, Awaiting
      <3> QED
        BY <2>1, <3>1, <3>2 DEF Inv, OneTabEach, Streams
    <2>4. \A q \in Requests : pc[q] = "unsubscribe" => sub[q] # sub[r]
      BY <2>1 DEF Inv, NotInDict
    <2> QED
      BY <2>1, <2>2, <2>3, <2>4 DEF Inv, NotInDict
  <1>7. PassedIsDeleted'
    BY DEF Inv, Types, Awaiting, IdsAreIssued, Issued, PassedIsDeleted,
           Objects, Pairs, Subscribed, Await, At, server, history, None,
           NoSub
  <1>8. StreamsAreKnown'
    BY DEF Inv, Types, Awaiting, IdsAreIssued, Issued, NotInDict,
           PassedIsDeleted, StreamsAreKnown, Objects, Pairs, Subscribed,
           Await, At, server, history, None, NoSub
  <1>9. Served'
    <2>1. /\ registered' = registered \cup {sub[r]} /\ sub[r] \in live /\ live' = live
          /\ open' = open /\ connected' = connected /\ taken' = taken /\ endpoint' = endpoint
          /\ pc[r] = "items"
      BY DEF Subscribed, server, history
    <2>2. \A o : TornDown(o) => TornDown(o)'
      <3> SUFFICES ASSUME NEW p \in Requests, pc[p] \in {"deleteOne", "close"}
                   PROVE  pc'[p] \in {"deleteOne", "close"} /\ obj'[p] = obj[p]
        BY DEF TornDown
      <3> QED
        BY <1>0, <2>1 DEF Same
    <2>3. \A s : TakenByOther(s) => TakenByOther(s)'
      BY <2>1 DEF TakenByOther
    <2> SUFFICES ASSUME NEW q \in Requests, pc'[q] = "stream",
                        obj'[q] \in open' \cap connected', ~TornDown(obj[q])'
                 PROVE  sub'[q] \in live' \cap registered' \/ TakenByOther(sub[q])'
      BY <1>0 DEF Served, Same
    <2>4. CASE q = r
      BY <1>0, <2>1, <2>4
    <2>5. CASE q # r
      BY <1>0, <2>1, <2>2, <2>3, <2>5 DEF Inv, Served, Same
    <2> QED
      BY <2>4, <2>5
  <1>10. Accounted'
    <2>1. /\ open' = open /\ connected' = connected /\ client' = client
          /\ dropped \subseteq dropped' /\ pc[r] \notin {"connect", "namespaces"}
      BY DEF Subscribed, server, history
    <2>2. \A q \in Requests : pc'[q] \in {"connect", "namespaces"} =>
              pc[q] \in {"connect", "namespaces"} /\ obj'[q] = obj[q]
      BY <1>0, <2>1 DEF Same
    <2>3. \A o : Connecting(o) => Connecting(o)'
      <3> SUFFICES ASSUME NEW o, NEW q \in Requests, pc[q] \in {"connect", "namespaces"},
                          obj[q] = o
                   PROVE  Connecting(o)'
        BY DEF Connecting
      <3> QED
        BY <1>0, <2>1 DEF Same, Connecting
    <2> QED
      BY <2>1, <2>2, <2>3 DEF Inv, Accounted
  <1>11. NoOrphanStreams'
    BY <1>0 DEF Inv, NoOrphanStreams, Of, Same, Subscribed, server, history
  <1> QED
    BY <1>1, <1>2, <1>3, <1>4, <1>5, <1>6, <1>7, <1>8, <1>9, <1>10, <1>11 DEF Inv

LEMMA SubscribeFailsInv == ASSUME Inv, NEW r \in Requests, SubscribeFails(r) PROVE Inv'
  <1>0. /\ At(r, "idle", None, NoSub)
        /\ pc'[r] = "idle" /\ obj'[r] = None /\ sub'[r] = NoSub
        /\ \A q \in Requests : q # r => Same(q)
    <2>1. /\ At(r, "idle", None, NoSub)
          /\ seen' = seen \/ \E v : seen' = [seen EXCEPT ![r] = v]
      BY DEF SubscribeFails, Answer
    <2> QED
      BY <2>1, AtMoves DEF Inv
  <1>1. Types'
    BY DEF Inv, Types, Awaiting, Labels, Objects, Pairs, SubscribeFails,
           Answer, At, clients, server, None, NoSub
  <1>2. Awaiting'
    BY <1>0 DEF Inv, Types, Awaiting, Objects, Pairs, Same, SubscribeFails,
       clients, server
  <1>3. ConnectFirst'
    BY <1>0 DEF Inv, Awaiting, ConnectFirst, Same, SubscribeFails, clients,
       server
  <1>4. IdsAreIssued'
    BY DEF Inv, Types, Awaiting, IdsAreIssued, Issued, Objects, Pairs,
           SubscribeFails, Answer, At, clients, server, None, NoSub
  <1>5. OneTabEach'
    <2>1. \A q \in Requests : Streams(q)' =>
              Streams(q) /\ sub'[q] = sub[q] /\ obj'[q] = obj[q]
      BY <1>0 DEF Streams, Same
    <2>2. endpoint' = endpoint
      BY DEF SubscribeFails, clients
    <2> QED
      BY <2>1, <2>2 DEF Inv, OneTabEach
  <1>6. NotInDict'
    BY <1>0 DEF Inv, NotInDict, Same, SubscribeFails, clients, server
  <1>7. PassedIsDeleted'
    BY DEF Inv, Types, Awaiting, IdsAreIssued, Issued, PassedIsDeleted,
           Objects, Pairs, SubscribeFails, Answer, At, clients, server,
           None, NoSub
  <1>8. StreamsAreKnown'
    BY <1>0, KnownKept DEF Inv, SubscribeFails, clients, server
  <1>9. Served'
    BY <1>0, ServedKept DEF Inv, SubscribeFails, clients, server
  <1>10. Accounted'
    <2>1. /\ open' = open /\ connected' = connected /\ client' = client
          /\ dropped \subseteq dropped' /\ pc[r] \notin {"connect", "namespaces"}
      BY DEF SubscribeFails, clients, server
    <2>2. \A q \in Requests : pc'[q] \in {"connect", "namespaces"} =>
              pc[q] \in {"connect", "namespaces"} /\ obj'[q] = obj[q]
      BY <1>0, <2>1 DEF Same
    <2>3. \A o : Connecting(o) => Connecting(o)'
      <3> SUFFICES ASSUME NEW o, NEW q \in Requests, pc[q] \in {"connect", "namespaces"},
                          obj[q] = o
                   PROVE  Connecting(o)'
        BY DEF Connecting
      <3> QED
        BY <1>0, <2>1 DEF Same, Connecting
    <2> QED
      BY <2>1, <2>2, <2>3 DEF Inv, Accounted
  <1>11. NoOrphanStreams'
    <2> SUFFICES ASSUME NEW s \in live, s[1] = client, s \notin abandoned'
                 PROVE  \E q \in Requests :
                           pc'[q] \in {"items", "stream", "unsubscribe"} /\ sub'[q] = s
      BY DEF NoOrphanStreams, Of, SubscribeFails, clients, server
    <2>1. s # NoSub /\ (sub[r] = NoSub \/ sub[r] \in abandoned') /\ s \notin abandoned
      BY DEF Inv, Types, Pairs, Objects, None, NoSub, SubscribeFails
    <2>2. PICK q \in Requests :
              pc[q] \in {"items", "stream", "unsubscribe"} /\ sub[q] = s
      BY <2>1 DEF Inv, NoOrphanStreams, Of
    <2> QED
      BY <1>0, <2>1, <2>2 DEF Same
  <1> QED
    BY <1>1, <1>2, <1>3, <1>4, <1>5, <1>6, <1>7, <1>8, <1>9, <1>10, <1>11 DEF Inv

LEMMA StreamNeverBeginsInv == ASSUME Inv, NEW r \in Requests, StreamNeverBegins(r) PROVE Inv'
  <1>0. /\ At(r, "idle", None, NoSub)
        /\ pc'[r] = "idle" /\ obj'[r] = None /\ sub'[r] = NoSub
        /\ \A q \in Requests : q # r => Same(q)
    <2>1. /\ At(r, "idle", None, NoSub)
          /\ seen' = seen \/ \E v : seen' = [seen EXCEPT ![r] = v]
      BY DEF StreamNeverBegins, Answer
    <2> QED
      BY <2>1, AtMoves DEF Inv
  <1>1. Types'
    <2>1. /\ pc' \in [Requests -> Labels] /\ obj' \in [Requests -> 0 .. Len(endpoint')]
          /\ sub' \in [Requests -> {NoSub} \cup Pairs']
      BY <1>0, AtTyped DEF Inv, Types, Labels, None, StreamNeverBegins,
         clients
    <2> QED
      BY <2>1 DEF Inv, Types, Awaiting, Objects, Pairs, None,
         StreamNeverBegins, Answer, clients, server
  <1>2. Awaiting'
    BY <1>0 DEF Inv, Types, Awaiting, Objects, Pairs, Same,
       StreamNeverBegins, clients, server
  <1>3. ConnectFirst'
    BY <1>0 DEF Inv, Awaiting, ConnectFirst, Same, StreamNeverBegins,
       clients, server
  <1>4. IdsAreIssued'
    BY DEF Inv, Types, Awaiting, IdsAreIssued, Issued, Objects, Pairs,
           StreamNeverBegins, Answer, At, clients, server, None, NoSub
  <1>5. OneTabEach'
    <2>1. \A q \in Requests : Streams(q)' =>
              Streams(q) /\ sub'[q] = sub[q] /\ obj'[q] = obj[q]
      BY <1>0 DEF Streams, Same
    <2>2. endpoint' = endpoint
      BY DEF StreamNeverBegins, clients
    <2> QED
      BY <2>1, <2>2 DEF Inv, OneTabEach
  <1>6. NotInDict'
    BY <1>0 DEF Inv, NotInDict, Same, StreamNeverBegins, clients, server
  <1>7. PassedIsDeleted'
    BY DEF Inv, Types, Awaiting, IdsAreIssued, Issued, PassedIsDeleted,
           Objects, Pairs, StreamNeverBegins, Answer, At, clients, server,
           None, NoSub
  <1>8. StreamsAreKnown'
    BY <1>0, KnownKept DEF Inv, StreamNeverBegins, clients, server
  <1>9. Served'
    BY <1>0, ServedKept DEF Inv, StreamNeverBegins, clients, server
  <1>10. Accounted'
    <2>1. /\ open' = open /\ connected' = connected /\ client' = client
          /\ dropped \subseteq dropped' /\ pc[r] \notin {"connect", "namespaces"}
      BY DEF StreamNeverBegins, clients, server
    <2>2. \A q \in Requests : pc'[q] \in {"connect", "namespaces"} =>
              pc[q] \in {"connect", "namespaces"} /\ obj'[q] = obj[q]
      BY <1>0, <2>1 DEF Same
    <2>3. \A o : Connecting(o) => Connecting(o)'
      <3> SUFFICES ASSUME NEW o, NEW q \in Requests, pc[q] \in {"connect", "namespaces"},
                          obj[q] = o
                   PROVE  Connecting(o)'
        BY DEF Connecting
      <3> QED
        BY <1>0, <2>1 DEF Same, Connecting
    <2> QED
      BY <2>1, <2>2, <2>3 DEF Inv, Accounted
  <1>11. NoOrphanStreams'
    BY <1>0 DEF Inv, NoOrphanStreams, Of, Same, StreamNeverBegins, clients,
       server
  <1> QED
    BY <1>1, <1>2, <1>3, <1>4, <1>5, <1>6, <1>7, <1>8, <1>9, <1>10, <1>11 DEF Inv

LEMMA StreamEndsInv == ASSUME Inv, NEW r \in Requests, StreamEnds(r) PROVE Inv'
  <1> DEFINE found == <<client, sub[r][2]>>
  <1>b. /\ pc[r] = "stream" /\ client' = client /\ endpoint' = endpoint
        /\ connected' = connected /\ open' = open /\ live' = live /\ last' = last
        /\ dropped' = dropped /\ abandoned' = abandoned
    BY DEF StreamEnds, server
  <1>c. \/ /\ At(r, "unsubscribe", client, found) /\ seen' = seen
           /\ found \in registered /\ registered' = registered \ {found}
           /\ taken' = taken \cup ({<<found, obj[r]>>} \ {<<sub[r], obj[r]>>})
        \/ /\ Answer(r) /\ found \notin registered
           /\ registered' = registered /\ taken' = taken
    BY DEF StreamEnds, Await
  <1>d. sub[r] \in Pairs /\ sub[r][1] = obj[r] /\ obj[r] \in Objects
    BY <1>b DEF Inv, Awaiting
  <1>0. /\ \/ /\ pc'[r] = "unsubscribe" /\ obj'[r] = client /\ sub'[r] = found
              /\ found \in registered /\ registered' = registered \ {found}
           \/ /\ pc'[r] = "idle" /\ obj'[r] = None /\ sub'[r] = NoSub
              /\ found \notin registered /\ registered' = registered /\ taken' = taken
        /\ \A q \in Requests : q # r => Same(q)
        /\ taken \subseteq taken' /\ registered' \subseteq registered
        /\ seen'[r] \subseteq seen[r]
    <2>1. CASE At(r, "unsubscribe", client, found) /\ seen' = seen
               /\ found \in registered /\ registered' = registered \ {found}
               /\ taken' = taken \cup ({<<found, obj[r]>>} \ {<<sub[r], obj[r]>>})
      BY <2>1, AtMoves DEF Inv
    <2>2. CASE Answer(r) /\ found \notin registered
               /\ registered' = registered /\ taken' = taken
      <3>1. At(r, "idle", None, NoSub) /\ \E v : seen' = [seen EXCEPT ![r] = v]
        BY <2>2 DEF Answer
      <3>2. seen'[r] \subseteq seen[r]
        BY <2>2 DEF Answer, Inv, Types
      <3> QED
        BY <2>2, <3>1, <3>2, AtMoves DEF Inv
    <2> QED
      BY <1>c, <2>1, <2>2
  <1>e. found \in registered => found \in Pairs /\ client \in Objects /\ Issued(found)
    BY DEF Inv, Types, IdsAreIssued, Pairs
  <1>g. found = sub[r] => client = obj[r]
    BY <1>d
  <1>h. client = obj[r] => found = sub[r]
    BY <1>d DEF Pairs
  <1> HIDE DEF found
  <1>1. Types'
    <2>0. Objects' = Objects /\ Pairs' = Pairs
      BY <1>b DEF Objects, Pairs
    <2>1. CASE At(r, "unsubscribe", client, found) /\ seen' = seen
               /\ found \in registered /\ registered' = registered \ {found}
               /\ taken' = taken \cup ({<<found, obj[r]>>} \ {<<sub[r], obj[r]>>})
      <3>1. client \in 0 .. Len(endpoint') /\ found \in {NoSub} \cup Pairs'
        BY <1>b, <1>e, <2>0, <2>1 DEF Inv, Types
      <3>2. /\ pc' \in [Requests -> Labels] /\ obj' \in [Requests -> 0 .. Len(endpoint')]
            /\ sub' \in [Requests -> {NoSub} \cup Pairs']
        BY <1>b, <2>1, <3>1, AtTyped DEF Inv, Types, Labels
      <3>3. taken' \subseteq Pairs \X Objects
        BY <1>d, <1>e, <2>1 DEF Inv, Types
      <3> QED
        BY <1>b, <2>0, <2>1, <3>2, <3>3 DEF Inv, Types
    <2>2. CASE Answer(r) /\ registered' = registered /\ taken' = taken
      BY <1>b, <2>2, AnswerTyped DEF Inv, Types
    <2> QED
      BY <1>c, <2>1, <2>2
  <1>2. Awaiting'
    <2>1. Objects' = Objects /\ Pairs' = Pairs /\ found[1] = client
      BY <1>b DEF Objects, Pairs, found
    <2> QED
      BY <1>0, <1>e, <2>1 DEF Inv, Awaiting, Same
  <1>3. ConnectFirst'
    <2>1. \A q \in Requests : pc'[q] \in {"connect", "namespaces", "create", "items",
                                          "stream", "deleteOne", "close"} =>
              q # r /\ pc'[q] = pc[q] /\ obj'[q] = obj[q]
      BY <1>0 DEF Same
    <2> QED
      BY <1>b, <2>1 DEF Inv, ConnectFirst
  <1>4. IdsAreIssued'
    <2>1. \A p : Issued(p) => Issued(p)'
      BY <1>b DEF Issued
    <2>2. \A p \in registered' \cup live' : Issued(p)'
      BY <1>0, <1>b, <2>1 DEF Inv, IdsAreIssued
    <2>3. ASSUME NEW q \in Requests,
                 pc'[q] \in {"deleteOne", "items", "stream", "unsubscribe"}
          PROVE  \A p : p = sub'[q] => Issued(p)'
      <3>1. Issued(found) \/ q # r
        BY <1>0, <1>e, <2>3
      <3>2. q # r => pc'[q] = pc[q] /\ sub'[q] = sub[q]
        BY <1>0 DEF Same
      <3>3. q = r => sub'[q] = found
        BY <1>0, <2>3
      <3> QED
        BY <2>1, <2>3, <3>1, <3>2, <3>3 DEF Inv, IdsAreIssued
    <2>4. ASSUME NEW q \in Requests, NEW p \in seen'[q] PROVE Issued(p)'
      BY <1>0, <2>1 DEF Inv, IdsAreIssued, Same
    <2> QED
      BY <2>2, <2>3, <2>4 DEF IdsAreIssued
  <1>5. OneTabEach'
    <2>1. \A q \in Requests : Streams(q)' =>
              Streams(q) /\ sub'[q] = sub[q] /\ obj'[q] = obj[q]
      BY <1>0 DEF Streams, Same
    <2> QED
      BY <1>b, <2>1 DEF Inv, OneTabEach
  <1>6. NotInDict'
    <2>1. \A q \in Requests : pc'[q] \in {"items", "unsubscribe"} =>
              \/ q # r /\ pc'[q] = pc[q] /\ sub'[q] = sub[q]
              \/ /\ q = r /\ pc'[q] = "unsubscribe" /\ sub'[q] = found
                 /\ found \in registered /\ found \notin registered'
      BY <1>0 DEF Same
    <2> QED
      BY <1>0, <2>1 DEF Inv, NotInDict
  <1>7. PassedIsDeleted'
    <2> SUFFICES ASSUME NEW q \in Requests, NEW s \in seen'[q]
                 PROVE  \/ pc'[q] = "deleteOne" /\ s = sub'[q]
                        \/ s \notin live' \/ s \in abandoned'
      BY DEF PassedIsDeleted
    <2>1. s \in seen[q]
      BY <1>0 DEF Same
    <2>2. pc[q] = "deleteOne" => pc'[q] = "deleteOne" /\ sub'[q] = sub[q]
      BY <1>0, <1>b DEF Same
    <2> QED
      BY <1>b, <2>1, <2>2 DEF Inv, PassedIsDeleted
  <1>8. StreamsAreKnown'
    <2> SUFFICES ASSUME NEW q \in Requests, pc'[q] = "stream", sub'[q] \notin registered',
                        sub'[q] \in live', sub'[q] \notin abandoned'
                 PROVE  \E p \in Requests : pc'[p] = "unsubscribe" /\ sub'[p] = sub'[q]
      BY DEF StreamsAreKnown
    <2>1. q # r /\ pc[q] = "stream" /\ sub'[q] = sub[q]
      BY <1>0 DEF Same
    <2>2. CASE sub[q] \in registered
      <3>1. pc'[r] = "unsubscribe" /\ sub'[r] = sub[q]
        BY <1>0, <2>1, <2>2
      <3> QED
        BY <2>1, <3>1
    <2>3. CASE sub[q] \notin registered
      <3>1. PICK p \in Requests : pc[p] = "unsubscribe" /\ sub[p] = sub[q]
        BY <1>b, <2>1, <2>3 DEF Inv, StreamsAreKnown
      <3>2. p # r
        BY <1>b, <3>1
      <3> QED
        BY <1>0, <2>1, <3>1, <3>2 DEF Same
    <2> QED
      BY <2>2, <2>3
  <1>9. Served'
    <2> SUFFICES ASSUME NEW q \in Requests, pc'[q] = "stream",
                        obj'[q] \in open' \cap connected', ~TornDown(obj[q])'
                 PROVE  sub'[q] \in live' \cap registered' \/ TakenByOther(sub[q])'
      BY <1>0 DEF Served, Same
    <2>1. q # r /\ pc[q] = "stream" /\ sub'[q] = sub[q] /\ obj'[q] = obj[q]
      BY <1>0 DEF Same
    <2>2. ~TornDown(obj[q])
      <3> SUFFICES ASSUME NEW p \in Requests, pc[p] \in {"deleteOne", "close"},
                          obj[p] = obj[q]
                   PROVE  FALSE
        BY DEF TornDown
      <3>1. pc'[p] \in {"deleteOne", "close"} /\ obj'[p] = obj'[q]
        BY <1>0, <1>b, <2>1 DEF Same
      <3> QED
        BY <3>1 DEF TornDown
    <2>3. sub[q] \in live \cap registered \/ TakenByOther(sub[q])
      BY <1>b, <2>1, <2>2 DEF Inv, Served
    <2>4. CASE TakenByOther(sub[q])
      BY <1>0, <1>b, <2>1, <2>4 DEF TakenByOther
    <2>5. CASE sub[q] \in live \cap registered /\ sub[q] # found
      BY <1>0, <1>b, <2>1, <2>5
    <2>6. CASE sub[q] \in registered /\ sub[q] = found
      <3>1. sub[q][2] = sub[r][2] /\ sub[q][1] = client /\ sub[q][1] = obj[q]
        BY <2>1, <2>6 DEF found, Inv, Awaiting
      <3>2. endpoint[obj[r]] # endpoint[client]
        BY <1>b, <2>1, <3>1 DEF Inv, OneTabEach, Streams
      <3>3. found # sub[r]
        BY <1>g, <3>2
      <3>4. <<found, obj[r]>> \in taken'
        BY <1>c, <2>6, <3>3
      <3>5. /\ <<found, obj[r]>>[1] = sub'[q] /\ <<found, obj[r]>>[2] = obj[r]
            /\ endpoint'[obj[r]] # endpoint'[sub'[q][1]]
        BY <1>b, <2>1, <2>6, <3>1, <3>2
      <3> QED
        BY <3>4, <3>5 DEF TakenByOther
    <2> QED
      BY <2>3, <2>4, <2>5, <2>6
  <1>10. Accounted'
    <2>1. \A q \in Requests : pc'[q] \in {"connect", "namespaces"} =>
              pc[q] \in {"connect", "namespaces"} /\ obj'[q] = obj[q]
      BY <1>0 DEF Same
    <2>2. \A o : Connecting(o) => Connecting(o)'
      <3> SUFFICES ASSUME NEW q \in Requests, pc[q] \in {"connect", "namespaces"}
                   PROVE  pc'[q] \in {"connect", "namespaces"} /\ obj'[q] = obj[q]
        BY DEF Connecting
      <3> QED
        BY <1>0, <1>b DEF Same
    <2> QED
      BY <1>b, <2>1, <2>2 DEF Inv, Accounted
  <1>11. NoOrphanStreams'
    <2> SUFFICES ASSUME NEW s \in live, s[1] = client, s \notin abandoned
                 PROVE  \E q \in Requests :
                           pc'[q] \in {"items", "stream", "unsubscribe"} /\ sub'[q] = s
      BY <1>b DEF NoOrphanStreams, Of
    <2>1. PICK q \in Requests :
              pc[q] \in {"items", "stream", "unsubscribe"} /\ sub[q] = s
      BY DEF Inv, NoOrphanStreams, Of
    <2>2. CASE q # r
      BY <1>0, <2>1, <2>2 DEF Same
    <2>3. CASE q = r
      <3>1. s = found
        BY <1>d, <1>h, <2>1, <2>3
      <3>2. CASE found \in registered
        BY <1>0, <3>1, <3>2
      <3>3. CASE found \notin registered
        <4>1. PICK p \in Requests : pc[p] = "unsubscribe" /\ sub[p] = s
          BY <1>b, <2>1, <2>3, <3>1, <3>3 DEF Inv, StreamsAreKnown
        <4>2. p # r
          BY <1>b, <4>1
        <4> QED
          BY <1>0, <4>1, <4>2 DEF Same
      <3> QED
        BY <3>2, <3>3
    <2> QED
      BY <2>2, <2>3
  <1> QED
    BY <1>1, <1>2, <1>3, <1>4, <1>5, <1>6, <1>7, <1>8, <1>9, <1>10, <1>11 DEF Inv

LEMMA UnsubscribedInv == ASSUME Inv, NEW r \in Requests, Unsubscribed(r) PROVE Inv'
  <1>0. /\ At(r, "idle", None, NoSub)
        /\ pc'[r] = "idle" /\ obj'[r] = None /\ sub'[r] = NoSub
        /\ \A q \in Requests : q # r => Same(q)
    <2>1. /\ At(r, "idle", None, NoSub)
          /\ seen' = seen \/ \E v : seen' = [seen EXCEPT ![r] = v]
      BY DEF Unsubscribed, Answer
    <2> QED
      BY <2>1, AtMoves DEF Inv
  <1>1. Types'
    BY DEF Inv, Types, Awaiting, Labels, Objects, Pairs, Unsubscribed,
           Deletes, Answer, At, clients, None, NoSub
  <1>2. Awaiting'
    BY <1>0 DEF Inv, Types, Awaiting, Objects, Pairs, Same, Unsubscribed,
       Deletes, clients
  <1>3. ConnectFirst'
    BY <1>0 DEF Inv, Awaiting, ConnectFirst, Same, Unsubscribed, Deletes,
       clients
  <1>4. IdsAreIssued'
    BY DEF Inv, Types, Awaiting, IdsAreIssued, Issued, Objects, Pairs,
           Unsubscribed, Deletes, Answer, At, clients, None, NoSub
  <1>5. OneTabEach'
    <2>1. \A q \in Requests : Streams(q)' =>
              Streams(q) /\ sub'[q] = sub[q] /\ obj'[q] = obj[q]
      BY <1>0 DEF Streams, Same
    <2>2. endpoint' = endpoint
      BY DEF Unsubscribed, clients
    <2> QED
      BY <2>1, <2>2 DEF Inv, OneTabEach
  <1>6. NotInDict'
    BY <1>0 DEF Inv, NotInDict, Same, Unsubscribed, Deletes, clients
  <1>7. PassedIsDeleted'
    BY DEF Inv, Types, Awaiting, IdsAreIssued, Issued, PassedIsDeleted,
           Objects, Pairs, Unsubscribed, Deletes, Answer, At, clients, None,
           NoSub
  <1>8. StreamsAreKnown'
    <2>1. /\ registered' = registered /\ live' \subseteq live /\ abandoned \subseteq abandoned'
          /\ sub[r] \in live' => sub[r] \in abandoned'
      BY DEF Unsubscribed, Deletes, clients
    <2> SUFFICES ASSUME NEW q \in Requests, pc'[q] = "stream", sub'[q] \notin registered',
                        sub'[q] \in live', sub'[q] \notin abandoned'
                 PROVE  \E p \in Requests : pc'[p] = "unsubscribe" /\ sub'[p] = sub'[q]
      BY DEF StreamsAreKnown
    <2>2. q # r /\ pc[q] = "stream" /\ sub'[q] = sub[q]
      BY <1>0 DEF Same
    <2>3. PICK p \in Requests : pc[p] = "unsubscribe" /\ sub[p] = sub[q]
      BY <2>1, <2>2 DEF Inv, StreamsAreKnown
    <2>4. p # r
      BY <2>1, <2>2, <2>3
    <2> QED
      BY <1>0, <2>2, <2>3, <2>4 DEF Same
  <1>9. Served'
    <2>1. /\ registered' = registered /\ live \ {sub[r]} \subseteq live' /\ taken' = taken
          /\ open' = open /\ connected' = connected /\ endpoint' = endpoint
          /\ pc[r] = "unsubscribe" /\ sub[r] \notin registered
      BY DEF Inv, NotInDict, Unsubscribed, Deletes, clients
    <2>2. \A o : TornDown(o) => TornDown(o)'
      <3> SUFFICES ASSUME NEW p \in Requests, pc[p] \in {"deleteOne", "close"}
                   PROVE  pc'[p] \in {"deleteOne", "close"} /\ obj'[p] = obj[p]
        BY DEF TornDown
      <3> QED
        BY <1>0, <2>1 DEF Same
    <2>3. \A s : TakenByOther(s) => TakenByOther(s)'
      BY <2>1 DEF TakenByOther
    <2> SUFFICES ASSUME NEW q \in Requests, pc'[q] = "stream",
                        obj'[q] \in open' \cap connected', ~TornDown(obj[q])'
                 PROVE  sub'[q] \in live' \cap registered' \/ TakenByOther(sub[q])'
      BY <1>0 DEF Served, Same
    <2>4. pc[q] = "stream" /\ sub'[q] = sub[q] /\ obj'[q] = obj[q]
      BY <1>0 DEF Same
    <2>5. sub[q] \in live \cap registered \/ TakenByOther(sub[q])
      BY <2>1, <2>2, <2>4 DEF Inv, Served
    <2> QED
      BY <2>1, <2>3, <2>4, <2>5
  <1>10. Accounted'
    <2>1. /\ open' = open /\ connected' = connected /\ client' = client
          /\ dropped \subseteq dropped' /\ pc[r] \notin {"connect", "namespaces"}
      BY DEF Unsubscribed, clients
    <2>2. \A q \in Requests : pc'[q] \in {"connect", "namespaces"} =>
              pc[q] \in {"connect", "namespaces"} /\ obj'[q] = obj[q]
      BY <1>0, <2>1 DEF Same
    <2>3. \A o : Connecting(o) => Connecting(o)'
      <3> SUFFICES ASSUME NEW o, NEW q \in Requests, pc[q] \in {"connect", "namespaces"},
                          obj[q] = o
                   PROVE  Connecting(o)'
        BY DEF Connecting
      <3> QED
        BY <1>0, <2>1 DEF Same, Connecting
    <2> QED
      BY <2>1, <2>2, <2>3 DEF Inv, Accounted
  <1>11. NoOrphanStreams'
    BY <1>0 DEF Inv, NoOrphanStreams, Of, Same, Unsubscribed, Deletes,
       clients
  <1> QED
    BY <1>1, <1>2, <1>3, <1>4, <1>5, <1>6, <1>7, <1>8, <1>9, <1>10, <1>11 DEF Inv

LEMMA SessionLostInv == ASSUME Inv, SessionLost PROVE Inv'
  <1>1. Types'
    BY DEF Inv, Types, Awaiting, Labels, Objects, Pairs, SessionLost, Of,
           request, clients, history, None, NoSub
  <1>2. Awaiting'
    BY DEF Inv, Types, Awaiting, Objects, Pairs, Labels, SessionLost, Of,
           request, clients, history, None, NoSub
  <1>3. ConnectFirst'
    BY DEF Inv, Types, Awaiting, ConnectFirst, Objects, SessionLost, Of,
           request, clients, history, None, NoSub
  <1>4. IdsAreIssued'
    BY DEF Inv, Types, Awaiting, IdsAreIssued, Issued, Objects, Pairs,
           SessionLost, Of, request, clients, history, None, NoSub
  <1>5. OneTabEach'
    BY DEF Inv, Types, Awaiting, IdsAreIssued, Issued, OneTabEach, Streams,
           Objects, Pairs, SessionLost, Of, request, clients, history, None,
           NoSub
  <1>6. NotInDict'
    BY DEF Inv, Types, Awaiting, IdsAreIssued, Issued, NotInDict, Objects,
           Pairs, SessionLost, Of, request, clients, history, None, NoSub
  <1>7. PassedIsDeleted'
    BY DEF Inv, Types, Awaiting, IdsAreIssued, Issued, PassedIsDeleted,
           Objects, Pairs, SessionLost, Of, request, clients, history, None,
           NoSub
  <1>8. StreamsAreKnown'
    BY DEF Inv, Types, Awaiting, IdsAreIssued, Issued, NotInDict,
           PassedIsDeleted, StreamsAreKnown, Objects, Pairs, SessionLost,
           Of, request, clients, history, None, NoSub
  <1>9. Served'
    BY DEF Inv, Types, Awaiting, ConnectFirst, OneTabEach, Streams,
           NotInDict, Served, TakenByOther, TornDown, Objects, Pairs,
           SessionLost, Of, request, clients, history, None, NoSub
  <1>10. Accounted'
    BY DEF Inv, Types, Awaiting, ConnectFirst, Accounted, Connecting,
           Objects, SessionLost, Of, request, clients, history, None, NoSub
  <1>11. NoOrphanStreams'
    BY DEF Inv, Types, Awaiting, StreamsAreKnown, NoOrphanStreams, Of,
           Objects, Pairs, SessionLost, request, clients, history, None,
           NoSub
  <1> QED
    BY <1>1, <1>2, <1>3, <1>4, <1>5, <1>6, <1>7, <1>8, <1>9, <1>10, <1>11 DEF Inv

-----------------------------------------------------------------------------
LEMMA StepInv == Inv /\ [Next]_vars => Inv'
  <1> SUFFICES ASSUME Inv, [Next]_vars PROVE Inv'
    OBVIOUS
  <1>1. ASSUME NEW r \in Requests,
               \/ Connect(r) \/ Opened(r) \/ Connected(r) \/ ConnectFails(r)
               \/ Disconnect(r) \/ DisconnectNoop(r) \/ DisconnectBegin(r)
               \/ DeletedOne(r) \/ LoopRaises(r) \/ SessionClosed(r)
               \/ Subscribe(r) \/ Created(r) \/ Subscribed(r) \/ SubscribeFails(r)
               \/ StreamNeverBegins(r) \/ StreamEnds(r) \/ Unsubscribed(r)
        PROVE  Inv'
    BY <1>1, ConnectInv, OpenedInv, ConnectedInv, ConnectFailsInv, DisconnectInv,
       DisconnectNoopInv, DisconnectBeginInv, DeletedOneInv, LoopRaisesInv,
       SessionClosedInv, SubscribeInv, CreatedInv, SubscribedInv, SubscribeFailsInv,
       StreamNeverBeginsInv, StreamEndsInv, UnsubscribedInv
  <1>2. CASE SessionLost
    BY <1>2, SessionLostInv
  <1>3. CASE UNCHANGED vars
    <2>1. Types' /\ Awaiting' /\ ConnectFirst' /\ IdsAreIssued' /\ OneTabEach' /\ NotInDict'
      BY <1>3 DEF vars, request, clients, server, history, Inv, Types, Awaiting,
                  ConnectFirst, IdsAreIssued, Issued, OneTabEach, Streams, NotInDict,
                  Objects, Pairs
    <2>2. PassedIsDeleted' /\ StreamsAreKnown' /\ Served' /\ Accounted' /\ NoOrphanStreams'
      BY <1>3 DEF vars, request, clients, server, history, Inv, PassedIsDeleted,
                  StreamsAreKnown, Served, TakenByOther, TornDown, Accounted, Connecting,
                  NoOrphanStreams, Of
    <2> QED
      BY <2>1, <2>2 DEF Inv
  <1> QED
    BY <1>1, <1>2, <1>3 DEF Next

LEMMA InitInv == Init => Inv
  <1> SUFFICES ASSUME Init PROVE Inv
    OBVIOUS
  <1>1. Types /\ Awaiting /\ ConnectFirst /\ IdsAreIssued /\ OneTabEach /\ NotInDict
    BY DEF Init, Types, Awaiting, ConnectFirst, IdsAreIssued, OneTabEach, Streams,
           NotInDict, Objects, Pairs, Labels, None, NoSub
  <1>2. PassedIsDeleted /\ StreamsAreKnown /\ Served /\ Accounted /\ NoOrphanStreams
    BY DEF Init, PassedIsDeleted, StreamsAreKnown, Served, Accounted, NoOrphanStreams, Of
  <1> QED
    BY <1>1, <1>2 DEF Inv

LEMMA Invariant == Spec => []Inv
  BY InitInv, StepInv, PTL DEF Spec

-----------------------------------------------------------------------------
\* A tab keeps its stream from the client held as long as the session is up and
\* nobody disconnects it, unless a tab that outlived a client of another server
\* ends: for any number of tabs, servers and reconnections.
THEOREM EveryTabIsServed == Spec => []StreamsAreServed
  <1>1. Inv => StreamsAreServed
    <2> SUFFICES ASSUME Inv, NEW r \in Requests, pc[r] = "stream", obj[r] = client,
                        client \in open \cap connected, ~Locked(client)
                 PROVE  \/ sub[r] \in live \cap registered
                        \/ \E t \in taken : t[1] = sub[r] /\ endpoint[t[2]] # endpoint[client]
      BY DEF StreamsAreServed
    <2>1. ~TornDown(obj[r])
      BY DEF TornDown, Locked
    <2>2. sub[r] \in live \cap registered \/ TakenByOther(sub[r])
      BY <2>1 DEF Inv, Served
    <2>3. sub[r][1] = client
      BY DEF Inv, Awaiting
    <2> QED
      BY <2>2, <2>3 DEF TakenByOther
  <1> QED
    BY <1>1, Invariant, PTL

ServedAlways ==
    \A r \in Requests :
        ( /\ pc[r] = "stream" /\ obj[r] = client
          /\ client \in open \cap connected /\ ~Locked(client) ) => sub[r] \in live \cap registered

\* With one server, on which ids do not repeat, there is no exception: however
\* often the service reconnects (services.py:77) and whichever tabs outlive a
\* client (services.py:204), no tab loses its stream to another.
THEOREM OneServerServesAll ==
    ASSUME NEW e, Servers = {e} PROVE Spec => []ServedAlways
  <1>1. Inv => ServedAlways
    <2> SUFFICES ASSUME Inv, NEW r \in Requests, pc[r] = "stream", obj[r] = client,
                        client \in open \cap connected, ~Locked(client)
                 PROVE  sub[r] \in live \cap registered
      BY DEF ServedAlways
    <2>1. sub[r] \in live \cap registered \/ TakenByOther(sub[r])
      BY DEF Inv, Served, TornDown, Locked
    <2>2. sub[r][1] \in Objects /\ \A t \in taken : t[2] \in Objects
      BY DEF Inv, Types, Awaiting
    <2>3. \A o \in Objects : endpoint[o] = e
      BY DEF Inv, Types, Objects
    <2> QED
      BY <2>1, <2>2, <2>3 DEF TakenByOther
  <1> QED
    BY <1>1, Invariant, PTL

\* In the session of the client held nothing is served that no request has in
\* hand, unless a call, a deletion or a stream was cut short.
THEOREM ClosedTabsCostNothing == Spec => []NoOrphanStreams
  <1>1. Inv => NoOrphanStreams
    BY DEF Inv
  <1> QED
    BY <1>1, Invariant, PTL

\* An open session is the one of the client held, or was given up in one of the
\* five ways that `dropped' records.
THEOREM NoOtherLeak == Spec => []LeaksAreKnown
  <1>1. Inv => LeaksAreKnown
    BY DEF Inv, Accounted, Connecting, LeaksAreKnown
  <1> QED
    BY <1>1, Invariant, PTL
=============================================================================
