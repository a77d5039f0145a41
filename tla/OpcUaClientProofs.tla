-------------------------- MODULE OpcUaClientProofs --------------------------
(***************************************************************************)
(* Theorems about OpcUaClient, for any number of tasks, sessions and        *)
(* subscriptions: who holds the lock, which registered subscriptions are    *)
(* served, what is left on the server.                                      *)
(***************************************************************************)
EXTENDS OpcUaClient, TLAPS

Places   == {"idle", "connect", "disconnect", "open", "namespaces", "deleteOne", "close",
             "create", "items", "delete"}
Statuses == {"disconnected", "connecting", "connected", "error"}

\* Where a task holds the lock, and where it has disconnect() under way.
Critical == {"open", "namespaces", "deleteOne", "close"}
Ending   == {"deleteOne", "close"}

Ids == 1 .. Len(owner)

LifeTypes ==
    /\ sessions \in Nat /\ client \in 0 .. sessions /\ connStatus \in Statuses
    /\ owner \in Seq(Nat) /\ \A i \in Ids : owner[i] \in 1 .. sessions
    /\ subscriptions \subseteq Ids /\ live \subseteq Ids /\ open \subseteq 1 .. sessions
    /\ lock \in Seq(Tasks)
    /\ pc \in [Tasks -> Places] /\ sess \in [Tasks -> 0 .. sessions]
    /\ sub \in [Tasks -> 0 .. Len(owner)]

\* A task between two awaits of connect() or disconnect() holds the lock.
Exclusion == \A t \in Tasks : pc[t] \in Critical => Holds(t)

\* A session that is being opened is new to the server.
Opening ==
    \A t \in Tasks : pc[t] = "open" =>
        sess[t] # None /\ sess[t] \notin open /\ \A i \in Ids : owner[i] # sess[t]

\* A subscription on its way into or out of the dict is in nobody else's hands.
InHand ==
    \A t \in Tasks :
        /\ pc[t] \in {"items", "delete"} => sub[t] \notin subscriptions
        /\ pc[t] = "items" =>
             /\ sub[t] \in Ids
             /\ \A u \in Tasks \ {t} : pc[u] \in {"items", "delete"} => sub[u] # sub[t]

\* RegisteredIsServed, and what excuses it within disconnect().
Served ==
    \A i \in subscriptions :
        owner[i] = client /\ client \in open =>
            i \in live \/ \E t \in Tasks : pc[t] \in Ending

LifeInv == LifeTypes /\ Exclusion /\ Opening /\ InHand /\ Served

-----------------------------------------------------------------------------
(* One task moves.                                                         *)

OthersStay(t) ==
    \A u \in Tasks \ {t} : pc'[u] = pc[u] /\ sess'[u] = sess[u] /\ sub'[u] = sub[u]

\* What a task does to the lock: nothing, queue, hand it on, leave the queue.
LockStep(t) ==
    \/ lock' = lock /\ (pc'[t] \in Critical => Holds(t))
    \/ lock' = Append(lock, t) /\ pc'[t] \notin Critical
    \/ lock' = Tail(lock) /\ Holds(t) /\ pc'[t] \notin Critical
    \/ /\ \E i \in 2 .. Len(lock) : lock' = RemoveAt(lock, i)
       /\ pc'[t] \notin Critical

\* The task at the head stays there until it hands the lock on.
LEMMA LockKept ==
    ASSUME LifeTypes, Exclusion, NEW t \in Tasks, OthersStay(t), LockStep(t)
    PROVE  lock' \in Seq(Tasks) /\ Exclusion'
<1>1. lock \in Seq(Tasks)
  BY DEF LifeTypes
<1>2. CASE lock' = lock /\ (pc'[t] \in Critical => Holds(t))
  BY <1>1, <1>2 DEF Exclusion, OthersStay, Holds
<1>3. CASE lock' = Append(lock, t) /\ pc'[t] \notin Critical
  <2>1. lock' \in Seq(Tasks) /\ \A u \in Tasks : Holds(u) => Holds(u)'
    BY <1>1, <1>3 DEF Holds
  <2> QED BY <1>3, <2>1 DEF Exclusion, OthersStay
<1>4. CASE lock' = Tail(lock) /\ Holds(t) /\ pc'[t] \notin Critical
  <2>1. lock' \in Seq(Tasks)
    BY <1>1, <1>4 DEF Holds
  <2>2. \A u \in Tasks \ {t} : pc[u] \notin Critical
    BY <1>4 DEF Exclusion, Holds
  <2> QED BY <1>4, <2>1, <2>2 DEF Exclusion, OthersStay
<1>5. CASE /\ \E i \in 2 .. Len(lock) : lock' = RemoveAt(lock, i)
           /\ pc'[t] \notin Critical
  <2>1. PICK i \in 2 .. Len(lock) : lock' = RemoveAt(lock, i)
    BY <1>5
  <2> DEFINE front == SubSeq(lock, 1, i - 1)
             back  == SubSeq(lock, i + 1, Len(lock))
  <2>2. /\ front \in Seq(Tasks) /\ Len(front) = i - 1 /\ front[1] = lock[1]
        /\ back \in Seq(Tasks) /\ Len(back) \in Nat
    BY <1>1, <2>1
  <2>3. lock' = front \o back
    BY <2>1 DEF RemoveAt
  <2> HIDE DEF front, back
  <2>4. lock' \in Seq(Tasks) /\ Len(lock') >= 1 /\ lock'[1] = lock[1]
    BY <2>2, <2>3
  <2>5. lock' # <<>> /\ Head(lock') = Head(lock)
    BY <1>1, <2>4
  <2> QED BY <1>5, <2>4, <2>5 DEF Exclusion, OthersStay, Holds
<1> QED BY <1>2, <1>3, <1>4, <1>5 DEF LockStep

\* A call ends.
LEMMA DoneLocals ==
    ASSUME LifeTypes, NEW t \in Tasks, NEW w, Done(t, w)
    PROVE  /\ OthersStay(t) /\ pc'[t] = "idle"
           /\ pc' \in [Tasks -> Places] /\ sess' \in [Tasks -> 0 .. sessions]
           /\ sub' \in [Tasks -> 0 .. Len(owner)]
<1>1. None \in 0 .. sessions /\ None \in 0 .. Len(owner) /\ "idle" \in Places
  BY DEF LifeTypes, None, Places
<1> QED BY <1>1 DEF LifeTypes, Done, OthersStay

-----------------------------------------------------------------------------
(* Steps that leave the connection, the dict and the server alone.         *)

Quiet(t) ==
    /\ UNCHANGED <<client, subscriptions, sessions, open, live, owner>>
    /\ connStatus' \in Statuses
    /\ pc' \in [Tasks -> Places] /\ sess' \in [Tasks -> 0 .. sessions]
    /\ sub' \in [Tasks -> 0 .. Len(owner)]
    /\ OthersStay(t) /\ LockStep(t)
    /\ pc[t] \notin Ending /\ pc'[t] \in {"idle", "connect", "disconnect", "create"}

\* Such a step keeps the invariant, whatever it does to the lock.
LEMMA QuietKeeps == ASSUME LifeInv, NEW t \in Tasks, Quiet(t) PROVE LifeInv'
<1>1. lock' \in Seq(Tasks) /\ Exclusion'
  BY LockKept DEF LifeInv, Quiet
<1>2. LifeTypes'
  BY <1>1 DEF LifeInv, LifeTypes, Quiet, Ids
<1>3. Opening'
  BY DEF LifeInv, Opening, Quiet, OthersStay, Ids
<1>4. InHand'
  BY DEF LifeInv, InHand, Quiet, OthersStay, Ids
<1>5. Served'
  BY DEF LifeInv, Served, Quiet, OthersStay
<1> QED BY <1>1, <1>2, <1>3, <1>4, <1>5 DEF LifeInv

\* The calls that begin without touching the dict.
LEMMA CallIsQuiet ==
    ASSUME LifeInv, NEW t \in Tasks,
           CallConnect(t) \/ CallDisconnect(t) \/ CallSubscribe(t)
    PROVE  Quiet(t)
<1>1. CASE CallConnect(t) \/ CallDisconnect(t)
  <2>1. PICK l \in {"connect", "disconnect"} : Call(t, l, l)
    BY <1>1 DEF CallConnect, CallDisconnect
  <2>2. /\ UNCHANGED <<client, connStatus, subscriptions, sess, sub, sessions, open, live, owner>>
        /\ pc' = [pc EXCEPT ![t] = l] /\ lock' = Append(lock, t) /\ pc[t] = "idle"
    BY <2>1 DEF Call, held, server
  <2>3. pc' \in [Tasks -> Places] /\ pc'[t] = l /\ OthersStay(t)
    BY <2>2 DEF LifeInv, LifeTypes, OthersStay, Places
  <2>4. LockStep(t)
    BY <2>2, <2>3 DEF LockStep, Critical
  <2> QED BY <2>2, <2>3, <2>4 DEF Quiet, LifeInv, LifeTypes, Ending
<1>2. CASE CallSubscribe(t)
  <2>1. /\ UNCHANGED <<client, connStatus, subscriptions, sessions, open, live, owner, lock>>
        /\ pc[t] = "idle"
    BY <1>2 DEF CallSubscribe, held, server
  <2>2. CASE client = None
    <3>1. Done(t, "notConnected")
      BY <1>2, <2>2 DEF CallSubscribe
    <3>2. /\ OthersStay(t) /\ pc'[t] = "idle"
          /\ pc' \in [Tasks -> Places] /\ sess' \in [Tasks -> 0 .. sessions]
          /\ sub' \in [Tasks -> 0 .. Len(owner)]
      BY <3>1, DoneLocals DEF LifeInv
    <3> QED BY <2>1, <3>2 DEF Quiet, LockStep, LifeInv, LifeTypes, Ending, Critical
  <2>3. CASE client # None
    <3>1. /\ sess' = [sess EXCEPT ![t] = client] /\ pc' = [pc EXCEPT ![t] = "create"]
          /\ sub' = sub
      BY <1>2, <2>3 DEF CallSubscribe
    <3>2. /\ OthersStay(t) /\ pc'[t] = "create"
          /\ pc' \in [Tasks -> Places] /\ sess' \in [Tasks -> 0 .. sessions]
          /\ sub' \in [Tasks -> 0 .. Len(owner)]
      BY <3>1 DEF LifeInv, LifeTypes, OthersStay, Places
    <3> QED BY <2>1, <3>2 DEF Quiet, LockStep, LifeInv, LifeTypes, Ending, Critical
  <2> QED BY <2>2, <2>3
<1> QED BY <1>1, <1>2

\* The calls that end without touching the server.
LEMMA EndIsQuiet ==
    ASSUME LifeInv, NEW t \in Tasks,
           \/ ConnectNoop(t) \/ ConnectSucceeds(t) \/ DisconnectNoop(t) \/ SubscribeFails(t)
    PROVE  Quiet(t)
<1>1. /\ UNCHANGED <<client, subscriptions, sessions, open, live, owner>>
      /\ connStatus' \in Statuses /\ pc[t] \notin Ending
      /\ \/ lock' = Tail(lock) /\ Holds(t)
         \/ lock' = lock
  BY DEF ConnectNoop, ConnectSucceeds, DisconnectNoop, SubscribeFails, held, server, Release,
         LifeInv, LifeTypes, Statuses, Exclusion, Critical, Ending
<1>2. PICK w \in {"connected", "disconnected", "failed"} : Done(t, w)
  BY DEF ConnectNoop, ConnectSucceeds, DisconnectNoop, SubscribeFails
<1>3. /\ OthersStay(t) /\ pc'[t] = "idle"
      /\ pc' \in [Tasks -> Places] /\ sess' \in [Tasks -> 0 .. sessions]
      /\ sub' \in [Tasks -> 0 .. Len(owner)]
  BY <1>2, DoneLocals DEF LifeInv
<1> QED BY <1>1, <1>3 DEF Quiet, LockStep, Critical

-----------------------------------------------------------------------------
(* Steps that drop the connection: a connect() that fails, the finally      *)
(* clause of disconnect().                                                 *)

Gone(t) ==
    /\ client' = None /\ connStatus' \in Statuses
    /\ UNCHANGED <<subscriptions, sessions, owner>>
    /\ open' \subseteq open /\ live' \subseteq live
    /\ \E w \in {"failed", "disconnected", "cancelled"} : Done(t, w)
    /\ lock' = Tail(lock) /\ Holds(t)

\* Without a client no registered subscription claims to be served.
LEMMA GoneKeeps == ASSUME LifeInv, NEW t \in Tasks, Gone(t) PROVE LifeInv'
<1>1. /\ OthersStay(t) /\ pc'[t] = "idle"
      /\ pc' \in [Tasks -> Places] /\ sess' \in [Tasks -> 0 .. sessions]
      /\ sub' \in [Tasks -> 0 .. Len(owner)]
  BY DoneLocals DEF LifeInv, Gone
<1>2. lock' \in Seq(Tasks) /\ Exclusion'
  BY <1>1, LockKept DEF LifeInv, Gone, LockStep, Critical
<1>3. LifeTypes'
  <2>1. /\ client' \in 0 .. sessions /\ connStatus' \in Statuses
        /\ UNCHANGED <<subscriptions, sessions, owner>>
        /\ open' \subseteq 1 .. sessions /\ live' \subseteq Ids
    BY DEF LifeInv, LifeTypes, Gone, None
  <2>2. Ids' = Ids /\ Len(owner') = Len(owner)
    BY <2>1 DEF Ids
  <2> QED BY <1>1, <1>2, <2>1, <2>2 DEF LifeInv, LifeTypes
<1>4. Opening'
  BY <1>1 DEF LifeInv, Opening, Gone, OthersStay, Ids
<1>5. InHand'
  BY <1>1 DEF LifeInv, InHand, Gone, OthersStay, Ids
<1>6. Served'
  <2>1. \A i \in subscriptions : owner[i] # None
    BY DEF LifeInv, LifeTypes, Ids, None
  <2> QED BY <2>1 DEF Served, Gone
<1> QED BY <1>2, <1>3, <1>4, <1>5, <1>6 DEF LifeInv

\* The steps that drop the connection hold the lock.
LEMMA DropIsGone ==
    ASSUME LifeInv, NEW t \in Tasks,
           \/ ConnectFails(t) \/ CloseSession(t)
           \/ DeletedOne(t) /\ DropClient(t, "disconnected") /\ UNCHANGED subscriptions
    PROVE  Gone(t)
<1>1. pc[t] \in Critical
  BY DEF ConnectFails, CloseSession, DeletedOne, Critical
<1>2. Holds(t)
  BY <1>1 DEF LifeInv, Exclusion
<1> QED BY <1>2 DEF ConnectFails, CloseSession, DeletedOne, DropClient, Release, Gone, server,
                    Statuses

-----------------------------------------------------------------------------
(* The loop of disconnect().                                               *)

Turn(t) ==
    /\ UNCHANGED <<client, connStatus, lock, sess, sessions, open, owner>>
    /\ live' \subseteq live /\ Holds(t)
    /\ \E visited : NextTurn(t, visited)

\* Within the loop a deleted subscription may still be in the dict.
LEMMA TurnKeeps == ASSUME LifeInv, NEW t \in Tasks, Turn(t) PROVE LifeInv'
<1>1. /\ subscriptions' \subseteq subscriptions
      /\ pc' \in [Tasks -> Places] /\ pc'[t] \in Ending
      /\ sub' \in [Tasks -> 0 .. Len(owner)] /\ OthersStay(t)
  <2>0. PICK visited : NextTurn(t, visited)
    BY DEF Turn
  <2>1. CASE /\ \E i \in subscriptions : sub' = [sub EXCEPT ![t] = i]
             /\ pc' = [pc EXCEPT ![t] = "deleteOne"] /\ UNCHANGED subscriptions
    BY <2>1 DEF LifeInv, LifeTypes, Turn, Places, Ending, OthersStay, Ids
  <2>2. CASE pc' = [pc EXCEPT ![t] = "close"] /\ subscriptions' = {} /\ sub' = sub
    BY <2>2 DEF LifeInv, LifeTypes, Turn, Places, Ending, OthersStay
  <2> QED BY <2>0, <2>1, <2>2 DEF NextTurn, Await
<1>2. lock' \in Seq(Tasks) /\ Exclusion'
  BY <1>1, LockKept DEF LifeInv, Turn, LockStep
<1>3. LifeTypes'
  BY <1>1, <1>2 DEF LifeInv, LifeTypes, Turn, Ids
<1>4. Opening'
  BY <1>1 DEF LifeInv, Opening, Turn, OthersStay, Ids, Ending
<1>5. InHand'
  BY <1>1 DEF LifeInv, InHand, Turn, OthersStay, Ids, Ending
<1>6. Served'
  BY <1>1 DEF Served
<1> QED BY <1>2, <1>3, <1>4, <1>5, <1>6 DEF LifeInv

\* The loop goes on, or Python raises and the finally clause runs.
LEMMA LoopTurns ==
    ASSUME LifeInv, NEW t \in Tasks, DisconnectBegin(t) \/ DeletedOne(t)
    PROVE  Turn(t) \/ Gone(t)
<1>1. CASE DisconnectBegin(t)
  BY <1>1 DEF DisconnectBegin, Turn, server
<1>2. CASE DeletedOne(t)
  <2>1. Holds(t)
    BY <1>2 DEF DeletedOne, LifeInv, Exclusion, Critical
  <2>2. CASE /\ NextTurn(t, seen[t])
             /\ UNCHANGED <<client, connStatus, lock, sess>>
    BY <1>2, <2>1, <2>2 DEF DeletedOne, Turn
  <2>3. CASE DropClient(t, "disconnected") /\ UNCHANGED subscriptions
    BY <1>2, <2>3, DropIsGone
  <2> QED BY <1>2, <2>2, <2>3 DEF DeletedOne
<1> QED BY <1>1, <1>2

\* A cancelled task: in the queue, with the lock, in the loop, without a lock.
LEMMA CancelKeeps == ASSUME LifeInv, NEW t \in Tasks, CancelTask(t) PROVE LifeInv'
<1>1. UNCHANGED <<sessions, open, live, owner>> /\ Cancelled(t)
  BY DEF CancelTask, server
<1>2. CASE /\ pc[t] \in {"deleteOne", "close"} /\ DropClient(t, "cancelled")
           /\ UNCHANGED subscriptions
  <2>1. Holds(t)
    BY <1>2 DEF LifeInv, Exclusion, Critical
  <2>2. Gone(t)
    BY <1>1, <1>2, <2>1 DEF DropClient, Release, Gone, Statuses
  <2> QED BY <2>2, GoneKeeps
<1>3. CASE /\ pc[t] \notin Ending /\ Done(t, "cancelled") /\ UNCHANGED held
           /\ \/ \E i \in 2 .. Len(lock) : lock' = RemoveAt(lock, i)
              \/ lock' = Tail(lock) /\ Holds(t)
              \/ lock' = lock
  <2>1. /\ OthersStay(t) /\ pc'[t] = "idle"
        /\ pc' \in [Tasks -> Places] /\ sess' \in [Tasks -> 0 .. sessions]
        /\ sub' \in [Tasks -> 0 .. Len(owner)]
    BY <1>3, DoneLocals DEF LifeInv
  <2>2. LockStep(t)
    BY <1>3, <2>1 DEF LockStep, Critical
  <2>3. Quiet(t)
    BY <1>1, <1>3, <2>1, <2>2 DEF Quiet, held, LifeInv, LifeTypes
  <2> QED BY <2>3, QuietKeeps
<1>4. CASE /\ pc[t] \in {"connect", "disconnect"} /\ Done(t, "cancelled") /\ UNCHANGED held
           /\ \E i \in 2 .. Len(lock) : lock[i] = t /\ lock' = RemoveAt(lock, i)
  BY <1>3, <1>4 DEF Ending
<1>5. CASE /\ pc[t] \in {"open", "namespaces"} /\ Release /\ Done(t, "cancelled")
           /\ UNCHANGED held
  BY <1>3, <1>5 DEF Ending, Release, LifeInv, Exclusion, Critical
<1>6. CASE /\ pc[t] \in {"create", "items", "delete"} /\ Done(t, "cancelled")
           /\ UNCHANGED <<held, lock>>
  BY <1>3, <1>6 DEF Ending
<1> QED BY <1>1, <1>2, <1>4, <1>5, <1>6 DEF Cancelled

-----------------------------------------------------------------------------
(* connect(): the session.                                                 *)

\* A new session object owns no subscription yet.
LEMMA ConnectBeginKeeps == ASSUME LifeInv, NEW t \in Tasks, ConnectBegin(t) PROVE LifeInv'
<1>1. /\ sessions' = sessions + 1 /\ client' = sessions + 1 /\ connStatus' = "connecting"
      /\ sess' = [sess EXCEPT ![t] = sessions + 1] /\ pc' = [pc EXCEPT ![t] = "open"]
      /\ UNCHANGED <<subscriptions, lock, sub, open, live, owner>> /\ Holds(t)
  BY DEF ConnectBegin, Await, server
<1>2. LifeTypes
  BY DEF LifeInv
<1>3. /\ pc' \in [Tasks -> Places] /\ pc'[t] = "open" /\ sess'[t] = sessions + 1
      /\ sess' \in [Tasks -> 0 .. sessions + 1] /\ OthersStay(t) /\ sessions \in Nat
  BY <1>1, <1>2 DEF LifeTypes, OthersStay, Places
<1>4. lock' \in Seq(Tasks) /\ Exclusion'
  BY <1>1, <1>3, LockKept DEF LifeInv, LockStep
<1>5. LifeTypes'
  <2>1. sessions' \in Nat /\ client' \in 0 .. sessions' /\ connStatus' \in Statuses
    BY <1>1, <1>3 DEF Statuses
  <2>2. owner' \in Seq(Nat) /\ \A i \in Ids' : owner'[i] \in 1 .. sessions'
    <3>1. owner \in Seq(Nat) /\ \A i \in Ids : owner[i] \in 1 .. sessions
      BY <1>2 DEF LifeTypes
    <3>2. 1 .. sessions \subseteq 1 .. sessions + 1
      BY <1>3
    <3> QED BY <1>1, <3>1, <3>2 DEF Ids
  <2>3. subscriptions' \subseteq Ids' /\ live' \subseteq Ids' /\ sub' \in [Tasks -> 0 .. Len(owner')]
    BY <1>1, <1>2 DEF LifeTypes, Ids
  <2>4. open' \subseteq 1 .. sessions'
    BY <1>1, <1>2, <1>3 DEF LifeTypes
  <2>5. sess' \in [Tasks -> 0 .. sessions']
    BY <1>1, <1>3
  <2> QED BY <1>3, <1>4, <2>1, <2>2, <2>3, <2>4, <2>5 DEF LifeTypes
<1>6. Opening'
  <2>1. sessions + 1 # None /\ sessions + 1 \notin open /\ \A i \in Ids : owner[i] # sessions + 1
    BY <1>2 DEF LifeTypes, None
  <2> QED BY <1>1, <1>3, <2>1 DEF LifeInv, Opening, OthersStay, Ids
<1>7. InHand'
  BY <1>1, <1>3 DEF LifeInv, InHand, OthersStay, Ids
<1>8. Served'
  <2>1. sessions + 1 \notin open
    BY <1>2 DEF LifeTypes
  <2> QED BY <1>1, <2>1 DEF Served
<1> QED BY <1>4, <1>5, <1>6, <1>7, <1>8 DEF LifeInv

\* The session opens; the lock keeps any other from opening.
LEMMA ConnectOpenedKeeps == ASSUME LifeInv, NEW t \in Tasks, ConnectOpened(t) PROVE LifeInv'
<1>1. /\ pc[t] = "open" /\ open' = open \cup {sess[t]} /\ pc' = [pc EXCEPT ![t] = "namespaces"]
      /\ UNCHANGED <<client, connStatus, subscriptions, lock, sess, sub, sessions, live, owner>>
  BY DEF ConnectOpened, Await, held
<1>2. LifeTypes /\ Holds(t)
  BY <1>1 DEF LifeInv, Exclusion, Critical
<1>3. /\ pc' \in [Tasks -> Places] /\ pc'[t] = "namespaces" /\ OthersStay(t)
  BY <1>1, <1>2 DEF LifeTypes, OthersStay, Places
<1>4. lock' \in Seq(Tasks) /\ Exclusion'
  BY <1>1, <1>2, <1>3, LockKept DEF LifeInv, LockStep
<1>5. sess[t] \in 1 .. sessions /\ \A i \in Ids : owner[i] # sess[t]
  BY <1>1, <1>2 DEF LifeInv, LifeTypes, Opening, None
<1>6. LifeTypes'
  BY <1>1, <1>2, <1>3, <1>4, <1>5 DEF LifeTypes, Ids
<1>7. \A u \in Tasks \ {t} : pc[u] # "open"
  BY <1>2 DEF LifeInv, Exclusion, Critical, Holds
<1>8. Opening'
  BY <1>1, <1>3, <1>7 DEF Opening, OthersStay
<1>9. InHand'
  BY <1>1, <1>3 DEF LifeInv, InHand, OthersStay, Ids
<1>10. Served'
  BY <1>1, <1>2, <1>3, <1>5 DEF LifeInv, LifeTypes, Served, OthersStay, Ending
<1> QED BY <1>4, <1>6, <1>8, <1>9, <1>10 DEF LifeInv

-----------------------------------------------------------------------------
(* subscribe() and unsubscribe().                                          *)

\* A new subscription is in the hands of the task that made it.
LEMMA CreatedKeeps == ASSUME LifeInv, NEW t \in Tasks, Created(t) PROVE LifeInv'
<1> DEFINE n == Len(owner) + 1
<1>1. /\ pc[t] = "create" /\ sess[t] \in open /\ owner' = Append(owner, sess[t])
      /\ UNCHANGED <<client, connStatus, subscriptions, lock, sessions, open>>
  BY DEF Created, held
<1>2. LifeTypes
  BY DEF LifeInv
<1>3. /\ owner' \in Seq(Nat) /\ Len(owner') = n /\ Ids' = 1 .. n /\ owner'[n] = sess[t]
      /\ n \in Ids' /\ Ids \subseteq Ids' /\ n \notin Ids
      /\ \A i \in Ids' : i \in Ids \/ i = n
      /\ \A i \in Ids : owner'[i] = owner[i]
  BY <1>1, <1>2 DEF LifeTypes, Ids
<1>4. live' = live \cup {n}
  BY <1>3 DEF Created
<1>5. /\ OthersStay(t) /\ pc' \in [Tasks -> Places] /\ sess' \in [Tasks -> 0 .. sessions]
      /\ sub' \in [Tasks -> 0 .. n]
      /\ pc'[t] = "idle" \/ (pc'[t] = "items" /\ sub'[t] = n)
  <2>1. CASE Done(t, "failed")
    <3>1. /\ OthersStay(t) /\ pc'[t] = "idle"
          /\ pc' \in [Tasks -> Places] /\ sess' \in [Tasks -> 0 .. sessions]
          /\ sub' \in [Tasks -> 0 .. Len(owner)]
      BY <2>1, DoneLocals DEF LifeInv
    <3> QED BY <1>3, <3>1
  <2>2. CASE sub' = [sub EXCEPT ![t] = n] /\ pc' = [pc EXCEPT ![t] = "items"] /\ sess' = sess
    BY <1>2, <1>3, <2>2 DEF LifeTypes, OthersStay, Places
  <2> QED BY <1>3, <2>1, <2>2 DEF Created, Await
<1>6. lock' \in Seq(Tasks) /\ Exclusion'
  BY <1>1, <1>5, LockKept DEF LifeInv, LockStep, Critical
<1>7. LifeTypes'
  <2>1. \A i \in Ids' : owner'[i] \in 1 .. sessions
    <3>1. sess[t] \in 1 .. sessions /\ \A i \in Ids : owner[i] \in 1 .. sessions
      BY <1>1, <1>2 DEF LifeTypes
    <3> QED BY <1>3, <3>1
  <2>2. subscriptions \subseteq Ids' /\ live' \subseteq Ids'
    BY <1>2, <1>3, <1>4 DEF LifeTypes
  <2> QED BY <1>1, <1>2, <1>3, <1>5, <1>6, <2>1, <2>2 DEF LifeTypes
<1> HIDE DEF n
<1>8. Opening'
  <2>1. ASSUME NEW u \in Tasks, pc'[u] = "open"
        PROVE  sess'[u] # None /\ sess'[u] \notin open' /\ \A i \in Ids' : owner'[i] # sess'[u]
    <3>1. u # t /\ pc[u] = "open" /\ sess'[u] = sess[u]
      BY <1>5, <2>1 DEF OthersStay
    <3>2. sess[u] # None /\ sess[u] \notin open /\ \A i \in Ids : owner[i] # sess[u]
      BY <3>1 DEF LifeInv, Opening
    <3> QED BY <1>1, <1>3, <3>1, <3>2
  <2> QED BY <2>1 DEF Opening
<1>9. InHand'
  <2>1. subscriptions \subseteq Ids /\ n \notin subscriptions
    BY <1>2, <1>3 DEF LifeTypes
  <2>2. \A u \in Tasks \ {t} : sub[u] # n
    BY <1>2 DEF LifeTypes, n
  <2>3. ASSUME NEW u \in Tasks \ {t}
        PROVE  /\ pc'[u] \in {"items", "delete"} => sub'[u] \notin subscriptions'
               /\ pc'[u] = "items" =>
                    /\ sub'[u] \in Ids'
                    /\ \A v \in Tasks \ {u} : pc'[v] \in {"items", "delete"} => sub'[v] # sub'[u]
    BY <1>1, <1>3, <1>5, <2>2 DEF LifeInv, InHand, OthersStay
  <2>4. /\ pc'[t] \in {"items", "delete"} => sub'[t] \notin subscriptions'
        /\ pc'[t] = "items" =>
             /\ sub'[t] \in Ids'
             /\ \A v \in Tasks \ {t} : pc'[v] \in {"items", "delete"} => sub'[v] # sub'[t]
    BY <1>1, <1>3, <1>5, <2>1, <2>2 DEF OthersStay
  <2> QED BY <2>3, <2>4 DEF InHand
<1>10. Served'
  <2>1. subscriptions \subseteq Ids
    BY <1>2 DEF LifeTypes
  <2>2. \A u \in Tasks : pc[u] \in Ending => pc'[u] \in Ending
    BY <1>1, <1>5 DEF OthersStay, Ending
  <2> QED BY <1>1, <1>3, <1>4, <2>1, <2>2 DEF LifeInv, Served
<1> QED BY <1>6, <1>7, <1>8, <1>9, <1>10 DEF LifeInv

\* It is registered, while the server serves it.
LEMMA SubscribedKeeps == ASSUME LifeInv, NEW t \in Tasks, Subscribed(t) PROVE LifeInv'
<1>1. /\ pc[t] = "items" /\ sub[t] \in live /\ subscriptions' = subscriptions \cup {sub[t]}
      /\ UNCHANGED <<client, connStatus, lock, sessions, open, live, owner>>
      /\ Done(t, "subscribed")
  BY DEF Subscribed, server
<1>2. /\ OthersStay(t) /\ pc'[t] = "idle"
      /\ pc' \in [Tasks -> Places] /\ sess' \in [Tasks -> 0 .. sessions]
      /\ sub' \in [Tasks -> 0 .. Len(owner)]
  BY <1>1, DoneLocals DEF LifeInv
<1>3. lock' \in Seq(Tasks) /\ Exclusion'
  BY <1>1, <1>2, LockKept DEF LifeInv, LockStep, Critical
<1>4. LifeTypes'
  BY <1>1, <1>2, <1>3 DEF LifeInv, LifeTypes, Ids
<1>5. Opening'
  BY <1>1, <1>2 DEF LifeInv, Opening, OthersStay, Ids
<1>6. InHand'
  BY <1>1, <1>2 DEF LifeInv, InHand, OthersStay, Ids
<1>7. Served'
  BY <1>1, <1>2 DEF LifeInv, Served, OthersStay, Ending
<1> QED BY <1>3, <1>4, <1>5, <1>6, <1>7 DEF LifeInv

\* It is popped from the dict before it is deleted.
LEMMA CallUnsubscribeKeeps ==
    ASSUME LifeInv, NEW t \in Tasks, CallUnsubscribe(t) PROVE LifeInv'
<1>1. PICK i \in subscriptions :
         subscriptions' = subscriptions \ {i} /\ sub' = [sub EXCEPT ![t] = i]
  BY DEF CallUnsubscribe
<1>2. /\ pc[t] = "idle" /\ pc' = [pc EXCEPT ![t] = "delete"]
      /\ UNCHANGED <<client, connStatus, lock, sess, sessions, open, live, owner>>
  BY DEF CallUnsubscribe, server
<1>3. /\ OthersStay(t) /\ pc' \in [Tasks -> Places] /\ pc'[t] = "delete" /\ sub'[t] = i
      /\ sub' \in [Tasks -> 0 .. Len(owner)]
  BY <1>1, <1>2 DEF LifeInv, LifeTypes, OthersStay, Places, Ids
<1>4. lock' \in Seq(Tasks) /\ Exclusion'
  BY <1>2, <1>3, LockKept DEF LifeInv, LockStep, Critical
<1>5. LifeTypes'
  BY <1>1, <1>2, <1>3, <1>4 DEF LifeInv, LifeTypes, Ids
<1>6. Opening'
  BY <1>2, <1>3 DEF LifeInv, Opening, OthersStay, Ids
<1>7. InHand'
  BY <1>1, <1>2, <1>3 DEF LifeInv, InHand, OthersStay, Ids
<1>8. Served'
  BY <1>1, <1>2, <1>3 DEF LifeInv, Served, OthersStay, Ending
<1> QED BY <1>4, <1>5, <1>6, <1>7, <1>8 DEF LifeInv

\* It is deleted, or its deletion raises, being in no dict.
LEMMA UnsubscribedKeeps == ASSUME LifeInv, NEW t \in Tasks, Unsubscribed(t) PROVE LifeInv'
<1>1. /\ pc[t] = "delete" /\ (live' = live \ {sub[t]} \/ live' = live)
      /\ Done(t, "unsubscribed")
      /\ UNCHANGED <<client, connStatus, subscriptions, lock, sessions, open, owner>>
  BY DEF Unsubscribed, held
<1>2. /\ OthersStay(t) /\ pc'[t] = "idle"
      /\ pc' \in [Tasks -> Places] /\ sess' \in [Tasks -> 0 .. sessions]
      /\ sub' \in [Tasks -> 0 .. Len(owner)]
  BY <1>1, DoneLocals DEF LifeInv
<1>3. lock' \in Seq(Tasks) /\ Exclusion'
  BY <1>1, <1>2, LockKept DEF LifeInv, LockStep, Critical
<1>4. LifeTypes'
  BY <1>1, <1>2, <1>3 DEF LifeInv, LifeTypes, Ids
<1>5. Opening'
  BY <1>1, <1>2 DEF LifeInv, Opening, OthersStay, Ids
<1>6. InHand'
  BY <1>1, <1>2 DEF LifeInv, InHand, OthersStay, Ids
<1>7. Served'
  BY <1>1, <1>2 DEF LifeInv, InHand, Served, OthersStay, Ending
<1> QED BY <1>3, <1>4, <1>5, <1>6, <1>7 DEF LifeInv

\* The server drops a session and all it serves in it.
LEMMA SessionLostKeeps == ASSUME LifeInv, SessionLost PROVE LifeInv'
<1>1. PICK s \in open : open' = open \ {s} /\ live' = {i \in live : owner[i] # s}
  BY DEF SessionLost
<1>2. UNCHANGED <<client, connStatus, subscriptions, lock, pc, sess, sub, sessions, owner>>
  BY DEF SessionLost, held, locals
<1>3. LifeTypes'
  BY <1>1, <1>2 DEF LifeInv, LifeTypes, Ids
<1>4. Exclusion' /\ Opening' /\ InHand'
  BY <1>1, <1>2 DEF LifeInv, Exclusion, Opening, InHand, Holds, Ids
<1>5. Served'
  BY <1>1, <1>2 DEF LifeInv, Served
<1> QED BY <1>3, <1>4, <1>5 DEF LifeInv

-----------------------------------------------------------------------------
\* The initial state satisfies the invariant.
LEMMA InitLifeInv == Init => LifeInv
<1> SUFFICES ASSUME Init PROVE LifeInv
  OBVIOUS
<1>1. LifeTypes
  BY DEF Init, LifeTypes, Ids, Places, Statuses, None
<1>2. Exclusion /\ Opening /\ InHand /\ Served
  BY DEF Init, Exclusion, Opening, InHand, Served, Critical
<1> QED BY <1>1, <1>2 DEF LifeInv

\* Every step keeps the invariant.
LEMMA StepLifeInv == LifeInv /\ [Next]_vars => LifeInv'
<1> SUFFICES ASSUME LifeInv, [Next]_vars PROVE LifeInv'
  OBVIOUS
<1>1. ASSUME NEW t \in Tasks,
             CallConnect(t) \/ CallDisconnect(t) \/ CallSubscribe(t) \/ CallUnsubscribe(t)
      PROVE  LifeInv'
  BY <1>1, CallIsQuiet, QuietKeeps, CallUnsubscribeKeeps
<1>2. ASSUME NEW t \in Tasks, Resume(t) PROVE LifeInv'
  <2>1. CASE ConnectNoop(t) \/ ConnectSucceeds(t) \/ DisconnectNoop(t) \/ SubscribeFails(t)
    BY <2>1, EndIsQuiet, QuietKeeps
  <2>2. CASE ConnectBegin(t) \/ ConnectOpened(t)
    BY <2>2, ConnectBeginKeeps, ConnectOpenedKeeps
  <2>3. CASE ConnectFails(t) \/ CloseSession(t)
    BY <2>3, DropIsGone, GoneKeeps
  <2>4. CASE DisconnectBegin(t) \/ DeletedOne(t)
    BY <2>4, LoopTurns, TurnKeeps, GoneKeeps
  <2>5. CASE Created(t) \/ Subscribed(t) \/ Unsubscribed(t)
    BY <2>5, CreatedKeeps, SubscribedKeeps, UnsubscribedKeeps
  <2> QED BY <1>2, <2>1, <2>2, <2>3, <2>4, <2>5 DEF Resume
<1>3. ASSUME NEW t \in Tasks, CancelTask(t) PROVE LifeInv'
  BY <1>3, CancelKeeps
<1>4. CASE SessionLost
  BY <1>4, SessionLostKeeps
<1>5. CASE UNCHANGED vars
  BY <1>5 DEF vars, held, locals, server, LifeInv, LifeTypes, Exclusion, Opening, InHand,
              Served, Holds, Ids
<1> QED BY <1>1, <1>2, <1>3, <1>4, <1>5 DEF Next

\* What holds between any two awaits of any tasks: the lock excludes, opening
\* sessions are new, subscriptions have one keeper, registered ones are served.
THEOREM LifeInvariance == Spec => []LifeInv
BY InitLifeInv, StepLifeInv, PTL DEF Spec

\* A registered subscription of a session that is up is served, whatever any
\* number of tasks call and whichever fault or cancellation falls in between:
\* subscribe() and unsubscribe() take no lock (client.py:701, client.py:713).
THEOREM RegisteredAreServed == Spec => []RegisteredIsServed
<1>1. LifeInv => RegisteredIsServed
  BY DEF LifeInv, Served, Exclusion, Holds, Critical, Ending, RegisteredIsServed
<1> QED BY <1>1, LifeInvariance, PTL

-----------------------------------------------------------------------------
(* What the server is left with: subscriptions.                            *)

\* NoOrphans, and what excuses it while disconnect() closes the session.
Known ==
    \A i \in live : owner[i] = client =>
        \/ i \in subscriptions \cup abandoned
        \/ \E t \in Tasks : pc[t] \in {"items", "delete"} /\ sub[t] = i
        \/ \E t \in Tasks : pc[t] = "close"

\* A call begins or ends without touching connection, dict and server; what its
\* task had in hand is served no more or counts as abandoned.
LEMMA KnownQuiet ==
    ASSUME LifeInv, Known, NEW t \in Tasks, Quiet(t), abandoned \subseteq abandoned',
           pc[t] \in {"items", "delete"} => sub[t] \notin live \/ sub[t] \in abandoned'
    PROVE  Known'
<1>1. /\ UNCHANGED <<client, subscriptions, live, owner>> /\ OthersStay(t)
      /\ pc[t] # "close"
  BY DEF Quiet, Ending
<1>2. SUFFICES ASSUME NEW i \in live, owner[i] = client, i \notin subscriptions \cup abandoned'
               PROVE  \E u \in Tasks : \/ pc'[u] \in {"items", "delete"} /\ sub'[u] = i
                                       \/ pc'[u] = "close"
  BY <1>1 DEF Known
<1>3. PICK u \in Tasks : \/ pc[u] \in {"items", "delete"} /\ sub[u] = i
                         \/ pc[u] = "close"
  BY <1>2 DEF Known
<1>4. u # t
  BY <1>1, <1>2, <1>3
<1> QED BY <1>1, <1>3, <1>4 DEF OthersStay

\* The connection is dropped: no subscription belongs to no session.
LEMMA KnownGone == ASSUME LifeInv, NEW t \in Tasks, Gone(t) PROVE Known'
<1>1. \A i \in live : owner[i] # None
  BY DEF LifeInv, LifeTypes, Ids, None
<1> QED BY <1>1 DEF Known, Gone

\* The loop deletes what it knows, and closes the session in the end.
LEMMA KnownTurn ==
    ASSUME LifeInv, Known, NEW t \in Tasks, Turn(t), pc[t] \in {"disconnect", "deleteOne"},
           abandoned' = abandoned
    PROVE  Known'
<1>1. PICK visited : NextTurn(t, visited)
  BY DEF Turn
<1>2. CASE pc' = [pc EXCEPT ![t] = "close"]
  BY <1>2 DEF Known, LifeInv, LifeTypes
<1>3. CASE /\ \E i \in subscriptions : sub' = [sub EXCEPT ![t] = i]
           /\ pc' = [pc EXCEPT ![t] = "deleteOne"] /\ UNCHANGED subscriptions
  <2>1. \A u \in Tasks \ {t} : pc'[u] = pc[u] /\ sub'[u] = sub[u]
    BY <1>3 DEF LifeInv, LifeTypes
  <2> QED BY <1>3, <2>1 DEF Known, Turn
<1> QED BY <1>1, <1>2, <1>3 DEF NextTurn, Await

\* A new subscription is on its way into the dict, or its subscribe() raises.
LEMMA KnownCreated ==
    ASSUME LifeInv, Known, NEW t \in Tasks, Created(t) PROVE Known'
<1> DEFINE n == Len(owner) + 1
<1>1. /\ pc[t] = "create" /\ owner' = Append(owner, sess[t]) /\ sess[t] \in open
      /\ UNCHANGED <<client, subscriptions>>
  BY DEF Created, held
<1>2. LifeTypes
  BY DEF LifeInv
<1>3. /\ Len(owner') = n /\ owner'[n] = sess[t] /\ n \notin Ids
      /\ \A i \in Ids : owner'[i] = owner[i]
  BY <1>1, <1>2 DEF LifeTypes, Ids
<1>4. live' = live \cup {n}
  BY <1>3 DEF Created
<1>5. /\ \A u \in Tasks \ {t} : pc'[u] = pc[u] /\ sub'[u] = sub[u]
      /\ \/ pc'[t] = "items" /\ sub'[t] = n /\ abandoned' = abandoned
         \/ abandoned' = abandoned \cup {n}
  <2>1. CASE Done(t, "failed") /\ abandoned' = abandoned \cup {n}
    <3>1. OthersStay(t)
      BY <2>1, DoneLocals DEF LifeInv
    <3> QED BY <2>1, <3>1 DEF OthersStay
  <2>2. CASE /\ sub' = [sub EXCEPT ![t] = n] /\ pc' = [pc EXCEPT ![t] = "items"]
             /\ abandoned' = abandoned
    BY <1>2, <2>2 DEF LifeTypes
  <2> QED BY <1>3, <2>1, <2>2 DEF Created, Await
<1> HIDE DEF n
<1>6. ASSUME NEW i \in live, owner'[i] = client
      PROVE  \/ i \in subscriptions \cup abandoned'
             \/ \E u \in Tasks : pc'[u] \in {"items", "delete"} /\ sub'[u] = i
             \/ \E u \in Tasks : pc'[u] = "close"
  <2>1. owner[i] = client
    BY <1>2, <1>3, <1>6 DEF LifeTypes
  <2>2. CASE i \in subscriptions \cup abandoned
    BY <1>5, <2>2
  <2>3. CASE \E u \in Tasks : pc[u] \in {"items", "delete"} /\ sub[u] = i
    BY <1>1, <1>5, <2>3
  <2>4. CASE \E u \in Tasks : pc[u] = "close"
    BY <1>1, <1>5, <2>4
  <2> QED BY <2>1, <2>2, <2>3, <2>4 DEF Known
<1> QED BY <1>1, <1>4, <1>5, <1>6 DEF Known

\* A cancelled task lets go of what it had in hand.
LEMMA KnownCancelled ==
    ASSUME LifeInv, Known, NEW t \in Tasks, CancelTask(t) PROVE Known'
<1>1. UNCHANGED <<sessions, open, live, owner>> /\ Cancelled(t)
  BY DEF CancelTask, server
<1>2. CASE /\ pc[t] \in {"deleteOne", "close"} /\ DropClient(t, "cancelled")
           /\ UNCHANGED <<subscriptions, abandoned>>
  <2>1. client' = None /\ \A i \in live : owner[i] # None
    BY <1>2 DEF DropClient, LifeInv, LifeTypes, Ids, None
  <2> QED BY <1>1, <2>1 DEF Known
<1>3. CASE /\ pc[t] \notin Ending /\ Done(t, "cancelled") /\ UNCHANGED held
           /\ abandoned \subseteq abandoned'
           /\ pc[t] \in {"items", "delete"} => sub[t] \notin live \/ sub[t] \in abandoned'
  <2>1. UNCHANGED <<client, subscriptions>> /\ OthersStay(t) /\ pc[t] # "close"
    BY <1>3, DoneLocals DEF LifeInv, held, Ending
  <2>2. SUFFICES ASSUME NEW i \in live, owner[i] = client, i \notin subscriptions \cup abandoned'
                 PROVE  \E u \in Tasks : \/ pc'[u] \in {"items", "delete"} /\ sub'[u] = i
                                         \/ pc'[u] = "close"
    BY <1>1, <2>1 DEF Known
  <2>3. PICK u \in Tasks : \/ pc[u] \in {"items", "delete"} /\ sub[u] = i
                           \/ pc[u] = "close"
    BY <1>3, <2>2 DEF Known
  <2>4. u # t
    BY <1>3, <2>1, <2>2, <2>3
  <2> QED BY <2>1, <2>3, <2>4 DEF OthersStay
<1>4. CASE /\ pc[t] \in {"create", "items", "delete"} /\ Done(t, "cancelled")
           /\ abandoned' = abandoned \cup ({sub[t]} \ {None}) /\ UNCHANGED held
  <2>1. None \notin live
    BY DEF LifeInv, LifeTypes, Ids, None
  <2> QED BY <1>3, <1>4, <2>1 DEF Ending
<1>5. CASE /\ pc[t] \in {"connect", "disconnect", "open", "namespaces"}
           /\ Done(t, "cancelled") /\ UNCHANGED <<held, abandoned>>
  BY <1>3, <1>5 DEF Ending
<1> QED BY <1>1, <1>2, <1>4, <1>5 DEF Cancelled

\* Every step: what a call lets go of is abandoned.
LEMMA StepKnown == ASSUME LifeInv, Known, [Next]_vars PROVE Known'
<1>0. None \notin live
  BY DEF LifeInv, LifeTypes, Ids, None
<1>1. ASSUME NEW t \in Tasks, CallConnect(t) \/ CallDisconnect(t) \/ CallSubscribe(t)
      PROVE  Known'
  <2>1. pc[t] = "idle" /\ abandoned' = abandoned
    BY <1>1 DEF CallConnect, CallDisconnect, CallSubscribe, Call
  <2> QED BY <1>1, <2>1, CallIsQuiet, KnownQuiet
<1>2. ASSUME NEW t \in Tasks, CallUnsubscribe(t) PROVE Known'
  <2>1. PICK i \in subscriptions :
           subscriptions' = subscriptions \ {i} /\ sub' = [sub EXCEPT ![t] = i]
    BY <1>2 DEF CallUnsubscribe
  <2>2. /\ pc[t] = "idle" /\ pc' = [pc EXCEPT ![t] = "delete"]
        /\ UNCHANGED <<client, live, owner, abandoned>>
    BY <1>2 DEF CallUnsubscribe, server
  <2>3. /\ pc'[t] = "delete" /\ sub'[t] = i
        /\ \A u \in Tasks \ {t} : pc'[u] = pc[u] /\ sub'[u] = sub[u]
    BY <2>1, <2>2 DEF LifeInv, LifeTypes
  <2> QED BY <2>1, <2>2, <2>3 DEF Known
<1>3. ASSUME NEW t \in Tasks,
             ConnectNoop(t) \/ ConnectSucceeds(t) \/ DisconnectNoop(t) \/ SubscribeFails(t)
      PROVE  Known'
  <2>1. /\ abandoned \subseteq abandoned'
        /\ pc[t] \in {"items", "delete"} => sub[t] \notin live \/ sub[t] \in abandoned'
    BY <1>0, <1>3 DEF ConnectNoop, ConnectSucceeds, DisconnectNoop, SubscribeFails
  <2> QED BY <1>3, <2>1, EndIsQuiet, KnownQuiet
<1>4. ASSUME NEW t \in Tasks, ConnectBegin(t) PROVE Known'
  <2>1. client' = sessions + 1 /\ UNCHANGED <<live, owner>>
    BY <1>4 DEF ConnectBegin, server
  <2>2. \A i \in live : owner[i] # sessions + 1
    BY DEF LifeInv, LifeTypes
  <2> QED BY <2>1, <2>2 DEF Known
<1>5. ASSUME NEW t \in Tasks, ConnectOpened(t) PROVE Known'
  <2>1. /\ pc[t] = "open" /\ UNCHANGED <<client, subscriptions, live, owner, sub, abandoned>>
        /\ \A u \in Tasks \ {t} : pc'[u] = pc[u]
    BY <1>5 DEF ConnectOpened, Await, held, LifeInv, LifeTypes
  <2> QED BY <2>1 DEF Known
<1>6. ASSUME NEW t \in Tasks, ConnectFails(t) \/ CloseSession(t) PROVE Known'
  BY <1>6, DropIsGone, KnownGone
<1>7. ASSUME NEW t \in Tasks, DisconnectBegin(t) \/ DeletedOne(t) PROVE Known'
  <2>1. pc[t] \in {"disconnect", "deleteOne"} /\ abandoned' = abandoned
    BY <1>7 DEF DisconnectBegin, DeletedOne
  <2> QED BY <1>7, <2>1, LoopTurns, KnownTurn, KnownGone
<1>8. ASSUME NEW t \in Tasks, Created(t) PROVE Known'
  BY <1>8, KnownCreated
<1>9. ASSUME NEW t \in Tasks, Subscribed(t) \/ Unsubscribed(t) PROVE Known'
  <2>1. \E w \in {"subscribed", "unsubscribed"} : Done(t, w)
    BY <1>9 DEF Subscribed, Unsubscribed
  <2>2. OthersStay(t)
    BY <2>1, DoneLocals DEF LifeInv
  <2>3. /\ UNCHANGED <<client, owner>> /\ pc[t] # "close"
        /\ live' \subseteq live /\ subscriptions \subseteq subscriptions'
        /\ abandoned \subseteq abandoned'
        /\ sub[t] \in live' => sub[t] \in subscriptions' \cup abandoned'
    BY <1>9 DEF Subscribed, Unsubscribed, server, held
  <2> QED BY <2>2, <2>3 DEF Known, OthersStay
<1>10. CASE SessionLost
  BY <1>10 DEF SessionLost, held, locals, Known
<1>11. CASE UNCHANGED vars
  BY <1>11 DEF vars, held, locals, server, Known
<1>12. ASSUME NEW t \in Tasks, CancelTask(t) PROVE Known'
  BY <1>12, KnownCancelled
<1> QED BY <1>1, <1>2, <1>3, <1>4, <1>5, <1>6, <1>7, <1>8, <1>9, <1>10, <1>11, <1>12
        DEF Next, Resume

\* However many tasks subscribe, unsubscribe, connect and disconnect at once, and
\* through every fault and cancellation: what the server serves in the session held
\* is in the dict, on its way into or out of it, or the subscription of a call that
\* raised or was cancelled, or of a deletion that raised (client.py:697-698, 715).
THEOREM NothingIsOrphaned == Spec => []NoOrphans
<1>1. Init => Known
  BY DEF Init, Known
<1>2. LifeInv /\ Known /\ [Next]_vars => Known'
  BY StepKnown
<1>3. LifeInv /\ Known => NoOrphans
  BY DEF LifeInv, Known, Exclusion, Holds, Critical, NoOrphans
<1> QED BY <1>1, <1>2, <1>3, LifeInvariance, PTL DEF Spec

-----------------------------------------------------------------------------
(* What the server is left with: sessions, when a single task a does        *)
(* anything but ask for the connection.                                    *)

Linking == {"open", "namespaces"}

\* Tasks other than a are only ever within connect().
Alone(a) == \A t \in Tasks \ {a} : pc[t] \in {"idle", "connect"} \cup Linking

\* Nobody changes the dict under the loop of disconnect().
LoopStands ==
    \A t \in Tasks : pc[t] = "deleteOne" => size[t] = Cardinality(subscriptions)

\* The object held is the one whose session is being opened, or is connected.
Settled ==
    /\ \A t \in Tasks : pc[t] \in Linking => sess[t] = client
    /\ client # None => connStatus = "connected" \/ \E t \in Tasks : pc[t] \in Linking

OneSession == open \subseteq {client}

LeakInv(a) ==
    /\ DOMAIN size = Tasks
    /\ Alone(a) /\ LoopStands /\ Settled /\ OneSession

\* Done() and the size of the loop.
LEMMA DoneSize ==
    ASSUME DOMAIN size = Tasks, NEW t \in Tasks, NEW w, Done(t, w)
    PROVE  DOMAIN size' = Tasks /\ \A u \in Tasks \ {t} : size'[u] = size[u]
  BY DEF Done

\* Nothing was open under the client that is dropped.
LEMMA LeakGone ==
    ASSUME LifeInv, NEW a \in Tasks, LeakInv(a), NEW t \in Tasks, Gone(t), open' = {}
    PROVE  LeakInv(a)'
<1>1. OthersStay(t) /\ pc'[t] = "idle"
  BY DoneLocals DEF LifeInv, Gone
<1>2. DOMAIN size' = Tasks /\ \A u \in Tasks \ {t} : size'[u] = size[u]
  BY DoneSize DEF LeakInv, Gone
<1>3. \A u \in Tasks \ {t} : pc[u] \notin Critical
  BY DEF Gone, LifeInv, Exclusion, Holds
<1>4. Alone(a)'
  BY <1>1 DEF LeakInv, Alone, OthersStay
<1>5. LoopStands'
  BY <1>1, <1>3 DEF LoopStands, OthersStay, Critical
<1>6. Settled'
  BY <1>1, <1>3 DEF Settled, OthersStay, Critical, Linking, Gone
<1>7. OneSession'
  BY DEF OneSession
<1> QED BY <1>2, <1>4, <1>5, <1>6, <1>7 DEF LeakInv

\* Steps that leave connection and server alone, for the sessions.
LEMMA LeakQuiet ==
    ASSUME LifeInv, NEW a \in Tasks, LeakInv(a), NEW t \in Tasks, Quiet(t),
           \A u \in Tasks \ {t} : size'[u] = size[u], DOMAIN size' = Tasks,
           \/ connStatus' = "connected"
           \/ connStatus' = connStatus /\ pc[t] \notin Linking,
           t # a => pc'[t] \in {"idle", "connect"}
    PROVE  LeakInv(a)'
<1>1. /\ UNCHANGED <<client, subscriptions, open>> /\ OthersStay(t)
      /\ pc'[t] \in {"idle", "connect", "disconnect", "create"}
  BY DEF Quiet
<1>2. Alone(a)'
  BY <1>1 DEF LeakInv, Alone, OthersStay
<1>3. LoopStands'
  BY <1>1 DEF LeakInv, LoopStands, OthersStay
<1>4. Settled'
  <2>1. \A u \in Tasks : pc'[u] \in Linking => sess'[u] = client'
    BY <1>1 DEF LeakInv, Settled, OthersStay, Linking
  <2>2. client' # None => connStatus' = "connected" \/ \E u \in Tasks : pc'[u] \in Linking
    <3>1. CASE connStatus' = "connected"
      BY <3>1
    <3>2. CASE connStatus' = connStatus /\ pc[t] \notin Linking
      BY <1>1, <3>2 DEF LeakInv, Settled, OthersStay
    <3> QED BY <3>1, <3>2
  <2> QED BY <2>1, <2>2 DEF Settled
<1>5. OneSession'
  BY <1>1 DEF LeakInv, OneSession
<1> QED BY <1>2, <1>3, <1>4, <1>5 DEF LeakInv

\* Who is within a call other than connect() is a.
LEMMA OnlyTheOwner ==
    ASSUME LifeInv, NEW a \in Tasks, LeakInv(a), NEW t \in Tasks,
           pc[t] \notin {"idle", "connect"} \cup Linking
    PROVE  t = a
  BY DEF LeakInv, Alone

\* The loop of disconnect() is the owner's.
LEMMA LeakTurn ==
    ASSUME LifeInv, NEW a \in Tasks, LeakInv(a), NEW t \in Tasks,
           DisconnectBegin(t) \/ DeletedOne(t), Turn(t)
    PROVE  LeakInv(a)'
<1>1. t = a /\ UNCHANGED <<client, connStatus, sess, open>> /\ pc[t] \in {"disconnect", "deleteOne"}
      /\ pc[t] \notin Linking
  BY OnlyTheOwner DEF Turn, DisconnectBegin, DeletedOne, Linking
<1>2. PICK visited : NextTurn(t, visited)
  BY DEF Turn
<1>3. /\ pc'[t] \in Ending /\ \A u \in Tasks \ {t} : pc'[u] = pc[u]
      /\ pc'[t] = "deleteOne" => subscriptions' = subscriptions
  BY <1>2 DEF NextTurn, Await, LifeInv, LifeTypes, Ending
<1>4. /\ DOMAIN size' = Tasks
      /\ pc'[t] = "deleteOne" => size'[t] = Cardinality(subscriptions)
  <2>1. CASE DisconnectBegin(t)
    BY <2>1 DEF DisconnectBegin, LeakInv
  <2>2. CASE DeletedOne(t) /\ size' = size
    BY <2>2 DEF DeletedOne, LeakInv, LoopStands
  <2>3. CASE DeletedOne(t) /\ DropClient(t, "disconnected")
    <3>1. pc'[t] = "idle"
      BY <2>3, DoneLocals DEF DropClient, LifeInv
    <3> QED BY <1>3, <3>1 DEF Ending
  <2> QED BY <2>1, <2>2, <2>3 DEF DeletedOne
<1>5. Alone(a)'
  BY <1>1, <1>3 DEF LeakInv, Alone
<1>6. LoopStands'
  <2>1. \A u \in Tasks \ {t} : pc'[u] # "deleteOne"
    BY <1>1, <1>3 DEF LeakInv, Alone, Linking
  <2> QED BY <1>3, <1>4, <2>1 DEF LoopStands
<1>7. Settled'
  BY <1>1, <1>3 DEF LeakInv, Settled, Ending, Linking
<1>8. OneSession'
  BY <1>1 DEF LeakInv, OneSession
<1> QED BY <1>4, <1>5, <1>6, <1>7, <1>8 DEF LeakInv

\* connect() makes a new object only when nothing is open.
LEMMA LeakConnect ==
    ASSUME LifeInv, NEW a \in Tasks, LeakInv(a), NEW t \in Tasks,
           ConnectBegin(t) \/ ConnectOpened(t)
    PROVE  LeakInv(a)'
<1>1. UNCHANGED <<subscriptions, size>> /\ pc[t] \in {"connect", "open"}
  BY DEF ConnectBegin, ConnectOpened, held
<1>2. /\ pc'[t] \in Linking /\ \A u \in Tasks \ {t} : pc'[u] = pc[u]
  BY DEF ConnectBegin, ConnectOpened, Await, LifeInv, LifeTypes, Linking
<1>3. Alone(a)' /\ LoopStands'
  BY <1>1, <1>2 DEF LeakInv, Alone, LoopStands, Linking
<1>4. Holds(t)
  BY DEF ConnectBegin, ConnectOpened, LifeInv, Exclusion, Critical
<1>5. \A u \in Tasks \ {t} : pc[u] \notin Critical
  BY <1>4 DEF LifeInv, Exclusion, Holds
<1>6. Settled'
  <2>1. sess'[t] = client'
    <3>1. CASE ConnectBegin(t)
      BY <3>1 DEF ConnectBegin, LifeInv, LifeTypes
    <3>2. CASE ConnectOpened(t)
      BY <3>2 DEF ConnectOpened, held, LeakInv, Settled, Linking
    <3> QED BY <3>1, <3>2
  <2> QED BY <1>2, <1>5, <2>1 DEF Settled, Critical, Linking
<1>7. OneSession'
  <2>1. CASE ConnectBegin(t)
    <3>1. pc[t] = "connect" /\ ~IsConnected /\ open' = open
      BY <2>1 DEF ConnectBegin, server
    <3>2. \A u \in Tasks : pc[u] \notin Linking
      BY <1>5, <3>1 DEF Linking, Critical
    <3>3. client = None
      BY <3>1, <3>2 DEF LeakInv, Settled, IsConnected
    <3>4. open = {}
      BY <3>3 DEF LeakInv, OneSession, LifeInv, LifeTypes, None
    <3> QED BY <3>1, <3>4 DEF OneSession
  <2>2. CASE ConnectOpened(t)
    BY <2>2 DEF ConnectOpened, held, LeakInv, OneSession, Settled, Linking
  <2> QED BY <2>1, <2>2
<1> QED BY <1>1, <1>3, <1>6, <1>7 DEF LeakInv

\* One task owns disconnect(), subscribe() and unsubscribe(); the namespace read
\* is answered, Client.disconnect() does not raise and nobody is cancelled.
LEMMA StepLeak ==
    ASSUME NEW a \in Tasks, \A t \in Tasks \ {a} : Ops[t] \subseteq {"connect"},
           {"late", "unclosed", "cancel"} \cap Faults = {}, LifeInv, LeakInv(a), [Next]_vars
    PROVE  LeakInv(a)'
<1>1. ASSUME NEW t \in Tasks, CallConnect(t) \/ CallDisconnect(t) \/ CallSubscribe(t)
      PROVE  LeakInv(a)'
  <2>1. Quiet(t) /\ pc[t] = "idle" /\ connStatus' = connStatus
    BY <1>1, CallIsQuiet DEF CallConnect, CallDisconnect, CallSubscribe, Call, held
  <2>2. DOMAIN size' = Tasks /\ \A u \in Tasks \ {t} : size'[u] = size[u]
    <3>1. size' = size \/ Done(t, "notConnected")
      BY <1>1 DEF CallConnect, CallDisconnect, CallSubscribe, Call
    <3> QED BY <3>1, DoneSize DEF LeakInv
  <2>3. t # a => pc'[t] \in {"idle", "connect"}
    BY <1>1 DEF CallConnect, CallDisconnect, CallSubscribe, Call, LifeInv, LifeTypes
  <2> QED BY <2>1, <2>2, <2>3, LeakQuiet DEF Linking
<1>2. ASSUME NEW t \in Tasks,
             ConnectNoop(t) \/ ConnectSucceeds(t) \/ DisconnectNoop(t) \/ SubscribeFails(t)
      PROVE  LeakInv(a)'
  <2>1. PICK w \in {"connected", "disconnected", "failed"} : Done(t, w)
    BY <1>2 DEF ConnectNoop, ConnectSucceeds, DisconnectNoop, SubscribeFails
  <2>2. pc'[t] = "idle"
    BY <2>1, DoneLocals DEF LifeInv
  <2>3. DOMAIN size' = Tasks /\ \A u \in Tasks \ {t} : size'[u] = size[u]
    BY <2>1, DoneSize DEF LeakInv
  <2>4. \/ connStatus' = "connected"
        \/ connStatus' = connStatus /\ pc[t] \notin Linking
    BY <1>2 DEF ConnectNoop, ConnectSucceeds, DisconnectNoop, SubscribeFails, held, Linking
  <2> QED BY <1>2, <2>2, <2>3, <2>4, EndIsQuiet, LeakQuiet
<1>3. ASSUME NEW t \in Tasks, ConnectBegin(t) \/ ConnectOpened(t) PROVE LeakInv(a)'
  BY <1>3, LeakConnect
<1>4. ASSUME NEW t \in Tasks, ConnectFails(t) PROVE LeakInv(a)'
  <2>1. sess[t] \notin open /\ pc[t] \in Linking /\ open' = open
    BY <1>4 DEF ConnectFails, LifeInv, Opening, Linking, server
  <2>2. open' = {}
    BY <2>1 DEF LeakInv, Settled, OneSession
  <2> QED BY <1>4, <2>2, DropIsGone, LeakGone
<1>5. ASSUME NEW t \in Tasks, CloseSession(t) PROVE LeakInv(a)'
  <2>1. open' = {}
    BY <1>5 DEF CloseSession, LeakInv, OneSession
  <2> QED BY <1>5, <2>1, DropIsGone, LeakGone
<1>6. ASSUME NEW t \in Tasks, DisconnectBegin(t) PROVE LeakInv(a)'
  BY <1>6, LeakTurn DEF DisconnectBegin, Turn, server
<1>7. ASSUME NEW t \in Tasks, DeletedOne(t) PROVE LeakInv(a)'
  <2>1. Cardinality(subscriptions) = size[t] /\ Holds(t)
    BY <1>7 DEF DeletedOne, LeakInv, LoopStands, LifeInv, Exclusion, Critical
  <2>2. Turn(t)
    BY <1>7, <2>1 DEF DeletedOne, Turn
  <2> QED BY <1>7, <2>2, LeakTurn
<1>8. ASSUME NEW t \in Tasks,
             Created(t) \/ Subscribed(t) \/ Unsubscribed(t) \/ CallUnsubscribe(t)
      PROVE  LeakInv(a)'
  <2>1. t = a
    <3>1. CASE CallUnsubscribe(t)
      BY <3>1 DEF CallUnsubscribe
    <3>2. CASE Created(t) \/ Subscribed(t) \/ Unsubscribed(t)
      BY <3>2, OnlyTheOwner DEF Created, Subscribed, Unsubscribed, Linking
    <3> QED BY <1>8, <3>1, <3>2
  <2>2. /\ UNCHANGED <<client, connStatus, open>> /\ pc[t] \notin Linking
    BY <1>8 DEF Created, Subscribed, Unsubscribed, CallUnsubscribe, held, server, Linking
  <2>3. /\ pc'[t] \in {"idle", "items", "delete"}
        /\ \A u \in Tasks \ {t} : pc'[u] = pc[u] /\ sess'[u] = sess[u]
    BY <1>8 DEF Created, Subscribed, Unsubscribed, CallUnsubscribe, Done, Await, LifeInv, LifeTypes
  <2>4. DOMAIN size' = Tasks
    <3>1. size' = size \/ \E w \in {"failed", "subscribed", "unsubscribed"} : Done(t, w)
      BY <1>8 DEF Created, Subscribed, Unsubscribed, CallUnsubscribe
    <3> QED BY <3>1, DoneSize DEF LeakInv
  <2>5. Alone(a)'
    BY <2>1, <2>3 DEF LeakInv, Alone
  <2>6. LoopStands'
    BY <2>1, <2>3, <2>5 DEF LoopStands, Alone, Linking
  <2>7. Settled'
    BY <2>2, <2>3 DEF LeakInv, Settled, Linking
  <2>8. OneSession'
    BY <2>2 DEF LeakInv, OneSession
  <2> QED BY <2>4, <2>5, <2>6, <2>7, <2>8 DEF LeakInv
<1>9. CASE SessionLost
  BY <1>9 DEF SessionLost, held, locals, LeakInv, Alone, LoopStands, Settled, OneSession
<1>10. CASE UNCHANGED vars
  BY <1>10 DEF vars, held, locals, server, LeakInv, Alone, LoopStands, Settled, OneSession
<1>11. ASSUME NEW t \in Tasks PROVE ~CancelTask(t)
  BY DEF CancelTask
<1> QED BY <1>1, <1>2, <1>3, <1>4, <1>5, <1>6, <1>7, <1>8, <1>9, <1>10, <1>11
        DEF Next, Resume

\* When one task owns disconnect(), subscribe() and unsubscribe() and any number
\* of others may ask to connect, the only session the server keeps open is the
\* one the client holds, through refused connections, lost sessions and everything
\* that can go wrong with subscriptions.
THEOREM NoSessionIsLeft ==
    ASSUME NEW a \in Tasks, \A t \in Tasks \ {a} : Ops[t] \subseteq {"connect"},
           {"late", "unclosed", "cancel"} \cap Faults = {}
    PROVE  Spec => []NoSessionLeaks
<1>1. Init => LeakInv(a)
  BY DEF Init, LeakInv, Alone, LoopStands, Settled, OneSession, Linking
<1>2. LifeInv /\ LeakInv(a) /\ [Next]_vars => LeakInv(a)'
  BY StepLeak
<1>3. LeakInv(a) => NoSessionLeaks
  BY DEF LeakInv, OneSession, NoSessionLeaks
<1> QED BY <1>1, <1>2, <1>3, LifeInvariance, PTL DEF Spec

-----------------------------------------------------------------------------
(* The lock.                                                               *)

\* Where a task holds the lock or waits for it.
Locking == {"connect", "disconnect"} \cup Critical

InQueue(t) == \E i \in 1 .. Len(lock) : lock[i] = t

\* The tasks in the queue of the lock are those within connect() or
\* disconnect(), each once: the lock is never kept by a call that is over.
LockIsTheirs ==
    /\ \A i \in 1 .. Len(lock) : pc[lock[i]] \in Locking
    /\ \A i, j \in 1 .. Len(lock) : i # j => lock[i] # lock[j]
    /\ \A t \in Tasks : pc[t] \in Locking => InQueue(t)

\* What a task does to the lock, and where that leaves it.
QueueStep(t) ==
    /\ \A u \in Tasks \ {t} : pc'[u] = pc[u]
    /\ \/ lock' = lock /\ (pc'[t] \in Locking <=> pc[t] \in Locking)
       \/ lock' = Append(lock, t) /\ pc[t] = "idle" /\ pc'[t] \in Locking
       \/ lock # <<>> /\ lock' = Tail(lock) /\ Head(lock) = t /\ pc'[t] = "idle"
       \/ \E i \in 2 .. Len(lock) : lock[i] = t /\ lock' = RemoveAt(lock, i) /\ pc'[t] = "idle"

\* Dropping the task at place n of the queue: the others keep their order.
DropsPlace(n) ==
    /\ n \in 1 .. Len(lock) /\ Len(lock') = Len(lock) - 1
    /\ \A i \in 1 .. Len(lock') : lock'[i] = IF i < n THEN lock[i] ELSE lock[i + 1]

LEMMA TailDrops ==
    ASSUME LifeTypes, lock # <<>>, lock' = Tail(lock) PROVE DropsPlace(1)
<1>1. lock \in Seq(Tasks) /\ Len(lock) \in Nat \ {0}
  BY DEF LifeTypes
<1>2. Len(lock') = Len(lock) - 1 /\ \A i \in 1 .. Len(lock) - 1 : lock'[i] = lock[i + 1]
  BY <1>1
<1> QED BY <1>1, <1>2 DEF DropsPlace

LEMMA RemoveDrops ==
    ASSUME LifeTypes, NEW n \in 2 .. Len(lock), lock' = RemoveAt(lock, n) PROVE DropsPlace(n)
<1> DEFINE front == SubSeq(lock, 1, n - 1)
           back  == SubSeq(lock, n + 1, Len(lock))
<1>1. lock \in Seq(Tasks) /\ Len(lock) \in Nat /\ n \in Nat /\ n <= Len(lock) /\ 2 <= n
  BY DEF LifeTypes
<1>2. /\ front \in Seq(Tasks) /\ Len(front) = n - 1
      /\ \A i \in 1 .. n - 1 : front[i] = lock[i]
  BY <1>1
<1>3. /\ back \in Seq(Tasks) /\ Len(back) = Len(lock) - n
      /\ \A i \in 1 .. Len(lock) - n : back[i] = lock[n + i]
  <2>1. CASE n = Len(lock)
    BY <1>1, <2>1
  <2>2. CASE n < Len(lock)
    <3>1. back \in Seq(Tasks) /\ Len(back) = Len(lock) - n
      BY <1>1, <2>2
    <3>2. \A i \in 1 .. Len(lock) - n : back[i] = lock[(n + 1) + i - 1]
      BY <1>1, <2>2
    <3>3. \A i \in 1 .. Len(lock) - n : (n + 1) + i - 1 = n + i
      BY <1>1
    <3> QED BY <3>1, <3>2, <3>3
  <2> QED BY <1>1, <2>1, <2>2
<1>4. lock' = front \o back
  BY DEF RemoveAt
<1> HIDE DEF front, back
<1>5. /\ Len(lock') = Len(lock) - 1
      /\ \A i \in 1 .. Len(lock) - 1 :
            lock'[i] = IF i <= n - 1 THEN front[i] ELSE back[i - (n - 1)]
  <2>1. front \in Seq(Tasks) /\ back \in Seq(Tasks)
    BY <1>2, <1>3
  <2>2. /\ Len(front \o back) = Len(front) + Len(back)
        /\ \A i \in 1 .. Len(front) + Len(back) :
              (front \o back)[i] = IF i <= Len(front) THEN front[i] ELSE back[i - Len(front)]
    BY <2>1
  <2>3. Len(front) = n - 1 /\ Len(front) + Len(back) = Len(lock) - 1
    BY <1>1, <1>2, <1>3
  <2> QED BY <1>4, <2>2, <2>3
<1>6. ASSUME NEW i \in 1 .. Len(lock) - 1
      PROVE  lock'[i] = IF i < n THEN lock[i] ELSE lock[i + 1]
  <2>1. CASE i < n
    <3>1. i \in 1 .. n - 1 /\ i <= n - 1
      BY <1>1, <2>1
    <3> QED BY <1>2, <1>5, <2>1, <3>1
  <2>2. CASE ~(i < n)
    <3>1. ~(i <= n - 1) /\ i - (n - 1) \in 1 .. Len(lock) - n /\ n + (i - (n - 1)) = i + 1
      BY <1>1, <2>2
    <3>2. back[i - (n - 1)] = lock[n + (i - (n - 1))]
      BY <1>3, <3>1
    <3> QED BY <1>5, <2>2, <3>1, <3>2
  <2> QED BY <2>1, <2>2
<1> QED BY <1>1, <1>5, <1>6 DEF DropsPlace

\* A task that leaves the queue, from wherever it stood, is over with its call.
LEMMA LeavesQueue ==
    ASSUME LifeTypes, LockIsTheirs, NEW n, DropsPlace(n), pc'[lock[n]] = "idle",
           \A u \in Tasks \ {lock[n]} : pc'[u] = pc[u]
    PROVE  LockIsTheirs'
<1>1. /\ lock \in Seq(Tasks) /\ Len(lock) \in Nat /\ n \in 1 .. Len(lock)
      /\ Len(lock') = Len(lock) - 1
      /\ \A i \in 1 .. Len(lock) : lock[i] \in Tasks
  BY DEF LifeTypes, DropsPlace
<1> DEFINE from(i) == IF i < n THEN i ELSE i + 1
<1>2. ASSUME NEW i \in 1 .. Len(lock')
      PROVE  from(i) \in 1 .. Len(lock) /\ from(i) # n /\ lock'[i] = lock[from(i)]
  BY <1>1, <1>2 DEF DropsPlace
<1>3. ASSUME NEW i \in 1 .. Len(lock') PROVE pc'[lock'[i]] \in Locking
  <2>1. lock[from(i)] # lock[n] /\ lock[from(i)] \in Tasks /\ pc[lock[from(i)]] \in Locking
    BY <1>1, <1>2 DEF LockIsTheirs
  <2> QED BY <1>2, <2>1
<1>4. ASSUME NEW i \in 1 .. Len(lock'), NEW j \in 1 .. Len(lock'), i # j
      PROVE  lock'[i] # lock'[j]
  <2>1. from(i) # from(j)
    BY <1>1, <1>4
  <2>2. lock[from(i)] # lock[from(j)]
    BY <1>2, <2>1 DEF LockIsTheirs
  <2> QED BY <1>2, <2>2
<1>5. ASSUME NEW u \in Tasks, pc'[u] \in Locking PROVE \E i \in 1 .. Len(lock') : lock'[i] = u
  <2>1. u # lock[n]
    BY <1>5 DEF Locking, Critical
  <2>2. PICK i \in 1 .. Len(lock) : lock[i] = u
    BY <1>5, <2>1 DEF LockIsTheirs, InQueue
  <2>3. CASE i < n
    <3>1. i \in 1 .. Len(lock') /\ lock'[i] = lock[i]
      BY <1>1, <2>3 DEF DropsPlace
    <3> QED BY <2>2, <3>1
  <2>4. CASE i > n
    <3>1. i - 1 \in 1 .. Len(lock') /\ ~(i - 1 < n) /\ (i - 1) + 1 = i
      BY <1>1, <2>4
    <3>2. lock'[i - 1] = lock[i]
      BY <3>1 DEF DropsPlace
    <3> QED BY <2>2, <3>1, <3>2
  <2>5. i < n \/ i > n
    BY <1>1, <2>1, <2>2
  <2> QED BY <2>3, <2>4, <2>5
<1> QED BY <1>3, <1>4, <1>5 DEF LockIsTheirs, InQueue

LEMMA QueueKept ==
    ASSUME LifeTypes, LockIsTheirs, NEW t \in Tasks, QueueStep(t) PROVE LockIsTheirs'
<1>1. lock \in Seq(Tasks) /\ Len(lock) \in Nat /\ \A i \in 1 .. Len(lock) : lock[i] \in Tasks
  BY DEF LifeTypes
<1>2. \A u \in Tasks \ {t} : pc'[u] = pc[u]
  BY DEF QueueStep
<1>3. CASE lock' = lock /\ (pc'[t] \in Locking <=> pc[t] \in Locking)
  <2>1. \A u \in Tasks : pc'[u] \in Locking <=> pc[u] \in Locking
    BY <1>2, <1>3
  <2> QED BY <1>1, <1>3, <2>1 DEF LockIsTheirs, InQueue
<1>4. CASE lock' = Append(lock, t) /\ pc[t] = "idle" /\ pc'[t] \in Locking
  <2>1. /\ Len(lock') = Len(lock) + 1 /\ lock'[Len(lock) + 1] = t
        /\ \A i \in 1 .. Len(lock) : lock'[i] = lock[i]
    BY <1>1, <1>4
  <2>2. \A i \in 1 .. Len(lock) : lock[i] # t
    BY <1>4 DEF LockIsTheirs, Locking, Critical
  <2>3. \A i \in 1 .. Len(lock') : i \in 1 .. Len(lock) \/ i = Len(lock) + 1
    BY <1>1, <2>1
  <2>4. \A i \in 1 .. Len(lock') : pc'[lock'[i]] \in Locking
    <3>1. \A i \in 1 .. Len(lock) : pc'[lock'[i]] \in Locking
      BY <1>1, <1>2, <2>1, <2>2 DEF LockIsTheirs
    <3> QED BY <1>4, <2>1, <2>3, <3>1
  <2>5. \A i, j \in 1 .. Len(lock') : i # j => lock'[i] # lock'[j]
    BY <2>1, <2>2, <2>3 DEF LockIsTheirs
  <2>6. ASSUME NEW u \in Tasks, pc'[u] \in Locking PROVE \E i \in 1 .. Len(lock') : lock'[i] = u
    <3>1. CASE u = t
      <4>1. Len(lock) + 1 \in 1 .. Len(lock')
        BY <1>1, <2>1
      <4> QED BY <2>1, <3>1, <4>1
    <3>2. CASE u # t
      <4>1. PICK i \in 1 .. Len(lock) : lock[i] = u
        BY <1>2, <2>6, <3>2 DEF LockIsTheirs, InQueue
      <4>2. i \in 1 .. Len(lock')
        BY <1>1, <2>1
      <4> QED BY <2>1, <4>1, <4>2
    <3> QED BY <3>1, <3>2
  <2> QED BY <2>4, <2>5, <2>6 DEF LockIsTheirs, InQueue
<1>5. CASE lock # <<>> /\ lock' = Tail(lock) /\ Head(lock) = t /\ pc'[t] = "idle"
  <2>1. lock[1] = t
    BY <1>1, <1>5
  <2> QED BY <1>2, <1>5, <2>1, TailDrops, LeavesQueue
<1>6. ASSUME NEW n \in 2 .. Len(lock), lock[n] = t, lock' = RemoveAt(lock, n), pc'[t] = "idle"
      PROVE  LockIsTheirs'
  BY <1>2, <1>6, RemoveDrops, LeavesQueue
<1> QED BY <1>3, <1>4, <1>5, <1>6 DEF QueueStep

\* A call that is under way has not returned anything.
NoAnswerYet ==
    /\ DOMAIN returned = Tasks
    /\ \A t \in Tasks : pc[t] # "idle" => returned[t] = "nothing"

\* What a task does to its answer.
AnswerStep(t) ==
    /\ DOMAIN returned' = Tasks
    /\ \A u \in Tasks \ {t} : returned'[u] = returned[u]
    /\ pc'[t] = "idle" \/ returned'[t] = "nothing"

\* A call ends: seen from the lock, and from the answers.
LEMMA DoneStep ==
    ASSUME LifeTypes, NoAnswerYet, NEW t \in Tasks, NEW w, Done(t, w)
    PROVE  /\ pc'[t] = "idle" /\ \A u \in Tasks \ {t} : pc'[u] = pc[u]
           /\ AnswerStep(t) /\ returned'[t] = w
  BY DEF LifeTypes, NoAnswerYet, Done, AnswerStep

\* A call goes on at the next await.
LEMMA AwaitStep ==
    ASSUME LifeTypes, NoAnswerYet, NEW t \in Tasks, NEW l, Await(t, l), pc[t] # "idle"
    PROVE  /\ pc'[t] = l /\ \A u \in Tasks \ {t} : pc'[u] = pc[u]
           /\ AnswerStep(t) /\ returned' = returned
  BY DEF LifeTypes, NoAnswerYet, Await, AnswerStep

\* Each step of a task, seen from the lock and from the answers.
LEMMA TaskSteps ==
    ASSUME LifeInv, NoAnswerYet, NEW t \in Tasks,
           \/ CallConnect(t) \/ CallDisconnect(t) \/ CallSubscribe(t) \/ CallUnsubscribe(t)
           \/ Resume(t) \/ CancelTask(t)
    PROVE  QueueStep(t) /\ AnswerStep(t)
<1>0. LifeTypes /\ DOMAIN pc = Tasks /\ (pc[t] \in Critical => Holds(t))
  BY DEF LifeInv, LifeTypes, Exclusion
<1>1. CASE CallConnect(t) \/ CallDisconnect(t)
  <2>1. /\ pc[t] = "idle" /\ lock' = Append(lock, t)
        /\ pc' = [pc EXCEPT ![t] = "connect"] \/ pc' = [pc EXCEPT ![t] = "disconnect"]
        /\ returned' = [returned EXCEPT ![t] = "nothing"]
    BY <1>1 DEF CallConnect, CallDisconnect, Call
  <2>2. QueueStep(t)
    BY <1>0, <2>1 DEF QueueStep, Locking
  <2>3. AnswerStep(t)
    BY <2>1 DEF AnswerStep, NoAnswerYet
  <2> QED BY <2>2, <2>3
<1>2. CASE CallSubscribe(t)
  <2>1. pc[t] = "idle" /\ lock' = lock
    BY <1>2 DEF CallSubscribe, Done
  <2>2. CASE Done(t, "notConnected")
    BY <1>0, <2>1, <2>2, DoneStep DEF QueueStep
  <2>3. CASE /\ pc' = [pc EXCEPT ![t] = "create"]
             /\ returned' = [returned EXCEPT ![t] = "nothing"]
    <3>1. QueueStep(t)
      BY <1>0, <2>1, <2>3 DEF QueueStep, Locking, Critical
    <3>2. AnswerStep(t)
      BY <2>3 DEF AnswerStep, NoAnswerYet
    <3> QED BY <3>1, <3>2
  <2> QED BY <1>2, <2>2, <2>3 DEF CallSubscribe
<1>3. CASE CallUnsubscribe(t)
  <2>1. /\ pc[t] = "idle" /\ lock' = lock /\ pc' = [pc EXCEPT ![t] = "delete"]
        /\ returned' = [returned EXCEPT ![t] = "nothing"]
    BY <1>3 DEF CallUnsubscribe
  <2>2. QueueStep(t)
    BY <1>0, <2>1 DEF QueueStep, Locking, Critical
  <2>3. AnswerStep(t)
    BY <2>1 DEF AnswerStep, NoAnswerYet
  <2> QED BY <2>2, <2>3
<1>4. ASSUME NEW w, Done(t, w), lock # <<>>, Head(lock) = t, lock' = Tail(lock)
      PROVE  QueueStep(t) /\ AnswerStep(t)
  BY <1>0, <1>4, DoneStep DEF QueueStep
<1>5. ASSUME NEW w, Done(t, w), lock' = lock, pc[t] \notin Locking
      PROVE  QueueStep(t) /\ AnswerStep(t)
  <2>1. "idle" \notin Locking
    BY DEF Locking, Critical
  <2> QED BY <1>0, <1>5, <2>1, DoneStep DEF QueueStep
<1>6. ASSUME NEW l, Await(t, l), lock' = lock, pc[t] # "idle",
             pc[t] \in Locking <=> l \in Locking
      PROVE  QueueStep(t) /\ AnswerStep(t)
  BY <1>0, <1>6, AwaitStep DEF QueueStep
<1>7. CASE ConnectNoop(t) \/ DisconnectNoop(t)
  BY <1>4, <1>7 DEF ConnectNoop, DisconnectNoop, Holds, Release
<1>8. CASE ConnectBegin(t) \/ ConnectOpened(t)
  BY <1>6, <1>8 DEF ConnectBegin, ConnectOpened, Locking, Critical
<1>9. CASE ConnectSucceeds(t) \/ ConnectFails(t) \/ CloseSession(t)
  <2>1. pc[t] \in Critical /\ Release /\ \E w : Done(t, w)
    BY <1>9 DEF ConnectSucceeds, ConnectFails, CloseSession, DropClient, Critical
  <2> QED BY <1>0, <1>4, <2>1 DEF Holds, Release
<1>10. ASSUME NEW v, NextTurn(t, v), lock' = lock, pc[t] \in {"disconnect", "deleteOne"}
       PROVE  QueueStep(t) /\ AnswerStep(t)
  <2>1. Await(t, "deleteOne") \/ Await(t, "close")
    BY <1>10 DEF NextTurn
  <2> QED BY <1>6, <1>10, <2>1 DEF Locking, Critical
<1>11. CASE DisconnectBegin(t)
  BY <1>10, <1>11 DEF DisconnectBegin
<1>12. CASE DeletedOne(t)
  <2>1. CASE NextTurn(t, seen[t]) /\ lock' = lock
    BY <1>10, <1>12, <2>1 DEF DeletedOne
  <2>2. CASE DropClient(t, "disconnected")
    <3>1. pc[t] \in Critical
      BY <1>12 DEF DeletedOne, Critical
    <3> QED BY <1>0, <1>4, <2>2, <3>1 DEF DropClient, Holds, Release
  <2> QED BY <1>12, <2>1, <2>2 DEF DeletedOne
<1>13. CASE Created(t)
  <2>1. CASE Done(t, "failed")
    BY <1>5, <1>13, <2>1 DEF Created, Locking, Critical
  <2>2. CASE Await(t, "items")
    BY <1>6, <1>13, <2>2 DEF Created, Locking, Critical
  <2> QED BY <1>13, <2>1, <2>2 DEF Created
<1>14. CASE Subscribed(t) \/ SubscribeFails(t) \/ Unsubscribed(t)
  BY <1>5, <1>14 DEF Subscribed, SubscribeFails, Unsubscribed, Locking, Critical
<1>15. CASE CancelTask(t)
  <2>1. Cancelled(t)
    BY <1>15 DEF CancelTask
  <2>2. ASSUME NEW i \in 2 .. Len(lock), lock[i] = t, lock' = RemoveAt(lock, i),
               Done(t, "cancelled")
        PROVE  QueueStep(t) /\ AnswerStep(t)
    BY <1>0, <2>2, DoneStep DEF QueueStep
  <2>3. CASE pc[t] \in {"open", "namespaces"} /\ Release /\ Done(t, "cancelled")
    BY <1>0, <1>4, <2>3 DEF Critical, Holds, Release
  <2>4. CASE pc[t] \in {"deleteOne", "close"} /\ DropClient(t, "cancelled")
    BY <1>0, <1>4, <2>4 DEF Critical, Holds, Release, DropClient
  <2>5. CASE pc[t] \in {"create", "items", "delete"} /\ Done(t, "cancelled") /\ lock' = lock
    BY <1>5, <2>5 DEF Locking, Critical
  <2> QED BY <2>1, <2>2, <2>3, <2>4, <2>5 DEF Cancelled
<1> QED BY <1>1, <1>2, <1>3, <1>7, <1>8, <1>9, <1>11, <1>12, <1>13, <1>14, <1>15 DEF Resume

\* The state of the lock and of the answers, between any two awaits.
LockInv == LockIsTheirs /\ NoAnswerYet

LEMMA StepLockInv == LifeInv /\ LockInv /\ [Next]_vars => LockInv'
<1> SUFFICES ASSUME LifeInv, LockInv, [Next]_vars PROVE LockInv'
  OBVIOUS
<1>1. ASSUME NEW t \in Tasks, QueueStep(t), AnswerStep(t) PROVE LockInv'
  <2>1. LockIsTheirs'
    BY <1>1, QueueKept DEF LifeInv, LockInv
  <2>2. NoAnswerYet'
    BY <1>1 DEF LockInv, NoAnswerYet, AnswerStep, QueueStep
  <2> QED BY <2>1, <2>2 DEF LockInv
<1>2. CASE UNCHANGED <<lock, pc, returned>>
  BY <1>2 DEF LockInv, LockIsTheirs, InQueue, NoAnswerYet
<1>3. SessionLost \/ UNCHANGED vars => UNCHANGED <<lock, pc, returned>>
  BY DEF SessionLost, vars, locals
<1> QED BY <1>1, <1>2, <1>3, TaskSteps DEF Next, LockInv

\* The lock is never lost: no call, fault or cancellation, in whatever order,
\* leaves it with a task that is out of connect() and disconnect(), and no task
\* waits in the queue twice or outside of it.  This is the safety part of
\* CallsReturn: whoever is at the head has a step of its own to take.
THEOREM LockIsNeverLost == Spec => [](LockIsTheirs /\ NoAnswerYet)
<1>1. Init => LockInv
  BY DEF Init, LockInv, LockIsTheirs, InQueue, NoAnswerYet, Locking, Critical
<1> QED BY <1>1, StepLockInv, LifeInvariance, PTL DEF Spec, LockInv

-----------------------------------------------------------------------------
(* What disconnect() leaves.                                               *)

\* Only disconnect() returns that it is disconnected, and the task at the head
\* of the queue is the one to return it.
LEMMA WhoDisconnects ==
    ASSUME LifeInv, LockInv, [Next]_vars, lock # <<>>, returned'[Head(lock)] = "disconnected"
    PROVE  LET h == Head(lock)
           IN  h \in Tasks /\ (DisconnectNoop(h) \/ DeletedOne(h) \/ CloseSession(h))
<1> DEFINE h == Head(lock)
<1>1. h \in Tasks /\ lock[1] = h /\ 1 \in 1 .. Len(lock)
  BY DEF LifeInv, LifeTypes
<1>2. pc[h] # "idle" /\ returned[h] = "nothing"
  BY <1>1 DEF LockInv, LockIsTheirs, NoAnswerYet, Locking, Critical
<1> HIDE DEF h
<1>3. returned'[h] = "disconnected" /\ returned'[h] # returned[h]
  BY <1>2 DEF h
<1>4. ASSUME NEW t \in Tasks, AnswerStep(t) PROVE t = h /\ pc'[h] = "idle"
  BY <1>1, <1>3, <1>4 DEF AnswerStep
<1>5. ASSUME NEW w, Done(h, w) PROVE w = "disconnected"
  BY <1>1, <1>3, <1>5, DoneStep DEF LifeInv, LockInv
<1>6. ASSUME CallConnect(h) \/ CallDisconnect(h) \/ CallSubscribe(h) \/ CallUnsubscribe(h)
      PROVE  FALSE
  BY <1>2, <1>6 DEF CallConnect, CallDisconnect, CallSubscribe, CallUnsubscribe, Call
<1>7. ASSUME NEW l, Await(h, l) PROVE FALSE
  BY <1>3, <1>7 DEF Await
<1>8. ASSUME CancelTask(h) PROVE FALSE
  <2>1. Done(h, "cancelled")
    BY <1>8 DEF CancelTask, Cancelled, DropClient
  <2> QED BY <1>5, <2>1
<1>9. ASSUME Resume(h) PROVE DisconnectNoop(h) \/ DeletedOne(h) \/ CloseSession(h)
  <2>1. ~ConnectNoop(h) /\ ~ConnectSucceeds(h) /\ ~ConnectFails(h)
    BY <1>5 DEF ConnectNoop, ConnectSucceeds, ConnectFails
  <2>2. ~ConnectBegin(h) /\ ~ConnectOpened(h)
    BY <1>7 DEF ConnectBegin, ConnectOpened
  <2>3. ~DisconnectBegin(h)
    BY <1>7 DEF DisconnectBegin, NextTurn
  <2>4. ~Created(h)
    BY <1>5, <1>7 DEF Created
  <2>5. ~Subscribed(h) /\ ~SubscribeFails(h) /\ ~Unsubscribed(h)
    BY <1>5 DEF Subscribed, SubscribeFails, Unsubscribed
  <2> QED BY <1>9, <2>1, <2>2, <2>3, <2>4, <2>5 DEF Resume
<1>10. ~SessionLost /\ ~UNCHANGED vars
  BY <1>3 DEF SessionLost, vars, locals
<1>11. PICK t \in Tasks : \/ CallConnect(t) \/ CallDisconnect(t) \/ CallSubscribe(t)
                          \/ CallUnsubscribe(t) \/ Resume(t) \/ CancelTask(t)
  BY <1>10 DEF Next
<1>12. t = h
  BY <1>4, <1>11, TaskSteps DEF LockInv
<1> QED BY <1>1, <1>6, <1>8, <1>9, <1>11, <1>12 DEF h

\* As long as the dict keeps its size, a turn of the loop does not return.
LEMMA LoopGoesOn ==
    ASSUME LockInv, NEW h \in Tasks, DeletedOne(h), returned'[h] = "disconnected"
    PROVE  pc[h] = "deleteOne" /\ Cardinality(subscriptions) # size[h]
<1>1. pc[h] = "deleteOne" /\ returned[h] = "nothing"
  BY DEF DeletedOne, LockInv, NoAnswerYet
<1>2. ASSUME Cardinality(subscriptions) = size[h] PROVE FALSE
  <2>1. \E l \in {"deleteOne", "close"} : Await(h, l)
    BY <1>2 DEF DeletedOne, NextTurn
  <2> QED BY <1>1, <2>1 DEF Await
<1> QED BY <1>1, <1>2

\* A disconnect() that returns has ended the session of the client it dropped, or
\* one of two exceptions was swallowed at client.py:272: the RuntimeError of the
\* loop when the dict changed size under it, or what Client.disconnect() raised.
DisconnectEndsOrRaises ==
    [][ (lock # <<>> /\ pc[Head(lock)] # "connect" /\ returned'[Head(lock)] = "disconnected")
            => \/ client \notin open'
               \/ /\ pc[Head(lock)] = "deleteOne"
                  /\ Cardinality(subscriptions) # size[Head(lock)]
               \/ pc[Head(lock)] = "close" /\ "unclosed" \in Faults ]_vars

\* Whatever any number of tasks call, and through every fault and cancellation of
\* AllFaults, only those two exceptions let disconnect() return with its session
\* open: no deletion that raises, no waiting in the queue of the lock and no
\* connect() in between does.
THEOREM DisconnectEndsUnlessItRaised == Spec => DisconnectEndsOrRaises
<1> DEFINE D == (lock # <<>> /\ pc[Head(lock)] # "connect"
                    /\ returned'[Head(lock)] = "disconnected")
                  => \/ client \notin open'
                     \/ /\ pc[Head(lock)] = "deleteOne"
                        /\ Cardinality(subscriptions) # size[Head(lock)]
                     \/ pc[Head(lock)] = "close" /\ "unclosed" \in Faults
<1>1. LifeInv /\ LockInv /\ [Next]_vars => D
  <2> SUFFICES ASSUME LifeInv, LockInv, [Next]_vars, lock # <<>>,
                      returned'[Head(lock)] = "disconnected"
               PROVE  \/ client \notin open'
                      \/ /\ pc[Head(lock)] = "deleteOne"
                         /\ Cardinality(subscriptions) # size[Head(lock)]
                      \/ pc[Head(lock)] = "close" /\ "unclosed" \in Faults
    OBVIOUS
  <2> DEFINE h == Head(lock)
  <2>1. h \in Tasks /\ (DisconnectNoop(h) \/ DeletedOne(h) \/ CloseSession(h))
    BY WhoDisconnects
  <2> HIDE DEF h
  <2>2. CASE DisconnectNoop(h)
    <3>1. client = None /\ open' = open /\ open \subseteq 1 .. sessions
      BY <2>2 DEF DisconnectNoop, server, LifeInv, LifeTypes
    <3> QED BY <3>1 DEF None
  <2>3. CASE DeletedOne(h)
    BY <2>1, <2>3, LoopGoesOn DEF h
  <2>4. CASE CloseSession(h)
    <3>1. client \notin open' \/ (pc[h] = "close" /\ "unclosed" \in Faults)
      BY <2>4 DEF CloseSession
    <3> QED BY <3>1 DEF h
  <2> QED BY <2>1, <2>2, <2>3, <2>4
<1>2. Spec => [][D]_vars
  BY <1>1, LifeInvariance, LockIsNeverLost, PTL DEF Spec, LockInv
<1> QED BY <1>2 DEF DisconnectEndsOrRaises

\* What finding 1 refutes for several tasks holds where one task owns all but
\* connect(): when its disconnect() returns, the server has no session of the
\* client left, whatever sessions were refused or lost and however often the
\* others asked to connect in between.
THEOREM DisconnectEndsIt ==
    ASSUME NEW a \in Tasks, \A t \in Tasks \ {a} : Ops[t] \subseteq {"connect"},
           {"late", "unclosed", "cancel"} \cap Faults = {}
    PROVE  Spec => DisconnectEndsSession
<1> DEFINE D == (lock # <<>> /\ pc[Head(lock)] # "connect"
                    /\ returned'[Head(lock)] = "disconnected") => open' = {}
<1>1. Init => LeakInv(a)
  BY DEF Init, LeakInv, Alone, LoopStands, Settled, OneSession, Linking
<1>2. LifeInv /\ LeakInv(a) /\ [Next]_vars => LeakInv(a)'
  BY StepLeak
<1>3. LifeInv /\ LockInv /\ LeakInv(a) /\ [Next]_vars => D
  <2> SUFFICES ASSUME LifeInv, LockInv, LeakInv(a), [Next]_vars, lock # <<>>,
                      returned'[Head(lock)] = "disconnected"
               PROVE  open' = {}
    OBVIOUS
  <2> DEFINE h == Head(lock)
  <2>1. h \in Tasks /\ (DisconnectNoop(h) \/ DeletedOne(h) \/ CloseSession(h))
    BY WhoDisconnects
  <2> HIDE DEF h
  <2>2. open \subseteq {client} /\ open \subseteq 1 .. sessions
    BY DEF LeakInv, OneSession, LifeInv, LifeTypes
  <2>3. CASE DisconnectNoop(h)
    <3>1. client = None /\ open' = open
      BY <2>3 DEF DisconnectNoop, server
    <3> QED BY <2>2, <3>1 DEF None
  <2>4. CASE DeletedOne(h)
    <3>1. Cardinality(subscriptions) = size[h]
      BY <2>1, <2>4 DEF DeletedOne, LeakInv, LoopStands
    <3> QED BY <2>1, <2>4, <3>1, LoopGoesOn DEF h
  <2>5. CASE CloseSession(h)
    BY <2>2, <2>5 DEF CloseSession
  <2> QED BY <2>1, <2>3, <2>4, <2>5
<1>4. Spec => [][D]_vars
  BY <1>1, <1>2, <1>3, LifeInvariance, LockIsNeverLost, PTL DEF Spec, LockInv
<1> QED BY <1>4 DEF DisconnectEndsSession
=============================================================================
