-------------------------- MODULE TraceClientProofs --------------------------
(***************************************************************************)
(* Theorems about TraceClient: for every depth, chunk size and number of    *)
(* clients, what fetch() returns after stop(), what it returns when nothing *)
(* happened in between, and what it returns while the block records; that  *)
(* every behaviour of clients and block is one of the recorder as it is     *)
(* specified alone; and that every call is bounded.                        *)
(*                                                                         *)
(* The recorder's own invariant is carried along; what is added says, for   *)
(* each client, how far the call it is in has come.                         *)
(***************************************************************************)
EXTENDS TraceClient, TraceRecorderProofs

Labels    == {"idle", "writeMode", "writeDecimation", "writeStart", "writeStop",
              "pollStart", "pollStop", "status", "cycles", "column", "meta"}
CallNames == {"none", "start", "stop", "set_decimation", "status", "fetch"}
Trusts    == {"none", "started", "stopping", "stopped"}
Moments   == [run : Nat, cycle : Nat]
Statuses  == [recording : BOOLEAN, wrapped : BOOLEAN, writeIdx : 0 .. Depth,
              sampleCount : Nat]

LocalTypes ==
    /\ pc \in [Clients -> Labels] /\ call \in [Clients -> CallNames]
    /\ req \in [Clients -> [mode : {Ring, OneShot}, decimation : Nat]]
    /\ rd \in [Clients -> 0 .. 3] /\ st \in [Clients -> Statuses]
    /\ cyc \in [Clients -> Seq(Nat)] /\ sig \in [Clients -> Seq(Moments)]
    /\ expired \in [Clients -> BOOLEAN] /\ disturbed \in [Clients -> BOOLEAN]
    /\ DOMAIN answer = Clients /\ trust \in [Clients -> Trusts]

\* Which call a round trip belongs to; a call in progress has no answer yet.
InCall(c) ==
    /\ pc[c] = "writeMode" => req[c].mode \in Modes
    /\ pc[c] \in {"writeMode", "writeDecimation"} => req[c].decimation \in Decimations
    /\ pc[c] = "idle" => call[c] = "none"
    /\ pc[c] \in {"writeStop", "pollStop"} => call[c] = "stop"
    /\ pc[c] \in {"cycles", "column", "meta"} => call[c] = "fetch"
    /\ pc[c] # "idle" => answer[c] = NoAnswer

\* How much of the two arrays has been read.
ReadSoFar(c) ==
    /\ pc[c] \notin {"cycles", "column", "meta"} => cyc[c] = <<>>
    /\ pc[c] \notin {"column", "meta"} => sig[c] = <<>>
    /\ pc[c] = "cycles" => Len(cyc[c]) <= SpanRead(c)
    /\ pc[c] \in {"column", "meta"} => Len(cyc[c]) = SpanRead(c)
    /\ pc[c] = "column" => Len(sig[c]) <= SpanRead(c)
    /\ pc[c] = "meta" => Len(sig[c]) = SpanRead(c)

\* A fetch that was not disturbed has read what the block holds now.
ReadIsNow(c) ==
    call[c] = "fetch" /\ ~disturbed[c] =>
        /\ pc[c] = "status" /\ rd[c] >= 2 => st[c].wrapped = wrapped
        /\ pc[c] = "status" /\ rd[c] >= 3 => st[c].writeIdx = writeIdx
        /\ pc[c] \in {"cycles", "column", "meta"} =>
             st[c].wrapped = wrapped /\ st[c].writeIdx = writeIdx
        /\ \A i \in 1 .. Len(cyc[c]) : cyc[c][i] = sampleCycles[i - 1]
        /\ \A i \in 1 .. Len(sig[c]) : sig[c][i] = signal[i - 1]

\* A stop that stands keeps the block quiet.
Trusted(c) ==
    /\ trust[c] = "stopping" => /\ ~start /\ call[c] = "stop"
                                /\ pc[c] \in {"pollStop", "status"}
                                /\ pc[c] = "status" => ~recording
    /\ trust[c] = "stopped"  => /\ ~start /\ ~recording
                                /\ call[c] = "fetch" => ~disturbed[c]

\* A fetch after a stop that stands was exact and still is.
AnswerIsExact(c) == Fetched(c) /\ trust[c] = "stopped" => ExactRows(answer[c].rows)

ClientInv(c) == InCall(c) /\ ReadSoFar(c) /\ ReadIsNow(c) /\ Trusted(c) /\ AnswerIsExact(c)

CInv == IInv /\ LocalTypes /\ \A c \in Clients : ClientInv(c)

-----------------------------------------------------------------------------
(* What a step leaves alone.                                               *)

\* The locals of a client, what it answered and whether it was disturbed.
SameLocals(d) ==
    /\ pc'[d] = pc[d] /\ call'[d] = call[d] /\ req'[d] = req[d] /\ rd'[d] = rd[d]
    /\ st'[d] = st[d] /\ cyc'[d] = cyc[d] /\ sig'[d] = sig[d]
    /\ answer'[d] = answer[d] /\ disturbed'[d] = disturbed[d]

\* What the block holds for a reader.
SameBlock == UNCHANGED <<recording, wrapped, writeIdx, sampleCycles, signal, history>>

\* A step of another client that does not touch the samples.
LEMMA OthersKeep ==
    ASSUME NEW d \in Clients, ClientInv(d), SameLocals(d), SameBlock,
           \/ trust'[d] = trust[d] /\ (~start => ~start')
           \/ trust'[d] = "none"
    PROVE  ClientInv(d)'
<1>1. InCall(d)'
  BY DEF ClientInv, InCall, SameLocals
<1>2. ReadSoFar(d)'
  BY DEF ClientInv, ReadSoFar, SameLocals, SpanRead, Span
<1>3. ReadIsNow(d)'
  BY DEF ClientInv, ReadIsNow, SameLocals, SameBlock
<1>4. Trusted(d)'
  BY DEF ClientInv, Trusted, SameLocals, SameBlock
<1>5. AnswerIsExact(d)'
  BY DEF ClientInv, AnswerIsExact, SameLocals, SameBlock, Fetched, ExactRows
<1> QED BY <1>1, <1>2, <1>3, <1>4, <1>5 DEF ClientInv

\* A client that has just come to the end of a call.
LEMMA IdleKeeps ==
    ASSUME NEW c \in Clients,
           pc'[c] = "idle", call'[c] = "none", cyc'[c] = <<>>, sig'[c] = <<>>,
           Trusted(c)', AnswerIsExact(c)'
    PROVE  ClientInv(c)'
<1>1. InCall(c)'
  BY DEF InCall
<1>2. ReadSoFar(c)' /\ ReadIsNow(c)'
  BY DEF ReadSoFar, ReadIsNow
<1> QED BY <1>1, <1>2 DEF ClientInv

\* Return() ends the call of c and touches no other.
LEMMA ReturnLocals ==
    ASSUME LocalTypes, NEW c \in Clients, NEW a, Return(c, a), trust' \in [Clients -> Trusts]
    PROVE  /\ LocalTypes'
           /\ pc'[c] = "idle" /\ call'[c] = "none" /\ cyc'[c] = <<>> /\ sig'[c] = <<>>
           /\ answer'[c] = a
           /\ \A d \in Clients \ {c} : SameLocals(d)
<1>1. /\ pc'[c] = "idle" /\ call'[c] = "none" /\ cyc'[c] = <<>> /\ sig'[c] = <<>>
      /\ answer'[c] = a
  BY DEF Return, LocalTypes
<1>2. \A d \in Clients \ {c} : SameLocals(d)
  BY DEF Return, LocalTypes, SameLocals
<1>3. NoRequest \in [mode : {Ring, OneShot}, decimation : Nat] /\ NoStatus \in Statuses
  BY TraceAssumption DEF NoRequest, NoStatus, Statuses
<1>4. /\ <<>> \in Seq(Nat) /\ <<>> \in Seq(Moments) /\ "idle" \in Labels /\ "none" \in CallNames
  BY DEF Labels, CallNames
<1>5. /\ pc' \in [Clients -> Labels] /\ call' \in [Clients -> CallNames]
      /\ rd' \in [Clients -> 0 .. 3] /\ expired' \in [Clients -> BOOLEAN]
  BY <1>4 DEF Return, LocalTypes
<1>6. /\ req' \in [Clients -> [mode : {Ring, OneShot}, decimation : Nat]]
      /\ st' \in [Clients -> Statuses]
  BY <1>3 DEF Return, LocalTypes
<1>7. cyc' \in [Clients -> Seq(Nat)] /\ sig' \in [Clients -> Seq(Moments)]
  BY <1>4 DEF Return, LocalTypes
<1>8. disturbed' \in [Clients -> BOOLEAN] /\ DOMAIN answer' = Clients
  BY DEF Return, LocalTypes
<1> QED BY <1>1, <1>2, <1>5, <1>6, <1>7, <1>8 DEF LocalTypes

\* Goto() leads c to its next round trip and touches no other.
LEMMA GotoLocals ==
    ASSUME LocalTypes, NEW c \in Clients, NEW l \in Labels, Goto(c, l)
    PROVE  /\ pc' \in [Clients -> Labels] /\ pc'[c] = l
           /\ rd' \in [Clients -> 0 .. 3] /\ rd'[c] = 0
           /\ \A d \in Clients \ {c} : pc'[d] = pc[d] /\ rd'[d] = rd[d]
           /\ UNCHANGED <<call, req, expired, answer, disturbed>>
  BY DEF Goto, LocalTypes

-----------------------------------------------------------------------------
(* The recorder under a client.                                            *)

\* The writes of a client are among those the recorder's environment may make.
LEMMA WritesKeepIInv ==
    ASSUME IInv, WroteControl,
           \/ \E b \in BOOLEAN : WriteStart(b)
           \/ \E m \in Modes : WriteMode(m)
           \/ \E k \in Decimations : WriteDecimation(k)
    PROVE  IInv'
<1>1. ClientWrite
  BY DEF ClientWrite, WroteControl
<1> QED BY <1>1, ClientWriteInv

\* A round trip that only reads leaves the block as it is.
LEMMA ReadsKeepIInv ==
    ASSUME IInv, BlockUnchanged
    PROVE  IInv' /\ SameBlock /\ start' = start
<1>1. UNCHANGED rvars
  BY DEF BlockUnchanged
<1>2. IInv'
  BY <1>1, NextIInv
<1>3. SameBlock /\ start' = start
  BY <1>1 DEF rvars, control, status, buffers, ghosts, SameBlock
<1> QED BY <1>2, <1>3

\* The control tags are not among what a fetch() reads.
LEMMA WritesKeepBlock ==
    ASSUME WroteControl PROVE SameBlock
  BY DEF WroteControl, status, buffers, ghosts, SameBlock

-----------------------------------------------------------------------------
(* Calls begin.                                                            *)

\* A call begins: no answer, nothing read, nothing disturbed yet.
LEMMA BeginKeeps ==
    ASSUME CInv, NEW c \in Clients, NEW n \in CallNames, NEW l \in Labels,
           NEW r \in [mode : {Ring, OneShot}, decimation : Nat], Begin(c, n, l, r),
           l = "writeMode" => n = "start" /\ r.mode \in Modes /\ r.decimation \in Decimations,
           l = "writeDecimation" => r.decimation \in Decimations,
           l = "writeStop" => n = "stop",
           l \in {"writeMode", "writeDecimation", "writeStop", "status"}
    PROVE  CInv'
<1>1. IInv' /\ SameBlock /\ start' = start
  BY ReadsKeepIInv DEF Begin, BlockUnchanged, CInv
<1>2. /\ pc'[c] = l /\ call'[c] = n /\ req'[c] = r /\ rd'[c] = 0 /\ answer'[c] = NoAnswer
      /\ disturbed'[c] = FALSE /\ st' = st /\ cyc' = cyc /\ sig' = sig /\ trust' = trust
  BY DEF CInv, LocalTypes, Begin
<1>3. \A d \in Clients \ {c} : SameLocals(d)
  BY DEF CInv, LocalTypes, Begin, SameLocals
<1>4. LocalTypes'
  BY DEF CInv, LocalTypes, Begin
<1>5. pc[c] = "idle" /\ cyc[c] = <<>> /\ sig[c] = <<>>
  BY DEF CInv, ClientInv, ReadSoFar, Begin
<1>6. InCall(c)' /\ ReadSoFar(c)'
  BY <1>2, <1>5 DEF InCall, ReadSoFar
<1>7. ReadIsNow(c)'
  <2>1. Len(cyc'[c]) = 0 /\ Len(sig'[c]) = 0
    BY <1>2, <1>5
  <2> QED BY <1>2, <2>1 DEF ReadIsNow
<1>8. Trusted(c)'
  <2>1. trust[c] # "stopping"
    BY <1>5 DEF CInv, ClientInv, Trusted
  <2> QED BY <1>1, <1>2, <2>1 DEF CInv, ClientInv, Trusted, SameBlock
<1>9. AnswerIsExact(c)'
  BY <1>2 DEF AnswerIsExact, Fetched, NoAnswer
<1>10. ClientInv(c)'
  BY <1>6, <1>7, <1>8, <1>9 DEF ClientInv
<1>11. \A d \in Clients \ {c} : ClientInv(d)'
  BY <1>1, <1>2, <1>3, OthersKeep DEF CInv
<1> QED BY <1>1, <1>4, <1>10, <1>11 DEF CInv

\* The five calls a client makes.
LEMMA NewCallKeeps == ASSUME CInv, NEW c \in Clients, NewCall(c) PROVE CInv'
<1>1. NoRequest \in [mode : {Ring, OneShot}, decimation : Nat]
  BY DEF NoRequest
<1>2. CASE CallStart(c)
  <2>1. PICK m \in Modes, k \in Decimations :
            Begin(c, "start", "writeMode", [mode |-> m, decimation |-> k])
    BY <1>2 DEF CallStart
  <2>2. [mode |-> m, decimation |-> k] \in [mode : {Ring, OneShot}, decimation : Nat]
    BY TraceAssumption
  <2> QED BY <2>1, <2>2, BeginKeeps DEF CallNames, Labels
<1>3. CASE CallStop(c)
  BY <1>1, <1>3, BeginKeeps DEF CallStop, CallNames, Labels
<1>4. CASE CallSetDecimation(c)
  <2>1. PICK k \in Decimations :
            Begin(c, "set_decimation", "writeDecimation", [mode |-> Ring, decimation |-> k])
    BY <1>4 DEF CallSetDecimation
  <2>2. [mode |-> Ring, decimation |-> k] \in [mode : {Ring, OneShot}, decimation : Nat]
    BY TraceAssumption
  <2> QED BY <2>1, <2>2, BeginKeeps DEF CallNames, Labels
<1>5. CASE CallStatus(c)
  BY <1>1, <1>5, BeginKeeps DEF CallStatus, CallNames, Labels
<1>6. CASE CallFetch(c)
  BY <1>1, <1>6, BeginKeeps DEF CallFetch, CallNames, Labels
<1> QED BY <1>2, <1>3, <1>4, <1>5, <1>6 DEF NewCall

-----------------------------------------------------------------------------
(* The writes.                                                             *)

\* control.mode is written.
LEMMA DoWriteModeKeeps == ASSUME CInv, NEW c \in Clients, DoWriteMode(c) PROVE CInv'
<1>1. WriteMode(req[c].mode) /\ WroteControl /\ Goto(c, "writeDecimation")
      /\ pc[c] = "writeMode" /\ UNCHANGED <<st, cyc, sig, trust>>
  BY DEF DoWriteMode
<1>2. req[c].mode \in Modes /\ req[c].decimation \in Decimations
  BY <1>1 DEF CInv, ClientInv, InCall
<1>3. IInv' /\ SameBlock /\ start' = start
  BY <1>1, <1>2, WritesKeepIInv, WritesKeepBlock DEF CInv, WriteMode
<1>4. /\ pc' \in [Clients -> Labels] /\ pc'[c] = "writeDecimation"
      /\ rd' \in [Clients -> 0 .. 3] /\ UNCHANGED <<call, req, expired, answer, disturbed>>
      /\ \A d \in Clients \ {c} : pc'[d] = pc[d] /\ rd'[d] = rd[d]
  BY <1>1, GotoLocals DEF CInv, Labels
<1>5. LocalTypes'
  BY <1>1, <1>4 DEF CInv, LocalTypes
<1>6. \A d \in Clients \ {c} : ClientInv(d)'
  BY <1>1, <1>3, <1>4, OthersKeep DEF CInv, SameLocals
<1>7. ClientInv(c)'
  <2>1. InCall(c)' /\ ReadSoFar(c)'
    BY <1>1, <1>2, <1>4 DEF CInv, ClientInv, InCall, ReadSoFar
  <2>2. ReadIsNow(c)'
    BY <1>1, <1>3, <1>4 DEF CInv, ClientInv, ReadIsNow, SameBlock
  <2>3. Trusted(c)'
    BY <1>1, <1>3, <1>4 DEF CInv, ClientInv, Trusted, SameBlock
  <2>4. AnswerIsExact(c)'
    BY <1>1, <1>4 DEF CInv, ClientInv, InCall, AnswerIsExact, Fetched, NoAnswer
  <2> QED BY <2>1, <2>2, <2>3, <2>4 DEF ClientInv
<1> QED BY <1>3, <1>5, <1>6, <1>7 DEF CInv

\* control.decimation is written: start() goes on, set_decimation() returns.
LEMMA DoWriteDecimationKeeps ==
    ASSUME CInv, NEW c \in Clients, DoWriteDecimation(c) PROVE CInv'
<1>1. WriteDecimation(req[c].decimation) /\ WroteControl /\ trust' = trust
      /\ pc[c] = "writeDecimation"
  BY DEF DoWriteDecimation
<1>2. req[c].decimation \in Decimations
  BY <1>1 DEF CInv, ClientInv, InCall
<1>3. IInv' /\ SameBlock /\ start' = start
  BY <1>1, <1>2, WritesKeepIInv, WritesKeepBlock DEF CInv, WriteDecimation
<1>4. CASE Goto(c, "writeStart") /\ UNCHANGED <<st, cyc, sig>>
  <2>1. /\ pc' \in [Clients -> Labels] /\ pc'[c] = "writeStart"
        /\ rd' \in [Clients -> 0 .. 3] /\ UNCHANGED <<call, req, expired, answer, disturbed>>
        /\ \A d \in Clients \ {c} : pc'[d] = pc[d] /\ rd'[d] = rd[d]
    BY <1>4, GotoLocals DEF CInv, Labels
  <2>2. LocalTypes'
    BY <1>1, <1>4, <2>1 DEF CInv, LocalTypes
  <2>3. \A d \in Clients \ {c} : ClientInv(d)'
    BY <1>1, <1>3, <1>4, <2>1, OthersKeep DEF CInv, SameLocals
  <2>4. ClientInv(c)'
    <3>1. InCall(c)' /\ ReadSoFar(c)'
      BY <1>1, <1>4, <2>1 DEF CInv, ClientInv, InCall, ReadSoFar
    <3>2. ReadIsNow(c)'
      BY <1>1, <1>3, <1>4, <2>1 DEF CInv, ClientInv, ReadIsNow, SameBlock
    <3>3. Trusted(c)'
      BY <1>1, <1>3, <2>1 DEF CInv, ClientInv, Trusted, SameBlock
    <3>4. AnswerIsExact(c)'
      BY <1>1, <2>1 DEF CInv, ClientInv, InCall, AnswerIsExact, Fetched, NoAnswer
    <3> QED BY <3>1, <3>2, <3>3, <3>4 DEF ClientInv
  <2> QED BY <1>3, <2>2, <2>3, <2>4 DEF CInv
<1>5. CASE Return(c, Answer("done"))
  <2>1. /\ LocalTypes' /\ pc'[c] = "idle" /\ call'[c] = "none" /\ cyc'[c] = <<>> /\ sig'[c] = <<>>
        /\ answer'[c] = Answer("done") /\ \A d \in Clients \ {c} : SameLocals(d)
    BY <1>1, <1>5, ReturnLocals DEF CInv, LocalTypes
  <2>2. \A d \in Clients \ {c} : ClientInv(d)'
    BY <1>1, <1>3, <2>1, OthersKeep DEF CInv
  <2>3. Trusted(c)'
    BY <1>1, <1>3, <2>1 DEF CInv, ClientInv, Trusted, SameBlock
  <2>4. AnswerIsExact(c)'
    BY <2>1 DEF AnswerIsExact, Fetched, Answer
  <2> QED BY <1>3, <2>1, <2>2, <2>3, <2>4, IdleKeeps DEF CInv
<1> QED BY <1>4, <1>5 DEF DoWriteDecimation

\* control.start is written: TRUE voids every stop, FALSE begins one.
LEMMA DoWriteStartKeeps == ASSUME CInv, NEW c \in Clients, DoWriteStart(c) PROVE CInv'
<1>1. /\ WroteControl /\ UNCHANGED <<st, cyc, sig>>
      /\ trust' = [d \in Clients |->
                     IF pc[c] = "writeStop" THEN IF d = c THEN "stopping" ELSE trust[d]
                     ELSE "none"]
      /\ \/ pc[c] = "writeStart" /\ WriteStart(TRUE) /\ Goto(c, "pollStart")
         \/ pc[c] = "writeStop" /\ WriteStart(FALSE) /\ Goto(c, "pollStop")
  BY DEF DoWriteStart
<1>2. IInv' /\ SameBlock
  BY <1>1, WritesKeepIInv, WritesKeepBlock DEF CInv
<1>3. /\ pc' \in [Clients -> Labels] /\ pc'[c] \in {"pollStart", "pollStop"}
      /\ pc[c] = "writeStop" <=> pc'[c] = "pollStop"
      /\ rd' \in [Clients -> 0 .. 3] /\ UNCHANGED <<call, req, expired, answer, disturbed>>
      /\ \A d \in Clients \ {c} : pc'[d] = pc[d] /\ rd'[d] = rd[d]
  <2>1. CASE pc[c] = "writeStart" /\ Goto(c, "pollStart")
    BY <2>1, GotoLocals DEF CInv, Labels
  <2>2. CASE pc[c] = "writeStop" /\ Goto(c, "pollStop")
    BY <2>2, GotoLocals DEF CInv, Labels
  <2> QED BY <1>1, <2>1, <2>2
<1>4. trust' \in [Clients -> Trusts]
  BY <1>1 DEF CInv, LocalTypes, Trusts
<1>5. LocalTypes'
  BY <1>1, <1>3, <1>4 DEF CInv, LocalTypes
<1>6. pc[c] = "writeStop" => start' = FALSE /\ call[c] = "stop"
  BY <1>1 DEF WriteStart, CInv, ClientInv, InCall
<1>7. \A d \in Clients \ {c} : ClientInv(d)'
  <2> SUFFICES ASSUME NEW d \in Clients \ {c} PROVE ClientInv(d)'
    OBVIOUS
  <2>1. SameLocals(d)
    BY <1>1, <1>3 DEF SameLocals
  <2>2. \/ trust'[d] = trust[d] /\ (~start => ~start')
        \/ trust'[d] = "none"
    BY <1>1, <1>6
  <2> QED BY <1>2, <2>1, <2>2, OthersKeep DEF CInv
<1>8. ClientInv(c)'
  <2>1. InCall(c)' /\ ReadSoFar(c)'
    BY <1>1, <1>3, <1>6 DEF CInv, ClientInv, InCall, ReadSoFar
  <2>2. ReadIsNow(c)'
    BY <1>1, <1>2, <1>3 DEF CInv, ClientInv, ReadIsNow, SameBlock
  <2>3. Trusted(c)'
    BY <1>1, <1>3, <1>6 DEF Trusted
  <2>4. AnswerIsExact(c)'
    BY <1>1, <1>3 DEF CInv, ClientInv, InCall, AnswerIsExact, Fetched, NoAnswer
  <2> QED BY <2>1, <2>2, <2>3, <2>4 DEF ClientInv
<1> QED BY <1>2, <1>5, <1>7, <1>8 DEF CInv

-----------------------------------------------------------------------------
(* The polls.                                                              *)

\* The deadline of _wait_for() passes.
LEMMA DeadlinePassesKeeps ==
    ASSUME CInv, NEW c \in Clients, DeadlinePasses(c) PROVE CInv'
<1>1. IInv' /\ SameBlock /\ start' = start
  BY ReadsKeepIInv DEF DeadlinePasses, BlockUnchanged, CInv
<1>2. LocalTypes'
  BY DEF CInv, LocalTypes, DeadlinePasses
<1>3. \A d \in Clients : ClientInv(d)'
  BY <1>1, OthersKeep DEF CInv, DeadlinePasses, SameLocals
<1> QED BY <1>1, <1>2, <1>3 DEF CInv

\* A call ends with another answer than "fetched".
LEMMA EndKeeps ==
    ASSUME CInv, NEW c \in Clients, NEW a, a.kind # "fetched", Return(c, a), BlockUnchanged,
           trust' \in [Clients -> Trusts], \A d \in Clients \ {c} : trust'[d] = trust[d],
           \/ trust'[c] \in {"none", "started"}
           \/ trust'[c] = trust[c] /\ trust[c] # "stopping"
           \/ trust'[c] = "stopped" /\ ~start /\ ~recording
    PROVE  CInv'
<1>1. IInv' /\ SameBlock /\ start' = start
  BY ReadsKeepIInv DEF CInv
<1>2. /\ LocalTypes' /\ pc'[c] = "idle" /\ call'[c] = "none" /\ cyc'[c] = <<>> /\ sig'[c] = <<>>
      /\ answer'[c] = a /\ \A d \in Clients \ {c} : SameLocals(d)
  BY ReturnLocals DEF CInv
<1>3. \A d \in Clients \ {c} : ClientInv(d)'
  BY <1>1, <1>2, OthersKeep DEF CInv
<1>4. Trusted(c)'
  BY <1>1, <1>2 DEF CInv, ClientInv, Trusted, SameBlock
<1>5. AnswerIsExact(c)'
  BY <1>2 DEF AnswerIsExact, Fetched
<1> QED BY <1>1, <1>2, <1>3, <1>4, <1>5, IdleKeeps DEF CInv

\* _wait_for() raises: a stop under way is not confirmed.
LEMMA PollTimesOutKeeps ==
    ASSUME CInv, NEW c \in Clients, PollTimesOut(c) PROVE CInv'
<1>1. /\ Return(c, Answer("timeout")) /\ BlockUnchanged
      /\ trust' = [trust EXCEPT ![c] = IF trust[c] = "stopping" THEN "none" ELSE trust[c]]
  BY DEF PollTimesOut
<1>2. trust' \in [Clients -> Trusts] /\ \A d \in Clients \ {c} : trust'[d] = trust[d]
  BY <1>1 DEF CInv, LocalTypes, Trusts
<1>3. trust'[c] = "none" \/ (trust'[c] = trust[c] /\ trust[c] # "stopping")
  BY <1>1 DEF CInv, LocalTypes
<1>4. Answer("timeout").kind # "fetched"
  BY DEF Answer
<1> QED BY <1>1, <1>2, <1>3, <1>4, EndKeeps

\* A round trip raises: a stop under way is not confirmed.
LEMMA RoundTripFailsKeeps ==
    ASSUME CInv, NEW c \in Clients, RoundTripFails(c) PROVE CInv'
<1>1. /\ Return(c, Answer("error")) /\ BlockUnchanged
      /\ trust' = [trust EXCEPT ![c] = IF trust[c] = "stopping" THEN "none" ELSE trust[c]]
  BY DEF RoundTripFails
<1>2. trust' \in [Clients -> Trusts] /\ \A d \in Clients \ {c} : trust'[d] = trust[d]
  BY <1>1 DEF CInv, LocalTypes, Trusts
<1>3. trust'[c] = "none" \/ (trust'[c] = trust[c] /\ trust[c] # "stopping")
  BY <1>1 DEF CInv, LocalTypes
<1>4. Answer("error").kind # "fetched"
  BY DEF Answer
<1> QED BY <1>1, <1>2, <1>3, <1>4, EndKeeps

\* stop() has seen the block stop; start() has seen it record.
LEMMA PollMatchesKeeps ==
    ASSUME CInv, NEW c \in Clients, PollMatches(c) PROVE CInv'
<1>1. CASE pc[c] = "pollStart"
  <2>1. /\ Return(c, Answer("started")) /\ BlockUnchanged
        /\ trust' = [trust EXCEPT ![c] = "started"]
    BY <1>1 DEF PollMatches
  <2>2. /\ trust' \in [Clients -> Trusts] /\ trust'[c] = "started"
        /\ \A d \in Clients \ {c} : trust'[d] = trust[d]
    BY <2>1 DEF CInv, LocalTypes, Trusts
  <2>3. Answer("started").kind # "fetched"
    BY DEF Answer
  <2> QED BY <2>1, <2>2, <2>3, EndKeeps
<1>2. CASE pc[c] = "pollStop"
  <2>1. /\ recording = FALSE /\ BlockUnchanged /\ pc' = [pc EXCEPT ![c] = "status"]
        /\ expired' = [expired EXCEPT ![c] = FALSE]
        /\ UNCHANGED <<call, req, rd, st, cyc, sig, answer, trust, disturbed>>
    BY <1>2 DEF PollMatches, Expected
  <2>2. IInv' /\ SameBlock /\ start' = start
    BY <2>1, ReadsKeepIInv DEF CInv
  <2>3. LocalTypes' /\ pc'[c] = "status" /\ \A d \in Clients \ {c} : SameLocals(d)
    BY <2>1 DEF CInv, LocalTypes, Labels, SameLocals
  <2>4. \A d \in Clients \ {c} : ClientInv(d)'
    BY <2>1, <2>2, <2>3, OthersKeep DEF CInv
  <2>5. call[c] = "stop" /\ answer[c] = NoAnswer
    BY <1>2 DEF CInv, ClientInv, InCall
  <2>6. InCall(c)' /\ ReadSoFar(c)'
    BY <1>2, <2>1, <2>3, <2>5 DEF CInv, ClientInv, InCall, ReadSoFar
  <2>7. ReadIsNow(c)'
    BY <2>1, <2>5 DEF ReadIsNow
  <2>8. Trusted(c)'
    BY <1>2, <2>1, <2>2, <2>3, <2>5 DEF CInv, ClientInv, Trusted, SameBlock
  <2>9. AnswerIsExact(c)'
    BY <2>1, <2>5 DEF AnswerIsExact, Fetched, NoAnswer
  <2> QED BY <2>2, <2>3, <2>4, <2>6, <2>7, <2>8, <2>9 DEF CInv, ClientInv
<1> QED BY <1>1, <1>2 DEF PollMatches, Waiting

-----------------------------------------------------------------------------
(* status(), field by field.                                               *)

\* The status with one more field read.
NextStatus(c) ==
    [st[c] EXCEPT ![StatusFields[rd[c] + 1]] = StatusNow[StatusFields[rd[c] + 1]]]

\* Which fields the next round trip of status() brings up to date.
LEMMA FieldRead ==
    ASSUME IInv, LocalTypes, NEW c \in Clients
    PROVE  /\ NextStatus(c) \in Statuses
           /\ rd[c] = 1 => NextStatus(c).wrapped = wrapped
           /\ rd[c] # 1 => NextStatus(c).wrapped = st[c].wrapped
           /\ rd[c] = 2 => NextStatus(c).writeIdx = writeIdx
           /\ rd[c] # 2 => NextStatus(c).writeIdx = st[c].writeIdx
<1>1. st[c] \in Statuses /\ rd[c] \in 0 .. 3
  BY DEF LocalTypes
<1>2. /\ recording \in BOOLEAN /\ wrapped \in BOOLEAN /\ writeIdx \in 0 .. Depth
      /\ sampleCount \in Nat
  BY DEF IInv, TypeOK
<1>3. CASE rd[c] = 0
  <2>1. NextStatus(c) = [st[c] EXCEPT !["recording"] = recording]
    BY <1>3 DEF NextStatus, StatusFields, StatusNow
  <2> QED BY <1>1, <1>2, <1>3, <2>1 DEF Statuses
<1>4. CASE rd[c] = 1
  <2>1. NextStatus(c) = [st[c] EXCEPT !["wrapped"] = wrapped]
    BY <1>4 DEF NextStatus, StatusFields, StatusNow
  <2> QED BY <1>1, <1>2, <1>4, <2>1 DEF Statuses
<1>5. CASE rd[c] = 2
  <2>1. NextStatus(c) = [st[c] EXCEPT !["writeIdx"] = writeIdx]
    BY <1>5 DEF NextStatus, StatusFields, StatusNow
  <2> QED BY <1>1, <1>2, <1>5, <2>1 DEF Statuses
<1>6. CASE rd[c] = 3
  <2>1. NextStatus(c) = [st[c] EXCEPT !["sampleCount"] = sampleCount]
    BY <1>6 DEF NextStatus, StatusFields, StatusNow
  <2> QED BY <1>1, <1>2, <1>6, <2>1 DEF Statuses
<1> QED BY <1>1, <1>3, <1>4, <1>5, <1>6

\* status() on its own, as the end of stop() and as the beginning of fetch().
LEMMA ReadStatusKeeps == ASSUME CInv, NEW c \in Clients, ReadStatus(c) PROVE CInv'
<1>1. pc[c] = "status" /\ BlockUnchanged /\ Len(StatusFields) = 4 /\ rd[c] \in 0 .. 3
  BY DEF ReadStatus, StatusFields, CInv, LocalTypes
<1>2. IInv' /\ SameBlock /\ start' = start
  BY <1>1, ReadsKeepIInv DEF CInv
<1>3. ClientInv(c) /\ LocalTypes /\ IInv
  BY DEF CInv
<1>4. cyc[c] = <<>> /\ sig[c] = <<>> /\ answer[c] = NoAnswer
  BY <1>1, <1>3 DEF ClientInv, ReadSoFar, InCall
<1>5. CASE /\ rd[c] # 3 /\ st' = [st EXCEPT ![c] = NextStatus(c)]
           /\ rd' = [rd EXCEPT ![c] = rd[c] + 1]
           /\ UNCHANGED <<pc, call, req, cyc, sig, expired, answer, trust, disturbed>>
  <2>1. /\ st'[c] = NextStatus(c) /\ rd'[c] = rd[c] + 1 /\ rd' \in [Clients -> 0 .. 3]
        /\ st' \in [Clients -> Statuses]
        /\ \A d \in Clients \ {c} : st'[d] = st[d] /\ rd'[d] = rd[d]
    BY <1>1, <1>3, <1>5, FieldRead DEF LocalTypes
  <2>2. LocalTypes'
    BY <1>3, <1>5, <2>1 DEF LocalTypes
  <2>3. \A d \in Clients \ {c} : ClientInv(d)'
    BY <1>2, <1>5, <2>1, OthersKeep DEF CInv, SameLocals
  <2>4. InCall(c)' /\ ReadSoFar(c)'
    BY <1>1, <1>3, <1>5 DEF ClientInv, InCall, ReadSoFar
  <2>5. ReadIsNow(c)'
    <3>1. Len(cyc'[c]) = 0 /\ Len(sig'[c]) = 0
      BY <1>4, <1>5
    <3>2. SUFFICES ASSUME call[c] = "fetch", ~disturbed[c]
                   PROVE  /\ rd'[c] >= 2 => st'[c].wrapped = wrapped
                          /\ rd'[c] >= 3 => st'[c].writeIdx = writeIdx
      BY <1>1, <1>2, <1>5, <3>1 DEF ReadIsNow, SameBlock
    <3>3. /\ rd[c] >= 2 => st[c].wrapped = wrapped
          /\ rd[c] >= 3 => st[c].writeIdx = writeIdx
      BY <1>1, <1>3, <3>2 DEF ClientInv, ReadIsNow
    <3>4. CASE rd[c] = 0
      BY <2>1, <3>4
    <3>5. CASE rd[c] = 1
      BY <1>3, <2>1, <3>5, FieldRead
    <3>6. CASE rd[c] = 2
      BY <1>3, <2>1, <3>3, <3>6, FieldRead
    <3> QED BY <1>1, <1>5, <3>4, <3>5, <3>6
  <2>6. Trusted(c)'
    BY <1>2, <1>3, <1>5 DEF ClientInv, Trusted, SameBlock
  <2>7. AnswerIsExact(c)'
    BY <1>4, <1>5 DEF AnswerIsExact, Fetched, NoAnswer
  <2> QED BY <1>2, <2>2, <2>3, <2>4, <2>5, <2>6, <2>7 DEF CInv, ClientInv
<1>6. CASE call[c] = "status" /\ Return(c, Answer("done")) /\ trust' = trust
  <2>1. trust[c] # "stopping"
    BY <1>3, <1>6 DEF ClientInv, Trusted
  <2>2. Answer("done").kind # "fetched"
    BY DEF Answer
  <2> QED BY <1>1, <1>6, <2>1, <2>2, EndKeeps DEF CInv, LocalTypes
<1>7. CASE /\ call[c] = "stop" /\ Return(c, Answer("stopped"))
           /\ trust' = [trust EXCEPT ![c] = IF trust[c] = "stopping" THEN "stopped" ELSE trust[c]]
  <2>1. trust' \in [Clients -> Trusts] /\ \A d \in Clients \ {c} : trust'[d] = trust[d]
    BY <1>3, <1>7 DEF LocalTypes, Trusts
  <2>2. \/ trust'[c] = trust[c] /\ trust[c] # "stopping"
        \/ trust'[c] = "stopped" /\ ~start /\ ~recording
    BY <1>1, <1>3, <1>7 DEF LocalTypes, ClientInv, Trusted
  <2>3. Answer("stopped").kind # "fetched"
    BY DEF Answer
  <2> QED BY <1>1, <1>7, <2>1, <2>2, <2>3, EndKeeps
<1>8. CASE call[c] = "fetch" /\ Return(c, Answer("empty")) /\ trust' = trust
  <2>1. trust[c] # "stopping"
    BY <1>3, <1>8 DEF ClientInv, Trusted
  <2>2. Answer("empty").kind # "fetched"
    BY DEF Answer
  <2> QED BY <1>1, <1>8, <2>1, <2>2, EndKeeps DEF CInv, LocalTypes
<1>9. CASE /\ rd[c] = 3 /\ call[c] = "fetch" /\ st' = [st EXCEPT ![c] = NextStatus(c)]
           /\ Goto(c, "cycles") /\ UNCHANGED <<cyc, sig, trust>>
  <2>1. /\ pc' \in [Clients -> Labels] /\ pc'[c] = "cycles" /\ rd' \in [Clients -> 0 .. 3]
        /\ UNCHANGED <<call, req, expired, answer, disturbed>>
        /\ \A d \in Clients \ {c} : pc'[d] = pc[d] /\ rd'[d] = rd[d]
    BY <1>3, <1>9, GotoLocals DEF Labels
  <2>2. /\ st'[c] = NextStatus(c) /\ st' \in [Clients -> Statuses]
        /\ \A d \in Clients \ {c} : st'[d] = st[d]
    BY <1>3, <1>9, FieldRead DEF LocalTypes
  <2>3. LocalTypes'
    BY <1>3, <1>9, <2>1, <2>2 DEF LocalTypes
  <2>4. \A d \in Clients \ {c} : ClientInv(d)'
    BY <1>2, <1>9, <2>1, <2>2, OthersKeep DEF CInv, SameLocals
  <2>5. Len(cyc'[c]) = 0 /\ Len(sig'[c]) = 0 /\ cyc'[c] = <<>> /\ sig'[c] = <<>>
    BY <1>4, <1>9
  <2>6. 0 <= SpanRead(c)'
    BY <2>2, FieldRead, <1>3, TraceAssumption DEF SpanRead, Span, Statuses
  <2>7. InCall(c)' /\ ReadSoFar(c)'
    BY <1>4, <1>9, <2>1, <2>5, <2>6 DEF InCall, ReadSoFar
  <2>8. ReadIsNow(c)'
    <3>1. SUFFICES ASSUME ~disturbed[c]
                   PROVE  st'[c].wrapped = wrapped /\ st'[c].writeIdx = writeIdx
      BY <1>2, <2>1, <2>5 DEF ReadIsNow, SameBlock
    <3>2. st[c].wrapped = wrapped /\ st[c].writeIdx = writeIdx
      BY <1>1, <1>3, <1>9, <3>1 DEF ClientInv, ReadIsNow
    <3> QED BY <1>3, <1>9, <2>2, <3>2, FieldRead
  <2>9. Trusted(c)'
    BY <1>2, <1>3, <1>9, <2>1 DEF ClientInv, Trusted, SameBlock
  <2>10. AnswerIsExact(c)'
    BY <1>4, <2>1 DEF AnswerIsExact, Fetched, NoAnswer
  <2> QED BY <1>2, <2>3, <2>4, <2>7, <2>8, <2>9, <2>10 DEF CInv, ClientInv
<1> QED BY <1>1, <1>5, <1>6, <1>7, <1>8, <1>9 DEF ReadStatus, NextStatus

-----------------------------------------------------------------------------
(* The two arrays, chunk by chunk.                                         *)

\* A fetch() asks for no more cells than there are.
LEMMA SpanRange == ASSUME LocalTypes, NEW c \in Clients PROVE SpanRead(c) \in 0 .. Depth
  BY TraceAssumption DEF LocalTypes, Statuses, SpanRead, Span

\* `more' continues what has been read of an array, up to the count.
Continues(S, array, q, count, more) ==
    /\ more \in Seq(S) /\ Len(more) \in Nat /\ Len(more) <= count
    /\ \A i \in 1 .. Len(more) : more[i] = IF i <= Len(q) THEN q[i] ELSE array[i - 1]

\* Each chunk meets the one before it and stays within the count.
LEMMA ChunkRead ==
    ASSUME NEW S, NEW array \in [Cells -> S], NEW q \in Seq(S),
           NEW count \in 0 .. Depth, Len(q) <= count
    PROVE  Continues(S, array, q, count, q \o ChunkOf(array, Len(q), count))
<1> DEFINE hi == IF Len(q) + FetchChunk < count THEN Len(q) + FetchChunk ELSE count
           k == hi - Len(q)
           chunk == [i \in 1 .. k |-> array[Len(q) + i - 1]]
<1>1. Depth \in Nat /\ FetchChunk \in Nat /\ Len(q) \in Nat /\ count \in Nat
  BY TraceAssumption, ClientAssumption
<1>2. hi \in Nat /\ Len(q) <= hi /\ hi <= count /\ k \in Nat /\ Len(q) + k = hi
  BY <1>1
<1>3. ChunkOf(array, Len(q), count) = chunk
  BY DEF ChunkOf
<1> HIDE DEF hi, k
<1>4. \A i \in 1 .. k : array[Len(q) + i - 1] \in S
  BY <1>1, <1>2 DEF Cells
<1>5. chunk \in Seq(S) /\ Len(chunk) = k
  BY <1>2, <1>4
<1>6. /\ q \o chunk \in Seq(S) /\ Len(q \o chunk) = hi
      /\ \A i \in 1 .. hi : (q \o chunk)[i] = IF i <= Len(q) THEN q[i] ELSE chunk[i - Len(q)]
  BY <1>1, <1>2, <1>5
<1>7. \A i \in 1 .. hi : ~(i <= Len(q)) => chunk[i - Len(q)] = array[i - 1]
  <2> SUFFICES ASSUME NEW i \in 1 .. hi, ~(i <= Len(q)) PROVE chunk[i - Len(q)] = array[i - 1]
    OBVIOUS
  <2>1. i - Len(q) \in 1 .. k /\ Len(q) + (i - Len(q)) - 1 = i - 1
    BY <1>1, <1>2
  <2>2. chunk[i - Len(q)] = array[Len(q) + (i - Len(q)) - 1]
    BY <2>1
  <2> QED BY <2>1, <2>2
<1> HIDE DEF chunk
<1> QED BY <1>2, <1>3, <1>6, <1>7 DEF Continues

\* A chunk of sampleCycles.
LEMMA ReadCyclesKeeps == ASSUME CInv, NEW c \in Clients, ReadCycles(c) PROVE CInv'
<1> DEFINE more == cyc[c] \o ChunkOf(sampleCycles, Len(cyc[c]), SpanRead(c))
           l == IF Len(more) < SpanRead(c) THEN "cycles" ELSE "column"
<1>1. /\ pc[c] = "cycles" /\ BlockUnchanged /\ cyc' = [cyc EXCEPT ![c] = more]
      /\ Goto(c, l) /\ UNCHANGED <<st, sig, trust>>
  BY DEF ReadCycles
<1>2. IInv' /\ SameBlock /\ start' = start
  BY <1>1, ReadsKeepIInv DEF CInv
<1>3. ClientInv(c) /\ LocalTypes /\ IInv
  BY DEF CInv
<1>4. /\ sig[c] = <<>> /\ answer[c] = NoAnswer /\ call[c] = "fetch"
      /\ Len(cyc[c]) <= SpanRead(c) /\ SpanRead(c) \in 0 .. Depth /\ cyc[c] \in Seq(Nat)
      /\ sampleCycles \in [Cells -> Nat]
  BY <1>1, <1>3, SpanRange DEF ClientInv, ReadSoFar, InCall, LocalTypes, IInv, TypeOK
<1>5. Continues(Nat, sampleCycles, cyc[c], SpanRead(c), more)
  BY <1>4, ChunkRead
<1> HIDE DEF more
<1>0. more \in Seq(Nat) /\ Len(more) \in Nat /\ Len(more) <= SpanRead(c)
  BY <1>5 DEF Continues
<1>6. l \in Labels
  BY DEF Labels
<1>7. /\ pc' \in [Clients -> Labels] /\ pc'[c] = l /\ rd' \in [Clients -> 0 .. 3]
      /\ UNCHANGED <<call, req, expired, answer, disturbed>>
      /\ \A d \in Clients \ {c} : pc'[d] = pc[d] /\ rd'[d] = rd[d]
  BY <1>1, <1>3, <1>6, GotoLocals
<1>8. /\ cyc'[c] = more /\ cyc' \in [Clients -> Seq(Nat)]
      /\ \A d \in Clients \ {c} : cyc'[d] = cyc[d]
  BY <1>0, <1>1, <1>3 DEF LocalTypes
<1>9. LocalTypes'
  BY <1>1, <1>3, <1>7, <1>8 DEF LocalTypes
<1>10. \A d \in Clients \ {c} : ClientInv(d)'
  BY <1>1, <1>2, <1>7, <1>8, OthersKeep DEF CInv, SameLocals
<1>11. InCall(c)'
  BY <1>4, <1>7 DEF InCall
<1>12. ReadSoFar(c)'
  <2>1. SpanRead(c)' = SpanRead(c)
    BY <1>1 DEF SpanRead, Span
  <2>2. sig'[c] = <<>> /\ Len(sig'[c]) = 0 /\ Len(cyc'[c]) = Len(more)
    BY <1>1, <1>4, <1>8
  <2>3. CASE Len(more) < SpanRead(c)
    <3>1. pc'[c] = "cycles"
      BY <1>7, <2>3
    <3> QED BY <2>1, <2>2, <2>3, <3>1, <1>0 DEF ReadSoFar
  <2>4. CASE ~(Len(more) < SpanRead(c))
    <3>1. pc'[c] = "column"
      BY <1>7, <2>4
    <3>2. Len(more) = SpanRead(c) /\ 0 <= SpanRead(c)
      BY <1>0, <1>4, <2>4
    <3> QED BY <2>1, <2>2, <3>1, <3>2 DEF ReadSoFar
  <2> QED BY <2>3, <2>4
<1>13. ReadIsNow(c)'
  <2> SUFFICES ASSUME ~disturbed[c]
               PROVE  /\ st[c].wrapped = wrapped /\ st[c].writeIdx = writeIdx
                      /\ \A i \in 1 .. Len(more) : more[i] = sampleCycles[i - 1]
    <3>1. Len(sig'[c]) = 0 /\ pc'[c] \in {"cycles", "column"}
      BY <1>1, <1>4, <1>7
    <3> QED BY <1>1, <1>2, <1>7, <1>8, <3>1 DEF ReadIsNow, SameBlock
  <2>1. /\ st[c].wrapped = wrapped /\ st[c].writeIdx = writeIdx
        /\ \A i \in 1 .. Len(cyc[c]) : cyc[c][i] = sampleCycles[i - 1]
    BY <1>1, <1>3, <1>4 DEF ClientInv, ReadIsNow
  <2>2. ASSUME NEW i \in 1 .. Len(more) PROVE more[i] = sampleCycles[i - 1]
    <3>1. CASE i <= Len(cyc[c])
      <4>1. i \in 1 .. Len(cyc[c])
        BY <3>1, <1>4
      <4> QED BY <1>5, <2>1, <3>1, <4>1 DEF Continues
    <3>2. CASE ~(i <= Len(cyc[c]))
      BY <1>5, <3>2 DEF Continues
    <3> QED BY <3>1, <3>2
  <2> QED BY <2>1, <2>2
<1>14. Trusted(c)'
  BY <1>1, <1>2, <1>3, <1>4, <1>7 DEF ClientInv, Trusted, SameBlock
<1>15. AnswerIsExact(c)'
  BY <1>4, <1>7 DEF AnswerIsExact, Fetched, NoAnswer
<1> QED BY <1>2, <1>9, <1>10, <1>11, <1>12, <1>13, <1>14, <1>15 DEF CInv, ClientInv

\* A chunk of the column.
LEMMA ReadColumnKeeps == ASSUME CInv, NEW c \in Clients, ReadColumn(c) PROVE CInv'
<1> DEFINE more == sig[c] \o ChunkOf(signal, Len(sig[c]), SpanRead(c))
           l == IF Len(more) < SpanRead(c) THEN "column" ELSE "meta"
<1>1. /\ pc[c] = "column" /\ BlockUnchanged /\ sig' = [sig EXCEPT ![c] = more]
      /\ Goto(c, l) /\ UNCHANGED <<st, cyc, trust>>
  BY DEF ReadColumn
<1>2. IInv' /\ SameBlock /\ start' = start
  BY <1>1, ReadsKeepIInv DEF CInv
<1>3. ClientInv(c) /\ LocalTypes /\ IInv
  BY DEF CInv
<1>4. /\ Len(cyc[c]) = SpanRead(c) /\ answer[c] = NoAnswer /\ call[c] = "fetch"
      /\ Len(sig[c]) <= SpanRead(c) /\ SpanRead(c) \in 0 .. Depth /\ sig[c] \in Seq(Moments)
      /\ signal \in [Cells -> Moments]
  BY <1>1, <1>3, SpanRange DEF ClientInv, ReadSoFar, InCall, LocalTypes, IInv, TypeOK, Moments
<1>5. Continues(Moments, signal, sig[c], SpanRead(c), more)
  BY <1>4, ChunkRead
<1> HIDE DEF more
<1>0. more \in Seq(Moments) /\ Len(more) \in Nat /\ Len(more) <= SpanRead(c)
  BY <1>5 DEF Continues
<1>6. l \in Labels
  BY DEF Labels
<1>7. /\ pc' \in [Clients -> Labels] /\ pc'[c] = l /\ rd' \in [Clients -> 0 .. 3]
      /\ UNCHANGED <<call, req, expired, answer, disturbed>>
      /\ \A d \in Clients \ {c} : pc'[d] = pc[d] /\ rd'[d] = rd[d]
  BY <1>1, <1>3, <1>6, GotoLocals
<1>8. /\ sig'[c] = more /\ sig' \in [Clients -> Seq(Moments)]
      /\ \A d \in Clients \ {c} : sig'[d] = sig[d]
  BY <1>0, <1>1, <1>3 DEF LocalTypes
<1>9. LocalTypes'
  BY <1>1, <1>3, <1>7, <1>8 DEF LocalTypes
<1>10. \A d \in Clients \ {c} : ClientInv(d)'
  BY <1>1, <1>2, <1>7, <1>8, OthersKeep DEF CInv, SameLocals
<1>11. InCall(c)'
  BY <1>4, <1>7 DEF InCall
<1>12. ReadSoFar(c)'
  <2>1. SpanRead(c)' = SpanRead(c)
    BY <1>1 DEF SpanRead, Span
  <2>2. Len(cyc'[c]) = SpanRead(c) /\ Len(sig'[c]) = Len(more)
    BY <1>1, <1>4, <1>8
  <2>3. CASE Len(more) < SpanRead(c)
    <3>1. pc'[c] = "column"
      BY <1>7, <2>3
    <3> QED BY <1>0, <2>1, <2>2, <2>3, <3>1 DEF ReadSoFar
  <2>4. CASE ~(Len(more) < SpanRead(c))
    <3>1. pc'[c] = "meta"
      BY <1>7, <2>4
    <3>2. Len(more) = SpanRead(c)
      BY <1>0, <1>4, <2>4
    <3> QED BY <2>1, <2>2, <3>1, <3>2 DEF ReadSoFar
  <2> QED BY <2>3, <2>4
<1>13. ReadIsNow(c)'
  <2> SUFFICES ASSUME ~disturbed[c]
               PROVE  /\ st[c].wrapped = wrapped /\ st[c].writeIdx = writeIdx
                      /\ \A i \in 1 .. Len(cyc[c]) : cyc[c][i] = sampleCycles[i - 1]
                      /\ \A i \in 1 .. Len(more) : more[i] = signal[i - 1]
    <3>1. pc'[c] \in {"column", "meta"}
      BY <1>7
    <3> QED BY <1>1, <1>2, <1>7, <1>8, <3>1 DEF ReadIsNow, SameBlock
  <2>1. /\ st[c].wrapped = wrapped /\ st[c].writeIdx = writeIdx
        /\ \A i \in 1 .. Len(cyc[c]) : cyc[c][i] = sampleCycles[i - 1]
        /\ \A i \in 1 .. Len(sig[c]) : sig[c][i] = signal[i - 1]
    BY <1>1, <1>3, <1>4 DEF ClientInv, ReadIsNow
  <2>2. ASSUME NEW i \in 1 .. Len(more) PROVE more[i] = signal[i - 1]
    <3>1. CASE i <= Len(sig[c])
      <4>1. i \in 1 .. Len(sig[c])
        BY <3>1, <1>4
      <4> QED BY <1>5, <2>1, <3>1, <4>1 DEF Continues
    <3>2. CASE ~(i <= Len(sig[c]))
      BY <1>5, <3>2 DEF Continues
    <3> QED BY <3>1, <3>2
  <2> QED BY <2>1, <2>2
<1>14. Trusted(c)'
  BY <1>1, <1>2, <1>3, <1>4, <1>7 DEF ClientInv, Trusted, SameBlock
<1>15. AnswerIsExact(c)'
  BY <1>4, <1>7 DEF AnswerIsExact, Fetched, NoAnswer
<1> QED BY <1>2, <1>9, <1>10, <1>11, <1>12, <1>13, <1>14, <1>15 DEF CInv, ClientInv

-----------------------------------------------------------------------------
(* The end of fetch().                                                     *)

\* The order of fetch() stays within the cells that were read.
LEMMA CellRange ==
    ASSUME NEW w \in BOOLEAN, NEW i \in 0 .. Depth, NEW n \in 0 .. Span(w, i) - 1
    PROVE  CellOf(w, i, n) \in 0 .. Span(w, i) - 1
<1>1. CASE w
  BY <1>1, TraceAssumption DEF Span, CellOf
<1>2. CASE ~w
  BY <1>2, TraceAssumption DEF Span, CellOf
<1> QED BY <1>1, <1>2

\* What an undisturbed fetch() has read, put in order, is what is retained.
LEMMA RowsExact ==
    ASSUME IInv, LocalTypes, NEW c \in Clients, ClientInv(c), pc[c] = "meta", ~disturbed[c]
    PROVE  ExactRows(RowsOf(c))
<1> DEFINE n == Span(wrapped, writeIdx)
           cell(j) == CellOf(wrapped, writeIdx, j - 1)
<1>1. /\ st[c].wrapped = wrapped /\ st[c].writeIdx = writeIdx
      /\ \A i \in 1 .. Len(cyc[c]) : cyc[c][i] = sampleCycles[i - 1]
      /\ \A i \in 1 .. Len(sig[c]) : sig[c][i] = signal[i - 1]
  BY DEF ClientInv, ReadIsNow, InCall
<1>2. SpanRead(c) = n /\ Len(cyc[c]) = n /\ Len(sig[c]) = n
  BY <1>1 DEF SpanRead, ClientInv, ReadSoFar
<1>3. /\ wrapped \in BOOLEAN /\ writeIdx \in 0 .. Depth /\ Depth \in Nat
      /\ Len(history) \in Nat /\ sampleCount = Len(history)
  BY TraceAssumption DEF IInv, TypeOK, OccupancyIsKnown
<1>4. n = IF Len(history) < Depth THEN Len(history) ELSE Depth
  <2>1. CASE wrapped
    BY <1>3, <2>1 DEF Span, IInv, OccupancyIsKnown
  <2>2. CASE ~wrapped
    BY <1>3, <2>2 DEF Span, IInv, OccupancyIsKnown
  <2> QED BY <2>1, <2>2
<1>5. n \in Nat
  BY <1>3, <1>4
<1>6. ASSUME NEW j \in 1 .. n
      PROVE  /\ RowsOf(c)[j].sample = history[Len(history) - n + j]
             /\ RowsOf(c)[j].cycle = RowsOf(c)[j].sample.cycle
  <2>1. j - 1 \in 0 .. n - 1
    BY <1>5
  <2>2. cell(j) \in 0 .. n - 1
    BY <1>3, <2>1, CellRange
  <2>3. cell(j) + 1 \in 1 .. n /\ (cell(j) + 1) - 1 = cell(j)
    BY <1>5, <2>2
  <2>4. RowsOf(c)[j] = [cycle |-> cyc[c][cell(j) + 1], sample |-> sig[c][cell(j) + 1]]
    BY <1>1, <1>2 DEF RowsOf
  <2>5. cyc[c][cell(j) + 1] = sampleCycles[cell(j)] /\ sig[c][cell(j) + 1] = signal[cell(j)]
    BY <1>1, <1>2, <2>3
  <2>6. /\ signal[cell(j)] = history[Len(history) - n + j]
        /\ sampleCycles[cell(j)] = signal[cell(j)].cycle
    BY ReaderOrder DEF RingHoldsNewest, OldestFirst
  <2> QED BY <2>4, <2>5, <2>6
<1>7. Len(RowsOf(c)) = n
  BY <1>2, <1>5 DEF RowsOf
<1> HIDE DEF n
<1> QED BY <1>4, <1>6, <1>7 DEF ExactRows

\* fetch() returns its rows.
LEMMA ReadMetaKeeps == ASSUME CInv, NEW c \in Clients, ReadMeta(c) PROVE CInv'
<1>1. /\ pc[c] = "meta" /\ BlockUnchanged /\ trust' = trust
      /\ Return(c, [kind |-> "fetched", rows |-> RowsOf(c)])
  BY DEF ReadMeta
<1>2. IInv' /\ SameBlock /\ start' = start
  BY <1>1, ReadsKeepIInv DEF CInv
<1>3. ClientInv(c) /\ LocalTypes /\ IInv
  BY DEF CInv
<1>4. /\ LocalTypes' /\ pc'[c] = "idle" /\ call'[c] = "none" /\ cyc'[c] = <<>> /\ sig'[c] = <<>>
      /\ answer'[c] = [kind |-> "fetched", rows |-> RowsOf(c)]
      /\ \A d \in Clients \ {c} : SameLocals(d)
  BY <1>1, <1>3, ReturnLocals DEF LocalTypes
<1>5. \A d \in Clients \ {c} : ClientInv(d)'
  BY <1>1, <1>2, <1>4, OthersKeep DEF CInv
<1>6. Trusted(c)'
  BY <1>1, <1>2, <1>3, <1>4 DEF ClientInv, Trusted, SameBlock
<1>7. AnswerIsExact(c)'
  <2> SUFFICES ASSUME trust[c] = "stopped" PROVE ExactRows(RowsOf(c))
    BY <1>1, <1>2, <1>4 DEF AnswerIsExact, ExactRows, SameBlock
  <2>1. ~disturbed[c]
    BY <1>1, <1>3 DEF ClientInv, InCall, Trusted
  <2> QED BY <1>1, <1>3, <2>1, RowsExact
<1> QED BY <1>2, <1>4, <1>5, <1>6, <1>7, IdleKeeps DEF CInv

-----------------------------------------------------------------------------
(* The PLC.                                                                *)

\* A step of the PLC leaves the locals of the calls alone, but may disturb them.
LEMMA DisturbTypes ==
    ASSUME LocalTypes, Disturb, UNCHANGED <<local, answer>>, trust' \in [Clients -> Trusts]
    PROVE  LocalTypes'
<1>1. disturbed' \in [Clients -> BOOLEAN]
  BY DEF Disturb
<1> QED BY <1>1 DEF LocalTypes, local

\* A call the PLC did not disturb has still read what the block holds.
LEMMA DisturbKeeps ==
    ASSUME CInv, Disturb, UNCHANGED <<local, answer>>,
           NEW d \in Clients, Trusted(d)', AnswerIsExact(d)'
    PROVE  ClientInv(d)'
<1>1. UNCHANGED <<pc, call, req, rd, st, cyc, sig, expired, answer>>
  BY DEF local
<1>2. ClientInv(d) /\ LocalTypes
  BY DEF CInv
<1>3. InCall(d)' /\ ReadSoFar(d)'
  BY <1>1, <1>2 DEF ClientInv, InCall, ReadSoFar, SpanRead, Span
<1>4. ReadIsNow(d)'
  <2> SUFFICES ASSUME call[d] = "fetch", ~disturbed'[d]
               PROVE  ReadIsNow(d)'
    BY <1>1 DEF ReadIsNow
  <2>1. pc[d] # "idle"
    BY <1>2 DEF ClientInv, InCall
  <2>2. ~disturbed[d] /\ sampled' = sampled
    BY <2>1 DEF Disturb
  <2>3. UNCHANGED <<wrapped, writeIdx, sampleCycles, signal>>
    BY <2>2 DEF sampled, buffers
  <2> QED BY <1>1, <1>2, <2>2, <2>3 DEF ClientInv, ReadIsNow
<1> QED BY <1>3, <1>4 DEF ClientInv

\* A block whose start is low only notes that it is not recording.
LEMMA QuietScan ==
    ASSUME Scan, ~start
    PROVE  recording' = FALSE /\ sampled' = sampled /\ history' = history /\ start' = start
<1>1. ~Armed
  BY DEF Armed, StartEdge
<1>2. ScanIdle /\ UNCHANGED control
  BY <1>1 DEF Scan, ScanSkip, ScanSample
<1> QED BY <1>2 DEF ScanIdle, sampled, buffers, ghosts, control

\* A scan of the recorder.
LEMMA PLCScanKeeps == ASSUME CInv, PLCScan PROVE CInv'
<1>1. Scan /\ Disturb /\ UNCHANGED <<local, answer, trust>>
  BY DEF PLCScan
<1>2. IInv'
  BY <1>1, NextIInv DEF CInv, Next
<1>3. UNCHANGED <<pc, call, answer, trust>> /\ start' = start
  BY <1>1 DEF local, Scan, control
<1>4. trust' \in [Clients -> Trusts]
  BY <1>1 DEF CInv, LocalTypes
<1>5. ASSUME NEW d \in Clients PROVE Trusted(d)' /\ AnswerIsExact(d)'
  <2>1. Trusted(d) /\ AnswerIsExact(d)
    BY DEF CInv, ClientInv
  <2>2. CASE trust[d] = "stopping"
    <3>1. ~start /\ recording' = FALSE
      BY <1>1, <2>1, <2>2, QuietScan DEF Trusted
    <3> QED BY <1>3, <2>1, <2>2, <3>1 DEF Trusted, AnswerIsExact
  <2>3. CASE trust[d] = "stopped"
    <3>1. /\ ~start /\ recording' = FALSE /\ sampled' = sampled /\ history' = history
      BY <1>1, <2>1, <2>3, QuietScan DEF Trusted
    <3>2. call[d] = "fetch" => ~disturbed'[d]
      BY <1>1, <2>1, <2>3, <3>1 DEF Trusted, Disturb
    <3>3. Trusted(d)'
      BY <1>3, <2>3, <3>1, <3>2 DEF Trusted
    <3>4. AnswerIsExact(d)'
      BY <1>3, <2>1, <3>1 DEF AnswerIsExact, Fetched, ExactRows
    <3> QED BY <3>3, <3>4
  <2>4. CASE trust[d] \notin {"stopping", "stopped"}
    BY <1>3, <2>4 DEF Trusted, AnswerIsExact
  <2> QED BY <2>2, <2>3, <2>4
<1>6. \A d \in Clients : ClientInv(d)'
  BY <1>1, <1>5, DisturbKeeps
<1>7. LocalTypes'
  BY <1>1, <1>4, DisturbTypes DEF CInv
<1> QED BY <1>2, <1>6, <1>7 DEF CInv

\* A power cycle of the PLC voids every stop.
LEMMA PLCRestartKeeps == ASSUME CInv, PLCRestart PROVE CInv'
<1>1. Restart /\ Disturb /\ UNCHANGED <<local, answer>> /\ trust' = [c \in Clients |-> "none"]
  BY DEF PLCRestart
<1>2. IInv'
  BY <1>1, NextIInv DEF CInv, Next
<1>3. trust' \in [Clients -> Trusts]
  BY <1>1 DEF Trusts
<1>4. \A d \in Clients : Trusted(d)' /\ AnswerIsExact(d)'
  BY <1>1 DEF Trusted, AnswerIsExact
<1>5. \A d \in Clients : ClientInv(d)'
  BY <1>1, <1>4, DisturbKeeps
<1>6. LocalTypes'
  BY <1>1, <1>3, DisturbTypes DEF CInv
<1> QED BY <1>2, <1>5, <1>6 DEF CInv

-----------------------------------------------------------------------------
(* The invariant.                                                          *)

\* The initial state satisfies the invariant.
LEMMA InitCInv == CInit => CInv
<1> SUFFICES ASSUME CInit PROVE CInv
  OBVIOUS
<1>1. IInv
  BY InitIInv DEF CInit
<1>2. NoRequest \in [mode : {Ring, OneShot}, decimation : Nat] /\ NoStatus \in Statuses
  BY TraceAssumption DEF NoRequest, NoStatus, Statuses
<1>3. <<>> \in Seq(Nat) /\ <<>> \in Seq(Moments)
  OBVIOUS
<1>4. LocalTypes
  BY <1>2, <1>3 DEF CInit, LocalTypes, Labels, CallNames, Trusts
<1>5. ASSUME NEW c \in Clients PROVE ClientInv(c)
  <2>1. /\ pc[c] = "idle" /\ call[c] = "none" /\ cyc[c] = <<>> /\ sig[c] = <<>>
        /\ answer[c] = NoAnswer /\ trust[c] = "none"
    BY DEF CInit
  <2>2. InCall(c) /\ ReadSoFar(c)
    BY <2>1 DEF InCall, ReadSoFar
  <2>3. ReadIsNow(c)
    BY <2>1 DEF ReadIsNow
  <2>4. Trusted(c) /\ AnswerIsExact(c)
    BY <2>1 DEF Trusted, AnswerIsExact
  <2> QED BY <2>2, <2>3, <2>4 DEF ClientInv
<1> QED BY <1>1, <1>4, <1>5 DEF CInv

\* Nothing that the invariant speaks of changes in a step that stutters.
LEMMA StutterCInv == ASSUME CInv, UNCHANGED vars PROVE CInv'
<1>1. IInv' /\ SameBlock /\ start' = start
  BY ReadsKeepIInv DEF vars, BlockUnchanged, CInv
<1>2. UNCHANGED <<pc, call, req, rd, st, cyc, sig, expired, answer, trust, disturbed>>
  BY DEF vars, cvars, local
<1>3. LocalTypes'
  BY <1>2 DEF CInv, LocalTypes
<1>4. \A d \in Clients : ClientInv(d)'
  BY <1>1, <1>2, OthersKeep DEF CInv, SameLocals
<1> QED BY <1>1, <1>3, <1>4 DEF CInv

\* Every step keeps the invariant.
LEMMA StepCInv == CInv /\ [CNext]_vars => CInv'
<1> SUFFICES ASSUME CInv, [CNext]_vars PROVE CInv'
  OBVIOUS
<1>1. ASSUME NEW c \in Clients, NewCall(c) PROVE CInv'
  BY <1>1, NewCallKeeps
<1>2. ASSUME NEW c \in Clients, RoundTrip(c) PROVE CInv'
  <2>1. CASE DoWriteMode(c) \/ DoWriteDecimation(c) \/ DoWriteStart(c)
    BY <2>1, DoWriteModeKeeps, DoWriteDecimationKeeps, DoWriteStartKeeps
  <2>2. CASE PollMatches(c) \/ PollTimesOut(c)
    BY <2>2, PollMatchesKeeps, PollTimesOutKeeps
  <2>3. CASE ReadStatus(c) \/ ReadCycles(c) \/ ReadColumn(c) \/ ReadMeta(c)
    BY <2>3, ReadStatusKeeps, ReadCyclesKeeps, ReadColumnKeeps, ReadMetaKeeps
  <2> QED BY <1>2, <2>1, <2>2, <2>3 DEF RoundTrip
<1>3. ASSUME NEW c \in Clients, DeadlinePasses(c) \/ RoundTripFails(c) PROVE CInv'
  BY <1>3, DeadlinePassesKeeps, RoundTripFailsKeeps
<1>4. CASE PLCScan
  BY <1>4, PLCScanKeeps
<1>5. CASE PLCRestart
  BY <1>5, PLCRestartKeeps
<1>6. CASE UNCHANGED vars
  BY <1>6, StutterCInv
<1> QED BY <1>1, <1>2, <1>3, <1>4, <1>5, <1>6 DEF CNext

\* What holds between any two round trips of any clients, scans and restarts.
THEOREM ClientInvariance == CSpec => []CInv
BY InitCInv, StepCInv, PTL DEF CSpec

\* The recorder's guarantees to a reader hold under the calls of the Python
\* clients too: their writes are among those of TraceRecorder's environment.
THEOREM RecorderUnderClients == CSpec => [](IndexInBounds /\ OccupancyIsKnown /\ RingHoldsNewest)
<1>1. CInv => IndexInBounds /\ OccupancyIsKnown /\ RingHoldsNewest
  BY ReaderOrder DEF CInv, IInv
<1> QED BY <1>1, ClientInvariance, PTL

\* Types: a call never has more chunks than the arrays have cells.
THEOREM ClientTypeCorrect == CSpec => []ClientTypeOK
<1>1. CInv => ClientTypeOK
  <2> SUFFICES ASSUME CInv PROVE ClientTypeOK
    OBVIOUS
  <2>1. LocalTypes /\ TypeOK /\ Len(StatusFields) = 3 + 1
    BY DEF CInv, IInv, StatusFields
  <2>2. rd \in [Clients -> 0 .. Len(StatusFields)]
    BY <2>1 DEF LocalTypes
  <2>3. ASSUME NEW c \in Clients PROVE Len(cyc[c]) <= Depth /\ Len(sig[c]) <= Len(cyc[c])
    <3>1. /\ SpanRead(c) \in 0 .. Depth /\ cyc[c] \in Seq(Nat) /\ sig[c] \in Seq(Moments)
          /\ Depth \in Nat
      BY <2>1, SpanRange, TraceAssumption DEF LocalTypes
    <3>2. Len(cyc[c]) <= SpanRead(c) /\ Len(sig[c]) <= Len(cyc[c])
      <4>1. ReadSoFar(c) /\ Len(<<>>) = 0
        BY DEF CInv, ClientInv
      <4>2. CASE pc[c] \notin {"cycles", "column", "meta"}
        <5>1. cyc[c] = <<>> /\ sig[c] = <<>>
          BY <4>1, <4>2 DEF ReadSoFar
        <5> QED BY <3>1, <4>1, <5>1
      <4>3. CASE pc[c] = "cycles"
        <5>1. Len(cyc[c]) <= SpanRead(c) /\ sig[c] = <<>>
          BY <4>1, <4>3 DEF ReadSoFar
        <5> QED BY <3>1, <4>1, <5>1
      <4>4. CASE pc[c] = "column"
        <5>1. Len(cyc[c]) = SpanRead(c) /\ Len(sig[c]) <= SpanRead(c)
          BY <4>1, <4>4 DEF ReadSoFar
        <5> QED BY <3>1, <5>1
      <4>5. CASE pc[c] = "meta"
        <5>1. Len(cyc[c]) = SpanRead(c) /\ Len(sig[c]) = SpanRead(c)
          BY <4>1, <4>5 DEF ReadSoFar
        <5> QED BY <3>1, <5>1
      <4> QED BY <4>2, <4>3, <4>4, <4>5
    <3> QED BY <3>1, <3>2
  <2> QED
    BY <2>1, <2>2, <2>3 DEF ClientTypeOK, LocalTypes, Labels, CallNames, Trusts, Statuses
<1> QED BY <1>1, ClientInvariance, PTL

\* Once stop() has returned the block records nothing, through scans, the calls
\* of other clients and lost round trips, until some client raises start.
THEOREM StopSettles == CSpec => []StopIsSettled
<1>1. CInv => StopIsSettled
  BY DEF CInv, ClientInv, Trusted, StopIsSettled, Armed, StartEdge
<1> QED BY <1>1, ClientInvariance, PTL

\* The promise of the quick start, for every depth, chunk size and number of
\* clients: a fetch() after a stop() that stands returns exactly the retained
\* samples, oldest first, whatever happened before the stop (client.py:239).
THEOREM FetchAfterStopCorrect == CSpec => []FetchAfterStopIsExact
<1>1. CInv => FetchAfterStopIsExact
  BY DEF CInv, ClientInv, AnswerIsExact, FetchAfterStopIsExact
<1> QED BY <1>1, ClientInvariance, PTL

\* A fetch() beside which the block did not change is exact, stopped or not.
THEOREM QuietFetchCorrect == CSpec => QuietFetchIsExact
<1> DEFINE A == \A c \in Clients :
                   (pc[c] = "meta" /\ Fetched(c)' /\ ~disturbed[c])
                       => ExactRows(answer'[c].rows)
<1>1. CInv /\ [CNext]_vars => [A]_vars
  <2> SUFFICES ASSUME CInv, CNext, NEW c \in Clients,
                      pc[c] = "meta", Fetched(c)', ~disturbed[c]
               PROVE  ExactRows(answer'[c].rows)
    OBVIOUS
  <2>1. answer[c] = NoAnswer /\ LocalTypes /\ IInv /\ ClientInv(c)
    BY DEF CInv, ClientInv, InCall
  <2>2. answer'[c] # answer[c]
    BY <2>1 DEF Fetched, NoAnswer
  <2>3. ReadMeta(c)
    <3>1. answer' # answer
      BY <2>2
    <3>2. ~PLCScan /\ ~PLCRestart
      BY <3>1 DEF PLCScan, PLCRestart
    <3>3. PICK d \in Clients : NewCall(d) \/ RoundTrip(d) \/ DeadlinePasses(d)
                               \/ RoundTripFails(d)
      BY <3>2 DEF CNext
    <3>4. ~NewCall(d)
      BY <2>1, <2>2 DEF NewCall, CallStart, CallStop, CallSetDecimation, CallStatus,
                        CallFetch, Begin, LocalTypes
    <3>5. ~DeadlinePasses(d)
      BY <3>1 DEF DeadlinePasses
    <3>6. ~RoundTripFails(d)
      BY <2>1, <2>2 DEF RoundTripFails, Return, Answer, Fetched, LocalTypes
    <3>7. RoundTrip(d)
      BY <3>3, <3>4, <3>5, <3>6
    <3>8. d = c
      BY <2>1, <2>2, <3>7 DEF RoundTrip, DoWriteMode, DoWriteDecimation, DoWriteStart,
           PollMatches, PollTimesOut, ReadStatus, ReadCycles, ReadColumn, ReadMeta,
           Return, Goto, LocalTypes
    <3> QED BY <3>7, <3>8 DEF RoundTrip, DoWriteMode, DoWriteDecimation, DoWriteStart,
           PollMatches, PollTimesOut, Waiting, ReadStatus, ReadCycles, ReadColumn
  <2>4. answer'[c].rows = RowsOf(c)
    BY <2>1, <2>3 DEF ReadMeta, Return, LocalTypes
  <2>5. ExactRows(RowsOf(c))
    BY <2>1, RowsExact
  <2>6. history' = history
    BY <2>3 DEF ReadMeta, BlockUnchanged, rvars, ghosts
  <2> QED BY <2>4, <2>5, <2>6 DEF ExactRows
<1> QED BY <1>1, ClientInvariance, PTL DEF CSpec, QuietFetchIsExact
-----------------------------------------------------------------------------
(* A fetch() beside the recorder.  It need not be quiet: as long as the     *)
(* ring has not wrapped, the block only fills cells behind those the        *)
(* reader's status named.  This rests on no run beginning meanwhile, so the *)
(* invariant also says why a start or stop that stands leaves no edge.      *)

\* While a client's start or stop stands, no scan will see a start edge.
NoEdge(c) == trust[c] # "none" => ~StartEdge

\* What the arrays of an unwrapped run held when a fetch() read them, they hold.
ReadStillHolds(c) ==
    call[c] = "fetch" /\ trust[c] # "none" /\ ~wrapped =>
        /\ pc[c] = "status" /\ rd[c] >= 2 => ~st[c].wrapped
        /\ pc[c] = "status" /\ rd[c] >= 3 => st[c].writeIdx <= writeIdx
        /\ pc[c] \in {"cycles", "column", "meta"} =>
             ~st[c].wrapped /\ st[c].writeIdx <= writeIdx
        /\ \A i \in 1 .. Len(cyc[c]) : cyc[c][i] = sampleCycles[i - 1]
        /\ \A i \in 1 .. Len(sig[c]) : sig[c][i] = signal[i - 1]

\* The rows are the first samples of the run, and none is torn.
FirstOfRun(rows) ==
    /\ Len(rows) <= Len(history)
    /\ \A j \in 1 .. Len(rows) : /\ rows[j].sample = history[j]
                                 /\ rows[j].cycle = rows[j].sample.cycle

AnswerIsPrefix(c) == Fetched(c) /\ trust[c] # "none" /\ ~wrapped => FirstOfRun(answer[c].rows)

PrefixInv(c) == NoEdge(c) /\ ReadStillHolds(c) /\ AnswerIsPrefix(c)

\* A recording block has seen start raised.
StartSeen == recording => startMem

PInv == StartSeen /\ \A c \in Clients : PrefixInv(c)

\* A client that stands still in a step that does not sample.
LEMMA StandsPrefix ==
    ASSUME NEW d \in Clients, PrefixInv(d), SameLocals(d), SameBlock, NoEdge(d)',
           trust'[d] \in {trust[d], "none"}
    PROVE  PrefixInv(d)'
<1>1. ReadStillHolds(d)'
  BY DEF PrefixInv, ReadStillHolds, SameLocals, SameBlock
<1>2. AnswerIsPrefix(d)'
  BY DEF PrefixInv, AnswerIsPrefix, SameLocals, SameBlock, Fetched, FirstOfRun
<1> QED BY <1>1, <1>2 DEF PrefixInv

\* A client that has read nothing yet and has no rows to answer for.
LEMMA NoRowsPrefix ==
    ASSUME NEW c \in Clients, NoEdge(c)', ~Fetched(c)', cyc'[c] = <<>>, sig'[c] = <<>>,
           \/ call'[c] # "fetch"
           \/ pc'[c] \notin {"status", "cycles", "column", "meta"}
           \/ pc'[c] = "status" /\ rd'[c] = 0
    PROVE  PrefixInv(c)'
<1>1. Len(cyc'[c]) = 0 /\ Len(sig'[c]) = 0
  OBVIOUS
<1>2. ReadStillHolds(c)'
  BY <1>1 DEF ReadStillHolds
<1>3. AnswerIsPrefix(c)'
  BY DEF AnswerIsPrefix
<1> QED BY <1>2, <1>3 DEF PrefixInv

\* Reads and writes of control tags leave `recording' and startMem alone.
LEMMA ControlStartSeen ==
    ASSUME StartSeen, BlockUnchanged \/ WroteControl
    PROVE  StartSeen' /\ SameBlock /\ startMem' = startMem
<1>1. UNCHANGED <<status, buffers, ghosts>>
  BY DEF BlockUnchanged, WroteControl, rvars
<1>2. startMem' = startMem /\ recording' = recording
  BY <1>1 DEF status
<1>3. SameBlock
  BY <1>1 DEF status, buffers, ghosts, SameBlock
<1> QED BY <1>2, <1>3 DEF StartSeen

\* A call begins.
LEMMA NewCallPrefix ==
    ASSUME CInv, PInv, NEW c \in Clients, NewCall(c) PROVE PInv'
<1>1. PICK n, l, r : Begin(c, n, l, r) /\ (n # "fetch" \/ l = "status")
  <2>1. CASE CallStart(c)
    <3>1. PICK m \in Modes, k \in Decimations :
              Begin(c, "start", "writeMode", [mode |-> m, decimation |-> k])
      BY <2>1 DEF CallStart
    <3> QED BY <3>1
  <2>2. CASE CallStop(c) \/ CallStatus(c) \/ CallFetch(c)
    BY <2>2 DEF CallStop, CallStatus, CallFetch
  <2>3. CASE CallSetDecimation(c)
    BY <2>3 DEF CallSetDecimation
  <2> QED BY <2>1, <2>2, <2>3 DEF NewCall
<1>2. BlockUnchanged /\ trust' = trust /\ start' = start
  BY <1>1 DEF Begin, BlockUnchanged, rvars, control
<1>3. StartSeen' /\ SameBlock /\ startMem' = startMem
  BY <1>2, ControlStartSeen DEF PInv
<1>4. \A d \in Clients : NoEdge(d)'
  BY <1>2, <1>3 DEF PInv, PrefixInv, NoEdge, StartEdge
<1>5. \A d \in Clients \ {c} : PrefixInv(d)'
  <2>1. \A d \in Clients \ {c} : SameLocals(d)
    BY <1>1 DEF CInv, LocalTypes, Begin, SameLocals
  <2> QED BY <1>2, <1>3, <1>4, <2>1, StandsPrefix DEF PInv
<1>6. /\ pc'[c] = l /\ call'[c] = n /\ rd'[c] = 0 /\ answer'[c] = NoAnswer
      /\ cyc'[c] = <<>> /\ sig'[c] = <<>>
  BY <1>1 DEF CInv, LocalTypes, ClientInv, ReadSoFar, Begin
<1>7. PrefixInv(c)'
  BY <1>1, <1>4, <1>6, NoRowsPrefix DEF Fetched, NoAnswer
<1> QED BY <1>3, <1>5, <1>7 DEF PInv

\* A call ends without rows; when that confirms a start, the block records.
LEMMA EndPrefix ==
    ASSUME CInv, PInv, NEW c \in Clients, NEW a, a.kind # "fetched", Return(c, a),
           BlockUnchanged \/ WroteControl, start' = start,
           trust' \in [Clients -> Trusts], \A d \in Clients \ {c} : trust'[d] = trust[d],
           trust[c] # "none" \/ trust'[c] = "none" \/ recording
    PROVE  PInv'
<1>1. StartSeen' /\ SameBlock /\ startMem' = startMem
  BY ControlStartSeen DEF PInv
<1>2. \A d \in Clients : NoEdge(d)'
  BY <1>1 DEF PInv, PrefixInv, NoEdge, StartEdge, StartSeen
<1>3. /\ pc'[c] = "idle" /\ cyc'[c] = <<>> /\ sig'[c] = <<>>
      /\ answer'[c] = a /\ \A d \in Clients \ {c} : SameLocals(d)
  BY ReturnLocals DEF CInv
<1>4. \A d \in Clients \ {c} : PrefixInv(d)'
  BY <1>1, <1>2, <1>3, StandsPrefix DEF PInv
<1>5. PrefixInv(c)'
  BY <1>2, <1>3, NoRowsPrefix DEF Fetched
<1> QED BY <1>1, <1>4, <1>5 DEF PInv

\* A call goes on to another round trip without reading the arrays.
LEMMA GoesOnPrefix ==
    ASSUME CInv, PInv, NEW c \in Clients, BlockUnchanged \/ WroteControl,
           pc[c] \notin {"idle", "cycles", "column", "meta"},
           UNCHANGED <<call, cyc, sig, answer, disturbed>>,
           \A d \in Clients \ {c} : SameLocals(d) /\ trust'[d] \in {trust[d], "none"},
           \/ call[c] # "fetch"
           \/ pc'[c] \notin {"status", "cycles", "column", "meta"},
           \A d \in Clients : NoEdge(d)'
    PROVE  PInv'
<1>1. StartSeen' /\ SameBlock
  BY ControlStartSeen DEF PInv
<1>2. \A d \in Clients \ {c} : PrefixInv(d)'
  BY <1>1, StandsPrefix DEF PInv
<1>3. cyc[c] = <<>> /\ sig[c] = <<>> /\ answer[c] = NoAnswer
  BY DEF CInv, ClientInv, ReadSoFar, InCall
<1>4. PrefixInv(c)'
  BY <1>3, NoRowsPrefix DEF Fetched, NoAnswer
<1> QED BY <1>1, <1>2, <1>4 DEF PInv

\* The three writes.  Raising start makes an edge, and voids every start and
\* stop; lowering it makes none.
LEMMA WritesPrefix ==
    ASSUME CInv, PInv, NEW c \in Clients,
           DoWriteMode(c) \/ DoWriteDecimation(c) \/ DoWriteStart(c)
    PROVE  PInv'
<1>1. WroteControl
  BY DEF DoWriteMode, DoWriteDecimation, DoWriteStart
<1>2. startMem' = startMem
  BY <1>1, ControlStartSeen DEF PInv
<1>3. CASE DoWriteMode(c)
  <2>1. Goto(c, "writeDecimation") /\ UNCHANGED <<st, cyc, sig, trust>> /\ start' = start
        /\ pc[c] = "writeMode"
    BY <1>3 DEF DoWriteMode, WriteMode
  <2>2. \A d \in Clients : NoEdge(d)'
    BY <1>2, <2>1 DEF PInv, PrefixInv, NoEdge, StartEdge
  <2>3. /\ pc'[c] = "writeDecimation" /\ UNCHANGED <<call, answer, disturbed>>
        /\ \A d \in Clients \ {c} : SameLocals(d)
    BY <2>1 DEF Goto, CInv, LocalTypes, SameLocals
  <2> QED BY <1>1, <2>1, <2>2, <2>3, GoesOnPrefix
<1>4. CASE DoWriteDecimation(c)
  <2>1. start' = start /\ trust' = trust /\ pc[c] = "writeDecimation"
    BY <1>4 DEF DoWriteDecimation, WriteDecimation
  <2>2. \A d \in Clients : NoEdge(d)'
    BY <1>2, <2>1 DEF PInv, PrefixInv, NoEdge, StartEdge
  <2>3. CASE Goto(c, "writeStart") /\ UNCHANGED <<st, cyc, sig>>
    <3>1. /\ pc'[c] = "writeStart" /\ UNCHANGED <<call, answer, disturbed>>
          /\ \A d \in Clients \ {c} : SameLocals(d)
      BY <2>3 DEF Goto, CInv, LocalTypes, SameLocals
    <3> QED BY <1>1, <2>1, <2>2, <2>3, <3>1, GoesOnPrefix
  <2>4. CASE Return(c, Answer("done"))
    <3>1. Answer("done").kind # "fetched"
      BY DEF Answer
    <3> QED BY <1>1, <2>1, <2>4, <3>1, EndPrefix DEF CInv, LocalTypes
  <2> QED BY <1>4, <2>3, <2>4 DEF DoWriteDecimation
<1>5. CASE DoWriteStart(c)
  <2>1. /\ pc[c] \in {"writeStart", "writeStop"} /\ UNCHANGED <<st, cyc, sig>>
        /\ trust' = [d \in Clients |->
                        IF pc[c] = "writeStop" THEN IF d = c THEN "stopping" ELSE trust[d]
                        ELSE "none"]
        /\ pc[c] = "writeStop" => start' = FALSE
        /\ Goto(c, "pollStart") \/ Goto(c, "pollStop")
    BY <1>5 DEF DoWriteStart, WriteStart
  <2>2. \A d \in Clients : NoEdge(d)'
    BY <2>1 DEF NoEdge, StartEdge
  <2>3. /\ pc'[c] \in {"pollStart", "pollStop"} /\ UNCHANGED <<call, answer, disturbed>>
        /\ \A d \in Clients \ {c} : SameLocals(d)
    BY <2>1 DEF Goto, CInv, LocalTypes, SameLocals
  <2>4. \A d \in Clients \ {c} : trust'[d] \in {trust[d], "none"}
    BY <2>1
  <2> QED BY <1>1, <2>1, <2>2, <2>3, <2>4, GoesOnPrefix
<1> QED BY <1>3, <1>4, <1>5

\* The polls, and the round trips that raise.
LEMMA PollsPrefix ==
    ASSUME CInv, PInv, NEW c \in Clients,
           DeadlinePasses(c) \/ PollMatches(c) \/ PollTimesOut(c) \/ RoundTripFails(c)
    PROVE  PInv'
<1>1. BlockUnchanged
  BY DEF DeadlinePasses, PollMatches, PollTimesOut, RoundTripFails, BlockUnchanged
<1>2. StartSeen' /\ SameBlock /\ startMem' = startMem /\ start' = start
  BY <1>1, ControlStartSeen DEF PInv, BlockUnchanged, rvars, control
<1>3. CASE DeadlinePasses(c)
  <2>1. \A d \in Clients : SameLocals(d) /\ trust'[d] = trust[d]
    BY <1>3 DEF DeadlinePasses, SameLocals
  <2>2. \A d \in Clients : NoEdge(d)'
    BY <1>2, <2>1 DEF PInv, PrefixInv, NoEdge, StartEdge
  <2> QED BY <1>2, <2>1, <2>2, StandsPrefix DEF PInv
<1>4. CASE PollTimesOut(c) \/ RoundTripFails(c)
  <2>1. /\ trust' = [trust EXCEPT ![c] = IF trust[c] = "stopping" THEN "none" ELSE trust[c]]
        /\ Return(c, Answer("timeout")) \/ Return(c, Answer("error"))
    BY <1>4 DEF PollTimesOut, RoundTripFails
  <2>2. /\ trust' \in [Clients -> Trusts] /\ \A d \in Clients \ {c} : trust'[d] = trust[d]
        /\ trust[c] # "none" \/ trust'[c] = "none"
    BY <2>1 DEF CInv, LocalTypes, Trusts
  <2>3. Answer("timeout").kind # "fetched" /\ Answer("error").kind # "fetched"
    BY DEF Answer
  <2> QED BY <1>1, <1>2, <2>1, <2>2, <2>3, EndPrefix
<1>5. CASE PollMatches(c) /\ pc[c] = "pollStart"
  <2>1. /\ recording /\ Return(c, Answer("started")) /\ trust' = [trust EXCEPT ![c] = "started"]
    BY <1>5 DEF PollMatches, Expected, CInv, IInv, TypeOK
  <2>2. trust' \in [Clients -> Trusts] /\ \A d \in Clients \ {c} : trust'[d] = trust[d]
    BY <2>1 DEF CInv, LocalTypes, Trusts
  <2>3. Answer("started").kind # "fetched"
    BY DEF Answer
  <2> QED BY <1>1, <1>2, <2>1, <2>2, <2>3, EndPrefix
<1>6. CASE PollMatches(c) /\ pc[c] = "pollStop"
  <2>1. /\ pc' = [pc EXCEPT ![c] = "status"]
        /\ UNCHANGED <<call, req, rd, st, cyc, sig, answer, trust, disturbed>>
    BY <1>6 DEF PollMatches
  <2>2. \A d \in Clients : NoEdge(d)'
    BY <1>2, <2>1 DEF PInv, PrefixInv, NoEdge, StartEdge
  <2>3. \A d \in Clients \ {c} : SameLocals(d)
    BY <2>1 DEF CInv, LocalTypes, SameLocals
  <2>4. call[c] = "stop"
    BY <1>6 DEF CInv, ClientInv, InCall
  <2> QED BY <1>1, <1>6, <2>1, <2>2, <2>3, <2>4, GoesOnPrefix
<1> QED BY <1>3, <1>4, <1>5, <1>6 DEF PollMatches, Waiting

\* A round trip of status(): what it read of an unwrapped run stays true.
LEMMA ReadStatusPrefix ==
    ASSUME CInv, PInv, NEW c \in Clients, ReadStatus(c) PROVE PInv'
<1>1. pc[c] = "status" /\ BlockUnchanged /\ Len(StatusFields) = 4 /\ rd[c] \in 0 .. 3
  BY DEF ReadStatus, StatusFields, CInv, LocalTypes
<1>2. StartSeen' /\ SameBlock /\ startMem' = startMem /\ start' = start
  BY <1>1, ControlStartSeen DEF PInv, BlockUnchanged, rvars, control
<1>3. ClientInv(c) /\ LocalTypes /\ IInv /\ PrefixInv(c)
  BY DEF CInv, PInv
<1>4. cyc[c] = <<>> /\ sig[c] = <<>> /\ answer[c] = NoAnswer /\ Len(<<>>) = 0
  BY <1>1, <1>3 DEF ClientInv, ReadSoFar, InCall
<1>5. ASSUME call[c] = "fetch", trust[c] # "none", ~wrapped
      PROVE  /\ rd[c] >= 1 => ~NextStatus(c).wrapped
             /\ rd[c] >= 2 => NextStatus(c).writeIdx <= writeIdx
  <2>1. /\ rd[c] >= 2 => ~st[c].wrapped
        /\ rd[c] >= 3 => st[c].writeIdx <= writeIdx
    BY <1>1, <1>3, <1>5 DEF PrefixInv, ReadStillHolds
  <2>2. writeIdx \in Nat
    BY <1>3, TraceAssumption DEF IInv, TypeOK
  <2>3. CASE rd[c] = 1
    BY <1>3, <1>5, <2>3, FieldRead
  <2>4. CASE rd[c] = 2
    BY <1>3, <1>5, <2>1, <2>2, <2>4, FieldRead
  <2>5. CASE rd[c] = 3
    BY <1>3, <1>5, <2>1, <2>5, FieldRead
  <2> QED BY <1>1, <2>3, <2>4, <2>5
<1>6. CASE /\ rd[c] # 3 /\ st' = [st EXCEPT ![c] = NextStatus(c)]
           /\ rd' = [rd EXCEPT ![c] = rd[c] + 1]
           /\ UNCHANGED <<pc, call, req, cyc, sig, expired, answer, trust, disturbed>>
  <2>1. /\ st'[c] = NextStatus(c) /\ rd'[c] = rd[c] + 1
        /\ \A d \in Clients \ {c} : SameLocals(d)
    BY <1>3, <1>6 DEF LocalTypes, SameLocals
  <2>2. \A d \in Clients : NoEdge(d)'
    BY <1>2, <1>6 DEF PInv, PrefixInv, NoEdge, StartEdge
  <2>3. \A d \in Clients \ {c} : PrefixInv(d)'
    BY <1>2, <1>6, <2>1, <2>2, StandsPrefix DEF PInv
  <2>4. ReadStillHolds(c)'
    <3> SUFFICES ASSUME call[c] = "fetch", trust[c] # "none", ~wrapped
                 PROVE  /\ rd'[c] >= 2 => ~st'[c].wrapped
                        /\ rd'[c] >= 3 => st'[c].writeIdx <= writeIdx
      BY <1>1, <1>2, <1>4, <1>6 DEF ReadStillHolds, SameBlock
    <3>1. (rd'[c] >= 2 => rd[c] >= 1) /\ (rd'[c] >= 3 => rd[c] >= 2)
      BY <1>1, <2>1
    <3> QED BY <1>5, <2>1, <3>1
  <2>5. AnswerIsPrefix(c)'
    BY <1>4, <1>6 DEF AnswerIsPrefix, Fetched, NoAnswer
  <2> QED BY <1>2, <2>2, <2>3, <2>4, <2>5 DEF PInv, PrefixInv
<1>7. CASE \/ Return(c, Answer("done")) /\ trust' = trust
           \/ Return(c, Answer("empty")) /\ trust' = trust
           \/ /\ Return(c, Answer("stopped"))
              /\ trust' = [trust EXCEPT ![c] = IF trust[c] = "stopping" THEN "stopped"
                                               ELSE trust[c]]
  <2>1. /\ trust' \in [Clients -> Trusts] /\ \A d \in Clients \ {c} : trust'[d] = trust[d]
        /\ trust[c] # "none" \/ trust'[c] = "none"
    BY <1>3, <1>7 DEF LocalTypes, Trusts
  <2>2. /\ Answer("done").kind # "fetched" /\ Answer("empty").kind # "fetched"
        /\ Answer("stopped").kind # "fetched"
    BY DEF Answer
  <2> QED BY <1>1, <1>2, <1>7, <2>1, <2>2, EndPrefix
<1>8. CASE /\ rd[c] = 3 /\ st' = [st EXCEPT ![c] = NextStatus(c)]
           /\ Goto(c, "cycles") /\ UNCHANGED <<cyc, sig, trust>>
  <2>1. /\ pc'[c] = "cycles" /\ st'[c] = NextStatus(c)
        /\ UNCHANGED <<call, answer, disturbed>>
        /\ \A d \in Clients \ {c} : SameLocals(d)
    BY <1>3, <1>8 DEF Goto, LocalTypes, SameLocals
  <2>2. \A d \in Clients : NoEdge(d)'
    BY <1>2, <1>8 DEF PInv, PrefixInv, NoEdge, StartEdge
  <2>3. \A d \in Clients \ {c} : PrefixInv(d)'
    BY <1>2, <1>8, <2>1, <2>2, StandsPrefix DEF PInv
  <2>4. ReadStillHolds(c)'
    <3> SUFFICES ASSUME call[c] = "fetch", trust[c] # "none", ~wrapped
                 PROVE  ~st'[c].wrapped /\ st'[c].writeIdx <= writeIdx
      BY <1>2, <1>4, <1>8, <2>1 DEF ReadStillHolds, SameBlock
    <3> QED BY <1>5, <1>8, <2>1
  <2>5. AnswerIsPrefix(c)'
    BY <1>4, <2>1 DEF AnswerIsPrefix, Fetched, NoAnswer
  <2> QED BY <1>2, <2>2, <2>3, <2>4, <2>5 DEF PInv, PrefixInv
<1> QED BY <1>1, <1>6, <1>7, <1>8 DEF ReadStatus, NextStatus

\* What has been read of an array is what it holds.
Agrees(q, array) == \A i \in 1 .. Len(q) : q[i] = array[i - 1]

\* Chunks of an array that stays as it is continue one another.
LEMMA ChunkAgrees ==
    ASSUME NEW S, NEW array, NEW q \in Seq(S), NEW count, NEW more,
           Continues(S, array, q, count, more), Agrees(q, array)
    PROVE  Agrees(more, array)
<1> SUFFICES ASSUME NEW i \in 1 .. Len(more) PROVE more[i] = array[i - 1]
  BY DEF Agrees
<1>1. Len(q) \in Nat /\ Len(more) \in Nat
  BY DEF Continues
<1>2. CASE i <= Len(q)
  <2>1. i \in 1 .. Len(q)
    BY <1>1, <1>2
  <2> QED BY <1>2, <2>1 DEF Continues, Agrees
<1>3. CASE ~(i <= Len(q))
  BY <1>3 DEF Continues
<1> QED BY <1>2, <1>3

\* A chunk of either array.
LEMMA ReadArraysPrefix ==
    ASSUME CInv, PInv, NEW c \in Clients, ReadCycles(c) \/ ReadColumn(c) PROVE PInv'
<1> DEFINE moreCyc == cyc[c] \o ChunkOf(sampleCycles, Len(cyc[c]), SpanRead(c))
           moreSig == sig[c] \o ChunkOf(signal, Len(sig[c]), SpanRead(c))
<1>1. /\ pc[c] \in {"cycles", "column"} /\ BlockUnchanged /\ UNCHANGED <<st, trust>>
      /\ \/ pc[c] = "cycles" /\ cyc' = [cyc EXCEPT ![c] = moreCyc] /\ sig' = sig
         \/ pc[c] = "column" /\ sig' = [sig EXCEPT ![c] = moreSig] /\ cyc' = cyc
      /\ Goto(c, "cycles") \/ Goto(c, "column") \/ Goto(c, "meta")
  BY DEF ReadCycles, ReadColumn
<1>2. StartSeen' /\ SameBlock /\ startMem' = startMem /\ start' = start
  BY <1>1, ControlStartSeen DEF PInv, BlockUnchanged, rvars, control
<1>3. ClientInv(c) /\ LocalTypes /\ IInv /\ PrefixInv(c)
  BY DEF CInv, PInv
<1>4. /\ cyc[c] \in Seq(Nat) /\ sig[c] \in Seq(Moments) /\ SpanRead(c) \in 0 .. Depth
      /\ sampleCycles \in [Cells -> Nat] /\ signal \in [Cells -> Moments]
      /\ answer[c] = NoAnswer /\ call[c] = "fetch"
      /\ pc[c] = "cycles" => Len(cyc[c]) <= SpanRead(c)
      /\ pc[c] = "column" => Len(sig[c]) <= SpanRead(c)
  BY <1>1, <1>3, SpanRange DEF LocalTypes, IInv, TypeOK, Moments, ClientInv, InCall, ReadSoFar
<1>5. pc[c] = "cycles" => Continues(Nat, sampleCycles, cyc[c], SpanRead(c), moreCyc)
  BY <1>4, ChunkRead
<1>6. pc[c] = "column" => Continues(Moments, signal, sig[c], SpanRead(c), moreSig)
  BY <1>4, ChunkRead
<1> HIDE DEF moreCyc, moreSig
<1>7. /\ pc'[c] \in {"cycles", "column", "meta"} /\ UNCHANGED <<call, answer, disturbed>>
      /\ \A d \in Clients \ {c} : SameLocals(d)
  BY <1>1, <1>3 DEF Goto, LocalTypes, SameLocals
<1>8. \A d \in Clients : NoEdge(d)'
  BY <1>1, <1>2 DEF PInv, PrefixInv, NoEdge, StartEdge
<1>9. \A d \in Clients \ {c} : PrefixInv(d)'
  BY <1>1, <1>2, <1>7, <1>8, StandsPrefix DEF PInv
<1>10. ReadStillHolds(c)'
  <2> SUFFICES ASSUME trust[c] # "none", ~wrapped
               PROVE  /\ ~st[c].wrapped /\ st[c].writeIdx <= writeIdx
                      /\ \A i \in 1 .. Len(cyc'[c]) : cyc'[c][i] = sampleCycles[i - 1]
                      /\ \A i \in 1 .. Len(sig'[c]) : sig'[c][i] = signal[i - 1]
    BY <1>1, <1>2, <1>4, <1>7 DEF ReadStillHolds, SameBlock
  <2>1. /\ ~st[c].wrapped /\ st[c].writeIdx <= writeIdx
        /\ \A i \in 1 .. Len(cyc[c]) : cyc[c][i] = sampleCycles[i - 1]
        /\ \A i \in 1 .. Len(sig[c]) : sig[c][i] = signal[i - 1]
    BY <1>1, <1>3, <1>4 DEF PrefixInv, ReadStillHolds
  <2>2. CASE pc[c] = "cycles" /\ cyc' = [cyc EXCEPT ![c] = moreCyc] /\ sig' = sig
    <3>1. cyc'[c] = moreCyc
      BY <1>3, <2>2 DEF LocalTypes
    <3>2. Agrees(cyc[c], sampleCycles)
      BY <2>1 DEF Agrees
    <3>3. Agrees(moreCyc, sampleCycles)
      BY <1>4, <1>5, <2>2, <3>2, ChunkAgrees
    <3> QED BY <2>1, <2>2, <3>1, <3>3 DEF Agrees
  <2>3. CASE pc[c] = "column" /\ sig' = [sig EXCEPT ![c] = moreSig] /\ cyc' = cyc
    <3>1. sig'[c] = moreSig
      BY <1>3, <2>3 DEF LocalTypes
    <3>2. Agrees(sig[c], signal)
      BY <2>1 DEF Agrees
    <3>3. Agrees(moreSig, signal)
      BY <1>4, <1>6, <2>3, <3>2, ChunkAgrees
    <3> QED BY <2>1, <2>3, <3>1, <3>3 DEF Agrees
  <2> QED BY <1>1, <2>2, <2>3
<1>11. AnswerIsPrefix(c)'
  BY <1>4, <1>7 DEF AnswerIsPrefix, Fetched, NoAnswer
<1> QED BY <1>2, <1>8, <1>9, <1>10, <1>11 DEF PInv, PrefixInv

\* Without a wrap, row n is cell n, and cell n holds sample n of the run.
LEMMA RowsFirst ==
    ASSUME CInv, NEW c \in Clients, PrefixInv(c), pc[c] = "meta", trust[c] # "none", ~wrapped
    PROVE  FirstOfRun(RowsOf(c))
<1> DEFINE n == st[c].writeIdx
<1>1. ClientInv(c) /\ LocalTypes /\ IInv
  BY DEF CInv
<1>2. /\ ~st[c].wrapped /\ n <= writeIdx
      /\ \A i \in 1 .. Len(cyc[c]) : cyc[c][i] = sampleCycles[i - 1]
      /\ \A i \in 1 .. Len(sig[c]) : sig[c][i] = signal[i - 1]
  BY <1>1 DEF PrefixInv, ReadStillHolds, ClientInv, InCall
<1>3. SpanRead(c) = n /\ Len(cyc[c]) = n /\ Len(sig[c]) = n
  BY <1>1, <1>2 DEF SpanRead, Span, ClientInv, ReadSoFar
<1>4. n \in 0 .. Depth /\ Depth \in Nat /\ writeIdx \in 0 .. Depth
      /\ Len(history) = writeIdx
  BY <1>1, TraceAssumption DEF LocalTypes, Statuses, IInv, TypeOK, OccupancyIsKnown
<1>5. ASSUME NEW j \in 1 .. n
      PROVE  RowsOf(c)[j].sample = history[j] /\ RowsOf(c)[j].cycle = RowsOf(c)[j].sample.cycle
  <2>1. (j - 1) + 1 = j /\ j \in 1 .. writeIdx /\ Len(history) - writeIdx + j = j
    BY <1>2, <1>4
  <2>2. RowsOf(c)[j] = [cycle |-> cyc[c][j], sample |-> sig[c][j]]
    BY <1>2, <1>3, <2>1 DEF RowsOf, CellOf
  <2>3. cyc[c][j] = sampleCycles[j - 1] /\ sig[c][j] = signal[j - 1]
    BY <1>2, <1>3
  <2>4. Span(wrapped, writeIdx) = writeIdx /\ CellOf(wrapped, writeIdx, j - 1) = j - 1
    BY DEF Span, CellOf
  <2>5. signal[j - 1] = history[j] /\ sampleCycles[j - 1] = signal[j - 1].cycle
    BY <1>1, <2>1, <2>4, ReaderOrder DEF RingHoldsNewest, OldestFirst
  <2> QED BY <2>2, <2>3, <2>5
<1>6. Len(RowsOf(c)) = n
  BY <1>3, <1>4 DEF RowsOf
<1> QED BY <1>2, <1>4, <1>5, <1>6 DEF FirstOfRun

\* fetch() returns its rows.
LEMMA ReadMetaPrefix ==
    ASSUME CInv, PInv, NEW c \in Clients, ReadMeta(c) PROVE PInv'
<1>1. /\ pc[c] = "meta" /\ BlockUnchanged /\ trust' = trust
      /\ Return(c, [kind |-> "fetched", rows |-> RowsOf(c)])
  BY DEF ReadMeta
<1>2. StartSeen' /\ SameBlock /\ startMem' = startMem /\ start' = start
  BY <1>1, ControlStartSeen DEF PInv, BlockUnchanged, rvars, control
<1>3. /\ pc'[c] = "idle" /\ call'[c] = "none" /\ cyc'[c] = <<>> /\ sig'[c] = <<>>
      /\ answer'[c] = [kind |-> "fetched", rows |-> RowsOf(c)]
      /\ \A d \in Clients \ {c} : SameLocals(d)
  BY <1>1, ReturnLocals DEF CInv, LocalTypes
<1>4. \A d \in Clients : NoEdge(d)'
  BY <1>1, <1>2 DEF PInv, PrefixInv, NoEdge, StartEdge
<1>5. \A d \in Clients \ {c} : PrefixInv(d)'
  BY <1>1, <1>2, <1>3, <1>4, StandsPrefix DEF PInv
<1>6. ReadStillHolds(c)'
  BY <1>3 DEF ReadStillHolds
<1>7. AnswerIsPrefix(c)'
  <2> SUFFICES ASSUME trust[c] # "none", ~wrapped PROVE FirstOfRun(RowsOf(c))
    BY <1>1, <1>2, <1>3 DEF AnswerIsPrefix, FirstOfRun, SameBlock
  <2> QED BY <1>1, RowsFirst DEF PInv
<1> QED BY <1>2, <1>4, <1>5, <1>6, <1>7 DEF PInv, PrefixInv

\* A scan without a start edge only adds to an unwrapped run.
LEMMA ScanOnlyAdds ==
    ASSUME IInv, Scan, ~StartEdge, ~wrapped'
    PROVE  /\ ~wrapped /\ writeIdx <= writeIdx' /\ Len(history) <= Len(history')
           /\ \A j \in 1 .. Len(history) : history'[j] = history[j]
           /\ \A i \in 1 .. writeIdx : /\ sampleCycles'[i - 1] = sampleCycles[i - 1]
                                       /\ signal'[i - 1] = signal[i - 1]
<1>1. /\ writeIdx \in 0 .. Depth /\ Depth \in Nat /\ history \in Seq([run : Nat, cycle : Nat])
      /\ Len(history) \in Nat
      /\ sampleCycles \in [Cells -> Nat] /\ signal \in [Cells -> [run : Nat, cycle : Nat]]
  BY TraceAssumption DEF IInv, TypeOK
<1>2. CASE ScanIdle \/ ScanSkip
  <2>1. UNCHANGED <<wrapped, writeIdx, history, sampleCycles, signal>>
    BY <1>2 DEF ScanIdle, ScanSkip, buffers, ghosts
  <2> QED BY <1>1, <2>1
<1>3. CASE ScanSample
  <2> DEFINE now == [run |-> run, cycle |-> cycleCounter + 1]
  <2>1. LaterSample
    BY <1>3, LaterStep
  <2>2. /\ writeIdx \in Cells /\ ~wrapped /\ writeIdx' = writeIdx + 1
        /\ sampleCycles' = [sampleCycles EXCEPT ![writeIdx] = cycleCounter + 1]
        /\ signal' = [signal EXCEPT ![writeIdx] = now]
        /\ history' = Append(history, now)
    BY <2>1 DEF LaterSample
  <2>3. now \in [run : Nat, cycle : Nat]
    BY TraceAssumption DEF IInv, TypeOK
  <2> HIDE DEF now
  <2>4. /\ Len(history') = Len(history) + 1
        /\ \A j \in 1 .. Len(history) : history'[j] = history[j]
    BY <1>1, <2>2, <2>3
  <2>5. \A i \in 1 .. writeIdx : i - 1 \in Cells /\ i - 1 # writeIdx
    BY <1>1 DEF Cells
  <2>6. \A i \in 1 .. writeIdx : /\ sampleCycles'[i - 1] = sampleCycles[i - 1]
                                 /\ signal'[i - 1] = signal[i - 1]
    BY <1>1, <2>2, <2>5
  <2> QED BY <1>1, <2>2, <2>4, <2>6
<1> QED BY <1>2, <1>3 DEF Scan

\* A scan of the recorder beside the calls.
LEMMA PLCScanPrefix == ASSUME CInv, PInv, PLCScan PROVE PInv'
<1>1. Scan /\ UNCHANGED <<pc, call, rd, st, cyc, sig, answer, trust>> /\ start' = start
  BY DEF PLCScan, local, Scan, control
<1>2. startMem' = start /\ (recording' => start)
  BY <1>1 DEF Scan, ScanIdle, ScanSkip, ScanSample, Armed, StartEdge
<1>3. StartSeen'
  BY <1>2 DEF StartSeen
<1>4. ASSUME NEW d \in Clients PROVE PrefixInv(d)'
  <2>1. IInv /\ LocalTypes /\ ClientInv(d) /\ PrefixInv(d)
    BY DEF CInv, PInv
  <2>2. NoEdge(d)'
    BY <1>1, <1>2 DEF NoEdge, StartEdge
  <2>3. ASSUME trust[d] # "none", ~wrapped'
        PROVE  /\ ~wrapped /\ writeIdx <= writeIdx' /\ Len(history) <= Len(history')
               /\ \A j \in 1 .. Len(history) : history'[j] = history[j]
               /\ \A i \in 1 .. writeIdx : /\ sampleCycles'[i - 1] = sampleCycles[i - 1]
                                           /\ signal'[i - 1] = signal[i - 1]
    BY <1>1, <2>1, <2>3, ScanOnlyAdds DEF PrefixInv, NoEdge
  <2>4. ReadStillHolds(d)'
    <3> SUFFICES ASSUME call[d] = "fetch", trust[d] # "none", ~wrapped'
                 PROVE  ReadStillHolds(d)'
      BY <1>1 DEF ReadStillHolds
    <3>1. /\ pc[d] = "status" /\ rd[d] >= 2 => ~st[d].wrapped
          /\ pc[d] = "status" /\ rd[d] >= 3 => st[d].writeIdx <= writeIdx
          /\ pc[d] \in {"cycles", "column", "meta"} =>
               ~st[d].wrapped /\ st[d].writeIdx <= writeIdx
          /\ \A i \in 1 .. Len(cyc[d]) : cyc[d][i] = sampleCycles[i - 1]
          /\ \A i \in 1 .. Len(sig[d]) : sig[d][i] = signal[i - 1]
      BY <2>1, <2>3 DEF PrefixInv, ReadStillHolds
    <3>2. writeIdx \in Nat /\ writeIdx' \in Nat /\ st[d].writeIdx \in Nat
          /\ Len(cyc[d]) \in Nat /\ Len(sig[d]) \in Nat
      <4>1. IInv'
        BY <1>1, <2>1, NextIInv DEF Next
      <4>2. Depth \in Nat
        BY TraceAssumption
      <4>3. writeIdx \in Nat
        BY <2>1, <4>2 DEF IInv, TypeOK
      <4>4. writeIdx' \in Nat
        BY <4>1, <4>2 DEF IInv, TypeOK
      <4>5. st[d].writeIdx \in Nat
        BY <2>1, <4>2 DEF LocalTypes, Statuses
      <4>6. cyc[d] \in Seq(Nat) /\ sig[d] \in Seq(Moments)
        BY <2>1 DEF LocalTypes
      <4> QED BY <4>3, <4>4, <4>5, <4>6
    <3>3. Len(cyc[d]) <= writeIdx /\ Len(sig[d]) <= writeIdx
      <4>1. CASE pc[d] \in {"cycles", "column", "meta"}
        <5>1. SpanRead(d) = st[d].writeIdx /\ st[d].writeIdx <= writeIdx
          BY <3>1, <4>1 DEF SpanRead, Span
        <5>2. /\ pc[d] = "cycles" => Len(cyc[d]) <= SpanRead(d) /\ sig[d] = <<>>
              /\ pc[d] \in {"column", "meta"} => Len(cyc[d]) = SpanRead(d)
              /\ pc[d] = "column" => Len(sig[d]) <= SpanRead(d)
              /\ pc[d] = "meta" => Len(sig[d]) = SpanRead(d)
          BY <2>1 DEF ClientInv, ReadSoFar
        <5> QED BY <3>2, <4>1, <5>1, <5>2
      <4>2. CASE pc[d] \notin {"cycles", "column", "meta"}
        BY <2>1, <3>2, <4>2 DEF ClientInv, ReadSoFar
      <4> QED BY <4>1, <4>2
    <3>4. /\ pc[d] = "status" /\ rd[d] >= 3 => st[d].writeIdx <= writeIdx'
          /\ pc[d] \in {"cycles", "column", "meta"} => st[d].writeIdx <= writeIdx'
      BY <2>3, <3>1, <3>2
    <3>5. /\ \A i \in 1 .. Len(cyc[d]) : i \in 1 .. writeIdx
          /\ \A i \in 1 .. Len(sig[d]) : i \in 1 .. writeIdx
      BY <3>2, <3>3
    <3>6. \A i \in 1 .. writeIdx : /\ sampleCycles'[i - 1] = sampleCycles[i - 1]
                                   /\ signal'[i - 1] = signal[i - 1]
      BY <2>3
    <3>7. ASSUME NEW i \in 1 .. Len(cyc[d]) PROVE cyc[d][i] = sampleCycles'[i - 1]
      BY <3>1, <3>5, <3>6
    <3>8. ASSUME NEW i \in 1 .. Len(sig[d]) PROVE sig[d][i] = signal'[i - 1]
      BY <3>1, <3>5, <3>6
    <3> QED BY <1>1, <3>1, <3>4, <3>7, <3>8 DEF ReadStillHolds
  <2>5. AnswerIsPrefix(d)'
    <3> SUFFICES ASSUME Fetched(d), trust[d] # "none", ~wrapped'
                 PROVE  FirstOfRun(answer[d].rows)'
      BY <1>1 DEF AnswerIsPrefix, Fetched
    <3> DEFINE rows == answer[d].rows
    <3>1. /\ Len(rows) <= Len(history)
          /\ \A j \in 1 .. Len(rows) : /\ rows[j].sample = history[j]
                                       /\ rows[j].cycle = rows[j].sample.cycle
      BY <2>1, <2>3 DEF PrefixInv, AnswerIsPrefix, FirstOfRun
    <3> QED BY <1>1, <2>3, <3>1 DEF FirstOfRun
  <2> QED BY <2>2, <2>4, <2>5 DEF PrefixInv
<1> QED BY <1>3, <1>4 DEF PInv

\* A power cycle voids every start and stop.
LEMMA PLCRestartPrefix == ASSUME CInv, PInv, PLCRestart PROVE PInv'
<1>1. recording' = FALSE /\ trust' = [c \in Clients |-> "none"]
  BY DEF PLCRestart, Restart
<1>2. \A d \in Clients : PrefixInv(d)'
  BY <1>1 DEF PrefixInv, NoEdge, ReadStillHolds, AnswerIsPrefix
<1> QED BY <1>1, <1>2 DEF PInv, StartSeen

\* Every step keeps the second invariant.
LEMMA StepPInv == CInv /\ PInv /\ [CNext]_vars => PInv'
<1> SUFFICES ASSUME CInv, PInv, [CNext]_vars PROVE PInv'
  OBVIOUS
<1>1. ASSUME NEW c \in Clients, NewCall(c) PROVE PInv'
  BY <1>1, NewCallPrefix
<1>2. ASSUME NEW c \in Clients, RoundTrip(c) PROVE PInv'
  BY <1>2, WritesPrefix, PollsPrefix, ReadStatusPrefix, ReadArraysPrefix, ReadMetaPrefix
     DEF RoundTrip
<1>3. ASSUME NEW c \in Clients, DeadlinePasses(c) \/ RoundTripFails(c) PROVE PInv'
  BY <1>3, PollsPrefix
<1>4. CASE PLCScan
  BY <1>4, PLCScanPrefix
<1>5. CASE PLCRestart
  BY <1>5, PLCRestartPrefix
<1>6. CASE UNCHANGED vars
  <2>1. UNCHANGED rvars /\ UNCHANGED cvars
    BY <1>6 DEF vars
  <2>2. StartSeen' /\ SameBlock /\ startMem' = startMem /\ start' = start
    BY <2>1, ControlStartSeen DEF PInv, BlockUnchanged, rvars, control
  <2>3. \A d \in Clients : SameLocals(d) /\ trust'[d] = trust[d]
    BY <2>1 DEF cvars, local, SameLocals
  <2>4. \A d \in Clients : NoEdge(d)'
    BY <2>2, <2>3 DEF PInv, PrefixInv, NoEdge, StartEdge
  <2> QED BY <2>2, <2>3, <2>4, StandsPrefix DEF PInv
<1> QED BY <1>1, <1>2, <1>3, <1>4, <1>5, <1>6 DEF CNext

\* While a client's start or stop stands no run begins unnoticed: no scan sees
\* a start edge, and what its fetch() reads of an unwrapped run stays true.
THEOREM PrefixInvariance == CSpec => []PInv
<1>1. CInit => PInv
  <2> SUFFICES ASSUME CInit PROVE PInv
    OBVIOUS
  <2>1. ~recording /\ \A c \in Clients : trust[c] = "none"
    BY DEF CInit, Init
  <2> QED BY <2>1 DEF PInv, StartSeen, PrefixInv, NoEdge, ReadStillHolds, AnswerIsPrefix
<1> QED BY <1>1, StepPInv, ClientInvariance, PTL DEF CSpec

\* A fetch() may run beside the recorder: until the ring wraps, and so all
\* through a run that stays one-shot, it returns the first samples of the run,
\* oldest first and none torn, for every depth, chunk size and number of clients, as long as
\* the client's own start() or stop() stands (client.py:239, scaffold.py:226).
THEOREM UnwrappedFetchCorrect == CSpec => []UnwrappedFetchIsPrefix
<1>1. PInv => UnwrappedFetchIsPrefix
  BY DEF PInv, PrefixInv, AnswerIsPrefix, FirstOfRun, UnwrappedFetchIsPrefix
<1> QED BY <1>1, PrefixInvariance, PTL

-----------------------------------------------------------------------------
(* Composition.                                                            *)

\* A write of a client is one of those the recorder expects of its clients.
LEMMA WritesAreExpected ==
    ASSUME CInv, NEW c \in Clients, DoWriteMode(c) \/ DoWriteDecimation(c) \/ DoWriteStart(c)
    PROVE  ClientWrite
<1>1. InCall(c)
  BY DEF CInv, ClientInv
<1>2. CASE DoWriteMode(c)
  <2>1. req[c].mode \in Modes /\ WriteMode(req[c].mode) /\ WroteControl
    BY <1>1, <1>2 DEF DoWriteMode, InCall
  <2> QED BY <2>1 DEF ClientWrite, WroteControl
<1>3. CASE DoWriteDecimation(c)
  <2>1. /\ req[c].decimation \in Decimations /\ WriteDecimation(req[c].decimation)
        /\ WroteControl
    BY <1>1, <1>3 DEF DoWriteDecimation, InCall
  <2> QED BY <2>1 DEF ClientWrite, WroteControl
<1>4. CASE DoWriteStart(c)
  <2>1. (WriteStart(TRUE) \/ WriteStart(FALSE)) /\ WroteControl
    BY <1>4 DEF DoWriteStart
  <2> QED BY <2>1 DEF ClientWrite, WroteControl
<1> QED BY <1>2, <1>3, <1>4

\* Seen from the block, a step of the clients, of the PLC or of nobody is a
\* step of the recorder's specification.
LEMMA StepOfRecorder == CInv /\ [CNext]_vars => [Next]_rvars
<1> SUFFICES ASSUME CInv, [CNext]_vars PROVE [Next]_rvars
  OBVIOUS
<1>1. ASSUME NEW c \in Clients, NewCall(c) PROVE UNCHANGED rvars
  BY <1>1 DEF NewCall, CallStart, CallStop, CallSetDecimation, CallStatus, CallFetch, Begin
<1>2. ASSUME NEW c \in Clients, RoundTrip(c) PROVE ClientWrite \/ UNCHANGED rvars
  <2>1. CASE DoWriteMode(c) \/ DoWriteDecimation(c) \/ DoWriteStart(c)
    BY <2>1, WritesAreExpected
  <2>2. CASE PollMatches(c) \/ PollTimesOut(c)
    BY <2>2 DEF PollMatches, PollTimesOut, BlockUnchanged
  <2>3. CASE ReadStatus(c) \/ ReadCycles(c) \/ ReadColumn(c) \/ ReadMeta(c)
    BY <2>3 DEF ReadStatus, ReadCycles, ReadColumn, ReadMeta, BlockUnchanged
  <2> QED BY <1>2, <2>1, <2>2, <2>3 DEF RoundTrip
<1>3. ASSUME NEW c \in Clients, DeadlinePasses(c) \/ RoundTripFails(c) PROVE UNCHANGED rvars
  BY <1>3 DEF DeadlinePasses, RoundTripFails, BlockUnchanged
<1>4. PLCScan \/ PLCRestart => Scan \/ Restart
  BY DEF PLCScan, PLCRestart
<1>5. UNCHANGED vars => UNCHANGED rvars
  BY DEF vars
<1> QED BY <1>1, <1>2, <1>3, <1>4, <1>5 DEF CNext, Next

\* The Python clients, any number of them, with their faults and timeouts, are
\* an environment the recorder was specified for: whatever is proved of every
\* behaviour of the block alone holds of the block they drive.
THEOREM ClientsAreEnvironment == CSpec => Spec
<1>1. CInit => Init
  BY DEF CInit
<1> QED BY <1>1, StepOfRecorder, ClientInvariance, PTL DEF CSpec, Spec

\* Under the clients too, consecutive samples are as many cycles apart as the
\* decimation loaded with the earlier one, although start() and
\* set_decimation() write it at any moment of a run.
THEOREM SpacingUnderClients == CSpec => SamplesSpaced
BY ClientsAreEnvironment, Spacing

\* No call of any client makes a one-shot run overwrite a sample of its own.
THEOREM OneShotUnderClients == CSpec => OneShotNeverOverwrites
BY ClientsAreEnvironment, OneShotKeepsAll

-----------------------------------------------------------------------------
(* How much of a call is left.                                             *)

\* What a call has before it at each of its round trips: the arrays take at
\* most Depth reads each, the status four, a write one; polls that do not
\* match are not counted, as they change nothing.
Ahead == [idle |-> 0, meta |-> 2 * Depth + 1, column |-> 2 * Depth + 2,
          cycles |-> 2 * Depth + 3, status |-> 2 * Depth + 7,
          pollStop |-> 2 * Depth + 8, writeStop |-> 2 * Depth + 9,
          pollStart |-> 1, writeStart |-> 2, writeDecimation |-> 3, writeMode |-> 4]

Done(c) == (IF pc[c] = "status" THEN rd[c] ELSE 0) + Len(cyc[c]) + Len(sig[c])

Rest(c) == Ahead[pc[c]] - Done(c)

\* A call in progress has something left, and never more than a stop().
RestIsBounded ==
    \A c \in Clients : Rest(c) \in 0 .. 2 * Depth + 9 /\ (Rest(c) = 0 <=> pc[c] = "idle")

\* Nothing that happens puts a call back, and each of its round trips brings it
\* nearer its end.
CallsAdvance ==
    [][ \A c \in Clients :
            pc[c] # "idle" => /\ Rest(c)' <= Rest(c)
                              /\ RoundTrip(c) => Rest(c)' < Rest(c) ]_vars

\* The counts of a call in progress.
LEMMA DoneRange ==
    ASSUME CInv, NEW c \in Clients
    PROVE  /\ pc[c] \in Labels /\ rd[c] \in 0 .. 3
           /\ Len(cyc[c]) \in 0 .. Depth /\ Len(sig[c]) \in 0 .. Depth
           /\ pc[c] \notin {"cycles", "column", "meta"} => Len(cyc[c]) = 0
           /\ pc[c] \notin {"column", "meta"} => Len(sig[c]) = 0
<1>1. LocalTypes /\ ReadSoFar(c) /\ SpanRead(c) \in 0 .. Depth /\ Depth \in Nat
  BY SpanRange, TraceAssumption DEF CInv, ClientInv
<1>2. pc[c] \in Labels /\ rd[c] \in 0 .. 3 /\ cyc[c] \in Seq(Nat) /\ sig[c] \in Seq(Moments)
  BY <1>1 DEF LocalTypes
<1>3. Len(cyc[c]) \in Nat /\ Len(sig[c]) \in Nat /\ Len(<<>>) = 0
  BY <1>2
<1>4. /\ pc[c] \notin {"cycles", "column", "meta"} => Len(cyc[c]) = 0
      /\ pc[c] \notin {"column", "meta"} => Len(sig[c]) = 0
  BY <1>1, <1>3 DEF ReadSoFar
<1>5. Len(cyc[c]) <= SpanRead(c) \/ Len(cyc[c]) = 0
  BY <1>1, <1>3, <1>4 DEF ReadSoFar
<1>6. Len(sig[c]) <= SpanRead(c) \/ Len(sig[c]) = 0
  BY <1>1, <1>3, <1>4 DEF ReadSoFar
<1>7. Len(cyc[c]) \in 0 .. Depth /\ Len(sig[c]) \in 0 .. Depth
  BY <1>1, <1>3, <1>5, <1>6
<1> QED BY <1>2, <1>4, <1>7

\* A call in progress has something left.
LEMMA RestRange ==
    ASSUME CInv, NEW c \in Clients
    PROVE  Rest(c) \in 0 .. 2 * Depth + 9 /\ (Rest(c) = 0 <=> pc[c] = "idle")
<1> DEFINE y == Len(cyc[c])  s == Len(sig[c])  r == rd[c]
<1>1. /\ pc[c] \in Labels /\ r \in 0 .. 3 /\ y \in 0 .. Depth /\ s \in 0 .. Depth
      /\ pc[c] \notin {"cycles", "column", "meta"} => y = 0
      /\ pc[c] \notin {"column", "meta"} => s = 0
      /\ Depth \in Nat
  BY DoneRange, TraceAssumption
<1>2. Done(c) = (IF pc[c] = "status" THEN r ELSE 0) + y + s
  BY DEF Done
<1> HIDE DEF y, s, r
<1>3. CASE pc[c] \in {"idle", "meta", "column", "cycles", "status"}
  BY <1>1, <1>2, <1>3 DEF Rest, Ahead
<1>4. CASE pc[c] \in {"pollStop", "writeStop", "pollStart", "writeStart",
                    "writeDecimation", "writeMode"}
  BY <1>1, <1>2, <1>4 DEF Rest, Ahead
<1> QED BY <1>1, <1>3, <1>4 DEF Labels

\* The same of the next state.
LEMMA RestAfter == CInv' => (\A c \in Clients : Rest(c) \in Int)'
<1>1. CInv => \A c \in Clients : Rest(c) \in Int
  BY RestRange, TraceAssumption
<1> QED BY <1>1, PTL

\* A call that ends has nothing left.
LEMMA EndedRest ==
    ASSUME NEW c \in Clients, pc'[c] = "idle", cyc'[c] = <<>>, sig'[c] = <<>>
    PROVE  Rest(c)' = 0
<1>1. Len(cyc'[c]) = 0 /\ Len(sig'[c]) = 0
  OBVIOUS
<1> QED BY <1>1 DEF Rest, Done, Ahead

\* A client whose locals are left alone has as much left as before.
LEMMA SameRest ==
    ASSUME NEW d \in Clients, pc'[d] = pc[d], rd'[d] = rd[d], cyc'[d] = cyc[d], sig'[d] = sig[d]
    PROVE  Rest(d)' = Rest(d)
  BY DEF Rest, Done, Ahead

\* Return() in a call in progress.
LEMMA ReturnAdvances ==
    ASSUME CInv, NEW c \in Clients, pc[c] # "idle", NEW a, Return(c, a)
    PROVE  /\ Rest(c)' < Rest(c)
           /\ \A d \in Clients \ {c} : Rest(d)' = Rest(d)
<1>1. /\ pc'[c] = "idle" /\ cyc'[c] = <<>> /\ sig'[c] = <<>>
      /\ \A d \in Clients \ {c} : pc'[d] = pc[d] /\ rd'[d] = rd[d]
                                 /\ cyc'[d] = cyc[d] /\ sig'[d] = sig[d]
  BY DEF CInv, LocalTypes, Return
<1>2. Rest(c)' = 0
  BY <1>1, EndedRest
<1>3. Rest(c) \in Nat /\ Rest(c) # 0
  BY RestRange, TraceAssumption
<1>4. \A d \in Clients \ {c} : Rest(d)' = Rest(d)
  BY <1>1, SameRest
<1> QED BY <1>2, <1>3, <1>4

\* The table gives every label a number.
LEMMA AheadIsInt == ASSUME NEW l \in Labels PROVE Ahead[l] \in Int
<1>1. Depth \in Nat
  BY TraceAssumption
<1>2. CASE l \in {"idle", "meta", "column", "cycles", "status"}
  BY <1>1, <1>2 DEF Ahead
<1>3. CASE l \in {"pollStop", "writeStop", "pollStart", "writeStart",
                "writeDecimation", "writeMode"}
  BY <1>1, <1>3 DEF Ahead
<1> QED BY <1>2, <1>3 DEF Labels

\* Goto() to a round trip that has less before it, nothing read in between.
LEMMA GotoAdvances ==
    ASSUME CInv, NEW c \in Clients, NEW l \in Labels, Goto(c, l),
           pc[c] # "status", Ahead[l] < Ahead[pc[c]], UNCHANGED <<cyc, sig>>
    PROVE  /\ Rest(c)' < Rest(c)
           /\ \A d \in Clients \ {c} : Rest(d)' = Rest(d)
<1>1. /\ pc'[c] = l /\ rd'[c] = 0
      /\ \A d \in Clients \ {c} : pc'[d] = pc[d] /\ rd'[d] = rd[d]
  BY GotoLocals DEF CInv
<1>2. Len(cyc[c]) \in Nat /\ Len(sig[c]) \in Nat /\ pc[c] \in Labels /\ Depth \in Nat
  BY DoneRange, TraceAssumption
<1>0. ASSUME NEW y \in Nat, NEW s \in Nat PROVE y + s \in Nat
  OBVIOUS
<1>3. Ahead[l] \in Int /\ Ahead[pc[c]] \in Int
  BY <1>2, AheadIsInt
<1>4. Rest(c) = Ahead[pc[c]] - (Len(cyc[c]) + Len(sig[c]))
  BY <1>2, <1>3 DEF Rest, Done
<1>5. Done(c)' = Len(cyc[c]) + Len(sig[c])
  BY <1>1, <1>2 DEF Done
<1>6. Rest(c)' = Ahead[l] - (Len(cyc[c]) + Len(sig[c]))
  BY <1>1, <1>5 DEF Rest, Ahead
<1>7. Rest(c)' < Rest(c)
  <2> DEFINE n == Len(cyc[c]) + Len(sig[c])  x == Ahead[l]  y == Ahead[pc[c]]
  <2>0. n \in Nat
    BY <1>0, <1>2, Zenon
  <2>1. n \in Nat /\ x \in Int /\ y \in Int /\ x < y
    BY <1>3, <2>0, Zenon
  <2>2. Rest(c) = y - n /\ Rest(c)' = x - n
    BY <1>4, <1>6
  <2> HIDE DEF n, x, y
  <2> QED BY <2>1, <2>2
<1>8. \A d \in Clients \ {c} : Rest(d)' = Rest(d)
  BY <1>1, SameRest
<1> QED BY <1>7, <1>8

\* A write.
LEMMA WritesAdvance ==
    ASSUME CInv, NEW c \in Clients, DoWriteMode(c) \/ DoWriteDecimation(c) \/ DoWriteStart(c)
    PROVE  /\ Rest(c)' < Rest(c)
           /\ \A d \in Clients \ {c} : Rest(d)' = Rest(d)
<1>0. /\ Ahead["writeDecimation"] < Ahead["writeMode"]
      /\ Ahead["writeStart"] < Ahead["writeDecimation"]
      /\ Ahead["pollStart"] < Ahead["writeStart"]
      /\ Ahead["pollStop"] < Ahead["writeStop"]
  BY TraceAssumption DEF Ahead
<1>1. {"writeDecimation", "writeStart", "pollStart", "pollStop"} \subseteq Labels
  BY DEF Labels
<1>2. CASE DoWriteMode(c)
  BY <1>0, <1>1, <1>2, GotoAdvances DEF DoWriteMode
<1>3. CASE DoWriteDecimation(c) /\ Goto(c, "writeStart") /\ UNCHANGED <<st, cyc, sig>>
  BY <1>0, <1>1, <1>3, GotoAdvances DEF DoWriteDecimation
<1>4. CASE DoWriteDecimation(c) /\ Return(c, Answer("done"))
  BY <1>4, ReturnAdvances DEF DoWriteDecimation
<1>5. CASE DoWriteStart(c) /\ pc[c] = "writeStart" /\ Goto(c, "pollStart")
  BY <1>0, <1>1, <1>5, GotoAdvances DEF DoWriteStart
<1>6. CASE DoWriteStart(c) /\ pc[c] = "writeStop" /\ Goto(c, "pollStop")
  BY <1>0, <1>1, <1>6, GotoAdvances DEF DoWriteStart
<1> QED BY <1>2, <1>3, <1>4, <1>5, <1>6 DEF DoWriteDecimation, DoWriteStart

\* A poll that matches or raises.
LEMMA PollsAdvance ==
    ASSUME CInv, NEW c \in Clients, PollMatches(c) \/ PollTimesOut(c)
    PROVE  /\ Rest(c)' < Rest(c)
           /\ \A d \in Clients \ {c} : Rest(d)' = Rest(d)
<1>1. pc[c] \in {"pollStart", "pollStop"}
  BY DEF PollMatches, PollTimesOut, Waiting
<1>2. CASE PollTimesOut(c)
  BY <1>1, <1>2, ReturnAdvances DEF PollTimesOut
<1>3. CASE Return(c, Answer("started"))
  BY <1>1, <1>3, ReturnAdvances
<1>4. CASE /\ pc[c] = "pollStop" /\ pc' = [pc EXCEPT ![c] = "status"]
           /\ UNCHANGED <<rd, cyc, sig>>
  <2>1. /\ pc'[c] = "status"
        /\ \A d \in Clients \ {c} : pc'[d] = pc[d] /\ rd'[d] = rd[d]
                                   /\ cyc'[d] = cyc[d] /\ sig'[d] = sig[d]
    BY <1>4 DEF CInv, LocalTypes
  <2>2. Len(cyc[c]) = 0 /\ Len(sig[c]) = 0 /\ rd[c] \in 0 .. 3 /\ Depth \in Nat
    BY <1>4, DoneRange, TraceAssumption
  <2>3. Done(c) = 0 /\ Done(c)' = rd[c]
    BY <1>4, <2>1, <2>2 DEF Done
  <2>4. Rest(c) = 2 * Depth + 8 /\ Rest(c)' = 2 * Depth + 7 - rd[c]
    BY <1>4, <2>1, <2>2, <2>3 DEF Rest, Ahead
  <2>5. Rest(c)' < Rest(c)
    BY <2>2, <2>4
  <2>6. \A d \in Clients \ {c} : Rest(d)' = Rest(d)
    BY <2>1, SameRest
  <2> QED BY <2>5, <2>6
<1> QED BY <1>2, <1>3, <1>4 DEF PollMatches

\* A field of the status.
LEMMA ReadStatusAdvances ==
    ASSUME CInv, NEW c \in Clients, ReadStatus(c)
    PROVE  /\ Rest(c)' < Rest(c)
           /\ \A d \in Clients \ {c} : Rest(d)' = Rest(d)
<1>1. pc[c] = "status" /\ Len(StatusFields) = 4
  BY DEF ReadStatus, StatusFields
<1>2. Len(cyc[c]) = 0 /\ Len(sig[c]) = 0 /\ rd[c] \in 0 .. 3 /\ Depth \in Nat
  BY <1>1, DoneRange, TraceAssumption
<1>3. Rest(c) = 2 * Depth + 7 - rd[c]
  BY <1>1, <1>2 DEF Rest, Done, Ahead
<1>4. CASE rd' = [rd EXCEPT ![c] = rd[c] + 1] /\ UNCHANGED <<pc, cyc, sig>>
  <2>1. /\ rd'[c] = rd[c] + 1 /\ pc'[c] = "status"
        /\ \A d \in Clients \ {c} : pc'[d] = pc[d] /\ rd'[d] = rd[d]
                                   /\ cyc'[d] = cyc[d] /\ sig'[d] = sig[d]
    BY <1>1, <1>4 DEF CInv, LocalTypes
  <2>2. Done(c)' = rd[c] + 1
    BY <1>2, <1>4, <2>1 DEF Done
  <2>3. Rest(c)' = 2 * Depth + 7 - (rd[c] + 1)
    BY <1>2, <2>1, <2>2 DEF Rest, Ahead
  <2>4. Rest(c)' < Rest(c)
    BY <1>2, <1>3, <2>3
  <2>5. \A d \in Clients \ {c} : Rest(d)' = Rest(d)
    BY <2>1, SameRest
  <2> QED BY <2>4, <2>5
<1>5. CASE \E a : Return(c, a)
  BY <1>1, <1>5, ReturnAdvances
<1>6. CASE Goto(c, "cycles") /\ UNCHANGED <<cyc, sig>>
  <2>1. /\ pc'[c] = "cycles"
        /\ \A d \in Clients \ {c} : pc'[d] = pc[d] /\ rd'[d] = rd[d]
    BY <1>6, GotoLocals DEF CInv, Labels
  <2>5. Len(cyc'[c]) = 0 /\ Len(sig'[c]) = 0
    BY <1>2, <1>6
  <2>0. Done(c)' = 0
    BY <2>1, <2>5 DEF Done
  <2>2. Rest(c)' = 2 * Depth + 3
    BY <1>2, <2>0, <2>1 DEF Rest, Ahead
  <2>3. Rest(c)' < Rest(c)
    BY <1>2, <1>3, <2>2
  <2>4. \A d \in Clients \ {c} : Rest(d)' = Rest(d)
    BY <1>6, <2>1, SameRest
  <2> QED BY <2>3, <2>4
<1>7. \/ rd' = [rd EXCEPT ![c] = rd[c] + 1] /\ UNCHANGED <<pc, cyc, sig>>
      \/ \E a : Return(c, a)
      \/ Goto(c, "cycles") /\ UNCHANGED <<cyc, sig>>
  BY DEF ReadStatus
<1> QED BY <1>4, <1>5, <1>6, <1>7

\* The table at the labels where the arrays are read.
LEMMA AheadIs == /\ Ahead["cycles"] = 2 * Depth + 3
                 /\ Ahead["column"] = 2 * Depth + 2
                 /\ Ahead["meta"] = 2 * Depth + 1
  BY DEF Ahead

\* A chunk is never empty while cells are missing.
LEMMA ChunkGrows ==
    ASSUME NEW S, NEW array \in [Cells -> S], NEW q \in Seq(S),
           NEW count \in 0 .. Depth, Len(q) <= count
    PROVE  LET more == q \o ChunkOf(array, Len(q), count)
           IN  Len(more) \in Nat /\ Len(q) <= Len(more) /\ (Len(q) < count => Len(q) < Len(more))
<1> DEFINE hi == IF Len(q) + FetchChunk < count THEN Len(q) + FetchChunk ELSE count
           k == hi - Len(q)
           chunk == [i \in 1 .. k |-> array[Len(q) + i - 1]]
<1>1. Depth \in Nat /\ FetchChunk \in Nat /\ FetchChunk # 0 /\ Len(q) \in Nat /\ count \in Nat
  BY TraceAssumption, ClientAssumption
<1>2. /\ hi \in Nat /\ Len(q) <= hi /\ hi <= count /\ k \in Nat /\ Len(q) + k = hi
      /\ Len(q) < count => Len(q) < hi
  BY <1>1
<1>3. ChunkOf(array, Len(q), count) = chunk
  BY DEF ChunkOf
<1> HIDE DEF hi, k
<1>4. \A i \in 1 .. k : array[Len(q) + i - 1] \in S
  BY <1>1, <1>2 DEF Cells
<1>5. chunk \in Seq(S) /\ Len(chunk) = k
  BY <1>2, <1>4
<1>6. Len(q \o chunk) = hi
  BY <1>1, <1>2, <1>5
<1> QED BY <1>1, <1>2, <1>3, <1>6

\* A chunk of either array.
LEMMA ReadArraysAdvance ==
    ASSUME CInv, NEW c \in Clients, ReadCycles(c) \/ ReadColumn(c)
    PROVE  /\ Rest(c)' < Rest(c)
           /\ \A d \in Clients \ {c} : Rest(d)' = Rest(d)
<1>1. LocalTypes /\ ReadSoFar(c) /\ SpanRead(c) \in 0 .. Depth /\ Depth \in Nat
  BY SpanRange, TraceAssumption DEF CInv, ClientInv
<1>2. /\ cyc[c] \in Seq(Nat) /\ sig[c] \in Seq(Moments)
      /\ sampleCycles \in [Cells -> Nat] /\ signal \in [Cells -> Moments]
  BY <1>1 DEF CInv, IInv, TypeOK, LocalTypes, Moments
<1>3. SpanRead(c) \in Nat /\ Depth \in Nat
  BY <1>1, SpanRange
<1>4. CASE ReadCycles(c)
  <2> DEFINE more == cyc[c] \o ChunkOf(sampleCycles, Len(cyc[c]), SpanRead(c))
             l == IF Len(more) < SpanRead(c) THEN "cycles" ELSE "column"
             n == SpanRead(c)  y == Len(cyc[c])  z == Len(sig[c])  m == Len(more)
  <2>1. /\ pc[c] = "cycles" /\ cyc' = [cyc EXCEPT ![c] = more] /\ Goto(c, l)
        /\ UNCHANGED <<st, sig>>
    BY <1>4 DEF ReadCycles
  <2>2. y <= n /\ y \in Nat /\ z \in Nat
    BY <1>1, <1>2, <2>1 DEF ReadSoFar
  <2>3. m \in Nat /\ y <= m /\ (y < n => y < m)
    BY <1>1, <1>2, <2>2, ChunkGrows
  <2>4. l \in Labels
    BY DEF Labels
  <2>5. pc'[c] = l /\ \A d \in Clients \ {c} : pc'[d] = pc[d] /\ rd'[d] = rd[d]
    BY <1>1, <2>1, <2>4, GotoLocals
  <2>6. cyc'[c] = more /\ \A d \in Clients \ {c} : cyc'[d] = cyc[d] /\ sig'[d] = sig[d]
    BY <1>1, <2>1 DEF LocalTypes
  <2>7. \A d \in Clients \ {c} : Rest(d)' = Rest(d)
    BY <2>5, <2>6, SameRest
  <2>8. Len(cyc'[c]) = m /\ Len(sig'[c]) = z
    BY <2>1, <2>6
  <2>9. l = IF m < n THEN "cycles" ELSE "column"
    OBVIOUS
  <2>10. Len(cyc[c]) = y /\ Len(sig[c]) = z
    OBVIOUS
  <2> HIDE DEF more, l, n, y, z, m
  <2>11. Done(c) = y + z /\ Done(c)' = m + z
    BY <2>1, <2>2, <2>3, <2>5, <2>8, <2>9, <2>10 DEF Done
  <2>12. Rest(c) = Ahead["cycles"] - (y + z)
    BY <2>1, <2>11 DEF Rest
  <2>13. Rest(c)' = Ahead[l] - (m + z)
    <3>1. Rest(c)' = Ahead[l] - Done(c)'
      BY <2>5 DEF Rest, Ahead
    <3> QED BY <2>11, <3>1
  <2>14. Ahead[l] = IF m < n THEN 2 * Depth + 3 ELSE 2 * Depth + 2
    BY <2>9, AheadIs
  <2>15. n \in Nat /\ Depth \in Nat
    BY <1>3 DEF n
  <2>16. Rest(c)' < Rest(c)
    BY <2>2, <2>3, <2>12, <2>13, <2>14, <2>15, AheadIs
  <2> QED BY <2>7, <2>16
<1>5. CASE ReadColumn(c)
  <2> DEFINE more == sig[c] \o ChunkOf(signal, Len(sig[c]), SpanRead(c))
             l == IF Len(more) < SpanRead(c) THEN "column" ELSE "meta"
             n == SpanRead(c)  y == Len(sig[c])  z == Len(cyc[c])  m == Len(more)
  <2>1. /\ pc[c] = "column" /\ sig' = [sig EXCEPT ![c] = more] /\ Goto(c, l)
        /\ UNCHANGED <<st, cyc>>
    BY <1>5 DEF ReadColumn
  <2>2. y <= n /\ y \in Nat /\ z \in Nat
    BY <1>1, <1>2, <2>1 DEF ReadSoFar
  <2>3. m \in Nat /\ y <= m /\ (y < n => y < m)
    BY <1>1, <1>2, <2>2, ChunkGrows
  <2>4. l \in Labels
    BY DEF Labels
  <2>5. pc'[c] = l /\ \A d \in Clients \ {c} : pc'[d] = pc[d] /\ rd'[d] = rd[d]
    BY <1>1, <2>1, <2>4, GotoLocals
  <2>6. sig'[c] = more /\ \A d \in Clients \ {c} : cyc'[d] = cyc[d] /\ sig'[d] = sig[d]
    BY <1>1, <2>1 DEF LocalTypes
  <2>7. \A d \in Clients \ {c} : Rest(d)' = Rest(d)
    BY <2>5, <2>6, SameRest
  <2>8. Len(sig'[c]) = m /\ Len(cyc'[c]) = z
    BY <2>1, <2>6
  <2>9. l = IF m < n THEN "column" ELSE "meta"
    OBVIOUS
  <2>10. Len(sig[c]) = y /\ Len(cyc[c]) = z
    OBVIOUS
  <2> HIDE DEF more, l, n, y, z, m
  <2>11. Done(c) = y + z /\ Done(c)' = m + z
    BY <2>1, <2>2, <2>3, <2>5, <2>8, <2>9, <2>10 DEF Done
  <2>12. Rest(c) = Ahead["column"] - (y + z)
    BY <2>1, <2>11 DEF Rest
  <2>13. Rest(c)' = Ahead[l] - (m + z)
    <3>1. Rest(c)' = Ahead[l] - Done(c)'
      BY <2>5 DEF Rest, Ahead
    <3> QED BY <2>11, <3>1
  <2>14. Ahead[l] = IF m < n THEN 2 * Depth + 2 ELSE 2 * Depth + 1
    BY <2>9, AheadIs
  <2>15. n \in Nat /\ Depth \in Nat
    BY <1>3 DEF n
  <2>16. Rest(c)' < Rest(c)
    BY <2>2, <2>3, <2>12, <2>13, <2>14, <2>15, AheadIs
  <2> QED BY <2>7, <2>16
<1> QED BY <1>4, <1>5

\* Each round trip brings the call that makes it nearer its end.
LEMMA RoundTripAdvances ==
    ASSUME CInv, NEW c \in Clients, RoundTrip(c)
    PROVE  /\ Rest(c)' < Rest(c)
           /\ \A d \in Clients \ {c} : Rest(d)' = Rest(d)
<1>1. CASE ReadMeta(c)
  BY <1>1, ReturnAdvances DEF ReadMeta
<1> QED BY <1>1, WritesAdvance, PollsAdvance, ReadStatusAdvances, ReadArraysAdvance
        DEF RoundTrip

\* A call in progress loses nothing by what others do, by a scan, a restart or a
\* deadline; a new call touches its own client only.
LEMMA OthersDoNotDelay ==
    ASSUME CInv, CNext, NEW c \in Clients, pc[c] # "idle", ~RoundTrip(c)
    PROVE  Rest(c)' <= Rest(c)
<1>0. Rest(c) \in Nat
  BY RestRange, TraceAssumption
<1>1. CASE PLCScan \/ PLCRestart
  <2>1. UNCHANGED <<pc, rd, cyc, sig>>
    BY <1>1 DEF PLCScan, PLCRestart, local
  <2> QED BY <1>0, <2>1, SameRest
<1>2. ASSUME NEW d \in Clients, NewCall(d) PROVE Rest(c)' <= Rest(c)
  <2>1. \E n, l, r : Begin(d, n, l, r)
    BY <1>2 DEF NewCall, CallStart, CallStop, CallSetDecimation, CallStatus, CallFetch
  <2>2. pc'[c] = pc[c] /\ rd'[c] = rd[c] /\ cyc'[c] = cyc[c] /\ sig'[c] = sig[c]
    BY <2>1 DEF Begin, CInv, LocalTypes
  <2> QED BY <1>0, <2>2, SameRest
<1>3. ASSUME NEW d \in Clients, RoundTrip(d) PROVE Rest(c)' <= Rest(c)
  <2>1. Rest(c)' = Rest(c)
    BY <1>3, RoundTripAdvances
  <2> QED BY <1>0, <2>1
<1>4. ASSUME NEW d \in Clients, DeadlinePasses(d) PROVE Rest(c)' <= Rest(c)
  BY <1>0, <1>4, SameRest DEF DeadlinePasses
<1>5. ASSUME NEW d \in Clients, RoundTripFails(d) PROVE Rest(c)' <= Rest(c)
  <2>1. Return(d, Answer("error")) /\ pc[d] # "idle"
    BY <1>5 DEF RoundTripFails
  <2>2. Rest(d)' < Rest(d) /\ \A e \in Clients \ {d} : Rest(e)' = Rest(e)
    BY <2>1, ReturnAdvances
  <2>3. CASE c = d
    <3>1. Rest(c)' = 0
      BY <2>1, <2>3, EndedRest DEF Return, CInv, LocalTypes
    <3> QED BY <1>0, <3>1
  <2>4. CASE c # d
    <3>1. Rest(c)' = Rest(c)
      BY <2>2, <2>4
    <3> QED BY <1>0, <3>1
  <2> QED BY <2>3, <2>4
<1> QED BY <1>1, <1>2, <1>3, <1>4, <1>5 DEF CNext

\* Every call is bounded, for every depth, chunk size and number of clients:
\* whatever the block, the network and the other clients do, no step puts a call
\* back, each of its round trips that is not a poll to be repeated brings it
\* nearer its end, and there are at most 2 * Depth + 9 of them (client.py:239, client.py:318).
\* It is the part of CallsReturn that needs no fairness: what is left to it is
\* that a round trip is answered and that the deadline of a poll passes.
THEOREM CallsAreBounded == CSpec => []RestIsBounded /\ CallsAdvance
<1> DEFINE A == \A c \in Clients : pc[c] # "idle" =>
                   /\ Rest(c)' <= Rest(c)
                   /\ RoundTrip(c) => Rest(c)' < Rest(c)
<1>1. CInv => RestIsBounded
  BY RestRange DEF RestIsBounded
<1>2. CInv /\ [CNext]_vars => [A]_vars
  <2> SUFFICES ASSUME CInv, CNext, NEW c \in Clients, pc[c] # "idle"
               PROVE  /\ Rest(c)' <= Rest(c)
                      /\ RoundTrip(c) => Rest(c)' < Rest(c)
    OBVIOUS
  <2>1. CASE RoundTrip(c)
    <3>1. Rest(c) \in Nat /\ Rest(c)' < Rest(c)
      BY <2>1, RoundTripAdvances, RestRange, TraceAssumption
    <3>2. Rest(c)' \in Int
      <4>1. CInv'
        BY StepCInv
      <4>2. (\A d \in Clients : Rest(d) \in Int)'
        BY <4>1, RestAfter
      <4> QED BY <4>2
    <3> QED BY <3>1, <3>2
  <2>2. CASE ~RoundTrip(c)
    BY <2>2, OthersDoNotDelay
  <2> QED BY <2>1, <2>2
<1> QED BY <1>1, <1>2, ClientInvariance, PTL DEF CSpec, CallsAdvance
=============================================================================
