----------------------------- MODULE TraceClient -----------------------------
(***************************************************************************)
(* TraceClient of plc-trace (client.py) driving the recorder over OPC UA.  *)
(*                                                                         *)
(* Every read and every write of a tag is a round trip of its own, so the  *)
(* recorder's scans, PLC restarts and the calls of other clients (the CLI  *)
(* opens a session per command, a scenario run has one client) fall        *)
(* between any two of them.                                                *)
(***************************************************************************)
EXTENDS TraceRecorder, FiniteSets

CONSTANTS Clients,          \* TraceClient instances
          FetchChunk,       \* TraceConfig.fetch_chunk
          MaxFailures       \* bound on round trips that raise

ASSUME ClientAssumption ==
    /\ IsFiniteSet(Clients)
    /\ FetchChunk \in Nat \ {0} /\ MaxFailures \in Nat

VARIABLES pc,        \* next round trip of the call in progress
          call,      \* the call in progress
          req,       \* start(): the arguments
          rd,        \* number of round trips done within this step of the call
          st,        \* status(): the fields read so far
          cyc, sig,  \* fetch(): the arrays read so far
          expired,   \* _wait_for(): the deadline has passed
          answer,    \* what the last call returned or raised
          failures,  \* round trips that raised so far
          trust,     \* history: the start or stop call that still stands
          disturbed  \* history: the block changed since the call began

local == <<pc, call, req, rd, st, cyc, sig, expired>>
cvars == <<local, answer, failures, trust, disturbed>>
vars  == <<rvars, cvars>>

StatusFields == <<"recording", "wrapped", "writeIdx", "sampleCount">>
StatusNow == [recording |-> recording, wrapped |-> wrapped,
              writeIdx |-> writeIdx, sampleCount |-> sampleCount]

NoStatus  == [recording |-> FALSE, wrapped |-> FALSE, writeIdx |-> 0, sampleCount |-> 0]
NoRequest == [mode |-> Ring, decimation |-> 0]
NoAnswer  == [kind |-> "none", rows |-> <<>>]
Answer(kind) == [kind |-> kind, rows |-> <<>>]

CInit ==
    /\ Init
    /\ pc = [c \in Clients |-> "idle"]
    /\ call = [c \in Clients |-> "none"]
    /\ req = [c \in Clients |-> NoRequest]
    /\ rd = [c \in Clients |-> 0]
    /\ st = [c \in Clients |-> NoStatus]
    /\ cyc = [c \in Clients |-> <<>>]
    /\ sig = [c \in Clients |-> <<>>]
    /\ expired = [c \in Clients |-> FALSE]
    /\ answer = [c \in Clients |-> NoAnswer]
    /\ failures = 0
    /\ trust = [c \in Clients |-> "none"]
    /\ disturbed = [c \in Clients |-> FALSE]

-----------------------------------------------------------------------------
(* Calls: where they begin, and how they end. *)

Begin(c, name, label, r) ==
    /\ pc[c] = "idle"
    /\ pc' = [pc EXCEPT ![c] = label]
    /\ call' = [call EXCEPT ![c] = name]
    /\ req' = [req EXCEPT ![c] = r]
    /\ rd' = [rd EXCEPT ![c] = 0]
    /\ answer' = [answer EXCEPT ![c] = NoAnswer]
    /\ disturbed' = [disturbed EXCEPT ![c] = FALSE]
    /\ UNCHANGED <<rvars, st, cyc, sig, expired, failures, trust>>

\* MaxRuns bounds the calls, so that a start edge is never left waiting.
CallStart(c) == /\ run < MaxRuns
                /\ \E m \in Modes, k \in Decimations :
                      Begin(c, "start", "writeMode", [mode |-> m, decimation |-> k])
CallStop(c)  == Begin(c, "stop", "writeStop", NoRequest)
CallSetDecimation(c) == \E k \in Decimations :
                    Begin(c, "set_decimation", "writeDecimation",
                          [mode |-> Ring, decimation |-> k])
CallStatus(c) == Begin(c, "status", "status", NoRequest)
CallFetch(c)  == Begin(c, "fetch", "status", NoRequest)

\* The call is over; its locals are gone.
Return(c, a) ==
    /\ pc' = [pc EXCEPT ![c] = "idle"]
    /\ call' = [call EXCEPT ![c] = "none"]
    /\ req' = [req EXCEPT ![c] = NoRequest]
    /\ rd' = [rd EXCEPT ![c] = 0]
    /\ st' = [st EXCEPT ![c] = NoStatus]
    /\ cyc' = [cyc EXCEPT ![c] = <<>>]
    /\ sig' = [sig EXCEPT ![c] = <<>>]
    /\ expired' = [expired EXCEPT ![c] = FALSE]
    /\ answer' = [answer EXCEPT ![c] = a]
    /\ UNCHANGED disturbed

\* The call goes on with another round trip.
Goto(c, label) ==
    /\ pc' = [pc EXCEPT ![c] = label]
    /\ rd' = [rd EXCEPT ![c] = 0]
    /\ UNCHANGED <<call, req, expired, answer, failures, disturbed>>

BlockUnchanged == UNCHANGED rvars
WroteControl == UNCHANGED <<status, buffers, ghosts, restarts>>

-----------------------------------------------------------------------------
(* start(), stop() and set_decimation(): the writes. *)

DoWriteMode(c) ==
    /\ pc[c] = "writeMode"
    /\ WriteMode(req[c].mode) /\ WroteControl
    /\ Goto(c, "writeDecimation")
    /\ UNCHANGED <<st, cyc, sig, trust>>

DoWriteDecimation(c) ==
    /\ pc[c] = "writeDecimation"
    /\ WriteDecimation(req[c].decimation) /\ WroteControl
    /\ \/ /\ call[c] = "start" /\ Goto(c, "writeStart")
          /\ UNCHANGED <<st, cyc, sig>>
       \/ /\ call[c] = "set_decimation" /\ Return(c, Answer("done"))
          /\ UNCHANGED failures
    /\ UNCHANGED trust

\* The history `trust': raising control.start voids every client's stop().
DoWriteStart(c) ==
    /\ \/ pc[c] = "writeStart" /\ WriteStart(TRUE) /\ Goto(c, "pollStart")
       \/ pc[c] = "writeStop" /\ WriteStart(FALSE) /\ Goto(c, "pollStop")
    /\ WroteControl
    /\ trust' = [d \in Clients |->
                    IF pc[c] = "writeStop" THEN IF d = c THEN "stopping" ELSE trust[d]
                    ELSE "none"]
    /\ UNCHANGED <<st, cyc, sig>>

-----------------------------------------------------------------------------
(* _wait_for(): read; done if equal; raise if past the deadline; sleep. *)

\* Mutant: stop() goes on whatever the block reports.
StopDoesNotWait(c) == IF pc[c] = "pollStop" THEN recording ELSE TRUE

Expected(c) == pc[c] = "pollStart"

Waiting(c) == pc[c] \in {"pollStart", "pollStop"}

DeadlinePasses(c) ==
    /\ Waiting(c) /\ ~expired[c]
    /\ expired' = [expired EXCEPT ![c] = TRUE]
    /\ UNCHANGED <<rvars, pc, call, req, rd, st, cyc, sig, answer, failures,
                   trust, disturbed>>

PollMatches(c) ==
    /\ Waiting(c) /\ recording = Expected(c)
    /\ BlockUnchanged
    /\ \/ /\ pc[c] = "pollStart"
          /\ Return(c, Answer("started")) /\ UNCHANGED failures
          /\ trust' = [trust EXCEPT ![c] = "started"]
       \/ /\ pc[c] = "pollStop"
          /\ pc' = [pc EXCEPT ![c] = "status"]
          /\ expired' = [expired EXCEPT ![c] = FALSE]
          /\ UNCHANGED <<call, req, rd, st, cyc, sig, answer, failures, trust,
                         disturbed>>

\* Mutant: past its deadline the poll sleeps and reads again.
PollSleepsOn(c) ==
    /\ Waiting(c) /\ recording # Expected(c) /\ expired[c]
    /\ UNCHANGED vars

PollTimesOut(c) ==
    /\ Waiting(c) /\ recording # Expected(c) /\ expired[c]
    /\ BlockUnchanged
    /\ Return(c, Answer("timeout"))
    /\ trust' = [trust EXCEPT ![c] = IF @ = "stopping" THEN "none" ELSE @]
    /\ UNCHANGED failures

\* Otherwise the poll reads again later: nothing changes.

-----------------------------------------------------------------------------
(* status(): a round trip per field.  cycleCounter is only reported, and     *)
(* cycleTimeMs and depth are constant; their reads are left out.             *)

ReadStatus(c) ==
    LET f == StatusFields[rd[c] + 1]
        s == [st[c] EXCEPT ![f] = StatusNow[f]]
        last == rd[c] + 1 = Len(StatusFields)
        empty == s.sampleCount = 0
    IN  /\ pc[c] = "status"
        /\ BlockUnchanged
        /\ \/ /\ ~last
              /\ st' = [st EXCEPT ![c] = s]
              /\ rd' = [rd EXCEPT ![c] = @ + 1]
              /\ UNCHANGED <<pc, call, req, cyc, sig, expired, answer, failures,
                             trust, disturbed>>
           \/ /\ last /\ call[c] = "status"
              /\ Return(c, Answer("done")) /\ UNCHANGED <<failures, trust>>
           \/ /\ last /\ call[c] = "stop"
              /\ Return(c, Answer("stopped")) /\ UNCHANGED failures
              /\ trust' = [trust EXCEPT ![c] = IF @ = "stopping" THEN "stopped" ELSE @]
           \/ /\ last /\ call[c] = "fetch" /\ empty
              /\ Return(c, Answer("empty")) /\ UNCHANGED <<failures, trust>>
           \/ /\ last /\ call[c] = "fetch" /\ ~empty
              /\ st' = [st EXCEPT ![c] = s]
              /\ Goto(c, "cycles")
              /\ UNCHANGED <<cyc, sig, trust>>

-----------------------------------------------------------------------------
(* fetch() after status(): sampleCycles, then the column, in chunks.         *)

\* Mutant: the whole array is fetched.
WholeArray(c) == Depth

SpanRead(c) == Span(st[c].wrapped, st[c].writeIdx)

\* Mutant: every chunk starts at cell 0.
FirstChunk(array, lo, count) ==
    [i \in 1 .. (IF FetchChunk < count THEN FetchChunk ELSE count) |-> array[i - 1]]

\* The cells lo .. of the next chunk of an array, up to the span.
ChunkOf(array, lo, count) ==
    LET hi == IF lo + FetchChunk < count THEN lo + FetchChunk ELSE count
    IN  [i \in 1 .. hi - lo |-> array[lo + i - 1]]

ReadCycles(c) ==
    LET more == cyc[c] \o ChunkOf(sampleCycles, Len(cyc[c]), SpanRead(c))
    IN  /\ pc[c] = "cycles"
        /\ BlockUnchanged
        /\ cyc' = [cyc EXCEPT ![c] = more]
        /\ Goto(c, IF Len(more) < SpanRead(c) THEN "cycles" ELSE "column")
        /\ UNCHANGED <<st, sig, trust>>

ReadColumn(c) ==
    LET more == sig[c] \o ChunkOf(signal, Len(sig[c]), SpanRead(c))
    IN  /\ pc[c] = "column"
        /\ BlockUnchanged
        /\ sig' = [sig EXCEPT ![c] = more]
        /\ Goto(c, IF Len(more) < SpanRead(c) THEN "column" ELSE "meta")
        /\ UNCHANGED <<st, cyc, trust>>

\* Rows oldest-first, in the order computed from the status.
RowsOf(c) ==
    [n \in 1 .. SpanRead(c) |->
        LET i == CellOf(st[c].wrapped, st[c].writeIdx, n - 1) + 1
        IN  [cycle |-> cyc[c][i], sample |-> sig[c][i]]]

\* control.mode and control.decimation are read for the metadata; done.
ReadMeta(c) ==
    /\ pc[c] = "meta"
    /\ BlockUnchanged
    /\ Return(c, [kind |-> "fetched", rows |-> RowsOf(c)])
    /\ UNCHANGED <<failures, trust>>

-----------------------------------------------------------------------------
\* A round trip raises (connection lost): the call ends where it stands, and a
\* start or stop that was under way is not confirmed.  A write that reached the
\* block although its answer was lost is the write followed by this action.
RoundTripFails(c) ==
    /\ pc[c] # "idle" /\ failures < MaxFailures
    /\ failures' = failures + 1
    /\ BlockUnchanged
    /\ Return(c, Answer("error"))
    /\ trust' = [trust EXCEPT ![c] = IF @ = "stopping" THEN "none" ELSE @]

\* Whatever changes the sampled data disturbs the calls in progress.
sampled == <<wrapped, writeIdx, sampleCount, buffers>>

Disturb == disturbed' = [c \in Clients |->
                            pc[c] # "idle" /\ (disturbed[c] \/ sampled' # sampled)]

PLCScan ==
    /\ Scan /\ Disturb
    /\ UNCHANGED <<local, answer, failures, trust>>

PLCRestart ==
    /\ Restart /\ Disturb
    /\ trust' = [c \in Clients |-> "none"]
    /\ UNCHANGED <<local, answer, failures>>

RoundTrip(c) ==
    \/ DoWriteMode(c) \/ DoWriteDecimation(c) \/ DoWriteStart(c)
    \/ PollMatches(c) \/ PollTimesOut(c)
    \/ ReadStatus(c) \/ ReadCycles(c) \/ ReadColumn(c) \/ ReadMeta(c)

NewCall(c) == CallStart(c) \/ CallStop(c) \/ CallSetDecimation(c)
              \/ CallStatus(c) \/ CallFetch(c)

CNext ==
    \/ \E c \in Clients : NewCall(c) \/ RoundTrip(c) \/ DeadlinePasses(c)
                          \/ RoundTripFails(c)
    \/ PLCScan
    \/ PLCRestart

CSpec == CInit /\ [][CNext]_vars

\* The OB calls the FUNCTION in every cycle; the event loop resumes a call when
\* its round trip is answered; a deadline passes.  Nobody has to make a call.
Fairness ==
    /\ WF_vars(PLCScan)
    /\ \A c \in Clients : WF_vars(RoundTrip(c)) /\ WF_vars(DeadlinePasses(c))

FairSpec == CSpec /\ Fairness

-----------------------------------------------------------------------------
\* Every client variable has its type.
ClientTypeOK ==
    /\ TypeOK
    /\ pc \in [Clients -> {"idle", "writeMode", "writeDecimation", "writeStart",
                 "writeStop", "pollStart", "pollStop", "status", "cycles", "column", "meta"}]
    /\ call \in [Clients -> {"none", "start", "stop", "set_decimation", "status", "fetch"}]
    /\ req \in [Clients -> [mode : {Ring, OneShot}, decimation : Nat]]
    /\ rd \in [Clients -> 0 .. Len(StatusFields)]
    /\ st \in [Clients -> [recording : BOOLEAN, wrapped : BOOLEAN,
                           writeIdx : 0 .. Depth, sampleCount : Nat]]
    /\ \A c \in Clients : Len(cyc[c]) <= Depth /\ Len(sig[c]) <= Len(cyc[c])
    /\ expired \in [Clients -> BOOLEAN]
    /\ trust \in [Clients -> {"none", "started", "stopping", "stopped"}]

\* The rows are the newest samples of the run, all of them that are retained,
\* oldest first, and no row mixes two cycles.
ExactRows(rows) ==
    LET n == IF Len(history) < Depth THEN Len(history) ELSE Depth
    IN  /\ Len(rows) = n
        /\ \A j \in 1 .. n : /\ rows[j].sample = history[Len(history) - n + j]
                             /\ rows[j].cycle = rows[j].sample.cycle

Fetched(c) == answer[c].kind = "fetched"

\* The promise of the quick start (start, wait, stop, fetch): when the last
\* start or stop call a client completed was a stop(), its fetch() returns
\* exactly the retained samples.  fetch() never looks at `recording', so this
\* rests on start staying low, on the order computed from wrapped and writeIdx,
\* and on chunks that meet, through restarts and failed round trips.
FetchAfterStopIsExact ==
    \A c \in Clients : Fetched(c) /\ trust[c] = "stopped" => ExactRows(answer[c].rows)

\* What makes it so: once stop() has returned, the block is not recording and
\* no start edge is under way, until a client writes start again.
StopIsSettled ==
    \A c \in Clients : trust[c] = "stopped" => ~recording /\ ~Armed

\* With any number of clients and restarts, a fetch() during which the block
\* did not change is exact; only a change within the call can falsify it.
QuietFetchIsExact ==
    [][ \A c \in Clients :
            (pc[c] = "meta" /\ Fetched(c)' /\ ~disturbed[c])
                => ExactRows(answer'[c].rows) ]_vars

\* Until the ring wraps, and so in one-shot mode always, a fetch() may run
\* beside the recorder: the block only fills cells the reader does not look at,
\* so that it gets the first samples of the run, oldest first and none torn.
UnwrappedFetchIsPrefix ==
    \A c \in Clients :
        (Fetched(c) /\ trust[c] \in {"started", "stopped"} /\ ~wrapped) =>
            LET rows == answer[c].rows
            IN  /\ Len(rows) <= Len(history)
                /\ \A j \in 1 .. Len(rows) : /\ rows[j].sample = history[j]
                                             /\ rows[j].cycle = rows[j].sample.cycle

\* Every call returns or raises: _wait_for() does not outlive its deadline,
\* whatever the block does meanwhile.
CallsReturn == \A c \in Clients : (pc[c] # "idle") ~> (pc[c] = "idle")

\* A stop() that is waiting sees the block stop, unless start is raised again.
StopStops == \A c \in Clients : (pc[c] = "pollStop") ~> (~recording \/ start)
=============================================================================
