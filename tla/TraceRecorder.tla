---------------------------- MODULE TraceRecorder ----------------------------
(***************************************************************************)
(* The generated SCL recorder of plc-trace (scaffold.py): the data block   *)
(* `type<Name>' and the FUNCTION `<Name>Recorder' that the plant's cyclic  *)
(* OB calls once per cycle.                                                *)
(*                                                                         *)
(* One Scan is one call of the FUNCTION; an OPC UA write of a control tag  *)
(* falls between two scans.  The environment here is any client at all:    *)
(* it may write start, mode and decimation at any time.  TraceClient       *)
(* replaces it by the calls of the Python client.                          *)
(***************************************************************************)
EXTENDS Integers, Sequences

CONSTANTS Depth,            \* status.depth: cells of every array
          Modes,            \* values clients write to control.mode
          Decimations,      \* values clients write to control.decimation
          MaxCycles,        \* bound on the cycles of one run
          MaxRuns,          \* bound on the start edges
          MaxRestarts       \* bound on the PLC restarts

Ring    == 0
OneShot == 1

\* The counters of the block are UDInt and DInt; with MaxCycles below 2^31 (248
\* days of 10 ms cycles in one run) none of them wraps.
ASSUME TraceAssumption ==
    /\ Depth \in Nat \ {0}
    /\ Modes \subseteq {Ring, OneShot}
    /\ Decimations \subseteq Nat
    /\ MaxCycles \in Nat
    /\ MaxRuns \in Nat
    /\ MaxRestarts \in Nat

VARIABLES start, mode, decimation,                           \* control
          recording, wrapped, writeIdx, sampleCount,         \* status
          cycleCounter, startMem, decCounter,
          sampleCycles,     \* the array of cycle numbers
          signal,           \* one array of a UDT field
          run,              \* history: the start edges seen so far
          history,          \* history: every sample of the current run
          stride,           \* history: decimation loaded by the last sample
          restarts          \* PLC restarts so far

control == <<start, mode, decimation>>
status  == <<recording, wrapped, writeIdx, sampleCount, cycleCounter,
             startMem, decCounter>>
buffers == <<sampleCycles, signal>>
ghosts  == <<run, history, stride>>
rvars   == <<control, status, buffers, ghosts, restarts>>

Cells == 0 .. Depth - 1

\* The plant's signal at a cycle of a run: a value that names the moment it
\* was sampled, so that a row made of two moments shows.
Sample(r, c) == [run |-> r, cycle |-> c]
NoSample     == Sample(0, 0)

-----------------------------------------------------------------------------
\* The data block as downloaded: every field 0 or FALSE, status.depth = Depth.
Init ==
    /\ start = FALSE /\ mode = Ring /\ decimation = 0
    /\ recording = FALSE /\ wrapped = FALSE
    /\ writeIdx = 0 /\ sampleCount = 0 /\ cycleCounter = 0
    /\ startMem = FALSE /\ decCounter = 0
    /\ sampleCycles = [i \in Cells |-> 0]
    /\ signal = [i \in Cells |-> NoSample]
    /\ run = 0 /\ history = <<>> /\ stride = 1 /\ restarts = 0

\* OPC UA writes of the control tags.
WriteStart(b) == start' = b /\ UNCHANGED <<mode, decimation>>
WriteMode(m)  == mode' = m /\ UNCHANGED <<start, decimation>>
WriteDecimation(k) == decimation' = k /\ UNCHANGED <<start, mode>>

ClientWrite ==
    /\ \/ \E b \in BOOLEAN : WriteStart(b)
       \/ \E m \in Modes : WriteMode(m)
       \/ \E k \in Decimations : WriteDecimation(k)
    /\ UNCHANGED <<status, buffers, ghosts, restarts>>

-----------------------------------------------------------------------------
(* One call of the FUNCTION: region "Start edge and stop level", then       *)
(* region "Sampling".                                                       *)

StartEdge == start /\ ~startMem

\* Mutant: only an edge counts, the low level of start does not stop.
ArmedForever == StartEdge \/ recording

\* Is the block recording once the first region is done?
Armed == StartEdge \/ (recording /\ start)

\* Values after the first region: a start edge resets the run.
Fresh(reset, old) == IF StartEdge THEN reset ELSE old

\* Mutant: the countdown compared with 0, one cycle late.
SampleDueLate == StartEdge \/ decCounter <= 0

\* The decimation countdown has run out; a start edge sets it to 1.
SampleDue == StartEdge \/ decCounter <= 1

\* Mutant: 0 is loaded as it is.
UnclampedDecimation == decimation

\* control.decimation as the countdown loads it.
LoadedDecimation == IF decimation < 1 THEN 1 ELSE decimation

\* Mutant: a new run inherits `wrapped'.
WrappedInherited == wrapped

\* Values for the sample of this scan: its cell, its cycle, `wrapped' so far.
Cell         == Fresh(0, writeIdx)
Cycle        == Fresh(0, cycleCounter) + 1
WrappedSoFar == Fresh(FALSE, wrapped)

\* Mutants: the end of the array is noticed one cell late; a one-shot run
\* stops after its first sample; a one-shot run wraps.
FullLate  == Cell >= Depth
StopsSoon == mode = OneShot
WrapsAlways == Cell + 1 >= Depth

\* The sample fills the last cell: stop (one-shot) or wrap (ring).
Full  == Cell + 1 >= Depth
Stops == Full /\ mode = OneShot
Wraps == Full /\ mode # OneShot

\* Not recording: the call only notes the level of start.
ScanIdle ==
    /\ ~Armed
    /\ recording' = FALSE
    /\ startMem' = start
    /\ UNCHANGED <<wrapped, writeIdx, sampleCount, cycleCounter, decCounter>>
    /\ UNCHANGED <<buffers, ghosts>>

\* Recording, but this cycle is decimated.
ScanSkip ==
    /\ Armed /\ ~SampleDue
    /\ cycleCounter < MaxCycles
    /\ startMem' = start
    /\ cycleCounter' = cycleCounter + 1
    /\ decCounter' = decCounter - 1
    /\ UNCHANGED <<recording, wrapped, writeIdx, sampleCount>>
    /\ UNCHANGED <<buffers, ghosts>>

\* Recording and due: store the sample and advance.
ScanSample ==
    /\ Armed /\ SampleDue
    /\ StartEdge => run < MaxRuns
    /\ Cycle <= MaxCycles
    /\ startMem' = start
    /\ cycleCounter' = Cycle
    /\ run' = (IF StartEdge THEN run + 1 ELSE run)
    /\ sampleCycles' = [sampleCycles EXCEPT ![Cell] = Cycle]
    /\ signal' = [signal EXCEPT ![Cell] = Sample(run', Cycle)]
    /\ history' = Append(IF StartEdge THEN <<>> ELSE history, Sample(run', Cycle))
    /\ sampleCount' = Fresh(0, sampleCount) + 1
    /\ recording' = ~Stops
    /\ wrapped' = (WrappedSoFar \/ Wraps)
    /\ writeIdx' = (IF Wraps THEN 0 ELSE Cell + 1)
    /\ decCounter' = LoadedDecimation
    /\ stride' = LoadedDecimation

Scan == (ScanIdle \/ ScanSkip \/ ScanSample) /\ UNCHANGED <<control, restarts>>

\* Power cycle of the PLC: the block is not retentive.
Restart ==
    /\ restarts < MaxRestarts
    /\ restarts' = restarts + 1
    /\ start' = FALSE /\ mode' = Ring /\ decimation' = 0
    /\ recording' = FALSE /\ wrapped' = FALSE
    /\ writeIdx' = 0 /\ sampleCount' = 0 /\ cycleCounter' = 0
    /\ startMem' = FALSE /\ decCounter' = 0
    /\ sampleCycles' = [i \in Cells |-> 0]
    /\ signal' = [i \in Cells |-> NoSample]
    /\ history' = <<>> /\ stride' = 1 /\ UNCHANGED run

Next == ClientWrite \/ Scan \/ Restart

Spec == Init /\ [][Next]_rvars

-----------------------------------------------------------------------------
(* What a reader makes of the block: the order of TraceClient.fetch().      *)

\* Occupied cells, as fetch() counts them.
Span(w, i) == IF w THEN Depth ELSE i

\* Mutant: a wrapped ring is read from cell 0.
CellFromZero(w, i, n) == n

\* The cell of the n-th oldest sample (n from 0) for a read of wrapped = w and
\* writeIdx = i: i .. Depth-1 and then 0 .. i-1 once wrapped.
CellOf(w, i, n) ==
    IF ~w THEN n ELSE IF n < Depth - i THEN i + n ELSE n - (Depth - i)

\* An array reordered oldest-first.
OldestFirst(w, i, array) ==
    [n \in 1 .. Span(w, i) |-> array[CellOf(w, i, n - 1)]]

-----------------------------------------------------------------------------
\* Every field has its type, and the write position is a cell or the end.
TypeOK ==
    /\ start \in BOOLEAN /\ mode \in {Ring, OneShot} /\ decimation \in Nat
    /\ recording \in BOOLEAN /\ wrapped \in BOOLEAN /\ startMem \in BOOLEAN
    /\ writeIdx \in 0 .. Depth /\ sampleCount \in Nat
    /\ cycleCounter \in 0 .. MaxCycles /\ decCounter \in Nat
    /\ sampleCycles \in [Cells -> Nat]
    /\ signal \in [Cells -> [run : Nat, cycle : Nat]]
    /\ run \in 0 .. MaxRuns
    /\ history \in Seq([run : Nat, cycle : Nat])
    /\ stride \in Nat \ {0}
    /\ restarts \in 0 .. MaxRestarts

\* The sample is stored at writeIdx without a bounds check (scaffold.py:226):
\* whatever clients write between the scans, a recording block never indexes
\* past the array.
IndexInBounds == recording => writeIdx < Depth

\* `wrapped' and writeIdx alone tell a reader how many samples there are: not
\* wrapped means writeIdx is the sample count, wrapped that the buffer is full
\* of samples of this run.  Holds through switches of mode in mid-run.
OccupancyIsKnown ==
    /\ ~wrapped => writeIdx = sampleCount
    /\ wrapped  => sampleCount >= Depth
    /\ sampleCount = Len(history)

\* Reading the block in the order of fetch() yields exactly the newest
\* min(sampleCount, Depth) samples of the current run, oldest first, and each
\* row pairs a cycle number with the signal of that same cycle.
RingHoldsNewest ==
    LET n == Span(wrapped, writeIdx)
        rows == OldestFirst(wrapped, writeIdx, signal)
        nums == OldestFirst(wrapped, writeIdx, sampleCycles)
    IN  \A j \in 1 .. n :
            /\ rows[j] = history[Len(history) - n + j]
            /\ nums[j] = rows[j].cycle

\* The samples of a run carry that run's number and increasing cycle numbers.
HistoryInOrder ==
    /\ \A j \in 1 .. Len(history) : history[j].run = run
    /\ \A j \in 1 .. Len(history) - 1 : history[j].cycle < history[j + 1].cycle

\* Decimation: a sample is taken exactly as many cycles after the one before
\* as control.decimation said when that one was taken, 0 meaning 1, and the
\* first in cycle 1; a write in mid-run changes nothing before the next reload.
SamplesSpaced ==
    [][ (history' # history /\ history' # <<>>) =>
            LET c == history'[Len(history')].cycle
            IN  IF Len(history') = 1 THEN c = 1
                ELSE c = history[Len(history)].cycle + stride ]_rvars

\* A one-shot recording that was never wrapped is never overwritten: in
\* one-shot mode a sample goes to a fresh cell until the block stops itself.
OneShotNeverOverwrites ==
    [][ (mode = OneShot /\ ~wrapped /\ ~StartEdge /\ history' # <<>>) =>
            /\ ~wrapped'
            /\ \A j \in 1 .. Len(history) : signal'[j - 1] = history[j] ]_rvars

\* The ring and the order of fetch() implement the abstract window.
Abstract == INSTANCE TraceWindow
              WITH running <- recording,
                   window  <- OldestFirst(wrapped, writeIdx, signal)
ImplementsWindow == Abstract!Spec
=============================================================================
