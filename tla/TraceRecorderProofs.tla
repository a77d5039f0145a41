------------------------- MODULE TraceRecorderProofs -------------------------
(***************************************************************************)
(* Theorems about TraceRecorder, for every depth, every set of modes and   *)
(* decimations and every bound.  The inductive invariant speaks of cells   *)
(* (which sample of the history sits in cell i); what a reader gets, in    *)
(* the order of fetch(), follows from it.                                  *)
(***************************************************************************)
EXTENDS TraceRecorder, TLAPS

\* Where the newest samples sit: the cells below writeIdx hold the latest
\* lap, the others, once wrapped, the lap before.
CellContents ==
    /\ \A i \in 0 .. writeIdx - 1 :
            signal[i] = history[Len(history) - writeIdx + i + 1]
    /\ wrapped => \A i \in writeIdx .. Depth - 1 :
            signal[i] = history[Len(history) - Depth - writeIdx + i + 1]

\* A cell that was written in this run pairs the cycle with its signal.
CellsPaired ==
    \A i \in Cells : (wrapped \/ i < writeIdx) => sampleCycles[i] = signal[i].cycle

\* The countdown and the cycle counter agree on when the next sample is due.
Phase ==
    /\ recording => history # <<>> /\ decCounter >= 1
    /\ history # <<>> => history[Len(history)].cycle <= cycleCounter
    /\ recording => history[Len(history)].cycle + stride = cycleCounter + decCounter

\* The inductive invariant.
IInv ==
    /\ TypeOK
    /\ IndexInBounds
    /\ OccupancyIsKnown
    /\ CellContents
    /\ CellsPaired
    /\ HistoryInOrder
    /\ Phase

-----------------------------------------------------------------------------
\* The last element of a sequence that is not empty is one of its values.
LEMMA LastElement ==
    ASSUME NEW S, NEW s \in Seq(S), s # <<>>
    PROVE  Len(s) \in Nat \ {0} /\ s[Len(s)] \in S
OBVIOUS

\* The initial block satisfies the invariant.
LEMMA InitIInv == Init => IInv
<1> SUFFICES ASSUME Init PROVE IInv
  OBVIOUS
<1> USE TraceAssumption DEF Init
<1>1. sampleCycles \in [Cells -> Nat] /\ signal \in [Cells -> [run : Nat, cycle : Nat]]
  BY DEF NoSample, Sample
<1>2. history \in Seq([run : Nat, cycle : Nat])
  OBVIOUS
<1>3. TypeOK
  <2>1. /\ writeIdx \in 0 .. Depth /\ sampleCount \in Nat
        /\ cycleCounter \in 0 .. MaxCycles /\ decCounter \in Nat /\ decimation \in Nat
        /\ run \in 0 .. MaxRuns /\ stride \in Nat \ {0} /\ restarts \in 0 .. MaxRestarts
    OBVIOUS
  <2>2. /\ start \in BOOLEAN /\ mode \in {Ring, OneShot} /\ recording \in BOOLEAN
        /\ wrapped \in BOOLEAN /\ startMem \in BOOLEAN
    OBVIOUS
  <2> QED BY <1>1, <1>2, <2>1, <2>2, Zenon DEF TypeOK
<1>4. IndexInBounds /\ OccupancyIsKnown /\ CellContents /\ CellsPaired
  BY DEF IndexInBounds, OccupancyIsKnown, CellContents, CellsPaired, Cells
<1>5. HistoryInOrder /\ Phase
  BY DEF HistoryInOrder, Phase
<1> QED BY <1>3, <1>4, <1>5 DEF IInv

\* A sampling scan on a start edge, as equations on the primed variables.
EdgeSample ==
    LET now == [run |-> run + 1, cycle |-> 1]
    IN  /\ run' = run + 1 /\ run' \in 0 .. MaxRuns
        /\ cycleCounter' = 1 /\ 1 <= MaxCycles
        /\ sampleCycles' = [sampleCycles EXCEPT ![0] = 1]
        /\ signal' = [signal EXCEPT ![0] = now]
        /\ history' = <<now>>
        /\ sampleCount' = 1
        /\ recording' = ~(Depth = 1 /\ mode = OneShot)
        /\ wrapped' = (Depth = 1 /\ mode # OneShot)
        /\ writeIdx' = (IF Depth = 1 /\ mode # OneShot THEN 0 ELSE 1)
        /\ startMem' = start
        /\ decCounter' = stride' /\ stride' \in Nat \ {0}

LEMMA EdgeStep == ASSUME IInv, ScanSample, StartEdge PROVE EdgeSample
<1>1. decCounter' = stride' /\ stride' \in Nat \ {0}
  BY DEF IInv, TypeOK, ScanSample, LoadedDecimation
<1>2. (0 + 1 >= Depth) = (Depth = 1)
  BY TraceAssumption
<1>3. Append(<<>>, [run |-> run + 1, cycle |-> 1]) = <<[run |-> run + 1, cycle |-> 1]>>
  OBVIOUS
<1> QED
  BY <1>1, <1>2, <1>3, TraceAssumption, SMT
     DEF IInv, TypeOK, ScanSample, Sample, Fresh, Cell, Cycle, WrappedSoFar, Full, Stops,
         Wraps, EdgeSample

\* A sampling scan later in the run.
LaterSample ==
    LET cycle == cycleCounter + 1
        now   == [run |-> run, cycle |-> cycle]
        full  == writeIdx + 1 = Depth
    IN  /\ recording /\ start /\ decCounter = 1 /\ writeIdx \in Cells
        /\ run' = run
        /\ cycleCounter' = cycle /\ cycle <= MaxCycles
        /\ sampleCycles' = [sampleCycles EXCEPT ![writeIdx] = cycle]
        /\ signal' = [signal EXCEPT ![writeIdx] = now]
        /\ history' = Append(history, now)
        /\ sampleCount' = sampleCount + 1
        /\ recording' = ~(full /\ mode = OneShot)
        /\ wrapped' = (wrapped \/ (full /\ mode # OneShot))
        /\ writeIdx' = (IF full /\ mode # OneShot THEN 0 ELSE writeIdx + 1)
        /\ startMem' = start
        /\ decCounter' = stride' /\ stride' \in Nat \ {0}

LEMMA LaterStep == ASSUME IInv, ScanSample, ~StartEdge PROVE LaterSample
<1>1. decCounter' = stride' /\ stride' \in Nat \ {0}
  BY DEF IInv, TypeOK, ScanSample, LoadedDecimation
<1>2. recording /\ start /\ decCounter = 1 /\ writeIdx \in Cells
  BY TraceAssumption DEF IInv, TypeOK, ScanSample, Armed, SampleDue, IndexInBounds, Phase, Cells
<1>3. (writeIdx + 1 >= Depth) = (writeIdx + 1 = Depth)
  BY <1>2, TraceAssumption DEF Cells
<1> QED
  BY <1>1, <1>2, <1>3, SMT
     DEF IInv, TypeOK, ScanSample, Sample, Fresh, Cell, Cycle, WrappedSoFar, Full, Stops,
         Wraps, LaterSample

-----------------------------------------------------------------------------
\* What the invariant says but for the types speaks of these variables only.
inside == <<recording, wrapped, writeIdx, sampleCount, cycleCounter, decCounter,
            buffers, ghosts>>

\* A step that leaves those variables alone and keeps the types keeps IInv.
LEMMA InsideInv ==
    ASSUME IInv, TypeOK', UNCHANGED inside
    PROVE  IInv'
BY DEF IInv, inside, buffers, ghosts, IndexInBounds, OccupancyIsKnown,
       CellContents, CellsPaired, HistoryInOrder, Phase

\* Writes of the control tags touch nothing the invariant relates.
LEMMA ClientWriteInv == IInv /\ ClientWrite => IInv'
<1> SUFFICES ASSUME IInv, ClientWrite PROVE IInv'
  OBVIOUS
<1>1. start' \in BOOLEAN /\ mode' \in {Ring, OneShot} /\ decimation' \in Nat
  BY TraceAssumption
     DEF IInv, TypeOK, ClientWrite, WriteStart, WriteMode, WriteDecimation
<1>2. UNCHANGED <<status, buffers, ghosts, restarts>>
  BY DEF ClientWrite
<1>3. TypeOK'
  BY <1>1, <1>2 DEF IInv, TypeOK, status, buffers, ghosts
<1> QED BY <1>2, <1>3, InsideInv DEF inside, status

\* A scan of a block that is not recording.
LEMMA ScanIdleInv ==
    ASSUME IInv, ScanIdle, UNCHANGED <<control, restarts>>
    PROVE  IInv'
<1>1. TypeOK'
  BY DEF IInv, TypeOK, ScanIdle, control, buffers, ghosts
<1>2. IndexInBounds' /\ OccupancyIsKnown' /\ CellContents' /\ CellsPaired' /\ HistoryInOrder'
  BY DEF IInv, ScanIdle, buffers, ghosts, IndexInBounds, OccupancyIsKnown,
         CellContents, CellsPaired, HistoryInOrder
<1>3. Phase'
  BY DEF IInv, ScanIdle, buffers, ghosts, Phase
<1> QED BY <1>1, <1>2, <1>3 DEF IInv

\* A decimated cycle.
LEMMA ScanSkipInv ==
    ASSUME IInv, ScanSkip, UNCHANGED <<control, restarts>>
    PROVE  IInv'
<1>1. /\ recording /\ decCounter > 1 /\ cycleCounter < MaxCycles
      /\ cycleCounter' = cycleCounter + 1 /\ decCounter' = decCounter - 1
  BY DEF IInv, TypeOK, ScanSkip, Armed, SampleDue
<1>2. cycleCounter' \in 0 .. MaxCycles /\ decCounter' \in Nat
  BY <1>1, TraceAssumption DEF IInv, TypeOK
<1>3. TypeOK'
  BY <1>2 DEF IInv, TypeOK, ScanSkip, control, buffers, ghosts
<1>4. IndexInBounds' /\ OccupancyIsKnown' /\ CellContents' /\ CellsPaired' /\ HistoryInOrder'
  BY DEF IInv, ScanSkip, buffers, ghosts, IndexInBounds, OccupancyIsKnown,
         CellContents, CellsPaired, HistoryInOrder
<1>5. Phase'
  <2>1. history[Len(history)] \in [run : Nat, cycle : Nat]
    BY <1>1, LastElement DEF IInv, TypeOK, Phase
  <2>2. stride \in Nat /\ cycleCounter \in Nat /\ decCounter \in Nat
    BY TraceAssumption DEF IInv, TypeOK
  <2>3. /\ recording' = recording /\ history' = history /\ stride' = stride
        /\ Phase
    BY DEF IInv, ScanSkip, ghosts
  <2> QED BY <1>1, <2>1, <2>2, <2>3 DEF Phase
<1> QED BY <1>3, <1>4, <1>5 DEF IInv

\* A start edge: cycle 1 of a new run goes to cell 0.
LEMMA EdgeInv ==
    ASSUME IInv, ScanSample, StartEdge, UNCHANGED <<control, restarts>>
    PROVE  IInv'
<1> DEFINE now == [run |-> run + 1, cycle |-> 1]
<1>0. EdgeSample
  BY EdgeStep
<1>1. /\ now \in [run : Nat, cycle : Nat] /\ history' = <<now>>
      /\ history' \in Seq([run : Nat, cycle : Nat])
      /\ Len(history') = 1 /\ history'[1] = now
  <2>1. now \in [run : Nat, cycle : Nat]
    BY TraceAssumption DEF IInv, TypeOK
  <2>2. history' = <<now>>
    BY <1>0 DEF EdgeSample
  <2> QED BY <2>1, <2>2
<1>2. 0 \in Cells
  BY TraceAssumption DEF Cells
<1>3. signal' \in [Cells -> [run : Nat, cycle : Nat]] /\ signal'[0] = now
  <2>1. signal' = [signal EXCEPT ![0] = now]
    BY <1>0 DEF EdgeSample
  <2> QED BY <1>1, <1>2, <2>1 DEF IInv, TypeOK
<1>4. sampleCycles' \in [Cells -> Nat] /\ sampleCycles'[0] = 1
  BY <1>0, <1>2 DEF EdgeSample, IInv, TypeOK
<1>5. /\ writeIdx' \in 0 .. Depth /\ cycleCounter' \in 0 .. MaxCycles
      /\ writeIdx' = (IF wrapped' THEN 0 ELSE 1)
      /\ wrapped' => Depth = 1
      /\ recording' => writeIdx' < Depth
  <2>1. CASE Depth = 1 /\ mode # OneShot
    <3>1. wrapped' = TRUE /\ writeIdx' = 0 /\ cycleCounter' = 1 /\ 1 <= MaxCycles
      BY <1>0, <2>1, Zenon DEF EdgeSample
    <3> QED BY <2>1, <3>1, TraceAssumption
  <2>2. CASE ~(Depth = 1 /\ mode # OneShot)
    <3>1. /\ wrapped' = FALSE /\ writeIdx' = 1 /\ cycleCounter' = 1 /\ 1 <= MaxCycles
          /\ recording' => Depth # 1
      BY <1>0, <2>2, Zenon DEF EdgeSample
    <3> QED BY <3>1, TraceAssumption
  <2> QED BY <2>1, <2>2
<1>6. recording' \in BOOLEAN /\ wrapped' \in BOOLEAN /\ startMem' \in BOOLEAN
  BY <1>0 DEF EdgeSample, IInv, TypeOK
<1>7. TypeOK'
  BY <1>0, <1>1, <1>3, <1>4, <1>5, <1>6 DEF EdgeSample, IInv, TypeOK, control
<1>8. IndexInBounds' /\ OccupancyIsKnown'
  BY <1>0, <1>1, <1>5 DEF EdgeSample, IndexInBounds, OccupancyIsKnown
<1>9. CellContents'
  BY <1>1, <1>3, <1>5 DEF CellContents
<1>10. CellsPaired'
  BY <1>1, <1>3, <1>4, <1>5 DEF CellsPaired, Cells
<1>11. HistoryInOrder'
  BY <1>0, <1>1 DEF EdgeSample, HistoryInOrder
<1>12. Phase'
  BY <1>0, <1>1 DEF EdgeSample, Phase
<1> QED BY <1>7, <1>8, <1>9, <1>10, <1>11, <1>12 DEF IInv

\* A later sample overwrites the cell at writeIdx, which holds the oldest
\* sample once the ring has wrapped.
LEMMA LaterInv ==
    ASSUME IInv, ScanSample, ~StartEdge, UNCHANGED <<control, restarts>>
    PROVE  IInv'
<1> DEFINE cycle == cycleCounter + 1
           now   == [run |-> run, cycle |-> cycle]
           n     == Len(history)
<1>0. LaterSample
  BY LaterStep
<1>1. /\ now \in [run : Nat, cycle : Nat] /\ cycle \in 0 .. MaxCycles
      /\ run \in Nat /\ cycleCounter \in Nat
  BY <1>0, TraceAssumption DEF LaterSample, IInv, TypeOK
<1>2. /\ writeIdx \in Cells /\ writeIdx \in Nat /\ writeIdx < Depth
      /\ Depth \in Nat /\ recording /\ decCounter = 1
  BY <1>0, TraceAssumption DEF LaterSample, Cells, IInv, TypeOK
<1>3. /\ history' = Append(history, now)
      /\ history' \in Seq([run : Nat, cycle : Nat])
      /\ n \in Nat \ {0} /\ Len(history') = n + 1
      /\ history'[n + 1] = now
      /\ \A j \in 1 .. n : history'[j] = history[j]
  <2>1. history' = Append(history, now)
    BY <1>0 DEF LaterSample
  <2>2. history \in Seq([run : Nat, cycle : Nat]) /\ history # <<>>
    BY <1>2 DEF IInv, TypeOK, Phase
  <2>3. n \in Nat \ {0}
    BY <2>2
  <2> QED BY <1>1, <2>1, <2>2, <2>3
<1>4. /\ signal' \in [Cells -> [run : Nat, cycle : Nat]]
      /\ signal'[writeIdx] = now
      /\ \A i \in Cells \ {writeIdx} : signal'[i] = signal[i]
  <2>1. signal' = [signal EXCEPT ![writeIdx] = now]
    BY <1>0 DEF LaterSample
  <2> QED BY <1>1, <1>2, <2>1 DEF IInv, TypeOK
<1>5. /\ sampleCycles' \in [Cells -> Nat]
      /\ sampleCycles'[writeIdx] = now.cycle
      /\ \A i \in Cells \ {writeIdx} : sampleCycles'[i] = sampleCycles[i]
  <2>1. sampleCycles' = [sampleCycles EXCEPT ![writeIdx] = cycle]
    BY <1>0 DEF LaterSample
  <2> QED BY <1>1, <1>2, <2>1 DEF IInv, TypeOK
<1>6. /\ ~wrapped => writeIdx = n
      /\ wrapped => n >= Depth
      /\ n >= writeIdx
      /\ sampleCount = n /\ sampleCount' = n + 1
  <2>1. /\ ~wrapped => writeIdx = n
        /\ wrapped => n >= Depth
        /\ sampleCount = n /\ sampleCount' = n + 1
    BY <1>0 DEF LaterSample, IInv, OccupancyIsKnown
  <2>2. n >= writeIdx
    BY <1>2, <1>3, <2>1 DEF IInv, TypeOK
  <2> QED BY <2>1, <2>2
<1>7. \/ /\ writeIdx' = 0 /\ wrapped' = TRUE /\ writeIdx + 1 = Depth
      \/ /\ writeIdx' = writeIdx + 1 /\ wrapped' = wrapped
         /\ recording' => writeIdx + 1 # Depth
  <2>1. CASE writeIdx + 1 = Depth /\ mode # OneShot
    BY <1>0, <2>1, Zenon DEF LaterSample
  <2>2. CASE ~(writeIdx + 1 = Depth /\ mode # OneShot)
    <3>1. wrapped' = (wrapped \/ FALSE) /\ writeIdx' = writeIdx + 1
      BY <1>0, <2>2, Zenon DEF LaterSample
    <3>2. wrapped' = wrapped
      BY <3>1 DEF IInv, TypeOK
    <3>3. recording' => writeIdx + 1 # Depth
      BY <1>0, <2>2, Zenon DEF LaterSample
    <3> QED BY <3>1, <3>2, <3>3
  <2> QED BY <2>1, <2>2
<1>8. TypeOK'
  <2>1. writeIdx' \in 0 .. Depth
    BY <1>2, <1>7, TraceAssumption
  <2>2. recording' \in BOOLEAN /\ wrapped' \in BOOLEAN /\ startMem' \in BOOLEAN
    BY <1>0 DEF LaterSample, IInv, TypeOK
  <2>3. cycleCounter' \in 0 .. MaxCycles /\ sampleCount' \in Nat
    BY <1>0, <1>1, <1>3, <1>6 DEF LaterSample
  <2>4. decCounter' \in Nat /\ stride' \in Nat \ {0} /\ run' \in 0 .. MaxRuns
    BY <1>0 DEF LaterSample, IInv, TypeOK
  <2>5. /\ start' \in BOOLEAN /\ mode' \in {Ring, OneShot} /\ decimation' \in Nat
        /\ restarts' \in 0 .. MaxRestarts
    BY DEF IInv, TypeOK, control
  <2> QED BY <1>3, <1>4, <1>5, <2>1, <2>2, <2>3, <2>4, <2>5, Zenon DEF TypeOK
<1>9. IndexInBounds' /\ OccupancyIsKnown'
  BY <1>2, <1>3, <1>6, <1>7, TraceAssumption DEF IndexInBounds, OccupancyIsKnown
<1>10. /\ \A i \in 0 .. writeIdx - 1 : signal[i] = history[n - writeIdx + i + 1]
       /\ wrapped => \A i \in writeIdx .. Depth - 1 :
                        signal[i] = history[n - Depth - writeIdx + i + 1]
  BY DEF IInv, CellContents
<1>11. CellContents'
  <2>1. ASSUME NEW i \in 0 .. writeIdx - 1
        PROVE  signal'[i] = history'[n - writeIdx + i + 1]
    <3>1. signal'[i] = signal[i]
      BY <1>2, <1>4 DEF Cells
    <3>2. n - writeIdx + i + 1 \in 1 .. n
      BY <1>2, <1>3, <1>6
    <3> QED BY <1>3, <1>10, <3>1, <3>2
  <2>2. signal'[writeIdx] = history'[n + 1]
    BY <1>3, <1>4
  <2>3. ASSUME wrapped, NEW i \in writeIdx + 1 .. Depth - 1
        PROVE  signal'[i] = history'[n - Depth - writeIdx + i + 1]
    <3>1. signal'[i] = signal[i]
      BY <1>2, <1>4, TraceAssumption DEF Cells
    <3>2. n - Depth - writeIdx + i + 1 \in 1 .. n /\ i \in writeIdx .. Depth - 1
      BY <1>2, <1>3, <1>6, <2>3, TraceAssumption
    <3> QED BY <1>3, <1>10, <2>3, <3>1, <3>2
  <2>4. CASE writeIdx' = 0 /\ wrapped' = TRUE /\ writeIdx + 1 = Depth
    <3>0. writeIdx + 1 = Depth /\ writeIdx' = 0
      BY <2>4
    <3>1. ASSUME NEW i \in 0 .. Depth - 1
          PROVE  signal'[i] = history'[n + 1 - Depth + i + 1]
      <4>1. CASE i = writeIdx
        <5>1. n + 1 - Depth + i + 1 = n + 1
          BY <1>2, <1>3, <3>0, <4>1
        <5> QED BY <2>2, <4>1, <5>1
      <4>2. CASE i # writeIdx
        <5>1. i \in 0 .. writeIdx - 1 /\ n - writeIdx + i + 1 = n + 1 - Depth + i + 1
          <6>1. n \in Nat /\ writeIdx \in Nat /\ i \in Nat /\ i # writeIdx /\ i < Depth
            BY <1>2, <1>3, <4>2
          <6> QED BY <3>0, <6>1
        <5> QED BY <2>1, <5>1
      <4> QED BY <4>1, <4>2
    <3>2. \A i \in writeIdx' .. Depth - 1 :
             signal'[i] = history'[Len(history') - Depth - writeIdx' + i + 1]
      <4> SUFFICES ASSUME NEW i \in writeIdx' .. Depth - 1
                   PROVE  signal'[i] = history'[Len(history') - Depth - writeIdx' + i + 1]
        OBVIOUS
      <4>1. Len(history') = n + 1 /\ n \in Nat /\ Depth \in Nat
        BY <1>2, <1>3
      <4>2. /\ Len(history') - Depth - writeIdx' + i + 1 = n + 1 - Depth + i + 1
            /\ i \in 0 .. Depth - 1
        BY <3>0, <4>1
      <4> QED BY <3>1, <4>2
    <3>3. 0 .. writeIdx' - 1 = {}
      BY <3>0
    <3> QED BY <3>2, <3>3 DEF CellContents
  <2>5. CASE writeIdx' = writeIdx + 1 /\ wrapped' = wrapped
    <3>1. ASSUME NEW i \in 0 .. writeIdx
          PROVE  signal'[i] = history'[n + 1 - (writeIdx + 1) + i + 1]
      <4>1. CASE i = writeIdx
        BY <1>2, <1>3, <2>2, <4>1
      <4>2. CASE i # writeIdx
        <5>1. /\ i \in 0 .. writeIdx - 1
              /\ n - writeIdx + i + 1 = n + 1 - (writeIdx + 1) + i + 1
          BY <1>2, <1>3, <4>2
        <5> QED BY <2>1, <5>1
      <4> QED BY <4>1, <4>2
    <3>2. ASSUME wrapped, NEW i \in writeIdx + 1 .. Depth - 1
          PROVE  signal'[i] = history'[n + 1 - Depth - (writeIdx + 1) + i + 1]
      <4>1. n - Depth - writeIdx + i + 1 = n + 1 - Depth - (writeIdx + 1) + i + 1
        BY <1>2, <1>3
      <4> QED BY <2>3, <3>2, <4>1
    <3>3. \A i \in 0 .. writeIdx' - 1 :
             signal'[i] = history'[Len(history') - writeIdx' + i + 1]
      <4>1. Len(history') = n + 1 /\ writeIdx' = writeIdx + 1 /\ writeIdx \in Nat
        BY <1>2, <1>3, <2>5
      <4>2. writeIdx' - 1 = writeIdx
        BY <4>1
      <4> QED BY <3>1, <4>1, <4>2
    <3>4. wrapped' => \A i \in writeIdx' .. Depth - 1 :
             signal'[i] = history'[Len(history') - Depth - writeIdx' + i + 1]
      <4>1. wrapped' => wrapped
        BY <2>5, Zenon
      <4>2. /\ Len(history') = n + 1 /\ writeIdx' = writeIdx + 1
            /\ n \in Nat /\ Depth \in Nat /\ writeIdx \in Nat
        BY <1>2, <1>3, <2>5
      <4>3. ASSUME wrapped PROVE \A i \in writeIdx' .. Depth - 1 :
               signal'[i] = history'[Len(history') - Depth - writeIdx' + i + 1]
        <5>1. \A i \in writeIdx + 1 .. Depth - 1 :
                 signal'[i] = history'[n + 1 - Depth - (writeIdx + 1) + i + 1]
          BY <3>2, <4>3
        <5>2. Len(history') - Depth - writeIdx' = n + 1 - Depth - (writeIdx + 1)
          BY <4>2
        <5>3. writeIdx' = writeIdx + 1
          BY <4>2
        <5> QED BY <5>1, <5>2, <5>3, Zenon
      <4> QED BY <4>1, <4>3, Zenon
    <3> QED BY <3>3, <3>4 DEF CellContents
  <2> QED BY <1>7, <2>4, <2>5
<1>12. CellsPaired'
  <2>1. ASSUME NEW i \in Cells, wrapped \/ i < writeIdx \/ i = writeIdx
        PROVE  sampleCycles'[i] = signal'[i].cycle
    BY <1>4, <1>5, <2>1 DEF IInv, CellsPaired
  <2>2. ASSUME NEW i \in Cells, wrapped' \/ i < writeIdx'
        PROVE  wrapped \/ i < writeIdx \/ i = writeIdx
    BY <1>2, <1>7, <2>2 DEF Cells
  <2> QED BY <2>1, <2>2 DEF CellsPaired
<1>13. history[n] \in [run : Nat, cycle : Nat] /\ history[n].cycle <= cycleCounter
       /\ history[n].cycle + stride = cycleCounter + decCounter
  BY <1>2, <1>3, LastElement DEF IInv, TypeOK, Phase
<1>14. HistoryInOrder'
  <2>1. \A j \in 1 .. n : history[j].run = run
    BY DEF IInv, HistoryInOrder
  <2>2. \A j \in 1 .. n - 1 : history[j].cycle < history[j + 1].cycle
    BY DEF IInv, HistoryInOrder
  <2>3. run' = run
    BY <1>0 DEF LaterSample
  <2>4. \A j \in 1 .. n + 1 : history'[j].run = run
    BY <1>3, <2>1
  <2>5. ASSUME NEW j \in 1 .. n PROVE history'[j].cycle < history'[j + 1].cycle
    <3>1. CASE j = n
      <4>1. history'[j] = history[n] /\ history'[j + 1] = now
        BY <1>3, <3>1
      <4> QED BY <1>1, <1>13, <4>1
    <3>2. CASE j # n
      <4>1. j \in 1 .. n - 1 /\ j + 1 \in 1 .. n /\ j \in 1 .. n
        BY <1>3, <3>2
      <4> QED BY <1>3, <2>2, <4>1
    <3> QED BY <3>1, <3>2
  <2> QED BY <1>3, <2>3, <2>4, <2>5 DEF HistoryInOrder
<1>15. Phase'
  <2>1. /\ history' # <<>> /\ history'[Len(history')].cycle = cycleCounter + 1
        /\ cycleCounter' = cycleCounter + 1 /\ decCounter' = stride' /\ stride' \in Nat \ {0}
    BY <1>0, <1>3 DEF LaterSample
  <2> QED BY <1>1, <2>1 DEF Phase
<1> QED BY <1>8, <1>9, <1>11, <1>12, <1>14, <1>15 DEF IInv

\* A power cycle leaves the block as downloaded.
LEMMA RestartInv == IInv /\ Restart => IInv'
<1> SUFFICES ASSUME IInv, Restart PROVE IInv'
  OBVIOUS
<1> USE TraceAssumption
<1>1. sampleCycles' \in [Cells -> Nat] /\ signal' \in [Cells -> [run : Nat, cycle : Nat]]
  BY DEF Restart, NoSample, Sample
<1>2. history' = <<>> /\ history' \in Seq([run : Nat, cycle : Nat]) /\ Len(history') = 0
  BY DEF Restart
<1>3. /\ writeIdx' = 0 /\ wrapped' = FALSE /\ recording' = FALSE /\ sampleCount' = 0
      /\ writeIdx' \in 0 .. Depth /\ cycleCounter' \in 0 .. MaxCycles
      /\ decCounter' \in Nat /\ decimation' \in Nat /\ stride' \in Nat \ {0}
  BY DEF Restart
<1>4. restarts' \in 0 .. MaxRestarts /\ run' \in 0 .. MaxRuns
  BY DEF Restart, IInv, TypeOK
<1>5. start' \in BOOLEAN /\ mode' \in {Ring, OneShot} /\ startMem' \in BOOLEAN
  BY DEF Restart
<1>6. TypeOK'
  BY <1>1, <1>2, <1>3, <1>4, <1>5 DEF TypeOK
<1>7. IndexInBounds' /\ OccupancyIsKnown' /\ CellContents' /\ CellsPaired'
  BY <1>2, <1>3 DEF IndexInBounds, OccupancyIsKnown, CellContents, CellsPaired, Cells
<1>8. HistoryInOrder' /\ Phase'
  BY <1>2, <1>3 DEF HistoryInOrder, Phase
<1> QED BY <1>6, <1>7, <1>8 DEF IInv

\* Every step of the recorder keeps the invariant.
LEMMA NextIInv == IInv /\ [Next]_rvars => IInv'
<1> SUFFICES ASSUME IInv, [Next]_rvars PROVE IInv'
  OBVIOUS
<1>1. CASE ClientWrite
  BY <1>1, ClientWriteInv
<1>2. CASE ScanIdle /\ UNCHANGED <<control, restarts>>
  BY <1>2, ScanIdleInv
<1>3. CASE ScanSkip /\ UNCHANGED <<control, restarts>>
  BY <1>3, ScanSkipInv
<1>4. CASE ScanSample /\ UNCHANGED <<control, restarts>>
  BY <1>4, EdgeInv, LaterInv
<1>5. CASE Restart
  BY <1>5, RestartInv
<1>6. CASE UNCHANGED rvars
  <2>1. TypeOK'
    BY <1>6 DEF IInv, TypeOK, rvars, control, status, buffers, ghosts
  <2> QED BY <1>6, <2>1, InsideInv DEF rvars, inside, status
<1> QED BY <1>1, <1>2, <1>3, <1>4, <1>5, <1>6 DEF Next, Scan

-----------------------------------------------------------------------------
\* The inductive invariant holds in every reachable state.
THEOREM Invariance == Spec => []IInv
BY InitIInv, NextIInv, PTL DEF Spec

\* Types: every field of the data block stays in its declared range.
THEOREM TypeCorrect == Spec => []TypeOK
<1>1. IInv => TypeOK
  BY DEF IInv
<1> QED BY <1>1, Invariance, PTL

\* The FUNCTION never stores a sample past the end of the arrays, whatever
\* clients write to control between its calls (scaffold.py:226).
THEOREM NoIndexOverrun == Spec => []IndexInBounds
<1>1. IInv => IndexInBounds
  BY DEF IInv
<1> QED BY <1>1, Invariance, PTL

\* What the invariant says of cells, said in the order of fetch().
LEMMA ReaderOrder == IInv => RingHoldsNewest
<1> SUFFICES ASSUME IInv, NEW j \in 1 .. Span(wrapped, writeIdx)
             PROVE  LET n == Span(wrapped, writeIdx)
                        c == CellOf(wrapped, writeIdx, j - 1)
                    IN  /\ signal[c] = history[Len(history) - n + j]
                        /\ sampleCycles[c] = signal[c].cycle
  BY DEF RingHoldsNewest, OldestFirst
<1>1. Depth \in Nat /\ writeIdx \in 0 .. Depth /\ Len(history) \in Nat
  BY TraceAssumption DEF IInv, TypeOK
<1>2. \A i \in 0 .. writeIdx - 1 : signal[i] = history[Len(history) - writeIdx + i + 1]
  BY DEF IInv, CellContents
<1>3. CASE ~wrapped
  <2>1. Span(wrapped, writeIdx) = writeIdx /\ CellOf(wrapped, writeIdx, j - 1) = j - 1
    BY <1>3 DEF Span, CellOf
  <2>2. j - 1 \in 0 .. writeIdx - 1 /\ j - 1 \in Cells
        /\ Len(history) - writeIdx + (j - 1) + 1 = Len(history) - writeIdx + j
    BY <1>1, <2>1 DEF Cells
  <2>3. sampleCycles[j - 1] = signal[j - 1].cycle
    BY <1>1, <2>2 DEF IInv, CellsPaired
  <2> QED BY <1>2, <2>1, <2>2, <2>3
<1>4. CASE wrapped /\ j - 1 < Depth - writeIdx
  <2>1. /\ Span(wrapped, writeIdx) = Depth
        /\ CellOf(wrapped, writeIdx, j - 1) = writeIdx + (j - 1)
    BY <1>4 DEF Span, CellOf
  <2>2. /\ writeIdx + (j - 1) \in writeIdx .. Depth - 1 /\ writeIdx + (j - 1) \in Cells
        /\ Len(history) - Depth - writeIdx + (writeIdx + (j - 1)) + 1
              = Len(history) - Depth + j
    BY <1>1, <1>4, <2>1 DEF Cells
  <2>3. \A i \in writeIdx .. Depth - 1 :
           signal[i] = history[Len(history) - Depth - writeIdx + i + 1]
    BY <1>4 DEF IInv, CellContents
  <2>4. sampleCycles[writeIdx + (j - 1)] = signal[writeIdx + (j - 1)].cycle
    BY <1>4, <2>2 DEF IInv, CellsPaired
  <2> QED BY <2>1, <2>2, <2>3, <2>4
<1>5. CASE wrapped /\ ~(j - 1 < Depth - writeIdx)
  <2>1. /\ Span(wrapped, writeIdx) = Depth
        /\ CellOf(wrapped, writeIdx, j - 1) = (j - 1) - (Depth - writeIdx)
    BY <1>5 DEF Span, CellOf
  <2> DEFINE c == (j - 1) - (Depth - writeIdx)
  <2>2. /\ c \in 0 .. writeIdx - 1 /\ c \in Cells
        /\ Len(history) - writeIdx + c + 1 = Len(history) - Depth + j
    <3>1. j \in 1 .. Depth
      BY <2>1
    <3>2. ~(j - 1 < Depth - writeIdx)
      BY <1>5
    <3>3. c \in 0 .. writeIdx - 1
      BY <1>1, <3>1, <3>2
    <3>4. c \in Cells
      BY <1>1, <3>3 DEF Cells
    <3>5. Len(history) - writeIdx + c + 1 = Len(history) - Depth + j
      BY <1>1, <3>1
    <3> QED BY <3>3, <3>4, <3>5
  <2>3. sampleCycles[c] = signal[c].cycle
    BY <1>5, <2>2 DEF IInv, CellsPaired
  <2> QED BY <1>2, <2>1, <2>2, <2>3
<1> QED BY <1>3, <1>4, <1>5

\* Reading the block in the order of fetch() yields the newest samples of the
\* current run, oldest first, each paired with its own cycle number.
THEOREM ReaderGetsNewest == Spec => []RingHoldsNewest
BY ReaderOrder, Invariance, PTL

\* wrapped and writeIdx tell the occupancy, and the samples of a run are in
\* cycle order, for every interleaving of control writes, scans and restarts.
THEOREM ReaderKnowsOccupancy == Spec => [](OccupancyIsKnown /\ HistoryInOrder)
<1>1. IInv => OccupancyIsKnown /\ HistoryInOrder
  BY DEF IInv
<1> QED BY <1>1, Invariance, PTL

-----------------------------------------------------------------------------
\* What a step may do to the samples: nothing, forget them, begin a run, or add
\* the sample that was due.  Only a scan of a block that is told to stop, and a
\* sample, change `recording' without forgetting.
LEMMA SampleSteps ==
    ASSUME IInv, [Next]_rvars
    PROVE  \/ /\ UNCHANGED <<wrapped, writeIdx, signal, history>>
              /\ recording' = recording \/ recording' = FALSE
           \/ Restart
           \/ ScanSample /\ StartEdge /\ EdgeSample
           \/ ScanSample /\ ~StartEdge /\ LaterSample
<1>1. CASE ClientWrite
  BY <1>1 DEF ClientWrite, status, buffers, ghosts
<1>2. CASE ScanIdle
  BY <1>2 DEF ScanIdle, buffers, ghosts
<1>3. CASE ScanSkip
  BY <1>3 DEF ScanSkip, buffers, ghosts
<1>4. CASE ScanSample
  BY <1>4, EdgeStep, LaterStep
<1>5. CASE UNCHANGED rvars
  BY <1>5 DEF rvars, status, buffers, ghosts
<1> QED BY <1>1, <1>2, <1>3, <1>4, <1>5 DEF Next, Scan

\* A sample is taken exactly as many cycles after the one before as the
\* decimation loaded then, whatever is written to decimation in between.
THEOREM Spacing == Spec => SamplesSpaced
<1> DEFINE A == (history' # history /\ history' # <<>>) =>
                   LET c == history'[Len(history')].cycle
                   IN  IF Len(history') = 1 THEN c = 1
                       ELSE c = history[Len(history)].cycle + stride
<1>1. IInv /\ [Next]_rvars => [A]_rvars
  <2> SUFFICES ASSUME IInv, [Next]_rvars, history' # history, history' # <<>>
               PROVE  A
    OBVIOUS
  <2>1. CASE EdgeSample
    <3>1. Len(history') = 1 /\ history'[1].cycle = 1
      BY <2>1 DEF EdgeSample
    <3> QED BY <3>1
  <2>2. CASE LaterSample
    <3>1. history \in Seq([run : Nat, cycle : Nat]) /\ history # <<>>
      BY <2>2 DEF LaterSample, IInv, TypeOK, Phase
    <3>2. Len(history) \in Nat \ {0} /\ history[Len(history)] \in [run : Nat, cycle : Nat]
      BY <3>1, LastElement
    <3>3. history' = Append(history, [run |-> run, cycle |-> cycleCounter + 1])
      BY <2>2 DEF LaterSample
    <3>4. run \in Nat /\ cycleCounter \in Nat /\ stride \in Nat
      BY TraceAssumption DEF IInv, TypeOK
    <3>5. [run |-> run, cycle |-> cycleCounter + 1] \in [run : Nat, cycle : Nat]
      BY <3>4
    <3>6. /\ Len(history') = Len(history) + 1
          /\ history'[Len(history')].cycle = cycleCounter + 1
      BY <3>1, <3>2, <3>3, <3>5
    <3>7. cycleCounter + 1 = history[Len(history)].cycle + stride
      BY <2>2, <3>2, <3>4 DEF LaterSample, IInv, Phase
    <3> QED BY <3>2, <3>6, <3>7
  <2>3. ~Restart
    BY DEF Restart
  <2> QED BY <2>1, <2>2, <2>3, SampleSteps
<1> QED BY <1>1, Invariance, PTL DEF Spec, SamplesSpaced

\* In one-shot mode no sample is lost: until the block stops itself every sample
\* goes to a fresh cell, even when the run began, unwrapped, in ring mode.
THEOREM OneShotKeepsAll == Spec => OneShotNeverOverwrites
<1> DEFINE A == (mode = OneShot /\ ~wrapped /\ ~StartEdge /\ history' # <<>>) =>
                    /\ ~wrapped'
                    /\ \A j \in 1 .. Len(history) : signal'[j - 1] = history[j]
<1>1. IInv /\ [Next]_rvars => [A]_rvars
  <2> SUFFICES ASSUME IInv, [Next]_rvars,
                      mode = OneShot, ~wrapped, ~StartEdge, history' # <<>>
               PROVE  /\ ~wrapped'
                      /\ \A j \in 1 .. Len(history) : signal'[j - 1] = history[j]
    OBVIOUS
  <2>1. /\ writeIdx = Len(history) /\ writeIdx \in Nat /\ Depth \in Nat
        /\ writeIdx <= Depth
    BY TraceAssumption DEF IInv, TypeOK, OccupancyIsKnown
  <2>2. \A j \in 1 .. Len(history) : j - 1 \in Cells \ {writeIdx} /\ signal[j - 1] = history[j]
    <3> SUFFICES ASSUME NEW j \in 1 .. Len(history)
                 PROVE  j - 1 \in Cells \ {writeIdx} /\ signal[j - 1] = history[j]
      OBVIOUS
    <3>1. j - 1 \in 0 .. writeIdx - 1 /\ Len(history) - writeIdx + (j - 1) + 1 = j
      BY <2>1
    <3>2. j - 1 \in Cells \ {writeIdx}
      BY <2>1, <3>1 DEF Cells
    <3> QED BY <3>1, <3>2 DEF IInv, CellContents
  <2>3. CASE UNCHANGED <<wrapped, writeIdx, signal, history>>
    BY <2>2, <2>3
  <2>4. CASE LaterSample
    <3>1. wrapped' = (wrapped \/ FALSE)
      BY <2>4, Zenon DEF LaterSample
    <3>2. \A i \in Cells \ {writeIdx} : signal'[i] = signal[i]
      BY <2>4 DEF LaterSample, IInv, TypeOK
    <3> QED BY <2>2, <3>1, <3>2
  <2>5. ~Restart
    BY DEF Restart
  <2> QED BY <2>3, <2>4, <2>5, SampleSteps
<1> QED BY <1>1, Invariance, PTL DEF Spec, OneShotNeverOverwrites
=============================================================================
