--------------------------- MODULE TraceRefinement ---------------------------
(***************************************************************************)
(* TraceRecorder implements TraceWindow: every scan, control write and PLC *)
(* restart is a step of the abstract window, or leaves it as it is.  The   *)
(* ring and its laps are gone; what fetch() would read is all that counts. *)
(* The clients are an environment of TraceRecorder, so that the block they *)
(* drive implements TraceWindow as well.                                   *)
(***************************************************************************)
EXTENDS TraceClientProofs, SequenceTheorems

Data == [run : Nat, cycle : Nat]

\* What fetch() would read now.
Window == OldestFirst(wrapped, writeIdx, signal)

\* The window as the newest samples of the history.
WindowShape ==
    LET n == Span(wrapped, writeIdx)
    IN  /\ Window \in Seq(Data) /\ Len(Window) = n
        /\ n = IF Len(history) < Depth THEN Len(history) ELSE Depth
        /\ \A j \in 1 .. n : Window[j] = history[Len(history) - n + j]

\* The invariant, seen by a reader.
LEMMA WindowIsNewest == IInv => WindowShape
<1> SUFFICES ASSUME IInv PROVE WindowShape
  OBVIOUS
<1> DEFINE n == Span(wrapped, writeIdx)
<1>1. /\ Depth \in Nat /\ writeIdx \in 0 .. Depth /\ wrapped \in BOOLEAN
      /\ Len(history) \in Nat /\ history \in Seq(Data)
  BY TraceAssumption DEF IInv, TypeOK, Data
<1>2. n \in Nat /\ n = IF Len(history) < Depth THEN Len(history) ELSE Depth
  BY <1>1 DEF Span, IInv, OccupancyIsKnown
<1>3. \A j \in 1 .. n : Window[j] = history[Len(history) - n + j]
  BY ReaderOrder DEF RingHoldsNewest, Window
<1>4. Window = [j \in 1 .. n |-> signal[CellOf(wrapped, writeIdx, j - 1)]]
  BY DEF Window, OldestFirst
<1>5. ASSUME NEW j \in 1 .. n PROVE Window[j] \in Data
  <2>1. Len(history) - n + j \in 1 .. Len(history)
    BY <1>1, <1>2
  <2> QED BY <1>1, <1>3, <2>1
<1>6. Window \in Seq(Data) /\ Len(Window) = n
  <2>1. Window \in [1 .. n -> Data]
    BY <1>4, <1>5
  <2> QED BY <1>2, <2>1
<1> QED BY <1>2, <1>3, <1>6 DEF WindowShape

-----------------------------------------------------------------------------
\* The block as downloaded is the empty window.
LEMMA InitWindow == Init => Abstract!Init
<1> SUFFICES ASSUME Init PROVE Abstract!Init
  OBVIOUS
<1>1. Window = <<>>
  <2>1. IInv /\ Len(history) = 0
    BY InitIInv DEF Init
  <2>2. Window \in Seq(Data) /\ Len(Window) = 0
    BY <2>1, WindowIsNewest, TraceAssumption DEF WindowShape
  <2> QED BY <2>2, EmptySeq
<1> QED BY <1>1 DEF Abstract!Init, Init, Window

\* A start edge is the abstract Arm.
LEMMA EdgeIsArm ==
    ASSUME IInv, EdgeSample, WindowShape'
    PROVE  Abstract!Arm
<1> DEFINE now == [run |-> run + 1, cycle |-> 1]
<1>1. history' = <<now>> /\ Depth \in Nat \ {0}
  BY TraceAssumption DEF EdgeSample
<1>2. /\ Window' \in Seq(Data) /\ Len(Window') = 1
      /\ Window'[1] = now
  BY <1>1 DEF WindowShape
<1>3. Window' = <<Window'[1]>> /\ Window' # <<>>
  BY <1>2
<1>4. recording' \/ Depth = 1
  BY Zenon DEF EdgeSample
<1>5. recording' \/ Len(Window') = Depth
  BY <1>2, <1>4, Zenon
<1> QED BY <1>2, <1>3, <1>5 DEF Abstract!Arm, Abstract!Newest, Window

\* A later sample is the abstract Take: the window slides.
LEMMA LaterIsTake ==
    ASSUME IInv, IInv', LaterSample, WindowShape, WindowShape'
    PROVE  Abstract!Take
<1> DEFINE now == [run |-> run, cycle |-> cycleCounter + 1]
           L   == Len(history)
           n   == Len(Window)
<1>1. /\ history' = Append(history, now) /\ now \in Data
      /\ history \in Seq(Data) /\ L \in Nat \ {0} /\ Depth \in Nat \ {0}
  <2>1. history' = Append(history, now) /\ history # <<>>
    BY DEF LaterSample, IInv, Phase
  <2>2. history \in Seq(Data) /\ now \in Data
    BY TraceAssumption DEF IInv, TypeOK, Data
  <2> QED BY <2>1, <2>2, TraceAssumption
<1>2. /\ Len(history') = L + 1 /\ history'[L + 1] = now
      /\ \A j \in 1 .. L : history'[j] = history[j]
  BY <1>1
<1>3. /\ Window \in Seq(Data) /\ n \in 1 .. L /\ n = IF L < Depth THEN L ELSE Depth
      /\ \A j \in 1 .. n : Window[j] = history[L - n + j]
  BY <1>1 DEF WindowShape
<1>4. /\ Window' \in Seq(Data)
      /\ Len(Window') = IF L < Depth THEN L + 1 ELSE Depth
      /\ \A j \in 1 .. Len(Window') : Window'[j] = history'[L + 1 - Len(Window') + j]
  <2> DEFINE m == Len(Window')
  <2>1. /\ Window' \in Seq(Data)
        /\ m = IF Len(history') < Depth THEN Len(history') ELSE Depth
        /\ \A j \in 1 .. m : Window'[j] = history'[Len(history') - m + j]
    BY DEF WindowShape
  <2>2. Len(history') = L + 1
    BY <1>2
  <2>3. m = IF L < Depth THEN L + 1 ELSE Depth
    BY <1>1, <2>1, <2>2
  <2> HIDE DEF m
  <2> QED BY <2>1, <2>2, <2>3 DEF m
<1>5. /\ Window[n] = history[L] /\ Window # <<>>
      /\ Window'[Len(Window')] = now /\ Window' # <<>>
  <2>1. n \in 1 .. n /\ L - n + n = L
    BY <1>1, <1>3
  <2>2. Window[n] = history[L] /\ Window # <<>>
    BY <1>3, <2>1
  <2> DEFINE m == Len(Window')
  <2>3. m \in 1 .. m /\ L + 1 - m + m = L + 1
    BY <1>1, <1>4
  <2>4. Window'[m] = history'[L + 1]
    BY <1>4, <2>3
  <2>5. Window' # <<>>
    BY <1>4, <2>3
  <2> QED BY <1>2, <2>2, <2>4, <2>5
<1>6. Window' = Abstract!Slide(Window, now)
  <2>1. CASE L < Depth
    <3>1. Append(Window, now) \in Seq(Data) /\ Len(Append(Window, now)) = L + 1
      BY <1>1, <1>3, <2>1
    <3>2. ASSUME NEW j \in 1 .. L + 1 PROVE Window'[j] = Append(Window, now)[j]
      <4>1. Window'[j] = history'[j]
        BY <1>1, <1>4, <2>1
      <4>2. CASE j = L + 1
        <5>1. Append(Window, now)[L + 1] = now
          BY <1>1, <1>3, <2>1
        <5> QED BY <1>2, <4>1, <4>2, <5>1
      <4>3. CASE j # L + 1
        <5>1. j \in 1 .. L /\ n = L /\ L - n + j = j
          BY <1>1, <1>3, <2>1, <4>3
        <5>2. Window[j] = history[j]
          BY <1>3, <5>1
        <5>3. Append(Window, now)[j] = Window[j]
          BY <1>1, <1>3, <5>1
        <5> QED BY <1>2, <4>1, <5>1, <5>2, <5>3
      <4> QED BY <4>2, <4>3
    <3>3. Window' = Append(Window, now)
      BY <1>4, <2>1, <3>1, <3>2, SeqEqual
    <3> QED BY <1>3, <2>1, <3>3 DEF Abstract!Slide
  <2>2. CASE ~(L < Depth)
    <3> DEFINE slid == Append(Tail(Window), now)
    <3>1. /\ Tail(Window) \in Seq(Data) /\ Len(Tail(Window)) = Depth - 1 /\ n = Depth
          /\ \A j \in 1 .. Depth - 1 : Tail(Window)[j] = Window[j + 1]
      BY <1>3, <1>5, <2>2, HeadTailProperties
    <3>2. slid \in Seq(Data) /\ Len(slid) = Depth
      BY <1>1, <3>1
    <3>3. ASSUME NEW j \in 1 .. Depth PROVE Window'[j] = slid[j]
      <4>1. Window'[j] = history'[L + 1 - Depth + j]
        BY <1>4, <2>2
      <4>2. CASE j = Depth
        <5>1. L + 1 - Depth + j = L + 1
          BY <1>1, <4>2
        <5> QED BY <1>1, <1>2, <3>1, <4>1, <4>2, <5>1
      <4>3. CASE j # Depth
        <5>1. j \in 1 .. Depth - 1 /\ j + 1 \in 1 .. n
          BY <1>1, <3>1, <4>3
        <5>2. L + 1 - Depth + j \in 1 .. L /\ L - n + (j + 1) = L + 1 - Depth + j
          BY <1>1, <2>2, <3>1, <5>1
        <5>3. Window[j + 1] = history[L + 1 - Depth + j]
          BY <1>3, <5>1, <5>2
        <5>4. slid[j] = Window[j + 1]
          BY <1>1, <3>1, <5>1
        <5> QED BY <1>2, <4>1, <5>2, <5>3, <5>4
      <4> QED BY <4>2, <4>3
    <3>4. Window' = slid
      BY <1>4, <2>2, <3>2, <3>3, SeqEqual
    <3> QED BY <1>3, <2>2, <3>1, <3>4 DEF Abstract!Slide
  <2> QED BY <2>1, <2>2
<1>7. now.run = history[L].run /\ now.cycle > history[L].cycle
  <2>1. history[L].run = run
    BY <1>1 DEF IInv, HistoryInOrder
  <2>2. history'[L].cycle < history'[L + 1].cycle
    <3>1. \A j \in 1 .. Len(history') - 1 : history'[j].cycle < history'[j + 1].cycle
      BY DEF IInv, HistoryInOrder
    <3> QED BY <1>1, <1>2, <3>1
  <2>3. history[L] \in Data
    BY <1>1
  <2> QED BY <1>1, <1>2, <2>1, <2>2, <2>3 DEF Data
<1>8. recording /\ (recording' \/ Len(Window') = Depth)
  <2>1. CASE writeIdx + 1 = Depth /\ mode = OneShot
    <3>1. wrapped' \/ (~wrapped' /\ writeIdx' = Depth)
      BY <2>1 DEF LaterSample, Ring, OneShot
    <3>2. Span(wrapped, writeIdx)' = Depth
      BY <3>1 DEF Span
    <3> QED BY <3>2 DEF WindowShape, LaterSample
  <2>2. CASE ~(writeIdx + 1 = Depth /\ mode = OneShot)
    BY <2>2, Zenon DEF LaterSample
  <2> QED BY <2>1, <2>2
<1>9. Abstract!Newest(Window') = now /\ Abstract!Newest(Window) = history[L]
  BY <1>5 DEF Abstract!Newest
<1> QED BY <1>5, <1>6, <1>7, <1>8, <1>9 DEF Abstract!Take, Window

\* Every step maps to a step of the window or to a stutter.
LEMMA StepRefines ==
    ASSUME IInv, IInv', [Next]_rvars, WindowShape, WindowShape'
    PROVE  [Abstract!Next]_Abstract!wvars
<1>1. CASE /\ UNCHANGED <<wrapped, writeIdx, signal, history>>
           /\ recording' = recording \/ recording' = FALSE
  <2>1. Window' = Window
    BY <1>1 DEF Window
  <2>2. CASE recording' = recording
    BY <2>1, <2>2 DEF Abstract!wvars, Window
  <2>3. CASE recording' = FALSE
    BY <2>1, <2>3 DEF Abstract!Next, Abstract!Halt, Window
  <2> QED BY <1>1, <2>2, <2>3
<1>2. CASE Restart
  <2>1. Len(history') = 0 /\ recording' = FALSE
    BY <1>2 DEF Restart
  <2>2. Window' \in Seq(Data) /\ Len(Window') = 0
    BY <2>1, TraceAssumption DEF WindowShape
  <2>3. Window' = <<>>
    BY <2>2, EmptySeq
  <2> QED BY <2>1, <2>3 DEF Abstract!Next, Abstract!Reset, Window
<1>3. CASE EdgeSample
  BY <1>3, EdgeIsArm DEF Abstract!Next
<1>4. CASE LaterSample
  BY <1>4, LaterIsTake DEF Abstract!Next
<1> QED BY <1>1, <1>2, <1>3, <1>4, SampleSteps

\* The recorder implements the abstract window: a run starts afresh, then the
\* window slides by one sample at a time, keeps its samples when the run ends
\* and loses them only to a new run or a PLC restart.
THEOREM Refinement == Spec => ImplementsWindow
<1>1. IInv => WindowShape
  BY WindowIsNewest
<1>2. IInv /\ IInv' /\ [Next]_rvars /\ WindowShape /\ WindowShape'
        => [Abstract!Next]_Abstract!wvars
  BY StepRefines
<1> QED BY <1>1, <1>2, InitWindow, Invariance, PTL DEF Spec, ImplementsWindow, Abstract!Spec

\* Under any number of Python clients, their faults, timeouts and the restarts
\* of the PLC, the block is the sliding window a user of the trace is told of.
THEOREM WindowUnderClients == CSpec => ImplementsWindow
BY ClientsAreEnvironment, Refinement
=============================================================================
