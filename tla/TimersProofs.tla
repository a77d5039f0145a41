---------------------------- MODULE TimersProofs ----------------------------
(***************************************************************************)
(* Theorems about Timers, for every preset, every way of advancing the     *)
(* clock and every number of calls.  The answers of a timer are stated     *)
(* over the history of its calls; the invariant says what its few fields   *)
(* remember of that history.                                               *)
(***************************************************************************)
EXTENDS Timers, TLAPS

\* `was' is the input of the last call, and Q what it answered.
MemoryIsLast ==
    /\ calls = <<>> => New
    /\ calls # <<>> => was = Last.in /\ Q = Last.q

\* TON remembers when the stretch of calls with IN began.
OnDelayMemory ==
    block = "TON" =>
        /\ was => /\ mark # None /\ ET = Last.at - mark
                  /\ Q = (Last.at - mark >= Last.pt)
                  /\ \A i \in 1 .. Count : Since(i, TRUE) => calls[i].at = mark
        /\ ~was => ~Q /\ ET = 0

\* TOF remembers when IN fell, unless it was never TRUE.
OffDelayMemory ==
    block = "TOF" =>
        /\ was => Q /\ ET = 0
        /\ ~was /\ mark = None =>
             ~Q /\ \A i \in 1 .. Count : Since(i, FALSE) => i = 1
        /\ ~was /\ mark # None =>
             /\ Q = (Last.at - mark < Last.pt)
             /\ \A i \in 1 .. Count : Since(i, FALSE) => i > 1 /\ calls[i].at = mark

\* TP remembers the call its pulse began with, while it lasts.
PulseMemory ==
    block = "TP" =>
        /\ Q = (mark # None)
        /\ Q => ET = Last.at - mark /\ ET < Last.pt
        /\ \A i \in 1 .. Count : PulseStart(i) =>
             /\ calls[i].at = mark
             /\ calls[i].in /\ (i > 1 => ~calls[i - 1].in)

\* The inductive invariant.
IInv == /\ TypeOK
        /\ MemoryIsLast
        /\ OnDelayMemory
        /\ OffDelayMemory
        /\ PulseMemory
        /\ EdgesAreExact

-----------------------------------------------------------------------------
\* What every block answers is typed, and remembers no future.
LEMMA AnswersAreTyped ==
    ASSUME TypeOK, Execute
    PROVE  Q' \in BOOLEAN /\ ET' \in Nat /\ mark' \in {None} \cup 0 .. clock
<1>0. /\ clock \in Nat /\ mark \in {None} \cup 0 .. clock /\ None = -1 /\ ET \in Nat /\ Q \in BOOLEAN
      /\ input \in BOOLEAN /\ was \in BOOLEAN /\ preset \in Nat
  BY TimersAssumption DEF TypeOK, None
<1>o. Off => Q' \in BOOLEAN /\ ET' \in Nat /\ mark' \in {None} \cup 0 .. clock
  <2> SUFFICES ASSUME Q' = FALSE /\ ET' = 0 /\ mark' = None
               PROVE  Q' \in BOOLEAN /\ ET' \in Nat /\ mark' \in {None} \cup 0 .. clock
    BY DEF Off, Becomes
  <2> QED OBVIOUS
<1>s. ASSUME NEW m, m \in {None} \cup 0 .. clock, m # None
      PROVE  m \in 0 .. clock /\ clock - m \in Nat
  BY <1>0, <1>s
<1>1. CASE TON
  <2>1. CASE input /\ OnSince # None /\ Becomes(clock - OnSince >= preset, clock - OnSince, OnSince)
    <3>1. OnSince \in 0 .. clock /\ clock - OnSince \in Nat
      BY <2>1, <1>0, <1>s DEF OnSince
    <3>2. Q' = (clock - OnSince >= preset) /\ ET' = clock - OnSince /\ mark' = OnSince
      BY <2>1 DEF Becomes
    <3>3. Q' \in BOOLEAN
      BY <3>2
    <3> QED BY <3>1, <3>2, <3>3
  <2> QED BY <1>1, <1>o, <2>1 DEF TON
<1>2. CASE TOF
  <2>1. CASE OffSince # None /\ Becomes(clock - OffSince < preset, clock - OffSince, OffSince)
    <3>1. OffSince \in 0 .. clock /\ clock - OffSince \in Nat
      BY <2>1, <1>0, <1>s DEF OffSince
    <3>2. Q' = (clock - OffSince < preset) /\ ET' = clock - OffSince /\ mark' = OffSince
      BY <2>1 DEF Becomes
    <3>3. Q' \in BOOLEAN
      BY <3>2
    <3> QED BY <3>1, <3>2, <3>3
  <2>2. CASE Becomes(TRUE, 0, None)
    <3>1. Q' = TRUE /\ ET' = 0 /\ mark' = None
      BY <2>2 DEF Becomes
    <3> QED BY <3>1
  <2> QED BY <1>2, <1>o, <2>1, <2>2 DEF TOF
<1>3. CASE TP
  <2>1. CASE PulseSince # None /\ Becomes(TRUE, clock - PulseSince, PulseSince)
    <3>1. PulseSince \in 0 .. clock /\ clock - PulseSince \in Nat
      BY <2>1, <1>0, <1>s DEF PulseSince
    <3>2. Q' = TRUE /\ ET' = clock - PulseSince /\ mark' = PulseSince
      BY <2>1 DEF Becomes
    <3> QED BY <3>1, <3>2
  <2> QED BY <1>3, <1>o, <2>1 DEF TP
<1>4. CASE TONR
  <2>1. Accumulated \in Nat
    <3>1. CASE mark = None
      BY <3>1, <1>0 DEF Accumulated
    <3>2. CASE mark # None
      BY <3>2, <1>0, <1>s DEF Accumulated
    <3> QED BY <3>1, <3>2
  <2>2. CASE Becomes(FALSE, 0, clock)
    <3>1. Q' = FALSE /\ ET' = 0 /\ mark' = clock
      BY <2>2 DEF Becomes
    <3>2. ET' \in Nat /\ mark' \in {None} \cup 0 .. clock
      BY <3>1, <1>0
    <3> QED BY <3>1, <3>2
  <2>3. CASE Becomes(Latched, Accumulated, clock)
    <3>1. Q' = Latched /\ ET' = Accumulated /\ mark' = clock
      BY <2>3 DEF Becomes
    <3>2. Latched \in BOOLEAN
      BY DEF Latched
    <3>3. Q' \in BOOLEAN
      BY <3>1, <3>2
    <3>4. ET' \in Nat /\ mark' \in 0 .. clock
      BY <3>1, <2>1, <1>0
    <3>5. mark' \in {None} \cup 0 .. clock
      BY <3>4
    <3> QED BY <3>3, <3>4, <3>5, Zenon
  <2> QED BY <1>4, <2>2, <2>3 DEF TONR
<1>5. CASE R_TRIG \/ F_TRIG
  <2>1. (Q' = Rises \/ Q' = Falls) /\ ET' = ET /\ mark' = mark
    BY <1>5 DEF R_TRIG, F_TRIG, Becomes
  <2>2. Q' \in BOOLEAN
    BY <2>1 DEF Rises, Falls
  <2> QED BY <2>1, <2>2, <1>0
<1> QED BY <1>1, <1>2, <1>3, <1>4, <1>5 DEF Execute

\* The history after a call.
LEMMA CallIsRecorded ==
    ASSUME TypeOK, Execute
    PROVE  /\ Count \in Nat /\ Count' = Count + 1
           /\ calls' \in Seq(Call) /\ Len(calls') <= MaxCalls /\ calls' # <<>>
           /\ Last' = [at |-> clock, in |-> input, pt |-> preset, q |-> Q']
           /\ calls'[Count + 1] = Last'
           /\ \A i \in 1 .. Count : calls'[i] = calls[i] /\ calls[i] \in Call
           /\ was' = input /\ UNCHANGED <<block, clock, inputs>>
<1> DEFINE x == [at |-> clock, in |-> input, pt |-> preset, q |-> Q']
<1>1. x \in Call
  BY AnswersAreTyped DEF Call, TypeOK
<1>2. calls' = Append(calls, x) /\ Len(calls) < MaxCalls /\ MaxCalls \in Nat /\ calls \in Seq(Call)
  BY TimersAssumption DEF Execute, TypeOK
<1>3. was' = input /\ UNCHANGED <<block, clock, inputs>>
  BY DEF Execute
<1> HIDE DEF x
<1>4. /\ Count \in Nat /\ Count' = Count + 1 /\ calls' \in Seq(Call) /\ Len(calls') <= MaxCalls
      /\ calls' # <<>> /\ Last' = x /\ calls'[Count + 1] = x
      /\ \A i \in 1 .. Count : calls'[i] = calls[i] /\ calls[i] \in Call
  BY <1>1, <1>2 DEF Count, Last
<1> QED BY <1>3, <1>4 DEF x

\* A stretch of calls that lasts through a call lasted until it, or begins
\* with it.
LEMMA StretchGrows ==
    ASSUME TypeOK, Execute, NEW b \in BOOLEAN, NEW i \in 1 .. Count + 1, Since(i, b)'
    PROVE  /\ input = b
           /\ i \in 1 .. Count => Since(i, b)
           /\ i = Count + 1 /\ i > 1 => Last.in # b
<1>1. /\ \A j \in i .. Count + 1 : calls'[j].in = b
      /\ i > 1 => calls'[i - 1].in # b
  BY CallIsRecorded DEF Since
<1>2. input = b
  BY <1>1, CallIsRecorded
<1>3. i \in 1 .. Count => Since(i, b)
  BY <1>1, CallIsRecorded DEF Since
<1>4. i = Count + 1 /\ i > 1 => Last.in # b
  BY <1>1, CallIsRecorded DEF Last
<1> QED BY <1>2, <1>3, <1>4

\* The same of a pulse.
LEMMA PulseGrows ==
    ASSUME TypeOK, Execute, NEW i \in 1 .. Count + 1, PulseStart(i)'
    PROVE  /\ Q'
           /\ i \in 1 .. Count => PulseStart(i)
           /\ i = Count + 1 /\ i > 1 => ~Last.q
<1>1. /\ \A j \in i .. Count + 1 : calls'[j].q
      /\ i > 1 => ~calls'[i - 1].q
  BY CallIsRecorded DEF PulseStart
<1>2. Q'
  BY <1>1, CallIsRecorded
<1>3. i \in 1 .. Count => PulseStart(i)
  BY <1>1, CallIsRecorded DEF PulseStart
<1>4. i = Count + 1 /\ i > 1 => ~Last.q
  BY <1>1, CallIsRecorded DEF Last
<1> QED BY <1>2, <1>3, <1>4

\* One call keeps the invariant.
LEMMA ExecuteIInv == ASSUME IInv, Execute PROVE IInv'
<1>0. /\ TypeOK /\ Count \in Nat /\ Count' = Count + 1 /\ clock' = clock /\ clock \in Nat
      /\ was' = input /\ block' = block /\ preset' = preset /\ preset \in Nat
      /\ Last'.in = input /\ Last'.at = clock /\ Last'.pt = preset /\ Last'.q = Q'
      /\ calls' # <<>> /\ Q' \in BOOLEAN /\ input \in BOOLEAN /\ was \in BOOLEAN
      /\ mark \in {None} \cup 0 .. clock /\ Q \in BOOLEAN
  BY CallIsRecorded, AnswersAreTyped, TimersAssumption DEF IInv, TypeOK, inputs
<1>t. /\ calls'[Count + 1] = Last'
      /\ \A i \in 1 .. Count : calls'[i] = calls[i]
      /\ Count = 0 <=> calls = <<>>
  BY <1>0, CallIsRecorded DEF Count, TypeOK
<1>l. Count >= 1 => was = Last.in /\ Q = Last.q /\ Last = calls[Count]
  BY <1>0, <1>t DEF IInv, MemoryIsLast, Last
<1>n. Count = 0 => ~was /\ ~Q /\ mark = None
  BY <1>t DEF IInv, MemoryIsLast, New
<1>1. TypeOK'
  BY CallIsRecorded, AnswersAreTyped DEF IInv, TypeOK, inputs, Execute
<1>2. MemoryIsLast'
  BY <1>0 DEF MemoryIsLast
<1>3. OnDelayMemory'
  <2> SUFFICES ASSUME block = "TON" PROVE OnDelayMemory'
    BY <1>0 DEF OnDelayMemory
  <2>1. TON
    BY DEF Execute
  <2>2. CASE ~input
    BY <2>1, <2>2, <1>0 DEF TON, Off, Becomes, OnDelayMemory
  <2>3. CASE input
    <3>1. /\ OnSince # None /\ mark' = OnSince /\ ET' = clock - OnSince
          /\ Q' = (clock - OnSince >= preset)
      BY <2>1, <2>3 DEF TON, Becomes
    <3>2. ASSUME NEW i \in 1 .. Count + 1, Since(i, TRUE)' PROVE calls'[i].at = mark'
      <4>1. CASE i \in 1 .. Count
        <5>1. Since(i, TRUE)
          BY <3>2, <4>1, <1>0, StretchGrows
        <5>2. Last.in
          BY <5>1, <4>1, <1>0, <1>l DEF Since
        <5>c. Count >= 1
          BY <4>1, <1>0
        <5>3. was
          BY <5>2, <5>c, <1>l
        <5>4. calls[i].at = mark
          BY <5>1, <5>3, <4>1 DEF IInv, OnDelayMemory
        <5> QED BY <5>3, <5>4, <3>1, <4>1, <1>t DEF OnSince, Rises
      <4>2. CASE i = Count + 1
        <5>1. ~was
          <6>1. CASE Count = 0
            BY <6>1, <1>n
          <6>2. CASE Count >= 1
            <7>1. i = Count + 1 /\ i > 1
              BY <6>2, <4>2, <1>0
            <7>2. Last.in # TRUE
              BY <7>1, <3>2, <1>0, StretchGrows
            <7> QED BY <6>2, <7>2, <1>0, <1>l
          <6> QED BY <6>1, <6>2, <1>0
        <5> QED BY <5>1, <2>3, <3>1, <4>2, <1>0, <1>t DEF OnSince, Rises
      <4> QED BY <4>1, <4>2, <1>0
    <3> QED BY <3>1, <3>2, <2>3, <1>0 DEF OnDelayMemory, None
  <2> QED BY <2>2, <2>3
<1>4. OffDelayMemory'
  <2> SUFFICES ASSUME block = "TOF" PROVE OffDelayMemory'
    BY <1>0 DEF OffDelayMemory
  <2>1. TOF
    BY DEF Execute
  <2>2. CASE input
    BY <2>1, <2>2, <1>0 DEF TOF, Becomes, OffDelayMemory
  <2>3. CASE ~input /\ OffSince # None
    <3>1. mark' = OffSince /\ Q' = (clock - OffSince < preset)
      BY <2>1, <2>3 DEF TOF, Becomes
    <3>2. ASSUME NEW i \in 1 .. Count + 1, Since(i, FALSE)' PROVE i > 1 /\ calls'[i].at = mark'
      <4>1. CASE i \in 1 .. Count
        <5>1. Since(i, FALSE)
          BY <3>2, <4>1, <1>0, StretchGrows
        <5>2. ~was
          BY <5>1, <4>1, <1>0, <1>l DEF Since
        <5>3. mark # None
          BY <5>2, <2>3, <1>0 DEF OffSince, Falls
        <5>4. i > 1 /\ calls[i].at = mark
          BY <5>1, <5>2, <5>3, <4>1 DEF IInv, OffDelayMemory
        <5> QED BY <5>2, <5>4, <3>1, <4>1, <1>t DEF OffSince, Falls
      <4>2. CASE i = Count + 1
        <5>1. CASE Count = 0
          BY <5>1, <2>3, <1>n DEF OffSince, Falls
        <5>2. CASE Count >= 1
          <6>1. was
            <7>1. i = Count + 1 /\ i > 1
              BY <5>2, <4>2, <1>0
            <7>2. Last.in # FALSE
              BY <7>1, <3>2, <1>0, StretchGrows
            <7> QED BY <5>2, <7>2, <1>0, <1>l
          <6> QED BY <6>1, <5>2, <2>3, <3>1, <4>2, <1>0, <1>t DEF OffSince, Falls
        <5> QED BY <5>1, <5>2, <1>0
      <4> QED BY <4>1, <4>2, <1>0
    <3> QED BY <3>1, <3>2, <2>3, <1>0 DEF OffDelayMemory
  <2>4. CASE ~input /\ OffSince = None
    <3>1. mark' = None /\ Q' = FALSE
      BY <2>1, <2>4 DEF TOF, Off, Becomes
    <3>2. ~was /\ mark = None
      BY <2>4, <1>0 DEF OffSince, Falls, None
    <3>3. ASSUME NEW i \in 1 .. Count + 1, Since(i, FALSE)' PROVE i = 1
      <4>1. CASE i \in 1 .. Count
        <5>1. Since(i, FALSE)
          BY <3>3, <4>1, <1>0, StretchGrows
        <5> QED BY <5>1, <3>2, <4>1 DEF IInv, OffDelayMemory
      <4>2. CASE i = Count + 1
        <5>1. ASSUME Count >= 1 PROVE FALSE
          <6>1. i = Count + 1 /\ i > 1
            BY <5>1, <4>2, <1>0
          <6>2. Last.in # FALSE
            BY <6>1, <3>3, <1>0, StretchGrows
          <6> QED BY <5>1, <6>2, <3>2, <1>0, <1>l
        <5> QED BY <5>1, <4>2, <1>0
      <4> QED BY <4>1, <4>2, <1>0
    <3> QED BY <3>1, <3>3, <2>4, <1>0 DEF OffDelayMemory
  <2> QED BY <2>2, <2>3, <2>4, <1>0
<1>5. PulseMemory'
  <2> SUFFICES ASSUME block = "TP" PROVE PulseMemory'
    BY <1>0 DEF PulseMemory
  <2>1. TP
    BY DEF Execute
  <2>2. Q = (mark # None)
    BY DEF IInv, PulseMemory
  <2>3. CASE ~Q'
    <3>1. mark' = None
      BY <2>1, <2>3 DEF TP, Off, Becomes
    <3>2. \A i \in 1 .. Count + 1 : ~PulseStart(i)'
      BY <2>3, <1>0, PulseGrows
    <3> QED BY <3>1, <3>2, <2>3, <1>0 DEF PulseMemory
  <2>4. CASE Q'
    <3>1. /\ PulseSince # None /\ clock - PulseSince < preset
          /\ mark' = PulseSince /\ ET' = clock - PulseSince
      BY <2>1, <2>4 DEF TP, Off, Becomes
    <3>2. ASSUME NEW i \in 1 .. Count + 1, PulseStart(i)'
          PROVE  calls'[i].at = mark' /\ calls'[i].in /\ (i > 1 => ~calls'[i - 1].in)
      <4>1. CASE i \in 1 .. Count
        <5>1. PulseStart(i)
          BY <3>2, <4>1, <1>0, PulseGrows
        <5>2. Last.q
          BY <5>1, <4>1, <1>0, <1>l DEF PulseStart
        <5>3. mark # None
          <6>c. Count >= 1
            BY <4>1, <1>0
          <6>1. Q
            BY <5>2, <6>c, <1>l
          <6> QED BY <6>1, <2>2
        <5>4. calls[i].at = mark /\ calls[i].in /\ (i > 1 => ~calls[i - 1].in)
          BY <5>1, <4>1 DEF IInv, PulseMemory
        <5> QED BY <5>3, <5>4, <3>1, <4>1, <1>t, <1>0 DEF PulseSince
      <4>2. CASE i = Count + 1
        <5>1. ~Q
          BY <3>2, <4>2, <1>0, <1>l, <1>n, PulseGrows
        <5>2. mark = None
          BY <5>1, <2>2
        <5>3. Rises /\ mark' = clock
          BY <5>2, <3>1 DEF PulseSince
        <5>4. i > 1 => ~calls[i - 1].in
          BY <5>3, <4>2, <1>0, <1>l DEF Rises
        <5>5. calls'[i].at = mark' /\ calls'[i].in
          BY <5>3, <4>2, <1>0, <1>t DEF Rises
        <5>6. i > 1 => calls'[i - 1] = calls[i - 1]
          BY <4>2, <1>0, <1>t
        <5> QED BY <5>4, <5>5, <5>6
      <4> QED BY <4>1, <4>2, <1>0
    <3> QED BY <3>1, <3>2, <2>4, <1>0 DEF PulseMemory
  <2> QED BY <2>3, <2>4
<1>6. EdgesAreExact'
  <2> DEFINE before == Count' > 1 /\ calls'[Count' - 1].in
  <2>1. before = was
    <3>1. CASE Count = 0
      BY <3>1, <1>0, <1>n
    <3>2. CASE Count >= 1
      BY <3>2, <1>0, <1>t, <1>l
    <3> QED BY <3>1, <3>2, <1>0
  <2> HIDE DEF before
  <2>2. block = "R_TRIG" => Q' = (input /\ ~was)
    BY <1>0 DEF Execute, R_TRIG, Rises, Becomes
  <2>3. block = "F_TRIG" => Q' = (~input /\ was)
    BY <1>0 DEF Execute, F_TRIG, Falls, Becomes
  <2> QED BY <2>1, <2>2, <2>3, <1>0 DEF EdgesAreExact, before
<1> QED BY <1>1, <1>2, <1>3, <1>4, <1>5, <1>6 DEF IInv

\* Every step keeps the invariant.
LEMMA StepIInv == IInv /\ [Next]_vars => IInv'
<1> SUFFICES ASSUME IInv, [Next]_vars PROVE IInv'
  OBVIOUS
<1>1. ASSUME UNCHANGED <<timer, block, calls>>, TypeOK' PROVE IInv'
  BY <1>1 DEF timer, IInv, MemoryIsLast, OnDelayMemory, OffDelayMemory, PulseMemory, EdgesAreExact,
     New, Last, Count, Since, PulseStart
<1>2. CASE SetInputs
  <2>1. TypeOK'
    BY <1>2 DEF SetInputs, SetInput, SetPreset, SetReset, IInv, TypeOK, timer
  <2> QED BY <2>1, <1>1, <1>2 DEF SetInputs
<1>3. CASE Advance
  <2>1. TypeOK'
    BY <1>3, TimersAssumption DEF Advance, IInv, TypeOK, timer, inputs, None
  <2> QED BY <2>1, <1>1, <1>3 DEF Advance
<1>4. CASE Execute
  BY <1>4, ExecuteIInv
<1>5. CASE Reset
  <2>1. TypeOK'
    <3>1. /\ clock' = 0 /\ Q' = FALSE /\ ET' = 0 /\ mark' = None /\ was' = FALSE
          /\ input' = FALSE /\ reset' = FALSE /\ block' = block /\ preset' = preset
          /\ calls' = <<>> /\ onTime' = 0
      BY <1>5 DEF Reset
    <3>2. block \in Blocks /\ preset \in Presets /\ MaxTime \in Nat /\ MaxCalls \in Nat
      BY TimersAssumption DEF IInv, TypeOK
    <3>3. clock' \in 0 .. MaxTime /\ calls' \in Seq(Call) /\ Len(calls') <= MaxCalls
      BY <3>1, <3>2
    <3> QED BY <3>1, <3>2, <3>3 DEF TypeOK
  <2>2. calls' = <<>> /\ Count' = 0 /\ New'
    BY <1>5 DEF Reset, Count, New
  <2>3. MemoryIsLast' /\ EdgesAreExact'
    BY <2>2 DEF MemoryIsLast, EdgesAreExact
  <2>4. ~was' /\ ~Q' /\ Q' = FALSE /\ ET' = 0 /\ mark' = None /\ \A i : i \notin 1 .. Count'
    BY <2>2 DEF New
  <2>5. Q' = (mark' # None)
    BY <2>4
  <2>6. OnDelayMemory'
    BY <2>4, Zenon DEF OnDelayMemory
  <2>7. OffDelayMemory'
    BY <2>4, Zenon DEF OffDelayMemory
  <2>8. PulseMemory'
    BY <2>4, <2>5, Zenon DEF PulseMemory
  <2> QED BY <2>1, <2>3, <2>6, <2>7, <2>8 DEF IInv
<1>6. CASE UNCHANGED vars
  <2>1. TypeOK'
    BY <1>6 DEF vars, inputs, timer, IInv, TypeOK
  <2> QED BY <2>1, <1>1, <1>6 DEF vars
<1> QED BY <1>2, <1>3, <1>4, <1>5, <1>6 DEF Next

LEMMA InitIInv == Init => IInv
<1> SUFFICES ASSUME Init PROVE IInv
  OBVIOUS
<1>1. TypeOK
  <2>1. clock \in 0 .. MaxTime /\ calls \in Seq(Call) /\ Len(calls) <= MaxCalls
    BY TimersAssumption DEF Init
  <2> QED BY <2>1 DEF Init, New, TypeOK
<1>2. MemoryIsLast /\ EdgesAreExact
  BY DEF Init, MemoryIsLast, EdgesAreExact
<1>3. Count = 0 /\ was = FALSE /\ Q = FALSE /\ ET = 0 /\ mark = None
  BY DEF Init, New, Count
<1>4. ~was /\ ~Q /\ \A i : i \notin 1 .. Count
  BY <1>3
<1>5. OnDelayMemory /\ OffDelayMemory /\ PulseMemory
  BY <1>3, <1>4 DEF OnDelayMemory, OffDelayMemory, PulseMemory
<1> QED BY <1>1, <1>2, <1>5 DEF IInv

LEMMA Invariant == Spec => []IInv
<1>1. Init => IInv
  BY InitIInv
<1>2. IInv /\ [Next]_vars => IInv'
  BY StepIInv
<1> QED BY <1>1, <1>2, PTL DEF Spec

-----------------------------------------------------------------------------
\* The state of a block is typed in every step.
THEOREM TimersTypeCorrect == Spec => []TypeOK
<1>1. IInv => TypeOK
  BY DEF IInv
<1> QED BY <1>1, Invariant, PTL

\* Call i of a history that is not empty: what every use below needs.
LEMMA StretchEndsNow ==
    ASSUME IInv, NEW b \in BOOLEAN, NEW i \in 1 .. Count, Since(i, b)
    PROVE  Last.in = b /\ calls # <<>> /\ was = b
<1>1. Count \in Nat /\ Count >= 1 /\ Last = calls[Count]
  BY DEF IInv, TypeOK, Count, Last
<1>2. Last.in = b
  BY <1>1 DEF Since
<1>3. calls # <<>>
  BY <1>1 DEF Count
<1> QED BY <1>2, <1>3 DEF IInv, MemoryIsLast

\* Q and ET of an on-delay timer are what the calls of its run say.
THEOREM OnDelayCorrect == Spec => []OnDelayIsExact
<1>1. IInv => OnDelayIsExact
  <2> SUFFICES ASSUME IInv, block = "TON", calls # <<>> PROVE OnDelayIsExact
    BY DEF OnDelayIsExact
  <2>1. was = Last.in
    BY DEF IInv, MemoryIsLast
  <2>2. ~Last.in => ~Q /\ ET = 0
    BY <2>1 DEF IInv, OnDelayMemory
  <2>3. ASSUME NEW i \in 1 .. Count, Since(i, TRUE)
        PROVE  ET = Last.at - calls[i].at /\ Q = (Last.at - calls[i].at >= Last.pt)
    <3>1. was
      BY <2>3, StretchEndsNow
    <3> QED BY <2>3, <3>1 DEF IInv, OnDelayMemory
  <2> QED BY <2>2, <2>3 DEF OnDelayIsExact
<1> QED BY <1>1, Invariant, PTL

\* The same of an off-delay timer.
THEOREM OffDelayCorrect == Spec => []OffDelayIsExact
<1>1. IInv => OffDelayIsExact
  <2> SUFFICES ASSUME IInv, block = "TOF", calls # <<>> PROVE OffDelayIsExact
    BY DEF OffDelayIsExact
  <2>1. was = Last.in
    BY DEF IInv, MemoryIsLast
  <2>2. Last.in => Q /\ ET = 0
    BY <2>1 DEF IInv, OffDelayMemory
  <2>3. ASSUME NEW i \in 1 .. Count, Since(i, FALSE)
        PROVE  Q = (i > 1 /\ Last.at - calls[i].at < Last.pt)
    <3>1. ~was
      BY <2>3, StretchEndsNow
    <3>2. CASE mark = None
      <4>1. i = 1 /\ ~Q
        BY <2>3, <3>1, <3>2 DEF IInv, OffDelayMemory
      <4>2. Q \in BOOLEAN
        BY DEF IInv, TypeOK
      <4>3. ~(i > 1)
        BY <4>1
      <4> QED BY <4>1, <4>2, <4>3
    <3>3. CASE mark # None
      <4>1. Q = (Last.at - mark < Last.pt) /\ i > 1 /\ calls[i].at = mark
        BY <2>3, <3>1, <3>3 DEF IInv, OffDelayMemory
      <4> QED BY <4>1
    <3> QED BY <3>2, <3>3
  <2> QED BY <2>2, <2>3 DEF OffDelayIsExact
<1> QED BY <1>1, Invariant, PTL

\* A pulse began with an edge and is shorter than its preset.
THEOREM PulseCorrect == Spec => []PulseIsBounded
<1>1. IInv => PulseIsBounded
  <2> SUFFICES ASSUME IInv, block = "TP", NEW i \in 1 .. Count, PulseStart(i)
               PROVE  /\ calls[i].in /\ (i > 1 => ~calls[i - 1].in)
                      /\ ET = Last.at - calls[i].at /\ ET < Last.pt
    BY DEF PulseIsBounded
  <2>1. Count \in Nat /\ Count >= 1 /\ Last = calls[Count] /\ calls # <<>>
    BY DEF IInv, TypeOK, Count, Last
  <2>2. Last.q
    BY <2>1 DEF PulseStart
  <2>3. Q
    BY <2>1, <2>2 DEF IInv, MemoryIsLast
  <2> QED BY <2>3 DEF IInv, PulseMemory
<1> QED BY <1>1, Invariant, PTL

\* An edge block answers an edge in the call that sees it, and only then.
THEOREM EdgesCorrect == Spec => []EdgesAreExact
<1>1. IInv => EdgesAreExact
  BY DEF IInv
<1> QED BY <1>1, Invariant, PTL

\* A pulse runs out whatever its input does.
THEOREM PulseCompletes == Spec => PulseRunsOut
<1>1. IInv /\ [Next]_vars =>
        [block = "TP" /\ Count' = Count + 1 =>
            (Q /\ ~Q' => clock - mark >= preset) /\ (~Q /\ Q' => Rises)]_vars
  <2> SUFFICES ASSUME IInv, Next, block = "TP", Count' = Count + 1
               PROVE  (Q /\ ~Q' => clock - mark >= preset) /\ (~Q /\ Q' => Rises)
    OBVIOUS
  <2>1. Count \in Nat /\ Count # Count + 1
    BY DEF IInv, TypeOK, Count
  <2>2. Count + 1 # 0
    BY <2>1
  <2>3. Execute
    BY <2>1, <2>2 DEF Next, SetInputs, Advance, Reset, Count
  <2>4. TP /\ Q = (mark # None)
    BY <2>3 DEF Execute, IInv, PulseMemory
  <2>5. CASE Q /\ ~Q'
    <3>1. mark # None
      BY <2>4, <2>5
    <3>2. PulseSince # None => clock - PulseSince >= preset
      BY <2>4, <2>5 DEF TP, Becomes
    <3> QED BY <3>1, <3>2, <2>5 DEF PulseSince
  <2>6. CASE ~Q /\ Q'
    <3>1. mark = None
      BY <2>4, <2>6
    <3>2. PulseSince # None
      BY <2>4, <2>6 DEF TP, Off, Becomes
    <3>3. Rises
      BY <3>1, <3>2 DEF PulseSince
    <3> QED BY <3>3, <2>6
  <2> QED BY <2>5, <2>6
<1> QED BY <1>1, Invariant, PTL DEF Spec, PulseRunsOut

\* What a retentive timer accumulated stays until R.
THEOREM RetentiveKeeps == Spec => RetentiveHolds
<1>1. IInv /\ [Next]_vars =>
        [block = "TONR" /\ Count' = Count + 1 =>
            \/ reset
            \/ ET' >= ET /\ (Q => Q') /\ (~input => ET' = ET)]_vars
  <2> SUFFICES ASSUME IInv, Next, block = "TONR", Count' = Count + 1, ~reset
               PROVE  ET' >= ET /\ (Q => Q') /\ (~input => ET' = ET)
    OBVIOUS
  <2>1. Count \in Nat /\ Count # Count + 1
    BY DEF IInv, TypeOK, Count
  <2>2. Count + 1 # 0
    BY <2>1
  <2>3. Execute
    BY <2>1, <2>2 DEF Next, SetInputs, Advance, Reset, Count
  <2>4. TONR
    BY <2>3 DEF Execute
  <2>5. Q' = Latched /\ ET' = Accumulated
    BY <2>4 DEF TONR, Becomes
  <2>6. Q => Q'
    BY <2>5 DEF Latched
  <2>7. ~input => ET' = ET
    BY <2>5 DEF Accumulated
  <2>8. ET' >= ET
    <3>1. ET \in Nat /\ clock \in Nat /\ mark \in {None} \cup 0 .. clock
      BY TimersAssumption DEF IInv, TypeOK
    <3> QED BY <2>5, <3>1 DEF Accumulated, None
  <2> QED BY <2>6, <2>7, <2>8
<1> QED BY <1>1, Invariant, PTL DEF Spec, RetentiveHolds
=============================================================================
