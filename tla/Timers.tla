------------------------------- MODULE Timers -------------------------------
(***************************************************************************)
(* The timer and edge blocks of the SCL executor (plc_code/executor:       *)
(* timers.py) on the simulated clock of runtime.py, driven by the calls of *)
(* the test harness (harness.py): inputs are set, the clock is advanced    *)
(* and the block is executed, in any order and any number of times.  The   *)
(* clock may stand still between two calls, or run on for long.            *)
(*                                                                         *)
(* One block runs per behaviour; `block' says which.  Time is counted in   *)
(* units of the shortest advance (seconds as floats in the code).          *)
(***************************************************************************)
EXTENDS Integers, Sequences

CONSTANTS Blocks,       \* the blocks run: TON, TOF, TP, TONR, R_TRIG, F_TRIG
          Presets,      \* values of PT
          Advances,     \* durations the clock is advanced by
          MaxTime,      \* bound on the clock
          MaxCalls      \* bound on the calls of one run

ASSUME TimersAssumption ==
    /\ Blocks \subseteq {"TON", "TOF", "TP", "TONR", "R_TRIG", "F_TRIG"}
    /\ Presets \subseteq Nat /\ Advances \subseteq Nat
    /\ MaxTime \in Nat /\ MaxCalls \in Nat

VARIABLES block,        \* the class of the instance
          clock,        \* MockClock._current_time
          input, preset, reset,     \* the inputs IN (CLK), PT and R as set
          Q, ET,        \* the outputs
          mark,         \* _start_time, _fall_time, _pulse_start or _last_time
          was,          \* _was_in or _previous
          calls,        \* history: what each call of this run saw and answered
          onTime        \* history: how long IN of a TONR has been TRUE

inputs == <<input, preset, reset>>
timer  == <<Q, ET, mark, was>>
vars   == <<block, clock, inputs, timer, calls, onTime>>

None == -1

-----------------------------------------------------------------------------
(* The calls.  Each says what the outputs and the memory of the block      *)
(* become; `was' becomes IN whatever the block.                            *)

Becomes(q, e, m) == Q' = q /\ ET' = e /\ mark' = m
Off              == Becomes(FALSE, 0, None)

Rises == input /\ ~was
Falls == ~input /\ was

\* Mutant: a fresh start on every call with IN.
StartsAgain == IF input THEN clock ELSE mark
\* Mutant: the moment Q is due is kept, not the moment IN rose.
DueAt == IF Rises THEN clock + preset ELSE mark
\* TON: the clock at the rising edge.  IN is never TRUE without one (OnSince is
\* then no moment), so that the third case of the code is never taken.
OnSince == IF Rises THEN clock ELSE mark

TON ==
    \/ ~input /\ Off
    \/ input /\ OnSince # None
       /\ Becomes(clock - OnSince >= preset, clock - OnSince, OnSince)

\* Mutant: the delay is counted from every call without IN.
FallsAgain == clock
\* TOF: the clock at the falling edge.
OffSince == IF Falls THEN clock ELSE mark

TOF ==
    \/ input /\ Becomes(TRUE, 0, None)
    \/ ~input /\ OffSince # None
       /\ Becomes(clock - OffSince < preset, clock - OffSince, OffSince)
    \/ ~input /\ OffSince = None /\ Off

\* Mutants: an edge during the pulse starts it anew; IN, not its edge, starts it.
Retriggers     == IF Rises THEN clock ELSE mark
LevelTriggered == IF input /\ mark = None THEN clock ELSE mark
\* TP: the clock at the rising edge that found no pulse running.
PulseSince == IF Rises /\ mark = None THEN clock ELSE mark

\* The call that finds the pulse over ends it; an edge in that very call is
\* seen (`was') and starts nothing.
TP ==
    \/ /\ PulseSince # None /\ clock - PulseSince < preset
       /\ Becomes(TRUE, clock - PulseSince, PulseSince)
    \/ (PulseSince # None => clock - PulseSince >= preset) /\ Off

\* Mutant: time passes for ET whatever IN.
CountsAlways == IF mark # None THEN ET + (clock - mark) ELSE ET
\* TONR: ET with the time since the call before, if IN is TRUE now.
Accumulated == IF input /\ mark # None THEN ET + (clock - mark) ELSE ET

\* TONR: Q stays once it is on.
Latched == Q \/ Accumulated >= preset

TONR ==
    \/ reset /\ Becomes(FALSE, 0, clock)
    \/ ~reset /\ Becomes(Latched, Accumulated, clock)

R_TRIG == Becomes(Rises, ET, mark)
F_TRIG == Becomes(Falls, ET, mark)

-----------------------------------------------------------------------------
New == Q = FALSE /\ ET = 0 /\ mark = None /\ was = FALSE

Init ==
    /\ block \in Blocks /\ clock = 0
    /\ input = FALSE /\ preset \in Presets /\ reset = FALSE
    /\ New /\ calls = <<>> /\ onTime = 0

SetInput  == input' = ~input /\ UNCHANGED <<preset, reset>>
SetPreset == preset' \in Presets \ {preset} /\ UNCHANGED <<input, reset>>
SetReset  == block = "TONR" /\ reset' = ~reset /\ UNCHANGED <<input, preset>>

\* FBTestHarness.set_inputs
SetInputs ==
    /\ SetInput \/ SetPreset \/ SetReset
    /\ UNCHANGED <<block, clock, timer, calls, onTime>>

\* advance_time of the harness, execute_cycle of the runtime.
Advance == \E d \in Advances :
    /\ clock + d <= MaxTime
    /\ clock' = clock + d
    /\ onTime' = IF block = "TONR" /\ input THEN onTime + d ELSE onTime
    /\ UNCHANGED <<block, inputs, timer, calls>>

\* One execution of the block.
Execute ==
    /\ Len(calls) < MaxCalls
    /\ \/ block = "TON"    /\ TON
       \/ block = "TOF"    /\ TOF
       \/ block = "TP"     /\ TP
       \/ block = "TONR"   /\ TONR
       \/ block = "R_TRIG" /\ R_TRIG
       \/ block = "F_TRIG" /\ F_TRIG
    /\ was' = input
    /\ calls' = Append(calls, [at |-> clock, in |-> input, pt |-> preset,
                               q |-> Q'])
    /\ onTime' = IF block = "TONR" /\ reset THEN 0 ELSE onTime
    /\ UNCHANGED <<block, clock, inputs>>

\* FBTestHarness.reset: a new instance, the clock back at zero.
Reset ==
    /\ calls # <<>>
    /\ clock' = 0 /\ Q' = FALSE /\ ET' = 0 /\ mark' = None /\ was' = FALSE
    /\ input' = FALSE /\ reset' = FALSE /\ UNCHANGED <<block, preset>>
    /\ calls' = <<>> /\ onTime' = 0

Next == SetInputs \/ Advance \/ Execute \/ Reset

Spec == Init /\ [][Next]_vars

-----------------------------------------------------------------------------
Call == [at : Nat, in : BOOLEAN, pt : Presets, q : BOOLEAN]

\* Times are never negative, and the memory of a block is a moment of the past.
TypeOK ==
    /\ block \in Blocks /\ clock \in 0 .. MaxTime
    /\ input \in BOOLEAN /\ preset \in Presets /\ reset \in BOOLEAN
    /\ Q \in BOOLEAN /\ ET \in Nat /\ was \in BOOLEAN
    /\ mark \in {None} \cup 0 .. clock
    /\ calls \in Seq(Call) /\ Len(calls) <= MaxCalls /\ onTime \in Nat

Count == Len(calls)
Last  == calls[Count]

\* Call i began a stretch of calls with IN = b that lasts until now.
Since(i, b) ==
    /\ \A j \in i .. Count : calls[j].in = b
    /\ i > 1 => calls[i - 1].in # b

\* TON: Q says exactly that IN was TRUE in every call of the last PT, and ET
\* for how long, whatever happened before and however far apart the calls.
OnDelayIsExact ==
    block = "TON" /\ calls # <<>> =>
        /\ ~Last.in => ~Q /\ ET = 0
        /\ \A i \in 1 .. Count : Since(i, TRUE) =>
             /\ ET = Last.at - calls[i].at
             /\ Q = (Last.at - calls[i].at >= Last.pt)

\* TOF: Q says exactly that IN is TRUE or fell less than PT ago; a block whose
\* IN was never TRUE stays off.
OffDelayIsExact ==
    block = "TOF" /\ calls # <<>> =>
        /\ Last.in => Q /\ ET = 0
        /\ \A i \in 1 .. Count : Since(i, FALSE) =>
             Q = (i > 1 /\ Last.at - calls[i].at < Last.pt)

\* TP: Q has been on since a call with a rising edge, the call before was off,
\* and less than PT has passed, whatever IN did meanwhile.
PulseStart(i) == /\ \A j \in i .. Count : calls[j].q
                 /\ i > 1 => ~calls[i - 1].q
PulseIsBounded ==
    block = "TP" =>
        \A i \in 1 .. Count : PulseStart(i) =>
            /\ calls[i].in /\ (i > 1 => ~calls[i - 1].in)
            /\ ET = Last.at - calls[i].at /\ ET < Last.pt

\* TP: a pulse is never cut short, and only an edge starts one.
PulseRunsOut ==
    [][block = "TP" /\ Count' = Count + 1 =>
         /\ Q /\ ~Q' => clock - mark >= preset
         /\ ~Q /\ Q' => Rises]_vars

\* TONR: without R nothing of the accumulated time is lost, Q is never taken
\* back, and no time is counted in a call without IN.
RetentiveHolds ==
    [][block = "TONR" /\ Count' = Count + 1 =>
         \/ reset
         \/ ET' >= ET /\ (Q => Q') /\ (~input => ET' = ET)]_vars

\* The edge blocks answer every edge between two calls once.
EdgesAreExact ==
    calls # <<>> =>
        LET before == Count > 1 /\ calls[Count - 1].in IN
        /\ block = "R_TRIG" => Q = (Last.in /\ ~before)
        /\ block = "F_TRIG" => Q = (~Last.in /\ before)

\* What the docstring of TONR_TIME says: ET accumulates the time IN has been
\* TRUE.
RetentiveCountsOnTime == block = "TONR" => ET <= onTime
=============================================================================
