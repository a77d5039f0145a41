----------------------------- MODULE TraceWindow -----------------------------
(***************************************************************************)
(* What the trace recorder of plc-trace promises, with no ring in sight: a *)
(* run that starts afresh, and a window that holds the newest Depth        *)
(* samples of that run, oldest first.                                      *)
(* TraceRecorder implements it: its ring, read in the order that           *)
(* TraceClient.fetch() uses, is `window'.                                  *)
(***************************************************************************)
EXTENDS Naturals, Sequences

CONSTANT Depth              \* samples the buffer holds per field

VARIABLES running,          \* the recorder is taking samples
          window            \* the samples a reader gets, oldest first

wvars == <<running, window>>

\* The window after sample s: the oldest sample makes room for it.
Slide(w, s) == IF Len(w) < Depth THEN Append(w, s) ELSE Append(Tail(w), s)

\* The newest sample of a window that is not empty.
Newest(w) == w[Len(w)]

Init == running = FALSE /\ window = <<>>

\* A start edge drops the previous run; cycle 1 of the new one is sampled at
\* once, which fills a buffer of depth 1.
Arm == /\ window' # <<>>
       /\ window' = <<Newest(window')>>
       /\ Newest(window').cycle = 1
       /\ running' \/ Len(window') = Depth

\* The next sample is of the same run and of a later cycle.  A run ends by
\* itself only with a full buffer.
Take == /\ running /\ window # <<>> /\ window' # <<>>
        /\ window' = Slide(window, Newest(window'))
        /\ Newest(window').run = Newest(window).run
        /\ Newest(window').cycle > Newest(window).cycle
        /\ running' \/ Len(window') = Depth

\* Stopping keeps what was recorded.
Halt == running' = FALSE /\ UNCHANGED window

\* The data block is not retentive: a PLC restart empties it.
Reset == running' = FALSE /\ window' = <<>>

Next == Arm \/ Take \/ Halt \/ Reset

Spec == Init /\ [][Next]_wvars
=============================================================================
