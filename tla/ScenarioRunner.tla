--------------------------- MODULE ScenarioRunner ---------------------------
(***************************************************************************)
(* plc_core.testing.ScenarioRunner: run_suite() applies the setup before    *)
(* every scenario, run_scenario() checks the preconditions, executes the    *)
(* steps up to the first that fails, and cleans up in a finally clause.     *)
(*                                                                         *)
(* The PLC answers what it likes: a step passes, fails its comparison or    *)
(* raises.  Steps that compare nothing (write, wait, read, capture) are     *)
(* "write"; those that compare (assert, wait_until) are "assert".  A value  *)
(* in the snapshot store is represented by who read it: a scenario, or the  *)
(* setup that is applied before each.                                      *)
(* Ctrl-C cancels the task at an await: CancelledError passes the `except   *)
(* Exception' of the runner, but not its finally clause.                    *)
(***************************************************************************)
EXTENDS Naturals, Sequences

CONSTANTS Scenarios,    \* names of the scenarios
          Ids,          \* snapshot ids
          Position,     \* of each scenario in the list that run_suite() gets
          Script,       \* what the YAML file of each scenario says
          Setup         \* what setup.yaml says

StepTypes == {"write", "assert", "snapshot", "restore", "unregistered"}
Steps     == [type : StepTypes, id : Ids]

None    == "none"
BySetup == "setup"      \* who reads a value in a step of setup.yaml
Readers == Scenarios \cup {BySetup}

ASSUME ScriptAssumption ==
    /\ {None, BySetup} \cap Scenarios = {}
    /\ Position \in [Scenarios -> Nat]
    /\ Script \in [Scenarios -> [skip : BOOLEAN, preconditions : Nat,
                                 steps : Seq(Steps), cleanup : Seq(Steps)]]
    /\ Setup \in [values : Seq(Steps), post_values : Seq(Steps), steps : Seq(Steps)]

VARIABLES
    phase,          \* where the runner is
    at,             \* the precondition or step it comes to next
    current,        \* the scenario the runner is at
    todo,           \* those after it
    results,        \* outcomes of the steps (step_results)
    cleaned,        \* outcomes of the cleanup steps (cleanup_results)
    error,          \* error_message: "none", "text", or "textless" for an empty one
    pending,        \* the exception that waits for the finally clause to end
    snapshots,      \* _snapshots: who read the values under each id
    suite           \* results so far: a sequence of [name, outcome]

scenario == <<results, cleaned, error, pending>>
place    == <<phase, at>>
runner   == <<place, current, todo, scenario, snapshots, suite>>

Outcomes == {"passed", "failed", "error", "skipped"}
Failed(o) == o \in {"failed", "error"}

Current == Script[current]

\* apply_setup() returns early when there are neither values nor steps.
SetupItems ==
    IF Setup.values = <<>> /\ Setup.steps = <<>>
    THEN <<>>
    ELSE Setup.values \o Setup.post_values \o Setup.steps

FreshResult ==
    results' = <<>> /\ cleaned' = <<>> /\ error' = None /\ pending' = None

Goto(label) == phase' = label /\ at' = 1

RunnerInit ==
    /\ phase = "off" /\ at = 1 /\ current = None /\ todo = {} /\ suite = <<>>
    /\ results = <<>> /\ cleaned = <<>> /\ error = None /\ pending = None
    /\ snapshots = [i \in Ids |-> None]

\* The loop of run_suite(), with `rest' of the scenarios left.
NextScenario(rest) ==
    \/ /\ rest = {}
       /\ Goto("returned") /\ current' = None /\ todo' = {}
    \/ \E s \in rest :
          /\ \A other \in rest : Position[s] <= Position[other]
          /\ Goto("setup") /\ current' = s /\ todo' = rest \ {s}

\* run_suite() begins: of the scenarios given, those that match filter_pattern.
RunSuite ==
    /\ phase = "off"
    /\ \E matching \in SUBSET Scenarios : NextScenario(todo \cap matching)
    /\ UNCHANGED <<scenario, snapshots, suite>>

\* The runner object is gone.
Discard ==
    /\ Goto("off") /\ current' = None /\ todo' = {} /\ suite' = <<>> /\ FreshResult
    /\ snapshots' = [i \in Ids |-> None]

-----------------------------------------------------------------------------
(* _execute_step() *)

\* What a step can come to; every executor may raise.
MayEnd(step, o) ==
    /\ o \in {"passed", "failed", "error"}
    /\ o = "failed" => step.type = "assert"
    /\ o = "passed" => /\ step.type # "unregistered"
                       /\ step.type = "restore" => snapshots[step.id] # None

Store(step, o, reader) ==
    snapshots' = IF step.type = "snapshot" /\ o = "passed"
                 THEN [snapshots EXCEPT ![step.id] = reader]
                 ELSE snapshots

-----------------------------------------------------------------------------
(* run_suite() and apply_setup() *)

\* A setup value that cannot be written, or a setup step that fails, raises out
\* of run_suite(): its results are lost.
SetupItem ==
    /\ phase = "setup" /\ at <= Len(SetupItems)
    /\ \E o \in Outcomes :
          /\ MayEnd(SetupItems[at], o)
          /\ Store(SetupItems[at], o, BySetup)
          /\ IF Failed(o) THEN Goto("raised") ELSE at' = at + 1 /\ UNCHANGED phase
    /\ UNCHANGED <<current, todo, scenario, suite>>

Record(outcome) ==
    suite' = Append(suite, [name |-> current, outcome |-> outcome])

\* Mutant: the store outlives the scenario.
KeepSnapshots == UNCHANGED snapshots

ClearSnapshots == snapshots' = [i \in Ids |-> None]

\* run_scenario() begins; a scenario marked skip ends there.
BeginScenario ==
    /\ phase = "setup" /\ at > Len(SetupItems)
    /\ ClearSnapshots
    /\ FreshResult
    /\ IF Current.skip
       THEN Record("skipped") /\ NextScenario(todo)
       ELSE Goto("preconditions") /\ UNCHANGED <<current, todo, suite>>

-----------------------------------------------------------------------------
(* run_scenario() *)

\* A precondition is read and, when it differs, written.
Precondition ==
    /\ phase = "preconditions" /\ at <= Current.preconditions
    /\ at' = at + 1
    /\ UNCHANGED <<phase, current, todo, scenario, snapshots, suite>>

\* An exception: error_message is its text, the steps are not executed.
PreconditionRaises ==
    /\ phase = "preconditions" /\ at <= Current.preconditions
    /\ error' \in {"text", "textless"}
    /\ Goto("cleanup")
    /\ UNCHANGED <<current, todo, results, cleaned, pending, snapshots, suite>>

PreconditionsDone ==
    /\ phase = "preconditions" /\ at > Current.preconditions
    /\ Goto("steps")
    /\ UNCHANGED <<current, todo, scenario, snapshots, suite>>

\* Mutant: only a failed comparison stops the scenario, not an error.
StopsOnFailure == \E k \in 1 .. Len(results) : results[k] = "failed"

StopOnFail == \E k \in 1 .. Len(results) : Failed(results[k])

ExecuteStep ==
    /\ phase = "steps" /\ at <= Len(Current.steps)
    /\ at' = at + 1
    /\ \E o \in Outcomes :
          /\ IF StopOnFail THEN o = "skipped" ELSE MayEnd(Current.steps[at], o)
          /\ Store(Current.steps[at], o, current)
          /\ results' = Append(results, o)
    /\ UNCHANGED <<phase, current, todo, cleaned, error, pending, suite>>

StepsDone ==
    /\ phase = "steps" /\ at > Len(Current.steps)
    /\ Goto("cleanup")
    /\ UNCHANGED <<current, todo, scenario, snapshots, suite>>

\* Mutant: the cleanup stops where the steps would.
CleanupGivesUp ==
    /\ phase = "cleanup" /\ at <= Len(Current.cleanup)
    /\ \E o \in Outcomes :
          /\ MayEnd(Current.cleanup[at], o)
          /\ Store(Current.cleanup[at], o, current)
          /\ cleaned' = Append(cleaned, o)
          /\ at' = IF Failed(o) THEN Len(Current.cleanup) + 1 ELSE at + 1
    /\ UNCHANGED <<phase, current, todo, results, error, pending, suite>>

\* Every cleanup step is executed, whatever the one before it came to.
CleanupStep ==
    /\ phase = "cleanup" /\ at <= Len(Current.cleanup)
    /\ at' = at + 1
    /\ \E o \in Outcomes :
          /\ MayEnd(Current.cleanup[at], o)
          /\ Store(Current.cleanup[at], o, current)
          /\ cleaned' = Append(cleaned, o)
    /\ UNCHANGED <<phase, current, todo, results, error, pending, suite>>

\* Mutant: a result with an error and no failed step counts as passed.
StepsVerdict == IF StopOnFail THEN "failed" ELSE "passed"

\* An exception without text is no error here.
Verdict == IF error = "text" THEN "error" ELSE IF StopOnFail THEN "failed" ELSE "passed"

Conclude ==
    /\ phase = "cleanup" /\ at > Len(Current.cleanup)
    /\ IF pending # None
       THEN Goto("raised") /\ UNCHANGED <<current, todo, suite>>
       ELSE Record(Verdict) /\ NextScenario(todo)
    /\ UNCHANGED <<scenario, snapshots>>

-----------------------------------------------------------------------------
\* CancelledError at an await.
Interrupt ==
    /\ \/ phase = "setup" /\ at <= Len(SetupItems)
       \/ phase = "preconditions" /\ at <= Current.preconditions
       \/ phase = "steps" /\ at <= Len(Current.steps) /\ ~StopOnFail
       \/ phase = "cleanup" /\ at <= Len(Current.cleanup)
    /\ IF phase \in {"preconditions", "steps"}
       THEN Goto("cleanup") /\ pending' = "CancelledError"
       ELSE Goto("raised") /\ UNCHANGED pending
    /\ UNCHANGED <<current, todo, results, cleaned, error, snapshots, suite>>

RunnerStep ==
    \/ SetupItem \/ BeginScenario
    \/ Precondition \/ PreconditionRaises \/ PreconditionsDone
    \/ ExecuteStep \/ StepsDone \/ CleanupStep \/ Conclude
    \/ Interrupt

-----------------------------------------------------------------------------
InScenario == phase \in {"preconditions", "steps", "cleanup"}

\* runner.py:276, "with cleanup guarantee": once a scenario has touched the PLC
\* every one of its cleanup steps has been executed when the runner leaves it,
\* after a failed step, an exception or Ctrl-C, and when cleanup steps fail
\* themselves; only another Ctrl-C, during the cleanup, or the end of the process
\* (phase "off") can cut it short.
CleanupGuarantee ==
    [][ (InScenario /\ ~InScenario' /\ phase' # "off")
            => Len(cleaned) = Len(Current.cleanup) \/ Interrupt ]_runner

\* Nothing is executed on a machine whose state a failed step has left unknown:
\* what follows the first failure is skipped, and nothing is skipped before it.
NothingAfterAFailure ==
    InScenario => \A k \in 1 .. Len(results) :
        results[k] = "skipped" <=> \E j \in 1 .. k - 1 : Failed(results[j])

\* A scenario can only restore what it read itself: values that an earlier
\* scenario read, or a snapshot step of the setup, never come back in its steps
\* or its cleanup.  The store is emptied after the setup (runner.py:284), so
\* nothing is said of a restore in the setup itself: it may write back what the
\* scenario before it has read.
SnapshotsAreOwn ==
    InScenario => \A i \in Ids : snapshots[i] \in {None, current}

\* A verdict tells how the scenario went: "failed" and "error" name what
\* happened, and "passed" means that every step was executed and passed -
\* unless a precondition raised an exception without text.
NewVerdict(o) == suite' # suite /\ suite' # <<>> /\ suite'[Len(suite')].outcome = o
AllPassed == /\ Len(results) = Len(Current.steps)
             /\ \A k \in 1 .. Len(results) : results[k] = "passed"

VerdictsAreTrue ==
    [][ /\ NewVerdict("passed") => error = "textless" \/ AllPassed
        /\ NewVerdict("failed") => \E k \in 1 .. Len(results) : Failed(results[k])
        /\ NewVerdict("error") => results = <<>> ]_runner

\* results_cache.py:33: PASSED means that the test functionally passed.
PassedMeansExecuted == [][ NewVerdict("passed") => AllPassed ]_runner
=============================================================================
