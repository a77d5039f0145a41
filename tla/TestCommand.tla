----------------------------- MODULE TestCommand -----------------------------
(***************************************************************************)
(* The command `plc sim test' and its results cache                         *)
(* (plc_sim/testing/results_cache.py, plc_sim/cli.py), one command after    *)
(* the other.  A command fingerprints the PLC sources and loads the cache,  *)
(* picks the scenarios, connects, runs the suite, merges the results into   *)
(* the cache it loaded and writes the file.  Between any two steps the      *)
(* sources may be edited or the process killed.                             *)
(***************************************************************************)
EXTENDS ScenarioRunner

CONSTANTS Sources,      \* contents the PLC sources may have (their fingerprints)
          MaxCommands   \* bound on the commands run

ASSUME CommandAssumption ==
    /\ Sources # {} /\ MaxCommands \in Nat

VARIABLES
    stage,          \* where the command is
    sources,        \* the PLC sources of now
    file,           \* test_results.json
    cache,          \* results_cache: what the command loaded
    baseline,       \* the fingerprint the command computed
    commands,       \* commands run so far
    reported        \* history: the verdict each scenario had in the last command
                    \* that ran it and completed, and on which sources

command == <<stage, cache, baseline, commands>>
vars    == <<runner, command, sources, file, reported>>

Absent  == [is |-> "absent"]
Corrupt == [is |-> "corrupt"]
Cache(b, r) == [is |-> "cache", baseline |-> b, results |-> r]

Caches == [is : {"cache"}, baseline : Sources,
           results : [Scenarios -> Outcomes \cup {None}]]

NoResults == [s \in Scenarios |-> None]

\* Mutant: a file that is not readable is handed on.
LoadAsIs(f) == f

\* load_results_cache(): a file that is not readable is no cache.
Load(f) == IF f = Corrupt THEN Absent ELSE f

Ran(s)       == \E k \in 1 .. Len(suite) : suite[k].name = s
OutcomeOf(s) == suite[CHOOSE k \in 1 .. Len(suite) : suite[k].name = s].outcome

\* Mutant: results of other sources are kept.
MergeAll(c, b) ==
    LET old == IF c.is = "cache" THEN c.results ELSE NoResults
    IN  Cache(b, [s \in Scenarios |-> IF Ran(s) THEN OutcomeOf(s) ELSE old[s]])

\* merge_results()
Merge(c, b) ==
    LET old == IF c.is = "cache" /\ c.baseline = b THEN c.results ELSE NoResults
    IN  Cache(b, [s \in Scenarios |-> IF Ran(s) THEN OutcomeOf(s) ELSE old[s]])

\* Mutant: scenarios that were never run are left out.
FailedOnly(s) == cache'.results[s] \in {"failed", "error", "skipped"}

\* select_scenarios_to_rerun()
ToRerun(s) == cache'.results[s] \in {None, "failed", "error", "skipped"}

Init ==
    /\ RunnerInit
    /\ stage = "idle" /\ sources \in Sources
    /\ file = Absent /\ cache = Absent /\ baseline = sources
    /\ commands = 0
    /\ reported = [s \in Scenarios |-> [outcome |-> None, sources |-> sources]]

-----------------------------------------------------------------------------
Idle == stage = "idle" /\ commands < MaxCommands


\* The command computes the fingerprint, loads the cache `of' the file and
\* takes the scenarios of `candidates'.
Prepare(of, candidates) ==
    /\ commands' = commands + 1
    /\ baseline' = sources /\ cache' = Load(of)
    /\ todo' = candidates
    /\ UNCHANGED <<place, current, scenario, snapshots, suite, sources, reported>>

\* plc sim test [--reset-baseline]
TestAll ==
    /\ Idle
    /\ file' \in {file, Absent}
    /\ Prepare(file', Scenarios)
    /\ stage' = "connect"

\* plc sim test --last-failed.  Without a cache, or with one of other sources,
\* the command is refused and nothing changes.
LastFailed ==
    /\ Idle
    /\ Load(file).is = "cache" /\ Load(file).baseline = sources
    /\ Prepare(file, {s \in Scenarios : ToRerun(s)})
    /\ stage' = IF todo' = {} THEN "idle" ELSE "connect"
    /\ UNCHANGED file

Connected ==
    /\ stage = "connect"
    /\ RunSuite
    /\ stage' = "suite"
    /\ UNCHANGED <<cache, baseline, commands, sources, file, reported>>

Run ==
    /\ stage = "suite"
    /\ RunnerStep
    /\ UNCHANGED <<command, sources, file, reported>>

\* write_text() truncates the file before it writes.
SaveBegins ==
    /\ stage = "suite" /\ phase = "returned"
    /\ file' = Corrupt /\ stage' = "writing"
    /\ UNCHANGED <<runner, cache, baseline, commands, sources, reported>>

Exit == stage' = "idle" /\ Discard /\ UNCHANGED <<cache, baseline, commands>>

SaveEnds ==
    /\ stage = "writing"
    /\ file' = Merge(cache, baseline)
    /\ reported' = [s \in Scenarios |->
          IF Ran(s) THEN [outcome |-> file'.results[s], sources |-> baseline]
                    ELSE reported[s]]
    /\ Exit
    /\ UNCHANGED sources

\* No connection, an exception out of run_suite(), or the process is killed:
\* nothing is saved, and a file that was being written stays cut off.
CommandFails ==
    /\ stage # "idle"
    /\ Exit
    /\ UNCHANGED <<sources, file, reported>>

EditSources ==
    /\ sources' \in Sources
    /\ UNCHANGED <<runner, command, file, reported>>

Next ==
    \/ TestAll \/ LastFailed \/ Connected \/ Run
    \/ SaveBegins \/ SaveEnds \/ CommandFails
    \/ EditSources

Spec == Init /\ [][Next]_vars

-----------------------------------------------------------------------------
\* Every variable has its type.
TypeOK ==
    /\ phase \in {"off", "setup", "preconditions", "steps", "cleanup", "returned", "raised"}
    /\ at \in Nat /\ current \in Scenarios \cup {None} /\ todo \subseteq Scenarios
    /\ results \in Seq(Outcomes) /\ cleaned \in Seq(Outcomes)
    /\ error \in {None, "text", "textless"} /\ pending \in {None, "CancelledError"}
    /\ snapshots \in [Ids -> Readers \cup {None}]
    /\ suite \in Seq([name : Scenarios, outcome : Outcomes])
    /\ stage \in {"idle", "connect", "suite", "writing"}
    /\ sources \in Sources /\ baseline \in Sources /\ commands \in Nat
    /\ cache \in Caches \cup {Absent} /\ file \in Caches \cup {Absent, Corrupt}
    /\ reported \in [Scenarios -> [outcome : Outcomes \cup {None}, sources : Sources]]

\* What the file says is what happened: each of its verdicts is the one the
\* scenario had in the last command that ran it and completed, and that command
\* ran on the sources of the cache - through kills at any point, files cut off,
\* resets, edits and runs of a part of the suite.
CacheIsHistory ==
    file.is = "cache" =>
        \A s \in Scenarios : file.results[s] # None =>
            reported[s] = [outcome |-> file.results[s], sources |-> file.baseline]

\* results_cache.py:4: --last-failed leaves a scenario out only if it passed when
\* it was last run to completion, on the very sources of now.
LeftOutPassed ==
    [][ LastFailed => \A s \in Scenarios \ todo' :
            reported[s] = [outcome |-> "passed", sources |-> sources] ]_vars
=============================================================================
