-------------------------- MODULE TestCommandProofs --------------------------
(***************************************************************************)
(* What the scenario runner and the results cache guarantee, for every set  *)
(* of scenarios and whatever their scripts say.                             *)
(*                                                                         *)
(* The runner's bookkeeping is proved first (InScript ties the position in  *)
(* the script to the results kept so far), then the truth of its verdicts   *)
(* and of the file.                                                         *)
(***************************************************************************)
EXTENDS TestCommand, SequenceTheorems, TLAPS

\* Where the runner is in the script of the current scenario, and what it has
\* kept of it.
InScript ==
    /\ phase \in {"setup", "preconditions", "steps", "cleanup"} => current \in Scenarios
    /\ phase = "preconditions" => results = <<>> /\ cleaned = <<>> /\ error = None
    /\ phase = "steps" =>
          /\ at = Len(results) + 1 /\ at <= Len(Current.steps) + 1
          /\ cleaned = <<>> /\ error = None
    /\ phase = "cleanup" =>
          /\ at = Len(cleaned) + 1 /\ at <= Len(Current.cleanup) + 1
          /\ error # None => results = <<>>
          /\ error = None /\ pending = None => Len(results) = Len(Current.steps)

\* What the command has loaded still agrees with the history: nobody else
\* completes a command meanwhile.
LoadedIsHistory ==
    (stage # "idle" /\ cache.is = "cache") =>
        \A s \in Scenarios : cache.results[s] # None =>
            reported[s] = [outcome |-> cache.results[s], sources |-> cache.baseline]


-----------------------------------------------------------------------------
(* Types *)

LEMMA SetupTypes == SetupItems \in Seq(Steps)
  BY ScriptAssumption DEF SetupItems

\* Whatever runs next, the places of the runner keep their types.
LEMMA NextScenarioTypes ==
    ASSUME NEW rest \in SUBSET Scenarios, NextScenario(rest)
    PROVE  /\ phase' \in {"returned", "setup"} /\ at' = 1
           /\ current' \in Scenarios \cup {None} /\ todo' \subseteq Scenarios
           /\ phase' = "setup" => current' \in Scenarios
  BY DEF NextScenario, Goto

\* The types of the runner's variables, and its invariants.
RunnerType ==
    /\ phase \in {"off", "setup", "preconditions", "steps", "cleanup", "returned", "raised"}
    /\ at \in Nat \ {0} /\ current \in Scenarios \cup {None} /\ todo \subseteq Scenarios
    /\ results \in Seq(Outcomes) /\ cleaned \in Seq(Outcomes)
    /\ error \in {None, "text", "textless"} /\ pending \in {None, "CancelledError"}
    /\ snapshots \in [Ids -> Readers \cup {None}]
    /\ suite \in Seq([name : Scenarios, outcome : Outcomes])

RunnerInv == RunnerType /\ InScript /\ NothingAfterAFailure /\ SnapshotsAreOwn

LEMMA StoreTypes ==
    ASSUME RunnerType, NEW step \in Steps, NEW o, NEW reader \in Readers,
           Store(step, o, reader)
    PROVE  /\ snapshots' \in [Ids -> Readers \cup {None}]
           /\ SnapshotsAreOwn /\ InScenario /\ reader = current =>
                \A i \in Ids : snapshots'[i] \in {None, current}
  BY DEF RunnerType, Store, SnapshotsAreOwn, Steps

LEMMA RunnerInitTypes ==
    ASSUME Discard
    PROVE  /\ phase' = "off" /\ at' = 1 /\ current' = None /\ todo' = {}
           /\ results' = <<>> /\ cleaned' = <<>> /\ error' = None /\ pending' = None
           /\ suite' = <<>> /\ snapshots' = [i \in Ids |-> None]
  BY DEF Discard, Goto, FreshResult

LEMMA RecordTypes ==
    ASSUME RunnerType, current \in Scenarios, NEW o \in Outcomes, Record(o)
    PROVE  suite' \in Seq([name : Scenarios, outcome : Outcomes])
  <1>1. [name |-> current, outcome |-> o] \in [name : Scenarios, outcome : Outcomes]
    OBVIOUS
  <1>2. suite \in Seq([name : Scenarios, outcome : Outcomes])
    BY DEF RunnerType
  <1> HIDE DEF Outcomes
  <1> QED BY <1>1, <1>2 DEF Record

LEMMA SetupItemKeeps ==
    ASSUME RunnerInv, SetupItem
    PROVE  RunnerInv'
  <1>0. phase = "setup" /\ at <= Len(SetupItems)
    BY DEF SetupItem
  <1>1. phase = "setup" /\ current \in Scenarios /\ at \in 1 .. Len(SetupItems)
    <2>1. current \in Scenarios /\ at \in Nat \ {0}
      BY <1>0 DEF RunnerInv, RunnerType, InScript
    <2>2. Len(SetupItems) \in Nat
      BY SetupTypes
    <2> QED BY <1>0, <2>1, <2>2
  <1>2. SetupItems[at] \in Steps
    BY <1>1, SetupTypes
  <1>3. PICK o \in Outcomes :
          /\ Store(SetupItems[at], o, BySetup)
          /\ IF Failed(o) THEN Goto("raised") ELSE at' = at + 1 /\ UNCHANGED phase
    BY DEF SetupItem
  <1>4. snapshots' \in [Ids -> Readers \cup {None}]
    BY <1>2, <1>3, StoreTypes DEF RunnerInv, Readers
  <1>5. phase' \in {"setup", "raised"} /\ at' \in Nat \ {0}
    BY <1>1, <1>3 DEF Goto
  <1>6. UNCHANGED <<current, todo, scenario, suite>>
    BY DEF SetupItem
  <1>7. RunnerType'
    BY <1>4, <1>5, <1>6 DEF RunnerInv, RunnerType, scenario
  <1>8. InScript'
    BY <1>1, <1>5, <1>6 DEF InScript
  <1> QED BY <1>5, <1>7, <1>8 DEF RunnerInv, NothingAfterAFailure, SnapshotsAreOwn, InScenario

LEMMA BeginScenarioKeeps ==
    ASSUME RunnerInv, BeginScenario
    PROVE  RunnerInv'
  <1>1. phase = "setup" /\ current \in Scenarios
    BY DEF BeginScenario, RunnerInv, InScript
  <1>2. /\ snapshots' = [i \in Ids |-> None]
        /\ results' = <<>> /\ cleaned' = <<>> /\ error' = None /\ pending' = None
    BY DEF BeginScenario, ClearSnapshots, FreshResult
  <1>3. CASE Current.skip
    <2>1. Record("skipped") /\ NextScenario(todo)
      BY <1>3 DEF BeginScenario
    <2>2. suite' \in Seq([name : Scenarios, outcome : Outcomes])
      BY <1>1, <2>1, RecordTypes DEF RunnerInv, Outcomes
    <2>3. RunnerType'
      BY <1>2, <2>1, <2>2, NextScenarioTypes DEF RunnerInv, RunnerType
    <2>4. InScript'
      BY <2>1, NextScenarioTypes DEF InScript, RunnerInv, RunnerType
    <2> QED BY <2>1, <2>3, <2>4, NextScenarioTypes
            DEF RunnerInv, RunnerType, NothingAfterAFailure, SnapshotsAreOwn, InScenario
  <1>4. CASE ~Current.skip
    <2>1. Goto("preconditions") /\ UNCHANGED <<current, todo, suite>>
      BY <1>4 DEF BeginScenario
    <2>2. RunnerType'
      BY <1>2, <2>1 DEF RunnerInv, RunnerType, Goto
    <2>3. InScript'
      BY <1>1, <1>2, <2>1 DEF InScript, Goto
    <2> QED BY <1>2, <2>1, <2>2, <2>3 DEF RunnerInv, NothingAfterAFailure, SnapshotsAreOwn, InScenario
  <1> QED BY <1>3, <1>4

LEMMA PreconditionsKeep ==
    ASSUME RunnerInv, Precondition \/ PreconditionRaises \/ PreconditionsDone
    PROVE  RunnerInv'
  <1>1. /\ phase = "preconditions" /\ current \in Scenarios /\ at \in Nat \ {0}
        /\ results = <<>> /\ cleaned = <<>> /\ error = None
    BY DEF Precondition, PreconditionRaises, PreconditionsDone, RunnerInv, RunnerType, InScript
  <1>2. Current.preconditions \in Nat /\ Len(Current.steps) \in Nat /\ Len(Current.cleanup) \in Nat
    BY <1>1, ScriptAssumption DEF Current
  <1>3. CASE Precondition
    <2>1. UNCHANGED <<phase, current, todo, scenario, snapshots, suite>> /\ at' \in Nat \ {0}
      BY <1>1, <1>3 DEF Precondition
    <2> QED BY <1>1, <2>1 DEF RunnerInv, RunnerType, InScript, NothingAfterAFailure,
                              SnapshotsAreOwn, InScenario, scenario, Failed
  <1>4. CASE PreconditionRaises
    <2>1. /\ UNCHANGED <<current, todo, results, cleaned, pending, snapshots, suite>>
          /\ phase' = "cleanup" /\ at' = 1 /\ error' \in {"text", "textless"}
      BY <1>4 DEF PreconditionRaises, Goto
    <2>2. InScript'
      BY <1>1, <1>2, <2>1 DEF InScript, Current, None
    <2> QED BY <1>1, <2>1, <2>2 DEF RunnerInv, RunnerType, NothingAfterAFailure,
                              SnapshotsAreOwn, InScenario, Failed
  <1>5. CASE PreconditionsDone
    <2>1. /\ UNCHANGED <<current, todo, scenario, snapshots, suite>>
          /\ phase' = "steps" /\ at' = 1
      BY <1>5 DEF PreconditionsDone, Goto
    <2>2. InScript'
      BY <1>1, <1>2, <2>1 DEF InScript, Current, scenario
    <2> QED BY <1>1, <2>1, <2>2 DEF RunnerInv, RunnerType, NothingAfterAFailure,
                              SnapshotsAreOwn, InScenario, Failed, scenario
  <1> QED BY <1>3, <1>4, <1>5

LEMMA ExecuteStepKeeps ==
    ASSUME RunnerInv, ExecuteStep
    PROVE  RunnerInv'
  <1>1. /\ phase = "steps" /\ current \in Scenarios
        /\ at = Len(results) + 1 /\ at <= Len(Current.steps)
        /\ results \in Seq(Outcomes) /\ cleaned = <<>> /\ error = None
    BY DEF ExecuteStep, RunnerInv, RunnerType, InScript
  <1>2. Current.steps \in Seq(Steps)
    BY <1>1, ScriptAssumption DEF Current
  <1>3. PICK o \in Outcomes :
          /\ IF StopOnFail THEN o = "skipped" ELSE MayEnd(Current.steps[at], o)
          /\ Store(Current.steps[at], o, current)
          /\ results' = Append(results, o)
    BY DEF ExecuteStep
  <1>4. UNCHANGED <<phase, current, todo, cleaned, error, pending, suite>> /\ at' = at + 1
    BY DEF ExecuteStep
  <1>5. Current.steps[at] \in Steps
    BY <1>1, <1>2
  <1>6. /\ snapshots' \in [Ids -> Readers \cup {None}]
        /\ \A i \in Ids : snapshots'[i] \in {None, current}
    BY <1>1, <1>3, <1>5, StoreTypes DEF RunnerInv, InScenario, Readers
  <1>7. results' \in Seq(Outcomes) /\ Len(results') = Len(results) + 1
    BY <1>1, <1>3
  <1>8. RunnerType'
    BY <1>1, <1>4, <1>6, <1>7 DEF RunnerInv, RunnerType
  <1>9. InScript'
    BY <1>1, <1>2, <1>4, <1>7 DEF InScript, Current
  <1>10. NothingAfterAFailure'
    <2>1. \A k \in 1 .. Len(results) : results'[k] = results[k]
      BY <1>1, <1>3
    <2>2. results'[Len(results) + 1] = o
      BY <1>1, <1>3
    <2>3. o = "skipped" <=> \E j \in 1 .. Len(results) : Failed(results[j])
      BY <1>3 DEF StopOnFail, MayEnd
    <2>4. \A k \in 1 .. Len(results) :
             results[k] = "skipped" <=> \E j \in 1 .. k - 1 : Failed(results[j])
      BY <1>1 DEF RunnerInv, NothingAfterAFailure, InScenario
    <2>5. ASSUME NEW k \in 1 .. Len(results')
          PROVE  results'[k] = "skipped" <=> \E j \in 1 .. k - 1 : Failed(results'[j])
      <3>1. Len(results) \in Nat
        BY <1>1
      <3>2. (\E j \in 1 .. k - 1 : Failed(results'[j])) <=> \E j \in 1 .. k - 1 : Failed(results[j])
        BY <2>1, <2>5, <1>7, <3>1 DEF Failed
      <3>3. CASE k \in 1 .. Len(results)
        BY <3>2, <3>3, <2>1, <2>4
      <3>4. CASE k = Len(results) + 1
        BY <3>1, <3>2, <3>4, <2>2, <2>3
      <3> QED BY <3>1, <3>3, <3>4, <2>5, <1>7
    <2> QED BY <2>5 DEF NothingAfterAFailure
  <1> QED BY <1>4, <1>6, <1>8, <1>9, <1>10 DEF RunnerInv, SnapshotsAreOwn

LEMMA StepsDoneKeeps ==
    ASSUME RunnerInv, StepsDone
    PROVE  RunnerInv'
  <1>1. /\ phase = "steps" /\ current \in Scenarios
        /\ at = Len(results) + 1 /\ at = Len(Current.steps) + 1
        /\ results \in Seq(Outcomes) /\ cleaned = <<>> /\ error = None
    <2>1. Len(Current.steps) \in Nat
      BY ScriptAssumption DEF Current, StepsDone, RunnerInv, InScript
    <2> QED BY <2>1 DEF StepsDone, RunnerInv, RunnerType, InScript
  <1>2. Len(Current.cleanup) \in Nat /\ Len(Current.steps) \in Nat
    BY <1>1, ScriptAssumption DEF Current
  <1>3. /\ UNCHANGED <<current, todo, scenario, snapshots, suite>>
        /\ phase' = "cleanup" /\ at' = 1
    BY DEF StepsDone, Goto
  <1>4. InScript'
    BY <1>1, <1>2, <1>3 DEF InScript, Current, scenario
  <1> QED BY <1>1, <1>3, <1>4 DEF RunnerInv, RunnerType, NothingAfterAFailure,
                                  SnapshotsAreOwn, InScenario, scenario

LEMMA CleanupStepKeeps ==
    ASSUME RunnerInv, CleanupStep
    PROVE  RunnerInv'
  <1>1. /\ phase = "cleanup" /\ current \in Scenarios
        /\ at = Len(cleaned) + 1 /\ at <= Len(Current.cleanup)
        /\ cleaned \in Seq(Outcomes)
    BY DEF CleanupStep, RunnerInv, RunnerType, InScript
  <1>2. Current.cleanup \in Seq(Steps)
    BY <1>1, ScriptAssumption DEF Current
  <1>3. PICK o \in Outcomes : Store(Current.cleanup[at], o, current) /\ cleaned' = Append(cleaned, o)
    BY DEF CleanupStep
  <1>4. UNCHANGED <<phase, current, todo, results, error, pending, suite>> /\ at' = at + 1
    BY DEF CleanupStep
  <1>5. Current.cleanup[at] \in Steps
    BY <1>1, <1>2
  <1>6. /\ snapshots' \in [Ids -> Readers \cup {None}]
        /\ \A i \in Ids : snapshots'[i] \in {None, current}
    BY <1>1, <1>3, <1>5, StoreTypes DEF RunnerInv, InScenario, Readers
  <1>7. cleaned' \in Seq(Outcomes) /\ Len(cleaned') = Len(cleaned) + 1
    BY <1>1, <1>3
  <1>8. RunnerType'
    BY <1>1, <1>4, <1>6, <1>7 DEF RunnerInv, RunnerType
  <1>9. InScript'
    BY <1>1, <1>2, <1>4, <1>7 DEF RunnerInv, InScript, Current
  <1>10. NothingAfterAFailure'
    BY <1>1, <1>4 DEF RunnerInv, NothingAfterAFailure, InScenario
  <1> QED BY <1>4, <1>6, <1>8, <1>9, <1>10 DEF RunnerInv, SnapshotsAreOwn

LEMMA ConcludeKeeps ==
    ASSUME RunnerInv, Conclude
    PROVE  RunnerInv'
  <1>1. phase = "cleanup" /\ current \in Scenarios /\ UNCHANGED <<scenario, snapshots>>
    BY DEF Conclude, RunnerInv, InScript
  <1>2. CASE pending # None
    <2>1. phase' = "raised" /\ at' = 1 /\ UNCHANGED <<current, todo, suite>>
      BY <1>2 DEF Conclude, Goto
    <2> QED BY <1>1, <2>1 DEF RunnerInv, RunnerType, InScript, NothingAfterAFailure,
                              SnapshotsAreOwn, InScenario, scenario
  <1>3. CASE pending = None
    <2>1. Record(Verdict) /\ NextScenario(todo)
      BY <1>3 DEF Conclude
    <2>2. suite' \in Seq([name : Scenarios, outcome : Outcomes])
      BY <1>1, <2>1, RecordTypes DEF RunnerInv, Outcomes, Verdict
    <2>3. RunnerType'
      BY <1>1, <2>1, <2>2, NextScenarioTypes DEF RunnerInv, RunnerType, scenario
    <2>4. InScript'
      BY <2>1, NextScenarioTypes DEF InScript, RunnerInv, RunnerType
    <2> QED BY <2>1, <2>3, <2>4, NextScenarioTypes
            DEF RunnerInv, RunnerType, NothingAfterAFailure, SnapshotsAreOwn, InScenario
  <1> QED BY <1>2, <1>3

LEMMA InterruptKeeps ==
    ASSUME RunnerInv, Interrupt
    PROVE  RunnerInv'
  <1>1. /\ phase \in {"setup", "preconditions", "steps", "cleanup"} /\ current \in Scenarios
        /\ UNCHANGED <<current, todo, results, cleaned, error, snapshots, suite>>
    BY DEF Interrupt, RunnerInv, InScript
  <1>2. CASE phase \in {"preconditions", "steps"}
    <2>1. phase' = "cleanup" /\ at' = 1 /\ pending' = "CancelledError"
      BY <1>2 DEF Interrupt, Goto
    <2>2. Len(Current.cleanup) \in Nat
      BY <1>1, ScriptAssumption DEF Current
    <2>3. InScript'
      BY <1>1, <1>2, <2>1, <2>2 DEF RunnerInv, InScript, Current, None
    <2> QED BY <1>1, <1>2, <2>1, <2>3 DEF RunnerInv, RunnerType, NothingAfterAFailure,
                                          SnapshotsAreOwn, InScenario
  <1>3. CASE phase \in {"setup", "cleanup"}
    <2>1. phase' = "raised" /\ at' = 1 /\ UNCHANGED pending
      BY <1>3 DEF Interrupt, Goto
    <2> QED BY <1>1, <2>1 DEF RunnerInv, RunnerType, InScript, NothingAfterAFailure,
                              SnapshotsAreOwn, InScenario
  <1> QED BY <1>1, <1>2, <1>3

LEMMA RunnerStepKeeps ==
    ASSUME RunnerInv, RunnerStep
    PROVE  RunnerInv'
  BY SetupItemKeeps, BeginScenarioKeeps, PreconditionsKeep, ExecuteStepKeeps, StepsDoneKeeps,
     CleanupStepKeeps, ConcludeKeeps, InterruptKeeps DEF RunnerStep

LEMMA NextScenarioKeeps ==
    ASSUME RunnerInv, NEW rest \in SUBSET Scenarios, NextScenario(rest),
           UNCHANGED <<scenario, snapshots, suite>>
    PROVE  RunnerInv'
  <1>1. RunnerType'
    BY NextScenarioTypes DEF RunnerInv, RunnerType, scenario
  <1> QED BY <1>1, NextScenarioTypes
          DEF RunnerInv, InScript, NothingAfterAFailure, SnapshotsAreOwn, InScenario

LEMMA DiscardKeeps ==
    ASSUME Discard
    PROVE  RunnerInv'
  <1>1. RunnerType'
    BY RunnerInitTypes DEF RunnerType
  <1> QED BY <1>1, RunnerInitTypes
          DEF RunnerInv, InScript, NothingAfterAFailure, SnapshotsAreOwn, InScenario

-----------------------------------------------------------------------------
(* The command *)

CommandType ==
    /\ stage \in {"idle", "connect", "suite", "writing"}
    /\ sources \in Sources /\ baseline \in Sources /\ commands \in Nat
    /\ cache \in Caches \cup {Absent} /\ file \in Caches \cup {Absent, Corrupt}
    /\ reported \in [Scenarios -> [outcome : Outcomes \cup {None}, sources : Sources]]

CommandInv == CommandType /\ CacheIsHistory /\ LoadedIsHistory

Inv == RunnerInv /\ CommandInv

LEMMA LoadTypes ==
    ASSUME NEW f \in Caches \cup {Absent, Corrupt}
    PROVE  /\ Load(f) \in Caches \cup {Absent}
           /\ Load(f).is = "cache" => Load(f) = f /\ f.is = "cache" /\ f \in Caches
  BY DEF Load, Caches, Absent, Corrupt

LEMMA MergeTypes ==
    ASSUME CommandType, RunnerType
    PROVE  /\ Merge(cache, baseline) \in Caches
           /\ Merge(cache, baseline).is = "cache"
           /\ Merge(cache, baseline).baseline = baseline
           /\ \A s \in Scenarios : ~Ran(s) =>
                Merge(cache, baseline).results[s] =
                    (IF cache.is = "cache" /\ cache.baseline = baseline
                     THEN cache.results[s] ELSE None)
  <1> DEFINE old == IF cache.is = "cache" /\ cache.baseline = baseline
                    THEN cache.results ELSE NoResults
  <1>1. old \in [Scenarios -> Outcomes \cup {None}]
    <2>1. CASE cache.is = "cache" /\ cache.baseline = baseline
      BY <2>1 DEF CommandType, Caches, Absent
    <2>2. CASE ~(cache.is = "cache" /\ cache.baseline = baseline)
      BY <2>2 DEF NoResults
    <2> QED BY <2>1, <2>2
  <1>2. ASSUME NEW s \in Scenarios, Ran(s)
        PROVE  OutcomeOf(s) \in Outcomes
    <2> DEFINE k == CHOOSE k \in 1 .. Len(suite) : suite[k].name = s
    <2>1. k \in 1 .. Len(suite)
      BY <1>2 DEF Ran
    <2> HIDE DEF k
    <2>2. suite[k] \in [name : Scenarios, outcome : Outcomes]
      <3>1. suite \in Seq([name : Scenarios, outcome : Outcomes])
        BY DEF RunnerType
      <3> QED BY <2>1, <3>1, ElementOfSeq
    <2>3. OutcomeOf(s) = suite[k].outcome
      BY DEF OutcomeOf, k
    <2> QED BY <2>2, <2>3
  <1> DEFINE merged == [s \in Scenarios |-> IF Ran(s) THEN OutcomeOf(s) ELSE old[s]]
  <1>3. merged \in [Scenarios -> Outcomes \cup {None}]
    BY <1>1, <1>2
  <1>4. Merge(cache, baseline) = [is |-> "cache", baseline |-> baseline, results |-> merged]
    BY DEF Merge, Cache
  <1>5. \A s \in Scenarios : ~Ran(s) => merged[s] = old[s]
    OBVIOUS
  <1>6. \A s \in Scenarios : old[s] = IF cache.is = "cache" /\ cache.baseline = baseline
                                      THEN cache.results[s] ELSE None
    BY DEF NoResults
  <1> HIDE DEF merged, old
  <1> QED BY <1>3, <1>4, <1>5, <1>6 DEF Caches, CommandType

LEMMA TestAllKeeps ==
    ASSUME CommandInv, TestAll
    PROVE  CommandInv'
  <1>1. /\ file' \in {file, Absent} /\ commands' = commands + 1
        /\ baseline' = sources /\ cache' = Load(file') /\ stage' = "connect"
        /\ UNCHANGED <<sources, reported>>
    BY DEF TestAll, Prepare
  <1>2. file' \in Caches \cup {Absent, Corrupt}
    BY <1>1 DEF CommandInv, CommandType
  <1>3. CommandType'
    BY <1>1, <1>2, LoadTypes DEF CommandInv, CommandType
  <1>4. CacheIsHistory'
    BY <1>1 DEF CommandInv, CacheIsHistory, Absent
  <1> QED BY <1>1, <1>2, <1>3, <1>4, LoadTypes DEF CommandInv, CacheIsHistory, LoadedIsHistory

LEMMA LastFailedKeeps ==
    ASSUME CommandInv, LastFailed
    PROVE  CommandInv'
  <1>1. /\ commands' = commands + 1 /\ baseline' = sources /\ cache' = Load(file)
        /\ stage' \in {"idle", "connect"} /\ UNCHANGED <<file, sources, reported>>
    BY DEF LastFailed, Prepare
  <1>2. file \in Caches \cup {Absent, Corrupt}
    BY DEF CommandInv, CommandType
  <1>3. CommandType'
    BY <1>1, <1>2, LoadTypes DEF CommandInv, CommandType
  <1>4. CacheIsHistory'
    BY <1>1 DEF CommandInv, CacheIsHistory
  <1> QED BY <1>1, <1>2, <1>3, <1>4, LoadTypes DEF CommandInv, CacheIsHistory, LoadedIsHistory

\* Steps that leave the cache, its copy in the command and the history alone.
LEMMA SameBooksKeep ==
    ASSUME CommandInv, UNCHANGED <<cache, baseline, commands, file, reported>>,
           stage' \in {"idle", "connect", "suite", "writing"}, sources' \in Sources,
           stage' = "idle" \/ stage # "idle" \/ stage' = stage
    PROVE  CommandInv'
  BY DEF CommandInv, CommandType, CacheIsHistory, LoadedIsHistory

LEMMA SaveBeginsKeeps ==
    ASSUME CommandInv, SaveBegins
    PROVE  CommandInv'
  <1>1. /\ file' = Corrupt /\ stage = "suite" /\ stage' = "writing"
        /\ UNCHANGED <<cache, baseline, commands, sources, reported>>
    BY DEF SaveBegins
  <1> QED BY <1>1 DEF CommandInv, CommandType, CacheIsHistory, LoadedIsHistory, Corrupt

LEMMA SaveEndsKeeps ==
    ASSUME RunnerType, CommandInv, SaveEnds
    PROVE  CommandInv'
  <1>1. /\ file' = Merge(cache, baseline) /\ stage = "writing" /\ stage' = "idle"
        /\ UNCHANGED <<cache, baseline, commands, sources>>
    BY DEF SaveEnds, Exit
  <1>2. reported' = [s \in Scenarios |->
             IF Ran(s) THEN [outcome |-> file'.results[s], sources |-> baseline]
                       ELSE reported[s]]
    BY DEF SaveEnds
  <1>3. file' \in Caches /\ file'.is = "cache" /\ file'.baseline = baseline
    BY <1>1, MergeTypes DEF CommandInv
  <1>4. reported' \in [Scenarios -> [outcome : Outcomes \cup {None}, sources : Sources]]
    BY <1>2, <1>3 DEF CommandInv, CommandType, Caches
  <1>5. CommandType'
    BY <1>1, <1>3, <1>4 DEF CommandInv, CommandType
  <1>6. ASSUME NEW s \in Scenarios, file'.results[s] # None
        PROVE  reported'[s] = [outcome |-> file'.results[s], sources |-> file'.baseline]
    <2>1. CASE Ran(s)
      BY <1>2, <1>3, <2>1
    <2>2. CASE ~Ran(s)
      <3>1. /\ cache.is = "cache" /\ cache.baseline = baseline
            /\ file'.results[s] = cache.results[s]
        BY <1>1, <1>6, <2>2, MergeTypes DEF CommandInv
      <3>2. reported[s] = [outcome |-> cache.results[s], sources |-> cache.baseline]
        BY <1>1, <1>6, <3>1 DEF CommandInv, LoadedIsHistory
      <3> QED BY <1>2, <1>3, <2>2, <3>1, <3>2
    <2> QED BY <2>1, <2>2
  <1>7. CacheIsHistory'
    BY <1>6 DEF CacheIsHistory
  <1> QED BY <1>1, <1>5, <1>7 DEF CommandInv, LoadedIsHistory

-----------------------------------------------------------------------------
(* The theorems *)

LEMMA Initially == Init => Inv
  <1> SUFFICES ASSUME Init PROVE Inv
    OBVIOUS
  <1>1. RunnerType
    BY DEF Init, RunnerInit, RunnerType
  <1>2. RunnerInv
    BY <1>1 DEF Init, RunnerInit, RunnerInv, InScript, NothingAfterAFailure, SnapshotsAreOwn,
                InScenario
  <1>3. CommandInv
    BY DEF Init, CommandInv, CommandType, CacheIsHistory, LoadedIsHistory, Absent
  <1> QED BY <1>2, <1>3 DEF Inv

LEMMA Inductive == Inv /\ [Next]_vars => Inv'
  <1> SUFFICES ASSUME Inv, [Next]_vars PROVE Inv'
    OBVIOUS
  <1> USE DEF Inv
  <1>1. CASE TestAll
    <2>1. UNCHANGED <<place, current, scenario, snapshots, suite>> /\ todo' = Scenarios
      BY <1>1 DEF TestAll, Prepare
    <2>2. RunnerInv'
      BY <2>1 DEF RunnerInv, RunnerType, InScript, NothingAfterAFailure, SnapshotsAreOwn,
                  InScenario, place, scenario, Current
    <2> QED BY <1>1, <2>2, TestAllKeeps
  <1>2. CASE LastFailed
    <2>1. UNCHANGED <<place, current, scenario, snapshots, suite>> /\ todo' \subseteq Scenarios
      BY <1>2 DEF LastFailed, Prepare
    <2>2. RunnerInv'
      BY <2>1 DEF RunnerInv, RunnerType, InScript, NothingAfterAFailure, SnapshotsAreOwn,
                  InScenario, place, scenario, Current
    <2> QED BY <1>2, <2>2, LastFailedKeeps
  <1>3. CASE Connected
    <2>1. PICK matching \in SUBSET Scenarios : NextScenario(todo \cap matching)
      BY <1>3 DEF Connected, RunSuite
    <2>2. RunnerInv'
      BY <1>3, <2>1, NextScenarioKeeps DEF Connected, RunSuite
    <2>3. CommandInv'
      BY <1>3, SameBooksKeep DEF Connected, CommandInv, CommandType
    <2> QED BY <2>2, <2>3
  <1>4. CASE Run
    <2>1. CommandInv'
      BY <1>4, SameBooksKeep DEF Run, command, CommandInv, CommandType
    <2> QED BY <1>4, <2>1, RunnerStepKeeps DEF Run
  <1>5. CASE SaveBegins
    <2>1. RunnerInv'
      BY <1>5 DEF SaveBegins, runner, place, scenario, RunnerInv, RunnerType, InScript,
                  NothingAfterAFailure, SnapshotsAreOwn, InScenario, Current
    <2> QED BY <1>5, <2>1, SaveBeginsKeeps
  <1>6. CASE SaveEnds
    BY <1>6, SaveEndsKeeps, DiscardKeeps DEF SaveEnds, Exit, RunnerInv
  <1>7. CASE CommandFails
    <2>1. CommandInv'
      BY <1>7, SameBooksKeep DEF CommandFails, Exit, CommandInv, CommandType
    <2> QED BY <1>7, <2>1, DiscardKeeps DEF CommandFails, Exit
  <1>8. CASE EditSources
    <2>1. RunnerInv'
      BY <1>8 DEF EditSources, runner, place, scenario, RunnerInv, RunnerType, InScript,
                  NothingAfterAFailure, SnapshotsAreOwn, InScenario, Current
    <2>2. CommandInv'
      BY <1>8, SameBooksKeep DEF EditSources, command, CommandInv, CommandType
    <2> QED BY <2>1, <2>2
  <1>9. CASE UNCHANGED vars
    <2>1. RunnerInv'
      BY <1>9 DEF vars, runner, place, scenario, RunnerInv, RunnerType, InScript,
                  NothingAfterAFailure, SnapshotsAreOwn, InScenario, Current
    <2>2. CommandInv'
      BY <1>9, SameBooksKeep DEF vars, command, CommandInv, CommandType
    <2> QED BY <2>1, <2>2
  <1> QED BY <1>1, <1>2, <1>3, <1>4, <1>5, <1>6, <1>7, <1>8, <1>9 DEF Next

THEOREM InvHolds == Spec => []Inv
  BY Initially, Inductive, PTL DEF Spec

\* Every variable of the runner and the command has its type (TestCommand.Init
\* and every action of Next).
THEOREM CommandTypeCorrect == Spec => []TypeOK
  <1>1. Inv => TypeOK
    BY DEF Inv, RunnerInv, CommandInv, TypeOK, RunnerType, CommandType
  <1> QED BY <1>1, InvHolds, PTL

\* runner.py:331-345: what follows the first failed step is skipped, and nothing
\* else is, for every script.
THEOREM FailureStopsTheSteps == Spec => []NothingAfterAFailure
  <1>1. Inv => NothingAfterAFailure
    BY DEF Inv, RunnerInv
  <1> QED BY <1>1, InvHolds, PTL

\* runner.py:284: a scenario never finds values in the store that it did not
\* read itself, whatever the snapshot steps of the setup and of the scenarios
\* before it have stored.
THEOREM SnapshotsNeverLeak == Spec => []SnapshotsAreOwn
  <1>1. Inv => SnapshotsAreOwn
    BY DEF Inv, RunnerInv
  <1> QED BY <1>1, InvHolds, PTL

\* results_cache.py:219-251: the file agrees with the history, through kills,
\* cut-off files, resets, edits and partial runs.
THEOREM CacheIsTrue == Spec => []CacheIsHistory
  <1>1. Inv => CacheIsHistory
    BY DEF Inv, CommandInv
  <1> QED BY <1>1, InvHolds, PTL

\* results_cache.py:254-286: what --last-failed leaves out passed on these
\* sources when it was last run to completion.
THEOREM LastFailedIsComplete == Spec => LeftOutPassed
  <1>1. ASSUME Inv, LastFailed, NEW s \in Scenarios \ todo'
        PROVE  reported[s] = [outcome |-> "passed", sources |-> sources]
    <2>1. /\ Load(file).is = "cache" /\ Load(file).baseline = sources
          /\ cache' = Load(file) /\ s \notin {r \in Scenarios : ToRerun(r)}
      BY <1>1 DEF LastFailed, Prepare
    <2>2. cache' = file /\ file.is = "cache" /\ file \in Caches /\ file.baseline = sources
      BY <1>1, <2>1, LoadTypes DEF Inv, CommandInv, CommandType
    <2>3. file.results[s] \in Outcomes \cup {None} /\ ~ToRerun(s)
      BY <2>1, <2>2 DEF Caches
    <2>4. file.results[s] = "passed"
      BY <2>2, <2>3 DEF ToRerun, Outcomes
    <2> QED BY <1>1, <2>2, <2>4 DEF Inv, CommandInv, CacheIsHistory, None
  <1>2. Inv /\ [Next]_vars => [LastFailed => \A s \in Scenarios \ todo' :
            reported[s] = [outcome |-> "passed", sources |-> sources]]_vars
    BY <1>1
  <1> QED BY <1>2, InvHolds, PTL DEF Spec, LeftOutPassed

\* runner.py:273-352: the finally clause keeps its promise.
THEOREM CleanupIsGuaranteed == Spec => CleanupGuarantee
  <1>1. ASSUME Inv, [Next]_vars, InScenario, ~InScenario', phase' # "off"
        PROVE  Len(cleaned) = Len(Current.cleanup) \/ Interrupt
    <2>1. phase \in {"preconditions", "steps", "cleanup"}
          /\ phase' \notin {"preconditions", "steps", "cleanup"}
      BY <1>1 DEF InScenario
    <2>2. phase' # phase
      BY <2>1
    <2>3. Run
      BY <1>1, <2>1, <2>2 DEF Next, TestAll, LastFailed, Prepare, Connected, RunSuite, SaveBegins,
         SaveEnds, CommandFails, Exit, Discard, Goto, EditSources, vars, runner, place
    <2>4. Conclude \/ Interrupt
      BY <2>1, <2>3 DEF Run, RunnerStep, SetupItem, BeginScenario, Precondition,
         PreconditionRaises, PreconditionsDone, ExecuteStep, StepsDone, CleanupStep, Goto
    <2>5. CASE Conclude
      <3>1. phase = "cleanup" /\ at > Len(Current.cleanup) /\ current \in Scenarios
        BY <1>1, <2>5 DEF Conclude, Inv, RunnerInv, InScript
      <3>2. at = Len(cleaned) + 1 /\ at <= Len(Current.cleanup) + 1 /\ cleaned \in Seq(Outcomes)
        BY <1>1, <3>1 DEF Inv, RunnerInv, RunnerType, InScript
      <3>3. Len(Current.cleanup) \in Nat /\ Len(cleaned) \in Nat
        BY <3>1, <3>2, ScriptAssumption DEF Current
      <3> QED BY <3>1, <3>2, <3>3
    <2> QED BY <2>4, <2>5
  <1>2. Inv /\ [Next]_vars => [ (InScenario /\ ~InScenario' /\ phase' # "off")
            => Len(cleaned) = Len(Current.cleanup) \/ Interrupt ]_runner
    BY <1>1
  <1> QED BY <1>2, InvHolds, PTL DEF Spec, CleanupGuarantee

\* runner.py:354-361: the verdict tells how the scenario went.
THEOREM VerdictsTellTheTruth == Spec => VerdictsAreTrue
  <1> DEFINE Truth ==
        /\ NewVerdict("passed") => error = "textless" \/ AllPassed
        /\ NewVerdict("failed") => \E k \in 1 .. Len(results) : Failed(results[k])
        /\ NewVerdict("error") => results = <<>>
  <1>1. ASSUME Inv, [Next]_vars PROVE Truth \/ UNCHANGED runner
    <2>1. CASE suite' = suite
      BY <2>1 DEF NewVerdict
    <2>2. CASE suite' = <<>>
      BY <2>2 DEF NewVerdict
    <2>3. CASE BeginScenario /\ suite' # suite
      <3>1. suite' = Append(suite, [name |-> current, outcome |-> "skipped"])
        BY <2>3 DEF BeginScenario, Record
      <3>2. suite'[Len(suite')].outcome = "skipped"
        BY <1>1, <3>1 DEF Inv, RunnerInv, RunnerType
      <3> QED BY <3>2 DEF NewVerdict
    <2>4. CASE Conclude /\ suite' # suite
      <3>1. /\ phase = "cleanup" /\ pending = None
            /\ suite' = Append(suite, [name |-> current, outcome |-> Verdict])
        BY <2>4 DEF Conclude, Record
      <3>2. suite'[Len(suite')].outcome = Verdict
        BY <1>1, <3>1 DEF Inv, RunnerInv, RunnerType
      <3>3. /\ error # None => results = <<>>
            /\ error = None => Len(results) = Len(Current.steps)
            /\ error \in {None, "text", "textless"} /\ results \in Seq(Outcomes)
        BY <1>1, <3>1 DEF Inv, RunnerInv, RunnerType, InScript
      <3>4. CASE error = "text"
        BY <3>2, <3>3, <3>4 DEF Verdict, NewVerdict, None
      <3>5. CASE error # "text" /\ StopOnFail
        BY <3>2, <3>5 DEF Verdict, NewVerdict, StopOnFail
      <3>6. CASE error # "text" /\ ~StopOnFail
        <4>1. \A k \in 1 .. Len(results) : ~Failed(results[k]) /\ results[k] # "skipped"
          BY <1>1, <3>1, <3>3, <3>6 DEF StopOnFail, Inv, RunnerInv, NothingAfterAFailure, InScenario
        <4>2. \A k \in 1 .. Len(results) : results[k] = "passed"
          BY <3>3, <4>1 DEF Failed, Outcomes
        <4>3. error = "textless" \/ AllPassed
          BY <3>3, <3>6, <4>2 DEF AllPassed
        <4> QED BY <3>2, <3>6, <4>3 DEF Verdict, NewVerdict
      <3> QED BY <3>4, <3>5, <3>6
    <2>5. suite' = suite \/ suite' = <<>> \/ BeginScenario \/ Conclude
      BY <1>1 DEF Next, TestAll, LastFailed, Prepare, Connected, RunSuite, SaveBegins, SaveEnds,
         CommandFails, Exit, Discard, EditSources, vars, runner, Run, RunnerStep, SetupItem,
         Precondition, PreconditionRaises, PreconditionsDone, ExecuteStep, StepsDone,
         CleanupStep, Interrupt
    <2> QED BY <2>1, <2>2, <2>3, <2>4, <2>5
  <1>2. Inv /\ [Next]_vars => [Truth]_runner
    BY <1>1
  <1> QED BY <1>2, InvHolds, PTL DEF Spec, VerdictsAreTrue
=============================================================================
