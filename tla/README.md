# Verification of siemens-plc-tools

TLA+ models of the stateful parts of siemens-plc-tools, TLC configurations that
check them on small instances, and TLAPS proofs about them. Paths below are
relative to `packages/` of the repository.

Check a configuration with `tlc -config X.cfg M` and a proof with `tlapm M.tla`;
the runs are the table of section 4, the proof modules those of section 5.

## 1. Inventory

Most of the repository turns files into files: parsers, analysers, exporters and
generators (`plc-code`), device descriptions (`plc-iol`), reports. The state that
lives longer than a call, and is shared or lives on the other side of a network,
is in the parts below.

| Part | State it keeps | Operations | What is hard |
|---|---|---|---|
| Trace recorder, SCL generated by `plc-trace/.../scaffold.py` | data block `type<Name>`: `control.*`, `status.*`, one array per UDT field | one call of the FUNCTION per PLC cycle; OPC UA writes of `control.*` | ring and one-shot with the mode switched in mid-run, decimation, no bounds check, block lost at a restart |
| Trace client, `plc-trace/.../client.py` | locals of the call in progress, `started_at_iso` | `start`, `stop`, `set_decimation`, `status`, `fetch` | every tag read or write is its own round trip; the recorder and other clients run in between |
| Trace steps and CLI | none | one client operation each | two sessions on one recorder |
| OPC UA client, `plc-core/.../opcua/client.py` | `_client`, `_status`, `_subscriptions`, `_lock` | `connect`, `disconnect`, `subscribe`, `unsubscribe`; `browse`, `read`, `write`, `call` | tasks interleave at every await; only two operations take the lock; faults and cancellation |
| Subscription handler, same file | bounded `asyncio.Queue` | `datachange_notification`, `get` | drops values silently when full |
| Scenario runner, `plc-core/.../testing/runner.py` | snapshots, captured values, results | suite, setup, preconditions, steps, cleanup | a step fails anywhere, Ctrl-C comes anywhere; cleanup must still run; outcome computed from what is left |
| Results cache, `plc-sim/.../testing/results_cache.py` and `plc sim test` | JSON file | load, select, merge, save | kills between the steps and in the write, a baseline that changes |
| Simulation web service, `plc-sim/.../web/services.py`, `routes.py` | the client object, the configuration, queues of listeners | connect, disconnect, start and stop monitoring, SSE generator | requests interleave at every await; the client is replaced under a request, also by one of another server |
| Tag resolver, `plc-core/.../testing/tag_resolver.py` | tag table, `_built_at`, JSON file | build, load, save, resolve | staleness; the file of another endpoint |
| Timers, `plc-code/.../executor/timers.py`, `harness.py` | instance data of TON, TOF, TP, TONR, R_TRIG, F_TRIG | inputs set, clock advanced, one call per scan | boundary scans, PT changed while timing, a clock that stands still |
| Block layout, `plc-code/.../layout/` | a byte and bit cursor, the members placed | recursive placement of a block's declarations | packed Bools among odd sizes, nested and empty containers, missing types |
| Network monitor, `plc-net/.../monitor.py` | packet counters under a lock | sniffing thread counts, display reads and resets | two critical sections where one is needed |
| Infrastructure clients, `plc-sup/.../testing/clients.py` | none | poll until healthy | the success test of the poll |
| Modbus, IO-Link, code analysis, executor, configuration, reports | none across calls | | pure functions or one round trip |

How they interact:

- The FUNCTION of the recorder runs in the PLC's cyclic OB. `TraceClient` sees its
  data block only through OPC UA reads and writes, each a round trip. It does not
  share memory, a lock or a clock with the recorder.
- `TraceClient`, the scenario runner, the tag resolver and the web service all use
  `OpcUaClient`. In the CLI one task uses one client; in the web application all
  requests share one client in one event loop.
- The scenario runner calls a callback per step type (`steps.py` of each package)
  and hands its results to the results cache.

What makes each part correct:

- *Recorder*: never indexes past the arrays; `wrapped` and `writeIdx` describe the
  content; the samples of a run are the spaced, consecutive cycles asked for; a
  one-shot run loses nothing.
- *Trace client*: a recording fetched after `stop()` is exact; every call ends by
  its deadline; `stop()` then `start()` begins a new run.
- *OPC UA client*: no session or subscription left on the server that nobody holds;
  the lock comes back whatever happens; a registered subscription is served;
  `disconnect()` disconnects.
- *Scenario runner*: cleanup runs on every path; nothing is executed after a failed
  step; a scenario that did not run its steps is not reported as passed; a snapshot
  restores only what its own scenario read.
- *Results cache*: what the file says is what happened, on the sources it names; a
  scenario is left out of a rerun only if it passed on the sources of now.
- *Web service*: a tab is served while its session is up, costs nothing once it ends as
  it should; sessions and subscriptions are leaked in known ways only.
- *Timers*: an output follows IEC 61131-3 in every call, as a function of the history
  of the input; a pulse lasts PT.
- *Layout*: no two scalars overlap, words start on even bytes, nothing is padded more
  than needed, a container holds exactly its members.

The hazards that follow from the table, each with its line and the properties that
cover it, are listed under `hazards` in `PROJECT.json`.

## 2. Modules

    TraceWindow            what the recorder promises (abstract)
       ^ INSTANCE .. WITH
    TraceRecorder          the data block and the FUNCTION, any client
       ^ EXTENDS                          ^ EXTENDS
    TraceRecorderProofs                TraceClient      the Python client
       ^ EXTENDS        ^                 ^
    TraceRefinement   MCTraceRecorder  MCTraceClient
    TraceClientProofs (EXTENDS TraceClient and TraceRecorderProofs)

    OpcUaClient            connection and subscriptions of one client object
       ^ EXTENDS        ^
    OpcUaClientProofs  MCOpcUaClient      which task may call what

    SimService             the web service that makes and replaces such objects
       ^ EXTENDS        ^
    SimServiceProofs   MCSimService

    ScenarioRunner         suite, setup, steps, cleanup, verdicts
       ^ EXTENDS
    TestCommand            `plc sim test` and its results cache around the runner
       ^ EXTENDS        ^
    TestCommandProofs  MCTestCommand      the YAML of the scenarios

    Timers                 timer and edge blocks on the mock clock
       ^ EXTENDS        ^
    TimersProofs       MCTimers

    Layout                 standard-access layout of a data block
       ^ EXTENDS        ^
    LayoutProofs       MCLayout           types, registry and blocks laid out

### TraceRecorder

State: the fields of the data block under their own names, with one signal array for
all UDT fields (they are indexed alike). `signal` holds, for a cell, the run and the
cycle at which it was sampled, so that a row made of two moments can be told from
one that is not. `run`, `history` and `stride` are history variables: the start edges
so far, all samples of the current run, the decimation loaded with the last sample.

| Action | Code (`scaffold.py`) |
|---|---|
| `ScanIdle`, `ScanSkip`, `ScanSample` | the three ways through one call of the FUNCTION, start edge and stop level included |
| `StartEdge`, `Armed`, `Fresh` | first region: edge, reset of the run, low level stops |
| `SampleDue`, `LoadedDecimation` | countdown and its reload |
| `Full`, `Stops`, `Wraps` | what happens at the last cell |
| `ClientWrite` | a write of `control.start`, `.mode` or `.decimation` by any client, between two scans |
| `Restart` | the block is not retentive: every field back to its start value |
| `Span`, `CellOf`, `OldestFirst` | the order in which `TraceClient.fetch()` reads |

Left out: `cycleTimeMs` (constant within a run, only copied into the metadata) and
the text of the generated files.

### TraceWindow

The same recorder with no ring: a flag and a window of the newest `Depth` samples.
A run starts with one sample of cycle 1 (`Arm`), samples of later cycles enter
(`Take`), stopping keeps the window (`Halt`), a PLC restart empties it (`Reset`). A
run ends *by itself* only with a full window. The refinement mapping is
`running <- recording`, `window <- OldestFirst(wrapped, writeIdx, signal)`: what a
reader would get at once.

### TraceClient

`TraceRecorder` with the free client replaced by instances of the Python class. `pc`
names the next round trip of the call in progress; each round trip is one action,
so scans, restarts and other clients' round trips fall between any two.

| Action | Code (`client.py`) |
|---|---|
| `CallStart` .. `CallFetch` | a call begins (arguments chosen) |
| `DoWriteMode`, `DoWriteDecimation`, `DoWriteStart` | the writes of `start`, `stop`, `set_decimation`, in their order |
| `PollMatches`, `PollTimesOut`, `DeadlinePasses` | `_wait_for`: read, return, raise past the deadline |
| `ReadStatus` | `status()`, field by field |
| `ReadCycles`, `ReadColumn`, `ReadMeta` | `fetch()`: chunks of the two arrays, then mode and decimation |
| `RoundTripFails` | a round trip raises and the call ends where it stands |
| `PLCScan`, `PLCRestart` | the recorder |

`RoundTripFails` also stands for a write that was applied but whose answer was lost:
that is the write's action followed by this one. History variables: `trust` (the last
start or stop call of a client that still stands) and `disturbed` (the sampled data
changed during the call).

Left out: `status.depth`, `cycleTimeMs` and `cycleCounter` reads (constant or only
reported), the sleep between polls (a poll that does not match and is not late
changes nothing), `TraceRecording.save`.

### OpcUaClient

State: `_client` (`client`), `_status` (`connStatus`), the keys of `_subscriptions`,
the asyncio lock as the queue of its holder and waiters, and per task the place where
it awaits with its locals. External: the sessions open on the server, the
subscriptions it serves and the session each belongs to; modelled from the calls the
code makes on `asyncua.Client` and `Subscription`.

An action runs from one await to the next, as the event loop does. `disconnect()`
iterates over the dict across awaits: `DeletedOne` compares the size of the dict
with the size at the start of the loop, as Python does, and takes the path of the
`RuntimeError` when they differ. `Faults` is a constant, a set of what may go wrong:

| Fault | What happens |
|---|---|
| `refuse`, `lose` | the server does not accept a session, or drops one |
| `late` | the namespace read of `connect()` raises: the open session is dropped (line 252) |
| `reject`, `badNode` | `subscribe()` raises at one of its awaits, or in `get_node()` on a malformed id (line 697) after the subscription was created |
| `undeleted` | `delete()` raises with the session up; `unsubscribe()` logs it, `disconnect()` passes over it (lines 718, 266) |
| `unclosed` | `Client.disconnect()` raises with the session up and is logged (line 272) |
| `cancel` | a task is cancelled at any await |

`abandoned` is a history variable: subscriptions whose `subscribe()` raised after it had
created them, whose deletion by `unsubscribe()` raised, or whose task was cancelled with
them in hand.

A subscription has a number of its own: a server repeats no id, and every object is used with the
endpoint of its configuration only (no caller in the repository passes another to its `connect()`).

Left out: `browse`, `read`, `write`, `call` (they keep nothing in the client) and
`SubscriptionHandler`.

### SimService

State: `_client` (`client`, objects numbered as they are made), and per request the await
it is at, the object and the subscription it has in hand, and the locals of a loop of
`disconnect()`. Of each object: the server it was made for (`endpoint`), whether
`is_connected` holds (`connected`), the dict (`registered`). Of the servers: the sessions,
the subscriptions and the last id each has given out (`open`, `live`, `last`). The service makes
an object for every `connect()`, so an object opens one session at most.

The calls of `OpcUaClient` are followed await by await, and each await may raise at any time:
what the faults of `OpcUaClient` are, a request may meet here without naming them. Only the task
of a stream is cancelled (the tab closes); a cancellation of the other requests, at the end of the
process, is not modelled.

| Action | Code (`services.py`, `routes.py`; `client.py` of the OPC UA client) |
|---|---|
| `Connect` | a new object, of any server, replaces the one held, which is not disconnected |
| `Opened`, `Connected`, `ConnectFails` | the session is open, the namespaces are read; or either raises and the session is dropped as it is |
| `Disconnect`, `DisconnectNoop`, `DisconnectBegin` | the object of now is disconnected, once its lock is free |
| `DeletedOne`, `LoopRaises`, `SessionClosed` | the loop over the dict, its `RuntimeError` (finding 1), the end of the session or its failure |
| `LetGo` | `_client` becomes None, whatever is there by now |
| `Subscribe`, `Created`, `Subscribed`, `SubscribeFails` | `start_monitoring()`: the subscription is created, `get_node()` may raise, its items are added, or one of the awaits raises |
| `StreamNeverBegins`, `StreamEnds`, `Unsubscribed` | the generator of `GET /subscribe` is never started, or ends and calls `stop_monitoring()`, whose deletion may raise |
| `SessionLost` | external: a session goes away |

History variables: `dropped` (objects put out of reach, or that gave up their session without closing
it), `abandoned` (subscriptions nobody keeps, because the call that created them, their deletion
or their stream was cut short), `taken` (subscriptions cancelled by a tab of an earlier object).

A server numbers its subscriptions and repeats no id; two servers number them independently. Both are
facts about servers, not about this code. A server that is restarted, and may begin again at 1, is
another element of `Servers`.

Left out: the configuration but for the endpoint (`set_config()` is called once, when the
application starts), and the list `_change_queues`, which is only read to take a queue off it.

### ScenarioRunner and TestCommand

`ScenarioRunner` is one `run_suite()`. `phase` and `at` say where it is: each step,
precondition, setup value and cleanup step is one action whose end is chosen (`MayEnd`).
A value in the snapshot store is represented by who read it (`Store`): a scenario, or the setup.

| Action | Code (`runner.py`) |
|---|---|
| `RunSuite`, `NextScenario` | the filter and the loop over the scenarios, in the order given |
| `SetupItem` | `apply_setup()`: values, post-values, steps; a failure raises out of the suite |
| `BeginScenario` | snapshots cleared, `skip` |
| `Precondition`, `PreconditionRaises`, `PreconditionsDone` | the loop of preconditions; `except Exception` |
| `ExecuteStep`, `StepsDone` | the loop of steps with `stop_on_fail` |
| `CleanupStep` | the finally clause |
| `Conclude` | the outcome, or the exception that waited for the finally clause |
| `Interrupt` | Ctrl-C: CancelledError at any await |

`TestCommand` puts commands around it, one after the other: fingerprint and load
(`TestAll`, `LastFailed`), `Connected`, the suite (`Run`), the two halves of the write
(`SaveBegins`, `SaveEnds`), a failure or a kill anywhere (`CommandFails`), edits of the
PLC sources anywhere (`EditSources`). `reported` is a history variable: the verdict
every scenario had in the last command that ran it and completed.

Left out: captured values, the YAML reader, the outcome WARNING (no executor of the
repository returns it), the wording of refusals, two commands at once, and scenarios
that share a name (the file is keyed by name; `Scenarios` is the set of names).

### Timers

One block per behaviour, of any of the six classes. `SetInputs`, `Advance`, `Execute` and
`Reset` are the calls of the harness, in any order. The code stamps a moment under a
name of its own in each class; it is `mark` here. `calls` records what each call saw
and answered, `onTime` how long IN of a TONR has been TRUE since the last R. Time is
counted in whole units; the rounding of float seconds is left out.

### Layout

The recursive descent as a machine: `work` is what the Python call stack still has to
do, and one step is one call of a placing function (`PlaceBool`, `PlaceScalar`,
`PlaceStruct`, `PlaceArray`, `PlaceUdt`), the return from a container (`CloseContainer`) or
from the whole (`Return`). `Compute` is `compute_layout` with its two refusals. A path is a
sequence of positions. Declared types are records; their text and the rebuilding of
nested structs from parent paths (`_tree`) are left out.

## 3. Fairness and assumptions

- `WF(PLCScan)`: the OB that calls the FUNCTION is cyclic. `WF(RoundTrip(c))`: asyncua
  answers a request or raises, and the event loop resumes the task. `WF(DeadlinePasses)`:
  time goes on. No fairness is assumed for calls, failures or restarts.
- `OpcUaClient!FairSpec`: `WF(Resume(t))`, every await is answered or raises.
- One call of the FUNCTION is atomic with regard to the OPC UA accesses of clients: a
  read or a write falls between two calls. Nothing is assumed about the cycles in which
  different reads of one call fall. An access inside a call of the FUNCTION would be a
  finer interleaving than the models have.
- The counters do not wrap: `MaxCycles` below 2^31, that is 248 days of 10 ms cycles
  in one run.
- The lock is FIFO, as `asyncio.Lock` documents.
- The other modules state no fairness: they have no liveness property. Their runs end
  at their bounds (or at the end of the layout), hence `CHECK_DEADLOCK FALSE`; so do those
  of the recorder and the client, where calls, runs and cycles are bounded.

## 4. Runs

| Run | Instance | Question | Result |
|---|---|---|---|
| `recorder` | 3 cells, both modes, decimation 0 and 2, 8 cycles per run, 2 runs, 1 restart | Does the FUNCTION keep its buffer right under any client? | holds, 14 688 states |
| `trace_client` | 1 client, 3 cells, chunks of 2, 5 cycles, 2 runs, 1 restart, 1 failing round trip | Is what is fetched after `stop()` exact, and does every call end? | holds, 52 296 states |
| `two_trace_clients` | 2 clients (symmetric), ring of 2 cells, 2 runs, 3 cycles | Is a fetch that nothing disturbed exact with a second client around? | holds, 306 121 states |
| `opcua_faults` | 2 tasks that may call anything, all eight faults, 2 sessions, 2 subscriptions | Does every call return, are registered subscriptions served, which are left on the server? | holds, 118 303 states |
| `opcua_owner` | 1 task that may call anything, 1 that may only connect; `refuse`, `lose`, `reject`, `badNode`, `undeleted`; 3 sessions, 3 subscriptions | With a single owner, is a session left open that the client does not hold? | holds, 39 134 states |
| `opcua_disconnect_race` | 1 task connects and disconnects, 2 subscribe and unsubscribe, no fault | Does `disconnect()` end the session? | violated |
| `sim_service` | 3 requests (symmetric), 2 servers (symmetric), 2 objects, 2 subscriptions on each server, lost sessions, every await may raise | Is every tab served, what does a closed one leave behind, what can leak? | holds, 2.23 million states |
| `sim_test` | 3 scenarios (one with a snapshot, an unregistered cleanup step and a restore; one with a precondition; one skipped), setup of a value, a step and a snapshot, 2 source contents, 3 commands | Are cleanup, verdicts, snapshots and the results file right through failures, Ctrl-C, kills and edits? | holds, 2.85 million states |
| `sim_test_untold` | the same, 1 command | Does PASSED mean that the steps were executed? | violated |
| `timers` | six blocks, PT 0 and 2, advances 1 and 2, clock up to 3, 4 calls | Is the output the one the history of the input asks for? | holds, 2.4 million states |
| `timers_tonr` | TONR only | Does ET count the time IN has been TRUE? | violated |
| `layout` | every block of up to 3 fields out of 13 types, typed and refused blocks | Are all layouts free of overlaps, aligned and minimal? | holds, 33 898 states |

Why the bounds are enough:

- Three cells are the least depth with a first, a middle and a last cell; eight cycles
  go around the ring more than twice undecimated. Two runs let a new run follow one
  that wrapped, one that stopped half way and one that filled its buffer; decimation 0
  exercises the clamp and 2 a countdown that skips. The proofs of section 5 cover every
  other value of these constants.
- Chunks of two over three cells give a full and a partial chunk. One failure can fall
  on any round trip; a restart in any place.
- Two clients on a ring of two cells already give every order of two calls'
  round trips. `MaxRuns` bounds the `start` calls of a single client, so that in the run
  with liveness no start edge waits for a bound.
- Two sessions are an old and a new one; the third in `opcua_owner` is for the retry
  after a failed connect. Two subscriptions are the one being deleted and the one that
  comes or goes meanwhile.
- `MaxCycles` stops the clock of a run that is still recording: in `trace_client` a
  fair behaviour may then sit at the last cycle of a run. `CallsReturn` and `StopStops`
  do not use it: the polls end by their deadline, and a low `start` is seen by
  `ScanIdle`, which has no bound.

- Three requests in `sim_service` are a tab, a request that replaces the client and one that
  disconnects late, or the tabs of two clients and a request between them. Two objects are the
  one replaced and the one held, of the same server or of two; two subscriptions per
  server are the one being deleted and the one that comes or goes meanwhile, and with two
  servers they give equal ids. The proofs cover any number.
- Three commands in `sim_test` are the run that fills the file, the one that is killed or
  overtaken by an edit, and the `--last-failed` that relies on what is left. Three scenarios
  have every kind of step and every outcome; the first of them fails in time to spoil
  the second.
- Four calls in `timers` give a rise, a fall, a second rise and the call after it; PT 2 is met,
  missed and passed by advances of 1 and 2, PT 0 is the degenerate preset.
- In `layout` two fields already exercise every pair of neighbours, three a container
  between two scalars. The types have a size of each kind: bit, byte, word, odd string, nine
  Bools, nested and empty containers, an unknown name.

### The properties

- `IndexInBounds`, `OccupancyIsKnown`, `RingHoldsNewest`: the state of
  the ring at every moment. `SamplesSpaced`, `OneShotNeverOverwrites`: what one scan may
  do. `ImplementsWindow`: the refinement. `IInv`: the invariant of the proofs.
- `FetchAfterStopIsExact` and `StopIsSettled` are two halves of one argument: once
  `stop()` has returned, the block is settled until a client raises `start`; hence the
  fetch is exact. `UnwrappedFetchIsPrefix` says how much of a fetch beside a running
  recorder can be relied on: all of it, until the ring wraps. `QuietFetchIsExact` says
  the only thing that falsifies a fetch is a change during the fetch.
- `RegisteredIsServed`, `CallsReturn`, `NoOrphans`: hold under any calls, all faults and cancellations.
  A task that kept the lock would leave the others' calls waiting for ever, which
  `CallsReturn` excludes. `NoOrphans` is the account of the subscriptions that stay in a session
  that is up, unknown to its client: only those whose own `subscribe()` raised or was cancelled
  after it had created them (a malformed id, `client.py:697`; rejected items, line 698), or whose
  deletion raised or was cancelled (line 715). These exist, and are listed under the hazards; what the
  property excludes is that calls which succeed lose one to each other.
- `NoSessionLeaks` holds with a single owner only (finding 1 shows what another task can do), and
  without late namespace reads, failing closes and cancellations: after each of these the
  code drops a client whose session may be open.

- `StreamsAreServed`: what a tab may rely on, through reconnections. It has one exception, which
  the code has too: `stop_monitoring()` takes the id of a tab to the client of now
  (`services.py:204`), and after a reconnection to *another* server (`services.py:75`) the
  same id may be there another tab's. With one server there is none (`OneServerServesAll`, section 5).
- `NoOrphanStreams`: what stays in the session of the client held when tabs come and go. A tab that ends
  as it should leaves nothing. What is left is from a call that was cut short: as in
  `NoOrphans`, and by a tab that is closed before its generator has run at all, whose finally clause
  never runs (`routes.py:210`).
- `LeaksAreKnown`: the account of the sessions left open that nobody can end. The code has five ways: a second
  `connect()` replaces the object (`services.py:77`), a `disconnect()` that finishes late lets another one's object
  go (`services.py:84`), the namespaces of an open session are not read (`client.py:249`),
  a tab comes or goes during the loop of `disconnect()` (`client.py:263`, finding 1 under the service),
  and a close that raises (`client.py:272`). The property shows that no interleaving of requests
  adds a sixth.
- `CleanupGuarantee`, `NothingAfterAFailure`, `SnapshotsAreOwn`, `VerdictsAreTrue`: one scenario,
  whatever happens in it. A cleanup is cut short only by a Ctrl-C of its own; one that came during the
  steps does not excuse it. `SnapshotsAreOwn` is about the steps and the cleanup of a
  scenario: neither what an earlier scenario read nor what a snapshot step of the setup read is
  there to be restored. A restore in the setup itself comes before the store is
  emptied (`runner.py:284`) and may write back what the scenario before has read. `CacheIsHistory` and `LeftOutPassed`: many commands; the first is
  about the file at rest, the second about the decision taken from it.
- `OnDelayIsExact`, `OffDelayIsExact`: the output as a function of the whole history of
  the input; they do not mention the memory of the block. `PulseIsBounded` and
  `PulseRunsOut` are the two sides of a pulse: not longer, not shorter. `RetentiveHolds` is
  what is left of TONR without finding 2.
- `LeavesDisjoint`, `EvenStarts`, `PaddingIsMinimal`, `ContainersHold`: what a reader of the
  addresses relies on, stated of the members alone and not of the cursor (but for the
  gap behind the last one).

### Findings

1. `opcua_disconnect_race`: a `subscribe()` or `unsubscribe()` during the deletions of
   `disconnect()` makes the iteration raise; the session is then dropped without
   being closed (`plc-core/.../opcua/client.py:258-278`). Without it a `disconnect()` that returns leaves
   its session open only when the close itself raised (`DisconnectEndsUnlessItRaised`, section 5),
   and it needs a second owner (`DisconnectEndsIt`). `SimService` has the same path (`LoopRaises`): two browser
   tabs are enough.
2. `timers_tonr`: TONR adds the time since the call before whenever IN is TRUE *now*
   (`timers.py:350-352`): the scan of a rising edge counts time in which IN was FALSE. Its
   docstring (`timers.py:313`) says ET accumulates the time IN has been TRUE. The harness advances
   the clock before it sets the inputs (`harness.py:375-384`), so the time before the
   step that raises IN is counted as well.
3. `sim_test_untold`: a precondition that raises an exception without text, such as a
   `TimeoutError`, leaves `error_message` empty; the outcome rule tests the text
   (`runner.py:334`, `runner.py:347`), so a scenario with no step executed is PASSED, and
   `--last-failed` leaves it out from then on.

### Limits of the web service

No document excludes or promises these; whoever runs the service has to know them:

- The five ways of `LeaksAreKnown` leave a session on the server until it times out there.
- A tab whose items the server rejects, whose node id is malformed, whose deletion fails, or that is closed
  before its stream begins leaves a subscription in the session, until that ends.
- After a reconnection to another server a tab of the old one, when it closes, may cancel
  the subscription of a tab of the new one that has the same id.

### Limits of the trace client

The models of the trace show three cases that no document excludes or promises, and
that a caller has to know:

- After a one-shot run has ended by itself, `stop()` lowers `start` and returns at once,
  since `recording` is already FALSE. A `start()` right behind it raises `start` before the
  next scan; the FUNCTION sees no edge and `start()` times out. Wait for one cycle.
- `start()` on a recording block writes TRUE over TRUE; its wait is satisfied by the run
  in progress and it reports success.
- `fetch()` does not look at `recording`; beside a ring that has wrapped its rows may be out of
  order. `FetchAfterStopIsExact`, `UnwrappedFetchIsPrefix` and `QuietFetchIsExact` say when they are not.

## 5. Proofs

Each theorem holds for every value of the constants, under the assumptions that the
modules name; those are types and signs only. Eight modules hold the proofs.

| Module | Theorems | State |
|---|---|---|
| `TraceRecorderProofs` | `Invariance`, `TypeCorrect`, `NoIndexOverrun`, `ReaderKnowsOccupancy`, `ReaderGetsNewest`, `Spacing`, `OneShotKeepsAll` | `IInv`, `TypeOK`, `IndexInBounds`, `OccupancyIsKnown`, `RingHoldsNewest`, `SamplesSpaced`, `OneShotNeverOverwrites` |
| `TraceRefinement` | `Refinement`, `WindowUnderClients` | `ImplementsWindow`, of the block alone and under the clients |
| `TraceClientProofs` | `ClientInvariance`, `RecorderUnderClients`, `ClientTypeCorrect`, `StopSettles`, `FetchAfterStopCorrect`, `QuietFetchCorrect`, `PrefixInvariance`, `UnwrappedFetchCorrect`, `ClientsAreEnvironment`, `SpacingUnderClients`, `OneShotUnderClients`, `CallsAreBounded` | `CInv`, `RingHoldsNewest` under the clients, `ClientTypeOK`, `StopIsSettled`, `FetchAfterStopIsExact`, `QuietFetchIsExact`, `PInv`, `UnwrappedFetchIsPrefix`, `CSpec => Spec`, `SamplesSpaced` and `OneShotNeverOverwrites` under the clients, `RestIsBounded`, `CallsAdvance` |
| `OpcUaClientProofs` | `LifeInvariance`, `RegisteredAreServed`, `NothingIsOrphaned`, `NoSessionIsLeft`, `LockIsNeverLost`, `DisconnectEndsUnlessItRaised`, `DisconnectEndsIt` | `LifeInv`, `RegisteredIsServed`, `NoOrphans`, `NoSessionLeaks` for one owner, `LockIsTheirs`, `DisconnectEndsOrRaises`, `DisconnectEndsSession` for one owner |
| `SimServiceProofs` | `EveryTabIsServed`, `OneServerServesAll`, `ClosedTabsCostNothing`, `NoOtherLeak` | `StreamsAreServed`, `ServedAlways` for one server, `NoOrphanStreams`, `LeaksAreKnown` |
| `TestCommandProofs` | `CommandTypeCorrect`, `FailureStopsTheSteps`, `SnapshotsNeverLeak`, `CacheIsTrue`, `LastFailedIsComplete`, `CleanupIsGuaranteed`, `VerdictsTellTheTruth` | `TypeOK`, `NothingAfterAFailure`, `SnapshotsAreOwn`, `CacheIsHistory`, `LeftOutPassed`, `CleanupGuarantee`, `VerdictsAreTrue` |
| `TimersProofs` | `TimersTypeCorrect`, `OnDelayCorrect`, `OffDelayCorrect`, `PulseCorrect`, `PulseCompletes`, `RetentiveKeeps`, `EdgesCorrect` | `TypeOK`, `OnDelayIsExact`, `OffDelayIsExact`, `PulseIsBounded`, `PulseRunsOut`, `RetentiveHolds`, `EdgesAreExact` |
| `LayoutProofs` | `LayoutTypeCorrect`, `ScalarsNeverOverlap`, `WordsAreAligned`, `NoWordIsWasted`, `NestInvariance`, `ContainersHoldTheirs`, `TotalIsRight` | `TypeOK`, `LeavesDisjoint`, `EvenStarts`, `PaddingIsMinimal`, `PathInv` and `HoldInv`, `ContainersHold`, `TotalIsTight` |

### The recorder

The inductive invariant `IInv` is checked by TLC in `recorder` as well. Its parts:

- `TypeOK`, `IndexInBounds`, `OccupancyIsKnown`, `HistoryInOrder`: the properties
  themselves; each needs the others (the type of `writeIdx` follows from
  `IndexInBounds`, the bound at the last cell from `OccupancyIsKnown`).
- `CellContents`: which sample of the history sits in which cell. `RingHoldsNewest`
  talks about the reader's order, which a scan rotates; it is not inductive. Cell by
  cell the effect of a scan is local: the cell at `writeIdx` changes, and what was the
  lap before becomes the current lap below it.
- `CellsPaired`: the two arrays agree in every occupied cell.
- `Phase`: the countdown is never 0 while recording, and the next sample is due when
  the countdown says: last cycle + `stride` = `cycleCounter` + `decCounter`. Without it
  `SamplesSpaced` and the order of the history are not inductive.

`EdgeStep` and `LaterStep` rewrite a sampling scan into plain equations, for a start
edge and for a later sample; the lemma of each action (`ClientWriteInv`, `ScanIdleInv`,
`ScanSkipInv`, `EdgeInv`, `LaterInv`, ...) then proves one conjunct of `IInv` at a time.
`ReaderOrder` derives the reader's view from the cells.

The refinement goes through `WindowShape`: in a state of the invariant the window *is*
the last min(Len(history), Depth) samples of the history. A start edge is then `Arm`, a
later sample `Take` (the proof compares the slid window with the new one position by
position, with and without a full buffer), a stop `Halt`, a restart `Reset`, and a
control write, a decimated cycle or an idle scan a stutter.

### The trace client

A fetch takes many round trips and `FetchAfterStopIsExact` speaks of its last one only; the
invariant `CInv` says what has been gathered on the way. It carries `IInv` of the recorder
along (the writes of a client are a case of `ClientWrite`, `PLCScan` and `PLCRestart` are steps
of the recorder) and adds, for each client:

- `InCall`, `ReadSoFar`: which call a round trip belongs to, and how many cells it has read;
  this is where the chunks must meet (`ChunkRead`) and end at the span.
- `ReadIsNow`: as long as the block was not changed within the call, the fields and cells
  read so far are those the block holds now, although they were read in different cycles.
- `Trusted`: between the write of FALSE and the end of `stop()`, and after it, `start` is low,
  and from the poll that matched on, `recording` too; hence no scan disturbs a fetch.
- `AnswerIsExact`: the rows stay exact while the stop stands, because nothing is recorded.

`RowsExact` then reads the rows off `ReaderOrder`. Steps of other clients, and of the PLC, are
one lemma each (`OthersKeep`, `DisturbKeeps`), so that the proof of an action is about the
client that takes it.

`UnwrappedFetchIsPrefix` is about a fetch that *is* disturbed, so `ReadIsNow` says nothing of
it. `PInv` replaces it, for a client whose `start()` or `stop()` stands:

- `NoEdge` and `StartSeen`: no rising edge of `start` waits for the block, since every write of
  TRUE voids all calls that stand; so no scan begins a new run under the reader.
- `ReadStillHolds`: until the ring wraps, the status the fetch read is at or behind that of now,
  and every cell below the `writeIdx` it read has not changed since. `ScanOnlyAdds` is the reason:
  such a scan writes the cell *at* `writeIdx`, or none.
- `AnswerIsPrefix`: the rows answered stay the first samples of the run.

The recorder was specified alone, with an environment (`ClientWrite`) that writes any control at any
moment. `ClientsAreEnvironment` closes that: under `CInv` each step of `TraceClient` is a step
of the recorder or a stutter of its variables, so `CSpec => Spec`. Whatever is proved of the
block alone, the refinement of the sliding window included, then holds of the block the clients drive
(`SpacingUnderClients`, `OneShotUnderClients`, `WindowUnderClients`), for free.

`CallsAreBounded` is the part of `CallsReturn` that needs no fairness. `Rest` counts what a call
has before it: a write is one, the status four, each array at most `Depth`. No step of anybody
raises it, and a round trip of the call lowers it, polls that do not match excepted, which
change nothing. A chunk lowers it because `FetchChunk` is positive (`ChunkGrows`). So a call
cannot be kept going by other clients or by a recorder that writes under it.

### The OPC UA client

`LifeInv` is about the hand-over of the lock and of subscriptions. `Exclusion`: a task between
two awaits of `connect()` or `disconnect()` is at the head of the queue, also when others
give up waiting behind it. `Opening`: a session that is being opened owns nothing yet.
`InHand`: an id that was popped, or not yet stored, is in no other hands; without it a
second `subscribe()` could store what an `unsubscribe()` is deleting. `Served` is
`RegisteredIsServed` with the excuse of a loop in progress, which ends with the client dropped.

`NothingIsOrphaned` has no hypothesis: any number of tasks that may call anything, any faults. What is left
behind by calls that were cut short is in `abandoned`; of everything else the
invariant knows who has it in hand. `NoSessionIsLeft` has two, and needs them: one
task owns everything but `connect()`, because of finding 1; and `late`, `unclosed` and `cancel` are
excluded, each of which drops a client whose session may be open.

`LockIsNeverLost` is the safety part of `CallsReturn`: the tasks in the queue of the lock are exactly
those inside `connect()` or `disconnect()`, each once, in whatever order calls, faults and cancellations
come. With it the two theorems about `disconnect()` put finding 1 in its place.
`DisconnectEndsUnlessItRaised` holds for any tasks, calls, faults and cancellations: when `disconnect()`
returns, the session it held has ended, or one of two exceptions was swallowed at `client.py:272`: the dict had
changed size under its loop (line 263), or `Client.disconnect()` itself raised (line 270).
`DisconnectEndsIt` is the refuted sentence itself, `DisconnectEndsSession`,
under the hypotheses of `NoSessionIsLeft`: with a single owner nobody changes the dict meanwhile
(`LoopStands`).

### The web service

The invariant `Inv` follows a subscription from the server's answer to its deletion. `IdsAreIssued` and
`OneTabEach`: a server gives an id to one tab, so that on one server the id of an old tab names nothing of
a later one. `ConnectFirst`: the `connect()` of an object is over before anything else happens to it.
`NotInDict` and `PassedIsDeleted` say what a deletion, or a loop of deletions, still has to do, and
`StreamsAreKnown` that the subscription of an open tab is registered until it is deleted; from these a tab that
ends finds its own, and `NoOrphanStreams` is kept. `Served` is `StreamsAreServed` for every object and not
only for the one held, with the exception of `taken` (`TakenByOther`). `Accounted` carries `LeaksAreKnown`
through the time an object is on its way to a session.

`OneServerServesAll` removes the exception: when there is one server, no tab loses its stream to
another, whatever reconnections and failures come between.

### The test command

`InScript` ties the position in the script to what has been kept of it: in the steps as
many results as steps were passed, in the cleanup likewise, an error only without
results. From it the verdicts, the cleanup guarantee and the skipping follow one
action at a time. For the file, `LoadedIsHistory` says that what a command has loaded still
agrees with the history when it merges, because nobody else completes a command in
between; that is where a second command at once would break the argument.

### The timers

The properties speak of the history of calls, the block remembers a moment and two bits.
The invariant says what those are of the history: `MemoryIsLast` (the last input and
answer), `OnDelayMemory`, `OffDelayMemory`, `PulseMemory` (the call the stretch or the pulse
began with). `StretchGrows` and `PulseGrows` say how a stretch continues with one more call.

### The layout

`CursorIsBehind` (everything emitted ends before the cursor) gives `LeavesDisjoint`.
`PaddingIsMinimal` needs more than its own words: containers may be opened and closed any
number of times without a scalar between them, and each time the cursor is aligned.
`CursorIsNear` says that all of that never takes it past the word boundary after the
last scalar (`CursorMoves`: alignment does not pass a boundary).

`ContainersHold` is about paths as well as addresses: a member is inside a container when its
path runs through it. The call stack visits the declarations in preorder, and `PathInv` says
so without recursion, of the tasks left and the members placed:

- `TasksApart`, `TasksFresh`, `MembersFresh`: no task is inside another one, and nothing has been placed
  before the container it is in.
- `TasksInside`: the tasks above a `Close` are those inside its container, the ones below are
  not; `MembersInside`: all that was placed since a container was opened is in it.
- `TasksOutside`: nothing is left to place in a container that was closed.

`HoldInv` adds the addresses: they rise with the slots (`AddressesRise`), and what was placed in a
closed container ends before its end, what came later starts behind it (`ClosedHold`). Paths
grow by one element per level (`PrefixOfChild`), which is all the induction over the nesting there is:
the invariant carries it, one step of the stack at a time.

`TotalIsRight` is rule 7 of `rules.py`: when `layout_fields` returns, every container is
closed and below the cursor, and the total is the end of the last scalar up to the next word. A block
without scalars takes no room, however many empty containers it nests (`NothingTaken`).

### Only model-checked

Every invariant and every action property of a passing run is stated by a theorem. What remains
with TLC is liveness, which is beyond TLAPS as `ENABLED` is: `CallsReturn` of the trace client and of the
OPC UA client, and `StopStops`. `CallsAreBounded` and `LockIsNeverLost` are what can be said of the first two
without fairness. The findings are counterexamples of TLC and have no proof by nature.

## 6. Not modelled, and why

- Parsers, analysers, exporters, the transpiler and the code generators of `plc-code`, which
  are most of the repository by lines: functions from text to text. Their correctness is
  about languages; a model that can be checked would restate them.
- Modbus and IO-Link: one round trip per call, no state across calls. Configuration,
  reports, web pages, CLIs other than `plc sim test`: no state.
- The tag resolver: one task builds a table and stores it; nothing interleaves.
- `plc-net`: counters behind one lock. The display reads and resets them in two critical
  sections, so packets in between are missing from the rates; nothing is decided from
  the rates.
- `plc-sup`: polling loops without shared state.
- `SubscriptionHandler`: a bounded queue that drops when full; no document promises that a
  listener sees every value.
- `_tree` of the layout, captured values of the runner, and two `plc sim test` commands at once.

Where the project could go on: a second command running beside the first in `TestCommand`, and the
staleness rules of the tag resolver.
