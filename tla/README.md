# TLA+ models of sippycup

sippycup runs authorised SIP/VoIP and WebRTC assessments: it compiles a reviewed
manifest into a frozen plan, runs the plan step by step under hard limits, captures
packets, drives chaos impairments and load controllers, and packs the evidence.
This directory holds TLA+ models of its control logic, the TLC runs that check them
on small instances, and TLAPS proofs about them for every instance.

## 1. Inventory

| Component (source) | State | Operations | Interacts with | Hard behaviours | What makes it correct |
|---|---|---|---|---|---|
| Live MCP controller (`sippycup_mcp/capability.py`, `live_tools.py`) | semaphore per server, SQLite `consumed` and `decisions`, frozen directories | prepare, preflight, one-call | several servers share one store; runs the preflight adapter and the one-call helper | racing claims, crashes between claim and send, waiting past expiry | one attempt per nonce, no attempt without a durable claim, truthful results |
| Campaign supervisor (`sippycup/runtime.py`) | current child and group, cancel signal, cleanup flag, rollback registry, event stream | run, run step, terminate group, cleanup, request cancel | signals, capture watchdog (`external_stop`), step processes | signals and deadlines against process exits, failing event writes, helpers that stay | nothing survives, one group at a time, event stream tells the run, rollbacks in reverse |
| Capture-to-report lifecycle (`sippycup/integration.py`) | capture process, watchdog thread, run directory, handlers | credentials, capture start/stop, watchdog, execute | supervisor, tcpdump, evidence writer | watchdog thread against the end of the run, capture death, failing report | ceilings stop the traffic, a result is written, a ceiling is never reported as success |
| Chaos lifecycle (`sippycup_chaos/lifecycle.py`) | owned namespaces, veths, qdiscs, phase, cleanup stack | apply, run, restore, cleanup, cancel | `ip`/`tc`, traffic process group | cancellation at any step, failing rollback, foreign resources | owned resources removed in reverse, traffic gone first, foreign ones untouched |
| Envelope controller (`sippycup/envelope.py`) | level, budgets, priorities | ramp, hold, pause, stop, resume, simulate | samples of calls and errors | limit edges, clipped deadlines, u64 overflow | never above the ceiling, stop beats pause beats resume beats ramp |
| Journal (`sippycup_workbench/journal.py`) | engagement file, JSONL hash chain | initialise, append, read, render | several CLI processes, crashes | torn writes, races of two appenders | the chain verifies, an append is durable or absent |
| Envelope observation and recovery (`sippycup/envelope_analysis.py`, `envelope_recovery.py`) | baseline, streaks, history, canary attempts | fuse, analyse, prove recovery | health adapter process, ramp | stale and missing facts, four deadlines that cut each other | a ramp stops at the sample whose evidence says so; recovery is proved by a timely canary |
| Plan compiler (`sippycup/campaign.py`, `runtime.py`) | manifest, plan file, run | compile, write, load, verify, resolve secrets, write output sets | DNS, operator's editor, racing commands | manifest, DNS or plan change between two steps; an output exists | what runs is what the manifest authorises; a failed set leaves nothing |
| Covering and matrix compiler (`sippycup/covering.py`, `matrix_compile.py`) | rows, uncovered tuples, conflict core | validate, cover, reduce conflict, sequence, select | plan compiler | pruned search, budgets met half-way | nothing coverable is uncovered, conflicts are minimal, the cut is honest |
| Chaos profiles and topology (`sippycup_chaos/topology.py`, `profiles.py`) | topology plan, impairment plan, interfaces | detect, plan, compile, recompile, apply | host, operator's editor, kernel | plans and host change between planning and applying, a command fails | only the reviewed targets are impaired, and exactly as asked |
| Media sender and echo (`sippycup_media`) | packet plan, socket, echo counters | load session, plan, send, echo | UDP | late, doubled and lost echoes, re-INVITEs | a plan is exact, a passed send was echoed packet by packet |
| Evidence writer and packs (`sippycup/evidence.py`, `evidence_pack.py`) | inventory, pack, signature, export | inventory, pack, verify, export | run directory still in use, other creators | files change between hash and privacy scan, two creators | a verified pack is its inventory, an export shows nothing blocked |
| Mission control (`sippycup_tui`) | bounded buffer, reducer state, tokens, receipts | ingest, drain, reduce, confirm, invoke, close | producer thread, campaign API | a full buffer, late events, retried and failing calls | every event is shown or counted, no action without a fresh confirmation |
| Torture runner and minimiser (`sippycup_torture`) | cases, failures, action threads; reproducer and its dimensions | inject, classify, canary, attest; remove, reduce | provider callbacks in daemon threads | a deadline passes and the thread goes on | no mutation without an answering canary; a result was reproduced and is minimal |
| Dialog and media oracles (`sippycup_oracle`) | transactions, legs, streams | reconstruct, assign, measure, judge | captured records | loss, truncation, repetition, reordering, wrap of 16-bit numbers | verdicts follow what was captured |
| WebRTC peer (`webrtc-peer`, Go) | nonces, connection counter, report; candidates, media, RTCP readers | serve, check; negotiate, restart, send, close | Pion's callbacks, goroutines, relay | a nonce seen again while its goroutine closes, late candidates, lost packets | the verdict is the adapter's; a pass means a whole call and nothing left open |
| Resilience validators (`sippycup_resilience`), WebRTC validators (`sippycup_webrtc`), web-security contracts, learned diff | none | judge a record | files | numeric edges | not modelled: stateless arithmetic over one document |
| One-call composition (`sippycup_mcp/one_call.py`, `security.py`) | subprocess | run helper | controller, campaign | timeout kills one group only | not modelled |
| MCP read-only server (`sippycup_mcp/server.py`), workbench text tools, command-line wrappers (`bin`, `tools`) | none | start or read the above | all | none of their own | not modelled |

How they interact. A reviewed manifest is compiled into a frozen campaign plan or a
frozen envelope plan. `execute_campaign` (capture-to-report) starts the capture and its
watchdog, probes the destinations and hands the plan to the campaign supervisor, which
polls the watchdog through `external_stop`; afterwards the evidence writer hashes the
run directory. The chaos lifecycle wraps one traffic child in a topology it owns. A live
MCP server claims a capability in the store it shares with other servers and then starts
the one-call helper, which is itself a capture-to-report run. The TUI only watches event
streams and starts the command-line programs. Everything else judges recorded files.

## 2. Modules

| Module | Models | State and actions against the code |
|---|---|---|
| `AuthorityLedger` | the abstract promise of a capability | authority is spent once, by one request, and only that request may use it |
| `LiveMcp` | `live_tools.py`, `capability.py` | one action per step of `_invoke` a crash, a clock tick or another server can separate: gate, validation, `BEGIN IMMEDIATE`, claim, commit, freeze, second expiry check, adapter, result; `Verdict` is what validation answers to the call's one defect, in the order of the code's checks. `holder`/`consumedAt` are the `consumed` table, `audit` the `decisions` table, `dbLock` SQLite's write lock, `gate` the semaphore |
| `Campaign` | the abstract promise of a run | steps one at a time and in order, nothing alive between two of them or at the end |
| `CampaignSupervisor` | `CampaignSupervisor` of `runtime.py` | the supervisor's thread (`pc`) against processes that fork, detach, close their pipes and exit; `after` is where a termination returns to, `seen` the two end-of-stream markers, `log` the event stream |
| `CaptureToReport` | `execute_campaign` and `CaptureWatchdog` of `integration.py` | main thread against watchdog, tcpdump, packets and one signal; `handler` says whose signal handler is installed, so a signal sets `outer` or `inner` |
| `ChaosLifecycle` | `ChaosLifecycle.run` of `lifecycle.py` | `Plan` is the list of commands of `_apply`; `world`, `moved` and `up` are the machine, `known`, `sealed` and `cleanups` what the object remembers of it. A query is answered, or fails about one end or both (`Verdict(o, lost)`); `assumed` is a history of the links taken for gone when it failed. `"alike"` is somebody else's qdisc of the kind and handle ours would have |
| `EnvelopeController` | `compile_envelope_plan`, `simulate_envelope_plan` of `envelope.py` | `Lower`, `Compile` (one action per level), then the loop of the simulator: commands of one timestamp, the next level or the end |
| `Journal` | `initialize`, `append` and `verify` of `journal.py` | each command is a process whose `pc` is where it stands; `writer` and `readers` are the flock, `lines` the file as every process sees it, `synced` how much of it survives a power failure, `entry` the line a process has composed, `appended` the lines as `append` had left them when it returned, whole or cut short. A digest is the list of what it covers, `end` the offset a line reaches in the file |
| `EnvelopeObservation` | `envelope_analysis.py`, `envelope_recovery.py` | one sample or one canary per action; a fact is a value, missing or stale, and the adapter's answer has the age it had |
| `PlanCompiler` | `compile_plan` and its callers in `campaign.py`, `runtime._validate_plan` | `zone` is DNS, a network or a matrix transport is a value with its text, since the planner lists texts and the runtime compares values; the size of a plan is that of its steps; `file` is the plan as written, `written` as compiled; the planner resolves target by target, a runner loads and recompiles, and the operator edits between any two steps |
| `OutputSet` | `_write_outputs_atomic` | per writer (`turn`): stage, link one by one, undo, clean, or be killed; a link also fails for reasons other than that the file exists |
| `MatrixCompiler` | `_validate_matrix`, `covering.py`, `matrix_compile.py` | one row, one action sequence or one removal from the conflict per action; ties a hash breaks are choices |
| `ChaosPlan` | `topology.py`, `profiles.py`, `validate_impairment_plan`, `_apply_impairment` | plan, compile, start, apply command by command; `Edited` and `Injected` are edits of the files, `Ordered` is what the digest of the targets sees of their order, `HostChanges` of the machine; `device` is what the kernel made of the commands |
| `ChaosMeasurement` | `_measure_pair` and `measure_observations` of `lifecycle.py` | one direction: the packets captured before the impairment are paired with those behind it by identity. `Deliver` is the link, which loses, delays, repeats, reorders and corrupts; then the counts of pairs, losses, copies and reorderings, and the delays that are believed when the two clocks agree |
| `MediaSender` | `rtp.py`, `echo.py` | `Plan` is computed from the session; then bind, send, receive or time out against a fixture and a network that loses, delays, doubles and reorders |
| `MissionControl` | `sippycup_tui` | producer, interface thread and other clients; the campaign's calls raise before or after they take effect |
| `TortureRunner`, `Minimizer` | `runner.py`, `minimize.py` | the runner and one thread per action, which outlives its deadline; the minimiser's levels, rounds and trials. A message is the set of the positions of the source that are left, a span a set of positions |
| `EvidencePack` | `evidence.py`, `evidence_pack.py` | inventory file by file, pack, sign, verify, export, each a command of its own; a hash is the content |
| `Signaling`, `PeerCall` | `signaling.go`, `main.go`, `relay.go` | the client's checks against a goroutine per connection; the call's steps against library callbacks, forwarders and readers |
| `DialogOracle`, `MediaOracle` | `dialogs.py`, `media.py` | pure operators: transactions, legs, assignment of streams, offer/answer state, metrics, verdicts |
| `ObservedCall` | a capture of a call | messages in order, up to two lost, cut, repeated or overtaken; a ghost keeps the numbers before they are cut to 16 bits |
| `LiveMcpProofs`, `CampaignSupervisorProofs`, `CaptureToReportProofs`, `ChaosLifecycleProofs`, `EnvelopeControllerProofs`, `JournalProofs` | the theorems of section 5 | each extends the module of its name |
| `BenchProofs`, `PeersProofs` | the theorems of section 5 about mission control, evidence packs, the torture runner, the minimiser, output sets and chaos plans; and about the signaling fixture and the bounded call | each extends the `MC` module whose run checks the property |
| `MC*` | instances for TLC | `MCPeers`, `MCBench` and `MCPlanning` each hold several components that do not interact: `subject` says which one a behaviour is about, and the others stand still in one state. `MCBench` has mission control, the torture runner, the minimiser, evidence packs, `OutputSet` and `ChaosPlan`; `MCPlanning` the ramps, `PlanCompiler`, `MatrixCompiler`, `MediaSender` and `ChaosMeasurement` |

`CaptureToReport` uses the supervisor by its contract (stop conditions are tested before
each step and while it runs) and does not instantiate `CampaignSupervisor`: the product of
both would add process groups, which the properties of the former do not mention.

## 3. Runs

| Run (cfg) | Question | Bounds and why they are enough |
|---|---|---|
| live_calls (`LiveMcpCalls`) | Is every attempt authorised and timely, and does no result understate what was sent? | Two calls in two servers on one store; three grants of which two share a nonce under different actions; each kind of defect; clock 0..3 with windows that open and close inside it, skew 1. Two calls meet every pair of steps of two servers |
| live_replay (`LiveMcpReplay`) | Is a nonce used once, its directory free, `AuthorityLedger` implemented, and does every call end? | Three calls on one nonce, two behind one gate, none defective (a defect ends a call within two steps, `live_calls` has each): a loser may retry after the winner, its server or its lock is gone |
| campaign_order (`CampaignOrder`) | Do groups, stops, events and rollbacks keep their order, is `Campaign` implemented, and does the run end? | Two paced calls (two is the least with a "between"), one helper that forks, closes pipes and detaches, clock 0..4 so that each deadline (step 1, campaign 3, pace 2, grace 1) lies inside |
| capture_to_report (`CaptureToReport`) | Is no loss, violation or heeded signal recorded as success, and is the capture final before it is hashed? | Two destinations and two steps ("first", "later"), ceiling 2 with three packets, one over |
| chaos_runs (`ChaosRuns`) | Does cleanup start after the child, go in order, delete nothing it can tell is foreign, end, and admit what is left? | Both topologies; four failing commands or queries: one that ends the build and the three attempts of one inverse. A failed command may have had its effect. The router has two of its three namespaces; a third repeats the second |
| envelope_ramp (`EnvelopeController`) | Do plan and run stay within the review, is the plan maximal, is a level held? | Seven ramps: each dimension; budgets ample, exact, one short, and beyond Word = 40 in each operation that is checked; eight overrides, of which two raise; commands at 0..7 and at a time that overflows |
| journal_processes (`Journal`) | Do concurrent appends, kills, power failures and short writes leave a journal that verifies up to a line that was cut short, and keeps every line as it was when `append` returned? | Three processes, so that two contend after a third has died or failed; entries of 2 or 3, then 3 or 5 bytes in a file of 7, so the second fits or not and a third never does |
| peers (`Peers`) | Does the signaling verdict follow from the adapter, is a passing call whole, and do the self-tests end? | The code's own list of checks on both kinds of adapter; a call with two canary packets, direct and relayed, two late candidates for the restart |
| bench (`Bench`) | Is every event accounted for, every mutation answered, every minimum reproduced and minimal, every pack its inventory, a set of outputs all or nothing, an impairment confined to its targets? | A buffer of one, four inputs, one key used again; two cases with every failing action, of which threads go on; reproducers of four lines with repeated and nested spans; two creators, one edit during the scan; three writers whose sets overlap in different orders; eight chaos requests, one of whose target lists has another order by address than by text, on four machines with eight profiles and two edits, so that a plan can be edited and put right |
| observed_calls (`ObservedCall`) | Do the oracles reconstruct a damaged capture, and are the verdicts those of the packets? | Twenty-odd scripts: hold, authentication, retry, cancellation, forking, early media, both ways of BYE and re-INVITE; two faults; numbers wrap at 8, so that loss and overtaking straddle the wrap |
| planning (`Planning`) | Are ramps judged by their evidence, plans frozen, matrices covered, media echoed, impairments measured as they were suffered? | Two levels, four samples and five policies; a canary every 2 within a recovery deadline of 2, so that the second is due exactly at the deadline and a third is refused; twenty manifests with DNS answers that agree, widen and leave the networks, among them two texts of one network and of one transport of the matrix, generated cases that fit or not, and four and five steps of 2 bytes each, of which the plan may have 4 and 7 bytes; one edit; seven matrices of three factors; eleven sessions of one or two revisions; three measured streams under two impairments and two clock skews, with at most one corrupted packet |
| plan_output (`PlanOutput`) | Is what `plan --output` writes executable? (finding) | the same |

Four more `.cfg` files show a disagreement with a document by a counterexample;
`PROJECT.json` lists each as a finding: `CampaignHostage` (`CampaignEnds`: a helper outside
the process group that keeps the pipes holds the supervisor past every deadline),
`CaptureBacklog` (`CeilingEndsInFailure`: records the watchdog has not read when it is
stopped are never judged), `ChaosHelper` (`TrafficGoneFirst`: what the chaos child forked
outlives it) and `EnvelopeHold` (`HoldsInFull`: a resume within a hold shortens it). Run
them with `tlc -config CaptureBacklog.cfg MCCaptureToReport` and so on. Nine further
findings need another property in one of the files: `CreatedIsGone` in `ChaosHelper.cfg` (an
inverse that cannot query its link takes it for gone); `AppendedIsWhole` in `Journal.cfg`
(`append` returns for a line of which `os.write` wrote a part); `SignalStopsAdmission` in
`CaptureBacklog.cfg` (a signal between preflight and `run_plan` is not looked at until the
steps are over); in `PlanOutput.cfg` `TextsAreOneValue` (two texts of one network, or of one
transport of the matrix, are two entries of the plan and one value to `load_plan`, which
refuses it), `LongPlansRun` (the planner's limit on steps allows plans above the 8 MiB that
`load_plan` reads), `HealthyHasEvidence` (a sample without any known metric counts as
healthy) and, as a PROPERTY, `OnlyClearResets` (a missing sample resets a streak as a clear
one does); and in `Bench.cfg`, in place of `OnlyTargetsImpaired`, `OnlyFiltersSelect` (`prio
bands 3` without a `priomap` sends interactive packets that no filter matches to the
impaired band) and `OwnPlanIsValid` (the planner hashes the targets in the order of their
addresses and the compiler in the order of their text, so a plan for 10.0.0.9/32 and
10.0.0.10/32 is refused as it was written).

Runs stop where the system stops, hence `CHECK_DEADLOCK FALSE`; that they do not stop
earlier is `EveryCallEnds`, `EndsUnlessHeld`, `RunEnds`, `ControllerEnds`, `CommandsEnd`
and `SelfTestsEnd`.

What the runs show beyond "no error":

- A claim that waits for SQLite's lock until its grant has expired is spent and sends
  nothing; a nonce is never revived by a crash between claim and send, at the price of a
  spent nonce without an attempt.
- A signal lets at most one more step start and that step cannot succeed.
- A plan for two targets behind one DNS name is compiled, written and then refused by
  `run`, because its assumption is listed twice (`plan_output`).
- `append` returns for a line of which `os.write` wrote a part, and the journal can neither
  be verified nor appended to afterwards (`AppendedIsWhole`).
- An inverse takes a link it cannot query for gone and is not tried again; if the link is
  down, nothing of the report shows that it is still there (`CreatedIsGone`).
- One corrupted packet counts as one that was lost and one that was added, in the
  measurement of a chaos run: the identity that pairs packets has a digest of the payload.
- What does not hold and is stated beside what does: `OrphansPreventCompletion`,
  `VerdictsFollowOffers` and the metrics without `WrapKept` (`ObservedCall`: packets that
  overtake each other around the 16-bit wrap are miscounted), `OutcomesAreTheReproducers`
  (`Minimizer`), `LateNeverShown` (`MissionControl`) and `RestartIsFresh` (`PeerCall`: the
  counts are read while candidates of the first gathering may still come). No run lists
  them.

## 4. Fairness

- `LiveMcp`: `WF(Serve(r))` for each call. Every wait in `_invoke` is bounded (gate 0.25 s,
  store 5 s, adapter 2 s, helper 130 s). Crashes, clock ticks and arrivals are not fair.
- `CampaignSupervisor`: `WF(Supervise)` and `WF(Tick)`: the thread is scheduled and time
  passes. No process ever has to exit or close its pipes; this is why only
  `EndsUnlessHeld` holds.
- `ChaosLifecycle`: `WF(Main)`: every command and wait has a time limit.
- `EnvelopeController`: `WF(Loop)`: a single thread that waits for nobody. Commands are a
  list the caller provides and are not fair.
- `Journal`: `WF(Run(p))`: a process that can go on does, a failing or short write included,
  and the kernel grants an flock that is free. Nobody is promised a lock that others keep
  taking, but every process runs one command, so every lock is given back for good. Kills
  and power failures are not fair.
- `MCPeers`: `WF` of the client, of the connections' goroutines, of the call's runner and
  of the expiry of its deadline. Callbacks, candidates and packets are not fair: a call that
  never connects ends by its deadline.
- The other modules have no liveness property and no fairness: a planner, a torture
  provider or an echo fixture may stop for ever.

## 5. Proofs

All theorems hold for every value of the constants that satisfies the module's `ASSUME`.
Each of the eight modules proves an inductive invariant first (`IInv`; `Inv` for the chaos
lifecycle; `PackingInv`, `BufferInv`, `ControlInv`, `TortureInv`, `MinimiserInv`,
`OutputsInv` and `ChaosInv` in `BenchProofs`, `SignalingInv` and `CallInv` in
`PeersProofs`), with one lemma per action or group of actions, and derives the properties
from it. The proofs cover more than the runs: `AtMostOneAttempt`, `SpentStaysSpent`,
`NothingSurvives`, `OneGroupAtATime`, `DeathIsFailure`, `CommandsHold` and others are
theorems of their own, of which the runs check the conjunctions `NonceSpentOnce`,
`StepsAreAlone`, `FailuresAreRecorded`, `BudgetsHold` and `JournalIsWhole`, again each a
theorem.

- `LiveMcpProofs`. `IInv` says, for each call, what its position implies about the tables:
  who is past the claim holds the nonce, has a durable row and a claim older than the
  clock; who has attempted was in time. `AtMostOnce` is a consequence: two attempts on a
  nonce would both hold it. `Refinement`: the claim maps to the ledger's spend, `Launch`
  to its use, everything else stutters. `AttemptsStaySound`: an attempt was authorised and
  its claim is older than its grant's expiry, for every clock, skew and set of grants.
- `CampaignSupervisorProofs`. Where SIGKILL works at once (`Unkillable = {}`: without it
  `_terminate_group` stops waiting at `kill_deadline` and the next step may start beside
  what is left of the last): every live member of a group belongs to the
  current step, and each position that is followed by a new step is reached only over an
  empty group. `Refinement` to `Campaign` rests on it. Two further invariants carry the event
  stream and the stop. `ToldInv`: which events may be the last at each position, which may
  follow which, and that `completed` counts the successes told (`EventsAreOrdered`).
  `UndoInv`: what is registered and what has run make up the rollbacks, from both ends, and
  `LateInv`: once a signal was recorded no position is left from which a step starts, and a
  step that is under way has an outcome before it ends (`StopsStayOrderly`).
- `CaptureToReportProofs`. For each position of the main thread: whose handler is
  installed, whether capture and watchdog run, what the result can be. A capture that
  died, a violation or a signal is then followed through the assignments of `result`.
- `ChaosLifecycleProofs`. Assumed (`PlanAssumption`, as `_apply` builds its commands): a
  namespace lives on the host and is created earlier in the plan than what lives in it, and
  what can be replaced by name is tagged. `CreatedInv`: what was created and still exists is
  registered, failed, or was taken for gone unasked (`assumed`); `StackInv`: what is
  registered is so last first, above the namespaces it needs; `MovedInv`: at most one end of
  one object is elsewhere than the run recorded, because a command that failed may have had
  its effect; `ForeignInv`: somebody else's objects are outside our namespaces, in the place
  of something tagged or of no link, and an inverse that deletes came to it by a verdict,
  with or without an answer. From it `TeardownStaysOrdered`, `ReportsStayClean`,
  `ForeignStays` and `NoTrafficStarts`.
- `EnvelopeControllerProofs`. The plan is the funded prefix of the ramp with its running
  totals, the controller has spent the total of the levels it started, and until somebody
  resumes the next level is due at the ramp time of that total. Hence the controller's
  recheck can only fail after a pause (`PausesExhaust`), and every level is within the
  review (`AuthorisationHolds`), for every word size. The maxima of a rejected plan may be
  above the review, which is why the invariant excludes `"rejected"`. `PlansAreMaximal`: a
  plan ends where the next level would exceed the review. `HoldsUnlessResumed` needs
  `LastInv`: behind the event of a level's start the controller runs and the next level is
  due a full hold later.
- `JournalProofs`. `IInv`: the locks exclude each other; there are at most `MaxEntries`
  lines, chained, every one but the last whole, and the i-th ends at `Least[i]` or later;
  whoever is about to write has verified the lines as they still are; each line that was
  returned is on disk as it was then (`KeptInv`). The lower bound is the strengthening
  `VerifiableStays` needs: `append` limits the bytes, verification also the number of
  entries, and the assumption that `MaxEntries + 1` of the shortest entries exceed
  `MaxBytes` makes the one imply the other. In the code it holds by a thousandth (100,001
  entries of one-character notes take 33,589,170 bytes, 32 MiB are 33,554,432) and only for
  the times `_utc_now` makes: `append` neither checks nor bounds a `recorded_at` given by
  its caller, which only a test does. `ReadersAlwaysSeeDurable`: lines that are not durable
  imply a writer before its `fsync`, who excludes readers, or one that died there
  (`UnsyncedInv`).
- `BenchProofs`, evidence packs (`EvidenceStaysWhole`). `PackingInv`: files only grow or are
  replaced, so what an inventory has hashed is a past content of the file, and what it
  inspects later is that content or was flagged; each creator holds an inventory of which it
  has copied what its position says; and what an exporter staged is of the pack it read, if
  it read one only. Assumed: the directory has a file (`BenchAssumption`: the loops of the
  model start at the first one).
- `BenchProofs`, mission control (`ConsoleStaysHonest`). `BufferInv`: the account of the
  events, the sequence numbers of the buffer's own reports, and that as long as nothing is
  reported as dropped, late or malformed the queue is the end of what came in and the view
  shows the phase of the rest. `ControlInv`: an outstanding confirmation was not used, no two
  actions share one, an acknowledged key has a receipt and is not called again. Assumed
  (`ConsoleAssumption`): producers do not use the source `ui-buffer` and the two kinds the
  interface makes itself. The code does not check that, and a producer that did could pass
  for the buffer's own report.
- `BenchProofs`, torture runner (`MutationsStayAnswered`). `ThreadInv`: the runner waits for
  one thread and leaves at most one behind, which goes on only after the run has ended with
  an error, and a thread that injects has sent exactly the packets above the one it is at.
  `SentInv`: what is on the network of earlier cases was sent in full and had a clean canary
  after it, and of the present case as much as the runner's position says. The packet limit
  is then the size of the planned set of packets, which was compared before the first was
  sent. Assumed: selections and limits are counts (`TortureAssumption`).
- `BenchProofs`, minimiser (`ResultsStayMinimal`). `MinimiserInv`: what is left of the source
  contains what the failure needs (`core`) and the fixed part of each of its lines, it was
  tested last, and the budgets account for every trial. A level's last round deletes span by
  span and has seen that every span before its position meets `core` (`Seen`); at its end no
  span of the level can go (`Tight`). That the later levels keep this is the point of the
  proof: they change what the spans of the earlier ones are, and a span that is left still
  meets `core`. It needs that the body begins behind the first blank line whatever is deleted
  from it (`BodyLess`); that there is a first one is by well-foundedness. Assumed
  (`MinimiserAssumption`): lines come in order, a blank one is alone, and a message does not
  begin with a value.
- `BenchProofs`, output sets (`OutputsStayWhole`). `OutputsInv`: a path belongs to a writer
  exactly if the writer has it among those it linked, who stages or links has something
  left, and who cleans up has linked all or nothing. An interrupt between `os.link` and the
  record of it would break the first; the model takes it as a kill, after which the code
  promises nothing. Assumed: a command writes at least one file (`OutputAssumption`).
- `BenchProofs`, chaos plans (`TargetsStayAlone`). `PlansInv`: what no edit changes of a plan.
  `ShapingInv`: from the start on the topology is the reviewed one, the commands are those
  that it and the profile compile to, since both were compiled again, and an interface is the
  sum of the commands applied to it. The rest is about the compiler: its command list lists
  `AllCommands`, each direction has an interface of its own (`CarrierIs`; on a host because
  the ifb did not exist when the plan was made), the filters are the scope, and the effects
  of a direction are what its rate and netem commands set. Assumed (`ChaosAssumption`): kinds,
  directions and effects are those the validators accept, target lists are finite.
- `PeersProofs`, signaling fixture (`VerdictStaysTheAdapters`). `SignalingInv`: for each
  position of the self-test which connections are past, open and unopened, what the server
  holds of each and which nonces it knows; with an adapter that accepts what it should and
  before the deadline every check so far has been met. The self-test is a fixed list of
  eleven checks that sends one message more than the server takes, hence the assumption
  `MaxMessages = 4` (`PeersAssumption`), the code's own constant.
- `PeersProofs`, bounded call (`PassingCallsAreWhole`). `CallInv`: each gathering ends once,
  so at most two ends are heard; before its restart a peer has heard only its first
  gathering, and if it had heard that end when `restartICE` read the counts, nothing of the
  first is to come and what is counted later is of the restart. The counts never shrink, both
  had grown when the runner went on to close, and closing stops callbacks and readers, so the
  facts behind the verdict still hold when it is reported. Assumed: candidates are of the two
  kinds the code counts (`PeersAssumption`). Proved for every number of packets, with and
  without a relay.

Model-checked only:

- the liveness properties (fairness and ENABLED are outside the prover's reach);
- `CallsAreReconstructed` and `VerdictsAreThePackets` of `ObservedCall`, whose oracles are
  folds and searches, and the properties of `MCPlanning`. Modules with RECURSIVE operators
  carry no theorems.

## 6. What the models leave out

- `LiveMcp`: formats, signatures and digests are one "defect" per call; the store is
  SQLite with working durability; the runner below the adapter is `Launch`..`Finish`.
- `CampaignSupervisor`: how events and results are worded; output redaction and limits.
- `CaptureToReport`: the content of the report. A failing sanitiser leaves the handlers
  in place and writes no `result.json`; the model has this as an end by exception.
- `ChaosLifecycle`: addresses, rates and profiles. Somebody may replace an object only while
  the child runs, which keeps check-then-delete two steps without a race inside them. The
  code knows a qdisc by its kind and handle (`prio` `1:`, `clsact` `ffff:`), so a foreign one
  of that shape is deleted as ours (`"alike"`), as docs/CHAOS-LIFECYCLE.md:64-70 has it;
  `ForeignKept` is about whatever can be told from ours. A root in host mode is modelled on
  the uplink; one on the IFB goes with the IFB, whoever put it there. A command that was
  given up on can take effect all the same: it has a time limit, and a terminal's Ctrl-C
  reaches `ip` itself. A query that fails has no answer about an end; a failing look at a
  namespace's marker and a malformed answer raise. The snapshot that verifies the cleanup
  shows routes, qdiscs and namespaces, so a link that is down is invisible to it, left by
  such a command or by an inverse that could not ask: `ReportedClean` says exactly what is
  promised, and `CreatedIsGone` what is not.
- `EnvelopeController`: the shape checks of the documents, the recompilation by
  `verify_envelope_plan`, and an endpoint callback that raises.
- `Journal`: the checks of text and references, the list of missing evidence, the renderings
  and `write_rendered` (which looks whether its output exists and replaces it later).
  `os.write` may write less than the line and `append` reports success, which
  `AppendedIsWhole` shows as a finding; the line is then in `appended` as it is,
  `StaysVerifiable` exempts a cut last line, and nothing can be appended after it. A
  directory entry is taken to be durable once made.
- `EnvelopeObservation`: the report's citations. `PlanCompiler`: field grammar is one flag,
  `wellFormed`; SHA-256 is the document itself; a plan is as large as its steps. An
  untouched plan is refused by the runtime in three cases, which `WrittenPlanRuns` exempts
  and findings name: two targets behind one DNS name, two texts of one value, a plan above 8
  MiB. `MatrixCompiler`: the history score, identifiers and the Markdown report.
  `OutputSet`: a file is there or not; an interrupt between a link and its record counts as
  a kill.
- `ChaosPlan`: YAML, names and digests, of which that of the targets keeps their order; a
  profile's effect is a small number, zero where the code refuses one; `prio`'s default
  priomap is external; the host may still change after the preflight comparison, as in the
  code. `ChaosMeasurement`: a PCAP is a sequence of packets of one classification in one
  direction; equal clocks do not exclude a negative delay, since a duplicate may arrive
  before its packet is sent once more. A corrupted packet has an
  identity that nobody sent, or is no RTP packet any more.
- `MediaSender`: RTP header bytes, audio content and pacing below a packet interval; the
  signal processing of the analyser.
- `MissionControl`: widgets and text. `TortureRunner`: what providers do. `EvidencePack`:
  file types and report formats, signatures are the pair of key and content.
- `Signaling`, `PeerCall`: TLS, ICE, DTLS, SRTP and TURN belong to Pion and are external.
- `DialogOracle`, `MediaOracle`: timestamps, jitter, DTMF, codec names, RTCP and the parsing
  of tshark's output.
- Not modelled at all: see the components with that status in `PROJECT.json`, with reasons.

## 7. Plan

Done, in this order: `LiveMcp`, `CampaignSupervisor`, `CaptureToReport`, `ChaosLifecycle`,
`EnvelopeController`, `Journal`, with proofs; then `MissionControl`, `TortureRunner`,
`Minimizer`, `EvidencePack`, `Signaling`, `PeerCall`, the oracles with `ObservedCall`,
`EnvelopeObservation`, `PlanCompiler`, `OutputSet`, `MatrixCompiler`, `MediaSender`,
`ChaosPlan` and `ChaosMeasurement`; proofs of `EvidencePack`, `MissionControl`, `PeerCall`,
`TortureRunner`, `Signaling`, `Minimizer`, `OutputSet` and `ChaosPlan`.

Left to model: `OneCall`, `LiveMcp`'s adapter as an instance of `CampaignSupervisor`'s
contract with the helper's time limit between them; a traffic child that SIGKILL does not
end in `ChaosLifecycle`; the rendering of the journal; the validators as operators.

Left to prove: `ExecutedIsAuthorised` of `PlanCompiler` for every manifest and zone, which
needs its instance in a module without the recursive operators of `MatrixCompiler`; the
measured packets of `ChaosMeasurement` and the echoes of `MediaSender` for every stream.
