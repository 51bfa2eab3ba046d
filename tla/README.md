# A TLA+ model of the agent-data-synthesis engine

This directory is the verification project of the `agent_synthesis` package: TLA+ modules
translated from its source, the TLC configurations that check them on small instances, and
theorems about them checked by TLAPS. Line numbers are those of `agent_synthesis/*.py`.

## 1. The system

A *run* turns a bounded number of *slots* that a Domain offers into *Episodes*. A generator
model proposes a task per slot, the Domain compiles the proposal into a private case with a
*semantic key*, an Agent model works on the task through typed tools, and gates decide whether
the Episode is an admitted demonstration or a negative. At most one task of each semantic key is
admitted. Everything that must survive a crash is in an SQLite file, the private ledger; a run
directory has one writer at a time and can be resumed.

### 1.1 Inventory

| Component | State it keeps | Operations | Module |
|---|---|---|---|
| Private ledger (`ledger.py`) | tables of work items, task cases, terminal outcomes, quality judgments, provider requests, run metadata, run status, frozen state | one transaction per method, under one lock | `PrivateLedger` |
| Run scheduler (`engine.py` `_drive_run`, `_call_model`) | counters and key sets copied from the ledger, futures in flight, stop reason, owner prefix | generate a batch, compile, dispatch, collect, commit, decide the final status, judge | `RunScheduler` |
| Agent rollout (`engine.py` `_run_agent_episode`, `episode.py`) | one Episode: events, steps, repairs, authorization, the Domain's session | open, one logical call per turn, tool execution, assessment, gates, sanitizing | `AgentEpisode`; its provider calls in `RunScheduler` |
| Run directory (`engine.py` `run`, `resume`, `_finalize_run`, review files; `manifest.py`) | ledger file, snapshot, published collections, report, manifest, review queue, labels | create, resume, publish, freeze a cohort, import labels | `RunDirectory` |
| Replay (`engine.py` `replay`) | none of its own | re-execute tool calls on the snapshot, report drift | `EpisodeReplay`, `DirectoryReplay` |
| Quality review (`quality.py`) | cohorts, labels | select a cohort, validate labels, aggregate verdicts, summarise | `QualityReview` |
| Enforcement eligibility (`enforcement.py`, `engine.py` `evaluate_semantic_enforcement`, `_semantic_enforcement_context`) | issued reports | evidence of two campaigns, metrics, thresholds, independence; start of an enforced run | `SemanticEnforcement`, `EnforcedRun` |
| Contacts (`contacts.py`) | source, session of an Episode | freeze, slots, compile, restore, tools, authorize, assess | `Contacts`, `ContactsEpisode` |
| Mobile Messages (`mobile_messages.py`) | the same | the same | `MobileMessages`, `MobileEpisode` |
| Workspace Tasks (`workspace_tasks.py`) | the same | the same | `WorkspaceTasks`, `WorkspaceEpisode` |
| Contracts and adapters (`domain.py`, `model.py`, `registry.py`, `builtin_domains.py`) | registries | typed interfaces, HTTP request and response mapping | the Domain contract is the parameters of `AgentEpisode` and `DomainTasks`; HTTP is not modelled, its answers are nondeterminism |
| Configuration (`configuration.py`) | frozen record | bounds and their validation | constants and their assumptions |
| Command line (`cli.py`, `app.py`, `main.py`), operator scripts (`scripts/`) | none | parse arguments, call the engine, write reports | not modelled |

### 1.2 How the parts interact

* The *main thread* of a process runs `_drive_run`: it generates a batch of tasks, dispatches
  compiled ones to a `ThreadPoolExecutor`, collects finished futures and commits terminal
  outcomes. *Worker threads* run one Episode each.
* The threads share the ledger and the cancellation flag. Each ledger method is one transaction
  under the ledger's own lock; nothing spans two methods. Counts and key sets that the main
  thread reads once at the start (`accepted_count`, `admitted_semantic_keys`,
  `active_semantic_keys`, engine.py:1436-1441) are then maintained by hand.
* A provider call is *reserved* in the ledger, then sent, then finished; a retry reserves again.
* Processes meet only through the directory. A killed process leaves claims under owner ids
  nobody uses any more; `resume` returns them to ready.
* A published Episode goes to the quality judge (after the run in shadow mode, before the commit
  in enforced mode), and later to human review, whose labels decide whether enforcement may be
  turned on.

### 1.3 What is hard

* *Interleaving.* Episodes finish in any order, but winners must not depend on it; budget is
  checked in one transaction and reserved in another; a cancel or a failed worker arrives between
  any two steps.
* *Crashes.* The outcome and its judgment, the status and the artifacts, the ledger file and the
  snapshot are separate writes.
* *Limits.* The accepted target, four request ceilings, the batch, the dispatcher's probe, the
  retry and step bounds.
* *Chains.* Instruction, authorization and assessment of a task are three pieces of code in each
  Domain; so are source, snapshot and restored case; so are label, evidence and report. Each pair
  must agree for every task, and no test goes through all of them.
* *Progress.* The main loop has a stop of its own for "no progress"; every combination of
  duplicates, blocked keys, budget and target must lead to another stop.

### 1.4 What makes each component correct

* Ledger: tables never contradict each other, ceilings hold, outcomes and charges are for ever,
  items only advance.
* Scheduler: the earliest candidate of a key wins; the target is met exactly and by the earliest
  sequences; hand-maintained caches equal the ledger; claims equal live threads; a reported status
  is earned; a cancel bounds what is still sent and keeps finished Episodes; every process ends.
* Run directory: whatever instant a process dies, paid work can be resumed, from the state frozen
  first; files agree with the ledger and the manifest with the files once a command returned; review
  evidence is never ahead of the run it judges and never lost.
* Agent rollout: every Episode concludes; its world and its authorization are what its recorded
  calls made of them; redaction launders nothing; a negative has its reason.
* Replay: re-executing what was saved of an Episode finds no drift but where an argument was lost; a report
  covers what it says.
* Domains: an Episode changes only what its task is about, after what the task demands; a
  demonstration shows its route and reports the true state; an Agent that follows its instruction
  succeeds wherever one can; capacity is real; a run and its tasks survive a restart wherever the snapshot is one;
  a generator cannot widen a task.
* Review: a queue holds every doubt of the judge, an evaluation ignores the judge, nothing is reviewed
  twice or taken back, the summary is true.
* Eligibility: no judge decides but on a full, independent review under a policy that came first.

`PROJECT.json` lists every hazard at its line with the properties that watch it.

## 2. The modules

### 2.1 `PrivateLedger`

| Variable | Table |
|---|---|
| `work` | `work_items`: `[status, owner]`, with status `absent` for no row |
| `taskCase` | `task_cases`: the semantic key, or `None` |
| `outcome` | `terminal_outcomes`: decision (`admitted`, `rejected`, `duplicate`) and key |
| `judgment` | `quality_judgments`: the verdict |
| `requests` | `provider_requests`: role, sequences, status; the index is `request_id` |

One action per method that writes; a method that raises rolls back, so its guard is just not
true. Read methods are operators (`WithStatus`, `Admitted`, `AdmittedKeys`, `BudgetAvailable`).
`LedgerNext` is *any* client calling the methods in any order, so whatever is proved of
`LedgerSpec` holds however the engine uses the ledger. Slot ids, payloads and timestamps are left
out: no decision depends on them. `run_status` is a variable of `RunScheduler`; `run_metadata`
and `frozen_state` are written once at the start and belong to `RunDirectory`.

### 2.2 `RunScheduler`

Extends the ledger with one process at a time. `pc` is the place of the main thread, `call` the
logical call of each thread (thread 0 is the main one). A step goes from one point where another
thread, the operator or a kill can make a difference to the next and performs at most one ledger
transaction.

| Actions | Code |
|---|---|
| `Open`, `Allocate`, `Recover`, `StartDrive` | `resume` (568-667); `run` is the case without slots, where `Recover` finds nothing to do |
| `Collect`, `DecideToStop`, `LeaveLoop` | main loop (1744-1763), `collect_completed` (1727-1742) |
| `BeginDispatch`, `DispatchItem`, `ConfirmDispatch`, `Submit`, `DispatchReturns` | `dispatch_ready_work` (1643-1725) and the loop's tail (1764-1779) |
| `BeginBatch`, `ClaimBatch`, `CallGenerator`, `GeneratorReturns`, `ReturnBatch`, `CompileItem`, `RejectItem`, `EndBatch` | `generate_pending_batch` (1516-1641) |
| `CommitTerminal`, `AskJudge`, `CallJudge`, `JudgeReturns`, `Commit`, `RecordJudgment` | `commit_terminal` (1450-1493) with enforced admission |
| `CallGivesUp`, `CallProceeds`, `CallReserves`, `CallDispatches`, `CallSucceeds`, `CallFails` | `_call_model` (2455-2613), for every thread and role |
| `AgentCalls`, `AgentCannotOpen`, `AgentContinues`, `AgentRaises` | `_run_agent_episode` (2183-2343), its calls and its ways to end |
| `Finish`, `JudgeUnavailable`, `JudgeShadow`, `Exit` | final status (1781-1808), shadow judgments (1910-1942), `_finalize_run` |
| `Unwind` | an exception of a worker leaves the executor block, which joins the other workers |
| `Kill`, `Cancel` | process loss; the operator |

The cancellation flag is read at one place and obeyed at a later one, so its reading is a step of its own:
`CallProceeds` found the flag clear before the charge (engine.py:2501) or before the request is sent (2523), and
`ConfirmDispatch` before the future is submitted (1703). A `Cancel` may come between that and `CallReserves`,
`CallDispatches` or `Submit`, which go ahead all the same, as the code does. `CancelBoundsDispatch` states what is left to
promise: no thread passes a check any more, at most `max_concurrency` threads had passed one and each spends it
once, and at most one more future is submitted.

Collecting a *set* of finished futures is `Collect` repeated: collection is by sequence in the
code and any order here, so the model allows more. The Domain's and the models' answers are free
choices. `MaxInvocations` (how often a process starts) and `Faults` (which faults a run of the
checker exercises) are bounds of the model; the rest of its constants are fields of the
configuration. `Halted` is the stuttering of a model whose last invocation is over.

### 2.3 `RunContract`

What a consumer of a run sees, without threads, processes or ledger: slots are decided once, keys
have one winner, the target is never exceeded, charges stay within the ceiling, "completed" means
it. `RunSchedulerProperties` instantiates it over `RunScheduler`; its variables are `outcome`,
`Len(requests)` and `runStatus.status`. `RunSchedulerInvariant` adds to these properties the inductive
invariant from which they are proved, in layers; section 4 says what each is for.

### 2.4 `RunDirectory`

| Variable | Code |
|---|---|
| `lock`, `proc` | `.private/writer.lock`; per process the command's phase, its *plan* (durable writes still to do) and what it read |
| `ledger` | the ledger's single-row tables, slots, decided Episodes (with the state each started from) and judgments |
| `snapshot` | `.private/frozen_state.json` |
| `files` | collections, judgments, usage, report, quality report, manifest; cohorts, blind queue, labels, import report |
| `source` | what the mutable Domain source holds now |
| `interrupted`, `deaths` | history: a writer ended early since the last publication; the bound on deaths |

A command takes the lock (`TakeLock`), reads and checks (`CreateLedger`, `FreezeInitialState`,
`OpenRun`, `OpenReview`, `OpenImport`), then follows a plan that lists its writes in the order of the code:
`Startup` (515-522), `Publication` (1847-1887), `Freezing` (753-765), `Importing` (803-820), the last two
ending in `Refresh` (1288-1325). Every step of a plan is one ledger transaction or one `os.replace`;
`write_manifest` is a plain `write_text`, so it is two steps with a torn manifest between them, and it fails
when a base file is missing. `Die` is a kill, or an exception that leaves the command, between
any two steps. Contents are abstracted to what they are made from: decided Episodes, status,
judged Episodes, cohorts, labels. `Decide` stands for the whole of `_drive_run`, which is
`RunScheduler`; `Sufficient` says with which Episodes a run is complete (all slots used up, or the
target met). A refusal for reasons outside the model (another configuration, an invalid label) is
always possible. `RunDirectoryInvariant` states the inductive invariant: for each phase of a process, which
writes of its plan are done, which are pending, and what it still remembers for them.

### 2.5 `AgentEpisode` and `EpisodeReplay`

One Episode of one compiled task. The Domain is a parameter (`EpisodeOpens`, `EpisodeStart`, `EpisodeTexts`,
`EpisodeTools`, `ExecuteTool`, `AssessEvents`), and so is what an Agent may answer (`Decision`) and which of
its calls fail (`Faults`, by case).

| Variable | Code |
|---|---|
| `case`, `phase` | the task case; ready, running, ended, or raised by a record that cannot be built |
| `attempt` | the local state of `_run_agent_episode` (2183-2343): session, events, authorization, steps, repairs, terminal cause, the unsafe flag |
| `hashes` | response hashes the ledger holds for the sequence, of lost attempts too (2821-2842) |
| `restarts` | how often the attempt was cut short (bound `MaxRestarts`) |

| Actions and operators | Code |
|---|---|
| `OpenEpisode`, `MalformedDecision`, `CallFails`, `Decides` (`FinalResponse`, `ToolCall`), `Interrupted` | the loop of `_run_agent_episode`; a resume after a kill |
| `ExecuteToolDecision`, `ValidArguments`, `Answered`, `Refused` | `_execute_tool_decision`, `_valid_tool_arguments` |
| `Clean`, `Bounded`, `UnsafePayload`, `Saved` | the sanitizer of `episode.py` |
| `AssessEpisode`, `Gates`, `ReasonCode` | `_assess_episode`, `_execution_episode` |

A text is one string and "unsafe" a set of texts, so that redaction is a set operation. Arguments are
records over the declared names, an undeclared one and `NotText`. `EpisodeReplay` is the loop of
`_replay_trace` over what was saved, a function of how many events it has read, with `_replay_assessment`;
it calls no model, so it is an operator and asked in every state in which an Episode ended.

### 2.6 The Domains

`Contacts`, `MobileMessages` and `WorkspaceTasks` each hold a Domain's pure part in the order of its file:
reading and freezing the source, slots and capacity, the prompted proposal, compilation, restoring a
private case, the tools with their authorization, the assessment. `DomainCommon` holds what the three
write out alike. String functions (stripping, slugs, the query made of a title, what a note or comment
may be) are constants that an instance gives as tables; the places where two texts meet (a slug of
two names, a query two titles share, a text that is empty after stripping) are in those tables.

Two machines use them, both with the Domain as a parameter. `AgentEpisode` with `EpisodeReplay` runs an
Episode; `ContactsEpisode`, `MobileEpisode` and `WorkspaceEpisode` state over its variables what Episodes of
each Domain keep, and `DomainEpisodes` puts the three under one rollout, as `builtin_domain` does: the
constants of `AgentEpisode` stay open, `BuiltinExecute` and the like are what they are for a case of a
built-in Domain, and a case of another Domain is one a caller registered. `DomainTasks` is what the engine asks before an
Episode is opened: `StartRun`, `AllocateSlots`, `CompileProposal`, `RestoreTask`, `Crash`, `Resume`; the source is read by `StartRun` only. Its constants
`FreeFields` and `LosesQuery` are for the properties: what a prompt leaves open, and which states have a task titled by a verb
and blanks.

### 2.7 `DirectoryReplay`

`RunDirectory` with one process more: `replay` (669-722) takes no writer lock, reads the ledger and the
snapshot, closes the ledger, and reads one collection after the other while a run decides and
publishes. `RecordCase` adds to the ledger which Episodes have a task case.

### 2.8 `QualityReview`, `SemanticEnforcement`, `EnforcedRun`

`QualityReview` has the variables `runs` (completed runs, fixed), `cohorts` and `labels`, and the actions
`CreateReviewQueue` (`build_review_cohort` with its checks against frozen cohorts) and
`ImportReviewLabels` (all of a submission or nothing). The durable writes of both commands are the
subject of `RunDirectory`. `SemanticEnforcement` is a function of these variables: `Project` builds the
evidence of a campaign (engine.py:947-1075), `IneligibilityReasons` is every reason of `enforcement.py`,
`Metrics` its counts; rates are compared by products as in the code. The code takes passes from strata
round by round; `QualityReview` says it by rank: a pass has a round (its place in its own stratum) and
the sample is the first of them by round and then stratum (`Round`, `Place`, `Before`), which leaves no
recursion to reason about. `EnforcedRun` adds `IssueReport`,
which freezes evidence at some moment, and `StartRun`, which accepts or refuses a configuration
(`_semantic_enforcement_context`, 376-477) while reviews go on.

### 2.9 Compositions and instances

| Module | Composes |
|---|---|
| `RunSchedulerProperties`, `RunSchedulerInvariant` | `RunScheduler` with `PrivateLedger` and, as a refinement, `RunContract` |
| `DirectoryReplay` | `RunDirectory` and a replaying process |
| `DomainEpisodes` | the rollout under the three Domains; a case says which it is of |
| `MCDomainEpisodes` | the same with replay, a Domain without rules beside them, and Agents that follow their instruction |
| `MCDomainTasks` | `DomainTasks` under each Domain, Workspace Tasks in both target scopes: variable `domain` |
| `MCReview` | review, evaluation and enforced runs, each over the reviews that put it to the test: variable `question` |

`MC...` modules give constants values for TLC; the others keep them open. `...Proofs` modules hold the
theorems: `PrivateLedgerProofs`, `RunSchedulerProofs`, `RunDirectoryProofs` (with replay),
`EnforcedRunProofs` (review, eligibility, enforced runs), `AgentEpisodeProofs` (with replay), and of the built-in Domains
`DomainEpisodeProofs` (what an Episode changes), `DemonstrationProofs` (what an admitted one shows) and
`DomainTaskProofs` (slots, compilation, resumes, capacity). Operators named `Faulty...` are seeded faults: nothing uses
them, each stands before the definition it distorts, and substituting it must break the property
`PROJECT.json` pairs it with.

## 3. What TLC checks

| Run | Instance | Question |
|---|---|---|
| `ledger` | 2 slots, 1 key, 2 owners, 2 requests | Is any sequence of method calls safe? |
| `scheduler_faults` | 3 slots, batches of 2, 2 workers, 1 retry, shadow judge with 1 request, tight budgets, 2 processes, a kill, a cancel or a raising worker anywhere | Claims match threads; winners, caches, backlog, no repeated work, after a crash too; a cancel bounds what is still dispatched |
| `scheduler_target` | target 2 over 3 of 4 allowed slots, batch 3, a kill | Exact target by the earliest sequences; true status; implements `RunContract`; and `SchedulerInvariant`, which is proved |
| `scheduler_liveness` | target 2, enforced judge with 1 request, cancel, 1 retry, fair threads | Processes end, finished Episodes are kept, a cancel is reported; admitted Episodes passed the judge |
| `enforced_judgment_after_kill` | enforced judge, one slot, one kill | "Enforce admits only judge-pass Episodes" is *violated*, see section 6 |
| `run_directory` | 2 processes, 2 source contents (one too small for the target), 2 Episodes, 2 cohort ids, 2 deaths | Is paid work resumable, from one state? Are files, ledger and manifest in agreement when quiet? Is review evidence sound and kept? And `DirectoryInvariant`, which is proved |
| `crashed_directory` | 1 process, 1 death | "A crashed process leaves it resumable" is *violated*, see section 6 |
| `directory_replay` | 1 writer that dies once, 2 source contents, a demonstration and an Episode that never compiled | Does a replay beside a writer say the truth? |
| `domain_episodes` | one Episode of 5 steps: 1 repair, 1 restart, faults and a hostile text under a Domain without rules; any Agent under the three Domains, undeclared arguments included; an instructed Agent on every slot of many sources, with a contact named like a stale label and a title too long for a comment among them | What history and verdicts say, legitimate changes, replay, true demonstrations, success of the instructed where one can follow the instruction, end of every Episode |
| `undeclared_search` | the missing-document task of Workspace Tasks, an Agent whose search may carry an undeclared argument | "Structural keys describe meaningful executed topology" is *violated*, see section 6 |
| `domain_tasks` | sources with colliding, blank and over-long texts and a title of a verb and a blank, every proposal that differs in one field, tampered cases, a crash anywhere | Does a run survive its restart, all but those whose snapshot is refused? Is capacity real? Does only what was asked compile? |
| `review` | one run with any queues and labels; two runs under 4 policies; a report and runs started on it while reviews go on | What reviewers see (`ReviewIsSound`, `ReviewOnlyGrows`), who becomes eligible (`ActivationsAreSound`), what enforced runs rest on (`EnforcedRunsAreEarned`) |

*Bounds of the scheduler.* Keys as many as the target plus one, so that concurrent Episodes could
overshoot it; elsewhere two keys. Two slots of a key and one more are enough for a race between
candidates, with a third item behind them; two workers give every pairwise interleaving, and no step
looks at more than one other worker; a batch smaller than the slots forces a second generation; a
target below the slots leaves work behind. Request ceilings are set so that they run out within an
Episode, within a batch and during judging. Two processes cover a crash and its recovery; a third would
start from states of the same kind. Keys are symmetric: the model only compares them. The probe is
`max(16 * max_concurrency, 64)` in the code and never smaller than a batch; the model keeps
`ProbeSize >= BatchSize`, taken at its worst.

*Bounds of the directory.* The writer lock makes further processes equivalent to the two (one writes,
one waits to get in); two deaths let a command start from what an interrupted one left and be
interrupted again; commands are not bounded. Two Episodes and two cohort ids are enough for cohorts that
could overlap or get lost; `Sufficient` contains a proper subset of the Episodes, so a completed run
has something left that a resume must not decide. One replay is followed at a time: replays write
nothing another command reads.

*Bounds of the Episodes.* A rule of a Domain relates at most a probe, a listing, a look-up, a change, a
read and the final answer, and no task asks for all of them: five steps complete every kind of task, and
a fifth step that is no final answer spends the budget. An Agent takes the calls its task instructs as often and in
any order, and two more of every tool the task declares: on the target and on another record, with the right and with
wrong arguments and, where the task asks for a search that fails, other searches and one with an argument the tool does
not declare. Under the three Domains no call
fails and nothing is interrupted: what failures do to an Episode does not depend on the Domain and is
checked under the one without rules, where each call names the answer it gets: any call in its first two
steps (in the first, where the assessment raises or the task has a hostile text), any of three after that. `HashLimit` is 6 there, what 5 steps and a repair charge, so that a restarted
Episode may exceed it, as one of 64 steps may exceed the 128 of the code. `CHECK_DEADLOCK FALSE` in this run
and the two after it: an Episode, a run's tasks and a review do come to an end.

*Bounds of the reviews.* Strata of different sizes with a limit below them; opinions that pass, fail,
doubt and report a critical failure; quotas of two Episodes and one per Domain with rates that one wrong
verdict of two just meets, so that each threshold is met and missed; campaigns of one run each,
since evidence of several runs is a union that names its run. What is unusual of one run
(unavailable judgments, a missing group, shared tasks, another judge, other settings) is combined with
the plainest of the other.

*Fairness.* `FairSpec` of the scheduler asks weak fairness of the main thread and of each worker: they
are operating system threads that never wait on one another except for the ledger's lock, held for one
method, and for futures; every provider call ends because the adapters pass `timeout_seconds`. Nothing
is asked of the operator or of faults. `FairSpec` of `AgentEpisode` asks the same of the thread of an
Episode (`Progress`), never of `Interrupted`; `AnySpec` asks it only under the Domain without rules, where
`EpisodesConclude` is stated, since ENABLED is slow to evaluate for the tools of the others. The number of
calls is bounded by the code (`step_limit`, `transport_retry_limit`, the ceilings), so no bound of the model
stands in for progress.

## 4. What is proved

Every theorem below is checked by TLAPS for all values of the constants, from the assumptions named in
section 4.10. An inductive invariant that a run can afford to check was checked by TLC before it was
proved (`LedgerConsistent`, `SchedulerInvariant`, `DirectoryInvariant`, and `TaskInvariant` on the instance of
`domain_tasks`, without a run of its own: it relates what is written down to the source, nothing to a
Domain).

### 4.1 The ledger, under any client (`PrivateLedgerProofs`)

| Theorem | States |
|---|---|
| `LedgerTypeCorrect` | `[]LedgerTypeOK` |
| `LedgerStaysConsistent` | `[]LedgerConsistent` |
| `CeilingsAlwaysHold` | `[]CeilingsHold` |
| `OutcomesAreFinal` | `TerminalIsFinal` |
| `ChargesAreNeverRefunded` | `ChargesAreKept` |
| `StagesNeverGoBack` | `StagesOnlyAdvance` |

`LedgerTypeOK /\ LedgerConsistent` is inductive as it stands: each method re-establishes all parts for the
row it writes, and `ReadyItem` needs `CaseMatchesStage` to return an item to the stage it came from.
`CeilingsHold` is inductive with the types, because the method that inserts a charge tests both ceilings
in the same transaction; the count per role needs the lemma that appending one request adds one index to
one role's set. The action properties follow from the same invariants, one step per method.

### 4.2 The scheduler (`RunSchedulerProofs`)

| Theorem | States |
|---|---|
| `EngineUsesLedger` | `UsesLedger`: every step of `RunScheduler` is a step of `LedgerSpec` |
| `EngineKeepsLedgerPromises` | what 4.1 proves of any client, of the engine |
| `ClaimsAlwaysMatchThreads` | `[]ClaimsMatchThreads` |
| `NoChargeAfterTerminal` | `NoWorkAfterTerminal` |
| `CancelBoundsTheDispatch` | `CancelBoundsDispatch` |
| `CachesStayCoherent` | `[]CachesCoherent` |
| `EarliestAlwaysWins` | `[]EarliestCandidateWins` |
| `SchedulerNeverStalls` | `[]NeverStalls`: the stop `scheduler_no_progress` is unreachable |
| `SchedulerKeepsInvariant` | `[]SchedulerInvariant` |
| `ReportsAreEarned` | `[]ReportIsEarned` |
| `TargetIsMetInOrder` | `[]TargetTakesTheEarliest` |
| `OnlyJudgedPassesAreAdmitted` | `[]AdmittedPassTheJudge`, if no process is killed (section 6 says what a kill does) |
| `SchedulerTypeCorrect` | `[]TypeOK` |
| `SchedulerKeepsContract` | `KeepsContract`: `RunScheduler` implements `RunContract` |

`LedgerNext` is any client, so 4.1 holds of the engine once its steps are ledger calls, which
`EngineUsesLedger` proves action by action. It needs what the engine hands to a method to be typed: the
batch of a generator call, the head of the probe, the decision being committed. The `CHOOSE` in `Least`
yields a sequence because a nonempty set of naturals has a least element (`LeastIsLeast`).

`SchedulerInvariant` is a conjunction of layers, each preserved by every step given the layers before it and
the ledger's invariants:

| Layer | Says | Needed because |
|---|---|---|
| `Control` | what the main thread has in hand at each of its places | a step can only be judged by what it holds |
| `Claims` | a claimed item has exactly one holder in the process, under the owner it was claimed for | `Recover` may take back everything claimed only if its holders are gone |
| `Caches` | `accepted`, `admittedKeys`, `activeKeys` are the ledger's; between a commit and its return the ledger is one outcome ahead (`Settled`) | the counters are kept by hand next to each commit |
| `WorkOrder` | slots are generated in sequence order, a batch is the next slots of them | a winner must be earlier than what is not compiled yet |
| `Winners`, `ProbeCovers` | nothing earlier of its key is undecided beside a running or admitted task; what dispatch left out has its key in flight | the dispatcher decides item by item while Episodes finish |
| `OneBatch` | compiled, running and generating tasks together are at most a batch | `ProbeSize >= BatchSize` then lets a probe see all of them, so there is always progress |
| `WithinTarget` | admitted tasks and the keys that may still win are within the target (`RivalKeys` counts a task dispatch passed over while its key is undecided) | concurrent Episodes must not overshoot it |
| `Stops`, `Reports` | a reason to stop, once there, stays true, and the reported status repeats it | the status is written after other threads moved on |
| `Workers` | a call belongs to a submitted Episode, and these are never more than `max_concurrency` | a cancel is obeyed thread by thread, so what it leaves is counted by threads |
| `Calls`, `JudgedPass` | results of calls have their kinds; an enforced admission carries a pass until it is on record | types, and enforced admission |

`KeepsContract` then maps each step to one of `RunContract` or a stutter: a commit decides one slot, a
reservation is a charge, the final status is the contract's.

### 4.3 The run directory and replay (`RunDirectoryProofs`)

| Theorem | States |
|---|---|
| `DirectoryKeepsInvariant` | `[]DirectoryInvariant` |
| `DirectoryTypeCorrect` | `[]TypeOK` |
| `PaidWorkAlwaysResumes` | `[]PaidWorkIsResumable` |
| `EpisodesShareTheirStart` | `[]OneInitialState` |
| `QuietIsPublished` | `[]PublishedWhenQuiet` |
| `ReviewAlwaysFollows` | `[]ReviewFollowsEvidence` |
| `EvidenceIsAlwaysKept` | `EvidenceIsKept` |
| `ReplayLeavesTheDirectory` | `ReplaySpec => Spec` |
| `ReplayKeepsInvariant` | what a replay has read stays true of the run |
| `ReplaysAreFaithful` | `[]ReplayIsFaithful` |

The promises are about rows and files; why they hold is in the plan of the process with the lock. The
invariant says for each phase which suffix of which plan is left, which rows and files the writes before it
made, and what the process still remembers for the rest (the frozen state it opened, the cohorts and
labels it read). A write removes the head of a plan and makes exactly the conjunct true that the shorter
suffix asks for; a death leaves rows and files that some phase of the next command accepts. Nothing of
`TypeOK` needs a proof of its own. Replay writes nothing, so every behaviour with it is one without it and
all of the above holds beside it; its own invariant says that the snapshot it read was written once, that
cases only grow, and that a collection it has not read yet holds what was decided unless a publication
came between (`replay.published`).

### 4.4 Review, eligibility and enforced runs (`EnforcedRunProofs`)

| Theorem | States |
|---|---|
| `ReviewKeepsInvariant` | queues are what their configuration and run give, share no Episode and no id; each label answers one queue, alone |
| `ReviewsOnlyGrow` | `ReviewOnlyGrows` |
| `ReviewsAreSound` | `[]ReviewIsSound` |
| `ActivationsAreEarned` | `[]ActivationsAreSound` |
| `EnforcedRunsReview` | `EnforcedSpec => Spec`: issuing reports and starting runs leaves the review alone |
| `EnforcedReviewsAreSound` | all of the above while judges decide |
| `EnforcedRunsKeepWhatTheyEarned` | `[]EnforcedRunsAreEarned` |

That a sample spreads over strata is a fact about ranks: if a pass of one stratum was taken in round *n*,
the sets of passes before each rank are nested, so no other stratum with a pass in an earlier round goes
without. That the table is met relates two counts: the report counts evidence, the property counts Episodes
and labels, and the proof gives the bijection between them (an Episode under review has one queue and one
label, `LabelsAreAlone`), by which every rate is counted alike. A started run rests on a report, and what a
report without reasons says (queue, label and verdict of each reviewed Episode) is on record for ever since
reviews only grow; so nothing has to be assumed about the moment of the start.

### 4.5 The rollout and its replay, for any Domain and Agent (`AgentEpisodeProofs`)

| Theorem | States | Under |
|---|---|---|
| `HistoryIsExplained` | `[]HistoryExplainsState` | `DomainContract` |
| `VerdictsAreAlwaysEarned` | `[]VerdictsAreEarned` | `DomainContract`, `MarkerContract`, `AssessmentContract` |
| `EpisodesReplay` | `[]ReplayReproduces`: an ended Episode that met nothing to redact replays `aligned` if no call lost an argument, and drifts if one did | `DomainContract`, `KeysAreTheDomains`, `FailuresAreTheDomains`, `CallsAreRecords` |
| `DemonstrationsReplay` | a demonstration replays `aligned` if and only if no call lost an argument | the same |

The contracts are what the rollout rests on and the code of `engine.py` cannot give: a tool changes the
world only if it answers with a change (`DomainContract`); the marker `[redacted]` comes from the
sanitizer (`MarkerContract`: there is a vocabulary without it, every text but the marker for one, in which Agents
and tools stay as long as they read and are told nothing else); an assessment
that lists reasons has a first one, and it is a reason (`AssessmentContract`, which the built-in Domains
keep: section 4.6). `LoopInvariant` types the attempt and bounds
turns, steps and repairs. On top of it `Explained` says what the last events made of world and
authorization, by the cases of `Authorized`; a restart begins a new attempt, so nothing of a lost one has to
be excluded. For the verdicts, an event that is clean and mentions no marker is one nothing was redacted
from, so the flag that is computed on the original text agrees with what the record shows. Until something was
redacted the history is in the vocabulary (`Earned`), so is the next decision, and so is what the tool answers.

What a replay computes looks like induction over a history of any length, which the prover cannot do. But the run
itself is the induction: `ReplayInvariant` says that replaying what is saved *so far* ends where the Episode
stands (`Reproduced`: same session and authorization, no drift, no awaited result), and a step that appends
an action and its answer adds two applications of `ReplayEvent` to the replay (`OneEventMore`, `CallIsReproduced`). That is why
`ReplayTrace` is a recursive function, whose value at *n + 1* follows from that at *n* without an induction
theorem. The invariant holds as long as nothing was redacted, which is so for every demonstration. It has two halves. Until a
call loses an argument, the replay stands where the Episode stands; from the first one that does (`LostArguments`),
the replay has executed what the Episode refused, answers otherwise, and its drift is found whatever follows. So
nothing is asked of the Agent: an undeclared argument is an input as any other, and what the theorem says of it is
what the code does (section 6).

`KeysAreTheDomains` and `FailuresAreTheDomains` say that a structural key is not
the engine's own `incomplete`, by which a replay recognises an Episode that was never assessed, and a tool's failure not its
`invalid_tool_arguments`: the built-in keys start with the name of their Domain, and no built-in tool fails
with that code. `CallsAreRecords` says that a tool call is a record with the fields of model.py.

### 4.6 The built-in Domains (`DomainEpisodeProofs`)

| Theorem | States |
|---|---|
| `BuiltinDomainsKeepTheContract` | tools of the three Domains keep `DomainContract` |
| `BuiltinHistoriesAreExplained` | `[]HistoryExplainsState` without a contract, if every case is of a built-in Domain |
| `ChangesAlwaysStayWithinTheTask` | `[]ChangesStayWithinTheTask`: at most one change, of what the task is about, with what it allows |
| `ChangesAreAlwaysEarned` | `[]ChangesWereEarned`: before the change the history shows each observation its route demands |
| `ChangesAreAlwaysLegitimate` | `[]ChangesAreLegitimate`, both |
| `BuiltinAssessmentsGiveReasons` | the assessments of the three Domains keep `AssessmentContract` |
| `BuiltinToolsDoNotRedact` | their tools keep `MarkerContract`, if some vocabulary without the marker is that of the source and of the Agents |
| `BuiltinVerdictsAreEarned` | `[]VerdictsAreEarned` under the same condition and no contract, if every case is of a built-in Domain |
| `BuiltinEpisodesReplay` | `[]ReplayReproduces` of theirs, without `DomainContract` and `FailuresAreTheDomains` |

The hypotheses `BuiltinDomainsRun` and `BuiltinAssessmentsRun` say that the engine's parameters are the
built-in Domain's for a case that names one (`builtin_domain`), as in the run `domain_episodes`; other cases,
of Domains a caller registered, may be among the rest where the table does not say otherwise. Sources, texts, Agents, failures and the length of an Episode are open.

Each Domain's session keeps flags (`confirmed`, `listed`, `probeFailed` and the like), never the history,
and decides by them whether a change is allowed; the property is about the history. The invariant
(`ContactsKept`, `MobileKept`, `WorkspaceKept`) ties the two: a flag stands for an event with a smaller
index than whatever it allowed (`Shows`), and its world is the frozen one or that with the one change.
The lemma `ShowsMore` says when one event more keeps that (`Explains`), so each tool is one case: what it
answered, which flag it set, which event was appended. A refusal is a list of conditions with reasons
(`EarlyReturn`); that a change was made means that none of the conditions held. Events that are no tool
calls leave flags and changes alone. Redaction is the limit: the recorded text of an event may differ from
what the tool saw, so what was *earned* is read from a history nothing was redacted from
(`~attempt.unsafe`), while what was *changed* holds in any case.

For the marker, the sessions a case can get to are described, not followed through a history (`ContactSessions`,
`MobileSessions`, `WorkspaceSessions`): the world is the frozen table or that with the one entry a change adds, and the
entry says what the call said. An answer is therefore a text of the frozen state (`SourcesKeepTo`) or of a call. Two
texts are made by a tool itself: the ids of a created task and comment are spelt from two texts of the call, and the
vocabulary must have them (`WorkspaceSource`); they begin with `workspace-task-` and `workspace-comment-`, which the
marker does not.

### 4.7 Demonstrations (`DemonstrationProofs`)

`DemonstrationsAreAlwaysTrue` states `[]DemonstrationsAreTrue`: an Episode of a built-in Domain that passes
every gate shows the route of its task, in order, and its final response reports what the state of its
Episode holds. It is stated of every source, Agent, failure, restart and length of an Episode. Where the route asks
for a search that fails, it is that search, as long as no call lost an undeclared argument (`LostArguments`) and, in
Contacts, no contact is named like the stale label; otherwise what the assessment can be relied on for is
that *some* search failed, and the property says no more. Route, order, changes, reads and the report do not depend on it.

The assessment reads a history and never asks whether the history is worth anything; the property is about the
state. So there are two halves. A *trace* (`ContactTrace`, `MobileTrace`, `WorkspaceTrace`), inductive on top
of the invariants of 4.6, says what the recorded answers are worth: a probe of a stale label or a search for what is missing was
executed and failed, its failure the event right after it, or was refused for an argument it lost; what was read back of a change came after it, and the payload of a change
is the record the world holds. The other half is about the assessment alone: a list of checks without a failed
one (`Spotless`) is a route that was completed, in the order of the indices the code compares, by events that
the trace vouches for. A read before the change is where the halves meet: the code compares only the payload, and
it is the trace that excludes that the payload was there earlier. That a missing query matches no document is
a counting argument: `_missing_document_query_for` has one name more to try than documents (`MissingQueriesAreFree`).

| Hypothesis | Says | Because |
|---|---|---|
| `BuiltinDomainsRun`, `BuiltinAssessmentsRun` | the engine's parameters are the Domain's | `builtin_domain`, as in 4.6 |
| `NamesDiffer` | the names tried for the missing query differ by their number | decimals do |

All three hold in every engine that uses the built-in Domains. Nothing is asked of the Agent or of a source. The two
exceptions in the property are needed: without them TLC finds, with an undeclared argument in a search, an Episode that
violates it, as the run `undeclared_search` does (section 6).

### 4.8 Slots, compilation, resumes and capacity (`DomainTaskProofs`)

| Theorem | States |
|---|---|
| `WhatCompilesWasRequested` | `[]AcceptedMeansRequested` |
| `ResumesKeepTheRun` | `[]ResumeKeepsTheRun`: the snapshot is refused exactly when a task is titled by a verb and blanks |
| `CapacityCountsTasks` | `[]CapacityIsDistinctTasks` |

all for any number of registered Domains, each of them a built-in one over any sources, in either target scope
of Workspace Tasks, whatever a generator proposes.

`TaskInvariant` is the inductive invariant of `DomainTasks`: whatever is written down (snapshot, slots,
answer, stored and restored case) was made of the one state the source was read as. It is preserved for *any*
Domain whose snapshots reopen (`SnapshotsReopen`), and that is where the three Domains come in:

* *Snapshots.* The parser strips, sorts and checks; the snapshot is what it made, and is parsed again at a
  resume. The proof follows each list through it: a sorted list of records with different ids, written out
  and read back, is the list it was, since sorting depends on the set of records alone (`Orders`, `Ordered`), and
  what was stripped has nothing left to strip. The query of a Workspace task is its title without the verb and is computed
  again from the title: it is refused as blank exactly if it is empty, and then the snapshot and every case that aims at the
  item are (`LosesQuery`).
* *Slots.* A slot is looked for by its id, among candidates that may never have been issued (`FlattenSeq` of
  targets by specs). Ids are of one slot each, because a spec and the id of a target make the id.
* *Compilation.* A compiler is a chain of early returns, so a proposal that compiles is one for which each
  condition is false; these are put together to "the fields of the prompt, and no others". `MobileOutcome`,
  `WorkspaceOutcome` and the lemmas around them state per action what is left of the chain.
* *Restoring.* A case is checked by computing its semantic key again and comparing fields. That a compiled
  task passes is one direction; that a case of the same shape which differs anywhere has another key, or is
  refused for its fields, is the other.
* *Capacity.* `known_task_capacity` adds numbers up (specs of a contact, sums over messages, a list of pairs in
  turns) where the slots are a list of lists put one behind the other. Both are the number of places in that list
  of lists (`Places`): `FlattenPlaces` gives every element of a part its place in the whole, `SumsAre` and
  `SumOver` show that a sum over a set, one element at a time, counts them too. No slot is listed twice, since
  no target and no spec is (`Once`, `KeptOnce`, `JoinedOnce`; for the turns of `all_unique`, `TurnsOnce`). Then the
  chain of early returns is read the other way round: what the prompt asks for makes none of the refusals
  (`ContactCompiles`, `MobileCompiles`, `WorkspaceCompiles`), and from the semantic key of what it compiles to the
  spec and the target of the slot can be read off (`ContactKeysDiffer` and its like), so as many slots are as many tasks.

| Hypothesis | Says | Because |
|---|---|---|
| `BuiltinTasksRun` | what the engine asks of a Domain is answered by one of the three modules; a source is lists of records; a tampered case is another one of the same shape | `builtin_domain`; JSON; a case of another shape fails its validation |
| `NamesAreNormal` | stripping twice is stripping once; a slug is no pair of a slug and a name | `str.strip`; an id with two parts has a separator no slug has |
| the rest of `TextsAreSound`: `TextsAreTexts`, `MissingNamesAreTexts`, `ItemsAreItems`, `RefusalsHaveReasons`, `NoneIsNoAnswer` | texts, reasons and records are not `None`; the empty text is blank | Python's `None` is no string; `not "".strip()` |
| `PromptsAreAllowed` (of `CapacityCountsTasks` only) | the note a prompt of Contacts asks for is allowed; no action's name is taken for its denial; a slot, and what the code writes itself, are not `None` | constants of contacts.py, mobile_messages.py and workspace_tasks.py |

Two definitions were rewritten for these proofs without a change of meaning, since `SelectSeq` and `@@` are
defined by a recursion and in a module of the tool: `Those` filters by joining parts, and `Both` merges records.

### 4.9 What proving corrected

Proofs that did not go through changed properties that the small instances could not tell from right ones:
`MeetsTheTable` counts unavailable judgments among the uncertain ones, as the code does; labels of
development are counted per run that froze a queue; `Independent` speaks of the runs whose Episodes were
evaluated, not of every run that was named; `ChangesWereEarned` cannot hold of a redacted history; and a
count of changes by `Cardinality` became the statement that any two of them are the same one. The
contracts of 4.5 are the result of asking what a Domain must do for the engine to keep its word. The
exceptions in `ReplayReproduces`, `DemonstrationsAreTrue` and `ResumeKeepsTheRun` came the same way: the step that would not
go through was the one the code gets wrong, and the property was restated to say exactly what happens there.

### 4.10 Assumptions

TLC evaluates each on the instances of the runs.

| Assumption | Says | Because |
|---|---|---|
| `LimitAssumption`, `NoneAssumption`, both `AbsenceAssumption` | limits are natural numbers; the value for "nothing" is no other value | SQL `NULL` and Python `None` |
| `SchedulerAssumption` | bounds of the configuration; `ProbeSize >= BatchSize` | configuration.py; `max(16 * max_concurrency, 64)` and a batch of at most 64 |
| `OwnerAssumption` | owner ids of processes, kinds and sequences are owners | a fresh prefix per process |
| `DirectoryAssumption`, `ReplayAssumption` | all Episodes together suffice for a run; what is a demonstration was compiled | the slots are then used up; an admission has a case |
| `ReviewAssumption`, `QuotaAssumption`, `EnforcementAssumption` | a completed run has finitely many Episodes, numbered; positive quota; policies have their fields | record classes of quality.py and enforcement.py |
| `EpisodeAssumption`, `SanitizerAssumption` | limits of configuration.py; a redacted text is not redacted again, tools of a Domain have no forbidden name | `HashLimit` exceeds one attempt; the marker matches no pattern |
| `TaskAssumption` | a compiled task and its target are from the frozen state; the names it probes for are texts; no reason is `None`; `contacts`, `senders` and `projects` list texts, other fields hold one | compilation looks them up there, and a label is a text with `" (stale)"` after it |

## 5. Only model-checked, and not modelled

*Only model-checked, since the prover cannot.* Liveness (`ProcessesEnd`, `FinishedEpisodesAreKept`,
`CancelIsReported`, `EpisodesConclude`) needs `ENABLED`.

*Only model-checked so far.* `InstructedAgentsSucceed`: the Agent that follows its instruction is a definition of
the instance, and a proof would need its own translation of every instruction.

Not modelled: the text of prompts, schemas and reports, HTTP and JSON, SQLite itself (a transaction is
atomic and durable), argument parsing, operator scripts, the pilot configuration of Contacts and its
offline rehearsal (contacts.py:107-212, 547-604). Sums of text lengths are not: a text is allowed or too
long (a slot id built from a long name can exceed the 256 characters of domain.py:20). What the
sanitizer forbids and what a source may say are constants of different modules, so capacity against
the privacy gate is not stated. The grounding group of an evaluated Episode is computed from the same
semantic key as its semantic group (engine.py:1013); the model keeps one of them.

## 6. Disagreements found

*Enforced admission and a kill.* `commit_terminal` commits an enforced admission (engine.py:1480) and
records its judgment (engine.py:1487) in two transactions. After a kill between them the resumed
process takes the Episode for an unjudged one, asks the judge again and records its answer, so an
admitted demonstration can carry a `fail`. The product specification says enforcement "admits only
judge-pass Episodes" (docs/product-specs/agent-first-core-rebuild.md:284). Run
`enforced_judgment_after_kill` finds the behaviour; `scheduler_liveness` shows that the
property holds as long as no process is killed.

*A crash during startup.* `run` creates the ledger file before anything else (engine.py:511) and
writes metadata, frozen state, status and snapshot afterwards (engine.py:513-522). If the process
dies in between, or the Domain raises while it reads its source, `run` refuses the directory because the ledger
exists (ledger.py:212) and `resume` refuses it because a row or the snapshot is missing. The
issue record of that work says "a crashed process leaves it resumable"
(.scratch/agent-first-core-rebuild/issues/06-resume-and-scale-local-runs.md:18); the repository's tests for
it begin after the snapshot. Run `crashed_directory` shows the behaviour; `PaidWorkIsResumable` shows
that nothing paid for is ever in such a directory.

*A search that was never made.* A missing-document task is assessed by an action event with the missing
query and, anywhere after it, an `item_not_found` of the search tool (workspace_tasks.py:848). A search with an
undeclared argument is refused before it reaches the Domain, but its action event has lost that argument
(engine.py:2301, episode.py:437) and reads like the search that was asked for; a search for anything else then
supplies the failure. The Episode is admitted under the structural key `workspace_tasks.search.missing`,
although "Structural keys describe meaningful executed tool/state/binding/recovery topology"
(docs/product-specs/agent-first-core-rebuild.md:128). Run `undeclared_search` finds the behaviour; the theorem
of section 4.7 says that it takes a lost argument, and what such a demonstration shows all the same. What such an Episode reports is true
all the same: no document has the missing query. The probe of a stale label in the recovery routes is assessed the
same way (contacts.py:1076, mobile_messages.py, workspace_tasks.py:1749). The properties of all three Domains ask for
more than the assessments do where no argument was lost: a *failed probe* (`FailedProbes`) is the failure right after the
probe, so a search that was refused is none.

Six more were met while modelling. They have no run of their own. The first four are in the runs: the property says exactly
where the code does so and that it does so nowhere else. The last two need no property of theirs, or none yet.

| Where | What happens | What the checks say of it |
|---|---|---|
| engine.py:2301, episode.py:437 | A call with an undeclared argument is refused, but the saved action has lost that argument, so replay executes it and drifts: an Agent that recovers earns a demonstration that does not replay. | `ReplayReproduces` and its theorems: a drift comes of a lost argument, always, and of nothing else |
| workspace_tasks.py:1559, 1803 | A title of a verb and a blank is accepted from the source, its query is empty, and the run's own snapshot is refused at the resume. | `ResumeKeepsTheRun` and its theorem: refused exactly then, and never opened as another run |
| workspace_tasks.py:1715, 1649 | The comment a recovery task demands is built from a title that may have 1000 characters; a comment may have 240. The slot is counted and nobody can complete it. | `InstructedAgentsSucceed`: the instructed Agent fails on these slots (`Followable`) and the next, and succeeds on all others |
| contacts.py:1046 | A contact named "X (stale)" makes the probe for X's stale label succeed; the recovery slots of X are counted and an Agent that follows the instruction does not complete them. | the same; and `DemonstrationsAreTrue` says what such a demonstration still shows |
| engine.py:2829, episode.py:257 | Lineage holds 128 response hashes, those of lost attempts included; 65 calls, an interruption and 64 more make the record invalid, the worker raises, and so does every resume. | reached in `domain_episodes` (`phase = "raised"`); `EpisodesConclude` allows it after a restart only. No document says what should happen instead |
| quality.py:844, engine.py:1117 | A dimension may carry `critical_safety_failure` under the verdict `uncertain`; the aggregate is `uncertain` and the failure is not counted, although the specification says it "is always a fail" (docs/product-specs/agent-first-core-rebuild.md:244). | not in the instance: it takes an opinion with `"safety"` uncertain and critical in `MCOpinions` (`MCQualityReview`), and the sentence as a property of `Aggregate` |

Other observations, against no statement of the repository: an Episode that could not be opened replays as
`replay_failed`; a publication in the middle of a replay makes it report `not_executed` for Episodes that have
a case (`ReplayIsFaithful` says: only for such as were decided after it read the ledger, and the run `directory_replay` reaches it); one Episode without a task case makes its campaign ineligible for ever, under the
name `evaluation_reuses_development_evidence`; a queue chosen by an operator spoils its campaign but
not a report issued before.

## 7. What is left

Capacity against the privacy gate: the sanitizer and the slots of a source in one instance. A proof that an Agent
that follows its instruction succeeds, from a translation of every instruction (section 5).
