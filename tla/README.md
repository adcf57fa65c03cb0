# TLA+ verification of the CLC runtime (RNDeM)

The repository implements a cognitive loop: a single Python process takes
frames of sensor data, turns them into *natural frequency patterns* (NFP), keeps
them for a while in `ContextMemory`, proposes and selects actions, evaluates
outcomes and, in a *consolidation* mode, writes what it has learned into JSON
files (`ExpSM_drafts.json`, `ExpSM_data.json`). One call of
`CLCRuntime._run_tick` runs twelve phases in a fixed order; all modules
communicate through `ContextOperation`s pushed to an `ContextOpsPool` and applied by
`ContextMemoryManager`, through shared fields, and through the files.

This directory holds TLA+ models of that program, TLC configurations that check
them and TLAPS proofs. Line numbers of the code each definition models are in
`PROJECT.json` (`map`; a helper that stands for part of the lines of a definition
that uses it is covered by the entry of that one), and so is every hazard met in the code with the
properties that would catch it (`hazards`).

## 1. Inventory

| component | state it keeps | what is hard, and what makes it correct | modules |
|---|---|---|---|
| Draft → ExpSM chain (`clc/consolidation/memory_draft_writer.py`, `draft_commit_gate.py`, `expsm_commit_writer.py`, `expsm_update_review_gate.py`, `expsm_update_writer.py`) | two JSON files; sets of handled ids in each handler | two files written one after the other, failures in between, handled-sets that die with the process: one record per signature, no dangling ids, evidence counted once | `ExpSMPipeline`, `ExperienceMemory` |
| The turns of that chain | verdicts in the field, proposals, decisions | nothing is written because it is due; each link fades: nothing is written unasked | `MemoryTurns` |
| Context of drafts (enricher, relevance scorer, filters) | cards with patterns and scores | references into a memory that forgets: what is kept is the chain's own, and the best found | `DraftContext`, `PatternSemantics` |
| Memory write review, candidate builder and buffer, outcome evaluator | ids judged, handled, processed; groups per signature | windows shorter than the backlog; support counted once per event | `CandidateReview`, `OutcomeJudgement`, `Positions` (sets of positions in a list) |
| Store transaction and NFP-native create | the lock file, `ExpSM_data.json` | two writers, a crash while the lock is held, read-back outside it | `NativeCreate`, `RecordStore`, `SharedStore` |
| System mode (`clc/system/`) | mode, entry tick, depth | minimum and maximum stay, stale decisions, leaving consolidation eventually | `SystemMode` |
| Operations pool, context memory, retention | queue, event log, 36 side lists | nothing lost or applied twice; lists that stay a view of a log that is cut | `ContextLog`, `ContextFlow` |
| Neuromodulation, homeostasis, DLM, prediction, thought, consolidation pressure and processor | tone vector, handled ids | each event felt once, no update lost | `Neuromodulation`, `ContextFlow` |
| Active field, evaluation signals, field and targets, AKBSM probe and association field | activations with ttl and rate | decay once a tick, several projections a tick, crowded limits | `ActiveField`, `EvaluationChain` |
| ExpSM activation, search, similarity, competition, memory view | none of their own but cooldowns | scores and thresholds | `ExperienceRecall`, `EvaluationChain` |
| Action proposal and selection, guard | candidates with ttl, cooldowns | the best that is allowed is decided | `ProposalRules`, `ActionChoice` |
| Decision audits, summaries, reflection, policy pressure, Mode C | recent audits and summaries | one decision told several times; verdicts on verdicts | `SelfReview` |
| Outcome feedback; value feedback (observer, builder, gate, writer) | keys, counters, links in each record | ids that begin again after a restart, failed writes, cooldowns: a feedback counts once | `OutcomeFeedback`, `ValueFeedback`, `ValueReading` |
| Causal transitions, short memory, remembered actions | open transition, bounded deque | a delayed result closing another action's transition | `CausalLoop` |
| NFP-native windows, grouping, records, recall, activation, feedback | groups, records | support that is earned; a selection that is stale when acted upon | `NativeMemory` |
| AKBSM proposal lifecycle, temporary metadata, diagnostics | every version of a record; entries with a ttl | old versions asked again; expiry | `DraftProposals` |
| Pattern registry | manifest, bulk depth, dirty flag | crash between an id's first use and the save; two processes | `PatternRegistry` |
| Pattern store, ExpSM CRUD, adapter | pattern files; the data of each handle | lost updates between handles, failed and torn writes | `PatternFiles`, `ExperienceFile` |
| AKBSM CRUD, WL CRUD | node files, edge file, text file | two files per deletion, ids used again | `GraphFiles` |
| Scenario runner | fixture, verdict | a verdict read off a log that was cut | `ScenarioRun` |
| Memory mutation policy, tick runtime, core identifiers | flags; phase order; counters | modelled where they act, see the note of each in `PROJECT.json` | |
| Verification tools, docs | | test drivers | |

## 2. Plan

The order was: what owns permanent memory first (the chain, native creates),
then the mode and the causal loop, then everything that feeds the chain
(candidates, feedback), then the tick (log, tone, fields, choice), then the
files and records around it. All of it is **done**. Modules that own a store
have a promise of their own (`ExperienceMemory`, `RecordStore`) which they are
shown to implement.

Proved, in this order: the stores of the chain, the bounds of the mode, the
lock discipline and the refinement of `NativeCreate`, cause and result in
`CausalLoop` and what its short memory keeps, the names of `PatternRegistry`, the evidence and the updates of the
chain and that it implements `ExperienceMemory`, what `CandidateReview` counts,
loses, approves and reviews, what `OutcomeFeedback` counts and for whom, what
`ValueFeedback` adds to a record, and that in `ContextFlow` the lists and the tone
follow the log and each event is felt once, and the verdicts of `ScenarioRun`. Worth proving next: the entries of the
fields in `EvaluationChain`, whose lists would first have to be built without
`SelectSeq` and `SortSeq`; and that `MemoryTurns` never writes unjudged (its
`WriteDrafts` folds over a set and has to be put in closed form first).

### Modules and runs

| run | module | composed of |
|---|---|---|
| `stores`, `profiles` | `ExpSMPipeline` | (instance of `ExperienceMemory`) |
| `create` | `NativeCreate` | (instance of `RecordStore`) |
| `shared` | `SharedStore` | `NativeCreate` |
| `mode` | `SystemMode` | |
| `loop` | `CausalLoop` | → `Positions` |
| `learning` | `MCLearning` | → `CandidateReview` → `Positions`, with verdicts computed by `OutcomeJudgement`; → `ValueFeedback` → `Positions`, `ValueReading` |
| `feedback` | `MCOutcomeFeedback` | → `OutcomeFeedback` → `Positions` |
| `flow` | `MCContextFlow` | → `ContextFlow` → `Neuromodulation` → `ContextLog`; → `ScenarioRun` → `ContextLog` |
| `fields` | `MCEvaluationChain` | → `EvaluationChain` → `ExperienceRecall` → `ActiveField` |
| `records`, `memory` | `MCRecords` | → `PatternRegistry`; instances of `ExperienceFile` → `PatternFiles`; `GraphFiles`; `DraftProposals`; `SelfReview` → `ActionChoice` → `ProposalRules`; `NativeMemory`; `DraftContext` → `PatternSemantics`; `MemoryTurns` → `ActiveField`, `ProposalRules` |

`→` is EXTENDS. A module whose constants are sets of model values and numbers is
checked as it is; the others have an MC module that computes the values. `MCLearning`,
`MCContextFlow` and `MCRecords` hold several components that share no state: a
variable `component`, chosen at the start, says which of them runs, and the
variables of the others stay as they are at their `Init`. Where the variables of a
component cannot be given a harmless value its properties are
`component = "x" => property of x`. What an instantiated module's constants must
satisfy is an operator (`FileAssumption`, ...), and the MC module's
`InstanceAssumption` has TLC evaluate them all.

`CHECK_DEADLOCK FALSE` in every run: behaviours end when the bounds are used up.

## 3. The consolidation chain: `ExpSMPipeline`

### State

| variable | in the code |
|---|---|
| `drafts`, `readable` | `ExpSM_drafts.json`: one card per `draft_signature`; FALSE when the file does not parse |
| `expsm` | the `experience` section of `ExpSM_data.json`; ids are max + 1 and records are never deleted, so a sequence |
| `handler`, `step` | which handler of `_phase_02` / `_phase_05` runs and where in it the process is |
| `work` | the store copies a commit or update writer has loaded, with `draft_changed`, `expsm_changed` and the drafts still to visit |
| `reviews`, `nextReview`, `written`, `queue` | approved reviews in `ContextMemory`, counter `mem_review`, `_written_review_ids`, the reviews of the current writer run |
| `gateReviewed`, `committedIds`, `updateReviewed`, `appliedIds` | `_reviewed_states`, `_committed_draft_ids`, `_reviewed_draft_ids`, `_applied_review_ids` |
| `nextUpdateReview` | counter `expsm_update_review`, which starts anew in each process |
| `adapter`, `reloadDue` | what `ExpSMAdapter` has loaded; whether a same-tick event asks for a reload |
| `profile`, `consolidated` | the policy; whether phase 02 has run in consolidation mode (the decisions the writers look for are selected after it) |
| `restarts`, `faults` | bounds, counting restarts and `OSError`s |

A card's metrics are abstracted to the four classes `DraftCommitGate` tells
apart (`poor`, `mixed`, `fair`, `strong`); a merge may move a card to any class,
because the averages can. Patterns and scores are abstracted to what they
decide: whether a review is valid now, and whether a committed card gained
something (`gain`).

### Steps

Each handler run that saves once is one action (`ReviewCommittedDrafts`,
`ReviewDrafts`); the draft writer saves after each review, so each review is an
action (`WriteDraft`). A commit or update run is split where a failure or a
crash can fall: load (`BeginCommit`, `BeginUpdate`), one action per draft on the
copies, `ReplaceExpSM`, `ReplaceDrafts`; `ReplaceFails` is an `OSError` in either.
`Restart` ends the process anywhere; `CrashInSave` ends it inside one of the
saves that truncate the file in place. ExpSM_data.json is replaced through a
temporary file, so it never gets torn.

Not modelled here: what a card says of its situation and the duplicate cards of
older stores (section 18), what makes a decision recent (section 14; `ReturnEarly`
merges the early returns of the three writers), what makes a candidate approved
(section 7). Not modelled at all: malformed `ExpSM_data.json`, and several
processes on one store. `rejected_no_significant_delta` cannot be returned: the
condition before it repeats its threshold.

### Runs

| run | instance | what it shows |
|---|---|---|
| `stores` | 2 signatures, one prediction-only, 3 reviews, 1 restart, 1 failed write | `MemorySpec`: the chain implements `ExperienceMemory`; `StoresConsistent`: the two files agree in spite of crashes; `CommitsOnlyReady`: records come from ready cards only, under a policy that allows commits; `ReviewsMergedOnce`: evidence counted once, new reviews not mistaken for old ones; `UpdatesAreReal`: one update per process and record, and a card says it was updated only if its record was; `UpdatesEnd`: an applied update is the last one, a waiting card needs a restart |
| `profiles` (violation) | 1 signature, `safe_demo` after `mutating_memory` | the gates change the permanent draft store under `safe_demo` |

Why the bounds suffice: a card needs two reviews to become ready and one more to
be observed after its commit, so three reviews reach every status; all six
properties are proved for any number of them (section 19). One restart between the two
writes is what every crash property needs; it lets an update be applied
twice. Two signatures let one card's step interfere with
another's and let one run carry two cards.

There is no fairness and no liveness here: commit, update and store decisions are
proposed only while a pattern is active in the field, so the code does not
promise that a ready card is ever committed.

`CHECK_DEADLOCK FALSE`: a behaviour ends when the bounds are used up.

### What the checks say about the code

* A lost update: after an `OSError` on `ExpSM_data.json` the review id is already in
  `_applied_review_ids`, so the next run marks the card `updated_in_expsm`
  (`UpdatedMeansRecorded`, part of `UpdatesAreReal`, needs `faults = 0`).
* A repeated update: a crash between the two writes lets the next process apply
  the same evidence again (`UpdatesBounded` allows one per restart).
* A record is updated at most once over its lifetime otherwise
  (`AppliedIsTerminal`); later evidence never reaches it.
* A review skipped as invalid and merged after a younger one lowers
  `source_review_id`, and after a restart a new review may get an id the store
  has and be dropped (`FreshReviewIds` excludes exactly that history).
* After ExpSM_data.json was replaced and the write of the drafts failed, nothing asks
  for a reload: the event is posted behind both writes (`clc_runtime.py:644`), so the
  adapter offers the old records until the next write or restart.
* The violation run is a disagreement with a document; see `findings`.

## 4. The mode of the system: `SystemMode`

One call of `_run_tick` is the chain of actions `Feed`, `Propose`, `Select`,
`Execute`, one `Handle` per recent decision, `EndManager`, `Cleanup`.

| variable | in the code |
|---|---|
| `mode`, `elapsed`, `depth` | `SystemState.mode`, `tick - mode_entered_tick`, `consolidation_depth` in percent |
| `left`, `stale` | `ActionCandidateField._candidates`: ticks until expiry; those with `created_at_tick` before the current mode was entered |
| `cooldown` | `ActionCandidateField.cooldowns` |
| `decisions`, `todo` | decisions not yet in `_handled_decision_ids`; those the manager's loop has still to visit |
| `effects` | effects `InternalActionExecutor` announced in this run |
| `changes` | mode changes of this tick number in `ContextMemory` |

Times are relative and saturate where no comparison of the code tells them
apart, so the model has no horizon: it covers runs of any length. Scores and pressure are abstracted:
whatever the guard lets through may win or lose. Candidates of one action from
different experiences are merged into one whose time left is the youngest's.
What the depth is used for is output only. The minimum stay exists three times in
the code (manager, guard, proposer); the assumption `ModeAssumption` says that
the three agree. `DecisionsActAtOnce` shows that the manager's branches for a
decision that comes too early or in the wrong mode are dead as long as they do.

| run | instance | what it shows |
|---|---|---|
| `mode` | the code's constants 3, 6, 2, 3, 2, 8, 4; tick numbers that stay, move by 1 or leap by 4 | the mode goes round (`GoesRound`); a decision takes effect in its own tick or never, and effects announced before the change are true after it (`DecisionsActAtOnce`); no candidate to change the mode survives a change, and the clean-up window of four changes suffices (`CleanupSucceeds`); the system always comes back to `active` (`ComesBack`) |

A gap of 4 leaps over the minimum stay, the recovery and the candidates' lifetime
at once, and two of them over the maximum; a gap of 0 is several inputs with one
tick number, which the scenario runner produces.

Fairness of `FairSpec`: `WF(Running)`, because a started tick is a plain function
call that runs to its end, and `SF(NewTick)`, because the caller goes on feeding
inputs and one tick number has finitely many of them. Leaving consolidation
needs neither a decision nor luck: the maximum does it.

## 5. Native create: `NativeCreate`, `RecordStore`, `SharedStore`

`NativeCreate` is `NFPExpSMCreateWriter.create` in several threads: `Refuse`
(validator and policy), `Create`, `Load` (lock, strict load, id), `Replace` or
`ReplaceFails` (both give the lock back), `ReadBack` outside the lock, and the
caller's `Reconcile` at any later time. `LoadFails`, `ReplaceFails`, `ReadBack`
and `Reconcile` may meet an `OSError`; `Crash` ends the process anywhere. `store`
maps ids to the request a record stems from, so gaps in the ids are kept.
`log` and `orphans` are history.

Not modelled: what makes a request valid (two refusals are one status here),
the `reflexes` section, the temporary file a crash leaves behind, several
processes (documented as unsupported), a failure hook that calls `create` again
(the lock is reentrant), and an `OSError` from closing the directory descriptor
after the replacement, which the code would report as `write_failed`.

`RecordStore` is the promise: the store grows by records under new highest ids, and
an id is confirmed to one caller only, when its record is there. The property
`IsRecordStore` says that the threads implement it, with `confirmed` mapped to
the ids of the results `created`.

`SharedStore` adds `ExpSMCommitWriter`, which replaces the same file without
taking the lock.

| run | instance | what it shows |
|---|---|---|
| `create` | 2 threads, 2 valid requests and a malformed one, old ids 1 and 3, 4 calls, 2 I/O errors, 1 crash | refinement of `RecordStore`; every record has one owner; answers and reconciliations are true; nothing is lost; each call returns, as no failure keeps the lock |
| `shared` (violation) | 1 thread, 1 commit | a create erases a record committed while it held the lock |

Two threads are what a lock is about; four calls allow a retry, a repeated
request and a call after a crash in one behaviour. Fairness of `create` is
weak and per thread; a thread waiting for the lock is not assumed to get it
before others, and need not be as the number of calls is bounded.

## 6. An action and its consequence: `CausalLoop`

`NFPRememberedActionExecutionCoordinator.execute` moves the world with a
remembered action; `ContextMemoryManager` relates the action to the window of
the next tick; `ShortMemory` retains completed relations. The world is a
synthetic class of the tests (`tools/`), hence external. What calls the manager
beside the coordinator is modelled after
`tools/verify_nfp_context_short_memory.py` and is called the harness.

| variable | in the code |
|---|---|
| `applied` | the signals the world took; each moves it by one tick, so `Len(applied)` is its tick |
| `window`, `pending`, `clock`, `nextTransition` | the manager's `current_external_sensory_window`, `pending_causal_transition` (with its action frame), `_nfp_current_tick`, `_next_transition_id` |
| `completed` | `RecentCausalTransition`s in the hands of whoever observed them |
| `entries`, `shortTick`, `lastObservation` | `ShortMemory` |
| `call`, `result` | where a call of `execute` is, and what the last one returned |
| `ahead` | history: a caller passed the manager a tick the world has not reached |

A call of `execute` is split where the world may move by itself: the preflight
with materialisation (`Execute`, or one of its refusals), `ApplySignal` or
`WorldFails`, `TrackAction` or `TrackingFails`, `ObserveConsequence` or
`ObservationFails`. Callers of the manager share one thread, so nothing of theirs
falls in between. A call that an exception ends changes nothing and is left out,
except where `execute` turns it into a result. Values, predictions and similarity
verdicts decide nothing here, and neither does the counter of signals.

| run | instance | what it shows |
|---|---|---|
| `loop` | 2 topologies, 3 ticks, 2 frames, one entry of age 1 at most, clocks 1 ahead | `CauseIsReal`: the cause recorded is the real one; `ResultTellsTruth`; `RelationsInTime`: no tick is the consequence of two actions, an open relation is the newest; `TrackingNeverFails` while no clock was ahead; `ShortMemoryKeeps`: what the short memory forgot does not come back, what was observed at once is kept; `KeepsUp`: the slot frees itself and the context becomes current again |

Two frames make an action of the coordinator meet one of the harness, three ticks
leave one window after the observation of either, and one short-memory entry makes
every second relation displace the first.

Fairness: `SF(SenseNow)` is a harness that goes on showing the manager the
present window, `WF(Proceed)` a call that runs to its end. `SlotFrees` speaks of
actions the world took: a relation that was announced and withdrawn is closed by
time alone. `KeepsUp` needs that no caller's clock is ever ahead. If one is, the
manager refuses every present window until the world has caught up; where only
actions move the world, it never does, and nothing is executed any more.

## 7. From an outcome to a request to remember: `CandidateReview`

| variable | in the code |
|---|---|
| `pc`, `mode`, `processing` | where in phases 05 and 06 the tick is; `system_state.mode` (`recovery` is treated like `active` by these phases and merged with it); `active_processing` of `_run_tick` |
| `sources`, `judged` | predictions, decisions and effects in `memory.events`, with the ticks since (up to the delay); `_evaluated_source_event_ids` |
| `outcomes`, `handled` | `memory.outcomes`; `_handled_outcome_ids` of the builder |
| `candidates`, `processed` | `memory.experience_candidates`; `_processed_candidate_ids` of the buffer |
| `groups`, `ready` | `_groups_by_signature`; `memory.consolidation_candidates`, the snapshots the buffer announced |
| `reviewed`, `approved`, `reviews` | `_reviewed_support_by_group`, `_approved_support_by_signature`, `memory.memory_write_reviews` |

Each module's `run` is one action, and which of them a tick runs depends on the
mode at its begin and after the mode manager (`Work`, `SwitchMode`). An outcome's
patterns are abstracted to its core: an action (a decision and its effect share
one), a decision without effect, a prediction, a decision about the mode.
Averages are compared without dividing, as sums of hundredths; the few roundings
of the code cannot move them across a threshold with the verdicts used. Verdicts are not free: `MCLearning` gives situations, and `OutcomeJudgement`, which is
`OutcomeEvaluator`'s judgement of predictions, decisions and effects, computes
them. The
`expired` outcome is in the evaluator's table and is never given. Priorities and
expiry of groups decide nothing and are left out.

The run `learning` (`MCLearning`) checks this module and `ValueFeedback` (section 9),
which share no state.

| property | what it says |
|---|---|
| `SupportIsEvidence` | a group's support is the number of events behind it |
| `LostOnlyInBursts` | an outcome is lost only in a backlog larger than the builder's window |
| `ApprovalsAreEarned` | an approval has two events that came out alike and a complete core, and what it calls confirmed was borne out by more than the tone or, of a prediction, the prediction itself |
| `ReviewsCatchUp` | a ready group is announced with its present support; the review keeps up and does not repeat itself |

The instance: 4 events, windows of 2, 3 and 2, delay 1; situations whose verdicts
lie on different sides of the thresholds.

Four events overflow each window and make two groups of two; windows keep the
order of the code's (16, 24, 16): the candidate window is not smaller than the
outcome window, which `ReviewAssumption` states. `ReviewsSaySomethingNew` also says
that the branch `rejected_duplicate` is dead. The model shows that the decision
and the effect of one action are two supports of one group.

## 8. What an outcome does to an experience: `OutcomeFeedback`

| variable | in the code |
|---|---|
| `pc`, `tick`, `mode` | the part of the tick; its number; `system_state.mode` |
| `events` | `memory.events`: predictions, activations, decisions (with their source metadata) and outcomes |
| `processed` | `_processed_keys` |
| `store` | `hits`, `misses` and `applied_feedback_keys` of each record in `ExpSM_data.json` |
| `restarts`, `counted` | bound; history of the feedbacks that reached the file |

`Feedback` is a whole `ExpSMOutcomeFeedback.run`: the loop over decisions of
mechanisms, then the one over activations and the decisions each may claim;
`WriteFails` is an error of the write after any number of them, which nothing
catches, and `Stop` an end between ticks. Both are followed by a new process, whose
ids begin at 1 (`Number`). A feedback is a hit or a miss; a partial hit is a hit
whose own counter is left out. Confidence and repeatability are functions of the
counters. Every experience recommends the action of every decision, so all
claims the code could make are made.

The run `feedback` checks two properties. `CountedOnce`: a key counts once per process and not again while the
file remembers it (`ReplayIsBounded`), and the counters are the feedbacks
(`CountersAddUp`). `SourcedDecisionsCount`: a sourced decision is counted for its
experience only, and each of its verdicts is counted. Both are proved (section 19). The instance: 2 experiences
(symmetric), delay 1, one remembered key, 3 ticks, 2 activations and 1 decision
per process, a foreign outcome in the first, 1 restart.

One remembered key with two activations lets a key be forgotten and recur, which
is why `ReplayIsBounded` speaks of a distance and not of once and for all. A rule's
decision may be counted for any experience activated shortly before; the code
treats this as evidence on purpose (the short-memory boundary document says so),
and `SourcedDecisionsAreOwned` excludes exactly it.

## 9. The value of an experience: `ValueReading`, `ValueFeedback`

`ValueReading` has the three judgements: how `TargetSatisfactionObserver` reads
effects, outcomes, signals and activations around a decision (status, score,
strength), what type, direction and strength the candidate gets, and what the gate
decides. `ValueFeedback` puts them in time; each tick any of the situations in
`Evidence` may be found.

| variable | in the code |
|---|---|
| `module`, `clock`, `systemMode` | the module of phase 07 about to run; tick; mode |
| `decisions`, `observations`, `valueCandidates`, `valueReviews` | the lists of `ContextMemory`; the last element of a source is also what `_emitted` and `_reviewed` remember of it |
| `appliedIds` | `_applied_review_ids` |
| `record` | `value_feedback` of the record: counters, totals and `target_links` |
| `allowed` | `allow_value_feedback_update` of the policy |
| `faults`, `process`, `updates` | bound; number of the process; history of the reviews added to the file |

`Observe`, `BuildCandidates`, `ReviewCandidates` are the `run`s of observer, builder
and gate; the writer's is `UpdateRecord`, `UpdateFails` (the file cannot be replaced
or does not parse) or `UpdateNothing`; `NextProcess` is a restart. The trimming of the
emission memories to 128 entries is left out: with windows of 12 and 16 no trimmed
source is met again within a cooldown.

In run `learning`, `ValueIsEarned` says of this module: a review is added once, and
across a restart its number is not taken for a new one while a link names it
(`ReviewsCountOnce`); two updates about one candidate rest on reviews at least a
cooldown apart, and two candidates about one observation are too
(`RepetitionIsPaced`); the record is what adding the updates one by one makes, its
counters are their number in each bucket, its links the last ids (`RecordAddsUp`); and
what was good counts as good and what harmed as harm (`CountedOnItsSide`).
`FailuresAreMadeGood` says that what a failed write left out is added by the next that
succeeds.

`RepetitionIsPaced` does not say that the updates of a candidate come in the order of
its reviews, because they need not: after a restart an old link can hide a review with
its number, which is added behind younger ones of its candidate when the link has
gone. That takes a larger instance than this run's (6 ticks and a long candidate
cooldown); the proof of section 19 covers it.

The instance: 1 decision, 4 ticks, windows and cooldowns of 2, 1 failed write, 1
restart, four situations. Four ticks are two cooldowns, so each module repeats
itself at least once and a window overflows. Unchanged evidence is counted again
and again, at the pace of the cooldowns. There is no fairness: nothing promises
that consolidation comes while a review is in the window.

## 10. The tick as a flow of events: `ContextLog`, `Neuromodulation`, `ContextFlow`

`ContextLog` is `ContextMemory` with its manager and the retention policy: the
log of all operations, one side list per marker, frames, windows, the current
tone, the cut after every drain and the diagnostics about it. A memory is a value
that operators turn into the next; what a loop of the code picks from a list is a set of
positions of it (`Positions`). `Neuromodulation` has one operator per handler
of `NeuromodulationModule` and `HomeostasisModule`: how a window of events shifts
the eight dimensions of the tone, in thousandths, and what it remembers.
`ContextFlow` runs them in the order of `_run_tick`:

| action | phases of `_run_tick` |
|---|---|
| `Feed` | an input becomes a frame, or is only noted during consolidation |
| `LabelInputs`, `Predict`, `FeelInputs`, `Think` | DLM labels, prediction, tone, thoughts from frames; labels and prediction also write the windows they look through |
| `Press` | consolidation pressure from backlog and tone |
| `Act` | decisions, effects and what follows, the mode manager; the events of other modules are a burst of any kinds |
| `Consolidate` | the consolidation processor, its effect and its relief |
| `Project` | the handlers of phase 07 and of the end of the tick |
| `Settle` | homeostasis |

| property | what it says |
|---|---|
| `ViewsFollowLog` (`ToneIsTheLog`, `SideListsFollowLog`) | the tone is the initial one with every update's shift applied in order: no update is computed from a tone another has changed meanwhile; the lists are a view of the log after every cut, and the diagnostics report nothing older than the log except windows that span the cut |
| `FeltExactlyOnce` | an event moves the tone once, though it stays in windows for ticks, the tick may be fed twice and outcomes are read in two phases; nothing is left unfelt but by a burst larger than a window; only the relief of the processor may be felt twice |

Both are proved for all bounds (`ContextFlow_proofs`).

The bounds of `flow`: 12 events in the log (the code: 5000), lists of 3, windows
of 2 (8 to 12), four feeds of which two may name one tick, two changes of mode,
one burst of each kind in each status the handlers tell apart. Bursts of
three overflow a window of two and four feeds overflow the log, which is all
the properties are about.

## 11. Scenarios: `ScenarioRun`

A fixture is loaded or refused (`Load`), its inputs are applied tick by tick
(`Apply`: the synthetic summaries, the burst, the tick of the runtime, of which
any events may come), other programs may meanwhile change the real files
(`Touch`), and `Judge` computes summary and verdict. `VerdictIsSound` relates the
verdict to everything that ever happened, of which the runner sees only what
retention left. One fixture of each shape the loader accepts and of each kind it
refuses, with the limits of `flow`; three fixtures have bursts that overflow the log.
The property is proved for any fixtures and limits that `ScenarioAssumption` admits
(`ContextFlow_proofs`).

## 12. What is active and what is valued: `ActiveField`, `ExperienceRecall`, `EvaluationChain`

`ActiveField` is the field of active patterns with what each of the 30 handlers of
`FieldUpdater` touches. `ExperienceRecall` is how records are found (activation,
mechanism search, value feedback in the score, similarity, competition).
`EvaluationChain` puts them into the phases of a call of `_run_tick`:

| action | phases |
|---|---|
| `Begin` | 00 to 02: early projections, decay, ExpSM activation |
| `Act` | 03 to the mode manager in 05: decision, rivals, effects, mode changes, and `ModeTransitionCleanup`, which takes the actions of a transition that is over out of the field |
| `Store` | the rest of 05: the memory chain, similarity |
| `Evaluate` | 06: outcomes, evaluation signals, evaluation field |
| `Aim` | 06: targets |
| `Search` | the end of 06: AKBSM probes, association field, mechanism search |
| `Sleep` | 06 is skipped, in consolidation or in a call that began in it |
| `Close` | 07 to 09: value feedback, candidates, tone, homeostasis; the updaters of the evaluation and association fields run a second time |

The tick number is the caller's: a call may have the number of the last one, or leave
some out. Both updaters look at the latest 24 signals or probes, remember up to 512 ids
of those applied and fade their field once a tick (`Unapplied`, `Remembered`, `Aged`).

| property | what it says |
|---|---|
| `FieldIsTrue` (`ModeShown`, `FieldFollowsLog`) | the field never shows a mode the system is not in, whatever comes late; what the field says of a pattern is what the last operation that touched it said, and what was touched in this tick is shown, unless its mode was left or its transition ended (a decision to change the mode is taken out in the tick it was projected in) |
| `DecayIsStepwise` | an entry loses its rate for each tick that passed, once, however often the updater runs, and disappears only by expiry, by faintness, with its mode, or with its transition |
| `FieldsTrackLog` (`ValuesTrackSignals`, `LinksTrackProbes`) | what a field says lies between the last signal (or probe) and the highest one, faded by the ticks since: nothing is applied or faded twice by the two runs of an updater in a call or by two calls of one tick. Only after the first cut of the remembered ids may a recent signal be applied again |
| `NoneIsOverlooked` (`JudgedUnlessCrowded`, `ProbedUnlessCrowded`) | what happens in a tick is judged once, by the first call of that tick that is awake, unless earlier events fill the limit; an observed target has been probed within four ticks, or the call was full |

Bounds of `fields`: three calls whose ticks repeat, follow or leap (by 0 to 2), two
phases with operations of their own among those of every kind the updater knows;
per call 2 signals (code: 5), 2 targets (5), 1 probe (3), 1 target searched for, 1
similarity group (5); the updaters see 2 recent ones (24) and remember 5 ids (512), of
which a cut leaves any 2 (256). A call thus overflows each limit, and the ids are cut
while signals that were applied are still recent.

## 13. What is decided and what is thought of it: `ProposalRules`, `ActionChoice`, `SelfReview`

`ProposalRules` is every rule of `ActionProposer` as a table. `ActionChoice` is the
candidate field (merge, decay, scores, cooldowns, keys) and `DecisionSelector`
under `ModeActionGuard`. `SelfReview` continues the tick: audits, summaries,
mechanism searches and, in phase 10, the chain of read-only views.

`DecisionsAreReviewed` is four properties: the best allowed candidate is decided
unless the list of the top ones is full of better, silenced or blocked ones
(`BestUnlessCrowded`); remembered experience is gone from the field when a
consolidation has lasted a ttl (`ExperienceIsForgotten`); a decision is summarised
at once and then at most every `Again` ticks (`RecountedSlowly`); a verdict needs so
many observations and as many decisions as add up to them (`VerdictsAreEarned`).
Bounds: top list 2 (code 20), search window 2 (8), minimum stay 1 (3), exit rule
after 1 (3), windows 2 and 4 (12 and 20), repetition after 2 ticks (6), 3
observations (5), four ticks with one input each. What makes a candidate new in the
field (`Fresh`) is its key, which has the activation or search it came from.

## 14. When the chain gets its turn: `MemoryTurns`

The writers of section 3 act on decisions. Here the files are given and the way
to a write is modelled: a verdict of a reviewer is active in the field while
it fades (`Sense`), the proposer proposes the action its pattern asks for and the
selector may take it (`Choose`), the mode may change (`ChangeMode`), and in
consolidation the reviewers and writers run in their order (`Approve`,
`WriteDrafts`, `Gate`, `CommitDrafts`, `UpdateRecords`). `Restart` empties the
process. Numbers of the field and of the rules come from `ActiveField` and
`ProposalRules`.

`WritesAreAsked`: nothing is committed or updated that this process has not
judged, the commit with all its evidence; its decision was taken after some draft
was found due, at most `Reach` ticks ago; a draft asks at most twice for a commit
and once for an update. `Reach` is exact: one less is refuted by TLC. Bounds: ttl 3,
2, 3 (14, 16, 14), proposals 2 (3), decisions count for 1 tick (4), five ticks,
three reviews of two cards, one restart, profiles `draft_only` and
`mutating_memory`.

## 15. Files: `ExperienceFile`, `PatternFiles`, `GraphFiles`, `PatternRegistry`

`ExperienceFile` is `ExpSM_data.json` under `ExpSMCRUD`: handles load it once,
change their copy and write the whole of it; `ExpSMAdapter` reloads it and
`PatternStore` (`PatternFiles`: what it reads out of files of nine shapes, and
likeness) says what matches a frame. A condition can be resolved if it is a
pattern of the store or an id of the runtime (`pat_...`, which is like nothing in the
store); a section without a live record that can be gets a record of the demo. `GraphFiles` is `AKBSM_CRUD` and `WL_CRUD`.
`PatternRegistry` is the manifest of pattern ids in several processes: `Start`
reads it, `AddDefault` and `Register` number names, `bulk_update` is `BeginBulk` and
`EndBulk`, and `UseId` stands for a memory file written with an id. A save is three
things: opening a temporary file of a fixed name, which empties it (`WithSave`), filling
it, in one piece or several (`FillPart`, `Fill`), and moving it over the manifest (`Move`). Two
processes may have the same file open, and one may move what the other has half
written, or both have written into, over the manifest. Its specification is `RegistrySpec`.

`FilesKeepTheirRecords`: no record is lost and no id used again unless a handle
saved without knowing the last save or a caller named an id that was taken
(`NothingLost`); the adapter offers what was live when it read (`OffersAreLive`); an
edge joins the nodes it was made for, unless a deletion was cut short
(`EdgesJoinTheirNodes`); a line stands alone (`LinesStandAlone`). `IdsKeepTheirNames`: unless two processes
were on the manifest at once, a pattern id means what it meant and is of the class it
was, whatever crashed, and no process runs on a manifest that cannot be read; even of
two at once, what each has to save could be read again. What is on disk after an
overlap may be neither's, or unreadable.

Bounds: two handles, three operations, ids to 3, one failed or torn write; graph
ids to 2, three births; texts of 5; two registries, two crashes, six first
manifests of which three are invalid. `memory` (violation) shows that a conversion
may take the id of another record.

## 16. Drafts of associations: `DraftProposals`

Provider, controller, adapter, placement and three layers of diagnostics.
`ProposalsStayDrafts`: no path of a record leads from a rejection to an acceptance
or out of expiry, though every old version may be asked about again
(`PathsEndWell`); nothing shown as active is older than the ttl of its record,
unless its caller named a later end (`NothingOutlivesItsTtl`); the layers agree
and no constructor refuses what the layer below gives (`LayersAgree`). A request
carries notes of its own, perhaps none, which replace those of the record (`Moved`). Two probes,
four policies, three kinds of openings, ticks to 2, four versions.

## 17. NFP experience: `NativeMemory`

The steps of a caller, in any order: windows are assembled (`Sense`), actions
move a lamp in a row of three columns (`Act`), completed transitions are observed,
proposed and created as records, recalled, acted upon (`Execute`, `Refuse`)
and judged (`Evaluate`). Similarities, signed effects and thresholds are
computed. `MemoryIsEarned` says of it: a record stands for as many occurrences as its
support says, all alike (`RecordsAreEarned`); an action starts from a recall of what
was just seen (`ActsOnWhatItSees`); a hit or miss is judged by the transition its
action opened (`VerdictsAreItsOwn`). A recall is made from a window that the manager
or the assembler has, or from an imagined one (`Recallable`); the tick an execution is
given is taken to be that of the window it was recalled from, which the code leaves to
the caller. Nothing is created in a store with a record that cannot be read
(`Readable`). Failures are in `CausalLoop` and `NativeCreate`.
Bounds: three columns, windows of two, four ticks, two records, five preloaded
stores of which two do not parse.

## 18. What a draft knows of its situation: `DraftContext`, `PatternSemantics`

A review of a chain refers to a candidate, it to experiences, they to events and
frames; all of these may be forgotten (`Forget`), while field and tone move on
(`MoveOn`). `Write` looks for the IF patterns along these references, filters them
by what `PatternSemantics` infers of their names, scores them, merges them into the
card and coalesces cards of older versions; `Gate` judges cards. `MemoryIsEarned`
says of it: what is in a card was found through the chain's own references, or is
a tone of its family (`ContextIsOwn`); merging keeps the best (`BestAreKept`);
reviews count once and averages stay between what was averaged
(`ReviewsCountOnce`). Bounds: IF limit 4 (8), 2 active, label and final patterns (5),
two experiences, two reviews, two things forgotten, one pair of old cards.

## 19. Proofs

Each theorem holds for every value of the constants that satisfies the named
assumption. The argument is the same throughout: an inductive invariant, one
lemma or step per action, and the property from the invariant.

### `Stores_proofs`: the chain

`Stores_proofs` speaks of two components that share nothing but that they keep their
state in files: `ExpSMPipeline` and `PatternRegistry`.

Proved for every finite `Sig` and all bounds, assuming only
`PipelineAssumption` and `NoDraftAssumption` (the sentinel is not a card):

* `TypeCorrect`: `Spec => []TypeOK`. `TypeOK` is not inductive alone: the drafts
  a writer has still to visit must be cards (`TodoPresent`).
* `StoresAgree`: `StoresConsistent`, that is `UniqueSignature`, `CommittedHasRecord` and
  `CommittedIffExperience` hold always. They speak of the files, but a replacement
  installs the copies, so the inductive invariant `StoresInv` adds `CopiesInv`:
  during a writer's run the copies satisfy the same three facts, the copied
  records extend the file's, final cards are kept, and once ExpSM is replaced the
  copy of it is the file. `DiskStep` reduces the actions to four ways a step can
  change the files.
* `FinalsStay`: the action property `FinalStatusIsFinal`, from the same invariant.

`StoresInv` was model-checked on the instance of `stores` before the proof.

The rest of the chain follows from the same assumptions: `ReviewsMerged`, `CommitsEarned`,
`UpdatesHappen`, `UpdatesDoEnd`, and the refinement `MemoryRefined`. All rest on
`HistoryInv`, which is the invariant of the stores with

* `CopiesKnown`: a copied card has the evidence of the card in the file, and what is
  still to be visited is a card a writer may write;
* `LifeInv`: the fields of a card that tell the life of its updates fit together
  (`LivesFit`), what the gate and the writer remember of this process is on the
  cards (`ReviewedHere`), and a writer only runs after the gates (`GateHasRun`): this
  is why no approval of an earlier process is applied unseen;
* `RecordsInv`: the copied records are the file's, each with at most one more update,
  and new ones have none.

Each property adds what it speaks of. `EvidenceInv`: the counter of review ids is
ahead of all of this process, and the late merges of an earlier one show.
`ReadyInv`: a card that is ready has earned it, and the records about to be added
are those of cards still ready in the file. `WritersAllowed`: a writer that runs was let
in by the policy, which does not change while it does. `CountsInv`: the update of a record that
this process may add is that of a card with an applied review. `RecordedInv`: while
no write has failed, what the cards say was updated was, on file and on the copies.
For the refinement every step of the chain is shown to be a `Learn` of the
signatures a commit writer adds, a `Strengthen` of those an update writer raises,
or a stutter. All parts were model-checked before they were proved.

### `Stores_proofs`: the pattern registry

For any handles, names and first manifests, assuming `RegistryAssumption` (which
`MCRecords` has TLC evaluate): `IdsMeanTheSame`, that is `IdsKeepTheirNames`. `SoundInv` holds whatever processes
run: what is in memory is well formed and can be saved and read again with the same
classes, and every name in the files is one that can be inferred. It does not say that
the files are well formed, which two processes can spoil. `AloneInv` holds as long as no two processes have
overlapped: the only process keeps the manifest's names and the manifest is valid; while
it writes, the file it has open is the temporary one and nobody else's; while it moves,
that file is its data; nothing is dirty outside a bulk update except while it is saved;
and every id a file may hold is in the manifest. The second needs all its parts: an id
keeps its name after a crash because it was in the manifest before it was handed
out, and a manifest stays readable because a half-written file is never moved by the
process that is writing it.

### `SystemMode_proofs`

For every set of actions and all limits that satisfy `ModeAssumption`:
`TypeCorrect`, `StaysAreBounded`, `DecisionsTakeEffect`, `CleanupSuffices` and
`ModeGoesRound`. The invariant is `TypeOK` with four parts: at most one decision
is pending and it was let through by the guard in this very state
(`DecisionInv`); while a tick number has seen changes no time has passed since
the last, which is the mode, and a second one can only have been the entry into
consolidation (`ChangesInv`); candidates from before the
mode change are removed by the time anything selects (`StaleInv`); and the
limits themselves (`Bounds`).

### `NativeCreate_proofs`

For any finite or infinite set of threads and requests and all bounds, assuming
`CreateAssumption`: `TypeCorrect`, `OneOwner`, `TruthIsTold`, `NoRecordIsLost` and
`Implements` (the refinement of `RecordStore`). The invariant adds to the
properties that a loaded copy is the current store until its lock is given back
(`LockInv`), that the store has a highest id (`HasTop`, so that a fresh one
exists without an induction over finite sets), and that each owner's record is
what it asked for (`OwnersInv`).

### `CausalLoop_proofs`

For any topologies, bounds and clock lead, assuming `LoopAssumption`:
`LoopTypes`, `RelationsNameTheRealCause`, `ExecuteTellsTheTruth`,
`ConsequencesAreSingle`, `MovedWorldIsTracked` and `ShortMemoryIsSound`. The
invariant has four additions. `ManagerInv`: every completed relation was observed
at the manager's clock at the latest, and an open one waits for a tick beyond
all of them. `CallInv`: a frame's serial is below the next one wherever it occurs,
so a fresh frame is not among the signals the world took; after the world took it
a call's frame stands at its own tick. `Discipline`: while no clock has been
ahead, the manager's clock is at most the world's, and a frame that passed the
preflight stays trackable until it is tracked.
`ShortInv`: what the short memory was given last is the end of its list, or the list is
empty and that observation too old for it; everything in it is a completed relation;
while execute observes, the open relation is that of its own action; and while no clock
has been ahead, the memory's time is at most the world's.

The three parts of `ShortMemoryIsSound` follow. Cutting by age and by number keeps the end
of the list, unless it is too old itself (`RetainedIs`, `RetainedEnds`). A relation handed
over again is either older than the last one, which is refused, or is the last one itself
(no tick is the consequence of two actions), which is still in the list or too old. And a
relation just completed is newer than all the memory was ever given, so it is not refused
(`ConsequenceKeeps`).

### `CandidateReview_proofs`

For any verdicts, delay, windows and number of events that satisfy
`ReviewAssumption`: `SupportCounts`, `LossesAreBursts`, `ReviewsDoCatchUp`, and
`ApprovalsEarned`, which assumes in addition that the verdicts are those
`OutcomeJudgement` gives of some finite events (`JudgedFrom`) and nothing of what
those events are.

`LoopRuns` says that the loop of the review passes through one state per
announcement, and `ConfidencesAre` unfolds the folds of the confidence.

`CountInv` is what `SupportIsEvidence` needs to be inductive: every outcome is of an
event of its own, judged as its kind may be (`OutcomesInv`); every learnable outcome
that was taken up has one candidate (`CandidatesInv`); a candidate the buffer has not
seen is within its window and exists only between builder and buffer (`WindowInv`,
where the candidate window must not be smaller than the outcome window); and a group
counts its processed candidates (`GroupsInv`). `BurstsInv` adds, for what is lost, that
before the builder runs everything new and recent is still to be taken up. `ReadyInv`
says that announcements are snapshots of groups that have only grown since,
`AnnouncedInv` that they follow one another with growing support and the last one of a
ready group is all there is, and `ReviewsInv` that what the reviewer remembers of a
group is at most what was announced of it and at least what it has reviewed. The
review's claim about one step (`ReviewsCatchUp`) follows from the last announcement of
a group being in any window that holds one of it. That what is confirmed was borne
out (`ConfirmedIsBorne`) is arithmetic: the tone supports an effect by at most one
check of two, which is below `confirmed_ratio`. All parts were checked as invariants of
the `learning` instance before they were proved.

### `Feedback_proofs`: outcomes

For any experiences, delay, key window, ticks and restarts that satisfy
`FeedbackAssumption`: `FeedbackCountsOnce` (`CountedOnce`) and
`DecisionsCountForTheirOwn` (`SourcedDecisionsCount`).

`EventsInv` speaks of the log: every event rests on one before it, and when the
feedback runs in active mode everything old enough has been judged. `CountInv`
relates the file to the history of all feedbacks, across processes (`Fine`): the
counters of an experience are the hits and misses about it (`AddUp`); its list of keys
has those of the last `KeyWindow` feedbacks about it, in their order (`KeepsLast`);
two feedbacks with one key are of two processes and more than `KeyWindow` apart
(`Bounded`); what was counted in this process is among its processed keys
(`Processed`); and a sourced decision was counted for its own experience (`Owned`).
`Bounded`, which is the property, is not inductive alone: that a key has left the file
follows from `KeepsLast`, and that it was counted in an earlier process from
`Processed`.

One run makes many feedbacks, and a failed write ends it after any of them, so the
invariant is carried through the loop: `ClaimsAre` says what list of claims the two
loops of the code go through, `ClaimsAreSound` that each rests on a decision and an
outcome in the log, `StepIsFine` that one claim keeps `Fine`, and `LoopIsFine` that a
list of them does. `JudgedInv`, for the other half of `SourcedDecisionsCount`, says
that after an active tick each old enough decision of a mechanism or an activation
has its key processed; it needs that the loop reaches every claim (`OwnIsClaimed`).
`EventsInv` and `CountInv` were checked as invariants of the `feedback` instance.

### `Feedback_proofs`: values

For any evidence, cooldowns, windows, links and bounds that satisfy `ValueAssumption`
(what memory shows is an amount from 0 to 1000, an outcome has one of its four
statuses): `ValuesAreEarned` (`ValueIsEarned`) and `NoReadyReviewIsLeft`
(`FailuresAreMadeGood`).

`ListsInv` says that each element of the three lists rests on one before it, and that
a review decides what the reading of its candidate says. `PacedInv` says of candidates
and reviews that those of one source keep its cooldown; with the last of a source all
before it keep the distance (`PacedGrows`). `AddedInv` relates the file to the
history: the record is what adding all updates to an empty one makes; the updates of
this process are copies of its reviews and exactly those it remembers (`Copies`); one
review is not added twice (`OnceIn`), nor two of one candidate within its cooldown
(`ApartIn`). That an id is new to the process follows from `Copies`; that it has left
the links, so that an equal one lies more than `LinkWindow` back, from what the links
are (`ReplayIs`, `ForgottenIsFar`). `AddingMore` is the reason why one replacement of
the file for several reviews is as good as several.

On which side a review counts is arithmetic over the reading, the candidate, the
review and the counter (`ReadyIsClear`): what is neither satisfied nor harmed has a
score between -350 and 200, so the strength of its candidate is below the 700 that the
review asks for. The sums and folds this needs are shown to be numbers and to go
through their list step by step (`TotalIs`, `AddingRuns`). All parts of the invariant
were checked on the `learning` instance.

### `ContextFlow_proofs`

For any inputs, bursts and phases shown, any windows, retention limits and number of
feeds: `ViewsAlwaysFollow` (`ViewsFollowLog`) and `FeltOnlyOnce` (`FeltExactlyOnce`).
Assumed are `LogAssumption` and `WindowAssumption` (limits and windows are at least
one) and `FlowAssumption`: ticks do not go back, and the burst that stands for the other
modules holds finitely many events of known kinds, none of them a tone update or a
consolidation pressure, which have one source each in the code. Nothing relates the
windows to the limits, so a handler may see fewer entries than its window asks for.

The invariant `FlowInv` has four parts, which were checked on the instance of `flow`
before they were proved.

* `MemoryInv`. That a list is the end of what the log has of its marker is not
  inductive: an entry that is cut from the log stays in the list if it is of the tick
  the log then begins in. So the parts speak of single entries. In the log and in
  each list ids grow and ticks do not fall (`LogInv`, `ListInv`); an entry with an id the
  log still reaches is in the log, any other is of the first tick of the log; and an
  entry of the log that is missing in its list was pushed out by a full list of newer
  ones (`ViewInv`). `AppliedKeeps` shows that adding operations and cutting both keeps
  this, for any operations with new ids of the current tick; `ListFollowsLog` and
  `ReportFollowsLog` derive what the property says. `AppliedSees` says what a cut
  does to the sight of a reader: what any window shows afterwards it showed before, or
  it is new.
* `RunInv` and `FeltInv`: the ids given out are below the next one; an update rests on
  handled events or told reliefs; two updates share only reliefs, of which one that is not
  yet handled is in the basis of at most one update (`Twice`); and the tone is the fold of
  all updates (`ToneStep`, `ToneMovesOn`).
* `PressuresOnce`: no pressure is of a tick later than the last one the module saw.
* `Heard`: all a handler sees of the current tick is handled. It holds of effects at the
  end of every phase and of all 26 kinds after the projection. Here the order of the
  handlers matters: none adds events of a kind that another has been through
  (`HandlersHear`, `ProjectedHears`).

Every phase is shown to be a move (`Moves`): it keeps `RunInv` and `FeltInv`, forgets
nothing that was handled, and shows readers nothing new but operations of some
markers. Moves compose (`MovesOn`), so the 26 handlers and the phases are each one
lemma, and what is handled in one stays handled through the next unless its own
marker is added (`StaysHeard`). The label modules add one label at most of the latest
frame (`FramesAre`, `NoveltyFinds` and its like), and the windows they and the predictor
write are no older than the log (`WindowsAdded`).

`VerdictsAreSound` proves `VerdictIsSound` of `ScenarioRun`, whose log is the same
`ContextLog`. It assumes `ScenarioAssumption`, which only gives the data its shape: inputs,
summaries and batches are lists, ticks and counts are numbers, and a retention result is not
`NoValue`. The invariant (`ScenarioInv`) relates, while the run goes on, the log to all it
was ever told: the log is the end of it (`LogEnds`). What the last drain reports is not
about the earlier ones, so `RetainedInv` says why it may be read as if it were: its `pruned`
is positive if and only if the log is shorter than all it was told. That is inductive
because a log of which anything was ever dropped is full (`LogEnds`), so that a drain onto
it drops something again (`LogGoesOn`, `DrainsGoOn`). A side list is within its limit once
there was a drain, and its decisions are no older than the oldest tick the drain reported
(`ListsAreCut`). `FoldApplies` and `FlatTells` take several drains as one fold;
`JudgedIsSound` derives what the property says, for which `LateMarkers` relates the sequence
the runner reads to that of all events, `FirstBefore` says what first occurrences in order
mean, and `CountsAddUp` that how often each entry occurs adds up to the length of a list.

### `Positions_proofs`

The lemmas about positions in a list that `CausalLoop_proofs`, `CandidateReview_proofs`,
`Feedback_proofs` and `ContextFlow_proofs` share. The library's theorems of induction take an operator
as a parameter, which the provers cannot instantiate, so the module begins with an
induction principle about a set of numbers (`NatSets`), which the pigeonhole principle
of `FiniteSetTheorems` gives; a proof by induction defines the set of the numbers for
which its statement holds. From it follow that a finite set of positions has a list
in ascending order, so that `InOrder` is what it says (`CanBeListed`, `InOrderLists`),
that a list of lists can be joined to one (`CanBeFlattened`, `FlatIs`), that
greatest and least elements exist (`GreatestIs`, `LeastIs`), and that a fold over the
first numbers has the recursive function its definition chooses (`FoldsExist`). `Joined` and `JoinedSet`
say what a concatenation contains.

### What is only checked

`ComesBack`, `CallsReturn` and `KeepsUp` are liveness, which TLAPS does not prove, as
it does nothing about ENABLED. The properties of the fields
(`FieldIsTrue`, `FieldsTrackLog`, `NoneIsOverlooked`, `DecayIsStepwise`) are about lists
of activations that are sorted and selected with `SelectSeq` and `SortSeq`, whose recursive
definitions the provers cannot unfold. Of the components of
`records`, the files, proposals, decisions and native memory
(`FilesKeepTheirRecords`, `ProposalsStayDrafts`, `DecisionsAreReviewed`,
`MemoryIsEarned`) are checked only; these properties join several components that run one
at a time in one instance, and nothing in them is out of the provers' reach in
principle. All other properties of the passing runs are proved.

## 20. Findings and observations

Three disagreements with what the repository says of itself are shown by the runs
`profiles`, `shared` and `memory`; `findings` in `PROJECT.json` quotes both sides.
What follows are consequences of the code met while modelling, which no document
contradicts.

Learning:

* Any outcome or effect within three ticks of a decision is taken as evidence about
  its target, whatever caused it. A `mixed` value review can never be ready (its
  strength is below 0.7), so the `mixed` and `inconclusive` counters stay 0.
* After a restart a value review may be hidden by an old link with its number and be
  added when the link has gone, behind younger reviews of its candidate. An earlier
  form of `RepetitionIsPaced`, which took the updates to be in the order of the
  reviews, held on the instance of `learning` and failed on a larger one when its
  proof was tried.
* A prediction with ttl 6 fails only when it is judged late; otherwise it is
  inconclusive for ever.
* An effect counts its own memory candidate as a check that has come true
  (`outcome_evaluator.py:182`): `store_memory_candidate` is confirmed when the tone
  follows, whether or not its effect was ever felt.
* A card with a tone among its IF patterns is rejected for good: the class `tone` is
  material for a draft, and technical for the filter `DraftCommitGate` uses.
* The scorer's branch `rejected` cannot be reached.
* One decision serves its writer for five ticks and may commit cards judged after
  it; a store decision may precede the review it stores. A ready card asks at most
  twice per process and evidence for its commit, and then waits for another card's
  verdict or a restart. An update verdict of `wait` is final in the process.

Context and fields:

* The consolidation processor's relief is felt twice when a tick number is fed again
  and an action is decided.
* Windows that span the cut of the log are reported as stale although they are kept.
* The evaluation field updater cuts its memory of 512 ids to an arbitrary half, as it
  is a set (`evaluation_field_updater.py:36`), so a signal among the latest 24 may be
  applied again, and what others say of the same pattern be weakened once more.
* A decision to enter or leave consolidation, and one to store a candidate when recovery
  is entered, leaves the active field in the tick it was projected in, when
  the mode changes (`mode_transition_cleanup.py:31`); another call of that tick takes
  it out again.
* Ids of temporary metadata can repeat after expiry. The observation view looks for
  `transition_result_metadata`, the adapter writes `controller_result`. A pending
  write status never changes.
* `store_memory_candidate` is proposed only at low risk, but its candidate lives on
  its ttl when the risk has risen. Silenced candidates may fill the selector's top list.

Scenarios:

* The oldest tick is that of the first event, not the smallest one, so a burst with
  later ticks makes side lists drop what the log still holds.
* Inputs beyond `max_ticks` are skipped silently. Markers that retention dropped
  count as missing where they are required and as absent where they are forbidden.
  `memory_unchanged: false` in a fixture still fails the run on any change. The check
  `side_list_caps` can never fail.

Files:

* Two registries in two processes may give one id to two names, and one may move the
  other's half-written temporary file over the manifest (`pattern_registry.py:156`),
  after which no process starts. The check of the
  semantic class comes after a normalisation that makes it hold; a saved class is
  never inferred again.
* In `PatternStore` byte 1 reads as full activation and byte 2 as one of the weakest;
  the mean of a list of numbers is not clamped.

## 21. Abstractions and what is not modelled

* Numbers with fractions are thousandths or hundredths, rounded down, except where the
  section says that sums are compared without dividing.
* Callers feed nondecreasing tick numbers. They are free to repeat one or leave some out
  where that matters to a property (`EvaluationChain`, `SystemMode`, `ContextFlow`, `CausalLoop`).
* Ids of patterns are their numbers: `pat_00005` and `pat_0005` are not told apart.
* Side lists, fields and cards have the entries some handler or property reads;
  debug text, summaries printed and timestamps are left out.

Not modelled: the verification tools (117 scripts that test the program, read for what
they promise); documents. Of the tick runtime, printing, the debug summaries and
the phase map; of the pattern storage, `memory_check`; of the value types of
`clc/patterns`, argument checks no caller can violate; of input preprocessing, the
numbers in a frame; of the identifiers, the table of default names. Each has a note
in `PROJECT.json`. None of them keeps state that another part reads back.
