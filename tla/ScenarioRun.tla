---------------------------- MODULE ScenarioRun ----------------------------
(***************************************************************************)
(* A scenario fixture run against the runtime: it is loaded or refused, its *)
(* synthetic summaries are written into the log, its inputs are applied     *)
(* tick by tick, and a verdict is read off what the log then still holds.   *)
(* What a tick of the runtime adds is left open (Ticks); the context keeps  *)
(* its log and its side lists as ContextLog says.  Meanwhile other programs *)
(* may write the real Memory, of which the run uses a copy.                 *)
(***************************************************************************)
EXTENDS ContextLog

CONSTANTS
    Fixtures,       \* the JSON files
    Ticks,          \* what a tick may add: for each drain of the pool the markers
    OwnPressures,   \* the policy pressure a tick may leave
    RealFiles,      \* the files of the real Memory that are hashed
    NoValue         \* absent from the file; None in the program

VARIABLES
    phase,          \* "new", "run", "refused" or "judged"
    fixture,        \* what is run
    due,            \* its inputs still to be applied, in order
    told,           \* every event ever added to the log
    memory,         \* the context memory
    retained,       \* the last retention result
    pressure,       \* runtime.policy_pressure
    warnings,       \* the kinds of inputs that nothing was done for
    touched,        \* the real files that changed since the first hash
    verdict

\* A retention result is not None.  Ticks and counts are numbers, and what comes
\* one after the other is a list.
ASSUME ScenarioAssumption ==
    /\ NoValue \notin [before : Nat, pruned : Nat, oldest : Int, after : [SideLists -> Nat]]
    /\ \A added \in Ticks : /\ added \in Seq(Range(added))
                            /\ \A b \in Range(added) : b \in Seq(Range(b))
    /\ \A f \in Fixtures :
          /\ f.inputs \in Seq(Range(f.inputs)) /\ f.summaries \in Seq(Range(f.summaries))
          /\ f.max_ticks # NoValue => f.max_ticks \in Int
          /\ \A input \in Range(f.inputs) :
                /\ input.tick \in Int
                /\ input.kind = "module_update_burst" => input.count \in Int
          /\ \A summary \in Range(f.summaries) : summary.tick \in Int

scenarioVars == <<phase, fixture, due, told, memory, retained, pressure, warnings,
                  touched, verdict>>

(***************************************************************************)
(* Loading                                                                 *)
(***************************************************************************)
Says(key, default) ==
    IF key \in DOMAIN fixture.expect THEN fixture.expect[key] ELSE default

LoadsInput(input) == input.tick >= 0 /\ input.kind # NoValue

LoadsExpect(expect) ==
    /\ "required" \in DOMAIN expect
    /\ "min_event_count" \in DOMAIN expect => expect.min_event_count >= 0

Loads(f) ==
    /\ f.version = 1
    /\ f.name # NoValue
    /\ \A i \in DOMAIN f.inputs : LoadsInput(f.inputs[i])
    /\ \A i \in DOMAIN f.summaries : f.summaries[i].tick >= 0
    /\ LoadsExpect(f.expect)

\* The inputs in order of tick, and in that of the file within a tick; those
\* after the last tick of the run are never looked at.
Due(f) ==
    LET ticks == {f.inputs[i].tick : i \in DOMAIN f.inputs}
        max_ticks == IF f.max_ticks # NoValue THEN f.max_ticks ELSE Max(ticks \cup {0})
    IN  FlattenSeq([t \in 1 .. max_ticks + 1 |->
                      Picked(f.inputs, {i \in DOMAIN f.inputs : f.inputs[i].tick = t - 1})])

(***************************************************************************)
(* Running                                                                 *)
(***************************************************************************)
ScenarioInit ==
    /\ phase = "new"
    /\ fixture \in Fixtures
    /\ due = <<>> /\ told = <<>> /\ warnings = {} /\ touched = {}
    /\ memory = EmptyMemory(0)
    /\ retained = NoValue /\ pressure = NoValue /\ verdict = NoValue

\* What an event says, the readers below count: the source of a decision, the
\* confidence of an audit, the effect of the guard, the status of a cycle.
Operation(marker, says, tick, n) ==
    [marker |-> marker, says |-> says, tick |-> tick, id |-> n]

\* The summaries go into the log at once, without the pool and its retention.
Load ==
    /\ phase = "new"
    /\ IF ~Loads(fixture)
       THEN phase' = "refused" /\ UNCHANGED <<due, told, memory>>
       ELSE LET ops == [i \in DOMAIN fixture.summaries |->
                          Operation("decision_cycle_summaries", fixture.summaries[i].status,
                                    fixture.summaries[i].tick, i)]
            IN  /\ phase' = "run"
                /\ due' = Due(fixture)
                /\ told' = ops
                /\ memory' = AddEvents(memory, ops)
    /\ UNCHANGED <<fixture, retained, pressure, warnings, touched, verdict>>

\* One drain of the pool after another, each with its own retention.
DrainedInto(m, batches) == FoldLeft(ApplyPending, m, batches)

Drain(batches) ==
    LET filled == Picked(batches, {i \in DOMAIN batches : batches[i] # <<>>})
        before == DrainedInto(memory, Front(filled))
        after == ApplyPending(before, Last(filled))
    IN  IF filled = <<>> THEN UNCHANGED <<told, memory, retained>>
        ELSE /\ told' = told \o FlattenSeq(filled)
             /\ memory' = after
             /\ retained' = [before |-> Len(before.events) + Len(Last(filled)),
                             pruned |-> Len(before.events) + Len(Last(filled))
                                          - Len(after.events),
                             oldest |-> Head(after.events).tick,
                             after |-> [l \in SideLists |-> Len(after.lists[l])]]

\* feed_audio, feed_sensor, feed_image: a frame and a tick; tick: a tick alone.
FeedInput(item) ==
    /\ item.kind \in {"audio", "sensor", "image", "tick"}
    /\ \E added \in Ticks :
         LET frame == IF item.kind = "tick" THEN <<>> ELSE <<<<"raw_input_write", NoValue>>>>
             batches == <<frame>> \o added
             Stamped(b, i) == [j \in DOMAIN b |->
                                 Operation(b[j][1], b[j][2], item.tick, Len(told) + 10 * i + j)]
         IN  Drain([i \in DOMAIN batches |-> Stamped(batches[i], i)])
    /\ pressure' \in OwnPressures
    /\ UNCHANGED warnings

DefaultPolicyPressureFutureOperation(type) ==
    CASE type = "no_policy_pressure" -> "collect_initial_decision_history"
      [] type = "stability_pressure" -> "maintain_current_policy"
      [] type = "evidence_pressure" -> "collect_more_evidence"
      [] type = "uncertainty_pressure" -> "inspect_candidate_discrimination"
      [] type = "guard_pressure" -> "inspect_guard_policy_tension"
      [] type = "value_signal_pressure" -> "inspect_value_signal_coverage"
      [] OTHER -> "review_mixed_history"

\* The pressure the fixture says, with what it leaves out filled in; none, if it
\* says nothing.
SyntheticPressure(payload) ==
    IF payload = NoValue THEN NoValue
    ELSE payload @@ [active |-> payload.type \notin {"no_policy_pressure", "stability_pressure"},
                     operation |-> DefaultPolicyPressureFutureOperation(payload.type)]

Pretend(item) ==
    /\ item.kind = "synthetic_policy_pressure_review"
    /\ pressure' = SyntheticPressure(item.payload)
    /\ UNCHANGED <<told, memory, retained, warnings>>

\* Updates of one tick after another, drained together.
Burst(item) ==
    /\ item.kind = "module_update_burst"
    /\ Drain(<<[i \in 1 .. item.count |->
                  Operation("module_updates", NoValue, item.tick + i - 1, Len(told) + i)]>>)
    /\ UNCHANGED <<pressure, warnings>>

Skip(item) ==
    /\ item.kind \notin {"audio", "sensor", "image", "tick",
                         "synthetic_policy_pressure_review", "module_update_burst"}
    /\ warnings' = warnings \cup {item.kind}
    /\ UNCHANGED <<told, memory, retained, pressure>>

Apply ==
    /\ phase = "run" /\ due # <<>>
    /\ LET item == Head(due)
       IN  FeedInput(item) \/ Pretend(item) \/ Burst(item) \/ Skip(item)
    /\ due' = Tail(due)
    /\ UNCHANGED <<phase, fixture, touched, verdict>>

\* Another program, or the user, writes the real Memory.
Touch ==
    /\ phase = "run" /\ touched = {}
    /\ \E f \in RealFiles : touched' = {f}
    /\ UNCHANGED <<phase, fixture, due, told, memory, retained, pressure, warnings, verdict>>

(***************************************************************************)
(* Judging                                                                 *)
(***************************************************************************)
MarkerSequence == [i \in DOMAIN memory.events |-> memory.events[i].marker]

IndexOf(sequence, m) == Min({i \in DOMAIN sequence : sequence[i] = m})

\* Mutant: the last occurrences are compared.
OrderViolations_Last(sequence, order) ==
    LET last(m) == Max({i \in DOMAIN sequence : sequence[i] = m})
    IN  {pair \in order : /\ pair[1] \in Range(sequence) /\ pair[2] \in Range(sequence)
                          /\ last(pair[1]) >= last(pair[2])}

OrderViolations(sequence, order) ==
    {pair \in order : /\ pair[1] \in Range(sequence) /\ pair[2] \in Range(sequence)
                      /\ IndexOf(sequence, pair[1]) >= IndexOf(sequence, pair[2])}

SideListCapsRespected ==
    retained # NoValue => \A l \in SideLists : retained.after[l] <= MaxEntries[l]

ReflectionViolations ==
    LET actual(key) == IF pressure = NoValue THEN NoValue ELSE pressure[key]
        expected == Says("reflection", [x \in {} |-> NoValue])
    IN  {key \in DOMAIN expected : expected[key] # actual(key)}

\* The decisions of the side list, with what selected them.
SelectedDecisions ==
    LET decisions == memory.lists["decisions"]
    IN  [i \in DOMAIN decisions |-> [tick |-> decisions[i].tick, source |-> decisions[i].says]]

\* How often each entry occurs.
Counts(list) ==
    [x \in Range(list) |-> Cardinality({i \in DOMAIN list : list[i] = x})]

\* What the audits and summaries of the side lists say, and how often.
StatusCounts(list) ==
    LET said == [i \in DOMAIN memory.lists[list] |-> memory.lists[list][i].says]
    IN  Counts(said)

\* Of the last drain; nothing, if there was none.
RetentionSummary ==
    IF retained = NoValue THEN NoValue
    ELSE [before |-> retained.before, pruned |-> retained.pruned, oldest |-> retained.oldest]

Counted == {"decision_audits", "action_guard_audits", "decision_cycle_summaries"}

RegressionSummary ==
    LET sequence == MarkerSequence
    IN  [event_count |-> Len(sequence),
         tick_count |-> Cardinality({memory.events[i].tick : i \in DOMAIN memory.events}),
         marker_counts |-> Counts(sequence),
         side_list_counts |-> [l \in SideLists |-> Len(memory.lists[l])],
         decisions |-> SelectedDecisions, retention |-> RetentionSummary,
         status_counts |-> [l \in Counted |-> StatusCounts(l)],
         unchanged |-> [f \in RealFiles |-> f \notin touched]]

Judge ==
    /\ phase = "run" /\ due = <<>>
    /\ phase' = "judged"
    /\ LET sequence == MarkerSequence
           missing == Says("required", {}) \ Range(sequence)
           present == Says("forbidden", {}) \cap Range(sequence)
           disordered == OrderViolations(sequence, Says("order", {}))
           pruned == retained # NoValue /\ retained.pruned > 0
       IN  verdict' =
             [missing |-> missing, present |-> present, disordered |-> disordered,
              pruned |-> pruned, summary |-> RegressionSummary,
              passed |-> /\ missing = {} /\ present = {} /\ disordered = {}
                         /\ touched = {}
                         /\ Len(sequence) >= Says("min_event_count", 0)
                         /\ Says("retention_pruned_events", FALSE) => pruned
                         /\ Says("side_list_caps_respected", FALSE) => SideListCapsRespected
                         /\ ReflectionViolations = {}]
    /\ UNCHANGED <<fixture, due, told, memory, retained, pressure, warnings, touched>>

ScenarioNext == Load \/ Apply \/ Touch \/ Judge

ScenarioSpec == ScenarioInit /\ [][ScenarioNext]_scenarioVars

(***************************************************************************)
(* Properties                                                              *)
(***************************************************************************)

\* What the verdict says of a run is true of everything the run did, although it
\* is read off the log retention left: the last drain pruned if ever one did; a
\* marker said to be missing, or let pass, did not occur after the events that
\* were dropped; and where nothing was dropped, a run that passed showed all the
\* required markers, none of the forbidden ones and each pair in its order.
\* The summary counts every event of the log and what every audit said once, and
\* shows no decision older than what it says is the oldest tick left.
VerdictIsSound ==
    phase = "judged" =>
        LET dropped == Len(told) - Len(memory.events)
            all == [i \in DOMAIN told |-> told[i].marker]
            late == Range(SubSeq(all, dropped + 1, Len(all)))
            counts == verdict.summary.marker_counts
        IN  /\ verdict.pruned <=> dropped > 0
            /\ verdict.missing \cap late = {}
            /\ late \cap Says("forbidden", {}) = verdict.present
            /\ verdict.passed => touched = {} /\ verdict.summary.event_count <= Len(told)
            /\ verdict.passed /\ dropped = 0 =>
                  /\ Says("required", {}) \subseteq Range(all)
                  /\ Says("forbidden", {}) \cap Range(all) = {}
                  /\ \A pair \in Says("order", {}) :
                        {pair[1], pair[2]} \subseteq Range(all) =>
                            \E i \in DOMAIN all :
                               /\ all[i] = pair[1]
                               /\ \A j \in 1 .. i : all[j] # pair[2]
            /\ SumFunction(counts) = verdict.summary.event_count
            /\ \A l \in Counted :
                  SumFunction(verdict.summary.status_counts[l]) = verdict.summary.side_list_counts[l]
            /\ \A i \in DOMAIN verdict.summary.decisions :
                  verdict.summary.decisions[i].tick >= verdict.summary.retention.oldest
            /\ \A l \in SideLists :
                  verdict.summary.side_list_counts[l] <= MaxEntries[l] \/ retained = NoValue
=============================================================================
