--------------------------- MODULE ValueFeedback ---------------------------
(***************************************************************************)
(* How the value of an experience is learned.  Each tick TargetSatisfaction-*)
(* Observer looks at the recent decisions that came from a mechanism and    *)
(* reads from later effects, outcomes and signals whether the target was    *)
(* served; ValueFeedbackCandidateBuilder makes candidates of the recent     *)
(* observations; in recovery and consolidation ValueFeedbackReviewGate      *)
(* reviews the recent candidates; in consolidation ValueFeedbackUpdate-     *)
(* Writer adds the ready reviews to the record of the experience.  Each of  *)
(* the first three says the same thing again when its cooldown is over.     *)
(*                                                                         *)
(* One experience stands for all: records share only the set of review ids  *)
(* the writer collects from them.  What evidence there is about a decision  *)
(* is open each tick; ValueReading says how it is read and judged.  What    *)
(* the program remembers of its last emission for a source is the last      *)
(* element of that source in the list it made.                              *)
(***************************************************************************)
EXTENDS Positions, ValueReading

CONSTANTS
    ObserverCooldown, CandidateCooldown, ReviewCooldown,
    ObservationWindow,      \* get_recent_target_satisfaction_observations(12)
    ValueCandidateWindow,   \* get_recent_value_feedback_candidates(16)
    ValueReviewWindow,      \* get_recent_value_feedback_reviews(16)
    LinkWindow,             \* MAX_TARGET_LINKS
    Evidence,               \* what memory may show about a decision
    MaxClock, MaxObserved, MaxFaults, MaxProcesses   \* bounds

ValueAssumption ==
    /\ {ObserverCooldown, CandidateCooldown, ReviewCooldown} \subseteq Nat
    /\ {ObservationWindow, ValueCandidateWindow, ValueReviewWindow, LinkWindow} \subseteq Nat \ {0}
    /\ {MaxClock, MaxObserved, MaxFaults, MaxProcesses} \subseteq Nat
    /\ \A e \in Evidence : WellFormed(e)

VARIABLES
    module,         \* about to run: observe, build, review, write
    clock,          \* the tick
    systemMode,
    decisions,      \* ticks of the mechanism's decisions, oldest first
    observations,   \* [decision, reading, tick]
    valueCandidates,    \* [observation, tick]
    valueReviews,   \* [candidate, tick, decision]
    appliedIds,     \* _applied_review_ids
    record,         \* value_feedback of the record in the file: counts, totals, links
    allowed,        \* allow_value_feedback_update of the policy
    faults,
    process,        \* number of this process
    updates         \* history: the reviews in the file, in order

valueMemory == <<decisions, observations, valueCandidates, valueReviews>>
valueVars == <<module, clock, systemMode, valueMemory, appliedIds, record, allowed, faults,
               process, updates>>

Buckets == {"positive", "negative", "mixed", "inconclusive"}
Totalled == Buckets \ {"inconclusive"}
Readings == {Reading(e) : e \in {f \in Evidence : Reads(f)}}
NoReading == [status |-> "none"]

ReadingOf(c) == observations[valueCandidates[c].observation].reading
\* _is_ready_review.
ReadyToAdd(r) == valueReviews[r].decision = "ready"

\* _value_feedback_block: a record nothing was added to.
Unvalued ==
    [counts |-> [b \in Buckets |-> 0], totals |-> [b \in Totalled |-> 0], links |-> <<>>]

ValueInit ==
    /\ module = "observe" /\ clock = 1 /\ systemMode = "active"
    /\ decisions = <<>> /\ observations = <<>> /\ valueCandidates = <<>> /\ valueReviews = <<>>
    /\ appliedIds = {}
    /\ record = Unvalued
    /\ allowed \in BOOLEAN
    /\ faults = 0 /\ process = 0 /\ updates = <<>>

---------------------------------------------------------------------------
\* Whether to speak again of what the elements at these positions of a list
\* spoke of.
Again(list, past, cooldown) == past = {} \/ clock >= list[Max(past)].tick + cooldown

ObservationsOf(d) == {i \in 1 .. Len(observations) : observations[i].decision = d}
CandidatesOf(o) == {i \in 1 .. Len(valueCandidates) : valueCandidates[i].observation = o}
ReviewsOf(c) == {i \in 1 .. Len(valueReviews) : valueReviews[i].candidate = c}

\* TargetSatisfactionObserver.run: a decision of an earlier tick is observed
\* when there is evidence, and its status or what it rests on (the ids of the
\* effects, outcomes and signals) has changed or the cooldown is over.  Before
\* it, the tick decided and settled on its mode.
Observe ==
    /\ module = "observe" /\ clock <= MaxClock
    /\ \E reading \in [1 .. Len(decisions) -> Readings \cup {NoReading}],
          news \in SUBSET (1 .. Len(decisions)) :
          LET Speaking(d) ==
                 LET past == ObservationsOf(d)
                 IN  /\ reading[d] # NoReading
                     /\ \/ Again(observations, past, ObserverCooldown)
                        \/ observations[Max(past)].reading.status # reading[d].status
                        \/ d \in news
              spoken == InOrder({d \in 1 .. Len(decisions) : Speaking(d)})
          IN  observations' = observations \o
                 [i \in 1 .. Len(spoken) |->
                     [decision |-> spoken[i], reading |-> reading[spoken[i]], tick |-> clock]]
    /\ \/ UNCHANGED decisions
       \/ Len(decisions) < MaxObserved /\ decisions' = Append(decisions, clock)
    /\ systemMode' \in {"active", "recovery", "consolidation"}
    /\ module' = "build"
    /\ UNCHANGED <<clock, valueCandidates, valueReviews, appliedIds, record, allowed, faults,
                   process, updates>>

\* ValueFeedbackCandidateBuilder.run: an observation never changes, so only
\* the cooldown makes it speak again.
CandidateDue(o) ==
    /\ Enough(observations[o].reading)
    /\ Again(valueCandidates, CandidatesOf(o), CandidateCooldown)

BuildCandidates ==
    /\ module = "build"
    /\ LET due == InOrder({o \in Recent(observations, ObservationWindow) : CandidateDue(o)})
       IN  valueCandidates' = valueCandidates \o
              [i \in 1 .. Len(due) |-> [observation |-> due[i], tick |-> clock]]
    /\ module' = "review"
    /\ UNCHANGED <<clock, systemMode, decisions, observations, valueReviews, appliedIds, record,
                   allowed, faults, process, updates>>

\* Mutant: the cooldown is over a tick early.
ReviewDue_Early(c) ==
    ReviewsOf(c) = {} \/ clock + 1 >= valueReviews[Max(ReviewsOf(c))].tick + ReviewCooldown

\* ValueFeedbackReviewGate.run.
ReviewDue(c) == Again(valueReviews, ReviewsOf(c), ReviewCooldown)

ReviewCandidates ==
    /\ module = "review"
    /\ IF systemMode = "active" THEN UNCHANGED valueReviews
       ELSE LET due == InOrder({c \in Recent(valueCandidates, ValueCandidateWindow) : ReviewDue(c)})
            IN  valueReviews' = valueReviews \o
                   [i \in 1 .. Len(due) |->
                      [candidate |-> due[i], tick |-> clock,
                       decision |-> ReviewDecision(ReadingOf(due[i]))]]
    /\ module' = "write"
    /\ UNCHANGED <<clock, systemMode, decisions, observations, valueCandidates, appliedIds, record,
                   allowed, faults, process, updates>>

---------------------------------------------------------------------------
\* Mutant: the file is not asked what was applied.
AlreadyAdded_ThisProcess == appliedIds

\* Review ids are numbered from 1 in every process; those in the file are
\* applied as well as those of this process.
AlreadyAdded == appliedIds \cup ToSet(record.links)

ToApply ==
    InOrder({r \in Recent(valueReviews, ValueReviewWindow) : ReadyToAdd(r) /\ r \notin AlreadyAdded})

\* _update_operation: what is told of a review that is added.
UpdateOf(r) ==
    LET reading == ReadingOf(valueReviews[r].candidate)
    IN  [id |-> r, process |-> process, candidate |-> valueReviews[r].candidate,
         tick |-> valueReviews[r].tick, score |-> reading.score,
         bucket |-> Bucket(reading), strength |-> CandidateStrength(reading)]

Additions == [i \in 1 .. Len(ToApply) |-> UpdateOf(ToApply[i])]

\* The last MAX_TARGET_LINKS of the links.
KeptLinks(links) ==
    IF Len(links) > LinkWindow THEN SubSeq(links, Len(links) - LinkWindow + 1, Len(links)) ELSE links

\* _apply_value_feedback.
Added(r, u) ==
    [counts |-> [b \in Buckets |-> r.counts[b] + If(b = u.bucket, 1)],
     totals |-> [b \in Totalled |-> r.totals[b] + If(b = u.bucket, u.strength)],
     links |-> KeptLinks(Append(r.links, u.id))]

AddedAll(r, list) == FoldLeft(Added, r, list)

EndValueTick ==
    /\ module' = "observe" /\ clock' = clock + 1
    /\ UNCHANGED <<systemMode, valueMemory, allowed, process>>

Writes == systemMode = "consolidation" /\ allowed /\ ToApply # <<>>

\* ValueFeedbackUpdateWriter.run: one replacement of the file for all the
\* reviews, and only then are their ids remembered.
UpdateRecord ==
    /\ module = "write" /\ Writes
    /\ record' = AddedAll(record, Additions)
    /\ appliedIds' = appliedIds \cup ToSet(ToApply)
    /\ updates' = updates \o Additions
    /\ EndValueTick
    /\ UNCHANGED faults

\* Mutant: the ids are remembered before the file is replaced.
UpdateFails_Remembers ==
    /\ module = "write" /\ Writes
    /\ faults < MaxFaults /\ faults' = faults + 1
    /\ appliedIds' = appliedIds \cup ToSet(ToApply)
    /\ EndValueTick
    /\ UNCHANGED <<record, updates>>

\* Mutant: the file is written in place, and the error comes after.
UpdateFails_InPlace ==
    /\ module = "write" /\ Writes
    /\ faults < MaxFaults /\ faults' = faults + 1
    /\ record' = AddedAll(record, Additions)
    /\ EndValueTick
    /\ UNCHANGED <<appliedIds, updates>>

\* The file cannot be replaced, or is not JSON: nothing is remembered.
UpdateFails ==
    /\ module = "write" /\ Writes
    /\ faults < MaxFaults /\ faults' = faults + 1
    /\ EndValueTick
    /\ UNCHANGED <<appliedIds, record, updates>>

\* Another mode, no ready review that is new, or the policy forbids it.
UpdateNothing ==
    /\ module = "write" /\ ~ Writes
    /\ EndValueTick
    /\ UNCHANGED <<appliedIds, record, faults, updates>>

\* The process ends between two ticks; the next may have another policy.
NextProcess ==
    /\ module = "observe" /\ updates # <<>>     \* before that it leaves nothing
    /\ process < MaxProcesses /\ process' = process + 1
    /\ module' = "observe" /\ clock' = 1 /\ systemMode' = "active"
    /\ decisions' = <<>> /\ observations' = <<>> /\ valueCandidates' = <<>> /\ valueReviews' = <<>>
    /\ appliedIds' = {}
    /\ allowed' \in BOOLEAN
    /\ UNCHANGED <<record, faults, updates>>

ValueNext ==
    \/ Observe \/ BuildCandidates \/ ReviewCandidates
    \/ UpdateRecord \/ UpdateFails \/ UpdateNothing \/ NextProcess

ValueSpec == ValueInit /\ [][ValueNext]_valueVars

---------------------------------------------------------------------------
\* A review is added to the record once in its process, whatever write fails
\* in between; after a restart its number is not taken for a new one while
\* the record still names it.
ReviewsCountOnce ==
    \A i, j \in 1 .. Len(updates) :
        i < j /\ updates[i].id = updates[j].id
            => updates[i].process # updates[j].process /\ j - i > LinkWindow

\* The counters and links of the file are those of the updates it was told of,
\* and all of it is what adding them one by one makes: no failed write is half
\* in it.
RecordAddsUp ==
    LET named == IF Len(updates) < LinkWindow THEN Len(updates) ELSE LinkWindow
    IN  /\ \A b \in Buckets :
              record.counts[b] = Cardinality({i \in 1 .. Len(updates) : updates[i].bucket = b})
        /\ record.links = [i \in 1 .. named |-> updates[Len(updates) - named + i].id]
        /\ record = AddedAll(Unvalued, updates)

\* When a consolidating tick could write, no ready review of the window is
\* left: it was added now or before, or the file names its number from an
\* earlier process.  A write that failed is thus made good by the next.
WriteLeavesNoneBehind ==
    module = "write" /\ systemMode = "consolidation" /\ allowed /\ faults' = faults
        => \A r \in Recent(valueReviews, ValueReviewWindow) :
              ReadyToAdd(r) => \/ \E i \in 1 .. Len(updates') : /\ updates'[i].id = r
                                                               /\ updates'[i].process = process
                               \/ r \in ToSet(record.links)

Apart(s, t, cooldown) == s >= t + cooldown \/ t >= s + cooldown

\* The same evidence is reviewed, and counted, again only at the pace of the
\* cooldowns, however the modes come and go.  The order may change: a review
\* whose number an old link has is added behind younger ones when the link is
\* gone.
RepetitionIsPaced ==
    /\ \A i, j \in 1 .. Len(updates) :
          /\ i < j /\ updates[i].process = updates[j].process
          /\ updates[i].candidate = updates[j].candidate
          => Apart(updates[i].tick, updates[j].tick, ReviewCooldown)
    /\ \A i, j \in 1 .. Len(valueCandidates) :
          i < j /\ valueCandidates[i].observation = valueCandidates[j].observation
          => valueCandidates[j].tick >= valueCandidates[i].tick + CandidateCooldown

\* Evidence counts on the side its score is on, and on no side when that is not
\* clear: the scores, types, directions, strengths and thresholds of the four
\* modules fit together.
CountedOnItsSide ==
    \A i \in 1 .. Len(updates) :
        \/ updates[i].bucket = "positive" /\ updates[i].score >= 200
        \/ updates[i].bucket = "negative" /\ updates[i].score <= -350

\* Reviews are added once and paced, and what the file says of an experience is
\* what was added to it, each piece on the side its evidence is on.
ValueIsEarned == ReviewsCountOnce /\ RepetitionIsPaced /\ RecordAddsUp /\ CountedOnItsSide

\* Every step is such that what a failed write left out is made good.
FailuresAreMadeGood == [][WriteLeavesNoneBehind]_valueVars
=============================================================================
