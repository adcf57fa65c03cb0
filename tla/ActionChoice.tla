---------------------------- MODULE ActionChoice ----------------------------
(***************************************************************************)
(* What is decided and by how much: ActionProposer feeds what its own      *)
(* rules say and what experience remembers to ActionCandidateField, which  *)
(* merges, decays and scores it; DecisionSelector takes the best of the    *)
(* top candidates that ModeActionGuard lets through, and silences its      *)
(* pattern for a while.  Numbers are thousandths, rounded down.  The mode  *)
(* is chosen freely between ticks: SystemMode is about how it changes.     *)
(***************************************************************************)
EXTENDS ProposalRules

CONSTANTS
    Inputs,         \* what a tick may bring: what the proposer sees, with the
                    \* activations and searches of experience
    ModeActions,    \* [enter, exit, store]: patterns the guard and the cleanup name
    Faint,          \* patterns consolidation lets through at low attention
    Internal,       \* patterns consolidation is for, store among them
    Modes,          \* modes the instance visits, active among them
    TopLimit,       \* candidates the selector looks at, 20
    SearchWindow,   \* recent mechanism searches the proposer reads, 8
    MinStay,        \* MIN_CONSOLIDATION_TICKS of the guard, 3
    Threshold,      \* decision_threshold, 350
    Cooldown,       \* cooldown_ticks, 2
    Ttl,            \* of every proposal, 3
    Decay,          \* of every proposal, 120
    MaxTick         \* bound

ChoiceAssumption ==
    /\ "active" \in Modes /\ Modes \subseteq {"active", "consolidation", "recovery"}
    /\ TopLimit \in Nat \ {0} /\ SearchWindow \in Nat \ {0} /\ MinStay \in Nat
    /\ Threshold \in Nat /\ Cooldown \in Nat /\ Ttl \in Nat \ {0} /\ Decay \in Nat
    /\ MaxTick \in Nat

VARIABLES
    tick,
    pc,             \* where in _run_tick the runtime is
    mode,           \* SystemState: [name, entered]
    field,          \* ActionCandidateField._candidates, oldest first
    cooldowns,      \* by pattern, the tick its silence ends
    searches,       \* recent mechanism searches
    decision        \* what the selector decided in this tick, with its snapshots

choice == <<mode, field, cooldowns, searches, decision>>

Clamp(x) == Max({0, Min({1000, x})})
LastN(s, n) == SubSeq(s, Max({1, Len(s) - n + 1}), Len(s))

(* sorted(..., reverse=True) keeps the order of what scores the same.      *)
BestFirst(s, Score(_)) ==
    LET Before(i, j) == Score(s[i]) > Score(s[j]) \/ (Score(s[i]) = Score(s[j]) /\ i < j)
        order == SortSeq([i \in DOMAIN s |-> i], Before)
    IN  [i \in DOMAIN s |-> s[order[i]]]

-----------------------------------------------------------------------------
(* score_breakdown: the base score, and what experience says of the        *)
(* candidate where it comes from there.                                    *)
BaseScore(c) ==
    Clamp((450 * c.confidence + 250 * c.urgency + 150 * c.activation
            - 250 * c.risk - 150 * c.cost) \div 1000)

MemoryScore(m) ==
    Clamp((350 * m.match + 250 * m.viability + 250 * m.confidence + 150 * m.repeatability) \div 1000)

MechanismScore(m) ==
    Clamp((400 * m.score + 200 * m.viability + 200 * m.confidence + 100 * m.repeatability
            + 100 * m.target) \div 1000)

FinalScore(c) ==
    CASE c.source = "expsm_activation" ->
            Clamp((700 * BaseScore(c) + 300 * MemoryScore(c.memory)) \div 1000)
      [] c.source = "expsm_mechanism_search" ->
            Clamp((650 * BaseScore(c) + 350 * MechanismScore(c.memory)) \div 1000)
      [] OTHER -> BaseScore(c)

-----------------------------------------------------------------------------
(* is_suppressed.                                                          *)
Suppressed(silence, pattern) == pattern \in DOMAIN silence /\ tick < silence[pattern]

(* _candidate_key: what experience proposes stays apart from the rest, by  *)
(* experience and by the activation or search it comes from.               *)
Key(p) == <<p.pattern, p.source, p.memory, p.origin>>

(* Each activation and search has an id of its own.                        *)
Fresh(proposals) == [i \in DOMAIN proposals |-> [proposals[i] EXCEPT !.origin = <<tick, i>>]]

NewCandidate(p) ==
    [pattern |-> p.pattern, source |-> p.source, memory |-> p.memory, origin |-> p.origin,
     activation |-> p.amount, confidence |-> p.confidence, urgency |-> p.urgency,
     risk |-> p.risk, cost |-> p.cost, decayed |-> tick, expires |-> tick + Ttl]

(* The same candidate proposed again: activations add up towards one, of   *)
(* the rest the most favourable stays, except that risks rise.             *)
Merged(c, p) ==
    [c EXCEPT !.activation = Clamp(@ + (p.amount * (1000 - @)) \div 1000),
              !.confidence = Max({@, p.confidence}), !.urgency = Max({@, p.urgency}),
              !.risk = Max({@, p.risk}), !.cost = Min({@, p.cost}),
              !.decayed = tick, !.expires = tick + Ttl]

(* ActionCandidateField.propose.                                           *)
Proposed(candidates, p) ==
    LET at == SelectInSeq(candidates, LAMBDA c : Key(c) = Key(p))
    IN  IF Suppressed(cooldowns, p.pattern) \/ p.amount = 0 THEN candidates
        ELSE IF at = 0 THEN Append(candidates, NewCandidate(p))
        ELSE [candidates EXCEPT ![at] = Merged(@, p)]

(* decay_all: what has run out goes before anything is decayed.            *)
DecayAll(candidates) ==
    LET Lives(c) == tick < c.expires /\ (tick > c.decayed => c.activation - Decay * (tick - c.decayed) > 10)
        Weaker(c) == [c EXCEPT !.activation = Clamp(@ - Decay * (tick - c.decayed)), !.decayed = tick]
    IN  LET alive == SelectSeq(candidates, Lives) IN [i \in DOMAIN alive |-> Weaker(alive[i])]

\* Mutant: a search is proposed from for as long as it is remembered, in
\* consolidation too.
Offers_Unguarded(in) ==
    Wanted(in, mode.name, tick - mode.entered, <<>>) \o Fresh(in.activations) \o searches

(* Activations count in their own tick, mechanism searches for as long as  *)
(* they are among the recent ones.                                         *)
Offers(in) == Wanted(in, mode.name, tick - mode.entered, Fresh(in.activations) \o searches)

-----------------------------------------------------------------------------
(* ModeActionGuard._decision: the factor the guard puts on confidence and  *)
(* urgency, 0 where it blocks.                                             *)
Factor(pattern) ==
    LET elapsed == tick - mode.entered
    IN  CASE mode.name = "active" -> IF pattern = ModeActions.exit THEN 0 ELSE 1000
          [] mode.name = "consolidation" ->
                CASE pattern = ModeActions.enter -> 0
                  [] pattern = ModeActions.exit -> IF elapsed < MinStay THEN 0 ELSE 1000
                  [] pattern \in Internal -> 1000
                  [] pattern \in Faint -> 350
                  [] OTHER -> 0
          [] mode.name = "recovery" ->
                IF pattern \in {ModeActions.enter, ModeActions.exit} THEN 0 ELSE 450

(* adjust_candidate.                                                       *)
Adjusted(c) ==
    LET f == Factor(c.pattern)
    IN  IF f \in {0, 1000} THEN c
        ELSE [c EXCEPT !.confidence = (@ * f) \div 1000, !.urgency = (@ * f) \div 1000]

(* One candidate as the guard records it and the selector scores it.       *)
Judged(c) ==
    [key |-> Key(c), pattern |-> c.pattern, source |-> c.source, memory |-> c.memory,
     allowed |-> Factor(c.pattern) > 0, score |-> FinalScore(Adjusted(c))]

\* Mutant: the oldest candidates are looked at, not the top ones.
Considered_Oldest ==
    LET top == SelectSeq(SubSeq(field, 1, Min({TopLimit, Len(field)})),
                         LAMBDA c : ~Suppressed(cooldowns, c.pattern))
    IN  [i \in DOMAIN top |-> Judged(top[i])]

(* get_top_candidates and the loop of select: the top ones by their score  *)
(* before the guard, those of silenced patterns left out.                  *)
Considered ==
    LET ranked == BestFirst(field, FinalScore)
        top == SelectSeq(SubSeq(ranked, 1, Min({TopLimit, Len(ranked)})),
                         LAMBDA c : ~Suppressed(cooldowns, c.pattern))
    IN  [i \in DOMAIN top |-> Judged(top[i])]

(* max returns the first of the best; the snapshot for the audit is ranked *)
(* by the score after the guard, its first item is the one selected.       *)
Ranked(judged) ==
    BestFirst(SelectSeq(judged, LAMBDA j : j.allowed), LAMBDA j : j.score)

(* suppress: silence, and little left of what it had.                      *)
Silenced(candidates, pattern) ==
    [i \in DOMAIN candidates |->
        IF candidates[i].pattern = pattern
        THEN [candidates[i] EXCEPT !.activation = (@ * 350) \div 1000] ELSE candidates[i]]

-----------------------------------------------------------------------------
InitChoice ==
    /\ mode = [name |-> "active", entered |-> 0]
    /\ field = << >> /\ cooldowns = [p \in {} |-> 0] /\ searches = << >>
    /\ decision = None

(* Phase 3: propose, decay_all.                                            *)
ProposeStep(in) ==
    /\ field' = DecayAll(FoldLeft(Proposed, field, Offers(in)))
    /\ decision' = None
    /\ UNCHANGED <<mode, cooldowns, searches>>

(* Phase 3: select.                                                        *)
SelectStep ==
    LET judged == Considered
        ranked == Ranked(judged)
    IN  IF ranked = << >> \/ ranked[1].score < Threshold
        THEN decision' = None /\ UNCHANGED <<field, cooldowns>>
        ELSE /\ decision' = [pattern |-> ranked[1].pattern, score |-> ranked[1].score,
                             snapshot |-> ranked, guard |-> judged]
             /\ field' = Silenced(field, ranked[1].pattern)
             /\ cooldowns' = [p \in DOMAIN cooldowns \cup {ranked[1].pattern} |->
                                IF p = ranked[1].pattern THEN tick + Cooldown ELSE cooldowns[p]]

(* Phase 6: what the tick's mechanism search found is there for the next.  *)
SearchStep(in) == searches' = LastN(searches \o Fresh(in.searches), SearchWindow)

(* Phase 5 and its cleanup: a change of mode takes the actions about modes *)
(* out of the field.                                                       *)
Forgotten(to) ==
    CASE to = "consolidation" -> {ModeActions.enter}
      [] to = "recovery" -> {ModeActions.enter, ModeActions.exit, ModeActions.store}
      [] to = "active" -> {ModeActions.enter, ModeActions.exit}

ModeStep(to) ==
    IF to = mode.name THEN UNCHANGED <<mode, field>>
    ELSE /\ mode' = [name |-> to, entered |-> tick]
         /\ field' = SelectSeq(field, LAMBDA c : c.pattern \notin Forgotten(to))
=============================================================================
