---------------------------- MODULE MemoryTurns ----------------------------
(***************************************************************************)
(* When the memory chain gets its turn.  Nothing is stored, committed or   *)
(* updated because it is due: each reviewer publishes a verdict, the       *)
(* verdict is active in the field for a while and fades, the proposer      *)
(* proposes the action its pattern asks for, and the writer acts where the *)
(* selector has lately decided for that action.  What is written, and the  *)
(* files, are ExpSMPipeline's; which proposal wins is ActionChoice's and   *)
(* left open here, as are the changes of mode.                             *)
(*                                                                         *)
(* Numbers are thousandths.  One proposal for an action is kept, for the   *)
(* ticks of its ttl.                                                       *)
(***************************************************************************)
EXTENDS ActiveField, ProposalRules

CONSTANTS
    Cards,          \* drafts by number: [confidence, valence, approved: score of its reviews]
    Profiles,       \* runtime profiles the instance visits
    Steps,          \* how much later the next tick may be
    Ttl,            \* of verdicts: [store |-> 14, commit |-> 16, update |-> 14]
    ProposalTtl,    \* 3
    Cooldown,       \* of the selector, 2
    DecisionAge,    \* up to how many ticks a decision is recent, 4
    Reviews,        \* the drafts the n-th approved review may be for
    MaxTick, MaxRestarts

TurnsAssumption ==
    /\ Profiles \subseteq {"safe_demo", "draft_only", "mutating_memory"}
    /\ Steps \subseteq Nat \ {0}
    /\ ProposalTtl \in Nat \ {0} /\ Cooldown \in Nat /\ DecisionAge \in Nat
    /\ MaxTick \in Nat /\ MaxRestarts \in Nat

VARIABLES
    clock,
    turn,           \* whose turn it is in the tick: sense, choose, mode, approve, draft,
                    \* gate, commit, update, rest
    mood,           \* SystemState.mode
    profile,
    cards,          \* what the draft store says of a draft: [status, seen, post, update]
    asking,         \* drafts the approved reviews not written yet are for
    shown,          \* the active field
    wanted,         \* by action, the tick it was proposed last
    silent,         \* by action, the tick its cooldown ends
    decided,        \* by action, the tick it was decided last in consolidation
    judgedStates,   \* DraftCommitGate._reviewed_states
    judgedUpdates,  \* ExpSMUpdateReviewGate._reviewed_draft_ids
    verdicts,       \* ghost: what this process judged ready to commit or update
    writes,         \* ghost: what has been written in this tick
    asked, restarts \* bounds

marks == <<judgedStates, judgedUpdates>>
ghosts == <<verdicts, writes>>
chosen == <<wanted, silent, decided>>
bounds == <<profile, asked, restarts>>
vars == <<clock, turn, mood, cards, asking, shown, chosen, marks, ghosts, bounds>>

Store == "store_memory_candidate"
Commit == "commit_memory_draft"
Update == "update_committed_expsm_record"
Actions == {Store, Commit, Update}

NoCard == [status |-> "absent", seen |-> 0, post |-> 0, update |-> "none"]
Never == [a \in {} |-> 0]

Init ==
    /\ clock = 0 /\ profile \in Profiles
    /\ cards = [c \in DOMAIN Cards |-> NoCard]
    /\ turn = "sense" /\ mood = "active"
    /\ asking = << >> /\ shown = << >>
    /\ wanted = Never /\ silent = Never /\ decided = Never
    /\ judgedStates = {} /\ judgedUpdates = {}
    /\ verdicts = {} /\ writes = {}
    /\ asked = 0 /\ restarts = 0

-----------------------------------------------------------------------------
(* What the handlers publish, as far as the field tells it apart.          *)
Op(marker, kind, status, amount, ttl) ==
    [marker |-> marker, kind |-> kind, status |-> status, amount |-> amount, ttl |-> ttl,
     tick |-> clock, patterns |-> << >>, pending |-> FALSE]

WriteReviewOp(c) ==
    Op("memory_write_reviews", "memory_write_review", "memory_review_approved",
       Cards[c].approved, Ttl.store)
DraftWrittenOp(existed) ==
    Op("memory_draft_writes", "memory_draft", IF existed THEN "draft_merged" ELSE "draft_created",
       800, 12)
CommittedDraftObservedOp(card) ==
    [Op("committed_draft_observations", "committed_draft_observed", "strengthened", 750, 12)
        EXCEPT !.pending = (card.update # "applied")]
CommitOp == Op("memory_commits", "memory_committed", "draft_committed", 900, 18)
UpdateReviewOp(verdict) ==
    Op("expsm_update_reviews", "expsm_update_review",
       IF verdict = "approved" THEN "expsm_update_approved" ELSE "expsm_update_wait_more_evidence",
       750, Ttl.update)
UpdateOp == Op("memory_updates", "memory_updated", "metadata_only", 850, 18)

\* _decision_score: how often the draft was seen, how sure and how strong it is.
DecisionScore(c, seen) ==
    LET often == (1000 * Min({seen, 2})) \div 2
        strength == Min({1000, 2 * Cards[c].valence})
    IN  Clamped((300 * often + 250 * often + 300 * Cards[c].confidence + 150 * strength) \div 1000)

CommitReviewOp(c, card, status) ==
    Op("memory_draft_commit_reviews", "memory_draft_commit_review",
       IF status = "draft_ready_to_commit" THEN "draft_commit_ready"
       ELSE "draft_commit_wait_more_evidence",
       Max({350, DecisionScore(c, card.seen)}), Ttl.commit)

Published(ops) == FoldLeft(Project, shown, ops)

\* Drafts are taken in the order of their numbers.
InOrder(drafts) == SelectSeq([c \in DOMAIN Cards |-> c], LAMBDA c : c \in drafts)

Asks(action, drafts) ==
    {[action |-> action, card |-> c, seen |-> cards[c].seen, at |-> clock] : c \in drafts}

-----------------------------------------------------------------------------
(* Phase 02: the field fades, and in consolidation ExpSMUpdateReviewGate   *)
(* judges every committed draft that was seen again, once in a process.    *)
(* New patterns or more confidence may be seen the first time already.     *)
UpdateVerdicts(card) ==
    IF card.post >= 2 THEN {"approved"} ELSE {"approved", "waiting"}

Sense ==
    /\ turn = "sense"
    /\ LET due == {c \in DOMAIN cards : /\ mood = "consolidation"
                                        /\ cards[c].status = "draft_committed"
                                        /\ cards[c].update \in {"pending", "waiting", "approved"}
                                        /\ c \notin judgedUpdates}
           faded == DecayAll(shown, clock)
       IN  \E verdict \in [due -> {"approved", "waiting"}] :
             LET ops == [i \in DOMAIN InOrder(due) |-> UpdateReviewOp(verdict[InOrder(due)[i]])]
             IN  /\ \A c \in due : verdict[c] \in UpdateVerdicts(cards[c])
                 /\ cards' = [c \in DOMAIN cards |->
                        IF c \in due THEN [cards[c] EXCEPT !.update = verdict[c]] ELSE cards[c]]
                 /\ judgedUpdates' = judgedUpdates \cup due
                 /\ verdicts' = verdicts \cup Asks(Update, {c \in due : verdict[c] = "approved"})
                 /\ shown' = FoldLeft(Project, faded, ops)
    /\ turn' = "choose"
    /\ UNCHANGED <<clock, mood, asking, chosen, judgedStates, writes, bounds>>

(* Phase 03: what the field shows is proposed, except what is silenced,    *)
(* and one of what is proposed may be decided.  Outside consolidation      *)
(* other patterns may ask for a candidate to be stored.                    *)
Sees ==
    LET Pattern == [draft_commit_ready |-> "draft_commit_ready",
                  expsm_update_approved |-> "expsm_update_approved",
                  memory_review_approved |-> "memory_review_approved",
                  committed_draft_pending_update |-> "pending_expsm_update"]
        there == {p \in DOMAIN Pattern : Holds(shown, Pattern[p])}
    IN  [shows |-> [p \in there |-> EntryOf(shown, Pattern[p]).act]]

\* A cooldown that is over is deleted when it is asked for.
Silent == {a \in DOMAIN silent : clock < silent[a]}
IsSuppressed(action) == action \in Silent

Noted(times, action, tick) ==
    [a \in DOMAIN times \cup {action} |-> IF a = action THEN tick ELSE times[a]]

Propose(other) ==
    LET rules == IF mood = "consolidation" THEN Moved(ConsolidationRules(Sees, 0)) ELSE << >>
        named == ({rules[i].pattern : i \in DOMAIN rules} \cap Actions) \cup other
        proposed == {a \in named : ~IsSuppressed(a)}
        alive == {a \in DOMAIN wanted \cup proposed :
                    a \in proposed \/ clock < wanted[a] + ProposalTtl}
    IN  [a \in alive |-> IF a \in proposed THEN clock ELSE wanted[a]]

Choose ==
    /\ turn = "choose"
    /\ \E other \in SUBSET (IF mood = "consolidation" THEN {} ELSE {Store}) :
         /\ wanted' = Propose(other)
         /\ \/ silent' = [a \in Silent |-> silent[a]] /\ UNCHANGED decided
            \/ \E action \in DOMAIN wanted' \ Silent :
                 /\ silent' = Noted([a \in Silent |-> silent[a]], action, clock + Cooldown)
                 /\ decided' = IF mood = "consolidation" THEN Noted(decided, action, clock)
                               ELSE decided
    /\ turn' = "mode"
    /\ UNCHANGED <<clock, mood, cards, asking, shown, marks, ghosts, bounds>>

(* Phase 05 begins: the mode may change, and recovery forgets that storing *)
(* was proposed.  Outside consolidation the chain returns at once.         *)
After == [active |-> "consolidation", consolidation |-> "recovery", recovery |-> "active"]

ChangeMode ==
    /\ turn = "mode"
    /\ \/ UNCHANGED <<mood, wanted>>
       \/ /\ mood' = After[mood]
          /\ wanted' = [a \in DOMAIN wanted \ (IF mood' = "recovery" THEN {Store} ELSE {}) |-> wanted[a]]
    /\ turn' = IF mood' = "consolidation" THEN "approve" ELSE "rest"
    /\ UNCHANGED <<clock, cards, asking, shown, silent, decided, marks, ghosts, bounds>>

(* MemoryWriteReviewModule may approve a candidate.                        *)
Approve ==
    /\ turn = "approve"
    /\ \/ UNCHANGED <<asking, asked, shown>>
       \/ /\ asked < Len(Reviews) /\ asked' = asked + 1
          /\ \E c \in Reviews[asked'] :
                /\ asking' = Append(asking, c)
                /\ shown' = Published(<<WriteReviewOp(c)>>)
    /\ turn' = "draft"
    /\ UNCHANGED <<clock, mood, cards, chosen, marks, ghosts, profile, restarts>>

\* _has_recent_store_decision and its like in the other writers.
HasRecentDecision(action) == action \in DOMAIN decided /\ clock - decided[action] <= DecisionAge

Written(action, drafts) ==
    {[action |-> action, card |-> c, seen |-> cards[c].seen, at |-> clock,
      decision |-> decided[action]] : c \in drafts}

(* MemoryDraftWriter: a new draft, more evidence for one, or an            *)
(* observation of one that is in ExpSM already.                            *)
AfterReview(card) ==
    IF card.status = "draft_committed"
    THEN [card EXCEPT !.seen = @ + 1, !.post = @ + 1,
                      !.update = IF @ = "none" THEN "pending" ELSE @]
    ELSE [card EXCEPT !.seen = @ + 1, !.status = "draft_pending_commit"]

DraftOp(card) ==
    IF card.status = "draft_committed" THEN CommittedDraftObservedOp(AfterReview(card))
    ELSE DraftWrittenOp(card.status # "absent")

WriteDrafts ==
    /\ turn = "draft"
    /\ IF asking # << >> /\ HasRecentDecision(Store) /\ profile # "safe_demo"
       THEN LET before(i) == FoldLeft(LAMBDA s, c : [s EXCEPT ![c] = AfterReview(@)],
                                      cards, SubSeq(asking, 1, i))
            IN  /\ cards' = before(Len(asking))
                /\ shown' = Published([i \in DOMAIN asking |-> DraftOp(before(i - 1)[asking[i]])])
                /\ writes' = writes \cup Written(Store, ToSet(asking))
                /\ asking' = << >>
       ELSE UNCHANGED <<cards, shown, writes, asking>>
    /\ turn' = "gate"
    /\ UNCHANGED <<clock, mood, chosen, marks, verdicts, bounds>>

(* DraftCommitGate: a draft that was judged ready and stays so is judged   *)
(* again, once.                                                            *)
Verdict(c, card) ==
    IF Cards[c].confidence >= 900 \/ card.seen >= 2 THEN "draft_ready_to_commit"
    ELSE "draft_wait_more_evidence"

Gate ==
    /\ turn = "gate"
    /\ LET Key(c) == <<c, cards[c].seen, cards[c].status>>
           due == {c \in DOMAIN cards : /\ cards[c].status \notin {"absent", "draft_committed"}
                                        /\ Key(c) \notin judgedStates}
           order == InOrder(due)
           Of(c) == Verdict(c, cards[c])
       IN  /\ judgedStates' = judgedStates \cup {Key(c) : c \in due}
           /\ cards' = [c \in DOMAIN cards |->
                  IF c \in due THEN [cards[c] EXCEPT !.status = Of(c)] ELSE cards[c]]
           /\ shown' = Published([i \in DOMAIN order |->
                                    CommitReviewOp(order[i], cards[order[i]], Of(order[i]))])
           /\ verdicts' = verdicts \cup Asks(Commit, {c \in due : Of(c) = "draft_ready_to_commit"})
    /\ turn' = "commit"
    /\ UNCHANGED <<clock, mood, asking, chosen, judgedUpdates, writes, bounds>>

(* ExpSMCommitWriter and ExpSMUpdateWriter take all that is due.           *)
CommitDrafts ==
    /\ turn = "commit"
    /\ LET due == {c \in DOMAIN cards : /\ HasRecentDecision(Commit)
                                        /\ profile = "mutating_memory"
                                        /\ cards[c].status = "draft_ready_to_commit"}
       IN  /\ cards' = [c \in DOMAIN cards |->
                  IF c \in due THEN [cards[c] EXCEPT !.status = "draft_committed"] ELSE cards[c]]
           /\ shown' = Published([i \in 1 .. Cardinality(due) |-> CommitOp])
           /\ writes' = writes \cup Written(Commit, due)
    /\ turn' = "update"
    /\ UNCHANGED <<clock, mood, asking, chosen, marks, verdicts, bounds>>

UpdateRecords ==
    /\ turn = "update"
    /\ LET due == {c \in DOMAIN cards : /\ HasRecentDecision(Update)
                                        /\ profile = "mutating_memory"
                                        /\ cards[c].update = "approved"}
       IN  /\ cards' = [c \in DOMAIN cards |->
                  IF c \in due THEN [cards[c] EXCEPT !.update = "applied"] ELSE cards[c]]
           /\ shown' = Published([i \in 1 .. Cardinality(due) |-> UpdateOp])
           /\ writes' = writes \cup Written(Update, due)
    /\ turn' = "rest"
    /\ UNCHANGED <<clock, mood, asking, chosen, marks, verdicts, bounds>>

NextTick ==
    /\ turn = "rest"
    /\ \E later \in Steps :
         /\ clock + later <= MaxTick
         /\ clock' = clock + later
    /\ turn' = "sense" /\ writes' = {}
    /\ UNCHANGED <<mood, cards, asking, shown, chosen, marks, verdicts, bounds>>

(* Only the stores outlive the process.                                    *)
Restart ==
    /\ turn = "rest" /\ restarts < MaxRestarts
    /\ restarts' = restarts + 1
    /\ turn' = "sense" /\ mood' = "active"
    /\ asking' = << >> /\ shown' = << >>
    /\ wanted' = Never /\ silent' = Never /\ decided' = Never
    /\ judgedStates' = {} /\ judgedUpdates' = {}
    /\ verdicts' = {} /\ writes' = {}
    /\ UNCHANGED <<clock, cards, profile, asked>>

Next ==
    \/ Sense \/ Choose \/ ChangeMode
    \/ Approve \/ WriteDrafts \/ Gate \/ CommitDrafts \/ UpdateRecords
    \/ NextTick \/ Restart

Spec == Init /\ [][Next]_vars
-----------------------------------------------------------------------------
(***************************************************************************)
(* Properties                                                              *)
(***************************************************************************)
\* How long a verdict can move its writer: while it is active it is proposed,
\* the proposal lives on, and so does the decision.
Reach(ttl) == (ttl - 1) + (ProposalTtl - 1) + DecisionAge

\* Nothing is committed or updated that this process has not judged, the commit
\* with all the evidence it has; the decision it rests on was taken after some
\* draft was found to be due, which need not be the one written, and no longer
\* ago than a verdict can reach.  A draft asks to be committed twice at most for
\* the same evidence, and to be updated once; a missed turn is not made up for.
WritesAreAsked ==
    /\ \A w \in {x \in writes : x.action # Store} :
         /\ \E v \in verdicts : /\ v.action = w.action /\ v.card = w.card
                                /\ v.seen = w.seen \/ (w.action = Update /\ v.seen < w.seen)
         /\ \E v \in verdicts : /\ v.action = w.action
                                /\ v.at < w.decision \/ (w.action = Update /\ v.at = w.decision)
                                /\ w.at - v.at <= Reach(IF w.action = Commit THEN Ttl.commit ELSE Ttl.update)
    /\ \A c \in DOMAIN Cards :
         /\ \A n \in {v.seen : v \in verdicts} :
              Cardinality({v \in verdicts : v.action = Commit /\ v.card = c /\ v.seen = n}) <= 2
         /\ Cardinality({v \in verdicts : v.action = Update /\ v.card = c}) <= 1
=============================================================================
