----------------------------- MODULE SystemMode -----------------------------
(***************************************************************************)
(* The mode machine of the runtime, with everything a tick does to decide  *)
(* about it: ActionProposer and ActionCandidateField (what may be decided), *)
(* DecisionSelector under ModeActionGuard (what is decided),               *)
(* InternalActionExecutor (what is announced), SystemModeManager (what the *)
(* mode becomes) and ModeTransitionCleanup (what is forgotten).            *)
(*                                                                         *)
(* One call of CLCRuntime._run_tick is the chain of actions Feed, Propose, *)
(* Select, Execute, one manager action per recent decision, EndManager and *)
(* Cleanup.  The caller chooses the tick number: it may repeat one (several *)
(* inputs of a tick) or skip some.  Times are relative: elapsed is         *)
(* tick - mode_entered_tick, a candidate carries the ticks it has left and *)
(* an action the ticks of cooldown it has left.  elapsed saturates at      *)
(* MaxConsolidation, beyond which no comparison of the code tells it apart. *)
(* Scores are abstracted: what passes the guard may win or not.            *)
(***************************************************************************)
EXTENDS Naturals, FiniteSets, Sequences

CONSTANTS
    Others,             \* action patterns that are not about the mode
    Store,              \* the one among them that stores a memory candidate
    Outside,            \* those the guard has no rule for in consolidation
    MinConsolidation,   \* MIN_CONSOLIDATION_TICKS of the manager, 3
    GuardMin,           \* MIN_CONSOLIDATION_TICKS of the guard, 3
    ProposerMin,        \* the literal 3 of the proposer
    MaxConsolidation,   \* MAX_CONSOLIDATION_TICKS, 6
    RecoveryTicks,      \* RECOVERY_TICKS, 2
    CandidateTtl,       \* ttl of a proposed candidate, 3
    Cooldown,           \* cooldown_ticks of the selector, 2
    DecisionWindow,     \* recent decisions a module looks at, 8
    CleanupWindow,      \* recent mode changes the clean-up looks at, 4
    Gaps                \* bound: how far a tick number may move at a time

ASSUME ModeAssumption ==
    /\ Store \in Others /\ Outside \subseteq Others \ {Store}
    /\ {"enter", "exit"} \cap Others = {}
    /\ MinConsolidation \in Nat \ {0} /\ MaxConsolidation \in Nat
    /\ RecoveryTicks \in Nat \ {0}
    /\ MinConsolidation <= MaxConsolidation /\ RecoveryTicks <= MaxConsolidation
    /\ GuardMin = MinConsolidation /\ ProposerMin = MinConsolidation
    /\ CandidateTtl \in Nat /\ Cooldown \in Nat
    /\ DecisionWindow \in Nat \ {0} /\ CleanupWindow \in Nat \ {0, 1}
    /\ Gaps \subseteq Nat

VARIABLES
    pc,         \* where in _run_tick the runtime is
    mode,       \* SystemState.mode
    elapsed,    \* ticks since SystemState.mode_entered_tick
    depth,      \* SystemState.consolidation_depth, in percent
    left,       \* ActionCandidateField._candidates: ticks each has left
    stale,      \* the candidates created before the current mode was entered
    cooldown,   \* ActionCandidateField.cooldowns: ticks each has left
    decisions,  \* recent decisions that some module has still to handle
    todo,       \* those SystemModeManager.run has not come to yet
    effects,    \* actions whose effect the executor announced in this run
    changes     \* mode changes of this tick number, oldest first

machine == <<mode, elapsed, depth>>
candidates == <<left, stale, cooldown>>
vars == <<pc, machine, candidates, decisions, todo, effects, changes>>

Modes == {"active", "consolidation", "recovery"}
ModeActions == {"enter", "exit"}
Actions == ModeActions \cup Others
Decision == [action : Actions, age : 0 .. DecisionWindow - 1, executed : BOOLEAN]

Later(time, gap) == IF time + gap > MaxConsolidation THEN MaxConsolidation ELSE time + gap
Sooner(time, gap) == IF time < gap THEN 0 ELSE time - gap

-----------------------------------------------------------------------------
\* Mutant: the guard has no minimum stay.
Allowed_NoMinimum(a) ==
    \/ mode = "active" /\ a # "exit"
    \/ mode = "consolidation" /\ a \in (Others \ Outside) \cup {"exit"}
    \/ mode = "recovery" /\ a \notin ModeActions

(* What the guard lets through, by mode.                                   *)
Allowed(a) ==
    \/ mode = "active" /\ a # "exit"
    \/ mode = "consolidation" /\ a \in Others \ Outside
    \/ mode = "consolidation" /\ a = "exit" /\ elapsed >= GuardMin
    \/ mode = "recovery" /\ a \notin ModeActions

(* What the proposer's own rules may propose, and what they always propose. *)
Proposable == (Others \ Outside) \cup (IF mode = "active" THEN {"enter"} ELSE {})
Certain == IF mode = "consolidation" /\ elapsed >= ProposerMin THEN {"exit"} ELSE {}

(* Remembered experiences may propose any action, but not in consolidation: *)
(* the proposer returns before it comes to them.                           *)
Remembered == IF mode = "consolidation" THEN {} ELSE Actions

-----------------------------------------------------------------------------
Init ==
    /\ pc = "idle"
    /\ mode = "active" /\ elapsed = 0 /\ depth = 0
    /\ left = [a \in {} |-> 0] /\ stale = {}
    /\ cooldown = [a \in Actions |-> 0]
    /\ decisions = {} /\ todo = {} /\ effects = {} /\ changes = << >>

(* An input arrives gap ticks after the last one; _run_tick starts.        *)
Feed(gap) ==
    /\ pc = "idle"
    /\ pc' = "propose"
    /\ elapsed' = Later(elapsed, gap)
    /\ left' = [a \in DOMAIN left |-> Sooner(left[a], gap)]
    /\ cooldown' = [a \in Actions |-> Sooner(cooldown[a], gap)]
    /\ changes' = IF gap = 0 THEN changes ELSE << >>
    /\ effects' = {}
    /\ UNCHANGED <<mode, depth, stale, decisions, todo>>

NewTick == \E gap \in Gaps \ {0} : Feed(gap)
SameTick == 0 \in Gaps /\ Feed(0)

(* A proposal is dropped while its action cools down.  It revives or       *)
(* prolongs a candidate that is still in the field, which keeps its        *)
(* created_at_tick, or creates a new one.                                  *)
Propose ==
    /\ pc = "propose"
    /\ pc' = "select"
    /\ \E asked \in SUBSET (Proposable \cup Remembered) :
         LET proposed == {a \in asked \cup Certain : cooldown[a] = 0}
         IN  left' = [a \in DOMAIN left \cup proposed |->
                        IF a \in proposed THEN CandidateTtl ELSE left[a]]
    /\ UNCHANGED <<machine, stale, cooldown, decisions, todo, effects, changes>>

(* decay_all: what ran out of time goes, what is weak may go.              *)
Decayed(field) ==
    /\ field \subseteq {a \in DOMAIN left : left[a] > 0}
    /\ {a \in DOMAIN left : left[a] = CandidateTtl /\ CandidateTtl > 0} \subseteq field

(* decay_all, then at most one candidate that has no cooldown and passes   *)
(* the guard is decided; its action starts to cool down.  Each decision    *)
(* makes the earlier ones one older.                                       *)
Decide(a) ==
    /\ cooldown[a] = 0 /\ Allowed(a)
    /\ cooldown' = [cooldown EXCEPT ![a] = Cooldown]
    /\ decisions' = {[d EXCEPT !.age = @ + 1] : d \in {e \in decisions : e.age + 1 < DecisionWindow}}
                      \cup {[action |-> a, age |-> 0, executed |-> FALSE]}

Select ==
    /\ pc = "select"
    /\ \E field \in SUBSET DOMAIN left :
         /\ Decayed(field)
         /\ left' = [a \in field |-> left[a]]
         /\ stale' = stale \cap field
         /\ \/ pc' = "mode" /\ UNCHANGED <<cooldown, decisions>>
            \/ pc' = "execute" /\ \E a \in field : Decide(a)
    /\ todo' = decisions'
    /\ UNCHANGED <<machine, effects, changes>>

(* The executor announces the effect of each recent decision it has not    *)
(* handled and has a builder for, unless the guard now refuses it.  A      *)
(* decision about anything else than the mode is then done with.           *)
Execute ==
    /\ pc = "execute"
    /\ pc' = "mode"
    /\ effects' = {d.action : d \in {e \in decisions : ~e.executed /\ Allowed(e.action)}} \ Outside
    /\ decisions' = {[d EXCEPT !.executed = TRUE] : d \in {e \in decisions : e.action \in ModeActions}}
    /\ todo' = decisions'
    /\ UNCHANGED <<machine, candidates, changes>>

(* _set_mode, and the depth the two kinds of change leave behind.           *)
Change(to) ==
    /\ mode' = to
    /\ elapsed' = 0
    /\ depth' = CASE to = "consolidation" -> 100 [] to = "recovery" -> 35 [] to = "active" -> 0
    /\ stale' = DOMAIN left
    /\ changes' = Append(changes, to)
    /\ UNCHANGED <<left, cooldown>>

Stay == UNCHANGED <<machine, candidates, changes>>

\* Mutant: the manager wants to stay one tick longer than the guard.
Handle_LongerMinimum(d) ==
    LET enters == d.action = "enter" /\ mode = "active"
        early  == d.action = "exit" /\ mode = "consolidation" /\ elapsed <= MinConsolidation
        leaves == d.action = "exit" /\ mode = "consolidation" /\ ~early
    IN  /\ pc = "mode"
        /\ \A e \in todo : e.age <= d.age
        /\ todo' = todo \ {d}
        /\ decisions' = decisions \ {d}
        /\ IF enters THEN Change("consolidation") ELSE IF leaves THEN Change("recovery") ELSE Stay
        /\ UNCHANGED <<pc, effects>>

(* One round of SystemModeManager.run's loop, oldest decision first.  A     *)
(* decision to leave that comes too early is the only one not marked        *)
(* handled: a later run comes back to it.                                  *)
Handle(d) ==
    LET enters == d.action = "enter" /\ mode = "active"
        early  == d.action = "exit" /\ mode = "consolidation" /\ elapsed < MinConsolidation
        leaves == d.action = "exit" /\ mode = "consolidation" /\ ~early
    IN  /\ pc = "mode"
        /\ \A e \in todo : e.age <= d.age
        /\ todo' = todo \ {d}
        /\ decisions' = IF early THEN decisions ELSE decisions \ {d}
        /\ IF enters THEN Change("consolidation") ELSE IF leaves THEN Change("recovery") ELSE Stay
        /\ UNCHANGED <<pc, effects>>

\* Mutants of EndManager: a limit missed by one, no limit, a recovery that
\* ends in the tick it starts in, and no recovery at all.
EndManager_LateLimit ==
    /\ pc = "mode" /\ todo = {}
    /\ pc' = "cleanup"
    /\ \/ mode = "consolidation" /\ elapsed > MaxConsolidation /\ Change("recovery")
       \/ mode = "recovery" /\ elapsed >= RecoveryTicks /\ Change("active")
       \/ mode = "consolidation" /\ elapsed <= MaxConsolidation /\ Stay
       \/ mode = "recovery" /\ elapsed < RecoveryTicks /\ Stay
       \/ mode = "active" /\ Stay
    /\ UNCHANGED <<decisions, todo, effects>>

EndManager_NoLimit ==
    /\ pc = "mode" /\ todo = {}
    /\ pc' = "cleanup"
    /\ \/ mode = "recovery" /\ elapsed >= RecoveryTicks /\ Change("active")
       \/ mode = "recovery" /\ elapsed < RecoveryTicks /\ Stay
       \/ mode \in {"active", "consolidation"} /\ Stay
    /\ UNCHANGED <<decisions, todo, effects>>

EndManager_InstantRecovery ==
    /\ pc = "mode" /\ todo = {}
    /\ pc' = "cleanup"
    /\ \/ mode = "consolidation" /\ elapsed >= MaxConsolidation /\ Change("recovery")
       \/ mode = "recovery" /\ Change("active")
       \/ mode = "consolidation" /\ elapsed < MaxConsolidation /\ Stay
       \/ mode = "active" /\ Stay
    /\ UNCHANGED <<decisions, todo, effects>>

EndManager_NoRecovery ==
    /\ pc = "mode" /\ todo = {}
    /\ pc' = "cleanup"
    /\ \/ mode = "consolidation" /\ elapsed >= MaxConsolidation /\ Change("active")
       \/ mode = "recovery" /\ elapsed >= RecoveryTicks /\ Change("active")
       \/ mode = "consolidation" /\ elapsed < MaxConsolidation /\ Stay
       \/ mode = "recovery" /\ elapsed < RecoveryTicks /\ Stay
       \/ mode = "active" /\ Stay
    /\ UNCHANGED <<decisions, todo, effects>>

(* After the loop, whatever was decided: consolidation ends when it lasted  *)
(* long enough, and so does recovery.                                      *)
EndManager ==
    /\ pc = "mode" /\ todo = {}
    /\ pc' = "cleanup"
    /\ \/ mode = "consolidation" /\ elapsed >= MaxConsolidation /\ Change("recovery")
       \/ mode = "recovery" /\ elapsed >= RecoveryTicks /\ Change("active")
       \/ mode = "consolidation" /\ elapsed < MaxConsolidation /\ Stay
       \/ mode = "recovery" /\ elapsed < RecoveryTicks /\ Stay
       \/ mode = "active" /\ Stay
    /\ UNCHANGED <<decisions, todo, effects>>

(* The changes of this tick number among the most recent CleanupWindow.     *)
RecentChanges ==
    LET skipped == IF Len(changes) > CleanupWindow THEN Len(changes) - CleanupWindow ELSE 0
    IN  {changes[i] : i \in {j \in 1 .. Len(changes) : j > skipped}}

\* Mutant: leaving consolidation forgets the exit only.
Forgotten_ExitOnly(to) ==
    CASE to = "consolidation" -> {"enter"}
      [] to = "recovery"      -> {"exit"}
      [] to = "active"        -> {"exit"}

(* _patterns_for_transition.                                               *)
Forgotten(to) ==
    CASE to = "consolidation" -> {"enter"}
      [] to = "recovery"      -> {"enter", "exit", Store}
      [] to = "active"        -> {"enter", "exit"}

Cleanup ==
    /\ pc = "cleanup"
    /\ pc' = "idle"
    /\ LET kept == DOMAIN left \ UNION {Forgotten(to) : to \in RecentChanges}
       IN  /\ left' = [a \in kept |-> left[a]]
           /\ stale' = stale \cap kept
    /\ UNCHANGED <<machine, cooldown, decisions, todo, effects, changes>>

Next ==
    \/ NewTick \/ SameTick
    \/ Propose \/ Select \/ Execute
    \/ \E d \in todo : Handle(d)
    \/ EndManager \/ Cleanup

Spec == Init /\ [][Next]_vars

(* The caller goes on feeding inputs, a started tick runs to its end, and   *)
(* the inputs do not all carry the same tick number.                        *)
Running == Propose \/ Select \/ Execute \/ (\E d \in todo : Handle(d)) \/ EndManager \/ Cleanup
FairSpec == Spec /\ WF_vars(Running) /\ SF_vars(NewTick)

-----------------------------------------------------------------------------
(* Types; nothing is left for the executor or the manager between ticks,    *)
(* and at most one decision inside one.                                    *)
TypeOK ==
    /\ pc \in {"idle", "propose", "select", "execute", "mode", "cleanup"}
    /\ mode \in Modes /\ elapsed \in 0 .. MaxConsolidation /\ depth \in {0, 35, 100}
    /\ DOMAIN left \subseteq Actions /\ left \in [DOMAIN left -> 0 .. CandidateTtl]
    /\ stale \subseteq DOMAIN left
    /\ cooldown \in [Actions -> 0 .. Cooldown]
    /\ decisions \subseteq Decision /\ todo \subseteq decisions
    /\ effects \subseteq Actions \ Outside
    /\ changes \in Seq(Modes)

(* However the caller numbers its ticks, consolidation and recovery are     *)
(* over by the end of the first tick that reaches their limit.              *)
StaysBounded ==
    pc = "idle" =>
        /\ mode = "consolidation" => elapsed < MaxConsolidation
        /\ mode = "recovery" => elapsed < RecoveryTicks

(* No decision outlives its tick: the guard that let it through, the        *)
(* executor and the manager agree about it, so no decision taken in one     *)
(* stay changes the mode in a later one.                                    *)
NoLeftoverDecision == pc = "idle" => decisions = {}

(* The executor announces state_consolidation_mode_entered (or exited) in    *)
(* phase 04, before the manager acts in phase 05: when the tick is over the *)
(* announcement was true.                                                  *)
EffectsTellTruth ==
    pc = "cleanup" \/ pc = "idle" =>
        /\ "enter" \in effects => mode = "consolidation" /\ elapsed = 0
        /\ "exit" \in effects => mode = "recovery" /\ elapsed = 0

(* A decision about the mode takes effect in its own tick or never.         *)
DecisionsActAtOnce == NoLeftoverDecision /\ EffectsTellTruth

(* A candidate to enter or leave consolidation that was created before the  *)
(* current mode was entered is not there to be selected, nor is one to      *)
(* store a memory candidate that stems from the consolidation just left.    *)
(* Only a remembered "exit" may wait in the field when consolidation is     *)
(* entered; the guard keeps it back until it has run out.                   *)
NoStaleTransition ==
    pc \in {"idle", "propose", "select"} =>
        /\ "enter" \notin stale
        /\ "exit" \in stale => mode = "consolidation"
        /\ Store \in stale => mode # "recovery"

(* One tick number holds two mode changes at the most, however many runs it *)
(* has, so the clean-up's window misses none of them.                       *)
FewChanges == Len(changes) <= 2

(* The clean-up does what it is for, and its window is wide enough.         *)
CleanupSucceeds == NoStaleTransition /\ FewChanges

(* The mode goes round active, consolidation, recovery; a stay in           *)
(* consolidation or recovery is never cut short, and consolidation is       *)
(* entered only after the executor announced it.                           *)
NextMode(m) == CASE m = "active" -> "consolidation" [] m = "consolidation" -> "recovery" [] m = "recovery" -> "active"
LeastStay(m) == CASE m = "active" -> 0 [] m = "consolidation" -> MinConsolidation [] m = "recovery" -> RecoveryTicks
ModeStep ==
    mode' # mode =>
        /\ mode' = NextMode(mode)
        /\ elapsed >= LeastStay(mode)
        /\ mode' = "consolidation" => "enter" \in effects
GoesRound == [][ModeStep]_vars

(* Whenever the system left the active mode it comes back to it, whether or *)
(* not anything ever decides to leave consolidation.                        *)
ComesBack == mode # "active" ~> mode = "active"

=============================================================================
