----------------------------- MODULE CausalLoop -----------------------------
(***************************************************************************)
(* One action and its consequence: NFPRememberedActionExecutionCoordinator *)
(* applies a remembered action to the world, ContextMemoryManager relates  *)
(* it to the observation of the next tick, and ShortMemory retains what    *)
(* was observed.  A harness feeds the same manager: it delivers windows,   *)
(* late or again, announces actions of its own before it applies them,     *)
(* moves the clock, and hands completed transitions to the short memory.   *)
(*                                                                         *)
(* The callers share one thread, so nothing of theirs falls between the    *)
(* steps of a call; the world does, and may move by itself at any step.    *)
(* It refuses a signal of another tick, and each signal moves it by one    *)
(* tick, so the signals it took say how far it is.                         *)
(* A window is its last tick and its topology; an action frame is who made *)
(* it, a serial number and its tick.  Values and predictions decide        *)
(* nothing here.  current_action_frame is pending's frame: the code sets   *)
(* and clears both together.                                               *)
(***************************************************************************)
EXTENDS Integers, Sequences, Positions

CONSTANTS
    None,           \* Python's None
    Outside,        \* a signal of somebody else
    Topologies,     \* topologies of visual windows
    MaxEntries,     \* ShortMemory.max_entries
    MaxAge,         \* ShortMemory.max_age_ticks
    ClockLead,      \* how far a caller's clock may be ahead of the world
    MaxTick,        \* bound: ticks of the world
    MaxFrames       \* bound: action frames

Window == [end : Nat, topology : Topologies]
Frame == [by : {"coordinator", "harness"}, id : Nat, tick : Nat]
Pending == [id : Nat, before : Window, frame : Frame]
RecentTransition == [id : Nat, before : Window, frame : Frame, after : Window]

ASSUME LoopAssumption ==
    /\ None \notin Window \cup Pending \cup Frame
    /\ Outside \notin Frame
    /\ MaxEntries \in Nat \ {0} /\ MaxAge \in Nat /\ ClockLead \in Nat
    /\ MaxTick \in Nat /\ MaxFrames \in Nat

VARIABLES
    applied,        \* the signals the world took, one a tick
    window,         \* current_external_sensory_window
    pending,        \* pending_causal_transition
    clock,          \* _nfp_current_tick
    nextTransition, \* _next_transition_id
    nextFrame,      \* the frame id generators
    completed,      \* transitions completed so far, in their callers' hands
    entries,        \* ShortMemory._entries, oldest first
    shortTick,      \* ShortMemory._current_tick
    lastObservation,\* ShortMemory._last_observation_tick
    call,           \* where a call of execute or of the harness is
    result,         \* the last result of execute: its status and its frame
    ahead           \* history: a caller's clock has been ahead of the world

manager == <<window, pending, clock, nextTransition>>
short == <<entries, shortTick, lastObservation>>
vars == <<applied, manager, nextFrame, completed, short, call, result, ahead>>

Tick == Len(applied)
Observation(x) == x.frame.tick + 1
Elements(s) == {s[i] : i \in DOMAIN s}
Idle == call.at = "idle"
NoCall == [at |-> "idle", frame |-> None, observe |-> FALSE, keep |-> FALSE]
Call == [at : {"idle", "apply", "track", "observe", "announced"},
         frame : Frame \cup {None}, observe : BOOLEAN, keep : BOOLEAN]

(* A caller's clock, which may run ahead.                                  *)
Reads(now) == ahead' = (ahead \/ now > Tick)

Executed == {"executed_and_observed", "action_executed_observation_pending",
             "action_executed_causal_tracking_failed"}
Refused == {"invalid_selected_experience", "actuator_incompatible",
            "guard_denied", "transduction_rejected"}
Statuses == Executed \cup Refused \cup
            {"stale_selection", "causal_slot_occupied", "world_execution_failed"}

Init ==
    /\ applied = <<>>
    /\ window = None /\ pending = None
    /\ clock = 0 /\ nextTransition = 1
    /\ nextFrame = 1
    /\ completed = {}
    /\ entries = <<>> /\ shortTick = 0 /\ lastObservation = -1
    /\ call = NoCall
    /\ result = [status |-> "stale_selection", frame |-> None]
    /\ ahead = FALSE

-----------------------------------------------------------------------------
(* ContextMemoryManager.                                                   *)

\* Mutant: any later window is taken for the consequence.
Completes_Late(w) == pending # None /\ w.end >= pending.frame.tick + 1

Completes(w) == pending # None /\ w.end = pending.frame.tick + 1

\* Mutant: two windows of one tick are refused.
Accepts_Strict(w) ==
    /\ w.end > clock
    /\ Completes(w) => w.topology = pending.before.topology

(* The relation is built, and may be refused, before anything changes.     *)
Accepts(w) ==
    /\ w.end >= clock
    /\ Completes(w) => w.topology = pending.before.topology

Relation(w) == [id |-> pending.id, before |-> pending.before,
                frame |-> pending.frame, after |-> w]

Observe(w) ==
    /\ window' = w
    /\ clock' = w.end
    /\ pending' = IF pending # None /\ w.end >= pending.frame.tick + 1
                  THEN None ELSE pending
    /\ completed' = completed \cup (IF Completes(w) THEN {Relation(w)} ELSE {})
    /\ UNCHANGED nextTransition

Trackable(frame) ==
    /\ frame.tick >= clock
    /\ pending = None
    /\ window # None
    /\ window.end = frame.tick

Track(frame) ==
    /\ pending' = [id |-> nextTransition, before |-> window, frame |-> frame]
    /\ clock' = frame.tick
    /\ nextTransition' = nextTransition + 1
    /\ UNCHANGED window

\* Mutant: the deadline is one tick too late.
Expire_Late(now) ==
    /\ Idle
    /\ now >= clock
    /\ pending' = IF pending # None /\ now > pending.frame.tick + 2
                  THEN None ELSE pending
    /\ clock' = now
    /\ Reads(now)
    /\ UNCHANGED <<applied, window, nextTransition, nextFrame, completed, short, call, result>>

Expire(now) ==
    /\ Idle
    /\ now >= clock
    /\ pending' = IF pending # None /\ now > pending.frame.tick + 1
                  THEN None ELSE pending
    /\ clock' = now
    /\ Reads(now)
    /\ UNCHANGED <<applied, window, nextTransition, nextFrame, completed, short, call, result>>

-----------------------------------------------------------------------------
(* ShortMemory: the last MaxEntries of those not too old.                  *)

\* Mutant: one too many.
Retained_OneMore(xs, now) ==
    LET young == Picked(xs, {i \in DOMAIN xs : now - Observation(xs[i]) <= MaxAge})
        surplus == Len(young) - MaxEntries - 1
    IN  IF surplus > 0 THEN SubSeq(young, surplus + 1, Len(young)) ELSE young

\* Mutant: the other end of the list is kept.
Retained_Oldest(xs, now) ==
    LET young == Picked(xs, {i \in DOMAIN xs : now - Observation(xs[i]) <= MaxAge})
    IN  IF Len(young) > MaxEntries THEN SubSeq(young, 1, MaxEntries) ELSE young

Retained(xs, now) ==
    LET young == Picked(xs, {i \in DOMAIN xs : now - Observation(xs[i]) <= MaxAge})
        surplus == Len(young) - MaxEntries
    IN  IF surplus > 0 THEN SubSeq(young, surplus + 1, Len(young)) ELSE young

\* Mutant: the order of the observations is not compared.
Rememberable_AnyOrder(x, now) ==
    /\ now >= shortTick
    /\ now >= Observation(x)
    /\ \A y \in Elements(entries) : y.id # x.id

Rememberable(x, now) ==
    /\ now >= shortTick
    /\ now >= Observation(x)
    /\ Observation(x) >= lastObservation
    /\ \A y \in Elements(entries) : y.id # x.id

Remember(x, now) ==
    /\ entries' = Retained(Append(entries, x), now)
    /\ shortTick' = now
    /\ lastObservation' = Observation(x)

Prune(now) ==
    /\ Idle
    /\ now >= shortTick
    /\ entries' = Retained(entries, now)
    /\ shortTick' = now
    /\ Reads(now)
    /\ UNCHANGED <<applied, manager, nextFrame, completed, lastObservation, call, result>>

-----------------------------------------------------------------------------
(* The harness.                                                            *)

(* A window of the world as it was at a tick, now or earlier, arrives.     *)
Sense(w) ==
    /\ Idle
    /\ w.end <= Tick
    /\ Accepts(w)
    /\ Observe(w)
    /\ UNCHANGED <<applied, nextFrame, short, call, result, ahead>>

(* An action is announced to the manager before it is applied.             *)
Announce(tick) ==
    LET frame == [by |-> "harness", id |-> nextFrame, tick |-> tick]
    IN  /\ Idle
        /\ nextFrame <= MaxFrames /\ Tick < MaxTick
        /\ Trackable(frame)
        /\ Track(frame)
        /\ nextFrame' = nextFrame + 1
        /\ call' = [NoCall EXCEPT !.at = "announced", !.frame = frame]
        /\ UNCHANGED <<applied, completed, short, result, ahead>>

Takes(frame) == frame.tick = Tick /\ Tick < MaxTick

ApplyAnnounced ==
    /\ call.at = "announced"
    /\ Takes(call.frame)
    /\ applied' = Append(applied, call.frame)
    /\ call' = NoCall
    /\ UNCHANGED <<manager, nextFrame, completed, short, result, ahead>>

(* The world refuses it, or it is not applied after all.                   *)
Withdraw ==
    /\ call.at = "announced"
    /\ call' = NoCall
    /\ UNCHANGED <<applied, manager, nextFrame, completed, short, result, ahead>>

(* A completed transition is handed over, perhaps late and perhaps again.  *)
HandOver(x, now) ==
    /\ Idle
    /\ Rememberable(x, now)
    /\ Remember(x, now)
    /\ Reads(now)
    /\ UNCHANGED <<applied, manager, nextFrame, completed, call, result>>

(* The world takes the signal of somebody else.                            *)
WorldMoves ==
    /\ Tick < MaxTick
    /\ applied' = Append(applied, Outside)
    /\ UNCHANGED <<manager, nextFrame, completed, short, call, result, ahead>>

-----------------------------------------------------------------------------
(* NFPRememberedActionExecutionCoordinator.execute.                        *)

Return(status, frame) ==
    /\ result' = [status |-> status, frame |-> frame]
    /\ call' = NoCall

\* Mutant: the context is not compared with the selection.
Fresh_AnyContext(tick) == window # None /\ tick = Tick

Fresh(tick) == window # None /\ window.end = tick /\ tick = Tick

Invalid ==
    /\ Idle
    /\ Return("invalid_selected_experience", None)
    /\ UNCHANGED <<applied, manager, nextFrame, completed, short, ahead>>

Stale(tick) ==
    /\ Idle
    /\ ~Fresh(tick)
    /\ Return("stale_selection", None)
    /\ UNCHANGED <<applied, manager, nextFrame, completed, short, ahead>>

Occupied(tick) ==
    /\ Idle
    /\ Fresh(tick)
    /\ pending # None
    /\ Return("causal_slot_occupied", None)
    /\ UNCHANGED <<applied, manager, nextFrame, completed, short, ahead>>

Materialized(tick) == [by |-> "coordinator", id |-> nextFrame, tick |-> tick]

(* The materializer, the actuator, the guard or the transducer says no.    *)
Refuse(tick, status) ==
    /\ Idle
    /\ Fresh(tick)
    /\ pending = None
    /\ nextFrame <= MaxFrames
    /\ nextFrame' = nextFrame + 1
    /\ Return(status, Materialized(tick))
    /\ UNCHANGED <<applied, manager, completed, short, ahead>>

\* Mutant: the action is tracked before it is applied.
Execute_TracksFirst(tick, observe, keep) ==
    /\ Idle
    /\ Fresh(tick)
    /\ nextFrame <= MaxFrames
    /\ Trackable(Materialized(tick)) /\ Track(Materialized(tick))
    /\ nextFrame' = nextFrame + 1
    /\ call' = [at |-> "apply", frame |-> Materialized(tick),
                observe |-> observe, keep |-> keep]
    /\ UNCHANGED <<applied, completed, short, result, ahead>>

Execute(tick, observe, keep) ==
    /\ Idle
    /\ Fresh(tick)
    /\ pending = None
    /\ nextFrame <= MaxFrames
    /\ nextFrame' = nextFrame + 1
    /\ call' = [at |-> "apply", frame |-> Materialized(tick),
                observe |-> observe, keep |-> keep]
    /\ UNCHANGED <<applied, manager, completed, short, result, ahead>>

ApplySignal ==
    /\ call.at = "apply"
    /\ Takes(call.frame)
    /\ applied' = Append(applied, call.frame)
    /\ call' = [call EXCEPT !.at = "track"]
    /\ UNCHANGED <<manager, nextFrame, completed, short, result, ahead>>

(* A signal of another tick, or any other error of the world.              *)
WorldFails ==
    /\ call.at = "apply"
    /\ Return("world_execution_failed", call.frame)
    /\ UNCHANGED <<applied, manager, nextFrame, completed, short, ahead>>

TrackAction ==
    /\ call.at = "track"
    /\ Trackable(call.frame)
    /\ Track(call.frame)
    /\ IF call.observe
       THEN call' = [call EXCEPT !.at = "observe"] /\ UNCHANGED result
       ELSE Return("action_executed_observation_pending", call.frame)
    /\ UNCHANGED <<applied, nextFrame, completed, short, ahead>>

\* Mutant: an action that could not be tracked is reported as not executed.
TrackingFails_NotExecuted ==
    /\ call.at = "track"
    /\ ~Trackable(call.frame)
    /\ Return("world_execution_failed", call.frame)
    /\ UNCHANGED <<applied, manager, nextFrame, completed, short, ahead>>

TrackingFails ==
    /\ call.at = "track"
    /\ ~Trackable(call.frame)
    /\ Return("action_executed_causal_tracking_failed", call.frame)
    /\ UNCHANGED <<applied, manager, nextFrame, completed, short, ahead>>

(* The consequence is observed at once; it is late if the world moved.  A  *)
(* short memory that refuses it changes the detail of the result only.     *)
ObserveConsequence(topology) ==
    LET w == [end |-> Tick, topology |-> topology]
        x == Relation(w)
    IN  /\ call.at = "observe"
        /\ Accepts(w)
        /\ Observe(w)
        /\ Return(IF Completes(w) THEN "executed_and_observed"
                  ELSE "action_executed_observation_pending", call.frame)
        /\ IF Completes(w) /\ call.keep /\ Rememberable(x, Observation(x))
           THEN Remember(x, Observation(x)) ELSE UNCHANGED short
        /\ UNCHANGED <<applied, nextFrame, ahead>>

(* The snapshot, the transducer or the manager raises.                     *)
ObservationFails ==
    /\ call.at = "observe"
    /\ Return("action_executed_observation_pending", call.frame)
    /\ UNCHANGED <<applied, manager, nextFrame, completed, short, ahead>>

-----------------------------------------------------------------------------
Clock == 0 .. Tick + ClockLead

Harness ==
    \/ \E t \in 0 .. Tick, p \in Topologies : Sense([end |-> t, topology |-> p])
    \/ \E t \in 0 .. Tick : Announce(t)
    \/ ApplyAnnounced
    \/ Withdraw
    \/ \E now \in Clock : Expire(now)
    \/ \E now \in Clock : Prune(now)
    \/ \E x \in completed, now \in Clock : HandOver(x, now)

Coordinator ==
    \/ Invalid
    \/ \E t \in 0 .. Tick : Stale(t)
    \/ \E t \in 0 .. Tick : Occupied(t)
    \/ \E t \in 0 .. Tick, status \in Refused : Refuse(t, status)
    \/ \E t \in 0 .. Tick, observe, keep \in BOOLEAN : Execute(t, observe, keep)
    \/ ApplySignal
    \/ WorldFails
    \/ TrackAction
    \/ TrackingFails
    \/ \E p \in Topologies : ObserveConsequence(p)
    \/ ObservationFails

Next == Harness \/ Coordinator \/ WorldMoves

Spec == Init /\ [][Next]_vars

(* A harness that keeps sensing the world and callers that end their calls. *)
SenseNow == \E p \in Topologies : Sense([end |-> Tick, topology |-> p])
Proceed ==
    \/ ApplyAnnounced \/ Withdraw \/ ApplySignal \/ WorldFails \/ TrackAction \/ TrackingFails
    \/ ObservationFails \/ \E p \in Topologies : ObserveConsequence(p)

FairSpec == Spec /\ SF_vars(SenseNow) /\ WF_vars(Proceed)

-----------------------------------------------------------------------------
Result == [status : Statuses, frame : Frame \cup {None}]

LoopTypeOK ==
    /\ applied \in Seq(Frame \cup {Outside})
    /\ window \in Window \cup {None}
    /\ pending \in Pending \cup {None}
    /\ clock \in Nat
    /\ nextTransition \in Nat
    /\ nextFrame \in Nat
    /\ completed \in SUBSET RecentTransition
    /\ call \in Call
    /\ result \in Result
    /\ ahead \in BOOLEAN

ShortTypeOK ==
    /\ entries \in Seq(RecentTransition)
    /\ shortTick \in Nat
    /\ lastObservation \in Nat \cup {-1}

TypeOK == LoopTypeOK /\ ShortTypeOK

Took(frame) == frame \in Elements(applied)

(* What the coordinator records as the cause is what moved the world: the   *)
(* frame of a relation it opened, pending or completed, is the signal the   *)
(* world took at that tick, whoever else moves the world.                   *)
CauseIsReal ==
    \A x \in completed \cup {pending} :
        x # None /\ x.frame.by = "coordinator" =>
            /\ Observation(x) \in DOMAIN applied
            /\ applied[Observation(x)] = x.frame

(* execute never errs about the world: its result says that the action was  *)
(* executed exactly if the world took the signal.                           *)
ResultTellsTruth ==
    result.frame # None => (result.status \in Executed <=> Took(result.frame))

(* A completed relation joins the windows next to its action, and no tick   *)
(* is the consequence of two actions.                                       *)
OneConsequence ==
    /\ \A x \in completed : /\ x.before.end = x.frame.tick
                            /\ x.after.end = Observation(x)
                            /\ x.before.topology = x.after.topology
    /\ \A x, y \in completed : Observation(x) = Observation(y) \/ x.id = y.id => x = y

(* An open relation is still the present: the manager has seen nothing      *)
(* after the action, and its clock has not passed the tick it waits for.    *)
SlotIsPresent ==
    pending # None =>
        /\ window.end = pending.frame.tick
        /\ clock \in {pending.frame.tick, pending.frame.tick + 1}
        /\ \A x \in completed : Observation(x) <= pending.frame.tick

(* Relations stand in their place in time, the completed and the open.      *)
RelationsInTime == OneConsequence /\ SlotIsPresent

(* The short memory is within its two bounds and holds the most recent of   *)
(* what it was given.                                                       *)
ShortMemoryBounded ==
    /\ Len(entries) <= MaxEntries
    /\ \A x \in Elements(entries) : /\ shortTick - Observation(x) \in 0 .. MaxAge
                          /\ Observation(x) <= lastObservation

(* What the short memory has dropped does not come back, though it keeps no *)
(* list of what it had and its callers may hand over a relation again.      *)
ForgottenStaysForgotten ==
    [][\A x \in Elements(entries') \ Elements(entries) : Observation(x) > lastObservation]_vars

(* As long as no caller's clock ran ahead of the world, a moved world is    *)
(* tracked, though the coordinator does not look at the manager's clock.    *)
TrackingNeverFails ==
    ~ahead => result.status # "action_executed_causal_tracking_failed"

(* ... and what was observed at once is kept by the short memory.           *)
ObservedIsKept ==
    [][/\ ~ahead
       /\ call.at = "observe" /\ call.keep
       /\ call'.at = "idle" /\ result'.status = "executed_and_observed"
       => \E x \in Elements(entries') : x.frame = call.frame]_vars

(* What the short memory promises of what it is given.                      *)
ShortMemoryKeeps == []ShortMemoryBounded /\ ForgottenStaysForgotten /\ ObservedIsKept

(* An action that reached the world does not hold the slot for ever.  (One  *)
(* that was announced and withdrawn may: nothing but time clears it.)       *)
SlotFrees == (pending # None /\ Took(pending.frame)) ~> (pending = None)

(* If no caller's clock runs ahead, the manager's context becomes current   *)
(* again and again, so that a fresh selection can be executed.              *)
ContextKeepsUp == []~ahead => []<>(window # None /\ window.end = Tick)

(* What must go on: the slot is freed and the context catches up.           *)
KeepsUp == SlotFrees /\ ContextKeepsUp
=============================================================================
