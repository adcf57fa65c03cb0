-------------------------- MODULE CausalLoop_proofs --------------------------
(***************************************************************************)
(* Proofs about CausalLoop, for every world, harness and bound.  The       *)
(* argument has four parts.  The manager's clock only goes forward, so an  *)
(* open relation is the newest thing it knows and each observation tick is *)
(* used once (ManagerInv).  Frames have fresh serials and the signals the  *)
(* world took only grow, so a call knows whether its frame is among them   *)
(* (CallInv).  A relation of the coordinator is opened only for a frame    *)
(* the world took at the frame's tick (CauseIsReal).  And what the short   *)
(* memory was given last is the end of its list (ShortInv).                 *)
(***************************************************************************)
EXTENDS CausalLoop, Positions_proofs

USE DEF manager, short

ManagerOK ==
    /\ window \in Window \cup {None}
    /\ pending \in Pending \cup {None}
    /\ clock \in Nat
    /\ nextTransition \in Nat
    /\ completed \in SUBSET RecentTransition

ManagerInv ==
    /\ ManagerOK
    /\ window # None => window.end <= clock
    /\ SlotIsPresent
    /\ pending # None => /\ window # None
                         /\ pending.before.end = pending.frame.tick
                         /\ pending.id < nextTransition
                         /\ \A x \in completed : x.id # pending.id
    /\ OneConsequence
    /\ \A x \in completed : Observation(x) <= clock /\ x.id < nextTransition

(* The world took this frame, at the frame's own tick.                     *)
TookAt(frame) ==
    /\ frame.tick + 1 \in DOMAIN applied
    /\ applied[frame.tick + 1] = frame

CallInv ==
    /\ applied \in Seq(Frame \cup {Outside})
    /\ nextFrame \in Nat
    /\ call \in Call /\ result \in Result /\ ahead \in BOOLEAN
    /\ \A i \in DOMAIN applied : applied[i] # Outside => applied[i].id < nextFrame
    /\ result.frame # None => result.frame.id < nextFrame
    /\ call.frame # None => call.frame.id < nextFrame
    /\ call.at # "idle" => call.frame \in Frame
    /\ call.at \in {"apply", "announced"} => ~Took(call.frame) /\ call.frame # result.frame
    /\ call.at \in {"track", "observe"} => TookAt(call.frame)

Discipline ==
    ~ahead => /\ clock <= Tick
              /\ call.at \in {"apply", "track"} => Trackable(call.frame)
              /\ result.status # "action_executed_causal_tracking_failed"

IInv == ManagerInv /\ CallInv /\ CauseIsReal /\ ResultTellsTruth /\ Discipline

-----------------------------------------------------------------------------
LEMMA Constants ==
    /\ None \notin Window /\ None \notin Pending /\ None \notin Frame
    /\ Outside \notin Frame
    /\ ClockLead \in Nat
BY LoopAssumption DEF LoopAssumption

(* What Append does to the signals the world took.                         *)
LEMMA WorldGrows ==
    ASSUME applied \in Seq(Frame \cup {Outside}), NEW s \in Frame \cup {Outside},
           applied' = Append(applied, s)
    PROVE  /\ applied' \in Seq(Frame \cup {Outside})
           /\ Tick \in Nat /\ Tick' = Tick + 1
           /\ DOMAIN applied = 1 .. Tick /\ DOMAIN applied' = 1 .. Tick + 1
           /\ \A i \in DOMAIN applied : applied'[i] = applied[i]
           /\ applied'[Tick + 1] = s
           /\ \A f : Took(f)' <=> Took(f) \/ f = s
           /\ \A f : TookAt(f) => TookAt(f)'
<1>1. /\ applied' \in Seq(Frame \cup {Outside})
      /\ Tick \in Nat /\ Tick' = Tick + 1
      /\ DOMAIN applied = 1 .. Tick /\ DOMAIN applied' = 1 .. Tick + 1
      /\ \A i \in 1 .. Tick : applied'[i] = applied[i]
      /\ applied'[Tick + 1] = s
  BY DEF Tick
<1>2. \A i : i \in 1 .. Tick + 1 <=> i \in 1 .. Tick \/ i = Tick + 1
  BY <1>1
<1>3. \A f : Took(f)' <=> Took(f) \/ f = s
  BY <1>1, <1>2 DEF Took, Elements
<1>4. \A f : TookAt(f) => TookAt(f)'
  BY <1>1, <1>2 DEF TookAt
<1> QED
  BY <1>1, <1>3, <1>4

LEMMA TookAtTook ==
    ASSUME NEW f, TookAt(f) PROVE Took(f)
BY DEF TookAt, Took, Elements

-----------------------------------------------------------------------------
(* The manager's operations.                                               *)

LEMMA ObserveKeeps ==
    ASSUME ManagerInv, NEW w \in Window, Accepts(w), Observe(w)
    PROVE  ManagerInv'
<1>0. w.end \in Nat /\ w # None /\ w.end >= clock /\ clock \in Nat
  BY Constants DEF Window, Accepts, ManagerInv, ManagerOK
<1>1. /\ window' = w /\ clock' = w.end /\ nextTransition' = nextTransition
  BY DEF Observe
<1>2. CASE pending = None
  <2>1. pending' = None /\ completed' = completed
    BY <1>2 DEF Observe, Completes
  <2> QED
    BY <1>0, <1>1, <1>2, <2>1
       DEF ManagerInv, ManagerOK, SlotIsPresent, OneConsequence, Observation, RecentTransition, Frame
<1>3. CASE pending # None /\ w.end < pending.frame.tick + 1
  <2>1. pending.frame.tick \in Nat /\ pending \in Pending
    BY <1>3 DEF ManagerInv, ManagerOK, Pending, Frame
  <2>2. pending' = pending /\ completed' = completed
    BY <1>0, <1>3, <2>1 DEF Observe, Completes
  <2>3. w.end = pending.frame.tick
    BY <1>0, <1>3, <2>1 DEF ManagerInv, SlotIsPresent
  <2> QED
    BY <1>0, <1>1, <1>3, <2>1, <2>2, <2>3
       DEF ManagerInv, ManagerOK, SlotIsPresent, OneConsequence, Observation, RecentTransition, Frame
<1>4. CASE pending # None /\ w.end > pending.frame.tick + 1
  <2>1. pending.frame.tick \in Nat /\ pending \in Pending
    BY <1>4 DEF ManagerInv, ManagerOK, Pending, Frame
  <2>2. pending' = None /\ completed' = completed
    BY <1>0, <1>4, <2>1 DEF Observe, Completes
  <2> QED
    BY <1>0, <1>1, <1>4, <2>1, <2>2
       DEF ManagerInv, ManagerOK, SlotIsPresent, OneConsequence, Observation, RecentTransition, Frame
<1>5. CASE pending # None /\ w.end = pending.frame.tick + 1
  <2>1. pending.frame.tick \in Nat /\ pending \in Pending
    BY <1>5 DEF ManagerInv, ManagerOK, Pending, Frame
  <2> DEFINE x == Relation(w)
  <2>2. pending' = None /\ completed' = completed \cup {x}
    BY <1>0, <1>5, <2>1 DEF Observe, Completes
  <2>3. /\ x \in RecentTransition /\ x.id = pending.id /\ x.before = pending.before
        /\ x.frame = pending.frame /\ x.after = w
    BY <2>1 DEF Relation, RecentTransition, Pending
  <2>4. w.topology = pending.before.topology
    BY <1>5 DEF Accepts, Completes
  <2> HIDE DEF x
  <2>5. \A y \in completed : Observation(y) <= pending.frame.tick /\ y.id # x.id
    BY <1>5, <2>3 DEF ManagerInv, SlotIsPresent
  <2>6. \A y \in completed : Observation(y) \in Nat
    BY DEF ManagerInv, ManagerOK, Observation, RecentTransition, Frame
  <2>7. Observation(x) = pending.frame.tick + 1
    BY <2>3 DEF Observation
  <2>8. OneConsequence'
    <3>1. \A y \in completed : Observation(y) # Observation(x) /\ y.id # x.id
      BY <2>1, <2>5, <2>6, <2>7
    <3>2. x.before.end = x.frame.tick /\ x.after.end = Observation(x)
          /\ x.before.topology = x.after.topology
      BY <1>5, <2>3, <2>4, <2>7 DEF ManagerInv
    <3> QED
      BY <2>2, <3>1, <3>2 DEF ManagerInv, OneConsequence, Observation
  <2>9. \A y \in completed' : Observation(y) <= clock' /\ y.id < nextTransition'
    BY <1>0, <1>1, <1>5, <2>1, <2>2, <2>3, <2>5, <2>6, <2>7 DEF ManagerInv
  <2>10. ManagerOK'
    BY <1>0, <1>1, <2>2, <2>3 DEF ManagerInv, ManagerOK
  <2> QED
    BY <1>0, <1>1, <2>2, <2>8, <2>9, <2>10 DEF ManagerInv, SlotIsPresent, Observation
<1>6. pending # None => pending.frame.tick \in Nat
  BY DEF ManagerInv, ManagerOK, Pending, Frame
<1> QED
  BY <1>0, <1>2, <1>3, <1>4, <1>5, <1>6

LEMMA TrackKeeps ==
    ASSUME ManagerInv, NEW frame \in Frame, Trackable(frame), Track(frame),
           completed' = completed
    PROVE  ManagerInv'
<1>1. /\ frame.tick \in Nat /\ frame.tick >= clock /\ clock \in Nat
      /\ pending = None /\ window \in Window /\ window.end = frame.tick
      /\ nextTransition \in Nat
  BY DEF Trackable, ManagerInv, ManagerOK, Frame
<1>2. /\ window' = window /\ clock' = frame.tick /\ nextTransition' = nextTransition + 1
  BY DEF Track
<1>3. /\ pending' \in Pending /\ pending'.id = nextTransition
      /\ pending'.before = window /\ pending'.frame = frame
  BY <1>1 DEF Track, Pending
<1>4. \A x \in completed : Observation(x) \in Nat /\ Observation(x) <= clock
                          /\ x.id \in Nat /\ x.id < nextTransition
  BY DEF ManagerInv, ManagerOK, Observation, RecentTransition, Frame
<1>5. \A x \in completed' : Observation(x) <= clock' /\ x.id < nextTransition' /\ x.id # pending'.id
  BY <1>1, <1>2, <1>3, <1>4
<1>6. OneConsequence'
  BY DEF ManagerInv, OneConsequence, Observation
<1>7. ManagerOK'
  BY <1>1, <1>2, <1>3 DEF ManagerInv, ManagerOK
<1>8. SlotIsPresent'
  BY <1>1, <1>2, <1>3, <1>5 DEF SlotIsPresent, Observation
<1>9. window' # None /\ window'.end <= clock' /\ pending'.id < nextTransition'
      /\ pending'.before.end = pending'.frame.tick
  BY <1>1, <1>2, <1>3, Constants
<1> QED
  BY <1>5, <1>6, <1>7, <1>8, <1>9 DEF ManagerInv, Observation

LEMMA ExpireKeeps ==
    ASSUME ManagerInv, NEW now \in Nat, Expire(now)
    PROVE  ManagerInv'
<1>1. /\ now >= clock /\ clock' = now /\ clock \in Nat
      /\ UNCHANGED <<window, nextTransition, completed>>
  BY DEF Expire, ManagerInv, ManagerOK
<1>2. \A x \in completed : Observation(x) \in Nat
  BY DEF ManagerInv, ManagerOK, Observation, RecentTransition, Frame
<1>3. CASE pending = None
  <2>1. pending' = None
    BY <1>3 DEF Expire
  <2> QED
    BY <1>1, <1>2, <1>3, <2>1
       DEF ManagerInv, ManagerOK, SlotIsPresent, OneConsequence, Observation, Window
<1>4. CASE pending # None
  <2>1. pending \in Pending /\ pending.frame.tick \in Nat
    BY <1>4 DEF ManagerInv, ManagerOK, Pending, Frame
  <2>2. CASE now > pending.frame.tick + 1
    <3>1. pending' = None
      BY <1>4, <2>2 DEF Expire
    <3> QED
      BY <1>1, <1>2, <1>4, <3>1
         DEF ManagerInv, ManagerOK, SlotIsPresent, OneConsequence, Observation, Window
  <2>3. CASE ~ (now > pending.frame.tick + 1)
    <3>1. pending' = pending
      BY <2>3 DEF Expire
    <3>2. now \in {pending.frame.tick, pending.frame.tick + 1}
      BY <1>1, <1>4, <2>1, <2>3 DEF ManagerInv, SlotIsPresent
    <3> QED
      BY <1>1, <1>2, <1>4, <2>1, <3>1, <3>2
         DEF ManagerInv, ManagerOK, SlotIsPresent, OneConsequence, Observation, Window
  <2> QED
    BY <2>2, <2>3
<1> QED
  BY <1>3, <1>4

LEMMA ManagerStays ==
    ASSUME ManagerInv, UNCHANGED <<manager, completed>>
    PROVE  ManagerInv'
BY DEF ManagerInv, ManagerOK, SlotIsPresent, OneConsequence, Observation

-----------------------------------------------------------------------------
(* Relations, results and calls.                                           *)

(* Nothing is related to a frame that was not related before, and what the *)
(* world took it took.                                                     *)
LEMMA CauseStays ==
    ASSUME CauseIsReal,
           \A f : TookAt(f) => TookAt(f)',
           \A x \in completed' \cup {pending'} : x # None =>
               \E y \in completed \cup {pending} : y # None /\ y.frame = x.frame
    PROVE  CauseIsReal'
BY DEF CauseIsReal, TookAt, Observation

LEMMA TookStays ==
    ASSUME UNCHANGED applied
    PROVE  /\ \A f : Took(f)' <=> Took(f)
           /\ \A f : TookAt(f)' <=> TookAt(f)
BY DEF Took, TookAt, Elements

LEMMA SameRelations ==
    ASSUME CauseIsReal, UNCHANGED <<pending, completed>>, \A f : TookAt(f) => TookAt(f)'
    PROVE  CauseIsReal'
BY CauseStays

(* Between calls, a step of the harness that is about the past.            *)
LEMMA CallStays ==
    ASSUME CallInv, ResultTellsTruth, Idle,
           UNCHANGED <<applied, nextFrame, call, result>>, ahead' \in BOOLEAN
    PROVE  CallInv' /\ ResultTellsTruth'
BY TookStays DEF CallInv, ResultTellsTruth, Idle

(* A call ends: its result tells the truth about its frame.                *)
LEMMA ReturnKeeps ==
    ASSUME CallInv, NEW status \in Statuses, NEW frame \in Frame \cup {None},
           Return(status, frame), UNCHANGED <<applied, ahead>>,
           nextFrame' \in Nat, nextFrame' >= nextFrame,
           frame # None => frame.id < nextFrame' /\ (status \in Executed <=> Took(frame))
    PROVE  CallInv' /\ ResultTellsTruth' /\ call'.at = "idle" /\ result'.status = status
<1>1. /\ call' \in Call /\ call'.at = "idle" /\ call'.frame = None
  BY DEF Return, NoCall, Call
<1>2. /\ result' \in Result /\ result'.status = status /\ result'.frame = frame
  BY DEF Return, Result
<1>3. \A i \in DOMAIN applied : applied[i] # Outside =>
          applied[i].id < nextFrame /\ applied[i].id \in Nat
  <2>1. \A i \in DOMAIN applied : applied[i] \in Frame \cup {Outside}
    BY DEF CallInv
  <2> QED
    BY <2>1 DEF CallInv, Frame
<1>4. \A i \in DOMAIN applied' : applied'[i] # Outside => applied'[i].id < nextFrame'
  BY <1>3 DEF CallInv
<1>5. CallInv'
  BY <1>1, <1>2, <1>4 DEF CallInv
<1>6. ResultTellsTruth'
  BY <1>2, TookStays DEF ResultTellsTruth
<1> QED
  BY <1>1, <1>2, <1>5, <1>6

(* A frame with the next serial is nobody's yet.                           *)
LEMMA FreshFrame ==
    ASSUME CallInv, NEW by \in {"coordinator", "harness"}, NEW tick \in Nat
    PROVE  LET f == [by |-> by, id |-> nextFrame, tick |-> tick]
           IN  /\ f \in Frame /\ f.id = nextFrame /\ f.tick = tick /\ f.by = by
               /\ f # None /\ f # result.frame /\ ~Took(f)
<1> DEFINE f == [by |-> by, id |-> nextFrame, tick |-> tick]
<1>1. f \in Frame /\ f.id = nextFrame /\ f.tick = tick /\ f.by = by
  BY DEF Frame, CallInv
<1> HIDE DEF f
<1>2. f # None /\ f # Outside
  BY <1>1, Constants
<1>3. nextFrame \in Nat /\ ~(nextFrame < nextFrame)
  BY DEF CallInv
<1>4. f # result.frame
  BY <1>1, <1>2, <1>3 DEF CallInv
<1>5. ~Took(f)
  BY <1>1, <1>2, <1>3 DEF CallInv, Took, Elements
<1> QED
  BY <1>1, <1>2, <1>4, <1>5 DEF f

(* A call that goes on with its frame.                                     *)
LEMMA StartKeeps ==
    ASSUME CallInv, ResultTellsTruth, NEW frame \in Frame,
           frame.id = nextFrame, frame # result.frame, ~Took(frame),
           call' \in Call, call'.frame = frame, call'.at \in {"apply", "announced"},
           nextFrame' = nextFrame + 1, UNCHANGED <<applied, result, ahead>>
    PROVE  CallInv' /\ ResultTellsTruth'
<1>1. \A i \in DOMAIN applied : applied[i] # Outside =>
          applied[i].id < nextFrame /\ applied[i].id \in Nat
  <2>1. \A i \in DOMAIN applied : applied[i] \in Frame \cup {Outside}
    BY DEF CallInv
  <2> QED
    BY <2>1 DEF CallInv, Frame
<1>2. nextFrame \in Nat /\ nextFrame' \in Nat /\ nextFrame < nextFrame'
  BY DEF CallInv
<1>3. result.frame # None => result.frame.id \in Nat /\ result.frame.id < nextFrame
  BY DEF CallInv, Result, Frame
<1>4. \A i \in DOMAIN applied' : applied'[i] # Outside => applied'[i].id < nextFrame'
  BY <1>1, <1>2
<1>5. result'.frame # None => result'.frame.id < nextFrame'
  BY <1>2, <1>3
<1>6. CallInv'
  BY <1>2, <1>4, <1>5, TookStays DEF CallInv
<1>7. ResultTellsTruth'
  BY TookStays DEF ResultTellsTruth
<1> QED
  BY <1>6, <1>7

-----------------------------------------------------------------------------
(* The steps of the harness.                                               *)

(* A window moves an open relation to the completed ones or drops it.      *)
LEMMA ObserveKeepsCauses ==
    ASSUME IInv, NEW w \in Window, Observe(w), UNCHANGED applied
    PROVE  CauseIsReal'
<1>1. \A f : TookAt(f) => TookAt(f)'
  BY TookStays
<1>2. pending' \in {pending, None}
  BY DEF Observe
<1>3. \A x \in completed' : x \in completed \/ (pending # None /\ x.frame = pending.frame)
  <2>1. CASE Completes(w)
    <3>1. completed' = completed \cup {Relation(w)}
      BY <2>1 DEF Observe
    <3>2. pending # None
      BY <2>1 DEF Completes
    <3>3. Relation(w).frame = pending.frame
      BY DEF Relation
    <3> QED
      BY <3>1, <3>2, <3>3
  <2>2. CASE ~Completes(w)
    <3>1. completed' = completed
      BY <2>2 DEF Observe
    <3> QED
      BY <3>1
  <2> QED
    BY <2>1, <2>2
<1> QED
  BY <1>1, <1>2, <1>3, CauseStays DEF IInv

LEMMA SenseKeeps ==
    ASSUME IInv, NEW w \in Window, Sense(w)
    PROVE  IInv'
<1>1. Accepts(w) /\ Observe(w) /\ Idle /\ UNCHANGED <<applied, nextFrame, call, result, ahead>>
  BY DEF Sense
<1>2. ManagerInv'
  BY <1>1, ObserveKeeps DEF IInv
<1>3. CallInv' /\ ResultTellsTruth'
  BY <1>1, CallStays DEF IInv, CallInv
<1>4. CauseIsReal'
  BY <1>1, ObserveKeepsCauses
<1>5. Discipline'
  BY <1>1 DEF IInv, Discipline, Sense, Observe, Idle, Tick
<1> QED
  BY <1>2, <1>3, <1>4, <1>5 DEF IInv

LEMMA AnnounceKeeps ==
    ASSUME IInv, NEW tick \in Nat, Announce(tick)
    PROVE  IInv'
<1> DEFINE f == [by |-> "harness", id |-> nextFrame, tick |-> tick]
<1>1. /\ f \in Frame /\ f.id = nextFrame /\ f.tick = tick /\ f.by = "harness"
      /\ f # None /\ f # result.frame /\ ~Took(f)
  BY FreshFrame DEF IInv
<1>2. /\ Idle /\ Trackable(f) /\ Track(f) /\ nextFrame' = nextFrame + 1
      /\ call' = [NoCall EXCEPT !.at = "announced", !.frame = f]
      /\ UNCHANGED <<applied, completed, result, ahead>> /\ tick \in Nat
  BY DEF Announce
<1> HIDE DEF f
<1>3. ManagerInv'
  BY <1>1, <1>2, TrackKeeps DEF IInv
<1>4. call' \in Call /\ call'.at = "announced" /\ call'.frame = f
  BY <1>1, <1>2 DEF NoCall, Call
<1>5. CallInv' /\ ResultTellsTruth'
  BY <1>1, <1>2, <1>4, StartKeeps DEF IInv
<1>6. CauseIsReal'
  <2>1. pending'.frame.by = "harness"
    BY <1>1, <1>2 DEF Track
  <2>2. \A g : TookAt(g) <=> TookAt(g)'
    BY <1>2, TookStays
  <2> QED
    BY <1>2, <2>1, <2>2 DEF IInv, CauseIsReal, TookAt, Observation
<1>7. Discipline'
  <2>1. clock' = tick /\ (window # None /\ window.end = tick)
    BY <1>1, <1>2 DEF Track, Trackable
  <2>2. window.end <= clock
    BY <2>1 DEF IInv, ManagerInv
  <2>3. ~ahead => clock <= Tick
    BY DEF IInv, Discipline
  <2>4. clock' = clock
    BY <1>1, <1>2, <2>1, <2>2 DEF Trackable, IInv, ManagerInv, ManagerOK
  <2> QED
    BY <1>2, <1>4, <2>3, <2>4 DEF IInv, Discipline, Tick
<1> QED
  BY <1>3, <1>5, <1>6, <1>7 DEF IInv

(* The world takes a signal: nothing else changes but where the call is.    *)
LEMMA ApplyKeeps ==
    ASSUME IInv, NEW frame \in Frame, call.at \in {"apply", "announced"}, call.frame = frame,
           frame.tick = Tick, applied' = Append(applied, frame),
           call' \in Call,
           \/ call'.at = "idle" /\ call'.frame = None
           \/ call.at = "apply" /\ call'.at = "track" /\ call'.frame = frame,
           UNCHANGED <<manager, nextFrame, completed, result, ahead>>
    PROVE  IInv'
<1>1. /\ applied' \in Seq(Frame \cup {Outside})
      /\ Tick \in Nat /\ Tick' = Tick + 1
      /\ DOMAIN applied = 1 .. Tick /\ DOMAIN applied' = 1 .. Tick + 1
      /\ \A i \in DOMAIN applied : applied'[i] = applied[i]
      /\ applied'[Tick + 1] = frame
      /\ \A f : Took(f)' <=> Took(f) \/ f = frame
      /\ \A f : TookAt(f) => TookAt(f)'
  <2>1. applied \in Seq(Frame \cup {Outside})
    BY DEF IInv, CallInv
  <2> QED
    BY <2>1, WorldGrows
<1>2. ManagerInv'
  BY ManagerStays DEF IInv
<1>3. CauseIsReal'
  BY <1>1, SameRelations DEF IInv
<1>4. frame # result.frame /\ frame # None /\ frame.id < nextFrame
  BY Constants DEF IInv, CallInv
<1>5. ResultTellsTruth'
  BY <1>1, <1>4 DEF IInv, ResultTellsTruth
<1>6. (call.at \in {"track", "observe"} => TookAt(call.frame))'
  <2>1. call'.at \in {"track", "observe"} => call'.frame = frame
    OBVIOUS
  <2>2. frame.tick + 1 \in DOMAIN applied' /\ applied'[frame.tick + 1] = frame
    BY <1>1
  <2> QED
    BY <2>1, <2>2 DEF TookAt
<1>7. \A i \in DOMAIN applied' : applied'[i] # Outside => applied'[i].id < nextFrame'
  <2> SUFFICES ASSUME NEW i \in DOMAIN applied', applied'[i] # Outside
               PROVE  applied'[i].id < nextFrame
    OBVIOUS
  <2>1. CASE i \in DOMAIN applied
    BY <1>1, <2>1 DEF IInv, CallInv
  <2>2. CASE i = Tick + 1
    BY <1>1, <1>4, <2>2
  <2> QED
    BY <1>1, <2>1, <2>2
<1>8. CallInv'
  <2>1. call'.frame # None => call'.frame = frame
    OBVIOUS
  <2>2. call'.at # "idle" => call'.frame \in Frame
    OBVIOUS
  <2>3. call'.at \notin {"apply", "announced"}
    OBVIOUS
  <2>4. (result.frame # None => result.frame.id < nextFrame)'
    BY DEF IInv, CallInv
  <2>5. nextFrame' \in Nat /\ result' \in Result /\ ahead' \in BOOLEAN
    BY DEF IInv, CallInv
  <2> QED
    BY <1>1, <1>4, <1>6, <1>7, <2>1, <2>2, <2>3, <2>4, <2>5 DEF CallInv
<1>9. Discipline'
  <2>1. clock \in Nat
    BY DEF IInv, ManagerInv, ManagerOK
  <2> QED
    BY <1>1, <2>1 DEF IInv, Discipline, Trackable
<1> QED
  BY <1>2, <1>3, <1>5, <1>8, <1>9 DEF IInv

LEMMA WorldMovesKeeps ==
    ASSUME IInv, WorldMoves
    PROVE  IInv'
<1>1. /\ applied' \in Seq(Frame \cup {Outside})
      /\ Tick \in Nat /\ Tick' = Tick + 1
      /\ DOMAIN applied = 1 .. Tick /\ DOMAIN applied' = 1 .. Tick + 1
      /\ \A i \in DOMAIN applied : applied'[i] = applied[i]
      /\ applied'[Tick + 1] = Outside
      /\ \A f : Took(f)' <=> Took(f) \/ f = Outside
      /\ \A f : TookAt(f) => TookAt(f)'
  <2>1. applied \in Seq(Frame \cup {Outside}) /\ applied' = Append(applied, Outside)
    BY DEF IInv, CallInv, WorldMoves
  <2> QED
    BY <2>1, WorldGrows
<1>2. UNCHANGED <<manager, nextFrame, completed, call, result, ahead>>
  BY DEF WorldMoves
<1>3. ManagerInv' /\ CauseIsReal'
  BY <1>1, <1>2, ManagerStays, SameRelations DEF IInv
<1>4. result.frame # None => result.frame # Outside
  BY Constants DEF IInv, CallInv, Result
<1>5. call.at # "idle" => call.frame # Outside
  BY Constants DEF IInv, CallInv
<1>6. ResultTellsTruth'
  BY <1>1, <1>2, <1>4 DEF IInv, ResultTellsTruth
<1>7. \A i \in DOMAIN applied' : applied'[i] # Outside => applied'[i].id < nextFrame'
  <2>1. \A i \in DOMAIN applied' : i \in DOMAIN applied \/ i = Tick + 1
    BY <1>1
  <2> QED
    BY <1>1, <1>2, <2>1 DEF IInv, CallInv
<1>8. CallInv'
  BY <1>1, <1>2, <1>5, <1>7 DEF IInv, CallInv
<1>9. Discipline'
  <2>1. clock \in Nat
    BY DEF IInv, ManagerInv, ManagerOK
  <2> QED
    BY <1>1, <1>2, <2>1 DEF IInv, Discipline, Trackable
<1> QED
  BY <1>3, <1>6, <1>8, <1>9 DEF IInv

LEMMA HarnessKeeps ==
    ASSUME IInv, Harness
    PROVE  IInv'
<1>1. Tick \in Nat /\ Clock \subseteq Nat
  <2>1. Tick \in Nat
    BY DEF IInv, CallInv, Tick
  <2> QED
    BY <2>1, Constants DEF Clock
<1>2. ASSUME NEW t \in 0 .. Tick, NEW p \in Topologies, Sense([end |-> t, topology |-> p])
      PROVE  IInv'
  <2>1. [end |-> t, topology |-> p] \in Window
    BY <1>1 DEF Window
  <2> QED
    BY <1>2, <2>1, SenseKeeps
<1>3. ASSUME NEW t \in 0 .. Tick, Announce(t) PROVE IInv'
  <2>1. t \in Nat
    BY <1>1
  <2> QED
    BY <1>3, <2>1, AnnounceKeeps
<1>4. CASE ApplyAnnounced
  <2>1. call.frame \in Frame
    BY <1>4 DEF ApplyAnnounced, IInv, CallInv
  <2>2. call' \in Call /\ call'.at = "idle" /\ call'.frame = None
    BY <1>4 DEF ApplyAnnounced, NoCall, Call
  <2>3. call.frame.tick = Tick /\ applied' = Append(applied, call.frame) /\ call.at = "announced"
        /\ UNCHANGED <<manager, nextFrame, completed, result, ahead>>
    BY <1>4 DEF ApplyAnnounced, Takes
  <2> QED
    BY <2>1, <2>2, <2>3, ApplyKeeps
<1>5. CASE Withdraw
  <2>1. call' \in Call /\ call'.at = "idle" /\ call'.frame = None
    BY <1>5 DEF Withdraw, NoCall, Call
  <2>2. UNCHANGED <<applied, manager, nextFrame, completed, result, ahead>>
    BY <1>5 DEF Withdraw
  <2>3. ManagerInv' /\ CauseIsReal'
    BY <2>2, ManagerStays, SameRelations, TookStays DEF IInv
  <2>4. CallInv' /\ ResultTellsTruth'
    BY <2>1, <2>2, TookStays DEF IInv, CallInv, ResultTellsTruth
  <2>5. Discipline'
    BY <2>1, <2>2 DEF IInv, Discipline, Tick
  <2> QED
    BY <2>3, <2>4, <2>5 DEF IInv
<1>6. ASSUME NEW now \in Clock, Expire(now) PROVE IInv'
  <2>1. ManagerInv'
    BY <1>1, <1>6, ExpireKeeps DEF IInv
  <2>2. /\ Idle /\ UNCHANGED <<applied, nextFrame, completed, call, result>>
        /\ ahead' = (ahead \/ now > Tick) /\ clock' = now /\ pending' \in {pending, None}
    BY <1>6 DEF Expire, Reads
  <2>3. ahead' \in BOOLEAN
    BY <2>2
  <2>4. CallInv' /\ ResultTellsTruth'
    BY <2>2, <2>3, CallStays DEF IInv
  <2>5. CauseIsReal'
    BY <2>2, TookStays, CauseStays DEF IInv
  <2>6. ~ahead' => ~ahead /\ now <= Tick
    <3>1. ~ahead' => ~ahead /\ ~(now > Tick)
      BY <2>2
    <3>2. ~(now > Tick) => now <= Tick
      BY <1>1
    <3> QED
      BY <3>1, <3>2
  <2>7. Discipline'
    BY <2>2, <2>6 DEF IInv, Discipline, Idle, Tick
  <2> QED
    BY <2>1, <2>4, <2>5, <2>7 DEF IInv
<1>7. ASSUME Idle, NEW now \in Clock, Reads(now),
             UNCHANGED <<applied, manager, nextFrame, completed, call, result>>
      PROVE  IInv'
  <2>1. ManagerInv' /\ CauseIsReal'
    BY <1>7, ManagerStays, SameRelations, TookStays DEF IInv
  <2>2. ahead' = (ahead \/ now > Tick)
    BY <1>7 DEF Reads
  <2>3. ahead' \in BOOLEAN /\ (~ahead' => ~ahead)
    BY <2>2
  <2>4. CallInv' /\ ResultTellsTruth'
    BY <1>7, <2>3, CallStays DEF IInv
  <2>5. Discipline'
    BY <1>7, <2>3 DEF IInv, Discipline, Idle, Tick
  <2> QED
    BY <2>1, <2>4, <2>5 DEF IInv
<1>8. ASSUME NEW now \in Clock, Prune(now) PROVE IInv'
  BY <1>7, <1>8 DEF Prune
<1>9. ASSUME NEW x \in completed, NEW now \in Clock, HandOver(x, now) PROVE IInv'
  BY <1>7, <1>9 DEF HandOver
<1> QED
  BY <1>2, <1>3, <1>4, <1>5, <1>6, <1>8, <1>9 DEF Harness
-----------------------------------------------------------------------------
(* The steps of the coordinator.                                           *)

(* A call returns before the world or the manager is touched, or after.    *)
LEMMA ReturnOnlyKeeps ==
    ASSUME IInv, NEW status \in Statuses, NEW frame \in Frame \cup {None},
           Return(status, frame), UNCHANGED <<applied, manager, completed, ahead>>,
           nextFrame' \in Nat, nextFrame' >= nextFrame,
           frame # None => frame.id < nextFrame' /\ (status \in Executed <=> Took(frame)),
           ~ahead => status # "action_executed_causal_tracking_failed"
    PROVE  IInv'
<1>1. CallInv' /\ ResultTellsTruth' /\ call'.at = "idle" /\ result'.status = status
  BY ReturnKeeps DEF IInv
<1>2. ManagerInv' /\ CauseIsReal'
  BY ManagerStays, SameRelations, TookStays DEF IInv
<1>3. Discipline'
  BY <1>1 DEF IInv, Discipline, Tick
<1> QED
  BY <1>1, <1>2, <1>3 DEF IInv

LEMMA RefuseKeeps ==
    ASSUME IInv, NEW tick \in Nat, NEW status \in Refused, Refuse(tick, status)
    PROVE  IInv'
<1> DEFINE f == [by |-> "coordinator", id |-> nextFrame, tick |-> tick]
<1>1. f \in Frame /\ f.id = nextFrame /\ ~Took(f)
  BY FreshFrame DEF IInv
<1>2. Return(status, f) /\ nextFrame' = nextFrame + 1
      /\ UNCHANGED <<applied, manager, completed, ahead>>
  BY DEF Refuse, Materialized
<1> HIDE DEF f
<1>3. nextFrame \in Nat /\ status \in Statuses /\ status \notin Executed
      /\ status # "action_executed_causal_tracking_failed"
  BY DEF IInv, CallInv, Statuses, Refused, Executed
<1>4. nextFrame' \in Nat /\ nextFrame' >= nextFrame /\ f.id < nextFrame'
  BY <1>1, <1>2, <1>3
<1> QED
  BY <1>1, <1>2, <1>3, <1>4, ReturnOnlyKeeps

LEMMA ExecuteKeeps ==
    ASSUME IInv, NEW tick \in Nat, NEW observe \in BOOLEAN, NEW keep \in BOOLEAN,
           Execute(tick, observe, keep)
    PROVE  IInv'
<1> DEFINE f == [by |-> "coordinator", id |-> nextFrame, tick |-> tick]
<1>1. /\ f \in Frame /\ f.id = nextFrame /\ f.tick = tick
      /\ f # result.frame /\ ~Took(f)
  BY FreshFrame DEF IInv
<1>2. /\ Fresh(tick) /\ pending = None /\ nextFrame' = nextFrame + 1
      /\ call' = [at |-> "apply", frame |-> f, observe |-> observe, keep |-> keep]
      /\ UNCHANGED <<applied, manager, completed, result, ahead>>
  BY DEF Execute, Materialized
<1> HIDE DEF f
<1>3. call' \in Call /\ call'.at = "apply" /\ call'.frame = f
  BY <1>1, <1>2 DEF Call
<1>4. CallInv' /\ ResultTellsTruth'
  BY <1>1, <1>2, <1>3, StartKeeps DEF IInv
<1>5. ManagerInv' /\ CauseIsReal'
  BY <1>2, ManagerStays, SameRelations, TookStays DEF IInv
<1>6. Discipline'
  <2>1. window # None /\ window.end = tick /\ tick = Tick
    BY <1>2 DEF Fresh
  <2>2. ~ahead => clock <= tick
    BY <2>1 DEF IInv, Discipline
  <2>3. clock \in Nat /\ tick \in Nat
    BY DEF IInv, ManagerInv, ManagerOK
  <2>4. ~ahead => Trackable(f)
    BY <1>1, <1>2, <2>1, <2>2, <2>3 DEF Trackable
  <2>5. ~ahead => (Trackable(call.frame))'
    BY <1>2, <1>3, <2>4 DEF Trackable
  <2> QED
    BY <1>2, <1>3, <2>1, <2>2, <2>5 DEF IInv, Discipline, Tick
<1> QED
  BY <1>4, <1>5, <1>6 DEF IInv

LEMMA TrackActionKeeps ==
    ASSUME IInv, TrackAction
    PROVE  IInv'
<1>1. /\ call.at = "track" /\ Trackable(call.frame) /\ Track(call.frame)
      /\ UNCHANGED <<applied, nextFrame, completed, short, ahead>>
  BY DEF TrackAction
<1>2. call.frame \in Frame /\ TookAt(call.frame) /\ Took(call.frame) /\ call.frame.id < nextFrame
      /\ call.frame # None
  BY <1>1, TookAtTook, Constants DEF IInv, CallInv
<1>3. ManagerInv'
  BY <1>1, <1>2, TrackKeeps DEF IInv
<1>4. CauseIsReal'
  <2>1. pending'.frame = call.frame
    BY <1>1 DEF Track
  <2>2. \A f : TookAt(f)' <=> TookAt(f)
    BY <1>1, TookStays
  <2>3. Observation(pending') = call.frame.tick + 1
    BY <2>1 DEF Observation
  <2>4. Observation(pending') \in DOMAIN applied' /\ applied'[Observation(pending')] = pending'.frame
    BY <1>1, <1>2, <2>1, <2>3 DEF TookAt
  <2>5. \A x \in completed : x # None /\ x.frame.by = "coordinator" =>
            /\ Observation(x) \in DOMAIN applied'
            /\ applied'[Observation(x)] = x.frame
    BY <1>1 DEF IInv, CauseIsReal
  <2> QED
    BY <1>1, <2>4, <2>5 DEF CauseIsReal, Observation
<1>5. clock' <= Tick'
  <2>1. Tick \in Nat /\ DOMAIN applied = 1 .. Tick
    BY DEF IInv, CallInv, Tick
  <2>2. call.frame.tick + 1 \in 1 .. Tick /\ call.frame.tick \in Nat
    BY <1>2, <2>1 DEF TookAt, Frame
  <2>3. clock' = call.frame.tick /\ Tick' = Tick
    BY <1>1 DEF Track, Tick
  <2> QED
    BY <2>1, <2>2, <2>3
<1>6. CASE call.observe
  <2>1. call' = [call EXCEPT !.at = "observe"] /\ result' = result
    BY <1>6 DEF TrackAction
  <2>2. call \in Call
    BY DEF IInv, CallInv
  <2>3. call' \in Call /\ call'.at = "observe" /\ call'.frame = call.frame
    BY <2>1, <2>2 DEF Call
  <2>4. CallInv' /\ ResultTellsTruth'
    BY <1>1, <1>2, <2>1, <2>3, TookStays DEF IInv, CallInv, ResultTellsTruth
  <2>5. Discipline'
    BY <1>1, <1>5, <2>1, <2>3 DEF IInv, Discipline
  <2> QED
    BY <1>3, <1>4, <2>4, <2>5 DEF IInv
<1>7. CASE ~call.observe
  <2>1. Return("action_executed_observation_pending", call.frame)
    BY <1>7 DEF TrackAction
  <2>2. nextFrame' \in Nat /\ nextFrame' >= nextFrame /\ nextFrame' = nextFrame
    BY <1>1 DEF IInv, CallInv
  <2>3. "action_executed_observation_pending" \in Statuses
        /\ "action_executed_observation_pending" \in Executed
    BY DEF Statuses, Executed
  <2>4. CallInv' /\ ResultTellsTruth' /\ call'.at = "idle"
        /\ result'.status = "action_executed_observation_pending"
    BY <1>1, <1>2, <2>1, <2>2, <2>3, ReturnKeeps DEF IInv
  <2>5. Discipline'
    BY <1>5, <2>4 DEF Discipline
  <2> QED
    BY <1>3, <1>4, <2>4, <2>5 DEF IInv
<1> QED
  BY <1>6, <1>7

LEMMA TrackingFailsKeeps ==
    ASSUME IInv, TrackingFails
    PROVE  IInv'
<1>1. /\ call.at = "track" /\ ~Trackable(call.frame)
      /\ Return("action_executed_causal_tracking_failed", call.frame)
      /\ UNCHANGED <<applied, manager, nextFrame, completed, ahead>>
  BY DEF TrackingFails
<1>2. call.frame \in Frame /\ Took(call.frame) /\ call.frame.id < nextFrame
  BY <1>1, TookAtTook, Constants DEF IInv, CallInv
<1>3. ahead
  BY <1>1 DEF IInv, Discipline
<1>4. nextFrame' \in Nat /\ nextFrame' >= nextFrame /\ nextFrame' = nextFrame
  BY <1>1 DEF IInv, CallInv
<1>5. "action_executed_causal_tracking_failed" \in Statuses
      /\ "action_executed_causal_tracking_failed" \in Executed
  BY DEF Statuses, Executed
<1> QED
  BY <1>1, <1>2, <1>3, <1>4, <1>5, ReturnOnlyKeeps

(* The two returns of a call whose signal the world took, or did not.      *)
LEMMA FailuresKeep ==
    ASSUME IInv, WorldFails \/ ObservationFails
    PROVE  IInv'
<1>1. CASE WorldFails
  <2>1. /\ call.at = "apply" /\ Return("world_execution_failed", call.frame)
        /\ UNCHANGED <<applied, manager, nextFrame, completed, ahead>>
    BY <1>1 DEF WorldFails
  <2>2. call.frame \in Frame /\ ~Took(call.frame) /\ call.frame.id < nextFrame
    BY <2>1, Constants DEF IInv, CallInv
  <2>3. nextFrame' \in Nat /\ nextFrame' >= nextFrame /\ nextFrame' = nextFrame
    BY <2>1 DEF IInv, CallInv
  <2>4. "world_execution_failed" \in Statuses /\ "world_execution_failed" \notin Executed
    BY DEF Statuses, Executed
  <2> QED
    BY <2>1, <2>2, <2>3, <2>4, ReturnOnlyKeeps
<1>2. CASE ObservationFails
  <2>1. /\ call.at = "observe" /\ Return("action_executed_observation_pending", call.frame)
        /\ UNCHANGED <<applied, manager, nextFrame, completed, ahead>>
    BY <1>2 DEF ObservationFails
  <2>2. call.frame \in Frame /\ Took(call.frame) /\ call.frame.id < nextFrame
    BY <2>1, TookAtTook, Constants DEF IInv, CallInv
  <2>3. nextFrame' \in Nat /\ nextFrame' >= nextFrame /\ nextFrame' = nextFrame
    BY <2>1 DEF IInv, CallInv
  <2>4. "action_executed_observation_pending" \in Statuses
        /\ "action_executed_observation_pending" \in Executed
    BY DEF Statuses, Executed
  <2> QED
    BY <2>1, <2>2, <2>3, <2>4, ReturnOnlyKeeps
<1> QED
  BY <1>1, <1>2

LEMMA ObserveConsequenceKeeps ==
    ASSUME IInv, NEW topology \in Topologies, ObserveConsequence(topology)
    PROVE  IInv'
<1> DEFINE w == [end |-> Tick, topology |-> topology]
           status == IF Completes(w) THEN "executed_and_observed"
                     ELSE "action_executed_observation_pending"
<1>1. /\ call.at = "observe" /\ Accepts(w) /\ Observe(w) /\ Return(status, call.frame)
      /\ UNCHANGED <<applied, nextFrame, ahead>>
  BY DEF ObserveConsequence
<1>2. w \in Window /\ w.end = Tick
  BY DEF Window, IInv, CallInv, Tick
<1>3. status \in Statuses /\ status \in Executed
      /\ status # "action_executed_causal_tracking_failed"
  BY DEF Statuses, Executed
<1> HIDE DEF w, status
<1>4. call.frame \in Frame /\ Took(call.frame) /\ call.frame.id < nextFrame
  BY <1>1, TookAtTook, Constants DEF IInv, CallInv
<1>5. nextFrame' \in Nat /\ nextFrame' >= nextFrame /\ nextFrame' = nextFrame
  BY <1>1 DEF IInv, CallInv
<1>6. CallInv' /\ ResultTellsTruth' /\ call'.at = "idle" /\ result'.status = status
  BY <1>1, <1>3, <1>4, <1>5, ReturnKeeps DEF IInv
<1>7. ManagerInv'
  BY <1>1, <1>2, ObserveKeeps DEF IInv
<1>8. CauseIsReal'
  BY <1>1, <1>2, ObserveKeepsCauses
<1>9. Discipline'
  <2>1. clock' = Tick /\ Tick' = Tick /\ Tick \in Nat
    BY <1>1, <1>2 DEF Observe, Tick, IInv, CallInv
  <2> QED
    BY <1>3, <1>6, <2>1 DEF Discipline
<1> QED
  BY <1>6, <1>7, <1>8, <1>9 DEF IInv

LEMMA CoordinatorKeeps ==
    ASSUME IInv, Coordinator
    PROVE  IInv'
<1>1. 0 .. Tick \subseteq Nat
  BY DEF IInv, CallInv, Tick
<1>2. ASSUME NEW status \in {"invalid_selected_experience", "stale_selection", "causal_slot_occupied"},
             Return(status, None), UNCHANGED <<applied, manager, nextFrame, completed, ahead>>
      PROVE  IInv'
  <2>1. nextFrame' \in Nat /\ nextFrame' >= nextFrame
    BY <1>2 DEF IInv, CallInv
  <2>2. status \in Statuses /\ status # "action_executed_causal_tracking_failed"
    BY <1>2 DEF Statuses, Refused
  <2> QED
    BY <1>2, <2>1, <2>2, ReturnOnlyKeeps
<1>3. CASE Invalid
  BY <1>2, <1>3 DEF Invalid
<1>4. ASSUME NEW t \in 0 .. Tick, Stale(t) PROVE IInv'
  BY <1>2, <1>4 DEF Stale
<1>5. ASSUME NEW t \in 0 .. Tick, Occupied(t) PROVE IInv'
  BY <1>2, <1>5 DEF Occupied
<1>6. ASSUME NEW t \in 0 .. Tick, NEW status \in Refused, Refuse(t, status) PROVE IInv'
  BY <1>1, <1>6, RefuseKeeps
<1>7. ASSUME NEW t \in 0 .. Tick, NEW observe \in BOOLEAN, NEW keep \in BOOLEAN,
             Execute(t, observe, keep)
      PROVE  IInv'
  BY <1>1, <1>7, ExecuteKeeps
<1>8. CASE ApplySignal
  <2>1. /\ call.at = "apply" /\ call.frame.tick = Tick /\ applied' = Append(applied, call.frame)
        /\ call' = [call EXCEPT !.at = "track"]
        /\ UNCHANGED <<manager, nextFrame, completed, result, ahead>>
    BY <1>8 DEF ApplySignal, Takes
  <2>2. call \in Call /\ call.frame \in Frame
    BY <2>1 DEF IInv, CallInv
  <2>3. call' \in Call /\ call'.at = "track" /\ call'.frame = call.frame
    BY <2>1, <2>2 DEF Call
  <2> QED
    BY <2>1, <2>2, <2>3, ApplyKeeps
<1>9. ASSUME NEW p \in Topologies, ObserveConsequence(p) PROVE IInv'
  BY <1>9, ObserveConsequenceKeeps
<1> QED
  BY <1>3, <1>4, <1>5, <1>6, <1>7, <1>8, <1>9,
     FailuresKeep, TrackActionKeeps, TrackingFailsKeeps DEF Coordinator

-----------------------------------------------------------------------------
LEMMA InitHolds == Init => IInv
<1> SUFFICES ASSUME Init PROVE IInv
  OBVIOUS
<1>1. ManagerInv
  BY DEF Init, ManagerInv, ManagerOK, SlotIsPresent, OneConsequence
<1>2. call \in Call /\ call.at = "idle" /\ call.frame = None
  BY DEF Init, NoCall, Call
<1>3. result \in Result /\ result.frame = None
      /\ result.status # "action_executed_causal_tracking_failed"
  BY DEF Init, Result, Statuses
<1>4. applied = <<>> /\ DOMAIN applied = {} /\ Tick = 0 /\ applied \in Seq(Frame \cup {Outside})
  BY DEF Init, Tick
<1>5. CallInv
  BY <1>2, <1>3, <1>4 DEF Init, CallInv
<1>6. CauseIsReal /\ ResultTellsTruth
  BY <1>3 DEF Init, CauseIsReal, ResultTellsTruth
<1>7. Discipline
  BY <1>2, <1>3, <1>4 DEF Init, Discipline
<1> QED
  BY <1>1, <1>5, <1>6, <1>7 DEF IInv

LEMMA StutterKeeps ==
    ASSUME IInv, UNCHANGED vars
    PROVE  IInv'
<1>1. UNCHANGED <<applied, manager, nextFrame, completed, call, result, ahead>>
  BY DEF vars
<1>2. ManagerInv' /\ CauseIsReal'
  BY <1>1, ManagerStays, SameRelations, TookStays DEF IInv
<1>3. CallInv' /\ ResultTellsTruth'
  BY <1>1, TookStays DEF IInv, CallInv, ResultTellsTruth
<1>4. Discipline'
  BY <1>1 DEF IInv, Discipline, Tick, Trackable
<1> QED
  BY <1>2, <1>3, <1>4 DEF IInv

LEMMA Invariant == Spec => []IInv
<1>1. IInv /\ [Next]_vars => IInv'
  BY HarnessKeeps, CoordinatorKeeps, WorldMovesKeeps, StutterKeeps DEF Next
<1> QED
  BY InitHolds, <1>1, PTL DEF Spec

(* Type correctness of the world, the manager and the coordinator.         *)
THEOREM LoopTypes == Spec => []LoopTypeOK
<1>1. IInv => LoopTypeOK
  BY DEF IInv, ManagerInv, ManagerOK, CallInv, LoopTypeOK
<1> QED
  BY Invariant, <1>1, PTL

(* A relation the coordinator opened, completed or not, has for its cause  *)
(* the signal the world took at that tick: execute tracks an action only   *)
(* after the world has taken it.                                           *)
THEOREM RelationsNameTheRealCause == Spec => []CauseIsReal
<1>1. IInv => CauseIsReal
  BY DEF IInv
<1> QED
  BY Invariant, <1>1, PTL

(* Whatever fails on the way, the result of execute says that the action   *)
(* was executed exactly if the world took its signal.                      *)
THEOREM ExecuteTellsTheTruth == Spec => []ResultTellsTruth
<1>1. IInv => ResultTellsTruth
  BY DEF IInv
<1> QED
  BY Invariant, <1>1, PTL

(* Each observation tick is the consequence of one action at most, and the *)
(* windows of a completed relation are next to each other in time; an open *)
(* relation is the newest thing the manager knows.                         *)
THEOREM ConsequencesAreSingle == Spec => []RelationsInTime
<1>1. IInv => RelationsInTime
  BY DEF IInv, ManagerInv, RelationsInTime
<1> QED
  BY Invariant, <1>1, PTL

(* Tracking an action the world took fails only after a caller let its     *)
(* clock run ahead of the world.                                           *)
THEOREM MovedWorldIsTracked == Spec => []TrackingNeverFails
<1>1. IInv => TrackingNeverFails
  BY DEF IInv, Discipline, TrackingNeverFails
<1> QED
  BY Invariant, <1>1, PTL

-----------------------------------------------------------------------------
(* The short memory.  What it was given last is the end of its list, or is *)
(* too old for it.  So a relation it has forgotten, handed over again, is   *)
(* older than what it was given last, or too old itself.                   *)

ShortInv ==
    /\ entries \in Seq(RecentTransition) /\ Elements(entries) \subseteq completed
    /\ Len(entries) <= MaxEntries
    /\ shortTick \in Nat /\ lastObservation \in Nat \cup {-1}
    /\ \A x \in Elements(entries) : /\ shortTick - Observation(x) \in 0 .. MaxAge
                                    /\ Observation(x) <= lastObservation
    /\ entries # <<>> => Observation(entries[Len(entries)]) = lastObservation
    /\ entries = <<>> /\ lastObservation # -1 => shortTick - lastObservation > MaxAge
    /\ lastObservation # -1 => \E y \in completed : Observation(y) = lastObservation
    /\ call.at = "observe" => pending # None /\ pending.frame = call.frame
    /\ ~ahead => shortTick <= Tick

LEMMA ObservationIs ==
    ASSUME NEW x \in RecentTransition PROVE Observation(x) \in Nat /\ Observation(x) # 0
BY DEF RecentTransition, Frame, Observation

(* The young ones, of which the last is kept.                              *)
LEMMA RetainedIs ==
    ASSUME NEW xs \in Seq(RecentTransition), NEW now \in Nat
    PROVE  LET r == Retained(xs, now)
           IN  /\ r \in Seq(RecentTransition) /\ Elements(r) \subseteq Elements(xs)
               /\ Len(r) <= MaxEntries
               /\ \A x \in Elements(r) : now - Observation(x) <= MaxAge
               /\ xs # <<>> /\ now - Observation(xs[Len(xs)]) <= MaxAge =>
                      r # <<>> /\ r[Len(r)] = xs[Len(xs)]
<1> DEFINE P == {i \in DOMAIN xs : now - Observation(xs[i]) <= MaxAge}
           young == Picked(xs, P)
           c == Cardinality(P)
           n == Len(xs)
           surplus == Len(young) - MaxEntries
           r == Retained(xs, now)
<1>1. n \in Nat /\ DOMAIN xs = 1 .. n /\ P \in SUBSET (1 .. n)
  OBVIOUS
<1>2. MaxEntries \in Nat /\ MaxEntries > 0 /\ MaxAge \in Nat
  BY LoopAssumption DEF LoopAssumption
<1>3. r = IF surplus > 0 THEN SubSeq(young, surplus + 1, Len(young)) ELSE young
  BY DEF Retained
<1>4. /\ young \in Seq(RecentTransition) /\ Len(young) = c /\ c \in Nat
      /\ \A k \in 1 .. c : young[k] = xs[InOrder(P)[k]] /\ InOrder(P)[k] \in P
      /\ \A i, j \in 1 .. c : i < j => InOrder(P)[i] < InOrder(P)[j]
      /\ \A x \in P : \E k \in 1 .. c : InOrder(P)[k] = x
  <2> HIDE DEF P
  <2> QED
    BY <1>1, PickedIs, ZenonT(60)
<1>5. \A k \in 1 .. c : young[k] \in Elements(xs) /\ now - Observation(young[k]) <= MaxAge
  <2>1. \A i \in P : xs[i] \in Elements(xs) /\ now - Observation(xs[i]) <= MaxAge
    BY DEF Elements
  <2> HIDE DEF P, young
  <2> QED
    BY <1>4, <2>1
<1>6. ASSUME n \in P PROVE c > 0 /\ young[c] = xs[n]
  <2> HIDE DEF P, young, c
  <2>1. PICK k \in 1 .. c : InOrder(P)[k] = n
    BY <1>4, <1>6
  <2>2. c \in 1 .. c /\ c > 0 /\ InOrder(P)[c] \in 1 .. n
    <3>1. c \in 1 .. c /\ c > 0
      BY <1>4, <2>1
    <3>2. InOrder(P)[c] \in P
      BY <1>4, <3>1
    <3> QED
      BY <1>1, <3>1, <3>2
  <2>3. ~(k < c)
    <3>1. k < c => InOrder(P)[k] < InOrder(P)[c]
      BY <1>4, <2>2
    <3> HIDE DEF n
    <3> QED
      BY <1>1, <2>1, <2>2, <3>1
  <2>4. k = c
    BY <1>4, <2>1, <2>3
  <2> QED
    BY <1>4, <2>1, <2>2, <2>4
<1> HIDE DEF young, c, r
<1>7. /\ r \in Seq(RecentTransition) /\ Len(r) <= MaxEntries
      /\ \A i \in 1 .. Len(r) : \E k \in 1 .. c : r[i] = young[k]
      /\ c > 0 => Len(r) > 0 /\ r[Len(r)] = young[c]
  <2>1. CASE surplus > 0
    <3>1. surplus \in Nat /\ surplus + 1 \in 1 .. c /\ c - surplus = MaxEntries
      BY <1>2, <1>4, <2>1
    <3> HIDE DEF surplus
    <3>2. r = SubSeq(young, surplus + 1, c)
      BY <1>3, <1>4, <2>1
    <3>3. /\ r \in Seq(RecentTransition) /\ Len(r) = MaxEntries
          /\ \A i \in 1 .. MaxEntries : r[i] = young[surplus + i]
      BY <1>2, <1>4, <3>1, <3>2
    <3>4. \A i \in 1 .. MaxEntries : surplus + i \in 1 .. c
      BY <1>2, <1>4, <3>1
    <3>5. surplus + MaxEntries = c /\ MaxEntries \in 1 .. MaxEntries
      BY <1>2, <1>4, <3>1
    <3> QED
      BY <1>2, <3>3, <3>4, <3>5
  <2>2. CASE ~(surplus > 0)
    <3>1. Len(young) <= MaxEntries
      BY <1>2, <1>4, <2>2
    <3>2. r = young
      BY <1>3, <2>2
    <3> QED
      BY <1>4, <3>1, <3>2
  <2> QED
    BY <2>1, <2>2
<1>8. Elements(r) \subseteq Elements(xs) /\ \A x \in Elements(r) : now - Observation(x) <= MaxAge
  <2>1. \A x \in Elements(r) : \E i \in 1 .. Len(r) : x = r[i]
    BY <1>7 DEF Elements
  <2>2. \A x \in Elements(r) : \E k \in 1 .. c : x = young[k]
    BY <1>7, <2>1
  <2> QED
    BY <1>5, <2>2
<1>9. ASSUME xs # <<>>, now - Observation(xs[n]) <= MaxAge
      PROVE  r # <<>> /\ r[Len(r)] = xs[n]
  <2>1. n \in 1 .. n
    BY <1>9
  <2>2. n \in P
    BY <1>1, <1>9, <2>1
  <2>3. Len(r) > 0 /\ r[Len(r)] = xs[n]
    BY <1>6, <1>7, <2>2
  <2> QED
    BY <2>3
<1> QED
  BY <1>7, <1>8, <1>9 DEF r

(* Nothing that ends with the last observation loses that end, except to   *)
(* age.                                                                    *)
Ended(xs, now, last) ==
    /\ xs \in Seq(RecentTransition)
    /\ \A x \in Elements(xs) : Observation(x) <= now /\ Observation(x) <= last
    /\ xs # <<>> => Observation(xs[Len(xs)]) = last
    /\ xs = <<>> /\ last # -1 => now - last > MaxAge

LEMMA RetainedEnds ==
    ASSUME NEW xs, NEW now \in Nat, NEW last \in Nat \cup {-1}, Ended(xs, now, last)
    PROVE  LET r == Retained(xs, now)
           IN  /\ Ended(r, now, last) /\ Len(r) <= MaxEntries
               /\ Elements(r) \subseteq Elements(xs)
               /\ \A x \in Elements(r) : now - Observation(x) \in 0 .. MaxAge
               /\ xs # <<>> /\ now - last <= MaxAge => xs[Len(xs)] \in Elements(r)
<1> DEFINE r == Retained(xs, now)
<1>1. /\ r \in Seq(RecentTransition) /\ Elements(r) \subseteq Elements(xs)
      /\ Len(r) <= MaxEntries
      /\ \A x \in Elements(r) : now - Observation(x) <= MaxAge
      /\ xs # <<>> /\ now - Observation(xs[Len(xs)]) <= MaxAge =>
             r # <<>> /\ r[Len(r)] = xs[Len(xs)]
  BY RetainedIs DEF Ended
<1> HIDE DEF r
<1>2. MaxAge \in Nat
  BY LoopAssumption DEF LoopAssumption
<1>3. \A x \in Elements(xs) : Observation(x) \in Nat /\ Observation(x) <= now /\ Observation(x) <= last
  BY ObservationIs DEF Ended, Elements
<1>4. \A x \in Elements(r) : now - Observation(x) \in 0 .. MaxAge /\ now - last <= MaxAge
  BY <1>1, <1>2, <1>3
<1>5. r # <<>> => Len(r) \in DOMAIN r /\ r[Len(r)] \in Elements(r)
  BY <1>1 DEF Elements
<1>6. xs # <<>> /\ now - last <= MaxAge => r # <<>> /\ r[Len(r)] = xs[Len(xs)]
  BY <1>1 DEF Ended
<1>7. ASSUME r # <<>> PROVE Observation(r[Len(r)]) = last
  <2>1. now - last <= MaxAge
    BY <1>4, <1>5, <1>7
  <2>2. xs # <<>>
    <3>1. xs = <<>> => Elements(xs) = {}
      BY DEF Elements
    <3> QED
      BY <1>1, <1>5, <1>7, <3>1
  <2> QED
    BY <1>6, <2>1, <2>2 DEF Ended
<1>8. ASSUME r = <<>>, last # -1 PROVE now - last > MaxAge
  <2>1. CASE xs = <<>>
    BY <1>8, <2>1 DEF Ended
  <2>2. CASE xs # <<>>
    <3>1. ~(now - last <= MaxAge)
      BY <1>6, <1>8, <2>2
    <3> QED
      BY <1>2, <1>8, <3>1
  <2> QED
    BY <2>1, <2>2
<1>9. Ended(r, now, last)
  BY <1>1, <1>3, <1>7, <1>8 DEF Ended
<1> QED
  BY <1>1, <1>4, <1>5, <1>6, <1>9 DEF r

(* What a step may not do: take up again what was forgotten, and lose what  *)
(* was observed just now.                                                   *)
NoneComesBack ==
    \A x \in Elements(entries') \ Elements(entries) : Observation(x) > lastObservation

ObservedStays ==
    /\ ~ahead
    /\ call.at = "observe" /\ call.keep
    /\ call'.at = "idle" /\ result'.status = "executed_and_observed"
    => \E x \in Elements(entries') : x.frame = call.frame

SlotWaits == call.at = "observe" => pending # None /\ pending.frame = call.frame

LEMMA ShortStays ==
    ASSUME ShortInv, UNCHANGED short, completed \subseteq completed', SlotWaits',
           ~ahead' => ~ahead, Tick \in Nat, Tick' \in Nat, Tick <= Tick'
    PROVE  ShortInv' /\ NoneComesBack
<1>1. entries' = entries /\ shortTick' = shortTick /\ lastObservation' = lastObservation
  OBVIOUS
<1>2. Elements(entries)' = Elements(entries)
  BY <1>1 DEF Elements
<1>3. ~ahead' => shortTick' <= Tick'
  BY <1>1 DEF ShortInv
<1>4. lastObservation # -1 => \E y \in completed' : Observation(y) = lastObservation
  BY DEF ShortInv
<1>5. ShortInv'
  BY <1>1, <1>2, <1>3, <1>4 DEF ShortInv, SlotWaits
<1> QED
  BY <1>2, <1>5 DEF NoneComesBack

LEMMA RememberKeeps ==
    ASSUME IInv, ShortInv, NEW x \in RecentTransition, NEW now \in Nat,
           Rememberable(x, now), Remember(x, now),
           x \in completed', completed \subseteq completed',
           x \notin completed => \A y \in completed : Observation(y) < Observation(x),
           SlotWaits', ~ahead' => now <= Tick'
    PROVE  /\ ShortInv' /\ NoneComesBack
           /\ now - Observation(x) <= MaxAge => x \in Elements(entries')
<1> DEFINE xs == Append(entries, x)
           last == Observation(x)
           r == Retained(xs, now)
<1>1. /\ entries' = r /\ shortTick' = now /\ lastObservation' = last
  BY DEF Remember
<1>2. /\ entries \in Seq(RecentTransition) /\ Elements(entries) \subseteq completed
      /\ shortTick \in Nat /\ lastObservation \in Nat \cup {-1} /\ MaxAge \in Nat
      /\ \A y \in Elements(entries) : Observation(y) \in Nat /\ Observation(y) <= shortTick
                                      /\ Observation(y) <= lastObservation
  <2>1. MaxAge \in Nat
    BY LoopAssumption DEF LoopAssumption
  <2>2. \A y \in Elements(entries) : Observation(y) \in Nat
    BY ObservationIs DEF ShortInv, Elements
  <2>3. \A y \in Elements(entries) : shortTick - Observation(y) \in 0 .. MaxAge
    BY DEF ShortInv
  <2>4. \A y \in Elements(entries) : Observation(y) <= shortTick
    BY <2>1, <2>2, <2>3 DEF ShortInv
  <2> QED
    BY <2>1, <2>2, <2>4 DEF ShortInv
<1>3. now >= shortTick /\ now >= last /\ last >= lastObservation /\ last \in Nat
  BY ObservationIs DEF Rememberable
<1>4. /\ xs \in Seq(RecentTransition) /\ xs # <<>> /\ xs[Len(xs)] = x
      /\ Elements(xs) = Elements(entries) \cup {x}
  <2>1. /\ xs \in Seq(RecentTransition) /\ Len(entries) \in Nat /\ Len(xs) = Len(entries) + 1
        /\ \A i \in 1 .. Len(entries) : xs[i] = entries[i]
        /\ xs[Len(entries) + 1] = x
        /\ DOMAIN xs = 1 .. Len(entries) + 1 /\ DOMAIN entries = 1 .. Len(entries)
    BY <1>2
  <2> HIDE DEF xs
  <2>2. \A i : i \in 1 .. Len(entries) + 1 <=> i \in 1 .. Len(entries) \/ i = Len(entries) + 1
    BY <2>1
  <2>3. Elements(xs) = Elements(entries) \cup {x}
    BY <2>1, <2>2 DEF Elements
  <2>4. xs # <<>>
    BY <2>1
  <2> QED
    BY <2>1, <2>3, <2>4
<1> HIDE DEF xs
<1>5. Ended(xs, now, last)
  <2>1. \A y \in Elements(xs) : Observation(y) <= now /\ Observation(y) <= last
    <3> HIDE DEF last
    <3>1. \A y \in Elements(entries) : Observation(y) <= now /\ Observation(y) <= last
      BY <1>2, <1>3
    <3> QED
      BY <1>3, <1>4, <3>1 DEF last
  <2> QED
    BY <1>4, <2>1 DEF Ended
<1> HIDE DEF last
<1>6. /\ Ended(r, now, last) /\ Len(r) <= MaxEntries /\ Elements(r) \subseteq Elements(xs)
      /\ \A y \in Elements(r) : now - Observation(y) \in 0 .. MaxAge
      /\ now - last <= MaxAge => x \in Elements(r)
  BY <1>3, <1>4, <1>5, RetainedEnds
<1> HIDE DEF r
<1>7. Elements(entries)' = Elements(r) /\ Elements(entries') = Elements(r)
  BY <1>1 DEF Elements
<1>8. ShortInv'
  <2>1. /\ r \in Seq(RecentTransition) /\ Elements(r) \subseteq completed'
        /\ \A y \in Elements(r) : Observation(y) <= last
        /\ r # <<>> => Observation(r[Len(r)]) = last
        /\ r = <<>> /\ last # -1 => now - last > MaxAge
    BY <1>2, <1>4, <1>6 DEF Ended
  <2>2. \E y \in completed' : Observation(y) = last
    BY DEF last
  <2> QED
    BY <1>1, <1>3, <1>6, <1>7, <2>1, <2>2 DEF ShortInv, SlotWaits
<1>9. NoneComesBack
  <2> SUFFICES ASSUME NEW z \in Elements(entries'), z \notin Elements(entries)
               PROVE  Observation(z) > lastObservation
    BY DEF NoneComesBack
  <2>1. z = x /\ Observation(z) = last
    BY <1>4, <1>6, <1>7 DEF last
  <2> SUFFICES ASSUME last = lastObservation PROVE FALSE
    BY <1>2, <1>3, <2>1
  <2>2. lastObservation # -1
    BY <1>3
  <2>3. PICK y \in completed : Observation(y) = lastObservation
    BY <2>2 DEF ShortInv
  <2>4. x \in completed
    <3>1. ~(Observation(y) < last)
      BY <1>3, <2>3
    <3> QED
      BY <3>1 DEF last
  <2>5. CASE entries = <<>>
    <3>1. shortTick - lastObservation > MaxAge
      BY <2>2, <2>5 DEF ShortInv
    <3>2. now - last \in 0 .. MaxAge
      BY <1>6, <1>7, <2>1
    <3> QED
      BY <1>2, <1>3, <3>1, <3>2
  <2>6. CASE entries # <<>>
    <3> DEFINE e == entries[Len(entries)]
    <3>1. e \in Elements(entries) /\ Observation(e) = lastObservation
      BY <1>2, <2>6 DEF ShortInv, Elements
    <3> HIDE DEF e
    <3>2. e \in completed /\ Observation(e) = Observation(x)
      BY <1>2, <3>1 DEF last
    <3>3. e = x
      BY <2>4, <3>2 DEF IInv, ManagerInv, OneConsequence
    <3> QED
      BY <2>1, <3>1, <3>3
  <2> QED
    BY <2>5, <2>6
<1> QED
  BY <1>6, <1>7, <1>8, <1>9 DEF last

LEMMA PruneKeeps ==
    ASSUME IInv, ShortInv, NEW now \in Nat, Prune(now)
    PROVE  ShortInv' /\ NoneComesBack
<1> DEFINE r == Retained(entries, now)
<1>1. /\ Idle /\ now >= shortTick /\ entries' = r /\ shortTick' = now /\ Reads(now)
      /\ lastObservation' = lastObservation /\ completed' = completed /\ call' = call
      /\ applied' = applied
  BY DEF Prune
<1>2. /\ shortTick \in Nat /\ lastObservation \in Nat \cup {-1} /\ MaxAge \in Nat
      /\ \A y \in Elements(entries) : Observation(y) \in Nat
      /\ \A y \in Elements(entries) : shortTick - Observation(y) \in 0 .. MaxAge
                                      /\ Observation(y) <= lastObservation
      /\ entries \in Seq(RecentTransition)
  <2>1. MaxAge \in Nat
    BY LoopAssumption DEF LoopAssumption
  <2>2. \A y \in Elements(entries) : Observation(y) \in Nat
    BY ObservationIs DEF ShortInv, Elements
  <2> QED
    BY <2>1, <2>2 DEF ShortInv
<1>3. Ended(entries, now, lastObservation)
  <2>1. \A y \in Elements(entries) : Observation(y) <= now
    BY <1>1, <1>2
  <2>2. entries = <<>> /\ lastObservation # -1 => now - lastObservation > MaxAge
    <3>1. entries = <<>> /\ lastObservation # -1 => shortTick - lastObservation > MaxAge
      BY DEF ShortInv
    <3> QED
      BY <1>1, <1>2, <3>1
  <2> QED
    BY <1>2, <2>1, <2>2 DEF Ended, ShortInv
<1>4. /\ Ended(r, now, lastObservation) /\ Len(r) <= MaxEntries
      /\ Elements(r) \subseteq Elements(entries)
      /\ \A y \in Elements(r) : now - Observation(y) \in 0 .. MaxAge
  BY <1>2, <1>3, RetainedEnds
<1> HIDE DEF r
<1>5. Elements(entries)' = Elements(r) /\ Elements(entries') = Elements(r)
  BY <1>1 DEF Elements
<1>6. ~ahead' => now <= Tick'
  <2>1. Tick' = Tick /\ Tick \in Nat
    BY <1>1 DEF Tick, IInv, CallInv
  <2>2. ~ahead' => ~(now > Tick)
    BY <1>1, Zenon DEF Reads
  <2> QED
    BY <2>1, <2>2
<1>7. call'.at # "observe"
  BY <1>1 DEF Idle
<1>8. ShortInv'
  BY <1>1, <1>2, <1>4, <1>5, <1>6, <1>7 DEF ShortInv, Ended
<1> QED
  BY <1>4, <1>5, <1>8 DEF NoneComesBack

LEMMA HandOverKeeps ==
    ASSUME IInv, ShortInv, NEW x \in completed, NEW now \in Nat, HandOver(x, now)
    PROVE  ShortInv' /\ NoneComesBack
<1>1. /\ Idle /\ Rememberable(x, now) /\ Remember(x, now) /\ Reads(now)
      /\ applied' = applied /\ completed' = completed /\ call' = call
  BY DEF HandOver
<1>2. Tick' = Tick /\ Tick \in Nat /\ x \in RecentTransition /\ completed \subseteq completed'
  BY <1>1 DEF Tick, IInv, CallInv, ManagerInv, ManagerOK
<1>3. ~ahead' => ~(now > Tick)
  BY <1>1, Zenon DEF Reads
<1>4. ~ahead' => now <= Tick'
  BY <1>2, <1>3
<1>5. SlotWaits'
  BY <1>1 DEF Idle, SlotWaits
<1> QED
  BY <1>1, <1>2, <1>4, <1>5, RememberKeeps

(* The relation just completed is newer than all the short memory was given. *)
LEMMA ConsequenceKeeps ==
    ASSUME IInv, ShortInv, NEW topology \in Topologies, ObserveConsequence(topology)
    PROVE  ShortInv' /\ NoneComesBack /\ ObservedStays
<1> DEFINE w == [end |-> Tick, topology |-> topology]
           x == Relation(w)
           status == IF Completes(w) THEN "executed_and_observed"
                     ELSE "action_executed_observation_pending"
<1>1. /\ call.at = "observe" /\ Accepts(w) /\ Observe(w) /\ Return(status, call.frame)
      /\ IF Completes(w) /\ call.keep /\ Rememberable(x, Observation(x))
         THEN Remember(x, Observation(x)) ELSE UNCHANGED short
      /\ UNCHANGED <<applied, nextFrame, ahead>>
  BY DEF ObserveConsequence
<1>2. w \in Window /\ w.end = Tick /\ Tick \in Nat /\ Tick' = Tick
  BY <1>1 DEF Window, IInv, CallInv, Tick
<1>3. result'.status = status /\ SlotWaits' /\ ahead' = ahead
  BY <1>1 DEF Return, NoCall, SlotWaits
<1>4. pending # None /\ pending.frame = call.frame /\ pending \in Pending
  BY <1>1 DEF ShortInv, IInv, ManagerInv, ManagerOK
<1>5. completed \subseteq completed' /\ (Completes(w) => completed' = completed \cup {x})
  BY <1>1 DEF Observe
<1> HIDE DEF w
<1>6. CASE ~Completes(w)
  <2>1. UNCHANGED short /\ status # "executed_and_observed"
    BY <1>1, <1>6
  <2> HIDE DEF status
  <2>2. ShortInv' /\ NoneComesBack
    BY <1>2, <1>3, <1>5, <2>1, ShortStays
  <2> QED
    BY <1>3, <2>1, <2>2 DEF ObservedStays
<1>7. CASE Completes(w)
  <2>1. /\ x \in RecentTransition /\ x.id = pending.id /\ x.frame = pending.frame
        /\ x.frame.tick \in Nat /\ Observation(x) = Tick
        /\ Observation(x) = pending.frame.tick + 1
    BY <1>2, <1>4, <1>7 DEF Relation, RecentTransition, Pending, Frame, Completes, Observation
  <2> HIDE DEF x
  <2>2. \A y \in completed : /\ Observation(y) \in Nat /\ Observation(y) < Observation(x)
                             /\ y.id # x.id
    <3>1. \A y \in completed : /\ Observation(y) \in Nat /\ Observation(y) <= pending.frame.tick
                               /\ y.id # pending.id
      BY <1>4, ObservationIs DEF IInv, ManagerInv, ManagerOK, SlotIsPresent
    <3> QED
      BY <2>1, <3>1
  <2>3. x \in completed'
    BY <1>5, <1>7
  <2>4. ASSUME ~ahead PROVE Rememberable(x, Observation(x))
    <3>1. Observation(x) >= shortTick
      BY <2>1, <2>4, <1>2 DEF ShortInv
    <3>2. Observation(x) >= lastObservation
      <4>1. CASE lastObservation = -1
        BY <1>2, <2>1, <4>1
      <4>2. CASE lastObservation # -1
        BY <1>2, <2>1, <2>2, <4>2 DEF ShortInv
      <4> QED
        BY <4>1, <4>2
    <3>3. \A y \in Elements(entries) : y.id # x.id
      BY <2>2 DEF ShortInv
    <3>4. Observation(x) >= Observation(x)
      BY <1>2, <2>1
    <3> QED
      BY <3>1, <3>2, <3>3, <3>4 DEF Rememberable
  <2>5. CASE call.keep /\ Rememberable(x, Observation(x))
    <3>1. Remember(x, Observation(x))
      BY <1>1, <1>7, <2>5
    <3>2. Observation(x) \in Nat /\ Observation(x) <= Tick'
      BY <1>2, <2>1
    <3>3. /\ ShortInv' /\ NoneComesBack
          /\ Observation(x) - Observation(x) <= MaxAge => x \in Elements(entries')
      BY <1>3, <1>5, <2>1, <2>2, <2>3, <2>5, <3>1, <3>2, RememberKeeps, ZenonT(60)
    <3>4. Observation(x) - Observation(x) <= MaxAge
      BY <3>2, LoopAssumption DEF LoopAssumption
    <3>5. ObservedStays
      BY <1>4, <2>1, <3>3, <3>4 DEF ObservedStays
    <3> QED
      BY <3>3, <3>5
  <2>6. CASE ~(call.keep /\ Rememberable(x, Observation(x)))
    <3>1. UNCHANGED short
      BY <1>1, <2>6
    <3>2. ShortInv' /\ NoneComesBack
      BY <1>2, <1>3, <1>5, <3>1, ShortStays
    <3>3. ObservedStays
      BY <2>4, <2>6 DEF ObservedStays
    <3> QED
      BY <3>2, <3>3
  <2> QED
    BY <2>5, <2>6
<1> QED
  BY <1>6, <1>7

(* All the others leave the short memory as it is.                          *)
Apart ==
    /\ UNCHANGED short /\ completed \subseteq completed' /\ SlotWaits'
    /\ ~ahead' => ~ahead
    /\ call'.at = "idle" /\ call.at = "observe" => result'.status # "executed_and_observed"

LEMMA HarnessApart ==
    ASSUME IInv, ShortInv,
           \/ \E t \in 0 .. Tick, p \in Topologies : Sense([end |-> t, topology |-> p])
           \/ \E t \in 0 .. Tick : Announce(t)
           \/ ApplyAnnounced \/ Withdraw \/ \E now \in Clock : Expire(now)
           \/ WorldMoves \/ UNCHANGED vars
    PROVE  Apart
<1>1. ASSUME NEW w, Sense(w) PROVE Apart
  <2>1. /\ call.at = "idle" /\ call' = call /\ UNCHANGED short /\ ahead' = ahead
        /\ completed \subseteq completed'
    BY <1>1 DEF Sense, Observe, Idle
  <2> QED
    BY <2>1 DEF Apart, SlotWaits
<1>2. ASSUME NEW t, Announce(t) PROVE Apart
  <2>1. /\ call.at = "idle" /\ call'.at = "announced" /\ UNCHANGED short /\ ahead' = ahead
        /\ completed' = completed
    BY <1>2 DEF Announce, NoCall, Idle
  <2> QED
    BY <2>1 DEF Apart, SlotWaits
<1>3. CASE ApplyAnnounced \/ Withdraw
  <2>1. /\ call.at = "announced" /\ call'.at = "idle" /\ UNCHANGED short /\ ahead' = ahead
        /\ completed' = completed
    BY <1>3 DEF ApplyAnnounced, Withdraw, NoCall
  <2> QED
    BY <2>1 DEF Apart, SlotWaits
<1>4. ASSUME NEW now, Expire(now) PROVE Apart
  <2>1. /\ call.at = "idle" /\ call' = call /\ UNCHANGED short /\ completed' = completed
    BY <1>4 DEF Expire, Idle
  <2>2. ~ahead' => ~ahead
    BY <1>4, Zenon DEF Expire, Reads
  <2> QED
    BY <2>1, <2>2 DEF Apart, SlotWaits
<1>5. CASE WorldMoves \/ UNCHANGED vars
  <2>1. /\ call' = call /\ UNCHANGED short /\ ahead' = ahead /\ completed' = completed
        /\ pending' = pending
    BY <1>5 DEF WorldMoves, vars
  <2> QED
    BY <2>1 DEF Apart, SlotWaits, ShortInv
<1> QED
  BY <1>1, <1>2, <1>3, <1>4, <1>5

LEMMA CoordinatorApart ==
    ASSUME IInv, ShortInv,
           \/ Invalid \/ \E t \in 0 .. Tick : Stale(t) \/ Occupied(t)
           \/ \E t \in 0 .. Tick, status \in Refused : Refuse(t, status)
           \/ \E t \in 0 .. Tick, observe, keep \in BOOLEAN : Execute(t, observe, keep)
           \/ ApplySignal \/ WorldFails \/ TrackAction \/ TrackingFails \/ ObservationFails
    PROVE  Apart
<1>1. ASSUME NEW status, NEW frame, Return(status, frame), UNCHANGED short, ahead' = ahead,
             completed' = completed, call.at = "observe" => status # "executed_and_observed"
      PROVE  Apart
  <2>1. call'.at = "idle" /\ result'.status = status
    BY <1>1 DEF Return, NoCall
  <2> QED
    BY <1>1, <2>1 DEF Apart, SlotWaits
<1>2. CASE Invalid \/ \E t \in 0 .. Tick : Stale(t) \/ Occupied(t)
  BY <1>1, <1>2 DEF Invalid, Stale, Occupied, Idle
<1>3. ASSUME NEW t, NEW status \in Refused, Refuse(t, status) PROVE Apart
  BY <1>1, <1>3 DEF Refuse, Idle
<1>4. ASSUME NEW t, NEW observe, NEW keep, Execute(t, observe, keep) PROVE Apart
  <2>1. /\ call'.at = "apply" /\ UNCHANGED short /\ ahead' = ahead /\ completed' = completed
    BY <1>4 DEF Execute
  <2> QED
    BY <2>1 DEF Apart, SlotWaits
<1>5. CASE ApplySignal
  <2>1. /\ call' = [call EXCEPT !.at = "track"] /\ call \in Call /\ UNCHANGED short
        /\ ahead' = ahead /\ completed' = completed
    BY <1>5 DEF ApplySignal, IInv, CallInv
  <2>2. call'.at = "track"
    BY <2>1 DEF Call
  <2> QED
    BY <2>1, <2>2 DEF Apart, SlotWaits
<1>6. CASE WorldFails \/ TrackingFails \/ ObservationFails
  BY <1>1, <1>6 DEF WorldFails, TrackingFails, ObservationFails
<1>7. CASE TrackAction
  <2>1. /\ call.at = "track" /\ call \in Call /\ UNCHANGED short /\ ahead' = ahead
        /\ completed' = completed /\ Track(call.frame)
        /\ \/ call' = [call EXCEPT !.at = "observe"]
           \/ Return("action_executed_observation_pending", call.frame)
    BY <1>7 DEF TrackAction, IInv, CallInv
  <2>2. CASE call' = [call EXCEPT !.at = "observe"]
    <3>1. call'.at = "observe" /\ call'.frame = call.frame
      BY <2>1, <2>2 DEF Call
    <3>2. pending'.frame = call.frame
      BY <2>1 DEF Track
    <3>3. pending' # None
      <4>1. ManagerOK /\ call.frame \in Frame /\ window # None
        BY <1>7, <2>1 DEF IInv, ManagerInv, CallInv, TrackAction, Trackable
      <4>2. pending' \in Pending
        BY <2>1, <4>1 DEF Track, Pending, ManagerOK
      <4> QED
        BY <4>2, Constants
    <3> QED
      BY <2>1, <3>1, <3>2, <3>3 DEF Apart, SlotWaits
  <2>3. CASE Return("action_executed_observation_pending", call.frame)
    BY <1>1, <2>1, <2>3
  <2> QED
    BY <2>1, <2>2, <2>3
<1> QED
  BY <1>2, <1>3, <1>4, <1>5, <1>6, <1>7

LEMMA ShortStep ==
    ASSUME IInv, ShortInv, [Next]_vars, IInv'
    PROVE  ShortInv' /\ NoneComesBack /\ ObservedStays
<1>1. Tick \in Nat /\ Tick' \in Nat /\ Tick <= Tick'
  <2>1. applied' = applied \/ \E s : applied' = Append(applied, s)
    BY DEF Next, Harness, Coordinator, WorldMoves, vars, Sense, Announce, ApplyAnnounced,
           Withdraw, Expire, Prune, HandOver, Invalid, Stale, Occupied, Refuse, Execute,
           ApplySignal, WorldFails, TrackAction, TrackingFails, ObserveConsequence,
           ObservationFails
  <2> QED
    BY <2>1 DEF IInv, CallInv, Tick
<1>2. ASSUME Apart PROVE ShortInv' /\ NoneComesBack /\ ObservedStays
  BY <1>1, <1>2, ShortStays DEF Apart, ObservedStays
<1>3. Clock \subseteq Nat
  BY <1>1, Constants DEF Clock
<1>4. ASSUME NEW now \in Clock, Prune(now) PROVE ShortInv' /\ NoneComesBack /\ ObservedStays
  <2>1. ShortInv' /\ NoneComesBack
    BY <1>3, <1>4, PruneKeeps
  <2> QED
    BY <1>4, <2>1 DEF ObservedStays, Prune, Idle
<1>5. ASSUME NEW x \in completed, NEW now \in Clock, HandOver(x, now)
      PROVE  ShortInv' /\ NoneComesBack /\ ObservedStays
  <2>1. ShortInv' /\ NoneComesBack
    BY <1>3, <1>5, HandOverKeeps
  <2> QED
    BY <1>5, <2>1 DEF ObservedStays, HandOver, Idle
<1> QED
  BY <1>2, <1>4, <1>5, ConsequenceKeeps, HarnessApart, CoordinatorApart
     DEF Next, Harness, Coordinator

(* The short memory keeps within its bounds the most recent of what it was *)
(* given; what it has dropped does not come back, however often it is      *)
(* handed over; and while no caller's clock runs ahead, what execute has    *)
(* just observed is in it.                                                 *)
THEOREM ShortMemoryIsSound == Spec => ShortMemoryKeeps
<1>1. Init => ShortInv
  <2> SUFFICES ASSUME Init PROVE ShortInv
    OBVIOUS
  <2>1. /\ entries = <<>> /\ shortTick = 0 /\ lastObservation = -1 /\ call.at = "idle"
        /\ Len(entries) = 0 /\ Elements(entries) = {} /\ Tick = 0
    BY DEF Init, NoCall, Elements, Tick
  <2>2. MaxEntries \in Nat
    BY LoopAssumption DEF LoopAssumption
  <2> QED
    BY <2>1, <2>2 DEF ShortInv
<1>2. IInv /\ IInv' /\ ShortInv /\ [Next]_vars => ShortInv' /\ NoneComesBack /\ ObservedStays
  BY ShortStep
<1>3. ShortInv => ShortMemoryBounded
  BY DEF ShortInv, ShortMemoryBounded
<1>4. NoneComesBack =>
        \A x \in Elements(entries') \ Elements(entries) : Observation(x) > lastObservation
  BY DEF NoneComesBack
<1>5. ObservedStays =>
        (/\ ~ahead
         /\ call.at = "observe" /\ call.keep
         /\ call'.at = "idle" /\ result'.status = "executed_and_observed"
         => \E x \in Elements(entries') : x.frame = call.frame)
  BY DEF ObservedStays
<1> QED
  BY Invariant, <1>1, <1>2, <1>3, <1>4, <1>5, PTL
     DEF Spec, ShortMemoryKeeps, ForgottenStaysForgotten, ObservedIsKept
=============================================================================
