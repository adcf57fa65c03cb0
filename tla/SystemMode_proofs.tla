-------------------------- MODULE SystemMode_proofs --------------------------
(***************************************************************************)
(* Proofs about SystemMode, for every choice of limits the assumption      *)
(* allows, every set of actions and every numbering of the ticks.          *)
(***************************************************************************)
EXTENDS SystemMode, TLAPS

USE DEF machine, candidates

NoStale ==
    /\ "enter" \notin stale
    /\ "exit" \in stale => mode = "consolidation"
    /\ Store \in stale => mode # "recovery"

Bounds ==
    /\ mode = "consolidation" => elapsed < MaxConsolidation
    /\ mode = "recovery" => elapsed < RecoveryTicks

Truth ==
    /\ "enter" \in effects => mode = "consolidation" /\ elapsed = 0
    /\ "exit" \in effects => mode = "recovery" /\ elapsed = 0

(* What is decided, announced and still to be handled, phase by phase.     *)
DecisionInv ==
    /\ todo \subseteq decisions
    /\ pc \in {"idle", "propose", "select", "cleanup"} => decisions = {}
    /\ pc \in {"propose", "select", "execute"} => effects = {}
    /\ pc = "execute" =>
         \E d \in decisions : decisions = {d} /\ Allowed(d.action) /\ d.executed = FALSE
    /\ pc = "mode" =>
         \/ decisions = {} /\ effects \cap ModeActions = {}
         \/ decisions = {} /\ Truth
         \/ \E d \in decisions : /\ decisions = {d} /\ todo = {d} /\ effects = {d.action}
                                 /\ d.action \in ModeActions /\ Allowed(d.action)
    /\ pc \in {"cleanup", "idle"} => Truth

(* The mode changes of this tick number: after one the mode is young, and   *)
(* only an entry into consolidation can be the second.                     *)
ChangesInv ==
    changes # << >> =>
        /\ elapsed = 0
        /\ changes[Len(changes)] = mode
        /\ Len(changes) <= 2
        /\ Len(changes) = 2 => mode = "consolidation"

(* Stale transitions are there only between a change and its clean-up.     *)
StaleInv ==
    /\ pc \notin {"mode", "cleanup"} => NoStale
    /\ pc \in {"mode", "cleanup"} => NoStale \/ changes # << >>

IInv ==
    /\ TypeOK
    /\ DecisionInv
    /\ ChangesInv
    /\ StaleInv
    /\ pc \in {"cleanup", "idle"} => Bounds

-----------------------------------------------------------------------------
(* The assumption in the form the backends use best.                       *)
LEMMA Limits ==
    /\ MinConsolidation \in Nat /\ MinConsolidation > 0
    /\ MaxConsolidation \in Nat /\ MaxConsolidation >= MinConsolidation
    /\ RecoveryTicks \in Nat /\ RecoveryTicks > 0 /\ RecoveryTicks <= MaxConsolidation
    /\ CandidateTtl \in Nat /\ Cooldown \in Nat
    /\ DecisionWindow \in Nat /\ DecisionWindow > 0
    /\ CleanupWindow \in Nat /\ CleanupWindow >= 2
    /\ GuardMin = MinConsolidation /\ ProposerMin = MinConsolidation
    /\ Store \in Others /\ "enter" \notin Others /\ "exit" \notin Others
    /\ Outside \subseteq Others
    /\ Gaps \subseteq Nat
BY ModeAssumption DEF ModeAssumption

(* Saturating time stays in range.                                         *)
LEMMA TimesStay ==
    ASSUME NEW time \in Nat, NEW gap \in Nat
    PROVE  /\ Later(time, gap) \in 0 .. MaxConsolidation
           /\ Sooner(time, gap) \in 0 .. time
BY Limits DEF Later, Sooner

(* A step that leaves every variable alone keeps the invariant.            *)
LEMMA StutterKeeps == IInv /\ UNCHANGED vars => IInv'
<1>. SUFFICES ASSUME IInv, UNCHANGED vars PROVE IInv'
  OBVIOUS
<1>1. TypeOK'
  BY DEF IInv, TypeOK, vars
<1>2. DecisionInv'
  <2>1. \A a : Allowed(a)' <=> Allowed(a)
    BY DEF Allowed, vars
  <2>. QED BY <2>1 DEF IInv, DecisionInv, Truth, vars
<1>3. ChangesInv' /\ StaleInv'
  BY DEF IInv, ChangesInv, StaleInv, NoStale, vars
<1>4. (pc \in {"cleanup", "idle"} => Bounds)'
  BY DEF IInv, Bounds, vars
<1>. QED BY <1>1, <1>2, <1>3, <1>4 DEF IInv

LEMMA InitHolds == Init => IInv
<1>1. Init => TypeOK
  BY Limits DEF Init, TypeOK, Modes, Actions, ModeActions
<1>2. Init => DecisionInv /\ ChangesInv /\ StaleInv
  BY DEF Init, DecisionInv, Truth, ChangesInv, StaleInv, NoStale
<1>3. Init => Bounds
  BY DEF Init, Bounds
<1>. QED BY <1>1, <1>2, <1>3 DEF IInv

LEMMA FeedKeeps ==
    ASSUME IInv, NEW gap \in Nat, Feed(gap)
    PROVE  IInv'
<1>1. TypeOK'
  <2>1. elapsed' \in 0 .. MaxConsolidation
    BY TimesStay DEF IInv, TypeOK, Feed
  <2>2. DOMAIN left' = DOMAIN left /\ left' \in [DOMAIN left -> 0 .. CandidateTtl]
    BY TimesStay, Limits DEF IInv, TypeOK, Feed
  <2>3. cooldown' \in [Actions -> 0 .. Cooldown]
    BY TimesStay, Limits DEF IInv, TypeOK, Feed
  <2>4. changes' \in Seq(Modes) /\ effects' \subseteq Actions \ Outside
    BY DEF IInv, TypeOK, Feed
  <2>. QED BY <2>1, <2>2, <2>3, <2>4 DEF IInv, TypeOK, Feed
<1>2. DecisionInv'
  BY DEF IInv, DecisionInv, Feed
<1>3. ChangesInv'
  <2>1. CASE gap = 0
    <3>1. elapsed' = elapsed
      BY <2>1, Limits DEF IInv, TypeOK, Feed, Later
    <3>. QED BY <3>1, <2>1 DEF IInv, ChangesInv, Feed
  <2>2. CASE gap # 0
    BY <2>2 DEF ChangesInv, Feed
  <2>. QED BY <2>1, <2>2
<1>4. StaleInv' /\ pc' = "propose"
  BY DEF IInv, StaleInv, NoStale, Feed
<1>. QED BY <1>1, <1>2, <1>3, <1>4 DEF IInv

LEMMA ProposeKeeps ==
    ASSUME IInv, Propose
    PROVE  IInv'
<1>1. TypeOK'
  <2>1. PICK asked \in SUBSET (Proposable \cup Remembered) :
           LET proposed == {a \in asked \cup Certain : cooldown[a] = 0}
           IN  left' = [a \in DOMAIN left \cup proposed |->
                          IF a \in proposed THEN CandidateTtl ELSE left[a]]
    BY DEF Propose
  <2>. DEFINE proposed == {a \in asked \cup Certain : cooldown[a] = 0}
  <2>2. proposed \subseteq Actions
    BY Limits DEF Proposable, Remembered, Certain, Actions, ModeActions
  <2>. HIDE DEF proposed
  <2>3. left' = [a \in DOMAIN left \cup proposed |-> IF a \in proposed THEN CandidateTtl ELSE left[a]]
    BY <2>1 DEF proposed
  <2>4. /\ DOMAIN left' = DOMAIN left \cup proposed
        /\ left' \in [DOMAIN left' -> 0 .. CandidateTtl]
    BY <2>3, Limits DEF IInv, TypeOK
  <2>. QED BY <2>2, <2>4 DEF IInv, TypeOK, Propose
<1>2. DecisionInv'
  BY DEF IInv, DecisionInv, Propose
<1>3. ChangesInv' /\ StaleInv' /\ pc' = "select"
  BY DEF IInv, ChangesInv, StaleInv, NoStale, Propose
<1>. QED BY <1>1, <1>2, <1>3 DEF IInv

LEMMA SelectKeeps ==
    ASSUME IInv, Select
    PROVE  IInv'
<1>1. PICK field \in SUBSET DOMAIN left :
         /\ left' = [a \in field |-> left[a]]
         /\ stale' = stale \cap field
         /\ \/ pc' = "mode" /\ UNCHANGED <<cooldown, decisions>>
            \/ pc' = "execute" /\ \E a \in field : Decide(a)
  BY DEF Select
<1>2. /\ todo' = decisions' /\ decisions = {} /\ effects = {}
      /\ UNCHANGED <<mode, elapsed, depth, effects, changes>>
  BY DEF IInv, DecisionInv, Select
<1>3. \A a : Allowed(a)' <=> Allowed(a)
  BY <1>2 DEF Allowed
<1>4. DOMAIN left' \subseteq Actions /\ left' \in [DOMAIN left' -> 0 .. CandidateTtl] /\ stale' \subseteq DOMAIN left'
  BY <1>1 DEF IInv, TypeOK
<1>5. CASE pc' = "mode" /\ UNCHANGED <<cooldown, decisions>>
  <2>1. TypeOK'
    BY <1>2, <1>4, <1>5 DEF IInv, TypeOK
  <2>2. DecisionInv'
    BY <1>2, <1>5 DEF DecisionInv, ModeActions
  <2>3. ChangesInv' /\ StaleInv'
    BY <1>1, <1>2, <1>5 DEF IInv, ChangesInv, StaleInv, NoStale, Select
  <2>. QED BY <2>1, <2>2, <2>3, <1>5 DEF IInv
<1>6. CASE pc' = "execute" /\ \E a \in field : Decide(a)
  <2>1. PICK a \in field : Decide(a)
    BY <1>6
  <2>. DEFINE n == [action |-> a, age |-> 0, executed |-> FALSE]
  <2>2. a \in Actions /\ Allowed(a) /\ decisions' = {n}
    BY <2>1, <1>1, <1>2 DEF Decide, IInv, TypeOK
  <2>3. n \in Decision /\ n.action = a /\ n.executed = FALSE
    BY <2>2, Limits DEF Decision
  <2>. HIDE DEF n
  <2>4. cooldown' \in [Actions -> 0 .. Cooldown]
    BY <2>1, <2>2, Limits DEF Decide, IInv, TypeOK
  <2>5. TypeOK'
    BY <1>2, <1>4, <1>6, <2>2, <2>3, <2>4 DEF IInv, TypeOK
  <2>6. DecisionInv'
    BY <1>2, <1>3, <1>6, <2>2, <2>3 DEF DecisionInv
  <2>7. ChangesInv' /\ StaleInv'
    BY <1>1, <1>2, <1>6 DEF IInv, ChangesInv, StaleInv, NoStale, Select
  <2>. QED BY <2>5, <2>6, <2>7, <1>6 DEF IInv
<1>. QED BY <1>1, <1>5, <1>6

LEMMA ExecuteKeeps ==
    ASSUME IInv, Execute
    PROVE  IInv'
<1>1. PICK n \in decisions : decisions = {n} /\ Allowed(n.action) /\ n.executed = FALSE
  BY DEF IInv, DecisionInv, Execute
<1>2. n \in Decision /\ n.action \in Actions
  BY <1>1 DEF IInv, TypeOK, Decision
<1>. DEFINE m == [n EXCEPT !.executed = TRUE]
            mine == {e \in decisions : e.action \in ModeActions}
<1>3. m \in Decision /\ m.action = n.action
  BY <1>2 DEF Decision
<1>4. effects' = {n.action} \ Outside
  <2>1. {e \in decisions : ~e.executed /\ Allowed(e.action)} = {n}
    BY <1>1
  <2>2. {d.action : d \in {e \in decisions : ~e.executed /\ Allowed(e.action)}} = {n.action}
    BY <2>1
  <2>. QED BY <2>2 DEF Execute
<1>5. decisions' = (IF n.action \in ModeActions THEN {m} ELSE {}) /\ todo' = decisions' /\ pc' = "mode"
  <2>1. mine = IF n.action \in ModeActions THEN {n} ELSE {}
    BY <1>1
  <2>2. decisions' = {[d EXCEPT !.executed = TRUE] : d \in mine} /\ todo' = decisions' /\ pc' = "mode"
    BY DEF Execute
  <2>. HIDE DEF mine
  <2>. QED BY <2>1, <2>2
<1>. HIDE DEF m
<1>6. TypeOK'
  BY <1>2, <1>3, <1>4, <1>5 DEF IInv, TypeOK, Execute
<1>7. DecisionInv'
  <2>1. CASE n.action \in ModeActions
    <3>1. effects' = {n.action}
      BY <2>1, <1>4, Limits DEF ModeActions
    <3>2. Allowed(m.action)'
      BY <1>1, <1>3 DEF Execute, Allowed
    <3>. QED BY <2>1, <3>1, <3>2, <1>3, <1>5 DEF DecisionInv
  <2>2. CASE n.action \notin ModeActions
    BY <2>2, <1>4, <1>5 DEF DecisionInv
  <2>. QED BY <2>1, <2>2
<1>8. ChangesInv' /\ StaleInv' /\ pc' = "mode"
  BY DEF IInv, ChangesInv, StaleInv, NoStale, Execute
<1>. QED BY <1>6, <1>7, <1>8 DEF IInv

(* A change of the mode in the phase of the manager.                       *)
LEMMA ChangeKeeps ==
    ASSUME IInv, NEW to \in Modes, Change(to),
           pc = "mode", to # mode,
           mode # "active" => elapsed > 0,
           to = NextMode(mode)
    PROVE  /\ mode' = to /\ elapsed' = 0 /\ changes' # << >>
           /\ mode' \in Modes /\ elapsed' \in 0 .. MaxConsolidation /\ depth' \in {0, 35, 100}
           /\ DOMAIN left' \subseteq Actions /\ left' \in [DOMAIN left' -> 0 .. CandidateTtl]
           /\ stale' \subseteq DOMAIN left' /\ cooldown' \in [Actions -> 0 .. Cooldown]
           /\ changes' \in Seq(Modes)
           /\ ChangesInv'
           /\ Bounds'
<1>1. mode' = to /\ elapsed' = 0 /\ mode' \in Modes /\ elapsed' \in 0 .. MaxConsolidation
  BY Limits DEF Change
<1>2. depth' \in {0, 35, 100}
  BY DEF Change, Modes
<1>3. /\ DOMAIN left' \subseteq Actions /\ left' \in [DOMAIN left' -> 0 .. CandidateTtl]
      /\ stale' \subseteq DOMAIN left' /\ cooldown' \in [Actions -> 0 .. Cooldown]
  BY DEF Change, IInv, TypeOK
<1>4. changes \in Seq(Modes) /\ changes' = Append(changes, to)
  BY DEF Change, IInv, TypeOK
<1>5. changes' \in Seq(Modes) /\ changes' # << >>
  BY <1>4
<1>6. ChangesInv'
  <2>1. Len(changes) \in Nat /\ (changes # << >> => Len(changes) > 0)
    BY <1>4
  <2>2. Len(changes') = Len(changes) + 1 /\ changes'[Len(changes')] = to
    BY <1>4, <2>1
  <2>3. changes # << >> => Len(changes) = 1 /\ to = "consolidation"
    <3>1. SUFFICES ASSUME changes # << >> PROVE Len(changes) = 1 /\ to = "consolidation"
      OBVIOUS
    <3>2. elapsed = 0 /\ Len(changes) <= 2 /\ (Len(changes) = 2 => mode = "consolidation")
      BY <3>1 DEF IInv, ChangesInv
    <3>3. mode = "active"
      BY <3>2
    <3>4. to = "consolidation"
      BY <3>3 DEF NextMode
    <3>5. Len(changes) # 2
      BY <3>2, <3>3
    <3>6. \A n \in Nat : n > 0 /\ n <= 2 /\ n # 2 => n = 1
      OBVIOUS
    <3>7. Len(changes) = 1
      BY <2>1, <3>1, <3>2, <3>5, <3>6
    <3>. QED BY <3>4, <3>7
  <2>4. changes = << >> => Len(changes) = 0
    OBVIOUS
  <2>5. Len(changes') <= 2 /\ (Len(changes') = 2 => to = "consolidation")
    <3>1. CASE changes = << >>
      <4>1. Len(changes') = 1
        BY <3>1, <2>2, <2>4
      <4>. QED BY <4>1
    <3>2. CASE changes # << >>
      <4>1. Len(changes) = 1 /\ to = "consolidation"
        BY <3>2, <2>3
      <4>2. Len(changes') <= 2
        BY <4>1, <2>2
      <4>. QED BY <4>1, <4>2
    <3>. QED BY <3>1, <3>2
  <2>6. mode' = to /\ elapsed' = 0
    BY <1>1
  <2>. QED BY <2>2, <2>5, <2>6 DEF ChangesInv
<1>7. Bounds'
  BY <1>1, Limits DEF Bounds
<1>. QED BY <1>1, <1>2, <1>3, <1>5, <1>6, <1>7

(* What the loop does with the only decision it can find: the decision is   *)
(* about the mode, passed the guard, and is therefore carried out.          *)
LEMMA HandleActs ==
    ASSUME IInv, NEW d \in todo, Handle(d)
    PROVE  /\ decisions' = {} /\ todo' = {} /\ pc = "mode" /\ UNCHANGED <<pc, effects>>
           /\ \/ effects = {"enter"} /\ mode = "active" /\ Change("consolidation")
              \/ /\ effects = {"exit"} /\ mode = "consolidation"
                 /\ elapsed >= MinConsolidation /\ Change("recovery")
<1>1. pc = "mode" /\ decisions # {}
  BY DEF IInv, DecisionInv, Handle
<1>2. PICK n \in decisions : /\ decisions = {n} /\ todo = {n} /\ effects = {n.action}
                             /\ n.action \in ModeActions /\ Allowed(n.action)
  BY <1>1 DEF IInv, DecisionInv
<1>. DEFINE a == d.action
<1>3. d = n /\ effects = {a} /\ a \in ModeActions /\ Allowed(a)
  BY <1>2
<1>4. todo = {d} /\ decisions = {d}
  BY <1>2, <1>3
<1>5. CASE a = "enter"
  <2>1. mode = "active"
    BY <1>3, <1>5, Limits DEF Allowed, ModeActions
  <2>. QED BY <1>1, <1>2, <1>3, <1>4, <1>5, <2>1 DEF Handle
<1>6. CASE a = "exit"
  <2>1. mode = "consolidation" /\ elapsed >= MinConsolidation
    BY <1>3, <1>6, Limits DEF Allowed, ModeActions
  <2>2. ~(elapsed < MinConsolidation)
    BY <2>1, Limits DEF IInv, TypeOK
  <2>. QED BY <1>1, <1>2, <1>3, <1>4, <1>6, <2>1, <2>2 DEF Handle
<1>. QED BY <1>3, <1>5, <1>6 DEF ModeActions

LEMMA HandleKeeps ==
    ASSUME IInv, NEW d \in todo, Handle(d)
    PROVE  IInv'
<1>1. decisions' = {} /\ todo' = {} /\ pc = "mode" /\ pc' = "mode" /\ effects' = effects
  BY HandleActs
<1>2. CASE effects = {"enter"} /\ mode = "active" /\ Change("consolidation")
  <2>1. /\ mode' = "consolidation" /\ elapsed' = 0 /\ changes' # << >>
        /\ mode' \in Modes /\ elapsed' \in 0 .. MaxConsolidation /\ depth' \in {0, 35, 100}
        /\ DOMAIN left' \subseteq Actions /\ left' \in [DOMAIN left' -> 0 .. CandidateTtl]
        /\ stale' \subseteq DOMAIN left' /\ cooldown' \in [Actions -> 0 .. Cooldown]
        /\ changes' \in Seq(Modes) /\ ChangesInv'
    BY <1>1, <1>2, ChangeKeeps DEF NextMode, Modes
  <2>2. TypeOK'
    BY <1>1, <2>1 DEF IInv, TypeOK
  <2>3. DecisionInv' /\ StaleInv'
    BY <1>1, <1>2, <2>1 DEF DecisionInv, Truth, StaleInv
  <2>. QED BY <1>1, <2>1, <2>2, <2>3 DEF IInv
<1>3. CASE /\ effects = {"exit"} /\ mode = "consolidation"
           /\ elapsed >= MinConsolidation /\ Change("recovery")
  <2>0. elapsed > 0
    BY <1>3, Limits DEF IInv, TypeOK
  <2>1. /\ mode' = "recovery" /\ elapsed' = 0 /\ changes' # << >>
        /\ mode' \in Modes /\ elapsed' \in 0 .. MaxConsolidation /\ depth' \in {0, 35, 100}
        /\ DOMAIN left' \subseteq Actions /\ left' \in [DOMAIN left' -> 0 .. CandidateTtl]
        /\ stale' \subseteq DOMAIN left' /\ cooldown' \in [Actions -> 0 .. Cooldown]
        /\ changes' \in Seq(Modes) /\ ChangesInv'
    BY <1>1, <1>3, <2>0, ChangeKeeps DEF NextMode, Modes
  <2>2. TypeOK'
    BY <1>1, <2>1 DEF IInv, TypeOK
  <2>3. DecisionInv' /\ StaleInv'
    BY <1>1, <1>3, <2>1 DEF DecisionInv, Truth, StaleInv
  <2>. QED BY <1>1, <2>1, <2>2, <2>3 DEF IInv
<1>. QED BY <1>2, <1>3, HandleActs

LEMMA EndManagerKeeps ==
    ASSUME IInv, EndManager
    PROVE  IInv'
<1>1. pc = "mode" /\ pc' = "cleanup" /\ todo = {} /\ UNCHANGED <<decisions, todo, effects>>
  BY DEF EndManager
<1>2. decisions = {} /\ (effects \cap ModeActions = {} \/ Truth)
  BY <1>1 DEF IInv, DecisionInv
<1>3. CASE mode = "consolidation" /\ elapsed >= MaxConsolidation /\ Change("recovery")
  <2>0. elapsed > 0
    BY <1>3, Limits DEF IInv, TypeOK
  <2>1. /\ mode' = "recovery" /\ elapsed' = 0 /\ changes' # << >>
        /\ mode' \in Modes /\ elapsed' \in 0 .. MaxConsolidation /\ depth' \in {0, 35, 100}
        /\ DOMAIN left' \subseteq Actions /\ left' \in [DOMAIN left' -> 0 .. CandidateTtl]
        /\ stale' \subseteq DOMAIN left' /\ cooldown' \in [Actions -> 0 .. Cooldown]
        /\ changes' \in Seq(Modes) /\ ChangesInv' /\ Bounds'
    BY <1>1, <1>3, <2>0, ChangeKeeps DEF NextMode, Modes
  <2>2. effects \cap ModeActions = {}
    BY <1>2, <1>3, <2>0 DEF Truth, ModeActions
  <2>3. TypeOK'
    BY <1>1, <2>1 DEF IInv, TypeOK
  <2>4. DecisionInv' /\ StaleInv'
    BY <1>1, <1>2, <2>1, <2>2 DEF DecisionInv, Truth, StaleInv, ModeActions
  <2>. QED BY <1>1, <2>1, <2>3, <2>4 DEF IInv
<1>4. CASE mode = "recovery" /\ elapsed >= RecoveryTicks /\ Change("active")
  <2>0. elapsed > 0
    BY <1>4, Limits DEF IInv, TypeOK
  <2>1. /\ mode' = "active" /\ elapsed' = 0 /\ changes' # << >>
        /\ mode' \in Modes /\ elapsed' \in 0 .. MaxConsolidation /\ depth' \in {0, 35, 100}
        /\ DOMAIN left' \subseteq Actions /\ left' \in [DOMAIN left' -> 0 .. CandidateTtl]
        /\ stale' \subseteq DOMAIN left' /\ cooldown' \in [Actions -> 0 .. Cooldown]
        /\ changes' \in Seq(Modes) /\ ChangesInv' /\ Bounds'
    BY <1>1, <1>4, <2>0, ChangeKeeps DEF NextMode, Modes
  <2>2. effects \cap ModeActions = {}
    BY <1>2, <1>4, <2>0 DEF Truth, ModeActions
  <2>3. TypeOK'
    BY <1>1, <2>1 DEF IInv, TypeOK
  <2>4. DecisionInv' /\ StaleInv'
    BY <1>1, <1>2, <2>1, <2>2 DEF DecisionInv, Truth, StaleInv, ModeActions
  <2>. QED BY <1>1, <2>1, <2>3, <2>4 DEF IInv
<1>5. CASE /\ Stay
           /\ \/ mode = "active"
              \/ mode = "consolidation" /\ elapsed < MaxConsolidation
              \/ mode = "recovery" /\ elapsed < RecoveryTicks
  <2>1. TypeOK' /\ ChangesInv'
    BY <1>1, <1>5 DEF Stay, IInv, TypeOK, ChangesInv
  <2>2. DecisionInv' /\ StaleInv'
    BY <1>1, <1>2, <1>5 DEF Stay, IInv, DecisionInv, Truth, ModeActions, StaleInv, NoStale
  <2>3. Bounds'
    BY <1>5 DEF Stay, Bounds
  <2>. QED BY <2>1, <2>2, <2>3 DEF IInv
<1>. QED BY <1>3, <1>4, <1>5 DEF EndManager

(* After a change the clean-up finds it among the recent ones.             *)
LEMMA ChangeIsRecent ==
    ASSUME IInv, changes # << >>
    PROVE  mode \in RecentChanges
<1>1. Len(changes) \in Nat /\ Len(changes) > 0 /\ Len(changes) <= 2 /\ changes[Len(changes)] = mode
  BY DEF IInv, TypeOK, ChangesInv
<1>2. ~(Len(changes) > CleanupWindow)
  BY <1>1, Limits
<1>. QED BY <1>1, <1>2 DEF RecentChanges

LEMMA CleanupKeeps ==
    ASSUME IInv, Cleanup
    PROVE  IInv'
<1>. DEFINE kept == DOMAIN left \ UNION {Forgotten(to) : to \in RecentChanges}
<1>1. /\ pc = "cleanup" /\ pc' = "idle"
      /\ left' = [a \in kept |-> left[a]] /\ stale' = stale \cap kept
      /\ UNCHANGED <<mode, elapsed, depth, cooldown, decisions, todo, effects, changes>>
  BY DEF Cleanup
<1>2. TypeOK'
  <2>1. kept \subseteq DOMAIN left
    OBVIOUS
  <2>. HIDE DEF kept
  <2>2. DOMAIN left' = kept /\ left' \in [kept -> 0 .. CandidateTtl] /\ stale' \subseteq kept
    BY <1>1, <2>1 DEF IInv, TypeOK
  <2>. QED BY <1>1, <2>1, <2>2 DEF IInv, TypeOK
<1>3. DecisionInv'
  BY <1>1 DEF IInv, DecisionInv, Truth
<1>4. ChangesInv' /\ Bounds'
  BY <1>1 DEF IInv, ChangesInv, Bounds
<1>5. NoStale'
  <2>1. CASE NoStale
    BY <1>1, <2>1 DEF NoStale
  <2>2. CASE changes # << >>
    <3>1. kept \cap Forgotten(mode) = {}
      BY <2>2, ChangeIsRecent
    <3>2. mode = "active" \/ mode = "consolidation" \/ mode = "recovery"
      BY DEF IInv, TypeOK, Modes
    <3>3. /\ "enter" \in Forgotten(mode)
          /\ mode # "consolidation" => "exit" \in Forgotten(mode)
          /\ mode = "recovery" => Store \in Forgotten(mode)
      BY <3>2 DEF Forgotten
    <3>. HIDE DEF kept
    <3>. QED BY <1>1, <3>1, <3>3 DEF NoStale
  <2>. QED BY <1>1, <2>1, <2>2 DEF IInv, StaleInv
<1>. QED BY <1>1, <1>2, <1>3, <1>4, <1>5 DEF IInv, StaleInv

LEMMA NextKeeps == IInv /\ [Next]_vars => IInv'
<1>. SUFFICES ASSUME IInv, [Next]_vars PROVE IInv'
  OBVIOUS
<1>1. CASE NewTick
  BY <1>1, FeedKeeps, Limits DEF NewTick
<1>2. CASE SameTick
  BY <1>2, FeedKeeps DEF SameTick
<1>3. CASE \E d \in todo : Handle(d)
  BY <1>3, HandleKeeps
<1>. QED BY <1>1, <1>2, <1>3, ProposeKeeps, SelectKeeps, ExecuteKeeps, EndManagerKeeps,
            CleanupKeeps, StutterKeeps DEF Next

LEMMA Invariance == Spec => []IInv
BY InitHolds, NextKeeps, PTL DEF Spec

-----------------------------------------------------------------------------
(* Every variable of the mode machine keeps its type.                      *)
THEOREM TypeCorrect == Spec => []TypeOK
BY Invariance, PTL DEF IInv

(* For every numbering of the ticks consolidation and recovery are over by  *)
(* the end of the tick that reaches their limit.                           *)
THEOREM StaysAreBounded == Spec => []StaysBounded
<1>1. IInv => StaysBounded
  BY DEF IInv, Bounds, StaysBounded
<1>. QED BY <1>1, Invariance, PTL

(* No decision about the mode outlives its tick, and what the executor      *)
(* announced has happened when the tick is over.                           *)
THEOREM DecisionsTakeEffect == Spec => []DecisionsActAtOnce
<1>1. IInv => DecisionsActAtOnce
  BY DEF IInv, DecisionInv, Truth, NoLeftoverDecision, EffectsTellTruth, DecisionsActAtOnce
<1>. QED BY <1>1, Invariance, PTL

(* No candidate from an earlier mode is there to change the mode again, and *)
(* the clean-up's window never misses a change.                            *)
THEOREM CleanupSuffices == Spec => []CleanupSucceeds
<1>1. IInv => NoStaleTransition
  BY DEF IInv, StaleInv, NoStale, NoStaleTransition
<1>2. IInv => FewChanges
  <2>1. IInv /\ changes = << >> => Len(changes) = 0
    OBVIOUS
  <2>. QED BY <2>1 DEF IInv, ChangesInv, FewChanges
<1>3. IInv => CleanupSucceeds
  BY <1>1, <1>2 DEF CleanupSucceeds
<1>. QED BY <1>3, Invariance, PTL

(* The mode goes round in one direction, no stay is cut short and           *)
(* consolidation is entered only after the executor announced it.          *)
THEOREM ModeGoesRound == Spec => GoesRound
<1>1. IInv /\ [Next]_vars => [ModeStep]_vars
  <2>. SUFFICES ASSUME IInv, Next PROVE ModeStep
    OBVIOUS
  <2>1. CASE NewTick \/ SameTick \/ Propose \/ Select \/ Execute \/ Cleanup
    BY <2>1 DEF ModeStep, NewTick, SameTick, Feed, Propose, Select, Execute, Cleanup
  <2>2. CASE \E d \in todo : Handle(d)
    <3>1. PICK d \in todo : Handle(d)
      BY <2>2
    <3>2. CASE effects = {"enter"} /\ mode = "active" /\ Change("consolidation")
      BY <3>2 DEF ModeStep, NextMode, LeastStay, Change, IInv, TypeOK
    <3>3. CASE /\ effects = {"exit"} /\ mode = "consolidation"
               /\ elapsed >= MinConsolidation /\ Change("recovery")
      BY <3>3 DEF ModeStep, NextMode, LeastStay, Change
    <3>. QED BY <3>1, <3>2, <3>3, HandleActs
  <2>3. CASE EndManager
    <3>1. CASE mode = "consolidation" /\ elapsed >= MaxConsolidation /\ Change("recovery")
      BY <3>1, Limits DEF ModeStep, NextMode, LeastStay, Change, IInv, TypeOK
    <3>2. CASE mode = "recovery" /\ elapsed >= RecoveryTicks /\ Change("active")
      BY <3>2 DEF ModeStep, NextMode, LeastStay, Change
    <3>3. CASE Stay
      BY <3>3 DEF ModeStep, Stay
    <3>. QED BY <2>3, <3>1, <3>2, <3>3 DEF EndManager
  <2>. QED BY <2>1, <2>2, <2>3 DEF Next
<1>. QED BY <1>1, Invariance, PTL DEF Spec, GoesRound

=============================================================================
