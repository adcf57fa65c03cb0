--------------------------- MODULE Stores_proofs ---------------------------
(***************************************************************************)
(* What is proved about the two components that keep their state in files: *)
(* the manifest of the pattern registry, and the stores of the experience   *)
(* pipeline.  They share no variable; a fact speaks of one or the other.    *)
(***************************************************************************)
EXTENDS ExpSMPipeline, PatternRegistry, FiniteSetTheorems, SequenceTheorems, TLAPS

(***************************************************************************)
(* PatternRegistry.  An id keeps its name and its class, for every set of  *)
(* processes, names and first manifests.  The argument: what a process     *)
(* holds is sound and names more than the manifest does, as long as it is  *)
(* alone (AloneInv); an id is relied on only where nothing waits to be     *)
(* saved, so it is in the manifest then, and every manifest moved there    *)
(* later was loaded from its predecessor and extended.                     *)
(***************************************************************************)
Fields == {"patterns", "ids", "next", "semantics", "bulk", "dirty", "phase", "todo"}

\* Names and ids are each other's inverse, below the next number, and every id
\* has a class.
Sound(r) ==
    /\ r.next \in Nat \ {0} /\ DOMAIN r.patterns \subseteq DOMAIN Inferred
    /\ \A name \in DOMAIN r.patterns :
        /\ r.patterns[name] \in 1..(r.next - 1)
        /\ r.ids[r.patterns[name]] = name
    /\ IsInjective(r.patterns)
    /\ DOMAIN r.ids = Range(r.patterns)
    /\ DOMAIN r.semantics = DOMAIN r.ids
    /\ \A i \in DOMAIN r.ids : r.semantics[i].class \in Classes /\ r.semantics[i].tagged

WellFormed(r) ==
    /\ DOMAIN r = Fields
    /\ r.bulk \in BOOLEAN /\ r.dirty \in BOOLEAN
    /\ r.phase \in {"starting", "running", "writing", "moving"}
    /\ r.todo \in Seq(DOMAIN Inferred)
    /\ Sound(r)

\* r has all names and ids of the manifest m, and its classes.
Keeps(r, m) ==
    \A name \in DOMAIN m.patterns :
        /\ name \in DOMAIN r.patterns /\ r.patterns[name] = m.patterns[name]
        /\ r.semantics[m.patterns[name]].class = LoadedSemantics(m)[m.patterns[name]].class

HoldsUsed(m) ==
    \A u \in used :
        /\ m # None
        /\ u[1] \in DOMAIN m.patterns /\ m.patterns[u[1]] = u[2]
        /\ LoadedSemantics(m)[u[2]].class = u[3]

\* What infer_pattern_semantics is asked about.
Inferable(m) == DOMAIN m.patterns \subseteq DOMAIN Inferred \cup {""}

(* Whatever processes run.                                                 *)
SoundInv ==
    /\ DOMAIN registry = Handles /\ DOMAIN opened = Handles /\ overlapped \in BOOLEAN
    /\ manifest # None => Inferable(manifest)
    /\ tmp # None => Inferable(tmp)
    /\ \A h \in Handles : registry[h] # None => WellFormed(registry[h])

(* As long as no two have run at once.                                     *)
AloneInv ==
    ~overlapped =>
        /\ \A g, h \in Handles : registry[g] # None /\ registry[h] # None => g = h
        /\ HoldsUsed(manifest)
        /\ \A h \in Handles : registry[h] # None =>
            LET r == registry[h]
            IN  /\ manifest # None => Valid(manifest) /\ Keeps(r, manifest)
                /\ r.phase = "writing" => opened[h] = "tmp" /\ h \notin mixed
                /\ r.phase = "moving" => tmp = Data(r)
                /\ r.phase = "running" /\ ~r.bulk => ~r.dirty
                /\ ~r.dirty => manifest # None /\ DOMAIN r.patterns \subseteq DOMAIN manifest.patterns

RegistryInv == SoundInv /\ AloneInv

-----------------------------------------------------------------------------
(* What a sound process writes can be read again, with the same classes.   *)
LEMMA DataIsValid ==
    ASSUME RegistryAssumption, NEW r, Sound(r)
    PROVE  /\ Valid(Data(r)) /\ Inferable(Data(r))
           /\ \A i \in DOMAIN r.ids : LoadedSemantics(Data(r))[i].class = r.semantics[i].class
<1>1. \A i \in DOMAIN r.ids : Normalised(r.semantics[i]).class = r.semantics[i].class
  BY DEF Sound, Normalised
<1>2. \A i \in DOMAIN r.semantics : i \in DOMAIN r.ids /\ KnownSemantics(r.semantics[i])
  BY <1>1 DEF Sound, KnownSemantics
<1>3. Valid(Data(r))
  BY <1>2 DEF RegistryAssumption, Valid, Data, Sound
<1>4. Inferable(Data(r))
  BY DEF Inferable, Data, Sound
<1>5. ASSUME NEW i \in DOMAIN r.ids
      PROVE  LoadedSemantics(Data(r))[i].class = r.semantics[i].class
  <2>1. LoadedSemantics(Data(r))[i] = Normalised(r.semantics[i])
    BY DEF LoadedSemantics, Data, Sound
  <2> QED
    BY <1>1, <2>1
<1> QED
  BY <1>3, <1>4, <1>5

(* Nothing is in a file that does not parse.                               *)
LEMMA HalfIsInferable == Inferable(Half)
BY DEF Inferable, Half, Nothing

(* What a process loads is sound and has all that the manifest has.        *)
LEMMA LoadedIsSound ==
    ASSUME RegistryAssumption, manifest # None => Valid(manifest) /\ Inferable(manifest)
    PROVE  /\ WellFormed(Loaded)
           /\ manifest # None => Keeps(Loaded, manifest)
           /\ Loaded.phase = "starting"
           /\ ~Loaded.dirty => /\ manifest # None
                               /\ DOMAIN Loaded.patterns \subseteq DOMAIN manifest.patterns
<1>1. CASE manifest = None
  <2>1. LoadedSemantics([patterns |-> Nothing, ids |-> Nothing, next |-> 1,
                   semantics |-> Nothing]) = Nothing
    BY DEF LoadedSemantics, Nothing
  <2>2. Loaded = [patterns |-> Nothing, ids |-> Nothing, next |-> 1,
                  semantics |-> Nothing, bulk |-> FALSE, dirty |-> TRUE,
                  phase |-> "starting", todo |-> Defaults]
    BY <1>1, <2>1 DEF Loaded
  <2>3. Sound(Loaded)
    BY <2>2 DEF Sound, IsInjective, Range, Nothing
  <2>4. WellFormed(Loaded)
    BY <2>2, <2>3 DEF RegistryAssumption, WellFormed, Fields
  <2> QED
    BY <1>1, <2>2, <2>4
<1>2. CASE manifest # None
  <2>1. Loaded = [patterns |-> manifest.patterns, ids |-> manifest.ids, next |-> manifest.next,
                  semantics |-> LoadedSemantics(manifest), bulk |-> FALSE, dirty |-> FALSE,
                  phase |-> "starting", todo |-> Defaults]
    BY <1>2 DEF Loaded
  <2>2. \A i \in DOMAIN manifest.ids : manifest.ids[i] \in DOMAIN Inferred
    <3> SUFFICES ASSUME NEW i \in DOMAIN manifest.ids
                 PROVE  manifest.ids[i] \in DOMAIN Inferred
      OBVIOUS
    <3>1. PICK name \in DOMAIN manifest.patterns : i = manifest.patterns[name]
      <4>1. DOMAIN manifest.ids = Range(manifest.patterns)
        BY <1>2 DEF Valid
      <4> QED
        BY <4>1 DEF Range
    <3>2. manifest.ids[i] = name /\ name # ""
      BY <1>2, <3>1 DEF Valid
    <3> QED
      BY <1>2, <3>2 DEF Inferable
  <2>3. \A metadata : Normalised(metadata).class \in Classes
    BY DEF RegistryAssumption, Normalised
  <2>4. \A i \in DOMAIN manifest.ids :
            /\ LoadedSemantics(manifest)[i].class \in Classes
            /\ LoadedSemantics(manifest)[i].tagged
    <3> TAKE i \in DOMAIN manifest.ids
    <3>1. CASE i \in DOMAIN manifest.semantics
      BY <1>2, <2>3, <3>1 DEF LoadedSemantics, Valid, KnownSemantics, Normalised
    <3>2. CASE i \notin DOMAIN manifest.semantics
      <4>1. LoadedSemantics(manifest)[i] = [class |-> Inferred[manifest.ids[i]], tagged |-> TRUE]
        BY <3>2 DEF LoadedSemantics
      <4>2. \A name \in DOMAIN Inferred : Inferred[name] \in Classes
        BY DEF RegistryAssumption
      <4> QED
        BY <2>2, <4>1, <4>2
    <3> QED
      BY <3>1, <3>2
  <2>5. DOMAIN LoadedSemantics(manifest) = DOMAIN manifest.ids
    BY DEF LoadedSemantics
  <2>6. Sound(Loaded)
    BY <1>2, <2>1, <2>4, <2>5 DEF Sound, Valid, Inferable
  <2>7. WellFormed(Loaded)
    BY <2>1, <2>6 DEF RegistryAssumption, WellFormed, Fields
  <2>8. Keeps(Loaded, manifest)
    BY <2>1 DEF Keeps
  <2> QED
    BY <1>2, <2>1, <2>7, <2>8
<1> QED
  BY <1>1, <1>2

-----------------------------------------------------------------------------
(* A name gets the next number; those there keep theirs.                   *)
LEMMA RegisteredIsSound ==
    ASSUME RegistryAssumption, NEW r, WellFormed(r), NEW name \in DOMAIN Inferred
    PROVE  /\ WellFormed(Registered(r, name))
           /\ Registered(r, name).phase = r.phase /\ Registered(r, name).bulk = r.bulk
           /\ Registered(r, name).todo = r.todo
           /\ Registered(r, name) = r \/ Registered(r, name).dirty = TRUE
           /\ \A x \in DOMAIN r.patterns :
                /\ x \in DOMAIN Registered(r, name).patterns
                /\ Registered(r, name).patterns[x] = r.patterns[x]
                /\ Registered(r, name).semantics[r.patterns[x]] = r.semantics[r.patterns[x]]
<1>1. CASE name \in DOMAIN r.patterns
  <2>1. Registered(r, name) = r
    BY <1>1 DEF Registered
  <2> QED
    BY <2>1
<1>2. CASE name \notin DOMAIN r.patterns
  <2> DEFINE P == With(r.patterns, name, r.next)
             I == With(r.ids, r.next, name)
             S == With(r.semantics, r.next, [class |-> Inferred[name], tagged |-> TRUE])
             R == Registered(r, name)
  <2>1. \A x \in DOMAIN r.patterns : r.patterns[x] \in DOMAIN r.ids /\ r.patterns[x] # r.next
    BY DEF WellFormed, Sound, Range
  <2>2. r.next \notin DOMAIN r.ids /\ r.next \in Nat
    BY DEF WellFormed, Sound, Range
  <2>3. FreeId(r) = r.next
    BY <2>2 DEF FreeId
  <2>4. /\ DOMAIN R = Fields /\ R.patterns = P /\ R.ids = I /\ R.next = r.next + 1
        /\ R.semantics = S /\ R.bulk = r.bulk /\ R.dirty = TRUE /\ R.phase = r.phase
        /\ R.todo = r.todo
    BY <1>2, <2>3 DEF Registered, WellFormed, Fields
  <2>5. /\ DOMAIN P = DOMAIN r.patterns \cup {name} /\ P[name] = r.next
        /\ \A x \in DOMAIN r.patterns : P[x] = r.patterns[x]
    BY <1>2 DEF With
  <2>6. /\ DOMAIN I = DOMAIN r.ids \cup {r.next} /\ I[r.next] = name
        /\ \A i \in DOMAIN r.ids : I[i] = r.ids[i]
    BY <2>2 DEF With
  <2>7. DOMAIN r.semantics = DOMAIN r.ids
    BY DEF WellFormed, Sound
  <2>8. /\ DOMAIN S = DOMAIN r.ids \cup {r.next}
        /\ S[r.next] = [class |-> Inferred[name], tagged |-> TRUE]
        /\ \A i \in DOMAIN r.ids : S[i] = r.semantics[i]
    BY <2>2, <2>7 DEF With
  <2> HIDE DEF P, I, S, R
  <2>9. /\ R.next \in Nat \ {0} /\ DOMAIN R.patterns \subseteq DOMAIN Inferred
        /\ r.next \in 1..(R.next - 1)
    BY <2>4, <2>5 DEF WellFormed, Sound
  <2>10. ASSUME NEW x \in DOMAIN P
        PROVE  P[x] \in 1..(R.next - 1) /\ I[P[x]] = x
    <3>1. CASE x = name
      BY <3>1, <2>5, <2>6, <2>9
    <3>2. CASE x \in DOMAIN r.patterns
      <4>1. r.patterns[x] \in 1..(r.next - 1) /\ r.ids[r.patterns[x]] = x
        BY <3>2 DEF WellFormed, Sound
      <4>2. r.patterns[x] \in 1..(R.next - 1)
        BY <4>1, <2>2, <2>4
      <4> QED
        BY <3>2, <4>1, <4>2, <2>1, <2>5, <2>6
    <3> QED
      BY <3>1, <3>2, <2>5
  <2>11. IsInjective(P)
    <3>1. \A x, y \in DOMAIN r.patterns : r.patterns[x] = r.patterns[y] => x = y
      BY DEF WellFormed, Sound, IsInjective
    <3>2. \A x, y \in DOMAIN P : P[x] = P[y] => x = y
      BY <3>1, <2>1, <2>5
    <3> QED
      BY <3>2 DEF IsInjective
  <2>12. DOMAIN I = Range(P)
    <3>1. DOMAIN r.ids = {r.patterns[x] : x \in DOMAIN r.patterns}
      BY DEF WellFormed, Sound, Range
    <3>2. DOMAIN I = {P[x] : x \in DOMAIN P}
      BY <3>1, <2>5, <2>6
    <3> QED
      BY <3>2 DEF Range
  <2>13. \A i \in DOMAIN I : S[i].class \in Classes /\ S[i].tagged
    <3>1. Inferred[name] \in Classes
      BY DEF RegistryAssumption
    <3>2. S[r.next].class \in Classes /\ S[r.next].tagged
      BY <2>8, <3>1
    <3>3. \A i \in DOMAIN r.ids : S[i].class \in Classes /\ S[i].tagged
      BY <2>8 DEF WellFormed, Sound
    <3> QED
      BY <3>2, <3>3, <2>6
  <2>14. Sound(R)
    BY <2>4, <2>6, <2>8, <2>9, <2>10, <2>11, <2>12, <2>13 DEF Sound
  <2>15. WellFormed(R)
    BY <2>4, <2>14 DEF WellFormed
  <2>16. \A x \in DOMAIN r.patterns :
            /\ x \in DOMAIN R.patterns /\ R.patterns[x] = r.patterns[x]
            /\ R.semantics[r.patterns[x]] = r.semantics[r.patterns[x]]
    BY <2>1, <2>4, <2>5, <2>8
  <2> QED
    BY <2>4, <2>15, <2>16 DEF R
<1> QED
  BY <1>1, <1>2

(* A process that differs in its progress only.                            *)
LEMMA SameNames ==
    ASSUME NEW r, WellFormed(r), NEW q, DOMAIN q = Fields,
           q.patterns = r.patterns, q.ids = r.ids, q.next = r.next, q.semantics = r.semantics,
           q.bulk \in BOOLEAN, q.dirty \in BOOLEAN, q.phase \in {"starting", "running", "writing", "moving"},
           q.todo \in Seq(DOMAIN Inferred)
    PROVE  WellFormed(q) /\ Data(q) = Data(r) /\ \A m : Keeps(r, m) => Keeps(q, m)
<1>1. Sound(q)
  BY DEF WellFormed, Sound
<1>2. WellFormed(q)
  BY <1>1 DEF WellFormed
<1>3. Data(q) = Data(r)
  BY DEF Data
<1>4. \A m : Keeps(r, m) => Keeps(q, m)
  BY DEF Keeps
<1> QED
  BY <1>2, <1>3, <1>4

-----------------------------------------------------------------------------
(* What a process may become, the manifest left as it is.                  *)
Fits(h, r) ==
    /\ WellFormed(r)
    /\ ~overlapped =>
        /\ \A other \in Handles : registry[other] # None => other = h
        /\ manifest # None => Valid(manifest) /\ Keeps(r, manifest)
        /\ ~r.dirty => manifest # None /\ DOMAIN r.patterns \subseteq DOMAIN manifest.patterns

LEMMA StepOfOne ==
    ASSUME RegistryInv, NEW h \in Handles, NEW r, Fits(h, r),
           registry' = [registry EXCEPT ![h] = r],
           DOMAIN opened' = Handles, tmp' # None => Inferable(tmp)',
           ~overlapped => /\ r.phase = "writing" => opened'[h] = "tmp" /\ h \notin mixed'
                          /\ r.phase = "moving" => tmp' = Data(r)
                          /\ r.phase = "running" /\ ~r.bulk => ~r.dirty,
           UNCHANGED <<manifest, used, overlapped>>
    PROVE  RegistryInv'
<1>1. /\ DOMAIN registry' = Handles /\ registry'[h] = r
      /\ \A g \in Handles \ {h} : registry'[g] = registry[g]
  BY DEF RegistryInv, SoundInv
<1>2. SoundInv'
  <2>1. \A g \in Handles : registry'[g] # None => WellFormed(registry'[g])
    BY <1>1 DEF RegistryInv, SoundInv, Fits
  <2>2. manifest' # None => Inferable(manifest')
    BY DEF RegistryInv, SoundInv
  <2>3. overlapped' \in BOOLEAN
    BY DEF RegistryInv, SoundInv
  <2> QED
    BY <1>1, <2>1, <2>2, <2>3 DEF SoundInv
<1>3. AloneInv'
  <2> SUFFICES ASSUME ~overlapped
               PROVE  AloneInv'
    BY DEF AloneInv
  <2>1. \A g \in Handles : registry'[g] # None => g = h
    BY <1>1 DEF Fits
  <2>2. HoldsUsed(manifest)'
    BY DEF RegistryInv, AloneInv, HoldsUsed, LoadedSemantics
  <2>3. /\ manifest' # None => Valid(manifest') /\ Keeps(r, manifest')
        /\ ~r.dirty => manifest' # None /\ DOMAIN r.patterns \subseteq DOMAIN manifest'.patterns
    BY DEF Fits
  <2> QED
    BY <1>1, <2>1, <2>2, <2>3 DEF AloneInv
<1> QED
  BY <1>2, <1>3 DEF RegistryInv

(* __post_init__ *)
LEMMA StartStep ==
    ASSUME RegistryAssumption, RegistryInv, NEW h \in Handles, Start(h)
    PROVE  RegistryInv'
<1>1. /\ WellFormed(Loaded) /\ Loaded.phase = "starting"
      /\ manifest # None => Keeps(Loaded, manifest)
      /\ ~Loaded.dirty => /\ manifest # None
                          /\ DOMAIN Loaded.patterns \subseteq DOMAIN manifest.patterns
  BY LoadedIsSound DEF Start, RegistryInv, SoundInv
<1>2. CASE overlapped' = overlapped
  <2>1. ~overlapped => \A other \in Handles : registry[other] = None
    BY <1>2 DEF Start, RegistryInv, SoundInv
  <2>2. Fits(h, Loaded)
    BY <1>1, <2>1 DEF Start, Fits
  <2>3. DOMAIN opened' = Handles /\ (tmp' # None => Inferable(tmp)')
    BY DEF Start, files, RegistryInv, SoundInv, Inferable
  <2> QED
    BY <1>1, <1>2, <2>2, <2>3, StepOfOne DEF Start, files
<1>3. CASE overlapped'
  <2>1. AloneInv'
    BY <1>3 DEF AloneInv
  <2>2. /\ DOMAIN registry' = Handles /\ overlapped' \in BOOLEAN
        /\ \A g \in Handles : registry'[g] = registry[g] \/ registry'[g] = Loaded
    BY DEF Start, RegistryInv, SoundInv
  <2>3. SoundInv'
    BY <1>1, <2>2 DEF Start, files, RegistryInv, SoundInv
  <2> QED
    BY <2>1, <2>3 DEF RegistryInv
<1> QED
  BY <1>2, <1>3 DEF Start, RegistryInv, SoundInv

LEMMA AddDefaultStep ==
    ASSUME RegistryAssumption, RegistryInv, NEW h \in Handles, AddDefault(h)
    PROVE  RegistryInv'
<1> DEFINE r == registry[h]
           R == Registered(r, Head(r.todo))
           q == [R EXCEPT !.todo = Tail(r.todo)]
<1>1. WellFormed(r) /\ r.phase = "starting" /\ r.todo # <<>>
  BY DEF AddDefault, RegistryInv, SoundInv
<1>2. Head(r.todo) \in DOMAIN Inferred /\ Tail(r.todo) \in Seq(DOMAIN Inferred)
  <2>1. r.todo \in Seq(DOMAIN Inferred)
    BY <1>1 DEF WellFormed
  <2> QED
    BY <1>1, <2>1, HeadTailProperties
<1> HIDE DEF r
<1>3. /\ WellFormed(R) /\ R.phase = "starting" /\ (R = r \/ R.dirty = TRUE)
      /\ \A m : Keeps(r, m) => Keeps(R, m)
  <2>1. /\ WellFormed(R) /\ R.phase = r.phase /\ (R = r \/ R.dirty = TRUE)
        /\ \A x \in DOMAIN r.patterns :
            /\ x \in DOMAIN R.patterns /\ R.patterns[x] = r.patterns[x]
            /\ R.semantics[r.patterns[x]] = r.semantics[r.patterns[x]]
    BY <1>1, <1>2, RegisteredIsSound
  <2> HIDE DEF R
  <2>2. \A m : Keeps(r, m) => Keeps(R, m)
    BY <2>1 DEF Keeps
  <2> QED
    BY <1>1, <2>1, <2>2
<1> HIDE DEF R
<1>4. /\ DOMAIN q = Fields /\ q.patterns = R.patterns /\ q.ids = R.ids /\ q.next = R.next
      /\ q.semantics = R.semantics /\ q.bulk = R.bulk /\ q.dirty = R.dirty
      /\ q.phase = R.phase /\ q.todo = Tail(r.todo)
  BY <1>3 DEF WellFormed, Fields
<1>5. WellFormed(q) /\ \A m : Keeps(R, m) => Keeps(q, m)
  <2>1. q.bulk \in BOOLEAN /\ q.dirty \in BOOLEAN /\ q.phase \in {"starting", "running", "writing", "moving"}
    BY <1>3, <1>4 DEF WellFormed
  <2> HIDE DEF q
  <2> QED
    BY <1>2, <1>3, <1>4, <2>1, SameNames
<1>6. Fits(h, q)
  <2>1. ASSUME ~overlapped
        PROVE  /\ \A other \in Handles : registry[other] # None => other = h
               /\ manifest # None => Valid(manifest) /\ Keeps(r, manifest)
               /\ ~r.dirty => /\ manifest # None
                              /\ DOMAIN r.patterns \subseteq DOMAIN manifest.patterns
    BY <2>1 DEF AddDefault, RegistryInv, AloneInv, r
  <2> QED
    BY <1>3, <1>4, <1>5, <2>1 DEF Fits
<1>7. registry' = [registry EXCEPT ![h] = q]
  BY DEF AddDefault, r, R
<1>8. DOMAIN opened' = Handles /\ (tmp' # None => Inferable(tmp)')
  BY DEF AddDefault, files, RegistryInv, SoundInv, Inferable
<1> HIDE DEF q
<1> QED
  BY <1>3, <1>4, <1>6, <1>7, <1>8, StepOfOne DEF AddDefault, files

(* A process that fits may save, or run on when nothing is to be saved.    *)
LEMMA SaveStep ==
    ASSUME RegistryAssumption, RegistryInv, NEW h \in Handles, NEW r, Fits(h, r), WithSave(h, r),
           UNCHANGED <<manifest, used, overlapped>>
    PROVE  RegistryInv'
<1>1. WellFormed(r) /\ r.bulk \in BOOLEAN /\ r.dirty \in BOOLEAN /\ r.todo \in Seq(DOMAIN Inferred)
  BY DEF Fits, WellFormed
<1>2. ASSUME NEW phase \in {"running", "writing"}
      PROVE  LET q == [r EXCEPT !.phase = phase]
             IN  Fits(h, q) /\ q.phase = phase /\ q.bulk = r.bulk /\ q.dirty = r.dirty
  <2> DEFINE q == [r EXCEPT !.phase = phase]
  <2>1. /\ DOMAIN q = Fields /\ q.patterns = r.patterns /\ q.ids = r.ids /\ q.next = r.next
        /\ q.semantics = r.semantics /\ q.bulk = r.bulk /\ q.dirty = r.dirty
        /\ q.phase = phase /\ q.todo = r.todo
    BY <1>1 DEF WellFormed, Fields
  <2> HIDE DEF q
  <2>2. WellFormed(q) /\ \A m : Keeps(r, m) => Keeps(q, m)
    BY <1>1, <2>1, SameNames
  <2>3. Fits(h, q)
    BY <2>1, <2>2 DEF Fits
  <2> QED
    BY <2>1, <2>2, <2>3 DEF q
<1>3. CASE SavesNow(r)
  <2> DEFINE q == [r EXCEPT !.phase = "writing"]
             others == {g \in Handles \ {h} : registry[g] # None /\ opened[g] = "tmp"}
  <2>1. Fits(h, q) /\ q.phase = "writing"
    BY <1>2
  <2>2. /\ tmp' = Half /\ registry' = [registry EXCEPT ![h] = q]
        /\ opened' = [opened EXCEPT ![h] = "tmp"]
        /\ mixed' = IF others = {} THEN mixed \ {h} ELSE mixed \cup others \cup {h}
    BY <1>3 DEF WithSave
  <2>3. Inferable(tmp)'
    BY <2>2, HalfIsInferable DEF Inferable
  <2>4. DOMAIN opened' = Handles /\ opened'[h] = "tmp"
    BY <2>2 DEF RegistryInv, SoundInv
  <2>5. ~overlapped => h \notin mixed'
    BY <2>1, <2>2 DEF Fits
  <2> HIDE DEF q
  <2> QED
    BY <2>1, <2>2, <2>3, <2>4, <2>5, StepOfOne
<1>4. CASE ~SavesNow(r)
  <2> DEFINE q == [r EXCEPT !.phase = "running"]
  <2>1. Fits(h, q) /\ q.phase = "running" /\ q.bulk = r.bulk /\ q.dirty = r.dirty
    BY <1>2
  <2>2. UNCHANGED <<tmp, opened, mixed>> /\ registry' = [registry EXCEPT ![h] = q]
    BY <1>4 DEF WithSave
  <2>3. DOMAIN opened' = Handles /\ (tmp' # None => Inferable(tmp)')
    BY <2>2 DEF RegistryInv, SoundInv, Inferable
  <2>4. ~q.bulk => ~q.dirty
    BY <1>4, <2>1 DEF SavesNow
  <2> HIDE DEF q
  <2> QED
    BY <2>1, <2>2, <2>3, <2>4, StepOfOne
<1> QED
  BY <1>3, <1>4

(* A process as it is fits.                                                *)
LEMMA RunningFits ==
    ASSUME RegistryInv, NEW h \in Handles, registry[h] # None
    PROVE  Fits(h, registry[h])
BY DEF RegistryInv, SoundInv, AloneInv, Fits

LEMMA ReadyStep ==
    ASSUME RegistryAssumption, RegistryInv, NEW h \in Handles, Ready(h)
    PROVE  RegistryInv'
<1>1. Fits(h, registry[h])
  BY RunningFits DEF Ready
<1> QED
  BY <1>1, SaveStep DEF Ready

LEMMA RegisterStep ==
    ASSUME RegistryAssumption, RegistryInv, NEW h \in Handles, NEW name \in Met, Register(h, name)
    PROVE  RegistryInv'
<1> DEFINE r == registry[h]
           R == Registered(r, name)
<1>1. Fits(h, r)
  BY RunningFits DEF Register, Running
<1>2. name \in DOMAIN Inferred
  BY DEF RegistryAssumption
<1> HIDE DEF r
<1>3. /\ WellFormed(R) /\ (R = r \/ R.dirty = TRUE)
      /\ \A x \in DOMAIN r.patterns :
            /\ x \in DOMAIN R.patterns /\ R.patterns[x] = r.patterns[x]
            /\ R.semantics[r.patterns[x]] = r.semantics[r.patterns[x]]
  <2>1. WellFormed(r)
    BY <1>1 DEF Fits
  <2> QED
    BY <1>2, <2>1, RegisteredIsSound
<1> HIDE DEF R
<1>4. \A m : Keeps(r, m) => Keeps(R, m)
  BY <1>3 DEF Keeps
<1>5. Fits(h, R)
  BY <1>1, <1>3, <1>4 DEF Fits
<1>6. WithSave(h, R) /\ UNCHANGED <<manifest, used, overlapped>>
  BY DEF Register, r, R
<1> QED
  BY <1>5, <1>6, SaveStep

LEMMA EndBulkStep ==
    ASSUME RegistryAssumption, RegistryInv, NEW h \in Handles, EndBulk(h)
    PROVE  RegistryInv'
<1> DEFINE r == registry[h]
           q == [r EXCEPT !.bulk = FALSE]
<1>1. Fits(h, r)
  BY RunningFits DEF EndBulk, Running
<1> HIDE DEF r
<1>2. /\ DOMAIN q = Fields /\ q.patterns = r.patterns /\ q.ids = r.ids /\ q.next = r.next
      /\ q.semantics = r.semantics /\ q.bulk = FALSE /\ q.dirty = r.dirty
      /\ q.phase = r.phase /\ q.todo = r.todo
  BY <1>1 DEF Fits, WellFormed, Fields
<1>3. WithSave(h, q) /\ UNCHANGED <<manifest, used, overlapped>>
  BY DEF EndBulk, r
<1> HIDE DEF q
<1>4. /\ r.dirty \in BOOLEAN /\ r.phase \in {"starting", "running", "writing", "moving"}
      /\ r.todo \in Seq(DOMAIN Inferred) /\ WellFormed(r)
  BY <1>1 DEF Fits, WellFormed
<1>5. WellFormed(q) /\ \A m : Keeps(r, m) => Keeps(q, m)
  BY <1>2, <1>4, SameNames
<1>6. Fits(h, q)
  BY <1>1, <1>2, <1>5 DEF Fits
<1> QED
  BY <1>3, <1>6, SaveStep

LEMMA BeginBulkStep ==
    ASSUME RegistryInv, NEW h \in Handles, BeginBulk(h)
    PROVE  RegistryInv'
<1> DEFINE r == registry[h]
           q == [r EXCEPT !.bulk = TRUE]
<1>1. Fits(h, r) /\ r.phase = "running"
  BY RunningFits DEF BeginBulk, Running
<1>2. registry' = [registry EXCEPT ![h] = q]
  BY DEF BeginBulk
<1> HIDE DEF r
<1>3. /\ DOMAIN q = Fields /\ q.patterns = r.patterns /\ q.ids = r.ids /\ q.next = r.next
      /\ q.semantics = r.semantics /\ q.bulk = TRUE /\ q.dirty = r.dirty
      /\ q.phase = r.phase /\ q.todo = r.todo
  BY <1>1 DEF Fits, WellFormed, Fields
<1> HIDE DEF q
<1>4. /\ r.dirty \in BOOLEAN /\ r.todo \in Seq(DOMAIN Inferred) /\ WellFormed(r)
  BY <1>1 DEF Fits, WellFormed
<1>5. WellFormed(q) /\ \A m : Keeps(r, m) => Keeps(q, m)
  BY <1>1, <1>3, <1>4, SameNames
<1>6. Fits(h, q)
  BY <1>1, <1>3, <1>5 DEF Fits
<1>7. DOMAIN opened' = Handles /\ (tmp' # None => Inferable(tmp)')
  BY DEF BeginBulk, files, RegistryInv, SoundInv, Inferable
<1> QED
  BY <1>1, <1>2, <1>3, <1>6, <1>7, StepOfOne DEF BeginBulk, files

(* A process ends.                                                         *)
LEMMA OneLess ==
    ASSUME RegistryInv, NEW h \in Handles, registry' = [registry EXCEPT ![h] = None],
           opened' \in {opened, [opened EXCEPT ![h] = "none"]}, mixed' \subseteq mixed,
           UNCHANGED <<manifest, tmp, used, overlapped>>
    PROVE  RegistryInv'
<1>1. /\ DOMAIN registry' = Handles /\ DOMAIN opened' = Handles
      /\ \A g \in Handles : registry'[g] # None =>
            registry'[g] = registry[g] /\ registry[g] # None /\ g # h /\ opened'[g] = opened[g]
  BY DEF RegistryInv, SoundInv
<1>2. SoundInv'
  BY <1>1 DEF RegistryInv, SoundInv
<1>3. HoldsUsed(manifest)' <=> HoldsUsed(manifest)
  BY DEF HoldsUsed, LoadedSemantics
<1>4. AloneInv'
  BY <1>1, <1>3 DEF RegistryInv, AloneInv
<1> QED
  BY <1>2, <1>4 DEF RegistryInv

(* A part of the file is written: alone, the temporary file does not parse. *)
LEMMA FillPartStep ==
    ASSUME RegistryInv, NEW h \in Handles, FillPart(h)
    PROVE  RegistryInv'
<1>1. /\ tmp' \in {tmp, Half} /\ manifest' \in {manifest, Half}
      /\ UNCHANGED <<opened, mixed, registry, used, overlapped>>
  BY DEF FillPart, Written
<1>2. SoundInv'
  <2>1. (tmp' # None => Inferable(tmp')) /\ (manifest' # None => Inferable(manifest'))
    BY <1>1, HalfIsInferable DEF RegistryInv, SoundInv
  <2> QED
    BY <1>1, <2>1 DEF RegistryInv, SoundInv
<1>3. ASSUME ~overlapped
      PROVE  AloneInv'
  <2>1. /\ registry[h] # None /\ registry[h].phase = "writing" /\ opened[h] = "tmp"
        /\ \A g \in Handles : registry[g] # None => g = h
    BY <1>3 DEF FillPart, Written, RegistryInv, AloneInv
  <2>2. manifest' = manifest
    BY <2>1 DEF FillPart, Written
  <2>3. HoldsUsed(manifest)' <=> HoldsUsed(manifest)
    BY <1>1, <2>2 DEF HoldsUsed, LoadedSemantics
  <2> QED
    BY <1>1, <1>3, <2>1, <2>2, <2>3 DEF RegistryInv, AloneInv
<1> QED
  BY <1>1, <1>2, <1>3 DEF RegistryInv, AloneInv

(* The file is written: alone, it is the temporary one and all of it.      *)
LEMMA FillStep ==
    ASSUME RegistryAssumption, RegistryInv, NEW h \in Handles, Fill(h)
    PROVE  RegistryInv'
<1> DEFINE r == registry[h]
           q == [r EXCEPT !.phase = "moving"]
<1>1. /\ Fits(h, r) /\ r.phase = "writing"
      /\ ~overlapped => opened[h] = "tmp" /\ h \notin mixed
  BY RunningFits DEF Fill, Written, RegistryInv, AloneInv
<1>2. /\ registry' = [registry EXCEPT ![h] = q] /\ DOMAIN opened' = Handles
      /\ UNCHANGED <<used, overlapped>>
      /\ tmp' \in {tmp, Data(r), Half} /\ manifest' \in {manifest, Data(r), Half}
      /\ ~overlapped => tmp' = Data(r) /\ manifest' = manifest
  BY <1>1 DEF Fill, Written, RegistryInv, SoundInv
<1> HIDE DEF r
<1>3. /\ DOMAIN q = Fields /\ q.patterns = r.patterns /\ q.ids = r.ids /\ q.next = r.next
      /\ q.semantics = r.semantics /\ q.bulk = r.bulk /\ q.dirty = r.dirty
      /\ q.phase = "moving" /\ q.todo = r.todo
  BY <1>1 DEF Fits, WellFormed, Fields
<1> HIDE DEF q
<1>4. r.bulk \in BOOLEAN /\ r.dirty \in BOOLEAN /\ r.todo \in Seq(DOMAIN Inferred) /\ WellFormed(r)
  BY <1>1 DEF Fits, WellFormed
<1>5. WellFormed(q) /\ Data(q) = Data(r) /\ \A m : Keeps(r, m) => Keeps(q, m)
  BY <1>3, <1>4, SameNames
<1>6. Inferable(Data(r))
  BY <1>4, DataIsValid DEF WellFormed
<1>7. (tmp' # None => Inferable(tmp')) /\ (manifest' # None => Inferable(manifest'))
  BY <1>2, <1>6, HalfIsInferable DEF RegistryInv, SoundInv
<1>8. CASE overlapped
  <2>1. /\ DOMAIN registry' = Handles /\ overlapped' \in BOOLEAN
        /\ \A g \in Handles : registry'[g] # None => WellFormed(registry'[g])
    BY <1>2, <1>5 DEF RegistryInv, SoundInv
  <2> QED
    BY <1>2, <1>7, <1>8, <2>1 DEF RegistryInv, SoundInv, AloneInv
<1>9. CASE ~overlapped
  <2>1. Fits(h, q)
    BY <1>1, <1>3, <1>5 DEF Fits
  <2>2. tmp' # None => Inferable(tmp)'
    BY <1>7 DEF Inferable
  <2> QED
    BY <1>2, <1>3, <1>5, <1>9, <2>1, <2>2, StepOfOne
<1> QED
  BY <1>8, <1>9 DEF RegistryInv, SoundInv

(* The manifest becomes what the process had when it wrote the temporary   *)
(* file; alone, that is what it has.                                       *)
LEMMA MoveStep ==
    ASSUME RegistryAssumption, RegistryInv, NEW h \in Handles, Move(h)
    PROVE  RegistryInv'
<1> DEFINE r == registry[h]
           q == [r EXCEPT !.phase = "running", !.dirty = FALSE]
<1>1. Fits(h, r) /\ r.phase = "moving" /\ (~overlapped => tmp = Data(r))
  BY RunningFits DEF Move, RegistryInv, AloneInv
<1>2. CASE tmp = None
  <2>1. /\ registry' = [registry EXCEPT ![h] = None]
        /\ UNCHANGED <<manifest, tmp, opened, mixed, used, overlapped>>
    BY <1>2 DEF Move, files
  <2> QED
    BY <2>1, OneLess
<1>3. CASE tmp # None
  <2>1. manifest' = tmp /\ tmp' = None /\ used' = used /\ overlapped' = overlapped
    BY <1>3 DEF Move
  <2>2. /\ DOMAIN registry' = Handles /\ DOMAIN opened' = Handles /\ registry'[h] = q
        /\ \A g \in Handles \ {h} : registry'[g] = registry[g]
    BY <1>3 DEF Move, RegistryInv, SoundInv
  <2> HIDE DEF r
  <2>3. /\ DOMAIN q = Fields /\ q.patterns = r.patterns /\ q.ids = r.ids /\ q.next = r.next
        /\ q.semantics = r.semantics /\ q.bulk = r.bulk /\ q.dirty = FALSE
        /\ q.phase = "running" /\ q.todo = r.todo
    BY <1>1 DEF Fits, WellFormed, Fields
  <2> HIDE DEF q
  <2>4. r.bulk \in BOOLEAN /\ r.todo \in Seq(DOMAIN Inferred) /\ WellFormed(r) /\ Sound(r)
    BY <1>1 DEF Fits, WellFormed
  <2>5. WellFormed(q) /\ Data(q) = Data(r)
    BY <2>3, <2>4, SameNames
  <2>6. SoundInv'
    <3>1. Inferable(tmp)
      BY <1>3 DEF RegistryInv, SoundInv
    <3>2. Inferable(manifest')
      BY <2>1, <3>1
    <3>3. \A g \in Handles : registry'[g] # None => WellFormed(registry'[g])
      BY <2>2, <2>5 DEF RegistryInv, SoundInv
    <3>4. overlapped' \in BOOLEAN
      BY <2>1 DEF RegistryInv, SoundInv
    <3> QED
      BY <2>1, <2>2, <3>2, <3>3, <3>4 DEF SoundInv
  <2>7. ASSUME ~overlapped
        PROVE  AloneInv'
    <3>1. manifest' = Data(r) /\ manifest' # None
      BY <1>1, <1>3, <2>1, <2>7
    <3>2. \A g \in Handles : registry'[g] # None => g = h
      BY <1>1, <2>2, <2>7 DEF Fits
    <3>3. \A x \in DOMAIN r.patterns :
              LoadedSemantics(Data(r))[r.patterns[x]].class = r.semantics[r.patterns[x]].class
      <4>1. \A x \in DOMAIN r.patterns : r.patterns[x] \in DOMAIN r.ids
        BY <2>4 DEF Sound, Range
      <4> QED
        BY <2>4, <4>1, DataIsValid
    <3>4. Data(r).patterns = r.patterns
      BY DEF Data
    <3>5. HoldsUsed(Data(r))
      <4> SUFFICES ASSUME NEW u \in used
                   PROVE  /\ u[1] \in DOMAIN r.patterns /\ r.patterns[u[1]] = u[2]
                          /\ LoadedSemantics(Data(r))[u[2]].class = u[3]
        BY <3>1, <3>4 DEF HoldsUsed
      <4>1. /\ manifest # None
            /\ u[1] \in DOMAIN manifest.patterns /\ manifest.patterns[u[1]] = u[2]
            /\ LoadedSemantics(manifest)[u[2]].class = u[3]
        BY <2>7 DEF RegistryInv, AloneInv, HoldsUsed
      <4>2. /\ u[1] \in DOMAIN r.patterns /\ r.patterns[u[1]] = u[2]
            /\ r.semantics[u[2]].class = u[3]
        BY <1>1, <2>7, <4>1 DEF Fits, Keeps
      <4> QED
        BY <3>3, <4>2
    <3>6. HoldsUsed(manifest)'
      BY <2>1, <3>1, <3>5 DEF HoldsUsed, LoadedSemantics
    <3>7. Keeps(q, Data(r))
      BY <2>3, <3>3, <3>4 DEF Keeps
    <3>8. Valid(manifest') /\ Keeps(q, manifest') /\ DOMAIN q.patterns \subseteq DOMAIN manifest'.patterns
      <4>1. Valid(Data(r))
        BY <2>4, DataIsValid
      <4> QED
        BY <2>3, <3>1, <3>4, <3>7, <4>1
    <3> QED
      BY <2>2, <2>3, <3>1, <3>2, <3>6, <3>8 DEF AloneInv
  <2>8. AloneInv'
    BY <2>1, <2>7 DEF AloneInv
  <2> QED
    BY <2>6, <2>8 DEF RegistryInv
<1> QED
  BY <1>2, <1>3

LEMMA StopStep ==
    ASSUME RegistryInv, NEW h \in Handles, Stop(h)
    PROVE  RegistryInv'
<1>1. /\ registry' = [registry EXCEPT ![h] = None] /\ mixed' \subseteq mixed
      /\ opened' = [opened EXCEPT ![h] = "none"]
      /\ UNCHANGED <<manifest, tmp, used, overlapped>>
  BY DEF Stop
<1> QED
  BY <1>1, OneLess

(* What a memory file relies on is on disk already.                        *)
LEMMA UseIdStep ==
    ASSUME RegistryInv, NEW h \in Handles, NEW name \in Met, UseId(h, name)
    PROVE  RegistryInv'
<1> DEFINE r == registry[h]
           id == r.patterns[name]
<1>1. UNCHANGED <<manifest, tmp, opened, mixed, registry, overlapped>>
  BY DEF UseId, files
<1>2. SoundInv'
  BY <1>1 DEF RegistryInv, SoundInv
<1>3. ASSUME ~overlapped
      PROVE  HoldsUsed(manifest)'
  <2>1. Fits(h, r) /\ ~r.dirty
    BY <1>3, RunningFits DEF UseId, Running, RegistryInv, AloneInv
  <2>2. name \in DOMAIN r.patterns /\ used' = used \cup {<<name, id, r.semantics[id].class>>}
    BY DEF UseId
  <2> HIDE DEF r
  <2>3. manifest # None /\ name \in DOMAIN manifest.patterns /\ Keeps(r, manifest)
    BY <1>3, <2>1, <2>2 DEF Fits
  <2>4. manifest.patterns[name] = id /\ LoadedSemantics(manifest)[id].class = r.semantics[id].class
    BY <2>3 DEF Keeps
  <2> HIDE DEF id
  <2>5. \A u \in used' :
            /\ manifest # None
            /\ u[1] \in DOMAIN manifest.patterns /\ manifest.patterns[u[1]] = u[2]
            /\ LoadedSemantics(manifest)[u[2]].class = u[3]
    BY <1>3, <2>2, <2>3, <2>4 DEF RegistryInv, AloneInv, HoldsUsed
  <2> QED
    BY <1>1, <2>5 DEF HoldsUsed, LoadedSemantics
<1>4. AloneInv'
  BY <1>1, <1>3 DEF RegistryInv, AloneInv
<1> QED
  BY <1>2, <1>4 DEF RegistryInv

-----------------------------------------------------------------------------
LEMMA RegistryStarts == ASSUME RegistryAssumption PROVE RegistryInit => RegistryInv
<1> SUFFICES ASSUME RegistryInit PROVE RegistryInv
  OBVIOUS
<1>1. manifest # None => Inferable(manifest)
  BY DEF RegistryAssumption, RegistryInit, Inferable
<1>2. SoundInv
  BY <1>1 DEF RegistryInit, SoundInv
<1>3. AloneInv
  BY DEF RegistryInit, AloneInv, HoldsUsed
<1> QED
  BY <1>2, <1>3 DEF RegistryInv

LEMMA RegistryGoesOn == ASSUME RegistryAssumption PROVE RegistryInv /\ [RegistryNext]_registryVars => RegistryInv'
<1> SUFFICES ASSUME RegistryInv, [RegistryNext]_registryVars PROVE RegistryInv'
  OBVIOUS
<1>1. CASE UNCHANGED registryVars
  <2>1. UNCHANGED <<manifest, tmp, opened, mixed, registry, used, overlapped>>
    BY <1>1 DEF registryVars
  <2>2. SoundInv'
    BY <2>1 DEF RegistryInv, SoundInv
  <2>3. HoldsUsed(manifest)' <=> HoldsUsed(manifest)
    BY <2>1 DEF HoldsUsed, LoadedSemantics
  <2>4. AloneInv'
    BY <2>1, <2>3 DEF RegistryInv, AloneInv
  <2> QED
    BY <2>2, <2>4 DEF RegistryInv
<1>2. ASSUME NEW h \in Handles, Start(h) PROVE RegistryInv'
  BY <1>2, StartStep
<1>3. ASSUME NEW h \in Handles, AddDefault(h) PROVE RegistryInv'
  BY <1>3, AddDefaultStep
<1>4. ASSUME NEW h \in Handles, Ready(h) PROVE RegistryInv'
  BY <1>4, ReadyStep
<1>5. ASSUME NEW h \in Handles, Move(h) PROVE RegistryInv'
  BY <1>5, MoveStep
<1>6. ASSUME NEW h \in Handles, BeginBulk(h) PROVE RegistryInv'
  BY <1>6, BeginBulkStep
<1>7. ASSUME NEW h \in Handles, EndBulk(h) PROVE RegistryInv'
  BY <1>7, EndBulkStep
<1>8. ASSUME NEW h \in Handles, Stop(h) PROVE RegistryInv'
  BY <1>8, StopStep
<1>9. ASSUME NEW h \in Handles, NEW name \in Met, Register(h, name) PROVE RegistryInv'
  BY <1>9, RegisterStep
<1>10. ASSUME NEW h \in Handles, NEW name \in Met, UseId(h, name) PROVE RegistryInv'
  BY <1>10, UseIdStep
<1>11. ASSUME NEW h \in Handles, FillPart(h) PROVE RegistryInv'
  BY <1>11, FillPartStep
<1>12. ASSUME NEW h \in Handles, Fill(h) PROVE RegistryInv'
  BY <1>12, FillStep
<1> QED
  BY <1>1, <1>2, <1>3, <1>4, <1>5, <1>6, <1>7, <1>8, <1>9, <1>10, <1>11, <1>12 DEF RegistryNext

LEMMA InvariantMeans == ASSUME RegistryAssumption PROVE RegistryInv => IdsKeepTheirNames
<1> SUFFICES ASSUME RegistryInv PROVE IdsKeepTheirNames
  OBVIOUS
<1>1. \A h \in Handles : registry[h] # None => Valid(Data(registry[h]))
  BY DataIsValid DEF RegistryInv, SoundInv, WellFormed
<1>2. ~overlapped =>
        /\ HoldsUsed(manifest)
        /\ manifest # None /\ (\E h \in Handles : registry[h] # None) => Valid(manifest)
  BY DEF RegistryInv, AloneInv
<1> QED
  BY <1>1, <1>2 DEF IdsKeepTheirNames, HoldsUsed

\* As long as no two processes were on the manifest at once, an id means what it
\* meant when a memory file was written with it, whatever crashed since, in the
\* middle of a save too, and nothing runs on a manifest that cannot be read
\* again; and what a process has to save could be read again in any case.
THEOREM IdsMeanTheSame == ASSUME RegistryAssumption PROVE RegistrySpec => []IdsKeepTheirNames
<1>1. RegistrySpec => []RegistryInv
  BY RegistryStarts, RegistryGoesOn, PTL DEF RegistrySpec
<1> QED
  BY <1>1, InvariantMeans, PTL

(***************************************************************************)
(* ExpSMPipeline, for every set of signatures and every value of the       *)
(* bounds: the type invariant; the invariants that tie the two store files *)
(* together; then that evidence is counted once and commits are earned by  *)
(* it, that updates are real and end, and that the chain implements        *)
(* ExperienceMemory.                                                       *)
(***************************************************************************)
USE DEF At, Return, GoTo, Present

-----------------------------------------------------------------------------
(* The operators on cards return cards.                                    *)

\* A new card, and a card after a merge, an observation of a committed card,
\* a review or a writer's change, has the fields and ranges of a draft.
LEMMA NewDraftType ==
  ASSUME NEW r \in Review, NEW q \in Quality
  PROVE  NewDraft(r, q) \in Draft
BY DEF NewDraft, Draft, Review, Status, ReviewableStatus, UpdateStatus

LEMMA MergeDraftType ==
  ASSUME NEW d \in Draft, NEW r \in Review, NEW q \in Quality
  PROVE  MergeDraft(d, r, q) \in Draft
<1> DEFINE st == IF d.status \in FinalStatus THEN d.status ELSE "draft_pending_commit"
<1>1. st \in Status
  BY DEF Status, FinalStatus, ReviewableStatus
<1>2. r.id \in ReviewId /\ d.seen + 1 \in Nat /\ d.sources \cup {r.id} \in SUBSET ReviewId
  BY DEF Draft, Review
<1>3. MergeDraft(d, r, q) = [d EXCEPT !.quality = q, !.seen = d.seen + 1, !.source = r.id,
                                      !.sources = d.sources \cup {r.id}, !.status = st]
  BY DEF MergeDraft
<1> HIDE DEF st
<1> QED
  BY <1>1, <1>2, <1>3 DEF Draft

LEMMA ObserveCommittedType ==
  ASSUME NEW d \in Draft, NEW r \in Review, NEW g \in BOOLEAN
  PROVE  ObserveCommitted(d, r, g) \in Draft
<1>1. d.quality \in Quality
  BY DEF Draft
<1>2. MergeDraft(d, r, d.quality) \in Draft
  BY <1>1, MergeDraftType
<1> DEFINE m == MergeDraft(d, r, d.quality)
           sn == IF d.snap = 0 THEN d.seen ELSE d.snap
           pe == d.applied = 0
           up == IF d.applied = 0 THEN m.update ELSE "updated_in_expsm"
<1>3. sn \in Nat /\ pe \in BOOLEAN /\ m.post + 1 \in Nat /\ up \in UpdateStatus
  BY <1>2 DEF Draft, UpdateStatus
<1>4. ObserveCommitted(d, r, g) =
        [m EXCEPT !.snap = sn, !.post = m.post + 1, !.gain = g, !.pending = pe, !.update = up]
  BY DEF ObserveCommitted
<1> HIDE DEF m, sn, pe, up
<1> QED
  BY <1>2, <1>3, <1>4 DEF Draft, m

LEMMA ApplyReviewType ==
  ASSUME NEW d \in Draft, NEW i \in Nat
  PROVE  ApplyReview(d, i) \in Draft
BY DEF ApplyReview, UpdateVerdict, Draft, UpdateStatus

LEMMA CommitReviewType ==
  ASSUME NEW d \in Draft, NEW s
  PROVE  [d EXCEPT !.status = CommitVerdict(s, d)] \in Draft
<1>1. CommitVerdict(s, d) \in Status
  BY DEF CommitVerdict, QualityDecision, Status, FinalStatus, ReviewableStatus
<1> QED
  BY <1>1 DEF Draft

LEMMA WriterChangeTypes ==
  ASSUME NEW d \in Draft, NEW i \in Nat
  PROVE  /\ MarkCommitted(d, i) \in Draft
         /\ Repaired(d) \in Draft
         /\ MarkUpdated(d) \in Draft
BY DEF MarkCommitted, Repaired, MarkUpdated, Draft, Status, FinalStatus, UpdateStatus

\* Handling a review leaves a draft store.
LEMMA AfterReviewType ==
  ASSUME drafts \in DraftStore, NEW r \in Review
  PROVE  AfterReview(r) \subseteq DraftStore
<1> DEFINE d == drafts[r.sig]
           put(x) == [drafts EXCEPT ![r.sig] = x]
<1>1. r.sig \in Sig /\ d \in Draft \cup {NoDraft}
  BY DEF Review, DraftStore
<1>2. ASSUME NEW x \in Draft PROVE put(x) \in DraftStore
  BY <1>1, <1>2 DEF DraftStore
<1>3. \A q \in Quality : put(NewDraft(r, q)) \in DraftStore
  BY <1>2, NewDraftType
<1>4. d # NoDraft => \A g \in BOOLEAN : put(ObserveCommitted(d, r, g)) \in DraftStore
  BY <1>1, <1>2, ObserveCommittedType
<1>5. d # NoDraft => \A q \in Quality : put(MergeDraft(d, r, q)) \in DraftStore
  BY <1>1, <1>2, MergeDraftType
<1> HIDE DEF put
<1>6. \A q \in {"fair", "strong"} : q \in Quality
  BY DEF Quality
<1> QED
  BY <1>3, <1>4, <1>5, <1>6 DEF AfterReview, put

-----------------------------------------------------------------------------
(* Type correctness.                                                       *)

\* The type of the copies of a commit or update writer.
Work == [drafts : DraftStore, expsm : Seq(Record), todo : SUBSET Sig,
         draftChanged : BOOLEAN, expsmChanged : BOOLEAN]

LEMMA NewRecordType ==
  ASSUME NEW s \in Sig, NEW n \in Nat
  PROVE  NewRecord(s, n) \in Record
BY DEF NewRecord, Record

LEMMA UpdateRecordType ==
  ASSUME NEW r \in Record, NEW d \in Draft
  PROVE  UpdateRecord(r, d) \in Record
<1>1. d.seen \in Nat /\ r.updates + 1 \in Nat
  BY DEF Record, Draft
<1> QED
  BY <1>1 DEF UpdateRecord, Record

LEMMA NoWorkType == NoWork \in Work /\ EmptyDraftStore \in DraftStore
BY DEF NoWork, Work, EmptyDraftStore, DraftStore

LEMMA InitTyped == Init => TypeOK
<1> SUFFICES ASSUME Init PROVE TypeOK
  OBVIOUS
<1>1. expsm \in Seq(Record)
  <2>1. CASE expsm = <<>>
    BY <2>1
  <2>2. CASE \E s \in Sig : expsm = <<NewRecord(s, 1)>>
    <3>1. PICK s \in Sig : expsm = <<NewRecord(s, 1)>>
      BY <2>2
    <3>2. NewRecord(s, 1) \in Record
      BY NewRecordType
    <3> HIDE DEF NewRecord
    <3> QED
      BY <3>1, <3>2
  <2> QED
    BY <2>1, <2>2 DEF Init
<1>2. work \in Work /\ drafts \in DraftStore
  BY NoWorkType DEF Init
<1>3. 1 \in 1 .. MaxReviews + 1 /\ 0 \in 0 .. MaxRestarts /\ 0 \in 0 .. MaxFaults
  BY PipelineAssumption
<1>4. handler \in Handlers /\ step \in Steps /\ nextUpdateReview \in Nat \ {0}
  BY DEF Init, Handlers, Steps
<1>5. readable \in BOOLEAN /\ consolidated \in BOOLEAN /\ reloadDue \in BOOLEAN
  BY DEF Init
<1>6. /\ queue \subseteq Review /\ reviews \subseteq Review
      /\ written \subseteq ReviewId /\ gateReviewed \subseteq Sig \X Nat \X Status
      /\ committedIds \subseteq Sig /\ updateReviewed \subseteq Sig /\ appliedIds \subseteq Nat
  BY DEF Init
<1> QED
  BY <1>1, <1>2, <1>3, <1>4, <1>5, <1>6 DEF Init, TypeOK, Work

LEMMA ControlTyped ==
  ASSUME TypeOK
  PROVE  After[handler] \in Handlers /\ "start" \in Steps
BY DEF TypeOK, After, Handlers, Steps

LEMMA StartProcessTyped ==
  ASSUME TypeOK, NEW st \in DraftStore, StartProcess(st),
         drafts' \in DraftStore, readable' \in BOOLEAN
  PROVE  TypeOK'
<1>1. work' \in Work
  BY NoWorkType DEF StartProcess
<1>2. restarts' \in 0 .. MaxRestarts
  BY PipelineAssumption DEF TypeOK, StartProcess
<1>3. nextReview' \in 1 .. MaxReviews + 1
  BY DEF StartProcess
<1>4. handler' \in Handlers /\ step' \in Steps /\ nextUpdateReview' \in Nat \ {0}
  BY DEF StartProcess, Handlers, Steps
<1>5. consolidated' \in BOOLEAN /\ reloadDue' \in BOOLEAN
  BY DEF StartProcess
<1>6. /\ queue' \subseteq Review /\ reviews' \subseteq Review
      /\ written' \subseteq ReviewId /\ gateReviewed' \subseteq Sig \X Nat \X Status
      /\ committedIds' \subseteq Sig /\ updateReviewed' \subseteq Sig /\ appliedIds' \subseteq Nat
  BY DEF StartProcess
<1>7. expsm' \in Seq(Record) /\ adapter' \in Seq(Record) /\ profile' \in Profiles
      /\ faults' \in 0 .. MaxFaults
  BY DEF StartProcess, TypeOK
<1> QED
  BY <1>1, <1>2, <1>3, <1>4, <1>5, <1>6, <1>7 DEF TypeOK, Work

\* What a writer has still to handle are cards, not empty places.
TodoPresent == \A s \in work.todo : Present(work.drafts, s)

\* A change of the copies that settles card s: the card becomes x, the
\* records become e, and the two flags become dc and ec.
Settles(s, x, e, dc, ec) ==
  work' = [drafts |-> [work.drafts EXCEPT ![s] = x], expsm |-> e, todo |-> work.todo \ {s},
           draftChanged |-> dc, expsmChanged |-> ec]

LEMMA SettlesTyped ==
  ASSUME TypeOK, TodoPresent, NEW s \in Sig, NEW x \in Draft, NEW e \in Seq(Record),
         NEW dc \in BOOLEAN, NEW ec \in BOOLEAN, Settles(s, x, e, dc, ec)
  PROVE  work' \in Work /\ TodoPresent'
<1>1. work' \in Work
  BY DEF Settles, TypeOK, Work, DraftStore
<1>2. TodoPresent'
  BY DEF Settles, TodoPresent, TypeOK, DraftStore
<1> QED
  BY <1>1, <1>2

\* The loop body of the commit writer settles one card in one of three ways.
LEMMA CommitDraftCases ==
  ASSUME TypeOK, TodoPresent, NEW s \in Sig, CommitDraft(s)
  PROVE  LET d == work.drafts[s]
         IN  /\ d \in Draft
             /\ \/ /\ ~Committable(d)
                   /\ Settles(s, Repaired(d), work.expsm, work.draftChanged \/ RepairNeeded(d),
                              work.expsmChanged)
                \/ \E k \in ExperienceOf(work.expsm, s) :
                     /\ Committable(d)
                     /\ Settles(s, MarkCommitted(d, k), work.expsm, TRUE, work.expsmChanged)
                \/ /\ Committable(d) /\ ExperienceOf(work.expsm, s) = {}
                   /\ Settles(s, MarkCommitted(d, Len(work.expsm) + 1),
                              Append(work.expsm, NewRecord(s, d.seen)), TRUE, TRUE)
<1> DEFINE d == work.drafts[s]
<1>1. d \in Draft
  BY DEF CommitDraft, TakeDraft, TodoPresent, TypeOK, DraftStore
<1>2. work = [drafts |-> work.drafts, expsm |-> work.expsm, todo |-> work.todo,
              draftChanged |-> work.draftChanged, expsmChanged |-> work.expsmChanged]
  BY DEF TypeOK
<1>3. CASE PassOver(s, d)
  BY <1>1, <1>2, <1>3 DEF PassOver, Settles
<1>4. CASE CommitDuplicate(s, d)
  BY <1>1, <1>2, <1>4 DEF CommitDuplicate, Settles
<1>5. CASE CommitNew(s, d)
  BY <1>1, <1>2, <1>5 DEF CommitNew, Settles
<1> QED
  BY <1>1, <1>3, <1>4, <1>5 DEF CommitDraft

\* ... and that of the update writer too.
SettledOnly(d) == [d EXCEPT !.pending = FALSE, !.update = "updated_in_expsm"]

LEMMA UpdateDraftCases ==
  ASSUME TypeOK, TodoPresent, NEW s \in Sig, UpdateDraft(s)
  PROVE  LET d == work.drafts[s]
         IN  /\ d \in Draft
             /\ \/ /\ Settles(s, SettledOnly(d), work.expsm, TRUE, work.expsmChanged)
                   /\ d.review \in appliedIds /\ UNCHANGED appliedIds
                \/ /\ d.exp \in DOMAIN work.expsm
                   /\ Settles(s, MarkUpdated(d),
                              [work.expsm EXCEPT ![d.exp] = UpdateRecord(work.expsm[d.exp], d)], TRUE, TRUE)
                   /\ d.review \notin appliedIds /\ appliedIds' = appliedIds \cup {d.review}
                \/ /\ Settles(s, d, work.expsm, work.draftChanged, work.expsmChanged)
                   /\ UNCHANGED appliedIds
<1> DEFINE d == work.drafts[s]
<1>1. d \in Draft
  BY DEF UpdateDraft, TakeDraft, TodoPresent, TypeOK, DraftStore
<1>2. work = [drafts |-> work.drafts, expsm |-> work.expsm, todo |-> work.todo,
              draftChanged |-> work.draftChanged, expsmChanged |-> work.expsmChanged]
  BY DEF TypeOK
<1>3. CASE SettleApplied(s, d)
  BY <1>1, <1>2, <1>3 DEF SettleApplied, Settles, SettledOnly
<1>4. CASE ApplyUpdate(s, d) /\ d.exp \in DOMAIN work.expsm
  BY <1>1, <1>2, <1>4 DEF ApplyUpdate, Settles
<1>5. CASE ApplyUpdate(s, d) /\ d.exp \notin DOMAIN work.expsm
  <2>1. [work.drafts EXCEPT ![s] = d] = work.drafts
    BY DEF TypeOK, DraftStore
  <2>2. work' = [work EXCEPT !.todo = @ \ {s}]
    BY <1>5 DEF ApplyUpdate
  <2>3. Settles(s, d, work.expsm, work.draftChanged, work.expsmChanged) /\ UNCHANGED appliedIds
    BY <1>2, <1>5, <2>1, <2>2 DEF Settles, ApplyUpdate
  <2> QED
    BY <1>1, <2>3
<1> QED
  BY <1>1, <1>3, <1>4, <1>5 DEF UpdateDraft

\* Both settle with values of the right types.
LEMMA CommitDraftTyped ==
  ASSUME TypeOK, TodoPresent, NEW s \in Sig, CommitDraft(s)
  PROVE  work' \in Work /\ TodoPresent' /\ committedIds' \subseteq Sig
<1> DEFINE d == work.drafts[s]
<1>1. d \in Draft /\ d.seen \in Nat
  BY CommitDraftCases DEF Draft
<1>2. committedIds' \subseteq Sig
  BY DEF CommitDraft, PassOver, CommitDuplicate, CommitNew, TypeOK
<1>3. work.expsm \in Seq(Record) /\ work.draftChanged \in BOOLEAN /\ work.expsmChanged \in BOOLEAN
  BY DEF TypeOK
<1>4. ASSUME Settles(s, Repaired(d), work.expsm, work.draftChanged \/ RepairNeeded(d), work.expsmChanged)
      PROVE  work' \in Work /\ TodoPresent'
  <2>1. Repaired(d) \in Draft
    BY <1>1, WriterChangeTypes
  <2>2. (work.draftChanged \/ RepairNeeded(d)) \in BOOLEAN
    BY <1>3 DEF RepairNeeded
  <2> QED
    BY <1>3, <1>4, <2>1, <2>2, SettlesTyped
<1>5. ASSUME NEW k \in ExperienceOf(work.expsm, s),
             Settles(s, MarkCommitted(d, k), work.expsm, TRUE, work.expsmChanged)
      PROVE  work' \in Work /\ TodoPresent'
  <2>1. k \in Nat
    BY <1>3 DEF ExperienceOf
  <2>2. MarkCommitted(d, k) \in Draft
    BY <1>1, <2>1, WriterChangeTypes
  <2> QED
    BY <1>3, <1>5, <2>2, SettlesTyped
<1>6. ASSUME Settles(s, MarkCommitted(d, Len(work.expsm) + 1),
                     Append(work.expsm, NewRecord(s, d.seen)), TRUE, TRUE)
      PROVE  work' \in Work /\ TodoPresent'
  <2>1. MarkCommitted(d, Len(work.expsm) + 1) \in Draft
    <3>1. Len(work.expsm) + 1 \in Nat
      BY <1>3
    <3> QED
      BY <1>1, <3>1, WriterChangeTypes
  <2>2. NewRecord(s, d.seen) \in Record
    BY <1>1, NewRecordType
  <2>3. Append(work.expsm, NewRecord(s, d.seen)) \in Seq(Record)
    BY <1>3, <2>2
  <2> QED
    BY <1>6, <2>1, <2>3, SettlesTyped
<1> QED
  BY <1>2, <1>4, <1>5, <1>6, CommitDraftCases

LEMMA UpdateDraftTyped ==
  ASSUME TypeOK, TodoPresent, NEW s \in Sig, UpdateDraft(s)
  PROVE  work' \in Work /\ TodoPresent' /\ appliedIds' \subseteq Nat
<1> DEFINE d == work.drafts[s]
<1>1. d \in Draft /\ d.review \in Nat
  BY UpdateDraftCases DEF Draft
<1>2. appliedIds' \subseteq Nat
  BY <1>1 DEF UpdateDraft, SettleApplied, ApplyUpdate, TypeOK
<1>3. work.expsm \in Seq(Record) /\ work.draftChanged \in BOOLEAN /\ work.expsmChanged \in BOOLEAN
  BY DEF TypeOK
<1>4. SettledOnly(d) \in Draft
  BY <1>1 DEF SettledOnly, Draft, UpdateStatus
<1>5. MarkUpdated(d) \in Draft
  BY <1>1, WriterChangeTypes
<1>6. ASSUME d.exp \in DOMAIN work.expsm
      PROVE  [work.expsm EXCEPT ![d.exp] = UpdateRecord(work.expsm[d.exp], d)] \in Seq(Record)
  <2>1. work.expsm[d.exp] \in Record
    BY <1>3, <1>6
  <2>2. UpdateRecord(work.expsm[d.exp], d) \in Record
    BY <1>1, <2>1, UpdateRecordType
  <2> QED
    BY <1>3, <1>6, <2>2
<1> QED
  BY <1>1, <1>2, <1>3, <1>4, <1>5, <1>6, UpdateDraftCases, SettlesTyped

LEMMA LoadStoresTyped ==
  ASSUME TypeOK, NEW T \in SUBSET Sig, LoadStores(T)
  PROVE  work' \in Work
BY DEF LoadStores, Work, TypeOK

\* The gate gives every draft it reviews an id.
LEMMA UpdateReviewIds ==
  ASSUME TypeOK, ReviewCommittedDrafts
  PROVE  /\ nextUpdateReview' \in Nat \ {0}
         /\ \E id : /\ \A s \in NeedsUpdateReview : id[s] \in Nat
                   /\ drafts' = [s \in Sig |-> IF s \in NeedsUpdateReview
                                               THEN ApplyReview(drafts[s], id[s])
                                               ELSE drafts[s]]
<1> DEFINE T == NeedsUpdateReview
           n == Cardinality(T)
<1>1. n \in Nat
  <2>1. IsFiniteSet(T)
    BY PipelineAssumption, FS_Subset DEF NeedsUpdateReview
  <2> QED
    BY <2>1, FS_CardinalityType
<1>2. PICK id \in [T -> nextUpdateReview .. nextUpdateReview + n - 1] :
        drafts' = [s \in Sig |-> IF s \in T THEN ApplyReview(drafts[s], id[s]) ELSE drafts[s]]
  BY DEF ReviewCommittedDrafts
<1>3. nextUpdateReview' \in Nat \ {0}
  BY <1>1 DEF ReviewCommittedDrafts, TypeOK
<1> HIDE DEF n
<1>4. \A s \in T : id[s] \in Nat
  BY <1>1, <1>2 DEF TypeOK
<1> QED
  BY <1>2, <1>3, <1>4

LEMMA StepTyped == TypeOK /\ TodoPresent /\ [Next]_vars => TypeOK'
<1> SUFFICES ASSUME TypeOK, TodoPresent, [Next]_vars PROVE TypeOK'
  OBVIOUS
<1> USE ControlTyped
<1>1. CASE ReviewCommittedDrafts
  <2> DEFINE T == NeedsUpdateReview
  <2>1. PICK id : /\ \A s \in T : id[s] \in Nat
                  /\ drafts' = [s \in Sig |-> IF s \in T THEN ApplyReview(drafts[s], id[s])
                                                        ELSE drafts[s]]
    BY <1>1, UpdateReviewIds
  <2>2. \A s \in T : ApplyReview(drafts[s], id[s]) \in Draft
    BY <2>1, ApplyReviewType DEF TypeOK, DraftStore, NeedsUpdateReview
  <2>3. drafts' \in DraftStore
    BY <2>1, <2>2 DEF TypeOK, DraftStore
  <2>4. updateReviewed' \subseteq Sig
    BY <1>1 DEF ReviewCommittedDrafts, NeedsUpdateReview, TypeOK
  <2> QED
    BY <1>1, <2>3, <2>4, UpdateReviewIds DEF ReviewCommittedDrafts, TypeOK, view, env
<1>2. CASE SkipUpdateGate
  BY <1>2 DEF SkipUpdateGate, TypeOK, disk, marks, view, env
<1>3. CASE EnterChain \/ EndWriteReview \/ EndDraftWriter \/ ReturnEarly \/ CommitGateStoreError
  BY <1>3 DEF EnterChain, EndWriteReview, EndDraftWriter, ReturnEarly, CommitGateStoreError,
              TypeOK, Handlers, Steps, disk, context, marks, view, env
<1>4. CASE LeaveChain
  BY <1>4 DEF LeaveChain, TypeOK, Handlers, disk, context, marks, view, env
<1>5. ASSUME NEW s \in Sig, ApproveCandidate(s) PROVE TypeOK'
  <2>1. nextReview \in ReviewId /\ nextReview' \in 1 .. MaxReviews + 1
    BY <1>5, PipelineAssumption DEF ApproveCandidate, TypeOK, ReviewId
  <2>2. reviews' \subseteq Review
    BY <1>5, <2>1 DEF ApproveCandidate, TypeOK, Review
  <2> QED
    BY <1>5, <2>1, <2>2 DEF ApproveCandidate, TypeOK, disk, control, marks, view, env
<1>6. ASSUME NEW Q \in SUBSET reviews, BeginDraftWriter(Q) PROVE TypeOK'
  BY <1>6 DEF BeginDraftWriter, TypeOK, Handlers, Steps, disk, context, marks, view, env
<1>7. ASSUME NEW r \in queue, WriteDraft(r) PROVE TypeOK'
  <2>1. r \in Review
    BY DEF TypeOK
  <2>2. drafts' \in DraftStore
    BY <1>7, <2>1, AfterReviewType DEF WriteDraft, TypeOK
  <2>3. written' \subseteq ReviewId /\ queue' \subseteq Review
    BY <1>7, <2>1 DEF WriteDraft, TypeOK, Review
  <2> QED
    BY <1>7, <2>2, <2>3 DEF WriteDraft, TypeOK, control, context, view, env
<1>8. CASE ReviewDrafts
  <2> DEFINE T == NeedsCommitReview
  <2>1. \A s \in T : [drafts[s] EXCEPT !.status = CommitVerdict(s, drafts[s])] \in Draft
    BY CommitReviewType DEF NeedsCommitReview, TypeOK, DraftStore
  <2>2. drafts' \in DraftStore
    BY <1>8, <2>1 DEF ReviewDrafts, TypeOK, DraftStore
  <2>3. \A s \in T : ReviewKey(s) \in Sig \X Nat \X Status
    BY DEF NeedsCommitReview, ReviewKey, TypeOK, DraftStore, Draft
  <2>4. gateReviewed' \subseteq Sig \X Nat \X Status
    BY <1>8, <2>3 DEF ReviewDrafts, TypeOK
  <2> QED
    BY <1>8, <2>2, <2>4 DEF ReviewDrafts, TypeOK, context, view, env
<1>9. CASE BeginCommit \/ BeginUpdate
  <2>1. work' \in Work
    <3>1. \E T \in SUBSET Sig : LoadStores(T)
      BY <1>9 DEF BeginCommit, BeginUpdate
    <3> QED
      BY <3>1, LoadStoresTyped
  <2>2. handler' \in Handlers /\ step' \in Steps
    BY <1>9 DEF BeginCommit, BeginUpdate, TypeOK, Steps
  <2>3. UNCHANGED <<disk, queue, context, marks, view, env>>
    BY <1>9 DEF BeginCommit, BeginUpdate
  <2> QED
    BY <2>1, <2>2, <2>3 DEF TypeOK, Work, disk, context, marks, view, env
<1>10. ASSUME NEW s \in Sig, CommitDraft(s) PROVE TypeOK'
  <2>1. work' \in Work /\ committedIds' \subseteq Sig
    BY <1>10, CommitDraftTyped
  <2> QED
    BY <1>10, <2>1 DEF CommitDraft, TypeOK, Work, disk, control, context, view, env
<1>11. ASSUME NEW s \in Sig, UpdateDraft(s) PROVE TypeOK'
  <2>1. work' \in Work /\ appliedIds' \subseteq Nat
    BY <1>11, UpdateDraftTyped
  <2> QED
    BY <1>11, <2>1 DEF UpdateDraft, TypeOK, Work, disk, control, context, view, env
<1>12. ASSUME NEW h \in Writers, EndLoop(h) PROVE TypeOK'
  <2>1. work' \in Work
    BY <1>12, NoWorkType DEF EndLoop, TypeOK, Work
  <2>2. handler' \in Handlers /\ step' \in Steps
    BY <1>12 DEF EndLoop, TypeOK, Steps
  <2> QED
    BY <1>12, <2>1, <2>2 DEF EndLoop, TypeOK, Work, disk, context, marks, view, env
<1>13. ASSUME NEW h \in Writers, ReplaceExpSM(h) PROVE TypeOK'
  BY <1>13 DEF ReplaceExpSM, TypeOK, Steps, context, marks, view, env
<1>14. ASSUME NEW h \in Writers, ReplaceDrafts(h) PROVE TypeOK'
  <2>1. work' \in Work /\ drafts' \in DraftStore
    BY <1>14, NoWorkType DEF ReplaceDrafts, TypeOK
  <2>2. reloadDue' \in BOOLEAN
    BY <1>14 DEF ReplaceDrafts, TypeOK
  <2> QED
    BY <1>14, <2>1, <2>2 DEF ReplaceDrafts, TypeOK, Work, context, marks, env
<1>15. ASSUME NEW h \in Writers, ReplaceFails(h) PROVE TypeOK'
  <2>1. work' \in Work
    BY <1>15, NoWorkType DEF ReplaceFails
  <2>2. faults' \in 0 .. MaxFaults
    BY <1>15, PipelineAssumption DEF ReplaceFails, TypeOK
  <2> QED
    BY <1>15, <2>1, <2>2 DEF ReplaceFails, TypeOK, Work, disk, context, marks, view
<1>16. CASE Reload
  BY <1>16 DEF Reload, TypeOK, disk, context, marks, env
<1>17. CASE Restart
  <2>1. drafts \in DraftStore /\ drafts' \in DraftStore /\ readable' \in BOOLEAN
    BY <1>17 DEF Restart, TypeOK
  <2> QED
    BY <1>17, <2>1, StartProcessTyped DEF Restart
<1>18. CASE CrashInSave
  <2>1. EmptyDraftStore \in DraftStore /\ drafts' \in DraftStore /\ readable' \in BOOLEAN
    BY <1>18, NoWorkType DEF CrashInSave
  <2> QED
    BY <1>18, <2>1, StartProcessTyped DEF CrashInSave
<1>19. CASE UNCHANGED vars
  BY <1>19 DEF vars, TypeOK, disk, control, context, marks, view, env
<1> QED
  BY <1>1, <1>2, <1>3, <1>4, <1>5, <1>6, <1>7, <1>8, <1>9, <1>10, <1>11, <1>12, <1>13, <1>14,
     <1>15, <1>16, <1>17, <1>18, <1>19 DEF Next

\* The actions that leave the copies alone.
LEMMA WorkFrame ==
  ASSUME TypeOK, [Next]_vars
  PROVE  \/ UNCHANGED work
         \/ work' = NoWork
         \/ BeginCommit \/ BeginUpdate
         \/ \E s \in Sig : CommitDraft(s) \/ UpdateDraft(s)
<1>1. CASE ReviewCommittedDrafts \/ SkipUpdateGate \/ EnterChain \/ LeaveChain \/ EndWriteReview
           \/ (\E s \in Sig : ApproveCandidate(s)) \/ ReturnEarly
  BY <1>1 DEF ReviewCommittedDrafts, SkipUpdateGate, EnterChain, LeaveChain, EndWriteReview,
              ApproveCandidate, ReturnEarly
<1>2. CASE (\E Q \in SUBSET reviews : BeginDraftWriter(Q)) \/ (\E r \in queue : WriteDraft(r))
           \/ EndDraftWriter \/ ReviewDrafts \/ CommitGateStoreError \/ Reload
  BY <1>2 DEF BeginDraftWriter, WriteDraft, EndDraftWriter, ReviewDrafts, CommitGateStoreError, Reload
<1>3. CASE \E h \in Writers : EndLoop(h) \/ ReplaceExpSM(h) \/ ReplaceDrafts(h) \/ ReplaceFails(h)
  BY <1>3 DEF EndLoop, ReplaceExpSM, ReplaceDrafts, ReplaceFails
<1>4. CASE Restart \/ CrashInSave
  BY <1>4 DEF Restart, CrashInSave, StartProcess
<1>5. CASE UNCHANGED vars
  BY <1>5 DEF vars
<1> QED
  BY <1>1, <1>2, <1>3, <1>4, <1>5 DEF Next

LEMMA TodoStaysPresent == TypeOK /\ TodoPresent /\ [Next]_vars => TodoPresent'
<1> SUFFICES ASSUME TypeOK, TodoPresent, [Next]_vars PROVE TodoPresent'
  OBVIOUS
<1>1. CASE UNCHANGED work
  BY <1>1 DEF TodoPresent
<1>2. CASE work' = NoWork
  BY <1>2 DEF TodoPresent, NoWork
<1>3. CASE BeginCommit \/ BeginUpdate
  BY <1>3 DEF BeginCommit, BeginUpdate, LoadStores, TodoPresent
<1>4. CASE \E s \in Sig : CommitDraft(s) \/ UpdateDraft(s)
  BY <1>4, CommitDraftTyped, UpdateDraftTyped
<1> QED
  BY <1>1, <1>2, <1>3, <1>4, WorkFrame

\* Every variable keeps its type: in particular the in-memory sets only
\* ever hold ids the stores can hold, and a card always has all its fields.
THEOREM TypeCorrect == Spec => []TypeOK
<1>1. Init => TypeOK /\ TodoPresent
  BY InitTyped DEF Init, TodoPresent, NoWork
<1>2. TypeOK /\ TodoPresent /\ [Next]_vars => (TypeOK /\ TodoPresent)'
  BY StepTyped, TodoStaysPresent
<1> QED
  BY <1>1, <1>2, PTL DEF Spec

-----------------------------------------------------------------------------
(* The two stores agree.  The inductive invariant is TypeOK, TodoPresent   *)
(* and StoresInv: without CopiesInv nothing would be known of the copies   *)
(* that ReplaceExpSM and ReplaceDrafts put in place of the files.          *)

\* What the draft writer and the gates do to the stored cards: experience
\* ids stay, nobody becomes or ceases to be committed, new cards have no
\* experience, final statuses stay.
Evolves(old, new) ==
  /\ \A s \in Sig : Present(new, s) =>
       IF Present(old, s)
         THEN /\ new[s].exp = old[s].exp
              /\ new[s].status = "draft_committed" <=> old[s].status = "draft_committed"
         ELSE new[s].exp = 0 /\ new[s].status # "draft_committed"
  /\ KeepsFinals(old, new)

LEMMA EvolvesKeepsStores ==
  ASSUME NEW old, NEW new, NEW records, Evolves(old, new),
         HasRecord(old, records), StatusFits(old)
  PROVE  HasRecord(new, records) /\ StatusFits(new)
BY DEF Evolves, HasRecord, StatusFits

LEMMA ReviewCommittedDraftsEvolves ==
  TypeOK /\ ReviewCommittedDrafts => Evolves(drafts, drafts')
<1> SUFFICES ASSUME TypeOK, ReviewCommittedDrafts PROVE Evolves(drafts, drafts')
  OBVIOUS
<1> DEFINE T == NeedsUpdateReview
<1>1. PICK id : /\ \A s \in T : id[s] \in Nat
                /\ drafts' = [s \in Sig |-> IF s \in T THEN ApplyReview(drafts[s], id[s])
                                                      ELSE drafts[s]]
  BY UpdateReviewIds
<1>2. ASSUME NEW s \in Sig, s \in T
      PROVE  /\ Present(drafts, s) /\ Present(drafts', s)
             /\ drafts'[s].exp = drafts[s].exp /\ drafts'[s].status = drafts[s].status
  <2>1. drafts[s] \in Draft
    BY <1>2 DEF NeedsUpdateReview, TypeOK, DraftStore
  <2>2. drafts'[s] = ApplyReview(drafts[s], id[s]) /\ id[s] \in Nat
    BY <1>1, <1>2
  <2>3. drafts'[s] \in Draft
    BY <2>1, <2>2, ApplyReviewType
  <2> QED
    BY <1>2, <2>1, <2>2, <2>3, NoDraftAssumption DEF ApplyReview, Draft, NeedsUpdateReview
<1>3. \A s \in Sig : s \notin T => drafts'[s] = drafts[s]
  BY <1>1
<1> QED
  BY <1>2, <1>3 DEF Evolves, KeepsFinals

LEMMA ReviewDraftsEvolves ==
  TypeOK /\ ReviewDrafts => Evolves(drafts, drafts')
<1> SUFFICES ASSUME TypeOK, ReviewDrafts PROVE Evolves(drafts, drafts')
  OBVIOUS
<1> DEFINE T == NeedsCommitReview
<1>1. ASSUME NEW s \in Sig, s \in T
      PROVE  /\ Present(drafts, s) /\ Present(drafts', s)
             /\ drafts'[s].exp = drafts[s].exp
             /\ drafts[s].status \notin FinalStatus /\ drafts'[s].status # "draft_committed"
  <2>1. drafts[s] \in Draft /\ drafts[s].status \in ReviewableStatus
    BY <1>1 DEF NeedsCommitReview, TypeOK, DraftStore
  <2>2. drafts'[s] = [drafts[s] EXCEPT !.status = CommitVerdict(s, drafts[s])]
    BY <1>1 DEF ReviewDrafts
  <2>3. CommitVerdict(s, drafts[s]) # "draft_committed"
    BY DEF CommitVerdict, QualityDecision
  <2>4. drafts'[s] \in Draft
    BY <2>1, <2>2, CommitReviewType
  <2> QED
    BY <2>1, <2>2, <2>3, <2>4, NoDraftAssumption DEF Draft, FinalStatus, ReviewableStatus
<1>2. \A s \in Sig : s \notin T => drafts'[s] = drafts[s]
  BY DEF ReviewDrafts
<1> QED
  BY <1>1, <1>2 DEF Evolves, KeepsFinals, FinalStatus

LEMMA WriteDraftEvolves ==
  ASSUME TypeOK, NEW r \in queue, WriteDraft(r)
  PROVE  Evolves(drafts, drafts')
<1> DEFINE d == drafts[r.sig]
<1>1. r \in Review /\ r.sig \in Sig /\ d \in Draft \cup {NoDraft}
  BY DEF TypeOK, Review, DraftStore
<1>2. drafts' \in DraftStore
  BY <1>1, AfterReviewType DEF WriteDraft, TypeOK
<1>3. ASSUME NEW x \in Draft, drafts' = [drafts EXCEPT ![r.sig] = x],
             IF d = NoDraft
               THEN x.exp = 0 /\ x.status # "draft_committed"
               ELSE /\ x.exp = d.exp
                    /\ x.status = "draft_committed" <=> d.status = "draft_committed"
                    /\ d.status \in FinalStatus => x.status = d.status
      PROVE  Evolves(drafts, drafts')
  <2>1. drafts'[r.sig] = x /\ x # NoDraft
    BY <1>1, <1>3, NoDraftAssumption DEF TypeOK, DraftStore
  <2>2. \A s \in Sig : s # r.sig => drafts'[s] = drafts[s]
    BY <1>1, <1>3 DEF TypeOK, DraftStore
  <2> QED
    BY <1>1, <1>3, <2>1, <2>2 DEF Evolves, KeepsFinals
<1>4. CASE drafts' = drafts
  BY <1>4 DEF Evolves, KeepsFinals
<1>5. ASSUME d = NoDraft, NEW q \in {"fair", "strong"},
             drafts' = [drafts EXCEPT ![r.sig] = NewDraft(r, q)]
      PROVE  Evolves(drafts, drafts')
  <2>1. NewDraft(r, q) \in Draft
    BY <1>1, NewDraftType DEF Quality
  <2>2. NewDraft(r, q).exp = 0 /\ NewDraft(r, q).status # "draft_committed"
    BY DEF NewDraft
  <2> QED
    BY <1>3, <1>5, <2>1, <2>2
<1>6. ASSUME d # NoDraft, d.status = "draft_committed", NEW g \in BOOLEAN,
             drafts' = [drafts EXCEPT ![r.sig] = ObserveCommitted(d, r, g)]
      PROVE  Evolves(drafts, drafts')
  <2>1. d \in Draft /\ ObserveCommitted(d, r, g) \in Draft
    BY <1>1, <1>6, ObserveCommittedType
  <2>2. ObserveCommitted(d, r, g).exp = d.exp /\ ObserveCommitted(d, r, g).status = d.status
    BY <1>6, <2>1 DEF ObserveCommitted, MergeDraft, Draft, FinalStatus
  <2> QED
    BY <1>3, <1>6, <2>1, <2>2
<1>7. ASSUME d # NoDraft, d.status \notin FinalStatus, NEW q \in Quality,
             drafts' = [drafts EXCEPT ![r.sig] = MergeDraft(d, r, q)]
      PROVE  Evolves(drafts, drafts')
  <2>1. d \in Draft /\ MergeDraft(d, r, q) \in Draft
    BY <1>1, <1>7, MergeDraftType
  <2>2. MergeDraft(d, r, q).exp = d.exp /\ MergeDraft(d, r, q).status = "draft_pending_commit"
    BY <1>7, <2>1 DEF MergeDraft, Draft
  <2> QED
    BY <1>3, <1>7, <2>1, <2>2 DEF FinalStatus
<1>8. drafts' \in AfterReview(r)
  BY DEF WriteDraft
<1> QED
  BY <1>4, <1>5, <1>6, <1>7, <1>8 DEF AfterReview, FinalStatus

\* A writer's settling of a card keeps what CopiesInv says of the copies.
CopiesFit ==
  /\ OneRecordPerSignature(work.expsm)
  /\ HasRecord(work.drafts, work.expsm)
  /\ StatusFits(work.drafts)
  /\ Grows(expsm, work.expsm)
  /\ KeepsFinals(drafts, work.drafts)
  /\ ~work.expsmChanged => work.expsm = expsm

\* The card keeps its experience and its status.
LEMMA SettlesSameRecords ==
  ASSUME TypeOK, TodoPresent, CopiesFit, UNCHANGED <<drafts, expsm>>,
         NEW s \in Sig, NEW x \in Draft, NEW e \in Seq(Record), NEW dc, NEW ec,
         Settles(s, x, e, dc, ec),
         work.drafts[s] \in Draft,
         x.exp = work.drafts[s].exp, x.status = work.drafts[s].status,
         DOMAIN e = DOMAIN work.expsm, \A i \in DOMAIN e : e[i].sig = work.expsm[i].sig,
         ~ec => e = expsm
  PROVE  CopiesFit'
<1>1. work'.expsm = e /\ work'.expsmChanged = ec /\ work'.drafts[s] = x
  BY DEF Settles, TypeOK, DraftStore
<1>2. \A t \in Sig : t # s => work'.drafts[t] = work.drafts[t]
  BY DEF Settles, TypeOK, DraftStore
<1>3. work.drafts[s] # NoDraft /\ x # NoDraft
  BY NoDraftAssumption
<1>4. OneRecordPerSignature(work'.expsm)
  BY <1>1 DEF CopiesFit, OneRecordPerSignature
<1>5. HasRecord(work'.drafts, work'.expsm)
  BY <1>1, <1>2, <1>3 DEF CopiesFit, HasRecord
<1>6. StatusFits(work'.drafts)
  BY <1>1, <1>2, <1>3 DEF CopiesFit, StatusFits
<1>7. Grows(expsm', work'.expsm)
  BY <1>1 DEF CopiesFit, Grows
<1>8. KeepsFinals(drafts', work'.drafts)
  BY <1>1, <1>2, <1>3 DEF CopiesFit, KeepsFinals
<1> QED
  BY <1>1, <1>4, <1>5, <1>6, <1>7, <1>8 DEF CopiesFit

\* A ready card becomes committed to record k of e.
LEMMA SettlesCommitted ==
  ASSUME TypeOK, TodoPresent, CopiesFit, UNCHANGED <<drafts, expsm>>,
         NEW s \in Sig, NEW x \in Draft, NEW e \in Seq(Record), NEW ec, NEW k \in DOMAIN e,
         Settles(s, x, e, TRUE, ec),
         work.drafts[s] \in Draft, work.drafts[s].status \notin FinalStatus,
         x.exp = k, x.status = "draft_committed", e[k].sig = s,
         OneRecordPerSignature(e), Grows(work.expsm, e),
         ~ec => e = expsm
  PROVE  CopiesFit'
<1>1. work'.expsm = e /\ work'.expsmChanged = ec /\ work'.drafts[s] = x
  BY DEF Settles, TypeOK, DraftStore
<1>2. \A t \in Sig : t # s => work'.drafts[t] = work.drafts[t]
  BY DEF Settles, TypeOK, DraftStore
<1>3. work.drafts[s] # NoDraft /\ x # NoDraft /\ k # 0
  BY NoDraftAssumption
<1>4. HasRecord(work'.drafts, work'.expsm)
  BY <1>1, <1>2, <1>3 DEF CopiesFit, HasRecord, Grows
<1>5. StatusFits(work'.drafts)
  BY <1>1, <1>2, <1>3 DEF CopiesFit, StatusFits
<1>6. Grows(expsm', work'.expsm)
  BY <1>1 DEF CopiesFit, Grows
<1>7. KeepsFinals(drafts', work'.drafts)
  BY <1>1, <1>2, <1>3 DEF CopiesFit, KeepsFinals
<1> QED
  BY <1>1, <1>4, <1>5, <1>6, <1>7 DEF CopiesFit

\* Appending a record of a new signature.
LEMMA AppendRecord ==
  ASSUME NEW records \in Seq(Record), NEW s \in Sig, NEW r \in Record, r.sig = s,
         OneRecordPerSignature(records), ExperienceOf(records, s) = {}
  PROVE  LET e == Append(records, r)
             k == Len(records) + 1
         IN  /\ e \in Seq(Record) /\ k \in DOMAIN e /\ e[k].sig = s
             /\ OneRecordPerSignature(e) /\ Grows(records, e)
<1> DEFINE e == Append(records, r)
           k == Len(records) + 1
<1>1. /\ e \in Seq(Record) /\ DOMAIN e = 1 .. k /\ k \in Nat \ {0}
      /\ DOMAIN records = 1 .. k - 1
      /\ e[k] = r /\ \A i \in 1 .. k - 1 : e[i] = records[i]
  OBVIOUS
<1>2. \A i \in 1 .. k - 1 : e[i].sig # s
  BY <1>1 DEF ExperienceOf
<1> HIDE DEF e, k
<1>3. OneRecordPerSignature(e)
  BY <1>1, <1>2 DEF OneRecordPerSignature
<1>4. Grows(records, e)
  BY <1>1 DEF Grows
<1> QED
  BY <1>1, <1>3, <1>4 DEF e, k

LEMMA CommitDraftFits ==
  ASSUME TypeOK, TodoPresent, CopiesFit, NEW s \in Sig, CommitDraft(s)
  PROVE  CopiesFit'
<1> DEFINE d == work.drafts[s]
<1>1. UNCHANGED <<drafts, expsm>>
  BY DEF CommitDraft, disk
<1>2. d \in Draft /\ d # NoDraft /\ work.expsm \in Seq(Record)
  BY CommitDraftCases, NoDraftAssumption DEF TypeOK
<1>3. ASSUME Settles(s, Repaired(d), work.expsm, work.draftChanged \/ RepairNeeded(d), work.expsmChanged)
      PROVE  CopiesFit'
  <2>1. Repaired(d) = d
    BY <1>2 DEF CopiesFit, StatusFits, Repaired, RepairNeeded
  <2> QED
    BY <1>1, <1>2, <1>3, <2>1, SettlesSameRecords DEF CopiesFit
<1>4. ASSUME Committable(d), NEW k \in ExperienceOf(work.expsm, s),
             Settles(s, MarkCommitted(d, k), work.expsm, TRUE, work.expsmChanged)
      PROVE  CopiesFit'
  <2>1. k \in DOMAIN work.expsm /\ work.expsm[k].sig = s /\ k \in Nat
    BY <1>2 DEF ExperienceOf
  <2>2. /\ MarkCommitted(d, k) \in Draft
        /\ MarkCommitted(d, k).exp = k /\ MarkCommitted(d, k).status = "draft_committed"
    BY <1>2, <2>1, WriterChangeTypes DEF MarkCommitted, Draft
  <2>3. d.status \notin FinalStatus
    BY <1>4 DEF Committable, FinalStatus
  <2>4. Grows(work.expsm, work.expsm)
    BY DEF Grows
  <2> QED
    BY <1>1, <1>2, <1>4, <2>1, <2>2, <2>3, <2>4, SettlesCommitted DEF CopiesFit
<1>5. ASSUME Committable(d), ExperienceOf(work.expsm, s) = {},
             Settles(s, MarkCommitted(d, Len(work.expsm) + 1),
                     Append(work.expsm, NewRecord(s, d.seen)), TRUE, TRUE)
      PROVE  CopiesFit'
  <2> DEFINE k == Len(work.expsm) + 1
             e == Append(work.expsm, NewRecord(s, d.seen))
  <2>1. NewRecord(s, d.seen) \in Record /\ NewRecord(s, d.seen).sig = s
    BY <1>2, NewRecordType DEF NewRecord, Draft
  <2>2. /\ e \in Seq(Record) /\ k \in DOMAIN e /\ e[k].sig = s
        /\ OneRecordPerSignature(e) /\ Grows(work.expsm, e)
    BY <1>2, <1>5, <2>1, AppendRecord DEF CopiesFit
  <2>3. k \in Nat
    BY <1>2
  <2>4. /\ MarkCommitted(d, k) \in Draft
        /\ MarkCommitted(d, k).exp = k /\ MarkCommitted(d, k).status = "draft_committed"
    BY <1>2, <2>3, WriterChangeTypes DEF MarkCommitted, Draft
  <2>5. d.status \notin FinalStatus
    BY <1>5 DEF Committable, FinalStatus
  <2>6. Settles(s, MarkCommitted(d, k), e, TRUE, TRUE)
    BY <1>5
  <2> HIDE DEF k, e
  <2> QED
    BY <1>1, <1>2, <2>2, <2>4, <2>5, <2>6, SettlesCommitted
<1> QED
  BY <1>3, <1>4, <1>5, CommitDraftCases

LEMMA UpdateDraftFits ==
  ASSUME TypeOK, TodoPresent, CopiesFit, NEW s \in Sig, UpdateDraft(s)
  PROVE  CopiesFit'
<1> DEFINE d == work.drafts[s]
<1>1. UNCHANGED <<drafts, expsm>>
  BY DEF UpdateDraft, disk
<1>2. d \in Draft /\ work.expsm \in Seq(Record)
  BY UpdateDraftCases DEF TypeOK
<1>3. ASSUME Settles(s, SettledOnly(d), work.expsm, TRUE, work.expsmChanged)
      PROVE  CopiesFit'
  <2>1. /\ SettledOnly(d) \in Draft
        /\ SettledOnly(d).exp = d.exp /\ SettledOnly(d).status = d.status
    BY <1>2 DEF SettledOnly, Draft, UpdateStatus
  <2> QED
    BY <1>1, <1>2, <1>3, <2>1, SettlesSameRecords DEF CopiesFit
<1>4. ASSUME d.exp \in DOMAIN work.expsm,
             Settles(s, MarkUpdated(d),
                     [work.expsm EXCEPT ![d.exp] = UpdateRecord(work.expsm[d.exp], d)], TRUE, TRUE)
      PROVE  CopiesFit'
  <2> DEFINE e == [work.expsm EXCEPT ![d.exp] = UpdateRecord(work.expsm[d.exp], d)]
  <2>1. /\ MarkUpdated(d) \in Draft
        /\ MarkUpdated(d).exp = d.exp /\ MarkUpdated(d).status = d.status
    BY <1>2, WriterChangeTypes DEF MarkUpdated, Draft
  <2>2. work.expsm[d.exp] \in Record
    BY <1>2, <1>4
  <2>3. /\ UpdateRecord(work.expsm[d.exp], d) \in Record
        /\ UpdateRecord(work.expsm[d.exp], d).sig = work.expsm[d.exp].sig
    BY <1>2, <2>2, UpdateRecordType DEF UpdateRecord, Record
  <2>4. e \in Seq(Record) /\ DOMAIN e = DOMAIN work.expsm
    BY <1>2, <1>4, <2>3
  <2>5. \A i \in DOMAIN e : e[i].sig = work.expsm[i].sig
    BY <1>2, <1>4, <2>3
  <2> HIDE DEF e
  <2>6. Settles(s, MarkUpdated(d), e, TRUE, TRUE)
    BY <1>4 DEF e
  <2> QED
    BY <1>1, <1>2, <2>1, <2>4, <2>5, <2>6, SettlesSameRecords
<1>5. ASSUME Settles(s, d, work.expsm, work.draftChanged, work.expsmChanged)
      PROVE  CopiesFit'
  BY <1>1, <1>2, <1>5, SettlesSameRecords DEF CopiesFit
<1> QED
  BY <1>3, <1>4, <1>5, UpdateDraftCases

\* A step that leaves a writer (or stays outside) owes nothing to the copies.
LEMMA OutsideWriters ==
  ASSUME TypeOK, [Next]_vars
  PROVE  \/ ~Writing'
         \/ BeginCommit \/ BeginUpdate
         \/ \E s \in Sig : CommitDraft(s) \/ UpdateDraft(s)
         \/ \E h \in Writers : EndLoop(h) \/ ReplaceExpSM(h)
         \/ UNCHANGED vars
<1>1. CASE ReviewCommittedDrafts \/ SkipUpdateGate \/ EnterChain \/ LeaveChain \/ EndWriteReview
           \/ (\E s \in Sig : ApproveCandidate(s)) \/ ReturnEarly
  BY <1>1 DEF ReviewCommittedDrafts, SkipUpdateGate, EnterChain, LeaveChain, EndWriteReview,
              ApproveCandidate, ReturnEarly, Writing, control
<1>2. CASE (\E Q \in SUBSET reviews : BeginDraftWriter(Q)) \/ (\E r \in queue : WriteDraft(r))
           \/ EndDraftWriter \/ ReviewDrafts \/ CommitGateStoreError \/ Reload
  BY <1>2 DEF BeginDraftWriter, WriteDraft, EndDraftWriter, ReviewDrafts, CommitGateStoreError, Reload,
              Writing, control
<1>3. CASE \E h \in Writers : ReplaceDrafts(h) \/ ReplaceFails(h)
  BY <1>3 DEF ReplaceDrafts, ReplaceFails, Writing
<1>4. CASE Restart \/ CrashInSave
  BY <1>4 DEF Restart, CrashInSave, StartProcess, Writing
<1> QED
  BY <1>1, <1>2, <1>3, <1>4 DEF Next

LEMMA CopiesStep ==
  ASSUME TypeOK, TodoPresent, StoresInv, [Next]_vars
  PROVE  CopiesInv'
<1>1. ASSUME Writing PROVE CopiesFit /\ (step = "drafts" => work.expsm = expsm)
  BY <1>1 DEF StoresInv, CopiesInv, CopiesFit
<1>2. ASSUME CopiesFit', step' = "drafts" => work'.expsm = expsm' PROVE CopiesInv'
  BY <1>2 DEF CopiesInv, CopiesFit
<1>3. CASE BeginCommit \/ BeginUpdate
  <2>1. UNCHANGED <<drafts, expsm>> /\ work'.drafts = drafts /\ work'.expsm = expsm
    BY <1>3 DEF BeginCommit, BeginUpdate, LoadStores, disk
  <2>2. CopiesFit'
    BY <2>1 DEF CopiesFit, StoresInv, UniqueSignature, CommittedHasRecord, CommittedIffExperience,
                OneRecordPerSignature, HasRecord, StatusFits, Grows, KeepsFinals
  <2> QED
    BY <1>2, <2>1, <2>2
<1>4. ASSUME NEW s \in Sig, CommitDraft(s) PROVE CopiesInv'
  <2>1. Writing /\ step' # "drafts"
    BY <1>4 DEF CommitDraft, TakeDraft, Writing, control
  <2> QED
    BY <1>1, <1>2, <1>4, <2>1, CommitDraftFits
<1>5. ASSUME NEW s \in Sig, UpdateDraft(s) PROVE CopiesInv'
  <2>1. Writing /\ step' # "drafts"
    BY <1>5 DEF UpdateDraft, TakeDraft, Writing, control
  <2> QED
    BY <1>1, <1>2, <1>5, <2>1, UpdateDraftFits
<1>6. ASSUME NEW h \in Writers, EndLoop(h) PROVE CopiesInv'
  <2>1. Writing /\ UNCHANGED <<drafts, expsm>>
    BY <1>6 DEF EndLoop, Writing, Writers, disk
  <2>2. CASE work.draftChanged \/ work.expsmChanged
    <3>1. UNCHANGED work /\ (step' = "drafts" => ~work.expsmChanged)
      BY <1>6, <2>2 DEF EndLoop
    <3>2. CopiesFit'
      BY <1>1, <2>1, <3>1 DEF CopiesFit, OneRecordPerSignature, HasRecord, StatusFits, Grows, KeepsFinals
    <3> QED
      BY <1>1, <1>2, <2>1, <3>1, <3>2 DEF CopiesFit
  <2>3. CASE ~(work.draftChanged \/ work.expsmChanged)
    BY <1>6, <2>3 DEF EndLoop, CopiesInv, Writing
  <2> QED
    BY <2>2, <2>3
<1>7. ASSUME NEW h \in Writers, ReplaceExpSM(h) PROVE CopiesInv'
  <2>1. Writing /\ expsm' = work.expsm /\ UNCHANGED <<drafts, work>>
    BY <1>7 DEF ReplaceExpSM, Writing, Writers
  <2>2. CopiesFit'
    BY <1>1, <2>1 DEF CopiesFit, OneRecordPerSignature, HasRecord, StatusFits, Grows, KeepsFinals
  <2> QED
    BY <1>2, <2>1, <2>2
<1>8. CASE UNCHANGED vars
  BY <1>8 DEF vars, disk, control, StoresInv, CopiesInv, Writing, OneRecordPerSignature, HasRecord,
              StatusFits, Grows, KeepsFinals
<1>9. CASE ~Writing'
  BY <1>9 DEF CopiesInv
<1> QED
  BY <1>3, <1>4, <1>5, <1>6, <1>7, <1>8, <1>9, OutsideWriters

\* How one step changes the files: the cards evolve, or a writer puts its
\* copies in place, or the draft store is lost.
LEMMA DiskStep ==
  ASSUME TypeOK, TodoPresent, StoresInv, [Next]_vars
  PROVE  \/ expsm' = expsm /\ Evolves(drafts, drafts')
         \/ expsm' = work.expsm /\ drafts' = drafts /\ CopiesFit
         \/ expsm' = expsm /\ drafts' = work.drafts /\ work.expsm = expsm /\ CopiesFit
         \/ expsm' = expsm /\ drafts' = EmptyDraftStore /\ readable' = FALSE
<1>1. Evolves(drafts, drafts)
  BY DEF Evolves, KeepsFinals
<1>2. CASE ReviewCommittedDrafts
  BY <1>2, ReviewCommittedDraftsEvolves DEF ReviewCommittedDrafts
<1>3. CASE ReviewDrafts
  BY <1>3, ReviewDraftsEvolves DEF ReviewDrafts
<1>4. CASE \E r \in queue : WriteDraft(r)
  BY <1>4, WriteDraftEvolves DEF WriteDraft
<1>5. ASSUME NEW h \in Writers, ReplaceExpSM(h) \/ ReplaceDrafts(h)
      PROVE  \/ expsm' = work.expsm /\ drafts' = drafts /\ CopiesFit
             \/ expsm' = expsm /\ drafts' = work.drafts /\ work.expsm = expsm /\ CopiesFit
  <2>1. Writing
    BY <1>5 DEF ReplaceExpSM, ReplaceDrafts, Writing, Writers
  <2>2. CopiesFit /\ (step = "drafts" => work.expsm = expsm)
    BY <2>1 DEF StoresInv, CopiesInv, CopiesFit
  <2> QED
    BY <1>5, <2>2 DEF ReplaceExpSM, ReplaceDrafts
<1>6. CASE CrashInSave
  BY <1>6 DEF CrashInSave, StartProcess
<1>7. CASE SkipUpdateGate \/ EnterChain \/ LeaveChain \/ EndWriteReview
           \/ (\E s \in Sig : ApproveCandidate(s)) \/ ReturnEarly
           \/ (\E Q \in SUBSET reviews : BeginDraftWriter(Q)) \/ EndDraftWriter
           \/ CommitGateStoreError \/ Reload \/ BeginCommit \/ BeginUpdate \/ UNCHANGED vars
  BY <1>1, <1>7 DEF SkipUpdateGate, EnterChain, LeaveChain, EndWriteReview, ApproveCandidate, ReturnEarly,
        BeginDraftWriter, EndDraftWriter, CommitGateStoreError, Reload, BeginCommit, BeginUpdate, vars, disk
<1>8. CASE (\E s \in Sig : CommitDraft(s) \/ UpdateDraft(s))
           \/ (\E h \in Writers : EndLoop(h) \/ ReplaceFails(h)) \/ Restart
  BY <1>1, <1>8 DEF CommitDraft, UpdateDraft, EndLoop, ReplaceFails, Restart, StartProcess, disk
<1> QED
  BY <1>2, <1>3, <1>4, <1>5, <1>6, <1>7, <1>8 DEF Next

LEMMA StoresStep ==
  ASSUME TypeOK, TodoPresent, StoresInv, [Next]_vars
  PROVE  StoresInv'
<1>1. CopiesInv'
  BY CopiesStep
<1>2. OneRecordPerSignature(expsm) /\ HasRecord(drafts, expsm) /\ StatusFits(drafts)
  BY DEF StoresInv, UniqueSignature, CommittedHasRecord, CommittedIffExperience
<1>3. OneRecordPerSignature(expsm') /\ HasRecord(drafts', expsm') /\ StatusFits(drafts')
  <2>1. CASE expsm' = expsm /\ Evolves(drafts, drafts')
    BY <1>2, <2>1, EvolvesKeepsStores
  <2>2. CASE expsm' = work.expsm /\ drafts' = drafts /\ CopiesFit
    BY <1>2, <2>2 DEF CopiesFit, HasRecord, Grows
  <2>3. CASE expsm' = expsm /\ drafts' = work.drafts /\ work.expsm = expsm /\ CopiesFit
    BY <2>3 DEF CopiesFit
  <2>4. CASE expsm' = expsm /\ drafts' = EmptyDraftStore
    BY <1>2, <2>4 DEF EmptyDraftStore, HasRecord, StatusFits
  <2> QED
    BY <2>1, <2>2, <2>3, <2>4, DiskStep
<1> QED
  BY <1>1, <1>3 DEF StoresInv, UniqueSignature, CommittedHasRecord, CommittedIffExperience

LEMMA StoresInit == Init => StoresInv
BY DEF Init, StoresInv, UniqueSignature, CommittedHasRecord, CommittedIffExperience, CopiesInv, Writing,
       OneRecordPerSignature, HasRecord, StatusFits, EmptyDraftStore

\* The two files agree at all times, in spite of crashes and failed writes
\* between the two replacements: one record per signature, a record behind
\* every committed card, and a committed status on every card with a record.
THEOREM StoresAgree == Spec => []StoresConsistent
<1>1. Init => TypeOK /\ TodoPresent /\ StoresInv
  BY InitTyped, StoresInit DEF Init, TodoPresent, NoWork
<1>2. TypeOK /\ TodoPresent /\ StoresInv /\ [Next]_vars => (TypeOK /\ TodoPresent /\ StoresInv)'
  BY StepTyped, TodoStaysPresent, StoresStep
<1>3. StoresInv => StoresConsistent
  BY DEF StoresInv, StoresConsistent
<1> QED
  BY <1>1, <1>2, <1>3, PTL DEF Spec

\* Committed and rejected cards keep their status and experience id through
\* every step that leaves the draft store readable.
THEOREM FinalsStay == Spec => FinalStatusIsFinal
<1>1. Init => TypeOK /\ TodoPresent /\ StoresInv
  BY InitTyped, StoresInit DEF Init, TodoPresent, NoWork
<1>2. TypeOK /\ TodoPresent /\ StoresInv /\ [Next]_vars => (TypeOK /\ TodoPresent /\ StoresInv)'
  BY StepTyped, TodoStaysPresent, StoresStep
<1>3. TypeOK /\ TodoPresent /\ StoresInv /\ [Next]_vars => [readable' => KeepsFinals(drafts, drafts')]_vars
  <2> SUFFICES ASSUME TypeOK, TodoPresent, StoresInv, [Next]_vars, readable'
               PROVE  KeepsFinals(drafts, drafts')
    OBVIOUS
  <2> QED
    BY DiskStep DEF Evolves, CopiesFit, KeepsFinals
<1> QED
  BY <1>1, <1>2, <1>3, PTL DEF Spec, FinalStatusIsFinal

-----------------------------------------------------------------------------
(* The evidence and the updates, on top of the stores.                     *)

\* The steps that change the cards, and the one that changes the records.
LEMMA DraftsFrame ==
  ASSUME [Next]_vars
  PROVE  \/ UNCHANGED drafts
         \/ ReviewCommittedDrafts \/ ReviewDrafts \/ CrashInSave
         \/ \E r \in queue : WriteDraft(r)
         \/ \E h \in Writers : ReplaceDrafts(h)
<1>1. CASE SkipUpdateGate \/ EnterChain \/ LeaveChain \/ EndWriteReview \/ ReturnEarly
           \/ EndDraftWriter \/ CommitGateStoreError \/ Reload \/ BeginCommit \/ BeginUpdate
           \/ (\E s \in Sig : ApproveCandidate(s)) \/ (\E Q \in SUBSET reviews : BeginDraftWriter(Q))
  BY <1>1 DEF SkipUpdateGate, EnterChain, LeaveChain, EndWriteReview, ReturnEarly, EndDraftWriter,
        CommitGateStoreError, Reload, BeginCommit, BeginUpdate, ApproveCandidate, BeginDraftWriter, disk
<1>2. CASE (\E s \in Sig : CommitDraft(s) \/ UpdateDraft(s)) \/ Restart
           \/ (\E h \in Writers : EndLoop(h) \/ ReplaceExpSM(h) \/ ReplaceFails(h))
  BY <1>2 DEF CommitDraft, UpdateDraft, EndLoop, ReplaceExpSM, ReplaceFails, Restart, disk
<1>3. CASE UNCHANGED vars
  BY <1>3 DEF vars, disk
<1> QED
  BY <1>1, <1>2, <1>3 DEF Next

LEMMA RecordsFrame ==
  ASSUME [Next]_vars
  PROVE  UNCHANGED expsm \/ \E h \in Writers : ReplaceExpSM(h)
<1>1. CASE SkipUpdateGate \/ EnterChain \/ LeaveChain \/ EndWriteReview \/ ReturnEarly
           \/ EndDraftWriter \/ CommitGateStoreError \/ Reload \/ BeginCommit \/ BeginUpdate
           \/ (\E s \in Sig : ApproveCandidate(s)) \/ (\E Q \in SUBSET reviews : BeginDraftWriter(Q))
  BY <1>1 DEF SkipUpdateGate, EnterChain, LeaveChain, EndWriteReview, ReturnEarly, EndDraftWriter,
        CommitGateStoreError, Reload, BeginCommit, BeginUpdate, ApproveCandidate, BeginDraftWriter, disk
<1>2. CASE (\E s \in Sig : CommitDraft(s) \/ UpdateDraft(s)) \/ Restart
           \/ (\E h \in Writers : EndLoop(h) \/ ReplaceDrafts(h) \/ ReplaceFails(h))
  BY <1>2 DEF CommitDraft, UpdateDraft, EndLoop, ReplaceDrafts, ReplaceFails, Restart, StartProcess, disk
<1>3. CASE ReviewCommittedDrafts \/ ReviewDrafts \/ CrashInSave \/ (\E r \in queue : WriteDraft(r))
  BY <1>3 DEF ReviewCommittedDrafts, ReviewDrafts, CrashInSave, StartProcess, WriteDraft
<1>4. CASE UNCHANGED vars
  BY <1>4 DEF vars, disk
<1> QED
  BY <1>1, <1>2, <1>3, <1>4 DEF Next

\* The loop body of the update writer adds no record and renames none.
LEMMA UpdateKeepsSignatures ==
  ASSUME TypeOK, TodoPresent, NEW s \in Sig, UpdateDraft(s)
  PROVE  /\ DOMAIN work'.expsm = DOMAIN work.expsm
         /\ \A i \in DOMAIN work.expsm : work'.expsm[i].sig = work.expsm[i].sig
<1> DEFINE d == work.drafts[s]
<1>1. CASE work'.expsm = work.expsm
  BY <1>1
<1>2. CASE d.exp \in DOMAIN work.expsm
           /\ work'.expsm = [work.expsm EXCEPT ![d.exp] = UpdateRecord(work.expsm[d.exp], d)]
  <2>1. work.expsm \in Seq(Record) /\ work.expsm[d.exp] \in Record
    BY <1>2 DEF TypeOK
  <2>2. UpdateRecord(work.expsm[d.exp], d).sig = work.expsm[d.exp].sig
    BY <2>1 DEF UpdateRecord, Record
  <2> QED
    BY <1>2, <2>1, <2>2
<1> QED
  BY <1>1, <1>2, UpdateDraftCases DEF Settles

-----------------------------------------------------------------------------
(* What a writer holds of the cards.                                       *)

\* The fields that only MemoryDraftWriter writes.
SameEvidence(old, new) ==
  /\ new.quality = old.quality /\ new.seen = old.seen
  /\ new.source = old.source /\ new.sources = old.sources

\* A writer leaves the history of a card alone, but for committing it and for
\* settling an approved update.
CopiedFrom(old, new) ==
  /\ SameEvidence(old, new)
  /\ new.status \in {old.status, "draft_committed"}
  /\ new.post = old.post /\ new.review = old.review
  /\ \/ new.update = old.update /\ new.pending = old.pending /\ new.applied = old.applied
     \/ /\ old.update = "approved_pending_update_writer"
        /\ new.update = "updated_in_expsm" /\ ~new.pending
        /\ new.applied \in {old.applied, old.review}

CardsCopied ==
  Writing => \A s \in Sig :
    /\ Present(work.drafts, s) <=> Present(drafts, s)
    /\ Present(drafts, s) => CopiedFrom(drafts[s], work.drafts[s])
    /\ s \in work.todo => work.drafts[s] = drafts[s]

\* What the two writers make of a card is copied from it.
LEMMA WriterCardsCopied ==
  ASSUME NEW d \in Draft
  PROVE  /\ CopiedFrom(d, d)
         /\ CopiedFrom(d, Repaired(d))
         /\ \A k \in Nat : CopiedFrom(d, MarkCommitted(d, k))
         /\ UpdateReady(d) => CopiedFrom(d, SettledOnly(d)) /\ CopiedFrom(d, MarkUpdated(d))
<1>1. CopiedFrom(d, d)
  BY DEF CopiedFrom, SameEvidence
<1>2. CopiedFrom(d, Repaired(d))
  BY <1>1 DEF Repaired, RepairNeeded, CopiedFrom, SameEvidence, Draft
<1>3. \A k \in Nat : CopiedFrom(d, MarkCommitted(d, k))
  BY DEF MarkCommitted, CopiedFrom, SameEvidence, Draft
<1>4. ASSUME UpdateReady(d) PROVE CopiedFrom(d, SettledOnly(d))
  BY <1>4 DEF UpdateReady, SettledOnly, CopiedFrom, SameEvidence, Draft
<1>5. ASSUME UpdateReady(d) PROVE CopiedFrom(d, MarkUpdated(d))
  BY <1>5 DEF UpdateReady, MarkUpdated, CopiedFrom, SameEvidence, Draft
<1> QED
  BY <1>1, <1>2, <1>3, <1>4, <1>5

\* The cards an update writer has still to handle are ready in the file.
TodoReady ==
  handler = "update_writer" /\ step # "start" => \A s \in work.todo : UpdateReady(drafts[s])

CopiesKnown == CardsCopied /\ TodoReady

LEMMA SettlesCopied ==
  ASSUME TypeOK, CardsCopied, Writing, UNCHANGED drafts,
         NEW s \in Sig, NEW x \in Draft, NEW e, NEW dc, NEW ec, Settles(s, x, e, dc, ec),
         Present(drafts, s), CopiedFrom(drafts[s], x)
  PROVE  CardsCopied'
<1>1. work'.drafts[s] = x /\ work'.todo = work.todo \ {s}
  BY DEF Settles, TypeOK, DraftStore
<1>2. \A t \in Sig : t # s => work'.drafts[t] = work.drafts[t]
  BY DEF Settles, TypeOK, DraftStore
<1>3. x # NoDraft
  BY NoDraftAssumption
<1>4. \A t \in Sig : /\ Present(work'.drafts, t) <=> Present(drafts, t)
                     /\ Present(drafts, t) => CopiedFrom(drafts[t], work'.drafts[t])
                     /\ t \in work'.todo => work'.drafts[t] = drafts[t]
  BY <1>1, <1>2, <1>3 DEF CardsCopied
<1> QED
  BY <1>4 DEF CardsCopied

LEMMA CopiesKnownStep ==
  ASSUME TypeOK, TodoPresent, CopiesKnown, [Next]_vars
  PROVE  CopiesKnown'
<1>1. CASE BeginCommit \/ BeginUpdate
  <2>1. UNCHANGED drafts /\ work'.drafts = drafts
    BY <1>1 DEF BeginCommit, BeginUpdate, LoadStores, disk
  <2>2. CardsCopied'
    BY <2>1 DEF CardsCopied, CopiedFrom, SameEvidence
  <2>3. TodoReady'
    BY <1>1, <2>1 DEF BeginCommit, BeginUpdate, LoadStores, TodoReady
  <2> QED
    BY <2>2, <2>3 DEF CopiesKnown
<1>2. ASSUME NEW s \in Sig, CommitDraft(s) PROVE CopiesKnown'
  <2> DEFINE d == work.drafts[s]
  <2>1. /\ Writing /\ s \in work.todo /\ UNCHANGED <<drafts, handler>>
        /\ handler = "commit_writer" /\ work.expsm \in Seq(Record)
    BY <1>2 DEF CommitDraft, TakeDraft, Writing, disk, control, TypeOK
  <2>2. d \in Draft /\ d = drafts[s] /\ Present(drafts, s)
    BY <1>2, <2>1, CommitDraftCases, NoDraftAssumption DEF CopiesKnown, CardsCopied
  <2>3. ASSUME NEW x \in Draft, NEW e, NEW dc, NEW ec, Settles(s, x, e, dc, ec),
               \/ x = Repaired(d)
               \/ \E k \in Nat : x = MarkCommitted(d, k)
        PROVE  CardsCopied'
    <3>1. CopiedFrom(drafts[s], x)
      BY <2>2, <2>3, WriterCardsCopied
    <3> QED
      BY <2>1, <2>2, <2>3, <3>1, SettlesCopied DEF CopiesKnown
  <2>4. \A k \in ExperienceOf(work.expsm, s) : k \in Nat
    BY <2>1 DEF ExperienceOf
  <2>5. Len(work.expsm) + 1 \in Nat
    BY <2>1
  <2>6. Repaired(d) \in Draft /\ \A k \in Nat : MarkCommitted(d, k) \in Draft
    BY <2>2, WriterChangeTypes
  <2>7. CardsCopied'
    BY <1>2, <2>3, <2>4, <2>5, <2>6, CommitDraftCases
  <2> QED
    BY <2>1, <2>7 DEF CopiesKnown, TodoReady
<1>3. ASSUME NEW s \in Sig, UpdateDraft(s) PROVE CopiesKnown'
  <2> DEFINE d == work.drafts[s]
  <2>1. /\ Writing /\ s \in work.todo /\ UNCHANGED <<drafts, handler, step>>
        /\ handler = "update_writer" /\ step # "start"
    BY <1>3 DEF UpdateDraft, TakeDraft, Writing, disk, control
  <2>2. d \in Draft /\ d = drafts[s] /\ Present(drafts, s) /\ UpdateReady(d)
    BY <1>3, <2>1, UpdateDraftCases, NoDraftAssumption DEF CopiesKnown, CardsCopied, TodoReady
  <2>3. ASSUME NEW x \in {SettledOnly(d), MarkUpdated(d), d}, NEW e, NEW dc, NEW ec,
               Settles(s, x, e, dc, ec)
        PROVE  CopiesKnown'
    <3>1. x \in Draft
      BY <2>2, WriterChangeTypes DEF SettledOnly, Draft, UpdateStatus
    <3>2. CopiedFrom(drafts[s], x)
      BY <2>2, <2>3, WriterCardsCopied
    <3>3. CardsCopied'
      BY <2>1, <2>2, <2>3, <3>1, <3>2, SettlesCopied DEF CopiesKnown
    <3>4. work'.todo \subseteq work.todo
      BY <2>3 DEF Settles
    <3> QED
      BY <2>1, <3>3, <3>4 DEF CopiesKnown, TodoReady
  <2> QED
    BY <1>3, <2>3, UpdateDraftCases
<1>4. ASSUME NEW h \in Writers, EndLoop(h) \/ ReplaceExpSM(h) PROVE CopiesKnown'
  <2>1. CASE UNCHANGED work
    BY <1>4, <2>1 DEF EndLoop, ReplaceExpSM, CopiesKnown, CardsCopied, TodoReady, Writing, Writers, disk
  <2>2. CASE handler' = After[handler] /\ step' = "start"
    BY <2>2 DEF CopiesKnown, CardsCopied, TodoReady, Writing
  <2> QED
    BY <1>4, <2>1, <2>2 DEF EndLoop, ReplaceExpSM
<1>5. CASE UNCHANGED vars
  BY <1>5 DEF vars, disk, control, CopiesKnown, CardsCopied, TodoReady, Writing
<1>6. CASE ~Writing'
  BY <1>6 DEF CopiesKnown, CardsCopied, TodoReady, Writing
<1> QED
  BY <1>1, <1>2, <1>3, <1>4, <1>5, <1>6, OutsideWriters


-----------------------------------------------------------------------------
(* Evidence.  A card counts every review merged into it once, and the      *)
(* reviews of this process that a card already knows are older than none   *)
(* of its merges unless the card shows it: the last id merged is not its   *)
(* newest.                                                                 *)

\* A review still to be written that a card already has is newer than the
\* last one merged into the card.
LateReviewsShow ==
  \A o \in reviews : o.id \notin written =>
    \A s \in Sig : Present(drafts, s) /\ o.id \in drafts[s].sources => drafts[s].source < o.id

\* The review counter is ahead of every last merged id and of every review.
CounterAhead ==
  /\ \A s \in Sig : Present(drafts, s) => drafts[s].source < nextReview
  /\ \A o \in reviews : o.id < nextReview

\* While the draft writer works, what it has left includes every review the
\* store already knows and the process has not written.
QueueComplete ==
  /\ queue \subseteq reviews
  /\ At("draft_writer", "loop") =>
       \A o \in reviews : o.id \in ExistingReviewIds(drafts) \ written => o \in queue

EvidenceInv == EvidenceCountedOnce /\ LateReviewsShow /\ CounterAhead /\ QueueComplete

\* What all other steps do to the cards.
KeepsEvidence(old, new) ==
  \A s \in Sig : /\ Present(new, s) <=> Present(old, s)
                 /\ Present(old, s) => SameEvidence(old[s], new[s])

LEMMA ReviewsKeepEvidence ==
  ASSUME TypeOK, ReviewCommittedDrafts \/ ReviewDrafts
  PROVE  KeepsEvidence(drafts, drafts')
<1>1. CASE ReviewCommittedDrafts
  <2>1. PICK id : /\ \A s \in NeedsUpdateReview : id[s] \in Nat
                  /\ drafts' = [s \in Sig |-> IF s \in NeedsUpdateReview
                                              THEN ApplyReview(drafts[s], id[s]) ELSE drafts[s]]
    BY <1>1, UpdateReviewIds
  <2>2. ASSUME NEW s \in NeedsUpdateReview
        PROVE  /\ Present(drafts, s) /\ drafts'[s] # NoDraft
               /\ SameEvidence(drafts[s], drafts'[s])
    <3>1. drafts[s] \in Draft /\ drafts'[s] = ApplyReview(drafts[s], id[s]) /\ Present(drafts, s)
      BY <2>1 DEF NeedsUpdateReview, TypeOK, DraftStore
    <3>2. drafts'[s] \in Draft
      BY <2>1, <3>1, ApplyReviewType
    <3> QED
      BY <3>1, <3>2, NoDraftAssumption DEF ApplyReview, SameEvidence, Draft
  <2> QED
    BY <2>1, <2>2 DEF KeepsEvidence, SameEvidence
<1>2. CASE ReviewDrafts
  <2>1. ASSUME NEW s \in NeedsCommitReview
        PROVE  /\ Present(drafts, s) /\ drafts'[s] # NoDraft
               /\ SameEvidence(drafts[s], drafts'[s])
    <3>1. /\ drafts[s] \in Draft /\ Present(drafts, s)
          /\ drafts'[s] = [drafts[s] EXCEPT !.status = CommitVerdict(s, drafts[s])]
      BY <1>2 DEF ReviewDrafts, NeedsCommitReview, TypeOK, DraftStore
    <3>2. drafts'[s] \in Draft
      BY <3>1, CommitReviewType
    <3> QED
      BY <3>1, <3>2, NoDraftAssumption DEF SameEvidence, Draft
  <2>2. \A s \in Sig : s \notin NeedsCommitReview => drafts'[s] = drafts[s]
    BY <1>2 DEF ReviewDrafts
  <2> QED
    BY <2>1, <2>2 DEF KeepsEvidence, SameEvidence
<1> QED
  BY <1>1, <1>2

\* What handling a review does to the cards: nothing, or it is merged into
\* the card of its signature, which did not know it.
Merges(r, old, new) ==
  /\ \A s \in Sig : s # r.sig => new[s] = old[s]
  /\ new[r.sig] \in Draft /\ new[r.sig].source = r.id
  /\ IF old[r.sig] = NoDraft
       THEN new[r.sig].seen = 1 /\ new[r.sig].sources = {r.id}
       ELSE /\ r.id \notin old[r.sig].sources
            /\ new[r.sig].seen = old[r.sig].seen + 1
            /\ new[r.sig].sources = old[r.sig].sources \cup {r.id}

LEMMA WriteDraftMerges ==
  ASSUME TypeOK, NEW r \in queue, WriteDraft(r)
  PROVE  drafts' = drafts \/ Merges(r, drafts, drafts')
<1> DEFINE d == drafts[r.sig]
<1>1. r \in Review /\ r.sig \in Sig /\ d \in Draft \cup {NoDraft} /\ r.id \in ReviewId
  BY DEF TypeOK, Review, DraftStore
<1>2. ASSUME NEW x \in Draft, drafts' = [drafts EXCEPT ![r.sig] = x], x.source = r.id,
             IF d = NoDraft THEN x.seen = 1 /\ x.sources = {r.id}
             ELSE /\ r.id \notin d.sources
                  /\ x.seen = d.seen + 1 /\ x.sources = d.sources \cup {r.id}
      PROVE  Merges(r, drafts, drafts')
  <2>1. drafts'[r.sig] = x /\ \A s \in Sig : s # r.sig => drafts'[s] = drafts[s]
    BY <1>1, <1>2 DEF TypeOK, DraftStore
  <2> QED
    BY <1>2, <2>1 DEF Merges
<1>3. ASSUME r.id \notin ExistingReviewIds(drafts), d # NoDraft PROVE r.id \notin d.sources
  BY <1>1, <1>3 DEF ExistingReviewIds
<1>4. ASSUME NEW q \in {"fair", "strong"}, d = NoDraft,
             drafts' = [drafts EXCEPT ![r.sig] = NewDraft(r, q)]
      PROVE  Merges(r, drafts, drafts')
  <2>1. NewDraft(r, q) \in Draft
    BY <1>1, NewDraftType DEF Quality
  <2> QED
    BY <1>2, <1>4, <2>1 DEF NewDraft
<1>5. ASSUME NEW g \in BOOLEAN, d # NoDraft, r.id \notin d.sources,
             drafts' = [drafts EXCEPT ![r.sig] = ObserveCommitted(d, r, g)]
      PROVE  Merges(r, drafts, drafts')
  <2>1. d \in Draft /\ ObserveCommitted(d, r, g) \in Draft
    BY <1>1, <1>5, ObserveCommittedType
  <2>2. /\ ObserveCommitted(d, r, g).source = r.id
        /\ ObserveCommitted(d, r, g).seen = d.seen + 1
        /\ ObserveCommitted(d, r, g).sources = d.sources \cup {r.id}
    BY <2>1 DEF ObserveCommitted, MergeDraft, Draft
  <2> QED
    BY <1>2, <1>5, <2>1, <2>2
<1>6. ASSUME NEW q \in Quality, d # NoDraft, r.id \notin d.sources,
             drafts' = [drafts EXCEPT ![r.sig] = MergeDraft(d, r, q)]
      PROVE  Merges(r, drafts, drafts')
  <2>1. d \in Draft /\ MergeDraft(d, r, q) \in Draft
    BY <1>1, <1>6, MergeDraftType
  <2>2. /\ MergeDraft(d, r, q).source = r.id
        /\ MergeDraft(d, r, q).seen = d.seen + 1
        /\ MergeDraft(d, r, q).sources = d.sources \cup {r.id}
    BY <2>1 DEF MergeDraft, Draft
  <2> QED
    BY <1>2, <1>6, <2>1, <2>2
<1>7. drafts' \in AfterReview(r)
  BY DEF WriteDraft
<1> QED
  BY <1>3, <1>4, <1>5, <1>6, <1>7 DEF AfterReview

\* The steps that matter to the evidence.
LEMMA EvidenceFrame ==
  ASSUME TypeOK, CopiesKnown, [Next]_vars
  PROVE  \/ \E Q \in SUBSET reviews : BeginDraftWriter(Q)
         \/ \E r \in queue : WriteDraft(r)
         \/ \E s \in Sig : ApproveCandidate(s)
         \/ Restart \/ CrashInSave
         \/ /\ KeepsEvidence(drafts, drafts')
            /\ UNCHANGED <<reviews, nextReview, written, queue>>
            /\ ~At("draft_writer", "loop")' \/ UNCHANGED <<handler, step>>
<1>1. KeepsEvidence(drafts, drafts)
  BY DEF KeepsEvidence, SameEvidence
<1>2. CASE ReviewCommittedDrafts \/ ReviewDrafts
  BY <1>2, ReviewsKeepEvidence DEF ReviewCommittedDrafts, ReviewDrafts, context
<1>3. ASSUME NEW h \in Writers, ReplaceDrafts(h) PROVE KeepsEvidence(drafts, drafts')
  BY <1>3 DEF ReplaceDrafts, Writers, Writing, CopiesKnown, CardsCopied, CopiedFrom, KeepsEvidence
<1>4. CASE SkipUpdateGate \/ EnterChain \/ LeaveChain \/ EndWriteReview \/ ReturnEarly
           \/ EndDraftWriter \/ CommitGateStoreError \/ Reload \/ BeginCommit \/ BeginUpdate
  BY <1>1, <1>4 DEF SkipUpdateGate, EnterChain, LeaveChain, EndWriteReview, ReturnEarly,
        EndDraftWriter, CommitGateStoreError, Reload, BeginCommit, BeginUpdate, disk, context, marks
<1>5. CASE \E s \in Sig : CommitDraft(s) \/ UpdateDraft(s)
  BY <1>1, <1>5 DEF CommitDraft, UpdateDraft, disk, control, context
<1>6. CASE \E h \in Writers : EndLoop(h) \/ ReplaceExpSM(h) \/ ReplaceFails(h)
  BY <1>1, <1>6 DEF EndLoop, ReplaceExpSM, ReplaceFails, Writers, disk, context, marks
<1>7. CASE \E h \in Writers : ReplaceDrafts(h)
  BY <1>3, <1>7 DEF ReplaceDrafts, context, marks
<1>8. CASE UNCHANGED vars
  BY <1>1, <1>8 DEF vars, disk, control, context, marks
<1> QED
  BY <1>2, <1>4, <1>5, <1>6, <1>7, <1>8 DEF Next

\* The parts of EvidenceInv that a step keeps when no card gets new evidence.
LEMMA QuietStepKeepsEvidence ==
  ASSUME TypeOK, EvidenceInv, KeepsEvidence(drafts, drafts'),
         UNCHANGED <<reviews, nextReview, written, queue>>,
         ~At("draft_writer", "loop")' \/ UNCHANGED <<handler, step>>
  PROVE  EvidenceInv'
<1>1. EvidenceCountedOnce' /\ LateReviewsShow' /\ CounterAhead'
  BY DEF EvidenceInv, EvidenceCountedOnce, LateReviewsShow, CounterAhead, KeepsEvidence, SameEvidence
<1>2. ExistingReviewIds(drafts') = ExistingReviewIds(drafts)
  <2>1. ASSUME NEW i
        PROVE  i \in ExistingReviewIds(drafts') <=> i \in ExistingReviewIds(drafts)
    BY DEF ExistingReviewIds, KeepsEvidence, SameEvidence
  <2> QED
    BY <2>1
<1>3. QueueComplete'
  BY <1>2 DEF EvidenceInv, QueueComplete
<1> QED
  BY <1>1, <1>3 DEF EvidenceInv

LEMMA WriteDraftKeepsEvidence ==
  ASSUME TypeOK, EvidenceInv, NEW r \in queue, WriteDraft(r)
  PROVE  EvidenceInv'
<1>1. /\ r \in Review /\ r.id \in ReviewId /\ r \in reviews /\ r.sig \in Sig /\ r.id \in Nat
      /\ written' = written \cup {r.id} /\ queue' = queue \ {r}
      /\ UNCHANGED <<reviews, nextReview, handler, step>>
      /\ \A o \in reviews : o.id \in Nat
  BY DEF TypeOK, Review, ReviewId, EvidenceInv, QueueComplete, WriteDraft, control, context
<1>2. \A o \in reviews : o.id \notin written' /\ o.id \in ExistingReviewIds(drafts)
                         => o \in queue' /\ r.id < o.id
  <2> SUFFICES ASSUME NEW o \in reviews, o.id \notin written', o.id \in ExistingReviewIds(drafts)
               PROVE  o \in queue' /\ r.id < o.id
    OBVIOUS
  <2>1. o \in queue /\ o.id # r.id
    BY <1>1 DEF EvidenceInv, QueueComplete, WriteDraft
  <2>2. r.id <= o.id
    BY <2>1 DEF WriteDraft
  <2> QED
    BY <1>1, <2>1, <2>2
<1>3. CASE drafts' = drafts
  BY <1>1, <1>2, <1>3 DEF EvidenceInv, EvidenceCountedOnce, LateReviewsShow, CounterAhead, QueueComplete
<1>4. CASE Merges(r, drafts, drafts')
  <2> DEFINE d == drafts[r.sig]
             x == drafts'[r.sig]
  <2>1. /\ \A s \in Sig : s # r.sig => drafts'[s] = drafts[s]
        /\ x \in Draft /\ x # NoDraft /\ x.source = r.id
        /\ d # NoDraft => d \in Draft
    BY <1>1, <1>4, NoDraftAssumption DEF Merges, TypeOK, DraftStore
  <2>2. x.sources = (IF d = NoDraft THEN {} ELSE d.sources) \cup {r.id}
    BY <1>4 DEF Merges
  <2>3. x.seen = Cardinality(x.sources)
    <3>1. CASE d = NoDraft
      BY <1>4, <3>1, FS_Singleton DEF Merges
    <3>2. CASE d # NoDraft
      <4>1. IsFiniteSet(1 .. MaxReviews)
        BY PipelineAssumption, FS_Interval
      <4>2. d.sources \subseteq 1 .. MaxReviews
        BY <2>1, <3>2 DEF Draft, ReviewId
      <4>3. IsFiniteSet(d.sources) /\ d.seen = Cardinality(d.sources)
        BY <1>1, <3>2, <4>1, <4>2, FS_Subset DEF EvidenceInv, EvidenceCountedOnce
      <4> QED
        BY <1>4, <3>2, <4>3, FS_AddElement DEF Merges
    <3> QED
      BY <3>1, <3>2
  <2>4. EvidenceCountedOnce'
    BY <2>1, <2>3 DEF EvidenceInv, EvidenceCountedOnce
  <2>5. CounterAhead'
    BY <1>1, <2>1 DEF EvidenceInv, CounterAhead
  <2>6. ASSUME NEW o \in reviews, o.id \notin written', NEW s \in Sig,
               Present(drafts', s), o.id \in drafts'[s].sources
        PROVE  drafts'[s].source < o.id /\ o.id \in ExistingReviewIds(drafts)
    <3>1. CASE s # r.sig
      <4>1. drafts'[s] = drafts[s]
        BY <2>1, <3>1
      <4> QED
        BY <1>1, <2>6, <4>1 DEF EvidenceInv, LateReviewsShow, ExistingReviewIds
    <3>2. CASE s = r.sig
      <4>1. d # NoDraft /\ o.id \in d.sources
        BY <1>1, <2>2, <2>6, <3>2
      <4>2. o.id \in ExistingReviewIds(drafts)
        BY <1>1, <4>1 DEF ExistingReviewIds
      <4> QED
        BY <1>1, <1>2, <2>1, <2>6, <3>2, <4>2
    <3> QED
      BY <3>1, <3>2
  <2>7. LateReviewsShow'
    BY <1>1, <2>6 DEF LateReviewsShow
  <2>8. ASSUME NEW o \in reviews, o.id \in ExistingReviewIds(drafts') \ written'
        PROVE  o \in queue'
    <3>1. PICK s \in Sig : Present(drafts', s) /\ o.id \in drafts'[s].sources
      BY <2>8 DEF ExistingReviewIds
    <3> QED
      BY <1>2, <2>6, <2>8, <3>1
  <2>9. QueueComplete'
    BY <1>1, <2>8 DEF EvidenceInv, QueueComplete
  <2> QED
    BY <2>4, <2>5, <2>7, <2>9 DEF EvidenceInv
<1> QED
  BY <1>3, <1>4, WriteDraftMerges

LEMMA EvidenceStep ==
  ASSUME TypeOK, CopiesKnown, EvidenceInv, [Next]_vars
  PROVE  EvidenceInv'
<1>1. ASSUME NEW Q \in SUBSET reviews, BeginDraftWriter(Q) PROVE EvidenceInv'
  <2>1. /\ UNCHANGED <<drafts, reviews, nextReview, written>>
        /\ queue' \subseteq reviews
        /\ \A o \in reviews : o.id \in ExistingReviewIds(drafts) \ written => o \in queue'
    BY <1>1 DEF BeginDraftWriter, disk, context, marks
  <2> QED
    BY <2>1 DEF EvidenceInv, EvidenceCountedOnce, LateReviewsShow, CounterAhead, QueueComplete
<1>2. ASSUME NEW s \in Sig, ApproveCandidate(s) PROVE EvidenceInv'
  <2> DEFINE o == [id |-> nextReview, sig |-> s]
  <2>1. /\ reviews' = reviews \cup {o} /\ nextReview' = nextReview + 1
        /\ UNCHANGED <<drafts, written, queue>> /\ ~At("draft_writer", "loop")'
        /\ nextReview \in Nat /\ o.id = nextReview
        /\ \A p \in reviews : p.id \in Nat
        /\ \A t \in Sig : Present(drafts, t) => drafts[t].source \in Nat
    BY <1>2, PipelineAssumption
       DEF ApproveCandidate, disk, control, marks, TypeOK, Review, ReviewId, DraftStore, Draft
  <2> HIDE DEF o
  <2>2. LateReviewsShow'
    BY <2>1 DEF EvidenceInv, LateReviewsShow, CounterAhead
  <2>3. CounterAhead'
    BY <2>1 DEF EvidenceInv, CounterAhead
  <2>4. EvidenceCountedOnce' /\ QueueComplete'
    BY <2>1 DEF EvidenceInv, EvidenceCountedOnce, QueueComplete
  <2> QED
    BY <2>2, <2>3, <2>4 DEF EvidenceInv
<1>3. CASE Restart
  <2>1. /\ UNCHANGED drafts /\ reviews' = {} /\ queue' = {} /\ handler' = "update_gate"
        /\ \A s \in Sig : Present(drafts, s) => drafts[s].source < nextReview'
    BY <1>3 DEF Restart, StartProcess, PrimedCounter
  <2> QED
    BY <2>1 DEF EvidenceInv, EvidenceCountedOnce, LateReviewsShow, CounterAhead, QueueComplete
<1>4. CASE CrashInSave
  <2>1. reviews' = {} /\ queue' = {} /\ \A s \in Sig : ~Present(drafts', s)
    BY <1>4 DEF CrashInSave, StartProcess, EmptyDraftStore
  <2> QED
    BY <2>1 DEF EvidenceInv, EvidenceCountedOnce, LateReviewsShow, CounterAhead, QueueComplete
<1> QED
  BY <1>1, <1>2, <1>3, <1>4, EvidenceFrame, WriteDraftKeepsEvidence, QuietStepKeepsEvidence

LEMMA EvidenceInit == Init => CopiesKnown /\ EvidenceInv
<1> SUFFICES ASSUME Init PROVE CopiesKnown /\ EvidenceInv
  OBVIOUS
<1>1. \A s \in Sig : ~Present(drafts, s)
  BY DEF Init, EmptyDraftStore
<1> QED
  BY <1>1 DEF Init, CopiesKnown, CardsCopied, TodoReady, Writing, EvidenceInv, EvidenceCountedOnce,
              LateReviewsShow, CounterAhead, QueueComplete

\* seen_count is the number of reviews merged into a card, and while every
\* card shows its newest review last, no review of this process is taken for
\* one that was merged before: across restarts that reset the counter, late
\* merges and lost stores.
THEOREM ReviewsMerged == Spec => []ReviewsMergedOnce
<1>1. Init => TypeOK /\ TodoPresent /\ CopiesKnown /\ EvidenceInv
  BY InitTyped, EvidenceInit DEF Init, TodoPresent, NoWork
<1>2. TypeOK /\ TodoPresent /\ CopiesKnown /\ EvidenceInv /\ [Next]_vars
        => (TypeOK /\ TodoPresent /\ CopiesKnown /\ EvidenceInv)'
  BY StepTyped, TodoStaysPresent, CopiesKnownStep, EvidenceStep
<1>3. TypeOK /\ EvidenceInv => ReviewsMergedOnce
  <2> SUFFICES ASSUME TypeOK, EvidenceInv, \A s \in Sig : Present(drafts, s) => InOrder(drafts[s]),
                      NEW o \in reviews, o.id \notin written, o.id \in ExistingReviewIds(drafts)
               PROVE  FALSE
    BY DEF EvidenceInv, ReviewsMergedOnce, FreshReviewIds
  <2>1. PICK s \in Sig : Present(drafts, s) /\ o.id \in drafts[s].sources
    BY DEF ExistingReviewIds
  <2>2. drafts[s].source < o.id /\ o.id <= drafts[s].source
    BY <2>1 DEF EvidenceInv, LateReviewsShow, InOrder
  <2>3. drafts[s].source \in Nat /\ o.id \in Nat
    BY <2>1 DEF TypeOK, DraftStore, Draft, Review, ReviewId
  <2> QED
    BY <2>2, <2>3
<1> QED
  BY <1>1, <1>2, <1>3, PTL DEF Spec

-----------------------------------------------------------------------------
(* Commits are earned.                                                     *)

\* What DraftCommitGate asks of a card before it calls it ready.
Earned(s, d) == (d.seen >= MinReadySeen \/ d.quality = "strong") /\ s \notin PredictionOnly

ReadyEarned(store) ==
  \A s \in Sig : Present(store, s) /\ store[s].status = "draft_ready_to_commit" => Earned(s, store[s])

\* The records a writer is about to add are those of ready cards.
NewRecordsReady ==
  Writing => \A i \in DOMAIN work.expsm \ DOMAIN expsm :
    LET s == work.expsm[i].sig
    IN  Present(drafts, s) /\ drafts[s].status = "draft_ready_to_commit"

ReadyInv == ReadyEarned(drafts) /\ NewRecordsReady

\* The gate calls a card ready only when it is earned.
LEMMA VerdictEarned ==
  ASSUME NEW s, NEW d \in Draft, CommitVerdict(s, d) = "draft_ready_to_commit"
  PROVE  Earned(s, d)
BY DEF CommitVerdict, QualityDecision, Earned

\* No other step makes a card ready; a merge makes a ready card pending.
LEMMA WriteDraftUnready ==
  ASSUME TypeOK, NEW r \in queue, WriteDraft(r), NEW s \in Sig
  PROVE  drafts'[s] = drafts[s] \/ drafts'[s].status # "draft_ready_to_commit"
<1> DEFINE d == drafts[r.sig]
<1>1. r \in Review /\ r.sig \in Sig /\ d \in Draft \cup {NoDraft}
  BY DEF TypeOK, Review, DraftStore
<1>2. \A q : NewDraft(r, q).status = "draft_pending_commit"
  BY DEF NewDraft
<1>3. \A q : d \in Draft => MergeDraft(d, r, q).status # "draft_ready_to_commit"
  BY DEF MergeDraft, Draft, FinalStatus
<1>4. \A g \in BOOLEAN : d \in Draft => ObserveCommitted(d, r, g).status # "draft_ready_to_commit"
  BY DEF ObserveCommitted, MergeDraft, Draft, FinalStatus
<1>5. \A x : [drafts EXCEPT ![r.sig] = x][r.sig] = x
             /\ (s # r.sig => [drafts EXCEPT ![r.sig] = x][s] = drafts[s])
  BY <1>1 DEF TypeOK, DraftStore
<1>6. ASSUME NEW x, x.status # "draft_ready_to_commit", drafts' = [drafts EXCEPT ![r.sig] = x]
      PROVE  drafts'[s] = drafts[s] \/ drafts'[s].status # "draft_ready_to_commit"
  BY <1>5, <1>6
<1>7. drafts' \in AfterReview(r)
  BY DEF WriteDraft
<1>8. CASE drafts' = drafts
  BY <1>8
<1>9. CASE \E q \in Quality : drafts' = [drafts EXCEPT ![r.sig] = NewDraft(r, q)]
  BY <1>2, <1>6, <1>9
<1>10. CASE d \in Draft /\ \E q \in Quality : drafts' = [drafts EXCEPT ![r.sig] = MergeDraft(d, r, q)]
  BY <1>3, <1>6, <1>10
<1>11. CASE d \in Draft /\ \E g \in BOOLEAN : drafts' = [drafts EXCEPT ![r.sig] = ObserveCommitted(d, r, g)]
  BY <1>4, <1>6, <1>11
<1> HIDE DEF d
<1>12. \A q \in {"fair", "strong"} : q \in Quality
  BY DEF Quality
<1> QED
  BY <1>1, <1>7, <1>8, <1>9, <1>10, <1>11, <1>12 DEF AfterReview, d

LEMMA ReadyEarnedStep ==
  ASSUME TypeOK, CopiesKnown, ReadyEarned(drafts), [Next]_vars
  PROVE  ReadyEarned(drafts')
<1>1. CASE ReviewCommittedDrafts
  <2>1. KeepsEvidence(drafts, drafts')
    BY <1>1, ReviewsKeepEvidence
  <2>2. PICK id : /\ \A s \in NeedsUpdateReview : id[s] \in Nat
                  /\ drafts' = [s \in Sig |-> IF s \in NeedsUpdateReview
                                              THEN ApplyReview(drafts[s], id[s]) ELSE drafts[s]]
    BY <1>1, UpdateReviewIds
  <2>3. \A s \in NeedsUpdateReview : drafts'[s].status = drafts[s].status
    BY <2>2 DEF NeedsUpdateReview, ApplyReview, TypeOK, DraftStore, Draft
  <2> QED
    BY <2>1, <2>2, <2>3 DEF KeepsEvidence, SameEvidence, ReadyEarned, Earned
<1>2. CASE ReviewDrafts
  <2>1. KeepsEvidence(drafts, drafts')
    BY <1>2, ReviewsKeepEvidence
  <2>2. ASSUME NEW s \in NeedsCommitReview
        PROVE  drafts[s] \in Draft /\ drafts'[s].status = CommitVerdict(s, drafts[s])
    BY <1>2 DEF ReviewDrafts, NeedsCommitReview, TypeOK, DraftStore, Draft
  <2>3. \A s \in Sig : s \notin NeedsCommitReview => drafts'[s] = drafts[s]
    BY <1>2 DEF ReviewDrafts
  <2> QED
    BY <2>1, <2>2, <2>3, VerdictEarned DEF KeepsEvidence, SameEvidence, ReadyEarned, Earned
<1>3. ASSUME NEW r \in queue, WriteDraft(r) PROVE ReadyEarned(drafts')
  <2>1. \A s \in Sig : drafts'[s] = drafts[s] \/ drafts'[s].status # "draft_ready_to_commit"
    BY <1>3, WriteDraftUnready
  <2> QED
    BY <2>1 DEF ReadyEarned
<1>4. ASSUME NEW h \in Writers, ReplaceDrafts(h) PROVE ReadyEarned(drafts')
  BY <1>4 DEF ReplaceDrafts, Writers, Writing, CopiesKnown, CardsCopied, CopiedFrom, SameEvidence,
              ReadyEarned, Earned
<1>5. CASE CrashInSave
  BY <1>5 DEF CrashInSave, EmptyDraftStore, ReadyEarned
<1> QED
  BY <1>1, <1>2, <1>3, <1>4, <1>5, DraftsFrame

LEMMA NewRecordsReadyStep ==
  ASSUME TypeOK, TodoPresent, CopiesKnown, NewRecordsReady, [Next]_vars
  PROVE  NewRecordsReady'
<1>1. CASE BeginCommit \/ BeginUpdate
  BY <1>1 DEF BeginCommit, BeginUpdate, LoadStores, disk, NewRecordsReady
<1>2. ASSUME NEW s \in Sig, CommitDraft(s) PROVE NewRecordsReady'
  <2> DEFINE d == work.drafts[s]
  <2>1. /\ Writing /\ s \in work.todo /\ UNCHANGED <<drafts, expsm>> /\ work.expsm \in Seq(Record)
        /\ work.expsm = work'.expsm => NewRecordsReady'
    BY <1>2 DEF CommitDraft, TakeDraft, Writing, disk, control, NewRecordsReady, TypeOK
  <2>2. d \in Draft /\ d = drafts[s] /\ Present(drafts, s)
    BY <1>2, <2>1, CommitDraftCases, NoDraftAssumption DEF CopiesKnown, CardsCopied
  <2>3. CASE Committable(d) /\ work'.expsm = Append(work.expsm, NewRecord(s, d.seen))
    <3>1. \A i \in DOMAIN work'.expsm :
            \/ i \in DOMAIN work.expsm /\ work'.expsm[i] = work.expsm[i]
            \/ work'.expsm[i] = NewRecord(s, d.seen)
      BY <2>1, <2>3
    <3>2. NewRecord(s, d.seen).sig = s /\ d.status = "draft_ready_to_commit"
      BY <2>3 DEF NewRecord, Committable
    <3> HIDE DEF d
    <3> QED
      BY <2>1, <2>2, <3>1, <3>2 DEF NewRecordsReady
  <2> QED
    BY <1>2, <2>1, <2>3, CommitDraftCases DEF Settles
<1>3. ASSUME NEW s \in Sig, UpdateDraft(s) PROVE NewRecordsReady'
  <2>1. Writing /\ UNCHANGED <<drafts, expsm>> /\ work.expsm \in Seq(Record)
    BY <1>3 DEF UpdateDraft, TakeDraft, Writing, disk, TypeOK
  <2>2. /\ DOMAIN work'.expsm = DOMAIN work.expsm
        /\ \A i \in DOMAIN work.expsm : work'.expsm[i].sig = work.expsm[i].sig
    BY <1>3, UpdateKeepsSignatures
  <2> QED
    BY <2>1, <2>2 DEF NewRecordsReady
<1>4. ASSUME NEW h \in Writers, EndLoop(h) PROVE NewRecordsReady'
  BY <1>4 DEF EndLoop, NewRecordsReady, Writing, Writers, disk
<1>5. ASSUME NEW h \in Writers, ReplaceExpSM(h) PROVE NewRecordsReady'
  BY <1>5 DEF ReplaceExpSM, NewRecordsReady
<1>6. CASE UNCHANGED vars
  BY <1>6 DEF vars, disk, control, NewRecordsReady, Writing
<1>7. CASE ~Writing'
  BY <1>7 DEF NewRecordsReady
<1> QED
  BY <1>1, <1>2, <1>3, <1>4, <1>5, <1>6, <1>7, OutsideWriters

LEMMA ReadyInit == Init => ReadyInv
BY DEF Init, EmptyDraftStore, ReadyInv, ReadyEarned, NewRecordsReady, Writing

\* A process that writes is one the policy lets write: it does not change the
\* profile it was started with.
WritersAllowed == Writing => AllowExpSMCommit

LEMMA WritersAllowedStep ==
  ASSUME TypeOK, WritersAllowed, [Next]_vars
  PROVE  WritersAllowed'
<1>1. CASE BeginCommit \/ BeginUpdate
  BY <1>1 DEF BeginCommit, BeginUpdate, AllowExpSMCommit, AllowExpSMUpdate, WritersAllowed, env
<1>2. CASE \/ \E s \in Sig : CommitDraft(s) \/ UpdateDraft(s)
           \/ \E h \in Writers : EndLoop(h) \/ ReplaceExpSM(h)
  BY <1>2 DEF CommitDraft, UpdateDraft, TakeDraft, EndLoop, ReplaceExpSM, Writing, Writers,
              AllowExpSMCommit, WritersAllowed, env
<1>3. CASE UNCHANGED vars
  BY <1>3 DEF vars, control, env, Writing, AllowExpSMCommit, WritersAllowed
<1>4. CASE ~Writing'
  BY <1>4 DEF WritersAllowed
<1> QED
  BY <1>1, <1>2, <1>3, <1>4, OutsideWriters

\* A record appears only in a process whose policy allows it, and for a card
\* that ExpSM_drafts.json still calls ready when ExpSM_data.json is replaced,
\* with the evidence the gate asks for and a decision: between the load and
\* the write nothing can take that away.
THEOREM CommitsEarned == Spec => CommitsOnlyReady
<1>1. Init => TypeOK /\ TodoPresent /\ CopiesKnown /\ ReadyInv /\ WritersAllowed
  BY InitTyped, EvidenceInit, ReadyInit DEF Init, TodoPresent, NoWork, Writing, WritersAllowed
<1>2. TypeOK /\ TodoPresent /\ CopiesKnown /\ ReadyInv /\ WritersAllowed /\ [Next]_vars
        => (TypeOK /\ TodoPresent /\ CopiesKnown /\ ReadyInv /\ WritersAllowed)'
  BY StepTyped, TodoStaysPresent, CopiesKnownStep, ReadyEarnedStep, NewRecordsReadyStep,
     WritersAllowedStep DEF ReadyInv
<1>3. TypeOK /\ ReadyInv /\ WritersAllowed /\ [Next]_vars
        => [\A i \in DOMAIN expsm' \ DOMAIN expsm :
              LET s == expsm'[i].sig
              IN  /\ Present(drafts, s) /\ drafts[s].status = "draft_ready_to_commit"
                  /\ drafts[s].seen >= MinReadySeen \/ drafts[s].quality = "strong"
                  /\ s \notin PredictionOnly /\ AllowExpSMCommit]_vars
  <2> SUFFICES ASSUME TypeOK, ReadyInv, WritersAllowed, [Next]_vars, NEW i \in DOMAIN expsm' \ DOMAIN expsm
               PROVE  LET s == expsm'[i].sig
                      IN  /\ Present(drafts, s) /\ drafts[s].status = "draft_ready_to_commit"
                          /\ drafts[s].seen >= MinReadySeen \/ drafts[s].quality = "strong"
                          /\ s \notin PredictionOnly /\ AllowExpSMCommit
    OBVIOUS
  <2>1. PICK h \in Writers : ReplaceExpSM(h)
    BY RecordsFrame
  <2>2. Writing /\ expsm' = work.expsm
    BY <2>1 DEF ReplaceExpSM, Writing, Writers
  <2>3. expsm'[i] \in Record
    BY <2>2 DEF TypeOK
  <2> QED
    BY <2>2, <2>3 DEF Record, ReadyInv, NewRecordsReady, ReadyEarned, Earned,
              WritersAllowed
<1> QED
  BY <1>1, <1>2, <1>3, PTL DEF Spec, CommitsOnlyReady

-----------------------------------------------------------------------------
(* The life of a committed card.                                           *)

\* Only committed cards have an update status; an approval comes with the
\* evidence, the flag and the id of its review; an applied update is the end.
LifeFits(d) ==
  /\ d.update # "none" => d.status = "draft_committed"
  /\ d.update = "approved_pending_update_writer" => d.post > 0 /\ d.pending /\ d.review # 0
  /\ d.applied # 0 => d.update = "updated_in_expsm" /\ ~d.pending

LivesFit(store) == \A s \in Sig : Present(store, s) => LifeFits(store[s])

\* What the draft writer and the commit gate do to that life: nothing.
LifeKept(old, new) ==
  /\ LifeFits(new)
  /\ new.update = old.update /\ new.applied = old.applied
  /\ old.status = "draft_committed" =>
       new.status = "draft_committed" /\ new.review = old.review /\ new.exp = old.exp

LivesOn(old, new) ==
  \A s \in Sig :
    /\ Present(old, s) => Present(new, s) /\ LifeKept(old[s], new[s])
    /\ ~Present(old, s) /\ Present(new, s) => LifeFits(new[s]) /\ new[s].update = "none"

LEMMA ReviewDraftsLives ==
  ASSUME TypeOK, LivesFit(drafts), ReviewDrafts
  PROVE  LivesOn(drafts, drafts')
<1>1. ASSUME NEW s \in NeedsCommitReview
      PROVE  Present(drafts, s) /\ Present(drafts', s) /\ LifeKept(drafts[s], drafts'[s])
  <2>1. /\ drafts[s] \in Draft /\ Present(drafts, s) /\ drafts[s].status # "draft_committed"
        /\ drafts'[s] = [drafts[s] EXCEPT !.status = CommitVerdict(s, drafts[s])]
    BY DEF ReviewDrafts, NeedsCommitReview, ReviewableStatus, TypeOK, DraftStore
  <2>2. drafts'[s] \in Draft
    BY <2>1, CommitReviewType
  <2>3. drafts[s].update = "none" /\ drafts[s].applied = 0
    BY <2>1 DEF LivesFit, LifeFits, NeedsCommitReview
  <2> QED
    BY <2>1, <2>2, <2>3, NoDraftAssumption DEF LifeKept, LifeFits, Draft
<1>2. \A s \in Sig : s \notin NeedsCommitReview => drafts'[s] = drafts[s]
  BY DEF ReviewDrafts
<1> QED
  BY <1>1, <1>2 DEF LivesOn, LifeKept, LivesFit

LEMMA WriteDraftLives ==
  ASSUME TypeOK, LivesFit(drafts), NEW r \in queue, WriteDraft(r)
  PROVE  LivesOn(drafts, drafts')
<1> DEFINE d == drafts[r.sig]
<1>1. r \in Review /\ r.sig \in Sig /\ d \in Draft \cup {NoDraft}
  BY DEF TypeOK, Review, DraftStore
<1>2. ASSUME NEW x \in Draft, drafts' = [drafts EXCEPT ![r.sig] = x],
             IF d = NoDraft THEN LifeFits(x) /\ x.update = "none" ELSE LifeKept(d, x)
      PROVE  LivesOn(drafts, drafts')
  <2>1. drafts'[r.sig] = x /\ \A s \in Sig : s # r.sig => drafts'[s] = drafts[s]
    BY <1>1, <1>2 DEF TypeOK, DraftStore
  <2>2. x # NoDraft
    BY NoDraftAssumption
  <2> QED
    BY <1>1, <1>2, <2>1, <2>2 DEF LivesOn, LifeKept, LivesFit
<1>3. CASE drafts' = drafts
  BY <1>3 DEF LivesOn, LifeKept, LivesFit
<1>4. ASSUME NEW q \in {"fair", "strong"}, d = NoDraft,
             drafts' = [drafts EXCEPT ![r.sig] = NewDraft(r, q)]
      PROVE  LivesOn(drafts, drafts')
  <2>1. NewDraft(r, q) \in Draft
    BY <1>1, NewDraftType DEF Quality
  <2>2. LifeFits(NewDraft(r, q)) /\ NewDraft(r, q).update = "none"
    BY DEF NewDraft, LifeFits
  <2> QED
    BY <1>2, <1>4, <2>1, <2>2
<1>5. ASSUME NEW g \in BOOLEAN, d # NoDraft, d.status = "draft_committed",
             drafts' = [drafts EXCEPT ![r.sig] = ObserveCommitted(d, r, g)]
      PROVE  LivesOn(drafts, drafts')
  <2> DEFINE x == ObserveCommitted(d, r, g)
  <2>1. d \in Draft /\ x \in Draft /\ LifeFits(d)
    BY <1>1, <1>5, ObserveCommittedType DEF LivesFit
  <2>2. /\ x.status = "draft_committed" /\ x.review = d.review /\ x.exp = d.exp
        /\ x.applied = d.applied
    BY <1>5, <2>1 DEF ObserveCommitted, MergeDraft, Draft, FinalStatus
  <2>3. x.post = d.post + 1 /\ d.post \in Nat
    BY <2>1 DEF ObserveCommitted, MergeDraft, Draft
  <2>4. x.update = d.update /\ (x.pending <=> d.applied = 0)
    <3> DEFINE m == MergeDraft(d, r, d.quality)
    <3>1. m \in Draft /\ m.update = d.update
      BY <1>1, <2>1, MergeDraftType DEF MergeDraft, Draft
    <3> HIDE DEF m
    <3>2. x = [m EXCEPT !.snap = IF d.snap = 0 THEN d.seen ELSE d.snap,
                        !.post = m.post + 1, !.gain = g, !.pending = (d.applied = 0),
                        !.update = IF d.applied = 0 THEN m.update ELSE "updated_in_expsm"]
      BY DEF ObserveCommitted, m
    <3>3. x.pending = (d.applied = 0)
      BY <3>1, <3>2 DEF Draft
    <3>4. x.update = IF d.applied = 0 THEN m.update ELSE "updated_in_expsm"
      BY <3>1, <3>2 DEF Draft
    <3> QED
      BY <2>1, <3>1, <3>3, <3>4 DEF LifeFits
  <2> HIDE DEF x
  <2>5. LifeFits(x)
    BY <1>5, <2>1, <2>2, <2>3, <2>4 DEF LifeFits
  <2>6. LifeKept(d, x)
    BY <2>2, <2>4, <2>5 DEF LifeKept
  <2> QED
    BY <1>2, <1>5, <2>1, <2>6 DEF x
<1>6. ASSUME NEW q \in Quality, d # NoDraft, d.status # "draft_committed",
             drafts' = [drafts EXCEPT ![r.sig] = MergeDraft(d, r, q)]
      PROVE  LivesOn(drafts, drafts')
  <2> DEFINE x == MergeDraft(d, r, q)
  <2>1. d \in Draft /\ x \in Draft /\ LifeFits(d)
    BY <1>1, <1>6, MergeDraftType DEF LivesFit
  <2>2. x.update = d.update /\ x.applied = d.applied
    BY <2>1 DEF MergeDraft, Draft
  <2>3. LifeKept(d, x)
    BY <1>6, <2>1, <2>2 DEF LifeKept, LifeFits
  <2> QED
    BY <1>2, <1>6, <2>1, <2>3
<1>7. drafts' \in AfterReview(r)
  BY DEF WriteDraft
<1> QED
  BY <1>3, <1>4, <1>5, <1>6, <1>7 DEF AfterReview

\* The update gate reviews a card with evidence and a flag, under an id that
\* no other card of this process has.
GateReviews(id) ==
  /\ \A s \in NeedsUpdateReview :
       /\ id[s] \in Nat \ {0} /\ nextUpdateReview <= id[s] /\ id[s] < nextUpdateReview'
       /\ drafts[s] \in Draft
  /\ \A s, t \in NeedsUpdateReview : id[s] = id[t] => s = t
  /\ drafts' = [s \in Sig |-> IF s \in NeedsUpdateReview
                              THEN ApplyReview(drafts[s], id[s]) ELSE drafts[s]]

LEMMA GateReviewIds ==
  ASSUME TypeOK, ReviewCommittedDrafts
  PROVE  (\E id : GateReviews(id)) /\ nextUpdateReview <= nextUpdateReview'
<1> DEFINE T == NeedsUpdateReview
           n == Cardinality(T)
<1>1. n \in Nat /\ nextUpdateReview \in Nat \ {0} /\ nextUpdateReview' = nextUpdateReview + n
  <2>1. IsFiniteSet(T)
    BY PipelineAssumption, FS_Subset DEF NeedsUpdateReview
  <2> QED
    BY <2>1, FS_CardinalityType DEF ReviewCommittedDrafts, TypeOK
<1>2. PICK id \in [T -> nextUpdateReview .. nextUpdateReview + n - 1] :
        /\ \A s, t \in T : s # t => id[s] # id[t]
        /\ drafts' = [s \in Sig |-> IF s \in T THEN ApplyReview(drafts[s], id[s]) ELSE drafts[s]]
  BY DEF ReviewCommittedDrafts
<1> HIDE DEF n
<1>3. ASSUME NEW s \in T
      PROVE  /\ id[s] \in Nat \ {0} /\ nextUpdateReview <= id[s] /\ id[s] < nextUpdateReview'
             /\ drafts[s] \in Draft
  <2>1. id[s] \in nextUpdateReview .. nextUpdateReview + n - 1
    BY <1>2, <1>3
  <2>2. drafts[s] \in Draft
    BY <1>3 DEF NeedsUpdateReview, TypeOK, DraftStore
  <2> QED
    BY <1>1, <2>1, <2>2
<1> QED
  BY <1>1, <1>2, <1>3 DEF GateReviews

\* What the gate makes of a card it reviews.
LEMMA ReviewedCard ==
  ASSUME TypeOK, LivesFit(drafts), NEW id, GateReviews(id), NEW s \in NeedsUpdateReview
  PROVE  /\ Present(drafts, s) /\ Present(drafts', s) /\ LifeFits(drafts'[s])
         /\ drafts[s].status = "draft_committed" /\ drafts'[s].status = "draft_committed"
         /\ drafts'[s].exp = drafts[s].exp /\ drafts'[s].review = id[s]
         /\ drafts'[s].update # "updated_in_expsm" /\ drafts'[s].applied = 0
         /\ s \notin updateReviewed
<1> DEFINE d == drafts[s]
<1>1. /\ d \in Draft /\ drafts'[s] = ApplyReview(d, id[s]) /\ id[s] \in Nat \ {0}
      /\ Present(drafts, s) /\ d.status = "draft_committed" /\ d.post > 0 /\ d.pending
      /\ s \notin updateReviewed /\ LifeFits(d) /\ s \in Sig
  BY DEF GateReviews, NeedsUpdateReview, LivesFit
<1>2. drafts'[s] \in Draft
  BY <1>1, ApplyReviewType
<1>3. /\ drafts'[s].status = "draft_committed" /\ drafts'[s].exp = d.exp
      /\ drafts'[s].review = id[s] /\ drafts'[s].update = UpdateVerdict(d)
      /\ drafts'[s].post = d.post /\ drafts'[s].pending /\ drafts'[s].applied = d.applied
  BY <1>1 DEF ApplyReview, Draft
<1>4. d.applied = 0
  BY <1>1 DEF LifeFits
<1>5. UpdateVerdict(d) # "updated_in_expsm"
  BY DEF UpdateVerdict
<1> QED
  BY <1>1, <1>2, <1>3, <1>4, <1>5, NoDraftAssumption DEF LifeFits

\* The copies of a writer fit too, so the file that replaces the cards does.
LEMMA CopiesLives ==
  ASSUME CopiesKnown, LivesFit(drafts), Writing
  PROVE  LivesFit(work.drafts)
BY DEF CopiesKnown, CardsCopied, CopiedFrom, SameEvidence, LivesFit, LifeFits

LEMMA LivesStep ==
  ASSUME TypeOK, CopiesKnown, LivesFit(drafts), [Next]_vars
  PROVE  LivesFit(drafts')
<1>1. CASE ReviewCommittedDrafts
  <2>1. PICK id : GateReviews(id)
    BY <1>1, GateReviewIds
  <2>2. \A s \in NeedsUpdateReview : LifeFits(drafts'[s])
    BY <2>1, ReviewedCard
  <2>3. \A s \in Sig : s \notin NeedsUpdateReview => drafts'[s] = drafts[s]
    BY <2>1 DEF GateReviews
  <2> QED
    BY <2>2, <2>3 DEF LivesFit
<1>2. CASE ReviewDrafts \/ \E r \in queue : WriteDraft(r)
  <2>1. LivesOn(drafts, drafts')
    BY <1>2, ReviewDraftsLives, WriteDraftLives
  <2> QED
    BY <2>1 DEF LivesOn, LifeKept, LivesFit
<1>3. ASSUME NEW h \in Writers, ReplaceDrafts(h) PROVE LivesFit(drafts')
  BY <1>3, CopiesLives DEF ReplaceDrafts, Writers, Writing
<1>4. CASE CrashInSave
  BY <1>4 DEF CrashInSave, EmptyDraftStore, LivesFit
<1> QED
  BY <1>1, <1>2, <1>3, <1>4, DraftsFrame

-----------------------------------------------------------------------------
(* The reviews of this process.  A card is reviewed once per process, each *)
(* card under an id of its own; an approved card in the file of a process  *)
(* that may apply updates has been reviewed by that process.               *)

ReviewedHere ==
  /\ \A s \in updateReviewed : /\ Present(drafts, s) /\ drafts[s].status = "draft_committed"
                               /\ drafts[s].review < nextUpdateReview
  /\ \A s, t \in updateReviewed : drafts[s].review = drafts[t].review => s = t
  /\ \A a \in appliedIds : a < nextUpdateReview

GateHasRun ==
  /\ consolidated /\ readable =>
       \A s \in Sig : Present(drafts, s) /\ drafts[s].update = "approved_pending_update_writer"
         => s \in updateReviewed
  /\ Writing => consolidated /\ readable

LifeInv == LivesFit(drafts) /\ ReviewedHere /\ GateHasRun

\* The steps that end a process.
NewProcess == Restart \/ CrashInSave

\* The steps that change the gate's and the update writer's memory.
LEMMA MarksFrame ==
  ASSUME [Next]_vars
  PROVE  \/ NewProcess
         \/ ReviewCommittedDrafts
         \/ SkipUpdateGate
         \/ \E s \in Sig : UpdateDraft(s)
         \/ UNCHANGED <<updateReviewed, nextUpdateReview, appliedIds, consolidated, readable, restarts>>
<1>1. CASE EnterChain \/ LeaveChain \/ EndWriteReview \/ ReturnEarly
           \/ EndDraftWriter \/ CommitGateStoreError \/ Reload \/ BeginCommit \/ BeginUpdate
           \/ (\E s \in Sig : ApproveCandidate(s)) \/ (\E Q \in SUBSET reviews : BeginDraftWriter(Q))
  BY <1>1 DEF EnterChain, LeaveChain, EndWriteReview, ReturnEarly, EndDraftWriter,
        CommitGateStoreError, Reload, BeginCommit, BeginUpdate, ApproveCandidate, BeginDraftWriter,
        disk, context, marks, env
<1>2. CASE (\E s \in Sig : CommitDraft(s)) \/ ReviewDrafts \/ (\E r \in queue : WriteDraft(r))
  BY <1>2 DEF CommitDraft, ReviewDrafts, WriteDraft, disk, context, env
<1>3. CASE \E h \in Writers : EndLoop(h) \/ ReplaceExpSM(h) \/ ReplaceDrafts(h) \/ ReplaceFails(h)
  BY <1>3 DEF EndLoop, ReplaceExpSM, ReplaceDrafts, ReplaceFails, disk, context, marks, env
<1>4. CASE UNCHANGED vars
  BY <1>4 DEF vars, disk, context, marks, env
<1> QED
  BY <1>1, <1>2, <1>3, <1>4 DEF Next, NewProcess

LEMMA NewProcessForgets ==
  ASSUME TypeOK, NewProcess
  PROVE  /\ updateReviewed' = {} /\ appliedIds' = {} /\ consolidated' = FALSE /\ ~Writing'
         /\ restarts' = restarts + 1 /\ UNCHANGED <<expsm, faults>>
         /\ drafts' \in {drafts, EmptyDraftStore}
BY DEF NewProcess, Restart, CrashInSave, StartProcess, Writing

\* The cards that count for the reviews of a process, through the steps that
\* review nothing: committed cards keep their review and their experience,
\* and no card becomes approved.
ReviewsKept(old, new) ==
  \A s \in Sig :
    /\ Present(old, s) /\ old[s].status = "draft_committed" =>
         /\ Present(new, s) /\ new[s].status = "draft_committed"
         /\ new[s].review = old[s].review /\ new[s].exp = old[s].exp
    /\ Present(new, s) /\ new[s].update = "approved_pending_update_writer" =>
         Present(old, s) /\ old[s].update = "approved_pending_update_writer"

LEMMA ReviewsKeptStep ==
  ASSUME TypeOK, StoresInv, CopiesKnown, LivesFit(drafts), [Next]_vars,
         ~NewProcess, ~ReviewCommittedDrafts
  PROVE  ReviewsKept(drafts, drafts')
<1>1. CASE UNCHANGED drafts
  BY <1>1 DEF ReviewsKept
<1>2. CASE ReviewDrafts \/ \E r \in queue : WriteDraft(r)
  <2>1. LivesOn(drafts, drafts')
    BY <1>2, ReviewDraftsLives, WriteDraftLives
  <2> QED
    BY <2>1 DEF LivesOn, LifeKept, ReviewsKept
<1>3. ASSUME NEW h \in Writers, ReplaceDrafts(h) PROVE ReviewsKept(drafts, drafts')
  <2>1. Writing /\ drafts' = work.drafts
    BY <1>3 DEF ReplaceDrafts, Writing, Writers
  <2>2. KeepsFinals(drafts, work.drafts)
    BY <2>1 DEF StoresInv, CopiesInv
  <2> QED
    BY <2>1, <2>2 DEF CopiesKnown, CardsCopied, CopiedFrom, KeepsFinals, FinalStatus, ReviewsKept
<1> QED
  BY <1>1, <1>2, <1>3, DraftsFrame DEF NewProcess

\* An update writer handles only cards this process has reviewed.
LEMMA TodoReviewed ==
  ASSUME TypeOK, TodoPresent, CopiesKnown, LifeInv, NEW s \in Sig, UpdateDraft(s)
  PROVE  /\ Writing /\ s \in work.todo /\ work.drafts[s] = drafts[s]
         /\ UpdateReady(drafts[s]) /\ s \in updateReviewed
         /\ drafts[s].review < nextUpdateReview
<1>1. /\ Writing /\ s \in work.todo /\ handler = "update_writer" /\ step # "start"
  BY DEF UpdateDraft, TakeDraft, Writing
<1>2. work.drafts[s] = drafts[s] /\ UpdateReady(drafts[s])
  BY <1>1 DEF CopiesKnown, CardsCopied, TodoReady
<1>3. Present(drafts, s)
  BY <1>1, <1>2 DEF TodoPresent
<1>4. s \in updateReviewed
  BY <1>1, <1>2, <1>3 DEF LifeInv, GateHasRun, UpdateReady
<1> QED
  BY <1>1, <1>2, <1>4 DEF LifeInv, ReviewedHere

LEMMA ReviewedHereStep ==
  ASSUME TypeOK, TodoPresent, StoresInv, CopiesKnown, LifeInv, [Next]_vars
  PROVE  ReviewedHere'
<1>1. CASE NewProcess
  BY <1>1, NewProcessForgets DEF ReviewedHere
<1>2. CASE ReviewCommittedDrafts
  <2>1. PICK id : GateReviews(id)
    BY <1>2, GateReviewIds
  <2>2. /\ updateReviewed' = updateReviewed \cup NeedsUpdateReview /\ UNCHANGED appliedIds
        /\ nextUpdateReview <= nextUpdateReview'
        /\ nextUpdateReview \in Nat /\ nextUpdateReview' \in Nat /\ appliedIds \subseteq Nat
        /\ updateReviewed \subseteq Sig
    BY <1>2, GateReviewIds, UpdateReviewIds DEF ReviewCommittedDrafts, TypeOK
  <2>3. \A s \in NeedsUpdateReview :
          /\ Present(drafts', s) /\ drafts'[s].status = "draft_committed"
          /\ drafts'[s].review = id[s] /\ s \notin updateReviewed
    BY <2>1, ReviewedCard DEF LifeInv
  <2>4. \A s \in NeedsUpdateReview :
          id[s] \in Nat /\ nextUpdateReview <= id[s] /\ id[s] < nextUpdateReview'
    BY <2>1 DEF GateReviews
  <2>5. \A s \in updateReviewed : drafts'[s] = drafts[s] /\ drafts[s] \in Draft
    BY <2>1, <2>2, <2>3 DEF GateReviews, LifeInv, ReviewedHere, TypeOK, DraftStore
  <2>6. \A s \in updateReviewed : drafts[s].review \in Nat
    BY <2>5 DEF Draft
  <2>7. \A s, t \in NeedsUpdateReview : id[s] = id[t] => s = t
    BY <2>1 DEF GateReviews
  <2>8. ReviewedHere
    BY DEF LifeInv
  <2>9. \A s \in updateReviewed' : /\ Present(drafts', s) /\ drafts'[s].status = "draft_committed"
                                   /\ drafts'[s].review < nextUpdateReview'
    BY <2>2, <2>3, <2>4, <2>5, <2>6, <2>8 DEF ReviewedHere
  <2>10. \A s, t \in updateReviewed' : drafts'[s].review = drafts'[t].review => s = t
    BY <2>2, <2>3, <2>4, <2>5, <2>6, <2>7, <2>8 DEF ReviewedHere
  <2>11. \A a \in appliedIds' : a < nextUpdateReview'
    <3>1. appliedIds' = appliedIds /\ \A a \in appliedIds : a \in Nat
      BY <2>2
    <3>2. \A a \in appliedIds : a < nextUpdateReview
      BY <2>8 DEF ReviewedHere
    <3>3. \A a \in Nat : a < nextUpdateReview => a < nextUpdateReview'
      BY <2>2
    <3> QED
      BY <3>1, <3>2, <3>3
  <2> QED
    BY <2>9, <2>10, <2>11 DEF ReviewedHere
<1>3. CASE ~NewProcess /\ ~ReviewCommittedDrafts
  <2>1. ReviewsKept(drafts, drafts')
    BY <1>3, ReviewsKeptStep DEF LifeInv
  <2>2. UNCHANGED <<updateReviewed, nextUpdateReview>>
    BY <1>3, MarksFrame DEF SkipUpdateGate, UpdateDraft, marks
  <2>3. \A a \in appliedIds' : a < nextUpdateReview
    <3>1. CASE UNCHANGED appliedIds
      BY <3>1 DEF LifeInv, ReviewedHere
    <3>2. ASSUME NEW s \in Sig, UpdateDraft(s) PROVE \A a \in appliedIds' : a < nextUpdateReview
      <4>1. drafts[s].review < nextUpdateReview /\ work.drafts[s] = drafts[s]
        BY <3>2, TodoReviewed
      <4>2. appliedIds' \subseteq appliedIds \cup {drafts[s].review}
        BY <3>2, <4>1 DEF UpdateDraft, SettleApplied, ApplyUpdate
      <4> QED
        BY <4>1, <4>2 DEF LifeInv, ReviewedHere
    <3> QED
      BY <1>3, <3>1, <3>2, MarksFrame DEF SkipUpdateGate, marks
  <2>4. updateReviewed \subseteq Sig
    BY DEF TypeOK
  <2> QED
    BY <2>1, <2>2, <2>3, <2>4 DEF ReviewsKept, LifeInv, ReviewedHere
<1> QED
  BY <1>1, <1>2, <1>3

LEMMA GateHasRunStep ==
  ASSUME TypeOK, StoresInv, CopiesKnown, LifeInv, [Next]_vars
  PROVE  GateHasRun'
<1>1. Writing' => consolidated' /\ readable'
  <2>1. CASE BeginCommit \/ BeginUpdate
    BY <2>1 DEF BeginCommit, BeginUpdate, disk, context
  <2>2. CASE (\E s \in Sig : CommitDraft(s) \/ UpdateDraft(s))
    BY <2>2 DEF CommitDraft, UpdateDraft, TakeDraft, Writing, disk, context, LifeInv, GateHasRun
  <2>3. CASE \E h \in Writers : EndLoop(h) \/ ReplaceExpSM(h)
    BY <2>3 DEF EndLoop, ReplaceExpSM, Writing, Writers, disk, context, LifeInv, GateHasRun
  <2>4. CASE UNCHANGED vars
    BY <2>4 DEF vars, disk, control, context, Writing, LifeInv, GateHasRun
  <2> QED
    BY <2>1, <2>2, <2>3, <2>4, OutsideWriters
<1>2. consolidated' /\ readable' =>
        \A s \in Sig : Present(drafts', s) /\ drafts'[s].update = "approved_pending_update_writer"
          => s \in updateReviewed'
  <2>1. CASE NewProcess
    BY <2>1, NewProcessForgets
  <2>2. CASE ReviewCommittedDrafts
    <3>1. PICK id : GateReviews(id)
      BY <2>2, GateReviewIds
    <3>2. ASSUME NEW s \in Sig, s \notin NeedsUpdateReview, Present(drafts, s),
                 drafts[s].update = "approved_pending_update_writer"
          PROVE  s \in updateReviewed
      BY <3>2 DEF NeedsUpdateReview, LifeInv, LivesFit, LifeFits
    <3>3. updateReviewed' = updateReviewed \cup NeedsUpdateReview
      BY <2>2 DEF ReviewCommittedDrafts
    <3> QED
      BY <3>1, <3>2, <3>3 DEF GateReviews
  <2>3. CASE ~NewProcess /\ ~ReviewCommittedDrafts
    <3>1. ReviewsKept(drafts, drafts')
      BY <2>3, ReviewsKeptStep DEF LifeInv
    <3>2. UNCHANGED updateReviewed /\ (consolidated' /\ readable' => consolidated /\ readable)
      <4>1. CASE SkipUpdateGate
        BY <4>1 DEF SkipUpdateGate, marks, disk, TypeOK
      <4>2. CASE \E s \in Sig : UpdateDraft(s)
        BY <4>2 DEF UpdateDraft, disk, context
      <4> QED
        BY <2>3, <4>1, <4>2, MarksFrame
    <3> QED
      BY <3>1, <3>2 DEF ReviewsKept, LifeInv, GateHasRun
  <2> QED
    BY <2>1, <2>2, <2>3
<1> QED
  BY <1>1, <1>2 DEF GateHasRun

LEMMA LifeStep ==
  ASSUME TypeOK, TodoPresent, StoresInv, CopiesKnown, LifeInv, [Next]_vars
  PROVE  LifeInv'
<1>1. LivesFit(drafts')
  BY LivesStep DEF LifeInv
<1> QED
  BY <1>1, ReviewedHereStep, GateHasRunStep DEF LifeInv

LEMMA LifeInit == Init => LifeInv
BY DEF Init, EmptyDraftStore, LifeInv, LivesFit, ReviewedHere, GateHasRun, Writing

-----------------------------------------------------------------------------
(* The records a writer is about to write: the commit writer only adds     *)
(* records without updates, the update writer only adds one update to the  *)
(* records of cards it has handled and that had none.                      *)

Learns ==
  handler = "commit_writer" /\ step # "start" =>
    \A i \in DOMAIN work.expsm :
      work.expsm[i].updates = IF i \in DOMAIN expsm THEN expsm[i].updates ELSE 0

Strengthens ==
  handler = "update_writer" /\ step # "start" =>
    /\ DOMAIN work.expsm = DOMAIN expsm
    /\ \A i \in DOMAIN expsm :
         \/ work.expsm[i].updates = expsm[i].updates
         \/ /\ work.expsm[i].updates = expsm[i].updates + 1
            /\ expsm[i].sig \notin work.todo
            /\ Present(drafts, expsm[i].sig) /\ drafts[expsm[i].sig].applied = 0

RecordsInv == Learns /\ Strengthens

\* What one turn of the commit writer's loop does to the records.
LEMMA CommitDraftRecords ==
  ASSUME TypeOK, TodoPresent, NEW s \in Sig, CommitDraft(s)
  PROVE  /\ DOMAIN work.expsm \subseteq DOMAIN work'.expsm
         /\ \A i \in DOMAIN work.expsm : work'.expsm[i] = work.expsm[i]
         /\ \A i \in DOMAIN work'.expsm \ DOMAIN work.expsm : work'.expsm[i].updates = 0
<1> DEFINE d == work.drafts[s]
<1>1. CASE work'.expsm = work.expsm
  BY <1>1
<1>2. CASE work'.expsm = Append(work.expsm, NewRecord(s, d.seen))
  <2>1. work.expsm \in Seq(Record)
    BY DEF TypeOK
  <2>2. NewRecord(s, d.seen).updates = 0
    BY DEF NewRecord
  <2> HIDE DEF NewRecord, d
  <2> QED
    BY <1>2, <2>1, <2>2
<1> QED
  BY <1>1, <1>2, CommitDraftCases DEF Settles

\* ... and one turn of the update writer's: nothing, or one more update of
\* the record of the card's signature, whose review is then applied.
LEMMA UpdateDraftRecords ==
  ASSUME TypeOK, TodoPresent, StoresInv, CopiesKnown, LifeInv, NEW s \in Sig, UpdateDraft(s)
  PROVE  LET i == drafts[s].exp
         IN  \/ work'.expsm = work.expsm /\ UNCHANGED appliedIds
             \/ /\ i \in DOMAIN work.expsm /\ work.expsm[i].sig = s
                /\ DOMAIN work'.expsm = DOMAIN work.expsm
                /\ \A j \in DOMAIN work.expsm : j # i => work'.expsm[j] = work.expsm[j]
                /\ work'.expsm[i].sig = s /\ work'.expsm[i].updates = work.expsm[i].updates + 1
                /\ drafts[s].review \notin appliedIds
                /\ appliedIds' = appliedIds \cup {drafts[s].review}
<1> DEFINE d == drafts[s]
<1>1. /\ Writing /\ work.drafts[s] = d /\ UpdateReady(d) /\ Present(drafts, s)
  BY TodoReviewed DEF TodoPresent
<1>2. CASE /\ d.exp \in DOMAIN work.expsm
           /\ work'.expsm = [work.expsm EXCEPT ![d.exp] = UpdateRecord(work.expsm[d.exp], d)]
           /\ d.review \notin appliedIds /\ appliedIds' = appliedIds \cup {d.review}
  <2>1. work.expsm \in Seq(Record) /\ work.expsm[d.exp] \in Record
    BY <1>2 DEF TypeOK
  <2>2. work.expsm[d.exp].sig = s
    BY <1>1 DEF StoresInv, CopiesInv, HasRecord, UpdateReady
  <2>3. /\ UpdateRecord(work.expsm[d.exp], d).sig = s
        /\ UpdateRecord(work.expsm[d.exp], d).updates = work.expsm[d.exp].updates + 1
    BY <2>1, <2>2 DEF UpdateRecord, Record
  <2> HIDE DEF d
  <2>4. /\ DOMAIN work'.expsm = DOMAIN work.expsm
        /\ \A j \in DOMAIN work.expsm : j # d.exp => work'.expsm[j] = work.expsm[j]
        /\ work'.expsm[d.exp] = UpdateRecord(work.expsm[d.exp], d)
    BY <1>2, <2>1
  <2> QED
    BY <1>2, <2>2, <2>3, <2>4 DEF d
<1> QED
  BY <1>1, <1>2, UpdateDraftCases DEF Settles

LEMMA RecordsInvStep ==
  ASSUME TypeOK, TodoPresent, StoresInv, CopiesKnown, LifeInv, RecordsInv, [Next]_vars
  PROVE  RecordsInv'
<1>1. CASE BeginCommit \/ BeginUpdate
  BY <1>1 DEF BeginCommit, BeginUpdate, LoadStores, disk, RecordsInv, Learns, Strengthens
<1>2. ASSUME NEW s \in Sig, CommitDraft(s) PROVE RecordsInv'
  <2>1. /\ handler = "commit_writer" /\ step # "start" /\ Writing
        /\ UNCHANGED <<expsm, handler>>
    BY <1>2 DEF CommitDraft, TakeDraft, Writing, disk, control
  <2>2. DOMAIN expsm \subseteq DOMAIN work.expsm
    BY <2>1 DEF StoresInv, CopiesInv, Grows
  <2> QED
    BY <1>2, <2>1, <2>2, CommitDraftRecords DEF RecordsInv, Learns, Strengthens
<1>3. ASSUME NEW s \in Sig, UpdateDraft(s) PROVE RecordsInv'
  <2> DEFINE k == drafts[s].exp
  <2>1. /\ handler = "update_writer" /\ step # "start" /\ Writing /\ s \in work.todo
        /\ UNCHANGED <<drafts, expsm, handler, step>>
    BY <1>3 DEF UpdateDraft, TakeDraft, Writing, disk, control
  <2>2. work'.todo = work.todo \ {s}
    BY <1>3, UpdateDraftCases DEF Settles
  <2>3. DOMAIN work.expsm = DOMAIN expsm /\ \A i \in DOMAIN expsm : work.expsm[i].sig = expsm[i].sig
    BY <2>1 DEF StoresInv, CopiesInv, Grows, RecordsInv, Strengthens
  <2>4. Present(drafts, s) /\ drafts[s].applied = 0
    <3>1. UpdateReady(drafts[s]) /\ Present(drafts, s)
      BY <1>3, TodoReviewed DEF TodoPresent
    <3> QED
      BY <3>1 DEF LifeInv, LivesFit, LifeFits, UpdateReady
  <2>5. CASE work'.expsm = work.expsm
    BY <2>1, <2>2, <2>5 DEF RecordsInv, Learns, Strengthens
  <2>6. CASE /\ k \in DOMAIN work.expsm /\ work.expsm[k].sig = s
             /\ DOMAIN work'.expsm = DOMAIN work.expsm
             /\ \A j \in DOMAIN work.expsm : j # k => work'.expsm[j] = work.expsm[j]
             /\ work'.expsm[k].updates = work.expsm[k].updates + 1
    <3>1. work.expsm[k].updates = expsm[k].updates /\ expsm[k].sig = s
      BY <2>1, <2>3, <2>6 DEF RecordsInv, Strengthens
    <3> HIDE DEF k
    <3> QED
      BY <2>1, <2>2, <2>3, <2>4, <2>6, <3>1 DEF RecordsInv, Learns, Strengthens
  <2> QED
    BY <1>3, <2>5, <2>6, UpdateDraftRecords
<1>4. ASSUME NEW h \in Writers, EndLoop(h) PROVE RecordsInv'
  <2>1. CASE UNCHANGED work
    BY <1>4, <2>1 DEF EndLoop, Writers, disk, RecordsInv, Learns, Strengthens
  <2>2. CASE step' = "start"
    BY <2>2 DEF RecordsInv, Learns, Strengthens
  <2> QED
    BY <1>4, <2>1, <2>2 DEF EndLoop
<1>5. ASSUME NEW h \in Writers, ReplaceExpSM(h) PROVE RecordsInv'
  BY <1>5 DEF ReplaceExpSM, RecordsInv, Learns, Strengthens
<1>6. CASE UNCHANGED vars
  BY <1>6 DEF vars, disk, control, RecordsInv, Learns, Strengthens
<1>7. CASE ~Writing'
  BY <1>7 DEF Writing, RecordsInv, Learns, Strengthens
<1> QED
  BY <1>1, <1>2, <1>3, <1>4, <1>5, <1>6, <1>7, OutsideWriters

LEMMA RecordsInit == Init => RecordsInv
BY DEF Init, RecordsInv, Learns, Strengthens

\* The whole inductive invariant of this module's theorems on records.
HistoryInv == TypeOK /\ TodoPresent /\ StoresInv /\ CopiesKnown /\ LifeInv /\ RecordsInv

LEMMA HistoryHolds == (Init => HistoryInv) /\ (HistoryInv /\ [Next]_vars => HistoryInv')
<1>1. Init => HistoryInv
  BY InitTyped, StoresInit, EvidenceInit, LifeInit, RecordsInit DEF Init, TodoPresent, NoWork, HistoryInv
<1>2. HistoryInv /\ [Next]_vars => HistoryInv'
  BY StepTyped, TodoStaysPresent, StoresStep, CopiesKnownStep, LifeStep, RecordsInvStep DEF HistoryInv
<1> QED
  BY <1>1, <1>2

\* How the life of a record's updates ends: once its card records an applied
\* update it gets no other, and a card told to wait for evidence is told
\* nothing else by the same process.
THEOREM UpdatesDoEnd == Spec => UpdatesEnd
<1>1. HistoryInv /\ [Next]_vars =>
        [\A s \in Sig : Present(drafts, s) /\ drafts[s].applied # 0 =>
           expsm'[drafts[s].exp].updates = expsm[drafts[s].exp].updates]_vars
  <2> SUFFICES ASSUME HistoryInv, [Next]_vars, NEW s \in Sig, Present(drafts, s), drafts[s].applied # 0
               PROVE  expsm'[drafts[s].exp].updates = expsm[drafts[s].exp].updates
    OBVIOUS
  <2> DEFINE k == drafts[s].exp
  <2>1. k # 0
    BY DEF HistoryInv, LifeInv, LivesFit, LifeFits, StoresInv, CommittedIffExperience, StatusFits
  <2>2. k \in DOMAIN expsm /\ expsm[k].sig = s
    BY <2>1 DEF HistoryInv, StoresInv, CommittedHasRecord, HasRecord
  <2>3. ASSUME NEW h \in Writers, ReplaceExpSM(h) PROVE expsm'[k].updates = expsm[k].updates
    <3>1. /\ expsm' = work.expsm /\ handler \in Writers /\ step # "start" /\ Writing
      BY <2>3 DEF ReplaceExpSM, Writing, Writers
    <3>2. k \in DOMAIN work.expsm
      BY <2>2, <3>1 DEF HistoryInv, StoresInv, CopiesInv, Grows
    <3> QED
      BY <2>2, <3>1, <3>2 DEF HistoryInv, RecordsInv, Learns, Strengthens, Writers
  <2> QED
    BY <2>3, RecordsFrame
<1>2. HistoryInv /\ [Next]_vars =>
        [\A s \in Sig : Present(drafts, s) /\ s \in updateReviewed
                        /\ drafts[s].update = "wait_more_post_commit_evidence" =>
           restarts' # restarts \/ drafts'[s].update = drafts[s].update]_vars
  <2> SUFFICES ASSUME HistoryInv, [Next]_vars, NEW s \in Sig, Present(drafts, s), s \in updateReviewed,
                      drafts[s].update = "wait_more_post_commit_evidence"
               PROVE  restarts' # restarts \/ drafts'[s].update = drafts[s].update
    OBVIOUS
  <2>1. CASE ReviewCommittedDrafts
    <3>1. drafts'[s] = drafts[s]
      <4>1. \E id : GateReviews(id)
        BY <2>1, GateReviewIds DEF HistoryInv
      <4> QED
        BY <4>1 DEF GateReviews, NeedsUpdateReview
    <3> QED
      BY <3>1
  <2>2. CASE ReviewDrafts \/ \E r \in queue : WriteDraft(r)
    <3>1. LivesOn(drafts, drafts')
      BY <2>2, ReviewDraftsLives, WriteDraftLives DEF HistoryInv, LifeInv
    <3> QED
      BY <3>1 DEF LivesOn, LifeKept
  <2>3. ASSUME NEW h \in Writers, ReplaceDrafts(h) PROVE drafts'[s].update = drafts[s].update
    BY <2>3 DEF ReplaceDrafts, Writing, Writers, HistoryInv, CopiesKnown, CardsCopied, CopiedFrom
  <2>4. CASE CrashInSave
    BY <2>4 DEF CrashInSave, StartProcess, HistoryInv, TypeOK
  <2> QED
    BY <2>1, <2>2, <2>3, <2>4, DraftsFrame
<1> QED
  BY <1>1, <1>2, HistoryHolds, PTL DEF Spec, UpdatesEnd, AppliedIsTerminal, WaitingNeedsRestart

-----------------------------------------------------------------------------
(* Updates are real.                                                       *)

\* The review of card s in this process has been applied.
AppliedHere(s) == s \in updateReviewed /\ drafts[s].review \in appliedIds

AppliedCards == {s \in Sig : AppliedHere(s)}

\* A process adds at most one update to a record: none until the review of
\* its card is applied.
Within(records, n, cards) ==
  \A i \in DOMAIN records : records[i].updates <= n + (IF records[i].sig \in cards THEN 1 ELSE 0)

CountsInv ==
  /\ Within(expsm, restarts, AppliedCards)
  /\ Writing => Within(work.expsm, restarts, AppliedCards)

\* Within a process an applied review stays applied, and only the update
\* writer's turn for a card applies its review.
LEMMA AppliedHereStep ==
  ASSUME HistoryInv, [Next]_vars, ~NewProcess, NEW s
  PROVE  /\ AppliedHere(s) => AppliedHere(s)'
         /\ AppliedHere(s)' => \/ AppliedHere(s)
                               \/ UpdateDraft(s) /\ appliedIds' # appliedIds
         /\ AppliedHere(s) => s \in Sig /\ Present(drafts, s) /\ Present(drafts', s)
                              /\ drafts'[s].exp = drafts[s].exp
<1>1. CASE ReviewCommittedDrafts
  <2>1. PICK id : GateReviews(id)
    BY <1>1, GateReviewIds DEF HistoryInv
  <2>2. updateReviewed' = updateReviewed \cup NeedsUpdateReview /\ UNCHANGED appliedIds
    BY <1>1 DEF ReviewCommittedDrafts
  <2>3. ASSUME NEW t \in NeedsUpdateReview
        PROVE  drafts'[t].review \notin appliedIds /\ t \notin updateReviewed
    <3>1. /\ drafts'[t].review = id[t] /\ id[t] \in Nat /\ nextUpdateReview <= id[t]
          /\ t \notin updateReviewed
      BY <2>1, <2>3, ReviewedCard DEF HistoryInv, LifeInv, GateReviews
    <3>2. \A a \in appliedIds : a \in Nat /\ a < nextUpdateReview
      BY DEF HistoryInv, LifeInv, ReviewedHere, TypeOK
    <3>3. nextUpdateReview \in Nat
      BY DEF HistoryInv, TypeOK
    <3> QED
      BY <3>1, <3>2, <3>3
  <2>4. \A t \in Sig : t \notin NeedsUpdateReview => drafts'[t] = drafts[t]
    BY <2>1 DEF GateReviews
  <2>5. \A t \in updateReviewed : t \in Sig /\ Present(drafts, t)
    BY DEF HistoryInv, LifeInv, ReviewedHere, TypeOK
  <2> QED
    BY <2>2, <2>3, <2>4, <2>5 DEF AppliedHere
<1>2. CASE ~ReviewCommittedDrafts
  <2>1. ReviewsKept(drafts, drafts')
    BY <1>2, ReviewsKeptStep DEF HistoryInv, LifeInv
  <2>2. UNCHANGED updateReviewed
    BY <1>2, MarksFrame DEF SkipUpdateGate, UpdateDraft, marks
  <2>3. \A t \in updateReviewed : /\ t \in Sig /\ Present(drafts, t) /\ Present(drafts', t)
                                  /\ drafts'[t].review = drafts[t].review
                                  /\ drafts'[t].exp = drafts[t].exp
    BY <2>1 DEF ReviewsKept, HistoryInv, LifeInv, ReviewedHere, TypeOK
  <2>4. CASE UNCHANGED appliedIds
    BY <2>2, <2>3, <2>4 DEF AppliedHere
  <2>5. ASSUME NEW t \in Sig, UpdateDraft(t), appliedIds' # appliedIds
        PROVE  /\ AppliedHere(s) => AppliedHere(s)'
               /\ AppliedHere(s)' => AppliedHere(s) \/ s = t
    <3>1. appliedIds' = appliedIds \cup {drafts[t].review} /\ t \in updateReviewed
      BY <2>5, UpdateDraftRecords, TodoReviewed DEF HistoryInv
    <3>2. ASSUME s \in updateReviewed, drafts[s].review = drafts[t].review PROVE s = t
      BY <3>1, <3>2 DEF HistoryInv, LifeInv, ReviewedHere
    <3> QED
      BY <2>2, <2>3, <3>1, <3>2 DEF AppliedHere
  <2>6. AppliedHere(s) => s \in Sig /\ Present(drafts, s) /\ Present(drafts', s)
                          /\ drafts'[s].exp = drafts[s].exp
    BY <2>3 DEF AppliedHere
  <2>7. \/ UNCHANGED appliedIds
        \/ \E t \in Sig : UpdateDraft(t) /\ appliedIds' # appliedIds
    BY <1>2, MarksFrame DEF SkipUpdateGate, marks
  <2> QED
    BY <2>4, <2>5, <2>6, <2>7
<1> QED
  BY <1>1, <1>2

LEMMA RestartsKept ==
  ASSUME [Next]_vars, ~NewProcess
  PROVE  UNCHANGED restarts
BY MarksFrame DEF ReviewCommittedDrafts, SkipUpdateGate, UpdateDraft, env

LEMMA WithinGrows ==
  ASSUME NEW records \in Seq(Record), NEW n \in Nat, NEW A, NEW B, A \subseteq B, Within(records, n, A)
  PROVE  Within(records, n, B) /\ \A C : Within(records, n + 1, C)
<1> SUFFICES ASSUME NEW i \in DOMAIN records, NEW C
             PROVE  /\ records[i].updates <= n + (IF records[i].sig \in B THEN 1 ELSE 0)
                    /\ records[i].updates <= n + 1 + (IF records[i].sig \in C THEN 1 ELSE 0)
  BY DEF Within
<1>1. records[i].updates \in Nat
  <2>1. records[i] \in Record
    OBVIOUS
  <2> QED
    BY <2>1 DEF Record
<1>2. records[i].updates <= n + (IF records[i].sig \in A THEN 1 ELSE 0)
  BY DEF Within
<1> QED
  BY <1>1, <1>2

LEMMA CountsStep ==
  ASSUME HistoryInv, CountsInv, [Next]_vars
  PROVE  CountsInv'
<1> USE DEF HistoryInv
<1>1. /\ expsm \in Seq(Record) /\ work.expsm \in Seq(Record)
      /\ restarts \in Nat /\ restarts' \in Nat
  BY StepTyped DEF TypeOK
<1>2. CASE NewProcess
  <2>1. restarts' = restarts + 1 /\ UNCHANGED expsm /\ ~Writing'
    BY <1>2, NewProcessForgets
  <2> QED
    BY <1>1, <2>1, WithinGrows DEF CountsInv
<1>3. CASE ~NewProcess
  <2> DEFINE A == AppliedCards
             B == AppliedCards'
  <2>1. A \subseteq B /\ restarts' = restarts
    BY <1>3, AppliedHereStep, RestartsKept DEF AppliedCards
  <2> HIDE DEF A, B
  <2>2. Within(expsm, restarts, B) /\ (Writing => Within(work.expsm, restarts, B))
    BY <1>1, <2>1, WithinGrows DEF CountsInv, A
  <2>3. Within(expsm', restarts, B)
    <3>1. ASSUME NEW h \in Writers, ReplaceExpSM(h) PROVE Within(expsm', restarts, B)
      <4>1. Writing /\ expsm' = work.expsm
        BY <3>1 DEF ReplaceExpSM, Writing, Writers
      <4> QED
        BY <2>2, <4>1
    <3> QED
      BY <2>2, <3>1, RecordsFrame
  <2>4. ASSUME Writing' PROVE Within(work'.expsm, restarts, B)
    <3>1. CASE BeginCommit \/ BeginUpdate
      <4>1. work'.expsm = expsm
        BY <3>1 DEF BeginCommit, BeginUpdate, LoadStores
      <4> QED
        BY <2>2, <4>1
    <3>2. ASSUME NEW s \in Sig, CommitDraft(s) PROVE Within(work'.expsm, restarts, B)
      <4>1. Writing
        BY <3>2 DEF CommitDraft, TakeDraft, Writing
      <4> QED
        BY <1>1, <2>2, <3>2, <4>1, CommitDraftRecords DEF Within
    <3>3. ASSUME NEW s \in Sig, UpdateDraft(s) PROVE Within(work'.expsm, restarts, B)
      <4> DEFINE k == drafts[s].exp
      <4>1. Writing /\ s \in updateReviewed
        BY <3>3, TodoReviewed
      <4>2. CASE work'.expsm = work.expsm
        BY <2>2, <4>1, <4>2
      <4>3. CASE /\ k \in DOMAIN work.expsm /\ work.expsm[k].sig = s
                 /\ DOMAIN work'.expsm = DOMAIN work.expsm
                 /\ \A j \in DOMAIN work.expsm : j # k => work'.expsm[j] = work.expsm[j]
                 /\ work'.expsm[k].sig = s /\ work'.expsm[k].updates = work.expsm[k].updates + 1
                 /\ drafts[s].review \notin appliedIds
                 /\ appliedIds' = appliedIds \cup {drafts[s].review}
        <5>1. s \notin A
          BY <4>3 DEF A, AppliedCards, AppliedHere
        <5>2. s \in B
          <6>1. UNCHANGED <<drafts, updateReviewed>>
            BY <3>3 DEF UpdateDraft, disk
          <6> QED
            BY <4>1, <4>3, <6>1 DEF B, AppliedCards, AppliedHere
        <5>3. work.expsm[k].updates \in Nat
          <6>1. work.expsm[k] \in Record
            BY <1>1, <4>3
          <6> QED
            BY <6>1 DEF Record
        <5>4. work.expsm[k].updates <= restarts
          BY <1>1, <4>1, <4>3, <5>1, <5>3 DEF CountsInv, Within, A
        <5> HIDE DEF k
        <5>5. Within(work.expsm, restarts, B)
          BY <2>2, <4>1
        <5>6. ASSUME NEW j \in DOMAIN work.expsm
              PROVE  work'.expsm[j].updates <= restarts + (IF work'.expsm[j].sig \in B THEN 1 ELSE 0)
          <6>1. CASE j = k
            BY <1>1, <4>3, <5>2, <5>3, <5>4, <6>1
          <6>2. CASE j # k
            BY <4>3, <5>5, <6>2 DEF Within
          <6> QED
            BY <6>1, <6>2
        <5> QED
          BY <4>3, <5>6 DEF Within
      <4> QED
        BY <3>3, <4>2, <4>3, UpdateDraftRecords
    <3>4. CASE \E h \in Writers : EndLoop(h) \/ ReplaceExpSM(h)
      <4>1. Writing /\ UNCHANGED work
        BY <2>4, <3>4 DEF EndLoop, ReplaceExpSM, Writing, Writers
      <4> QED
        BY <2>2, <4>1
    <3>5. CASE UNCHANGED vars
      <4>1. Writing /\ UNCHANGED work
        BY <2>4, <3>5 DEF vars, control, Writing
      <4> QED
        BY <2>2, <4>1
    <3> QED
      BY <2>4, <3>1, <3>2, <3>3, <3>4, <3>5, OutsideWriters
  <2> QED
    BY <2>1, <2>3, <2>4 DEF CountsInv, B
<1> QED
  BY <1>2, <1>3

\* The record of card d has been updated.
Recorded(d, records) == d.exp \in DOMAIN records /\ records[d.exp].updates > 0

AllRecorded(store, records) ==
  \A s \in Sig : Present(store, s) /\ store[s].update = "updated_in_expsm" => Recorded(store[s], records)

\* The records as the process sees them.
Current == IF Writing THEN work.expsm ELSE expsm

RecordedInv ==
  faults = 0 =>
    /\ AllRecorded(drafts, expsm)
    /\ Writing => AllRecorded(work.drafts, work.expsm)
    /\ \A s \in AppliedCards : Recorded(drafts[s], Current)

\* No record is lost and none loses its updates.
Remembers(old, new) ==
  \A i \in DOMAIN old : i \in DOMAIN new /\ (old[i].updates > 0 => new[i].updates > 0)

LEMMA CopiesRemember ==
  ASSUME HistoryInv, Writing
  PROVE  Remembers(expsm, work.expsm)
<1>1. /\ expsm \in Seq(Record) /\ DOMAIN expsm \subseteq DOMAIN work.expsm
      /\ handler \in Writers /\ step # "start"
  BY DEF HistoryInv, StoresInv, CopiesInv, Grows, TypeOK, Writing, Writers
<1>2. ASSUME NEW i \in DOMAIN expsm PROVE expsm[i].updates \in Nat
  <2>1. expsm[i] \in Record
    BY <1>1, <1>2
  <2> QED
    BY <2>1 DEF Record
<1> QED
  BY <1>1, <1>2 DEF HistoryInv, RecordsInv, Learns, Strengthens, Remembers, Writers

\* A turn of a writer's loop forgets nothing.
LEMMA TurnRemembers ==
  ASSUME HistoryInv, NEW s \in Sig, CommitDraft(s) \/ UpdateDraft(s)
  PROVE  Writing /\ Writing' /\ Remembers(work.expsm, work'.expsm) /\ UNCHANGED <<drafts, faults>>
<1>1. Writing /\ Writing' /\ UNCHANGED <<drafts, faults>>
  BY DEF CommitDraft, UpdateDraft, TakeDraft, Writing, disk, control, env
<1>2. CASE CommitDraft(s)
  BY <1>1, <1>2, CommitDraftRecords DEF HistoryInv, Remembers
<1>3. CASE UpdateDraft(s)
  <2>1. ASSUME NEW i \in DOMAIN work.expsm PROVE work.expsm[i].updates \in Nat
    <3>1. work.expsm[i] \in Record
      BY <2>1 DEF HistoryInv, TypeOK
    <3> QED
      BY <3>1 DEF Record
  <2> QED
    BY <1>1, <1>3, <2>1, UpdateDraftRecords DEF HistoryInv, Remembers
<1> QED
  BY <1>1, <1>2, <1>3

\* How a writer's run ends.
LEMMA LeaveWriters ==
  ASSUME [Next]_vars, Writing, ~Writing'
  PROVE  NewProcess \/ \E h \in Writers : EndLoop(h) \/ ReplaceDrafts(h) \/ ReplaceFails(h)
<1>1. CASE ReviewCommittedDrafts \/ SkipUpdateGate \/ EnterChain \/ LeaveChain \/ EndWriteReview
           \/ (\E s \in Sig : ApproveCandidate(s)) \/ ReturnEarly
  BY <1>1 DEF ReviewCommittedDrafts, SkipUpdateGate, EnterChain, LeaveChain, EndWriteReview,
              ApproveCandidate, ReturnEarly, Writing
<1>2. CASE (\E Q \in SUBSET reviews : BeginDraftWriter(Q)) \/ (\E r \in queue : WriteDraft(r))
           \/ EndDraftWriter \/ ReviewDrafts \/ CommitGateStoreError \/ Reload
  BY <1>2 DEF BeginDraftWriter, WriteDraft, EndDraftWriter, ReviewDrafts, CommitGateStoreError, Reload, Writing
<1>3. CASE BeginCommit \/ BeginUpdate \/ (\E s \in Sig : CommitDraft(s) \/ UpdateDraft(s)) \/ UNCHANGED vars
  BY <1>3 DEF BeginCommit, BeginUpdate, CommitDraft, UpdateDraft, vars, control, Writing
<1>4. CASE \E h \in Writers : ReplaceExpSM(h)
  BY <1>4 DEF ReplaceExpSM, Writing
<1> QED
  BY <1>1, <1>2, <1>3, <1>4 DEF Next, NewProcess

LEMMA CurrentRemembers ==
  ASSUME HistoryInv, [Next]_vars, ~NewProcess, faults' = faults
  PROVE  Remembers(Current, Current')
<1>1. \A a : Remembers(a, a)
  BY DEF Remembers
<1>2. CASE \E s \in Sig : CommitDraft(s) \/ UpdateDraft(s)
  BY <1>2, TurnRemembers DEF Current
<1>3. CASE BeginCommit \/ BeginUpdate
  <2>1. ~Writing /\ UNCHANGED expsm /\ work'.expsm = expsm
    BY <1>3 DEF BeginCommit, BeginUpdate, LoadStores, Writing, disk
  <2> QED
    BY <1>1, <2>1 DEF Current
<1>4. ASSUME NEW h \in Writers, EndLoop(h), Writing' PROVE Remembers(Current, Current')
  BY <1>1, <1>4 DEF EndLoop, Writing, Writers, Current, disk
<1>5. ASSUME NEW h \in Writers, ReplaceExpSM(h) PROVE Remembers(Current, Current')
  BY <1>1, <1>5 DEF ReplaceExpSM, Writing, Writers, Current
<1>6. CASE UNCHANGED vars
  BY <1>1, <1>6 DEF vars, disk, control, Writing, Current
<1>7. CASE ~Writing' /\ ~Writing
  <2>1. UNCHANGED expsm
    BY <1>7, RecordsFrame DEF ReplaceExpSM, Writing, Writers
  <2> QED
    BY <1>1, <1>7, <2>1 DEF Current
<1>8. CASE ~Writing' /\ Writing
  <2>1. ASSUME NEW h \in Writers, EndLoop(h) \/ ReplaceDrafts(h)
        PROVE  work.expsm = expsm /\ expsm' = expsm
    <3>1. CASE EndLoop(h)
      <4>1. ~work.expsmChanged /\ UNCHANGED expsm
        BY <1>8, <3>1 DEF EndLoop, Writing, disk
      <4> QED
        BY <1>8, <4>1 DEF HistoryInv, StoresInv, CopiesInv
    <3>2. CASE ReplaceDrafts(h)
      BY <1>8, <3>2 DEF ReplaceDrafts, HistoryInv, StoresInv, CopiesInv
    <3> QED
      BY <2>1, <3>1, <3>2
  <2>2. ~\E h \in Writers : ReplaceFails(h)
    BY DEF ReplaceFails, HistoryInv, TypeOK
  <2> QED
    BY <1>1, <1>8, <2>1, <2>2, LeaveWriters DEF Current
<1> QED
  BY <1>2, <1>3, <1>4, <1>5, <1>6, <1>7, <1>8, OutsideWriters DEF HistoryInv

LEMMA RecordedKept ==
  ASSUME NEW d, NEW old, NEW new, Remembers(old, new), Recorded(d, old)
  PROVE  Recorded(d, new)
BY DEF Remembers, Recorded

\* The copies of the cards.
LEMMA CopiesRecordedStep ==
  ASSUME HistoryInv, RecordedInv, [Next]_vars, ~NewProcess, faults = 0, faults' = faults, Writing'
  PROVE  AllRecorded(work'.drafts, work'.expsm)
<1> USE DEF HistoryInv
<1>1. CASE BeginCommit \/ BeginUpdate
  <2>1. work'.expsm = expsm /\ work'.drafts = drafts
    BY <1>1 DEF BeginCommit, BeginUpdate, LoadStores
  <2> QED
    BY <2>1 DEF RecordedInv
<1>2. ASSUME NEW s \in Sig, NEW x \in Draft, NEW e, NEW dc, NEW ec, Settles(s, x, e, dc, ec),
             CommitDraft(s) \/ UpdateDraft(s),
             x.update = "updated_in_expsm" => Recorded(x, e)
      PROVE  AllRecorded(work'.drafts, work'.expsm)
  <2>1. Writing /\ Remembers(work.expsm, work'.expsm)
    BY <1>2, TurnRemembers
  <2>2. /\ work'.expsm = e /\ work'.drafts[s] = x
        /\ \A t \in Sig : t # s => work'.drafts[t] = work.drafts[t]
    BY <1>2 DEF Settles, TypeOK, DraftStore
  <2>3. AllRecorded(work.drafts, work.expsm)
    BY <2>1 DEF RecordedInv
  <2> QED
    BY <1>2, <2>1, <2>2, <2>3, RecordedKept DEF AllRecorded
<1>3. ASSUME NEW s \in Sig, CommitDraft(s) PROVE AllRecorded(work'.drafts, work'.expsm)
  <2> DEFINE d == work.drafts[s]
  <2>1. /\ Writing /\ s \in work.todo /\ work.expsm \in Seq(Record)
        /\ AllRecorded(work.drafts, work.expsm) /\ StatusFits(work.drafts)
    BY <1>3 DEF CommitDraft, TakeDraft, Writing, TypeOK, RecordedInv, StoresInv, CopiesInv
  <2>2. d \in Draft /\ Present(work.drafts, s) /\ d = drafts[s] /\ LifeFits(d)
    BY <1>3, <2>1, CommitDraftCases, NoDraftAssumption
       DEF CopiesKnown, CardsCopied, LifeInv, LivesFit
  <2>3. Repaired(d) = d
    BY <2>1, <2>2 DEF StatusFits, Repaired, RepairNeeded
  <2>4. ASSUME Settles(s, d, work.expsm, work.draftChanged \/ RepairNeeded(d), work.expsmChanged)
        PROVE  AllRecorded(work'.drafts, work'.expsm)
    BY <1>2, <1>3, <2>1, <2>2, <2>4 DEF AllRecorded
  <2>5. ASSUME Committable(d), NEW k \in Nat, NEW e, NEW dc, NEW ec,
               Settles(s, MarkCommitted(d, k), e, dc, ec)
        PROVE  AllRecorded(work'.drafts, work'.expsm)
    <3>1. MarkCommitted(d, k) \in Draft /\ MarkCommitted(d, k).update = d.update
      BY <2>2, WriterChangeTypes DEF MarkCommitted, Draft
    <3>2. d.update = "none"
      BY <2>2, <2>5 DEF LifeFits, Committable
    <3> QED
      BY <1>2, <1>3, <2>5, <3>1, <3>2
  <2>6. (\A k \in ExperienceOf(work.expsm, s) : k \in Nat) /\ Len(work.expsm) + 1 \in Nat
    BY <2>1 DEF ExperienceOf
  <2> QED
    BY <1>3, <2>3, <2>4, <2>5, <2>6, CommitDraftCases
<1>4. ASSUME NEW s \in Sig, UpdateDraft(s) PROVE AllRecorded(work'.drafts, work'.expsm)
  <2> DEFINE d == work.drafts[s]
  <2>1. /\ Writing /\ d = drafts[s] /\ s \in updateReviewed /\ Present(work.drafts, s)
        /\ d \in Draft /\ AllRecorded(work.drafts, work.expsm) /\ UpdateReady(d)
    BY <1>4, TodoReviewed, UpdateDraftCases DEF TodoPresent, RecordedInv
  <2>2. ASSUME d.review \in appliedIds, NEW dc, NEW ec, Settles(s, SettledOnly(d), work.expsm, dc, ec)
        PROVE  AllRecorded(work'.drafts, work'.expsm)
    <3>1. Recorded(d, work.expsm)
      BY <2>1, <2>2 DEF RecordedInv, AppliedCards, AppliedHere, Current
    <3>2. SettledOnly(d) \in Draft /\ SettledOnly(d).exp = d.exp
      BY <2>1 DEF SettledOnly, Draft, UpdateStatus
    <3> QED
      BY <1>2, <1>4, <2>2, <3>1, <3>2 DEF Recorded
  <2>3. ASSUME NEW e, NEW dc, NEW ec, Settles(s, MarkUpdated(d), e, dc, ec), appliedIds' # appliedIds
        PROVE  AllRecorded(work'.drafts, work'.expsm)
    <3>1. MarkUpdated(d) \in Draft /\ MarkUpdated(d).exp = d.exp
      BY <2>1, WriterChangeTypes DEF MarkUpdated, Draft
    <3>2. d.exp \in DOMAIN work'.expsm /\ work'.expsm[d.exp].updates = work.expsm[d.exp].updates + 1
          /\ d.exp \in DOMAIN work.expsm
      BY <1>4, <2>1, <2>3, UpdateDraftRecords
    <3>3. work.expsm[d.exp].updates \in Nat
      <4>1. work.expsm[d.exp] \in Record
        BY <3>2 DEF TypeOK
      <4> QED
        BY <4>1 DEF Record
    <3>4. work'.expsm = e
      BY <2>3 DEF Settles
    <3>5. Recorded(MarkUpdated(d), e)
      BY <3>1, <3>2, <3>3, <3>4 DEF Recorded
    <3> QED
      BY <1>2, <1>4, <2>3, <3>1, <3>5
  <2>4. ASSUME NEW dc, NEW ec, Settles(s, d, work.expsm, dc, ec)
        PROVE  AllRecorded(work'.drafts, work'.expsm)
    BY <1>2, <1>4, <2>1, <2>4 DEF AllRecorded
  <2> QED
    BY <1>4, <2>1, <2>2, <2>3, <2>4, UpdateDraftCases
<1>5. ASSUME NEW h \in Writers, EndLoop(h) \/ ReplaceExpSM(h) PROVE AllRecorded(work'.drafts, work'.expsm)
  <2>1. Writing /\ UNCHANGED work
    BY <1>5 DEF EndLoop, ReplaceExpSM, Writing, Writers
  <2> QED
    BY <2>1 DEF RecordedInv
<1>6. CASE UNCHANGED vars
  BY <1>6 DEF vars, control, Writing, RecordedInv
<1> QED
  BY <1>1, <1>3, <1>4, <1>5, <1>6, OutsideWriters

\* The cards in the file.
LEMMA CardsRecordedStep ==
  ASSUME HistoryInv, RecordedInv, [Next]_vars, faults = 0
  PROVE  AllRecorded(drafts', expsm')
<1> USE DEF HistoryInv
<1>1. AllRecorded(drafts, expsm)
  BY DEF RecordedInv
<1>2. CASE UNCHANGED drafts
  <2>1. CASE UNCHANGED expsm
    BY <1>1, <1>2, <2>1
  <2>2. ASSUME NEW h \in Writers, ReplaceExpSM(h) PROVE AllRecorded(drafts', expsm')
    <3>1. expsm' = work.expsm /\ Remembers(expsm, work.expsm)
      BY <2>2, CopiesRemember DEF ReplaceExpSM, Writing, Writers
    <3> QED
      BY <1>1, <1>2, <3>1, RecordedKept DEF AllRecorded
  <2> QED
    BY <2>1, <2>2, RecordsFrame
<1>3. CASE ReviewCommittedDrafts
  <2>1. PICK id : GateReviews(id)
    BY <1>3, GateReviewIds
  <2>2. \A s \in NeedsUpdateReview : drafts'[s].update # "updated_in_expsm"
    BY <2>1, ReviewedCard DEF LifeInv
  <2>3. \A s \in Sig : s \notin NeedsUpdateReview => drafts'[s] = drafts[s]
    BY <2>1 DEF GateReviews
  <2>4. UNCHANGED expsm
    BY <1>3 DEF ReviewCommittedDrafts
  <2> QED
    BY <1>1, <2>2, <2>3, <2>4 DEF AllRecorded
<1>4. CASE ReviewDrafts \/ \E r \in queue : WriteDraft(r)
  <2>1. LivesOn(drafts, drafts')
    BY <1>4, ReviewDraftsLives, WriteDraftLives DEF LifeInv
  <2>2. UNCHANGED expsm
    BY <1>4 DEF ReviewDrafts, WriteDraft
  <2> QED
    BY <1>1, <2>1, <2>2 DEF LivesOn, LifeKept, AllRecorded, Recorded, LifeInv, LivesFit, LifeFits
<1>5. ASSUME NEW h \in Writers, ReplaceDrafts(h) PROVE AllRecorded(drafts', expsm')
  BY <1>5 DEF ReplaceDrafts, Writing, Writers, RecordedInv, StoresInv, CopiesInv
<1>6. CASE CrashInSave
  BY <1>6 DEF CrashInSave, EmptyDraftStore, AllRecorded
<1> QED
  BY <1>2, <1>3, <1>4, <1>5, <1>6, DraftsFrame

LEMMA FaultsGrow ==
  ASSUME TypeOK, [Next]_vars, faults' = 0
  PROVE  faults = 0
<1>1. CASE \E h \in Writers : ReplaceFails(h)
  BY <1>1 DEF ReplaceFails, TypeOK
<1>2. CASE ReviewCommittedDrafts \/ SkipUpdateGate \/ EnterChain \/ LeaveChain \/ EndWriteReview
           \/ (\E s \in Sig : ApproveCandidate(s)) \/ ReturnEarly
  BY <1>2 DEF ReviewCommittedDrafts, SkipUpdateGate, EnterChain, LeaveChain, EndWriteReview,
              ApproveCandidate, ReturnEarly, env
<1>3. CASE (\E Q \in SUBSET reviews : BeginDraftWriter(Q)) \/ (\E r \in queue : WriteDraft(r))
           \/ EndDraftWriter \/ ReviewDrafts \/ CommitGateStoreError \/ Reload \/ BeginCommit \/ BeginUpdate
  BY <1>3 DEF BeginDraftWriter, WriteDraft, EndDraftWriter, ReviewDrafts, CommitGateStoreError, Reload,
              BeginCommit, BeginUpdate, env
<1>4. CASE (\E s \in Sig : CommitDraft(s) \/ UpdateDraft(s))
           \/ (\E h \in Writers : EndLoop(h) \/ ReplaceExpSM(h) \/ ReplaceDrafts(h))
  BY <1>4 DEF CommitDraft, UpdateDraft, EndLoop, ReplaceExpSM, ReplaceDrafts, env
<1>5. CASE NewProcess \/ UNCHANGED vars
  BY <1>5 DEF NewProcess, Restart, CrashInSave, StartProcess, vars, env
<1> QED
  BY <1>1, <1>2, <1>3, <1>4, <1>5 DEF Next, NewProcess

LEMMA RecordedStep ==
  ASSUME HistoryInv, RecordedInv, [Next]_vars
  PROVE  RecordedInv'
<1> SUFFICES ASSUME faults' = 0
             PROVE  /\ AllRecorded(drafts', expsm')
                    /\ Writing' => AllRecorded(work'.drafts, work'.expsm)
                    /\ \A s \in AppliedCards' : Recorded(drafts'[s], Current')
  BY DEF RecordedInv
<1>1. faults = 0 /\ AllRecorded(drafts', expsm')
  BY FaultsGrow, CardsRecordedStep DEF HistoryInv
<1>2. CASE NewProcess
  BY <1>1, <1>2, NewProcessForgets DEF HistoryInv, AppliedCards, AppliedHere
<1>3. CASE ~NewProcess
  <2>1. Remembers(Current, Current')
    BY <1>1, <1>3, CurrentRemembers
  <2>2. ASSUME NEW s \in Sig, AppliedHere(s)' PROVE Recorded(drafts'[s], Current')
    <3>1. CASE AppliedHere(s)
      <4>1. Recorded(drafts[s], Current) /\ drafts'[s].exp = drafts[s].exp
        BY <1>1, <1>3, <2>2, <3>1, AppliedHereStep DEF RecordedInv, AppliedCards
      <4> QED
        BY <2>1, <4>1 DEF Remembers, Recorded
    <3>2. CASE UpdateDraft(s) /\ appliedIds' # appliedIds
      <4>1. UNCHANGED drafts /\ Writing'
        BY <3>2, TurnRemembers
      <4>2. /\ drafts[s].exp \in DOMAIN work.expsm /\ DOMAIN work'.expsm = DOMAIN work.expsm
            /\ work'.expsm[drafts[s].exp].updates = work.expsm[drafts[s].exp].updates + 1
        BY <3>2, UpdateDraftRecords DEF HistoryInv
      <4>3. work.expsm[drafts[s].exp].updates \in Nat
        <5>1. work.expsm[drafts[s].exp] \in Record
          BY <4>2 DEF HistoryInv, TypeOK
        <5> QED
          BY <5>1 DEF Record
      <4> QED
        BY <4>1, <4>2, <4>3 DEF Recorded, Current
    <3> QED
      BY <1>3, <2>2, <3>1, <3>2, AppliedHereStep
  <2> QED
    BY <1>1, <1>3, <2>2, CopiesRecordedStep DEF AppliedCards
<1> QED
  BY <1>2, <1>3

LEMMA CountsInit == Init => CountsInv /\ RecordedInv
<1> SUFFICES ASSUME Init PROVE CountsInv /\ RecordedInv
  OBVIOUS
<1>1. ~Writing /\ restarts = 0 /\ updateReviewed = {} /\ \A s \in Sig : ~Present(drafts, s)
  BY DEF Init, Writing, EmptyDraftStore
<1>2. \A i \in DOMAIN expsm : expsm[i].updates = 0
  BY DEF Init, NewRecord
<1> QED
  BY <1>1, <1>2 DEF CountsInv, Within, RecordedInv, AllRecorded, AppliedCards, AppliedHere

\* What the cards say of updates and what the records got agree: while no
\* write has failed a card that says it was updated belongs to an updated
\* record, and a record has at most one update for every process there was.
THEOREM UpdatesHappen == Spec => []UpdatesAreReal
<1>1. Init => HistoryInv /\ CountsInv /\ RecordedInv
  BY HistoryHolds, CountsInit
<1>2. HistoryInv /\ CountsInv /\ RecordedInv /\ [Next]_vars => (HistoryInv /\ CountsInv /\ RecordedInv)'
  BY HistoryHolds, CountsStep, RecordedStep
<1>3. HistoryInv /\ CountsInv /\ RecordedInv => UpdatesAreReal
  <2> SUFFICES ASSUME HistoryInv, CountsInv, RecordedInv PROVE UpdatesAreReal
    OBVIOUS
  <2>1. UpdatedMeansRecorded
    BY DEF RecordedInv, AllRecorded, Recorded, UpdatedMeansRecorded
  <2>2. UpdatesBounded
    <3> SUFFICES ASSUME NEW i \in DOMAIN expsm PROVE expsm[i].updates <= 1 + restarts
      BY DEF UpdatesBounded
    <3>1. expsm[i] \in Record /\ restarts \in Nat
      BY DEF HistoryInv, TypeOK
    <3>2. expsm[i].updates \in Nat
      BY <3>1 DEF Record
    <3> QED
      BY <3>1, <3>2 DEF CountsInv, Within
  <2> QED
    BY <2>1, <2>2 DEF UpdatesAreReal
<1> QED
  BY <1>1, <1>2, <1>3, PTL DEF Spec

-----------------------------------------------------------------------------
(* The chain implements ExperienceMemory.                                  *)

\* The memory a sequence of records stands for.
SignaturesOf(records) == {records[i].sig : i \in DOMAIN records}

MemoryOf(records) ==
  [s \in SignaturesOf(records) |->
     records[CHOOSE i \in DOMAIN records : records[i].sig = s].updates]

\* With one record per signature the choice of a record is no choice.
LEMMA MemoryHolds ==
  ASSUME NEW records, OneRecordPerSignature(records), NEW i \in DOMAIN records
  PROVE  records[i].sig \in SignaturesOf(records) /\ MemoryOf(records)[records[i].sig] = records[i].updates
<1> DEFINE k == CHOOSE j \in DOMAIN records : records[j].sig = records[i].sig
<1>1. records[i].sig \in SignaturesOf(records)
  BY DEF SignaturesOf
<1>2. k \in DOMAIN records /\ records[k].sig = records[i].sig
  OBVIOUS
<1>3. k = i
  BY <1>2 DEF OneRecordPerSignature
<1>4. MemoryOf(records)[records[i].sig] = records[k].updates
  BY <1>1 DEF MemoryOf
<1> QED
  BY <1>1, <1>3, <1>4

\* A memory is known from its records.
LEMMA MemoryIs ==
  ASSUME NEW records, OneRecordPerSignature(records),
         NEW m, m = [s \in SignaturesOf(records) |-> m[s]],
         \A i \in DOMAIN records : m[records[i].sig] = records[i].updates
  PROVE  MemoryOf(records) = m
<1>1. ASSUME NEW s \in SignaturesOf(records) PROVE MemoryOf(records)[s] = m[s]
  <2>1. PICK i \in DOMAIN records : records[i].sig = s
    BY DEF SignaturesOf
  <2> QED
    BY <2>1, MemoryHolds
<1>2. MemoryOf(records) = [s \in SignaturesOf(records) |-> MemoryOf(records)[s]]
  BY DEF MemoryOf
<1> QED
  BY <1>1, <1>2

\* What replacing ExpSM_data means for the memory: the commit writer learns
\* the new signatures, the update writer strengthens some old ones.
LEMMA LearnsMore ==
  ASSUME NEW old, NEW new, OneRecordPerSignature(old), OneRecordPerSignature(new), Grows(old, new),
         \A i \in DOMAIN new : new[i].updates = IF i \in DOMAIN old THEN old[i].updates ELSE 0,
         NEW T, T = SignaturesOf(new) \ SignaturesOf(old)
  PROVE  MemoryOf(new) = [s \in SignaturesOf(old) \cup T |-> IF s \in T THEN 0 ELSE MemoryOf(old)[s]]
<1> DEFINE m == [s \in SignaturesOf(old) \cup T |-> IF s \in T THEN 0 ELSE MemoryOf(old)[s]]
<1>1. SignaturesOf(old) \cup T = SignaturesOf(new)
  BY DEF SignaturesOf, Grows
<1>2. ASSUME NEW i \in DOMAIN new PROVE m[new[i].sig] = new[i].updates
  <2>1. new[i].sig \in SignaturesOf(new)
    BY DEF SignaturesOf
  <2>2. CASE i \in DOMAIN old
    <3>1. old[i].sig = new[i].sig
      BY <2>2 DEF Grows
    <3>2. old[i].sig \in SignaturesOf(old) /\ MemoryOf(old)[old[i].sig] = old[i].updates
      BY <2>2, MemoryHolds
    <3> QED
      BY <2>2, <3>1, <3>2
  <2>3. CASE i \notin DOMAIN old
    <3>1. \A j \in DOMAIN old : old[j].sig # new[i].sig
      BY <2>3 DEF Grows, OneRecordPerSignature
    <3>2. new[i].sig \in T
      BY <2>1, <3>1 DEF SignaturesOf
    <3> QED
      BY <2>3, <3>2
  <2> QED
    BY <2>2, <2>3
<1>3. m = [s \in SignaturesOf(new) |-> m[s]]
  BY <1>1
<1> HIDE DEF m
<1>4. MemoryOf(new) = m
  BY <1>2, <1>3, MemoryIs
<1> QED
  BY <1>4 DEF m

LEMMA StrengthensSome ==
  ASSUME NEW old, NEW new, OneRecordPerSignature(old), OneRecordPerSignature(new), Grows(old, new),
         DOMAIN new = DOMAIN old, \A i \in DOMAIN old : old[i].updates \in Nat,
         \A i \in DOMAIN old : new[i].updates \in {old[i].updates, old[i].updates + 1},
         NEW T, T = {s \in SignaturesOf(old) :
                       \E i \in DOMAIN old : old[i].sig = s /\ new[i].updates # old[i].updates}
  PROVE  MemoryOf(new) = [s \in SignaturesOf(old) |->
                            IF s \in T THEN MemoryOf(old)[s] + 1 ELSE MemoryOf(old)[s]]
<1> DEFINE m == [s \in SignaturesOf(old) |-> IF s \in T THEN MemoryOf(old)[s] + 1 ELSE MemoryOf(old)[s]]
<1>1. SignaturesOf(new) = SignaturesOf(old)
  BY DEF SignaturesOf, Grows
<1>2. ASSUME NEW i \in DOMAIN new PROVE m[new[i].sig] = new[i].updates
  <2>1. new[i].sig = old[i].sig
    BY DEF Grows
  <2>2. old[i].sig \in SignaturesOf(old) /\ MemoryOf(old)[old[i].sig] = old[i].updates
    BY MemoryHolds
  <2>3. old[i].sig \in T <=> new[i].updates # old[i].updates
    BY <2>2 DEF OneRecordPerSignature
  <2> QED
    BY <2>1, <2>2, <2>3
<1>3. m = [s \in SignaturesOf(new) |-> m[s]]
  BY <1>1
<1> HIDE DEF m
<1>4. MemoryOf(new) = m
  BY <1>2, <1>3, MemoryIs
<1> QED
  BY <1>4 DEF m

\* A step of the chain is a step of the memory, or none.
LEMMA StepRemembers ==
  ASSUME HistoryInv, HistoryInv', [Next]_vars
  PROVE  [Memory!Next]_(MemoryOf(expsm))
<1>1. MemoryOf(expsm) = [s \in Learned |-> expsm[CHOOSE i \in DOMAIN expsm : expsm[i].sig = s].updates]
  BY DEF MemoryOf, SignaturesOf, Learned
<1>2. CASE UNCHANGED expsm
  BY <1>2
<1>3. ASSUME NEW h \in Writers, ReplaceExpSM(h) PROVE Memory!Next
  <2>1. expsm' = work.expsm /\ handler \in Writers /\ step # "start" /\ Writing
    BY <1>3 DEF ReplaceExpSM, Writing, Writers
  <2>2. OneRecordPerSignature(expsm) /\ OneRecordPerSignature(expsm') /\ Grows(expsm, expsm')
    BY <2>1 DEF HistoryInv, StoresInv, UniqueSignature, CopiesInv
  <2>3. \A i \in DOMAIN expsm : expsm[i].updates \in Nat
    <3>1. \A i \in DOMAIN expsm : expsm[i] \in Record
      BY DEF HistoryInv, TypeOK
    <3> QED
      BY <3>1 DEF Record
  <2>4. SignaturesOf(expsm) \subseteq Sig /\ SignaturesOf(expsm') \subseteq Sig
    <3>1. \A i \in DOMAIN expsm : expsm[i] \in Record
      BY DEF HistoryInv, TypeOK
    <3>2. \A i \in DOMAIN expsm' : expsm'[i] \in Record
      BY DEF HistoryInv, TypeOK
    <3> QED
      BY <3>1, <3>2 DEF Record, SignaturesOf
  <2>5. CASE handler = "commit_writer"
    <3>1. \A i \in DOMAIN expsm' : expsm'[i].updates = IF i \in DOMAIN expsm THEN expsm[i].updates ELSE 0
      BY <2>1, <2>5 DEF HistoryInv, RecordsInv, Learns
    <3>2. PICK T \in SUBSET Sig : T = SignaturesOf(expsm') \ SignaturesOf(expsm)
      BY <2>4
    <3>3. MemoryOf(expsm') = [s \in SignaturesOf(expsm) \cup T |->
                                IF s \in T THEN 0 ELSE MemoryOf(expsm)[s]]
      BY <2>2, <3>1, <3>2, LearnsMore
    <3>4. Memory!Learn(T)
      BY <3>2, <3>3 DEF Memory!Learn, MemoryOf, SignaturesOf, Learned
    <3> QED
      BY <3>4 DEF Memory!Next
  <2>6. CASE handler = "update_writer"
    <3>1. /\ DOMAIN expsm' = DOMAIN expsm
          /\ \A i \in DOMAIN expsm : expsm'[i].updates \in {expsm[i].updates, expsm[i].updates + 1}
      BY <2>1, <2>6 DEF HistoryInv, RecordsInv, Strengthens
    <3>2. PICK T \in SUBSET Sig :
            T = {s \in SignaturesOf(expsm) : \E i \in DOMAIN expsm :
                   expsm[i].sig = s /\ expsm'[i].updates # expsm[i].updates}
      BY <2>4
    <3>3. MemoryOf(expsm') = [s \in SignaturesOf(expsm) |->
                                IF s \in T THEN MemoryOf(expsm)[s] + 1 ELSE MemoryOf(expsm)[s]]
      BY <2>2, <2>3, <3>1, <3>2, StrengthensSome
    <3>4. Memory!Strengthen(T)
      BY <3>2, <3>3 DEF Memory!Strengthen, MemoryOf, SignaturesOf, Learned
    <3> QED
      BY <3>4 DEF Memory!Next
  <2> QED
    BY <2>1, <2>5, <2>6 DEF Writers
<1> QED
  BY <1>2, <1>3, RecordsFrame

\* Whatever happens to drafts, copies, processes and writes, permanent
\* experience is learned once per signature, never forgotten, and then only
\* strengthened, one update at a time.
THEOREM MemoryRefined == Spec => MemorySpec
<1>1. Init => Memory!Init
  <2> SUFFICES ASSUME Init PROVE Memory!Init
    OBVIOUS
  <2>1. Learned \in SUBSET Sig /\ \A i \in DOMAIN expsm : expsm[i].updates = 0
    BY DEF Init, Learned, NewRecord
  <2>2. \A s \in Learned : expsm[CHOOSE i \in DOMAIN expsm : expsm[i].sig = s].updates = 0
    BY <2>1 DEF Learned
  <2> QED
    BY <2>1, <2>2 DEF Memory!Init
<1>2. HistoryInv /\ HistoryInv' /\ [Next]_vars =>
        [Memory!Next]_([s \in Learned |-> expsm[CHOOSE i \in DOMAIN expsm : expsm[i].sig = s].updates])
  BY StepRemembers DEF MemoryOf, SignaturesOf, Learned
<1> QED
  BY <1>1, <1>2, HistoryHolds, PTL DEF Spec, MemorySpec, Memory!Spec

=============================================================================
