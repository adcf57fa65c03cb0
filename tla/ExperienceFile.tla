--------------------------- MODULE ExperienceFile ---------------------------
(***************************************************************************)
(* The ExpSM data file as its CRUD utilities and the runtime's adapter see *)
(* it.  A handle (ExpSMCRUD) loads the file once, changes its own copy and *)
(* writes the whole of it after every operation; several may be open.  The *)
(* file is written in place, so a save that fails may leave it unreadable. *)
(* ExpSMAdapter reads it for matching, and PatternStore says which of the  *)
(* patterns its records name exist and how like the present frame they are.*)
(***************************************************************************)
EXTENDS PatternFiles

CONSTANTS
    Handles,        \* ExpSMCRUD objects
    Contents,       \* conditions of records, each a pattern
    RuntimeIds,     \* those the runtime writes, which begin with "pat_"
    Files,          \* the files of the pattern store, None where one does not parse
    None,
    Frame,          \* the frame the adapter matches
    Targets,        \* ids a caller may ask for
    Torn,           \* a file that does not parse; also a handle that is closed
    MaxId, MaxOps, MaxFaults    \* bounds

FileAssumption ==
    /\ RuntimeIds \subseteq Contents
    /\ Targets \subseteq 1 .. MaxId
    /\ MaxId \in Nat /\ MaxOps \in Nat /\ MaxFaults \in Nat

VARIABLES
    storedPatterns, \* PatternStore.patterns: read once, when the program starts
    file,           \* the data on disk
    copy,           \* the data of each handle
    adapter,        \* what the adapter holds: records by section, and the reload
    births,         \* history: how many records were made
    saved,          \* history: every record the file has held
    current,        \* history: the handles that know the last save
    stale,          \* history: a handle that did not know it has saved
    overwritten,    \* history: a caller asked for an id that was taken
    seen,           \* history: what the file held when the adapter read it
    ops, faults     \* bounds

vars == <<storedPatterns, file, copy, adapter, births, saved, current, stale, overwritten,
          seen, ops, faults>>
history == <<births, saved, overwritten>>

Sections == {"experience", "reflexes"}
Other(s) == IF s = "experience" THEN "reflexes" ELSE "experience"
NoRecords == [i \in {} |-> 0]
NoData == [s \in Sections |-> NoRecords]

With(records, id, r) == [i \in DOMAIN records \cup {id} |-> IF i = id THEN r ELSE records[i]]

\* Mutant: the number of records instead of the highest id.
NextId_Count(records) == Cardinality(DOMAIN records) + 1

(* _next_id.                                                               *)
NextId(records) == 1 + (IF DOMAIN records = {} THEN 0 ELSE Max(DOMAIN records))

(* _prepare_target_id; _prepare_new_id also refuses an id that is taken.    *)
IdFor(records, given) == IF given = 0 THEN NextId(records) ELSE given

(* _require_experience, _require_reflex: archived records are still there. *)
Required(h, s, id) == copy[h] # Torn /\ id \in DOMAIN copy[h][s]

(* find_experience, find_reflexes, by the status.                          *)
Found(h, s, status) == {id \in DOMAIN copy[h][s] : copy[h][s][id].status = status}

(* _make_experience, _make_reflex: born is the history of a record, the    *)
(* number of the call that made it.                                        *)
NewRecord(content, hits, origin) ==
    [born |-> births + 1, content |-> content, status |-> "active", reason |-> "none",
     hits |-> hits, origin |-> origin]

\* Mutant: the record is removed.
Archived_Removed(data, s, id, why) ==
    [data EXCEPT ![s] = [i \in DOMAIN data[s] \ {id} |-> data[s][i]]]

(* A tombstone keeps the record, and the first reason given.               *)
Archived(data, s, id, why) ==
    [data EXCEPT ![s][id].status = "archived",
                 ![s][id].reason = IF @ = "none" THEN why ELSE @]

EntriesOf(data) == UNION {{<<s, i, data[s][i].born>> : i \in DOMAIN data[s]} : s \in Sections}

(* save: the copy is changed before the file is opened, and stays changed  *)
(* when the write fails, before it truncates the file or in the middle.    *)
Save(h, data) ==
    /\ copy[h] # Torn /\ ops < MaxOps /\ ops' = ops + 1
    /\ copy' = [copy EXCEPT ![h] = data]
    /\ \/ /\ file' = data
          /\ saved' = saved \cup EntriesOf(data)
          /\ current' = {h} /\ stale' = (stale \/ h \notin current)
          /\ UNCHANGED faults
       \/ /\ faults < MaxFaults /\ faults' = faults + 1
          /\ file' \in {file, Torn}
          /\ UNCHANGED <<saved, current, stale>>
    /\ UNCHANGED <<storedPatterns, adapter, seen>>

-----------------------------------------------------------------------------
Loaded == IF file = Torn THEN NoData ELSE file

(* find_similar_to_frame: patterns like the frame, the most alike first.   *)
SimilarToFrame(threshold) == SimilarTo(storedPatterns, Frame, threshold)

\* Mutant: a pattern the store does not have is of no use.
Resolvable_StoreOnly(r) == r.content \in DOMAIN storedPatterns

(* _resolvable_refs: the pattern is in the store, or has an id of the      *)
(* runtime, which no file of the store is named by.                        *)
Resolvable(r) == r.content \in DOMAIN storedPatterns \cup RuntimeIds
Live(r) == r.status # "archived"

(* load, _install_demo_fallback_records_if_needed: a section without one   *)
(* live record the adapter could match gets a record of the demo.          *)
Read(s) ==
    LET records == Loaded[s]
    IN  [records |-> records,
         demo |-> DOMAIN storedPatterns # {} /\ ~\E i \in DOMAIN records : Live(records[i]) /\ Resolvable(records[i])]

(* _similarity_to_ref: an id of the runtime is like nothing.               *)
SimilarityToRef(p) ==
    IF p \notin DOMAIN storedPatterns THEN 0 ELSE Similarity(storedPatterns[p], Frame)

(* _match_records, with the default confidence of a half and the threshold *)
(* of 0.4: records of a section worth suggesting.                          *)
Confidence == 50
Matched(s) ==
    LET records == adapter.records[s]
    IN  {i \in DOMAIN records :
            /\ Live(records[i]) /\ Resolvable(records[i])
            /\ SimilarityToRef(records[i].content) * Confidence >= 40000}

-----------------------------------------------------------------------------
Init ==
    /\ storedPatterns = Patterns(Files, None)
    /\ file = NoData /\ copy = [h \in Handles |-> Torn]
    /\ adapter = [records |-> NoData, demo |-> [s \in Sections |-> DOMAIN storedPatterns # {}]]
    /\ births = 0 /\ saved = {} /\ current = {} /\ stale = FALSE /\ overwritten = FALSE
    /\ seen = NoData
    /\ ops = 0 /\ faults = 0

(* load: raises when the file does not parse.                              *)
Open(h) ==
    /\ copy[h] = Torn /\ file # Torn /\ ops < MaxOps
    /\ copy' = [copy EXCEPT ![h] = file]
    /\ current' = current \cup {h}
    /\ UNCHANGED <<storedPatterns, file, adapter, history, stale, seen, ops, faults>>

Close(h) ==
    /\ copy[h] # Torn
    /\ copy' = [copy EXCEPT ![h] = Torn]
    /\ current' = current \ {h}
    /\ UNCHANGED <<storedPatterns, file, adapter, history, stale, seen, ops, faults>>

(* A given id must be free.                                                *)
Create(h, s, content, given) ==
    LET id == IdFor(copy[h][s], given)
    IN  /\ copy[h] # Torn /\ id <= MaxId
        /\ id \notin DOMAIN copy[h][s]
        /\ births' = births + 1 /\ UNCHANGED overwritten
        /\ Save(h, [copy[h] EXCEPT ![s] = With(@, id, NewRecord(content, 0, 0))])

CreateExperience(h, content, given) == Create(h, "experience", content, given)
CreateReflex(h, content, given) == Create(h, "reflexes", content, given)

(* Any field may be given, the status included.                            *)
Update(h, s, id) ==
    /\ Required(h, s, id)
    /\ \/ \E content \in Contents : Save(h, [copy[h] EXCEPT ![s][id].content = content])
       \/ Save(h, [copy[h] EXCEPT ![s][id].status = "active"])
    /\ UNCHANGED <<births, overwritten>>

UpdateExperience(h, id) == Update(h, "experience", id)
UpdateReflex(h, id) == Update(h, "reflexes", id)

(* delete_experience, delete_reflex.                                       *)
Delete(h, s, id) ==
    /\ Required(h, s, id)
    /\ Save(h, Archived(copy[h], s, id, "deleted"))
    /\ UNCHANGED <<births, overwritten>>

(* record_experience_hit and its three siblings; one counter stands for    *)
(* hits and misses.                                                        *)
Count(h, s, id) ==
    /\ Required(h, s, id)
    /\ copy[h][s][id].hits < 1
    /\ Save(h, [copy[h] EXCEPT ![s][id].hits = @ + 1])
    /\ UNCHANGED <<births, overwritten>>

(* experience_to_reflex, reflex_to_experience: the target id a caller gives*)
(* is used as it is (_prepare_target_id); a move archives the source.      *)
Convert(h, s, id, given, move) ==
    LET t == IdFor(copy[h][Other(s)], given)
        source == copy[h][s][id]
        new == NewRecord(source.content, source.hits, IF s = "experience" THEN id ELSE 0)
        target == [copy[h] EXCEPT ![Other(s)] = With(@, t, new)]
    IN  /\ Required(h, s, id) /\ t <= MaxId
        /\ births' = births + 1
        /\ overwritten' = (overwritten \/ (given # 0 /\ t \in DOMAIN copy[h][Other(s)]))
        /\ Save(h, IF move THEN Archived(target, s, id, "moved") ELSE target)

(* ExpSMAdapter.reload forgets what it held before it reads.               *)
Reload ==
    /\ LET read == [s \in Sections |-> Read(s)]
       IN  adapter' = [records |-> [s \in Sections |-> read[s].records],
                       demo |-> [s \in Sections |-> read[s].demo]]
    /\ seen' = Loaded
    /\ adapter' # adapter
    /\ UNCHANGED <<storedPatterns, file, copy, history, current, stale, ops, faults>>

Next ==
    \/ \E h \in Handles : Open(h) \/ Close(h)
    \/ ops < MaxOps /\ \E h \in {g \in Handles : copy[g] # Torn} :
        \/ \E content \in Contents, given \in Targets \cup {0} :
            CreateExperience(h, content, given) \/ CreateReflex(h, content, given)
        \/ \E id \in 1 .. MaxId : UpdateExperience(h, id) \/ UpdateReflex(h, id)
        \/ \E s \in Sections, id \in 1 .. MaxId :
            \/ Delete(h, s, id)
            \/ Count(h, s, id)
            \/ \E given \in Targets \cup {0}, move \in BOOLEAN : Convert(h, s, id, given, move)
    \/ Reload

Spec == Init /\ [][Next]_vars

-----------------------------------------------------------------------------
(***************************************************************************)
(* Properties                                                              *)
(***************************************************************************)
\* "Permanent memory record ids must not be reused": the records an id of a
\* section has named are one record.
IdsNotReused == \A x, y \in saved : x[1] = y[1] /\ x[2] = y[2] => x = y

\* Unless a caller asked for an id that was taken, or a handle saved without
\* knowing the last save, no record is ever lost or replaced and no id is used
\* again: not in the file, whatever writes failed before, and not in the copy
\* of a handle that could write next.
NothingLost ==
    ~stale /\ ~overwritten =>
        /\ IdsNotReused
        /\ file # Torn => saved \subseteq EntriesOf(file)
        /\ \A h \in current : saved \subseteq EntriesOf(copy[h])
        /\ \A h \in current, s \in Sections :
              {x[2] : x \in {y \in saved : y[1] = s}}
                 \subseteq Found(h, s, "active") \cup Found(h, s, "archived")

\* What the adapter offers was live in the file when it last read it, and is
\* what the pattern store finds like the frame.  A section falls back to the
\* demo exactly when the file had nothing live that names a stored pattern or an
\* id of the runtime, or did not parse: one live record the runtime has written
\* keeps the demo away, though it is like no frame itself.  Every pattern of
\* the store, which does not change, is as like itself as anything can be, on
\* the scale of the frames, and a window of one frame is like it.
OffersAreLive ==
    /\ ops = 0 =>
          \A p \in DOMAIN storedPatterns :
              /\ \A a \in DOMAIN storedPatterns[p] : storedPatterns[p][a] \in 0 .. 100
              /\ Similarity(storedPatterns[p], WindowValues(<<storedPatterns[p]>>)) = 1000
    /\ \A s \in Sections :
          /\ adapter.demo[s] <=>
                /\ DOMAIN storedPatterns # {}
                /\ \A i \in DOMAIN seen[s] :
                      seen[s][i].status = "archived"
                        \/ seen[s][i].content \notin DOMAIN storedPatterns \cup RuntimeIds
          /\ Matched(s) = {i \in DOMAIN seen[s] :
                              /\ seen[s][i].status # "archived"
                              /\ seen[s][i].content \in Range(SimilarToFrame(800))}
=============================================================================
