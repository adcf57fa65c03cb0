---------------------------- MODULE ContextLog ----------------------------
(***************************************************************************)
(* What ContextMemory keeps and how its one writer, ContextMemoryManager,   *)
(* adds to it.  A memory is a value: the log of all operations, one side    *)
(* list per marker for the readers that ask for the recent ones, the frames *)
(* and windows, and the current tone.  After each drain of the pool the log *)
(* is cut to its last MaxEvents operations, and the side lists to what is   *)
(* as new as the oldest operation left in the log.                          *)
(*                                                                         *)
(* An operation is a record with a marker, a tick, an id and the fields its *)
(* readers look at.  All payloads carry _event_tick, which add_event writes,*)
(* so no entry has an unknown tick.                                         *)
(***************************************************************************)
EXTENDS Positions, SequencesExt, FiniteSetsExt

CONSTANTS
    MaxEvents,      \* ContextRetentionPolicy.max_events
    MaxEntries      \* SideListRetentionPolicy.max_entries_for, for each list

\* A marker is named after the side list its operations go to.
FrameMarkers == {"raw_input_write", "self_generated_thought"}
Markers == FrameMarkers \cup
    {"labels", "predictions", "decisions", "effects", "outcomes",
     "experience_candidates", "consolidation_candidates", "memory_write_reviews",
     "memory_draft_writes", "memory_draft_commit_reviews", "memory_commits",
     "committed_draft_observations", "expsm_update_reviews", "memory_updates",
     "expsm_activations", "expsm_feedback", "expsm_similarity_observations",
     "expsm_competition_observations", "evaluation_signals", "evaluation_targets",
     "akbsm_association_probes", "expsm_mechanism_searches",
     "target_satisfaction_observations", "value_feedback_candidates",
     "value_feedback_reviews", "value_feedback_updates", "decision_audits",
     "action_guard_audits", "decision_cycle_summaries", "consolidation_pressures",
     "system_mode_changes", "neuromodulation_updates", "module_updates"}
FrameLists == {"raw_frames", "thought_frames", "windows"}
ToneMarker == "neuromodulation_updates"
SideLists == (Markers \ FrameMarkers) \cup FrameLists

ASSUME LogAssumption ==
    /\ MaxEvents \in Nat \ {0}
    /\ MaxEntries \in [SideLists -> Nat \ {0}]

\* The first of two records, and the second where the first says nothing.
Over(new, old) ==
    [x \in DOMAIN new \cup DOMAIN old |-> IF x \in DOMAIN new THEN new[x] ELSE old[x]]

EmptyMemory(tone) ==
    [events |-> <<>>, lists |-> [l \in SideLists |-> <<>>], tone |-> tone]

LastOf(s, n) == SubSeq(s, IF Len(s) > n THEN Len(s) - n + 1 ELSE 1, Len(s))

\* A frame is kept with those of its source, any other operation in the side list
\* of its marker.
ListOf(op) ==
    CASE op.marker = "raw_input_write" -> "raw_frames"
      [] op.marker = "self_generated_thought" -> "thought_frames"
      [] OTHER -> op.marker

\* Every operation goes to the log and to its side list, and the last of the tone
\* updates becomes the current tone.
AddEvents(memory, ops) ==
    LET tones == {i \in DOMAIN ops : ops[i].marker = ToneMarker}
    IN  [events |-> memory.events \o ops,
         lists |-> [l \in SideLists |->
                      memory.lists[l] \o Picked(ops, {i \in DOMAIN ops : ListOf(ops[i]) = l})],
         tone |-> IF tones = {} THEN memory.tone ELSE ops[Max(tones)].tone]

ApplyRetention(memory) == [memory EXCEPT !.events = LastOf(@, MaxEvents)]

\* Mutant: an entry of the oldest event's own tick goes too.
PruneByTick_Eager(entries, oldest) ==
    Picked(entries, {i \in DOMAIN entries : entries[i].tick > oldest})

PruneByTick(entries, oldest) ==
    Picked(entries, {i \in DOMAIN entries : entries[i].tick >= oldest})

ApplySideListRetention(memory, oldest) ==
    [memory EXCEPT !.lists =
        [l \in SideLists |->
            LastOf(PruneByTick(memory.lists[l], oldest), MaxEntries[l])]]

\* manager.apply_pending on the operations drained from the pool.
ApplyPending(memory, ops) ==
    LET kept == ApplyRetention(AddEvents(memory, ops))
    IN  IF ops = <<>> THEN memory
        ELSE ApplySideListRetention(kept, Head(kept.events).tick)

(***************************************************************************)
(* The readers                                                             *)
(***************************************************************************)
RecentOf(memory, marker, n) == LastOf(memory.lists[marker], n)

\* A frame goes after those of its tick or before.
Merged(frames, f) ==
    LET before == {i \in DOMAIN frames : frames[i].tick <= f.tick}
    IN  Picked(frames, before) \o <<f>> \o Picked(frames, DOMAIN frames \ before)

\* Frames in order of tick and then of frame id: "frame_..." sorts before
\* "thought_...".
AllFrames(memory) ==
    FoldLeft(Merged, memory.lists["raw_frames"], memory.lists["thought_frames"])

RecentFrames(memory, n) == LastOf(AllFrames(memory), n)

\* build_window: the last n frames of a source make a window, if there are any.
BuildWindow(memory, n, source) ==
    LET frames == AllFrames(memory)
        seen == LastOf(Picked(frames, {i \in DOMAIN frames : frames[i].source = source}), n)
    IN  IF seen = <<>> THEN <<>> ELSE <<[from |-> Head(seen).tick, tick |-> Last(seen).tick]>>

\* The windows the modules build one after the other are written down.
AddWindows(memory, looked) ==
    LET built == [i \in DOMAIN looked |->
                    BuildWindow(memory, looked[i].n, looked[i].source)]
    IN  [memory EXCEPT !.lists["windows"] = @ \o FlattenSeq(built)]

(***************************************************************************)
(* RetentionDiagnostics: what a list holds and how much of it is older than *)
(* the log.  Retention goes by the newest tick of an entry, the report by   *)
(* the oldest.                                                             *)
(***************************************************************************)
OldestOf(entry) == IF "from" \in DOMAIN entry THEN entry.from ELSE entry.tick

EventTickBounds(memory) ==
    LET ticks == {memory.events[i].tick : i \in DOMAIN memory.events}
    IN  [oldest |-> Min(ticks), newest |-> Max(ticks)]

SideListReport(entries, oldest) ==
    [count |-> Len(entries),
     oldest |-> Min({OldestOf(entries[i]) : i \in DOMAIN entries} \cup {Last(entries).tick}),
     newest |-> Max({entries[i].tick : i \in DOMAIN entries}),
     stale |-> Cardinality({i \in DOMAIN entries : OldestOf(entries[i]) < oldest})]

RetentionReport(memory) ==
    LET oldest == EventTickBounds(memory).oldest
    IN  [l \in {m \in SideLists : memory.lists[m] # <<>>} |->
            SideListReport(memory.lists[l], oldest)]
=============================================================================
