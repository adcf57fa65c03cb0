---------------------------- MODULE ExpSMPipeline ----------------------------
(***************************************************************************)
(* The consolidation memory chain of the CLC runtime: how an approved      *)
(* memory-write review becomes a draft card, how a ready draft becomes a   *)
(* permanent ExpSM record, and how later evidence on a committed draft     *)
(* updates that record.                                                    *)
(*                                                                         *)
(* One runtime process executes the handlers of a consolidation tick in a  *)
(* fixed order (phases 02 and 05 of CLCRuntime._run_tick):                 *)
(*                                                                         *)
(*   ExpSMUpdateReviewGate -> MemoryWriteReviewModule -> MemoryDraftWriter *)
(*   -> DraftCommitGate -> ExpSMCommitWriter -> ExpSMUpdateWriter          *)
(*   -> reload of the ExpSM adapter                                        *)
(*                                                                         *)
(* They share two JSON files, ExpSM_drafts.json and ExpSM_data.json, that  *)
(* outlive the process.  Commit and update write BOTH files, one after the *)
(* other, so a crash or an OSError may fall between the two writes.  What  *)
(* a handler remembers to avoid doing something twice is partly in the     *)
(* files and partly in sets that die with the process.                     *)
(*                                                                         *)
(* A draft is identified by its draft_signature: MemoryDraftWriter never   *)
(* writes a second draft with the signature of an existing one, so a       *)
(* draft id and a signature name the same card.                            *)
(***************************************************************************)
EXTENDS Naturals, Sequences, FiniteSets

CONSTANTS
  Sig,             \* draft signatures
  PredictionOnly,  \* those whose core chain has predictions but no decision
  NoDraft,         \* "no draft with this signature in the file"
  Profiles,        \* runtime profiles a process may be started with
  MaxReviews,      \* bound: approved review ids
  MaxRestarts,     \* bound: process restarts
  MaxFaults        \* bound: OSErrors met while replacing a file

ASSUME PipelineAssumption ==
  /\ IsFiniteSet(Sig)
  /\ PredictionOnly \subseteq Sig
  /\ Profiles \subseteq {"safe_demo", "draft_only", "mutating_memory"}
  /\ MaxReviews \in Nat
  /\ MaxRestarts \in Nat /\ MaxFaults \in Nat

-----------------------------------------------------------------------------
(* Data of the two stores.                                                 *)

\* The metrics of a draft, reduced to what DraftCommitGate tells apart:
\* rejected as low quality, never ready, ready with enough evidence, ready
\* at once.
Quality == {"poor", "mixed", "fair", "strong"}

FinalStatus  == {"draft_committed", "draft_rejected"}
ReviewableStatus == {"draft_pending_commit", "draft_wait_more_evidence", "draft_ready_to_commit"}
Status == FinalStatus \cup ReviewableStatus

\* post_commit.update_status; "none" while the card has no such field.
UpdateStatus == {"none", "wait_more_post_commit_evidence",
                 "approved_pending_update_writer", "updated_in_expsm"}

ReviewId == 1 .. MaxReviews
Review   == [id : ReviewId, sig : Sig]

Draft ==
  [status  : Status,
   quality : Quality,
   seen    : Nat,              \* seen_count
   source  : ReviewId,         \* source_review_id, the last one merged
   sources : SUBSET ReviewId,  \* source_review_ids
   exp     : Nat,              \* committed_experience_id, 0 when absent
   snap    : Nat,              \* commit_snapshot.seen_count, 0 when absent
   post    : Nat,              \* post_commit.post_commit_seen_count
   gain    : BOOLEAN,          \* confidence rose or a new relevant pattern since commit
   pending : BOOLEAN,          \* post_commit.pending_expsm_update
   update  : UpdateStatus,     \* post_commit.update_status
   review  : Nat,              \* post_commit.update_review.last_review_id, 0 when absent
   applied : Nat]              \* post_commit.last_applied_update_review_id, 0 when absent

ASSUME NoDraftAssumption == NoDraft \notin Draft

DraftStore == [Sig -> Draft \cup {NoDraft}]
EmptyDraftStore == [s \in Sig |-> NoDraft]

\* An ExpSM experience record.  Records are never deleted and ids are
\* allocated as maximum + 1, so the store is a sequence indexed by id.
Record == [sig     : Sig,      \* metadata.draft_signature
           seen    : Nat,      \* metadata.seen_count
           updates : Nat]      \* metadata.update_count

NewRecord(s, n) == [sig |-> s, seen |-> n, updates |-> 0]

\* Mutant: the commit writer does not look for an existing record.
ExperienceOf_Unchecked(store, s) == {}

\* ExpSMCommitWriter._existing_experience_by_signature
ExperienceOf(store, s) == {i \in DOMAIN store : store[i].sig = s}

-----------------------------------------------------------------------------
VARIABLES
  drafts,      \* ExpSM_drafts.json
  readable,    \* that file is well-formed JSON
  expsm,       \* ExpSM_data.json, the experience section
  \* the running process
  profile,     \* its memory mutation policy
  handler,     \* the handler whose turn it is
  step,        \* where in that handler the process is
  work,        \* the copies commit and update writers loaded and changed
  queue,       \* reviews the draft writer has still to handle in this run
  reviews,     \* approved memory-write reviews in ContextMemory
  nextReview,  \* IdGenerator counter "mem_review"
  written,     \* MemoryDraftWriter._written_review_ids
  gateReviewed,     \* DraftCommitGate._reviewed_states
  committedIds,     \* ExpSMCommitWriter._committed_draft_ids
  updateReviewed,   \* ExpSMUpdateReviewGate._reviewed_draft_ids
  nextUpdateReview, \* IdGenerator counter "expsm_update_review"
  appliedIds,       \* ExpSMUpdateWriter._applied_review_ids
  consolidated,     \* some tick of this process began in consolidation mode
  adapter,     \* what ExpSMAdapter has loaded
  reloadDue,   \* this tick has an event that asks for a reload
  \* bounds
  restarts, faults

disk    == <<drafts, readable, expsm>>
control == <<handler, step>>
context == <<reviews, nextReview, consolidated>>
marks   == <<written, gateReviewed, committedIds, updateReviewed, nextUpdateReview, appliedIds>>
view    == <<adapter, reloadDue>>
env     == <<profile, restarts, faults>>
vars    == <<disk, control, work, queue, context, marks, view, env>>

Handlers == {"update_gate", "write_review", "draft_writer", "commit_gate",
             "commit_writer", "update_writer", "reload"}
Steps == {"start", "loop", "expsm", "drafts"}

After == [update_gate   |-> "write_review",
          write_review  |-> "draft_writer",
          draft_writer  |-> "commit_gate",
          commit_gate   |-> "commit_writer",
          commit_writer |-> "update_writer",
          update_writer |-> "reload",
          reload        |-> "update_gate"]

At(h, p) == handler = h /\ step = p
Return   == handler' = After[handler] /\ step' = "start"
GoTo(p)  == handler' = handler /\ step' = p

NoWork == [drafts |-> EmptyDraftStore, expsm |-> <<>>, todo |-> {},
           draftChanged |-> FALSE, expsmChanged |-> FALSE]

\* MemoryMutationPolicy flags of the profiles, on permanent memory.
AllowDraftWrites == profile \in {"draft_only", "mutating_memory"}
AllowExpSMCommit == profile = "mutating_memory"
AllowExpSMUpdate == profile = "mutating_memory"

Present(store, s) == store[s] # NoDraft

TypeOK ==
  /\ drafts \in DraftStore
  /\ readable \in BOOLEAN
  /\ expsm \in Seq(Record)
  /\ profile \in Profiles
  /\ handler \in Handlers /\ step \in Steps
  /\ work \in [drafts : DraftStore, expsm : Seq(Record), todo : SUBSET Sig,
               draftChanged : BOOLEAN, expsmChanged : BOOLEAN]
  /\ queue \subseteq Review /\ reviews \subseteq Review
  /\ nextReview \in 1 .. MaxReviews + 1
  /\ written \subseteq ReviewId
  /\ gateReviewed \subseteq Sig \X Nat \X Status
  /\ committedIds \subseteq Sig
  /\ updateReviewed \subseteq Sig
  /\ nextUpdateReview \in Nat \ {0}
  /\ appliedIds \subseteq Nat
  /\ consolidated \in BOOLEAN
  /\ adapter \in Seq(Record) /\ reloadDue \in BOOLEAN
  /\ restarts \in 0 .. MaxRestarts /\ faults \in 0 .. MaxFaults

-----------------------------------------------------------------------------
(* A process starts with empty in-memory sets.  The draft store may be new *)
(* while ExpSM already has a record of one of the signatures (a copied     *)
(* ExpSM file without its drafts).                                         *)

Init ==
  /\ drafts = EmptyDraftStore /\ readable = TRUE
  /\ expsm \in {<<>>} \cup {<<NewRecord(s, 1)>> : s \in Sig}
  /\ profile \in Profiles
  /\ handler = "update_gate" /\ step = "start"
  /\ work = NoWork /\ queue = {}
  /\ reviews = {} /\ nextReview = 1
  /\ written = {} /\ gateReviewed = {} /\ committedIds = {}
  /\ updateReviewed = {} /\ nextUpdateReview = 1 /\ appliedIds = {}
  /\ consolidated = FALSE
  /\ adapter = expsm /\ reloadDue = FALSE
  /\ restarts = 0 /\ faults = 0

-----------------------------------------------------------------------------
(* ExpSMUpdateReviewGate (phase 02).                                       *)

MinPostCommitSeen == 2

\* Mutant: a draft is reviewed again and again.
NeedsUpdateReview_Repeated ==
  {s \in Sig : /\ Present(drafts, s) /\ drafts[s].status = "draft_committed"
               /\ drafts[s].post > 0 /\ drafts[s].pending}

NeedsUpdateReview ==
  {s \in Sig : /\ Present(drafts, s) /\ s \notin updateReviewed
               /\ drafts[s].status = "draft_committed" /\ drafts[s].post > 0
               /\ drafts[s].pending}

\* ExpSMUpdateReviewGate._review_draft.  Its third verdict,
\* rejected_no_significant_delta, needs post >= MinPostCommitSeen where the
\* first condition has failed, so it is never returned.
UpdateVerdict(d) ==
  IF d.post >= MinPostCommitSeen \/ d.gain \/ d.seen >= d.snap + 2
  THEN "approved_pending_update_writer"
  ELSE "wait_more_post_commit_evidence"

ApplyReview(d, id) == [d EXCEPT !.review = id, !.pending = TRUE, !.update = UpdateVerdict(d)]

\* The run of the gate: every draft that needs it is reviewed, with fresh
\* consecutive ids, and the store is saved once.
ReviewCommittedDrafts ==
  LET T == NeedsUpdateReview
      n == Cardinality(T)
  IN  /\ At("update_gate", "start") /\ readable
      /\ \E id \in [T -> nextUpdateReview .. nextUpdateReview + n - 1] :
           /\ \A s, t \in T : s # t => id[s] # id[t]
           /\ drafts' = [s \in Sig |-> IF s \in T THEN ApplyReview(drafts[s], id[s]) ELSE drafts[s]]
      /\ nextUpdateReview' = nextUpdateReview + n
      /\ updateReviewed' = updateReviewed \cup T
      /\ consolidated' = TRUE
      /\ Return
      /\ UNCHANGED <<readable, expsm, work, queue, reviews, nextReview, written,
                     gateReviewed, committedIds, appliedIds, view, env>>

\* The gate returns at once: the tick did not begin in consolidation mode
\* (it is entered later, in phase 05), or the store does not parse.
SkipUpdateGate ==
  /\ At("update_gate", "start")
  /\ consolidated' \in (IF readable THEN {consolidated} ELSE {consolidated, TRUE})
  /\ Return
  /\ UNCHANGED <<disk, work, queue, reviews, nextReview, marks, view, env>>

-----------------------------------------------------------------------------
(* MemoryWriteReviewModule.  Which candidates it approves depends on       *)
(* support, confidence and valence gathered outside this chain; what       *)
(* matters here is that every approval is a review with a new id, handed   *)
(* to the draft writer through ContextMemory.                              *)

\* Phase 05 is in consolidation mode ...
EnterChain ==
  /\ At("write_review", "start") /\ GoTo("loop")
  /\ UNCHANGED <<disk, work, queue, context, marks, view, env>>

\* ... or it is not, and every handler of the chain returns at once.
LeaveChain ==
  /\ At("write_review", "start")
  /\ handler' = "reload" /\ step' = "start"
  /\ UNCHANGED <<disk, work, queue, context, marks, view, env>>

ApproveCandidate(s) ==
  /\ At("write_review", "loop") /\ nextReview <= MaxReviews
  /\ reviews' = reviews \cup {[id |-> nextReview, sig |-> s]}
  /\ nextReview' = nextReview + 1
  /\ UNCHANGED <<disk, control, work, queue, consolidated, marks, view, env>>

EndWriteReview ==
  /\ At("write_review", "loop") /\ Return
  /\ UNCHANGED <<disk, work, queue, context, marks, view, env>>

\* A writer returns early: there is no recent decision for it, the policy
\* denies it, or a store does not parse.
ReturnEarly ==
  /\ step = "start" /\ handler \in {"draft_writer", "commit_writer", "update_writer"}
  /\ Return
  /\ UNCHANGED <<disk, work, queue, context, marks, view, env>>

-----------------------------------------------------------------------------
(* MemoryDraftWriter: writes one review after the other, saving the store  *)
(* after each (not atomically, see CrashInSave).                           *)

\* MemoryDraftWriter._existing_review_ids
ExistingReviewIds(store) == UNION {store[s].sources : s \in {t \in Sig : Present(store, t)}}

\* The reviews a run handles: those the store already knows, which it only
\* ticks off, and those whose draft record is valid in the current context
\* (it has relevant if_patterns).  The others stay unwritten, so a later run
\* may write a review after younger ones.
BeginDraftWriter(Q) ==
  /\ At("draft_writer", "start") /\ consolidated /\ AllowDraftWrites /\ readable
  /\ Q # {} /\ Q \subseteq {r \in reviews : r.id \notin written}
  /\ \A r \in reviews : r.id \in ExistingReviewIds(drafts) \ written => r \in Q
  /\ queue' = Q
  /\ GoTo("loop")
  /\ UNCHANGED <<disk, work, context, marks, view, env>>

NewDraft(r, q) ==
  [status |-> "draft_pending_commit", quality |-> q, seen |-> 1,
   source |-> r.id, sources |-> {r.id}, exp |-> 0, snap |-> 0, post |-> 0,
   gain |-> FALSE, pending |-> FALSE, update |-> "none", review |-> 0, applied |-> 0]

\* Mutant: the merged review is counted but not recorded.
MergeDraft_NoSource(d, r, q) ==
  [d EXCEPT !.quality = q, !.seen = @ + 1, !.source = r.id,
            !.status = IF @ \in FinalStatus THEN @ ELSE "draft_pending_commit"]

\* Mutant: the merge resets a final status too (the fault the repair branch
\* of ExpSMCommitWriter was added for).
MergeDraft_ResetStatus(d, r, q) ==
  [d EXCEPT !.quality = q, !.seen = @ + 1, !.source = r.id, !.sources = @ \cup {r.id},
            !.status = "draft_pending_commit"]

MergeDraft(d, r, q) ==
  [d EXCEPT !.quality = q, !.seen = @ + 1, !.source = r.id, !.sources = @ \cup {r.id},
            !.status = IF @ \in FinalStatus THEN @ ELSE "draft_pending_commit"]

\* _merge_committed_draft_observation.  g: the merged metrics or patterns
\* now exceed the commit snapshot.  (The quality class of a committed draft
\* is not read again, it keeps its value.)
ObserveCommitted(d, r, g) ==
  LET m == MergeDraft(d, r, d.quality)
  IN  [m EXCEPT !.snap = IF d.snap = 0 THEN d.seen ELSE d.snap,
                !.post = @ + 1, !.gain = g,
                !.pending = (d.applied = 0),
                !.update = IF d.applied = 0 THEN @ ELSE "updated_in_expsm"]

\* What handling review r may leave in the store.
AfterReview(r) ==
  LET d == drafts[r.sig]
      put(x) == [drafts EXCEPT ![r.sig] = x]
  IN  IF r.id \in ExistingReviewIds(drafts) THEN {drafts}
      ELSE IF d = NoDraft THEN {put(NewDraft(r, q)) : q \in {"fair", "strong"}}
      ELSE IF d.status = "draft_committed" THEN {put(ObserveCommitted(d, r, g)) : g \in BOOLEAN}
      ELSE IF d.status = "draft_rejected" THEN {drafts}
      ELSE {put(MergeDraft(d, r, q)) : q \in Quality}

WriteDraft(r) ==
  /\ At("draft_writer", "loop") /\ r \in queue
  /\ \A o \in queue : r.id <= o.id
  /\ drafts' \in AfterReview(r)
  /\ written' = written \cup {r.id}
  /\ queue' = queue \ {r}
  /\ UNCHANGED <<readable, expsm, control, work, context, gateReviewed, committedIds,
                 updateReviewed, nextUpdateReview, appliedIds, view, env>>

EndDraftWriter ==
  /\ At("draft_writer", "loop") /\ queue = {}
  /\ Return
  /\ UNCHANGED <<disk, work, queue, context, marks, view, env>>

-----------------------------------------------------------------------------
(* DraftCommitGate: reviews every reviewable draft whose (id, seen_count,  *)
(* status) it has not reviewed yet, and saves the store once.  It asks no  *)
(* policy.                                                                 *)

MinReadySeen == 2

\* Mutant: the seen_count threshold is off by one.
QualityDecision_OffByOne(q, seen) ==
  IF q = "poor" THEN "draft_rejected"
  ELSE IF q = "strong" \/ (q = "fair" /\ seen + 1 >= MinReadySeen) THEN "draft_ready_to_commit"
  ELSE "draft_wait_more_evidence"

QualityDecision(q, seen) ==
  IF q = "poor" THEN "draft_rejected"
  ELSE IF q = "strong" \/ (q = "fair" /\ seen >= MinReadySeen) THEN "draft_ready_to_commit"
  ELSE "draft_wait_more_evidence"

\* _review_draft: a card without then_patterns is incomplete.
CommitVerdict(s, d) ==
  IF s \in PredictionOnly THEN "draft_rejected" ELSE QualityDecision(d.quality, d.seen)

ReviewKey(s) == <<s, drafts[s].seen, drafts[s].status>>

NeedsCommitReview ==
  {s \in Sig : /\ Present(drafts, s) /\ drafts[s].status \in ReviewableStatus
               /\ ReviewKey(s) \notin gateReviewed}

ReviewDrafts ==
  LET T == NeedsCommitReview
  IN  /\ At("commit_gate", "start") /\ readable
      /\ drafts' = [s \in Sig |-> IF s \in T
                                    THEN [drafts[s] EXCEPT !.status = CommitVerdict(s, drafts[s])]
                                    ELSE drafts[s]]
      /\ gateReviewed' = gateReviewed \cup {ReviewKey(s) : s \in T}
      /\ Return
      /\ UNCHANGED <<readable, expsm, work, queue, context, written, committedIds,
                     updateReviewed, nextUpdateReview, appliedIds, view, env>>

CommitGateStoreError ==
  /\ At("commit_gate", "start") /\ ~readable /\ Return
  /\ UNCHANGED <<disk, work, queue, context, marks, view, env>>

-----------------------------------------------------------------------------
(* Both ExpSM writers load the two stores, change the copies draft by      *)
(* draft, replace ExpSM_data.json if it changed and then ExpSM_drafts.json *)
(* if it changed.                                                          *)

LoadStores(T) ==
  work' = [drafts |-> drafts, expsm |-> expsm, todo |-> T,
           draftChanged |-> FALSE, expsmChanged |-> FALSE]

\* Mutant: the draft store is replaced, the changed ExpSM store is not.
EndLoop_DraftsOnly(h) ==
  /\ At(h, "loop") /\ work.todo = {}
  /\ IF work.draftChanged \/ work.expsmChanged
       THEN GoTo("drafts") /\ UNCHANGED work
       ELSE Return /\ work' = NoWork
  /\ UNCHANGED <<disk, queue, context, marks, view, env>>

\* The writer's loop is over: go on to the first file to replace, if any.
EndLoop(h) ==
  /\ At(h, "loop") /\ work.todo = {}
  /\ IF work.draftChanged \/ work.expsmChanged
       THEN /\ GoTo(IF work.expsmChanged THEN "expsm" ELSE "drafts")
            /\ UNCHANGED work
       ELSE Return /\ work' = NoWork
  /\ UNCHANGED <<disk, queue, context, marks, view, env>>

ReplaceExpSM(h) ==
  /\ At(h, "expsm")
  /\ expsm' = work.expsm
  /\ GoTo("drafts")
  /\ UNCHANGED <<drafts, readable, work, queue, context, marks, view, env>>

\* The second file is in place: the run's operations are returned, and a
\* changed ExpSM asks for a reload in this tick.
ReplaceDrafts(h) ==
  /\ At(h, "drafts")
  /\ drafts' = work.drafts
  /\ reloadDue' = (reloadDue \/ work.expsmChanged)
  /\ work' = NoWork /\ Return
  /\ UNCHANGED <<readable, expsm, queue, context, marks, adapter, env>>

\* Mutant: an OSError on the first file does not stop the second write.
ReplaceFails_Continue(h) ==
  /\ handler = h /\ step \in {"expsm", "drafts"}
  /\ faults < MaxFaults /\ faults' = faults + 1
  /\ IF step = "expsm" THEN GoTo("drafts") /\ UNCHANGED work ELSE Return /\ work' = NoWork
  /\ UNCHANGED <<disk, queue, context, marks, view, profile, restarts>>

\* OSError in either write: the run's operations are dropped and a single
\* failure operation, which asks for no reload, takes their place.
ReplaceFails(h) ==
  /\ handler = h /\ step \in {"expsm", "drafts"}
  /\ faults < MaxFaults /\ faults' = faults + 1
  /\ work' = NoWork /\ Return
  /\ UNCHANGED <<disk, queue, context, marks, view, profile, restarts>>

-----------------------------------------------------------------------------
(* ExpSMCommitWriter.                                                      *)

BeginCommit ==
  /\ At("commit_writer", "start") /\ consolidated /\ AllowExpSMCommit /\ readable
  /\ LoadStores({s \in Sig : Present(drafts, s) /\ s \notin committedIds})
  /\ GoTo("loop")
  /\ UNCHANGED <<disk, queue, context, marks, view, env>>

\* _validate_draft.  (A ready status is only ever set together with a ready
\* commit_review, and only on a structurally complete card.)
Committable(d) == d.status = "draft_ready_to_commit" /\ d.exp = 0

MarkCommitted(d, i) == [d EXCEPT !.status = "draft_committed", !.exp = i]

TakeDraft(h, s) == At(h, "loop") /\ s \in work.todo

\* A card with an experience id but another status is repaired.
RepairNeeded(d) == d.exp # 0 /\ d.status # "draft_committed"
Repaired(d) == IF RepairNeeded(d) THEN [d EXCEPT !.status = "draft_committed"] ELSE d

\* The three ways the loop body ends: the card is not ready (or repaired),
\* its signature already has an experience, or a new record is appended.
PassOver(s, d) ==
  /\ ~Committable(d)
  /\ work' = [work EXCEPT !.drafts[s] = Repaired(d), !.todo = @ \ {s},
                          !.draftChanged = @ \/ RepairNeeded(d)]
  /\ committedIds' = IF RepairNeeded(d) THEN committedIds \cup {s} ELSE committedIds

CommitDuplicate(s, d) ==
  /\ Committable(d)
  /\ \E k \in ExperienceOf(work.expsm, s) :
       work' = [work EXCEPT !.drafts[s] = MarkCommitted(d, k), !.todo = @ \ {s},
                            !.draftChanged = TRUE]
  /\ committedIds' = committedIds \cup {s}

CommitNew(s, d) ==
  /\ Committable(d) /\ ExperienceOf(work.expsm, s) = {}
  /\ work' = [work EXCEPT !.drafts[s] = MarkCommitted(d, Len(work.expsm) + 1),
                          !.expsm = Append(@, NewRecord(s, d.seen)), !.todo = @ \ {s},
                          !.draftChanged = TRUE, !.expsmChanged = TRUE]
  /\ committedIds' = committedIds \cup {s}

CommitDraft(s) ==
  LET d == work.drafts[s]
  IN  /\ TakeDraft("commit_writer", s)
      /\ PassOver(s, d) \/ CommitDuplicate(s, d) \/ CommitNew(s, d)
      /\ UNCHANGED <<disk, control, queue, context, written, gateReviewed,
                     updateReviewed, nextUpdateReview, appliedIds, view, env>>

-----------------------------------------------------------------------------
(* ExpSMUpdateWriter.                                                      *)

\* Mutant: a reviewed card is ready, whatever was applied.
UpdateReady_Reviewed(d) == d.status = "draft_committed" /\ d.exp # 0 /\ d.review # 0

\* _is_update_ready_draft
UpdateReady(d) ==
  /\ d.status = "draft_committed" /\ d.exp # 0
  /\ d.pending /\ d.update = "approved_pending_update_writer"
  /\ d.applied # d.review

BeginUpdate ==
  /\ At("update_writer", "start") /\ consolidated /\ AllowExpSMUpdate /\ readable
  /\ LoadStores({s \in Sig : Present(drafts, s) /\ UpdateReady(drafts[s])})
  /\ GoTo("loop")
  /\ UNCHANGED <<disk, queue, context, marks, view, env>>

\* The review was applied earlier in this process: only the card is settled.
SettleApplied(s, d) ==
  /\ d.review \in appliedIds
  /\ work' = [work EXCEPT !.drafts[s].pending = FALSE,
                          !.drafts[s].update = "updated_in_expsm",
                          !.todo = @ \ {s}, !.draftChanged = TRUE]
  /\ UNCHANGED appliedIds

\* _apply_record_update and _mark_draft_updated; a missing record is left
\* alone (missing_experience_record).
MarkUpdated(d) == [d EXCEPT !.pending = FALSE, !.update = "updated_in_expsm", !.applied = d.review]

\* Mutant: update_count grows like post_commit_seen_count_total.
UpdateRecord_CountsObservations(r, d) == [r EXCEPT !.seen = d.seen, !.updates = @ + d.post]

UpdateRecord(r, d) == [r EXCEPT !.seen = d.seen, !.updates = @ + 1]

\* Mutant: the applied review is not remembered in the process.
ApplyUpdate_Forgets(s, d) ==
  /\ d.review \notin appliedIds /\ d.exp \in DOMAIN work.expsm
  /\ work' = [work EXCEPT !.drafts[s] = MarkUpdated(d),
                          !.expsm[d.exp] = UpdateRecord(@, d), !.todo = @ \ {s},
                          !.draftChanged = TRUE, !.expsmChanged = TRUE]
  /\ UNCHANGED appliedIds

ApplyUpdate(s, d) ==
  /\ d.review \notin appliedIds
  /\ IF d.exp \in DOMAIN work.expsm
       THEN /\ work' = [work EXCEPT !.drafts[s] = MarkUpdated(d),
                                    !.expsm[d.exp] = UpdateRecord(@, d), !.todo = @ \ {s},
                                    !.draftChanged = TRUE, !.expsmChanged = TRUE]
            /\ appliedIds' = appliedIds \cup {d.review}
       ELSE /\ work' = [work EXCEPT !.todo = @ \ {s}]
            /\ UNCHANGED appliedIds

UpdateDraft(s) ==
  LET d == work.drafts[s]
  IN  /\ TakeDraft("update_writer", s)
      /\ SettleApplied(s, d) \/ ApplyUpdate(s, d)
      /\ UNCHANGED <<disk, control, queue, context, written, gateReviewed, committedIds,
                     updateReviewed, nextUpdateReview, view, env>>

-----------------------------------------------------------------------------
(* CLCRuntime._reload_expsm_if_modified, and the next tick.                *)

Reload ==
  /\ At("reload", "start")
  /\ adapter' = IF reloadDue THEN expsm ELSE adapter
  /\ reloadDue' = FALSE
  /\ Return
  /\ UNCHANGED <<disk, work, queue, context, marks, env>>

-----------------------------------------------------------------------------
(* The process ends at any point and a new one starts, possibly with       *)
(* another profile.  Its sets are empty; ContextMemory is not persisted;   *)
(* MemoryDraftWriter primes the review counter from the source_review_id   *)
(* fields of a readable store; "expsm_update_review" starts anew.          *)

\* Mutant: the review counter is not primed.
PrimedCounter_Unprimed(store, n) == n = 1

PrimedCounter(store, n) ==
  /\ \A s \in Sig : Present(store, s) => store[s].source < n
  /\ n = 1 \/ \E s \in Sig : Present(store, s) /\ store[s].source = n - 1

StartProcess(store) ==
  /\ restarts < MaxRestarts /\ restarts' = restarts + 1
  /\ profile' \in Profiles
  /\ handler' = "update_gate" /\ step' = "start"
  /\ work' = NoWork /\ queue' = {}
  /\ reviews' = {}
  /\ nextReview' \in {n \in 1 .. MaxReviews + 1 : PrimedCounter(store, n)}
  /\ written' = {} /\ gateReviewed' = {} /\ committedIds' = {}
  /\ updateReviewed' = {} /\ nextUpdateReview' = 1 /\ appliedIds' = {}
  /\ consolidated' = FALSE
  /\ adapter' = expsm /\ reloadDue' = FALSE
  /\ UNCHANGED <<expsm, faults>>

Restart ==
  /\ StartProcess(drafts)
  /\ UNCHANGED <<drafts, readable>>

\* MemoryDraftWriter and the two gates truncate the draft store and write it
\* in place: a process that dies meanwhile (a kill, or the OSError nobody
\* catches) leaves a file that does not parse.
Saving ==
  /\ readable
  /\ \/ At("update_gate", "start") /\ NeedsUpdateReview # {}
     \/ At("draft_writer", "loop") /\ queue # {}
     \/ At("commit_gate", "start") /\ NeedsCommitReview # {}

CrashInSave ==
  /\ Saving
  /\ drafts' = EmptyDraftStore /\ readable' = FALSE
  /\ StartProcess(EmptyDraftStore)

-----------------------------------------------------------------------------
Writers == {"commit_writer", "update_writer"}

Next ==
  \/ ReviewCommittedDrafts \/ SkipUpdateGate
  \/ EnterChain \/ LeaveChain \/ EndWriteReview
  \/ \E s \in Sig : ApproveCandidate(s)
  \/ ReturnEarly
  \/ \E Q \in SUBSET reviews : BeginDraftWriter(Q)
  \/ \E r \in queue : WriteDraft(r)
  \/ EndDraftWriter
  \/ ReviewDrafts \/ CommitGateStoreError
  \/ BeginCommit \/ BeginUpdate
  \/ \E s \in Sig : CommitDraft(s) \/ UpdateDraft(s)
  \/ \E h \in Writers : EndLoop(h) \/ ReplaceExpSM(h) \/ ReplaceDrafts(h) \/ ReplaceFails(h)
  \/ Reload
  \/ Restart \/ CrashInSave

Spec == Init /\ [][Next]_vars

-----------------------------------------------------------------------------
(* Safety invariants.                                                      *)

\* ExpSM never holds two records of one draft signature, although the
\* commit writer may meet the same ready draft again after a crash or an
\* OSError between its two file writes.
OneRecordPerSignature(records) ==
  \A i, j \in DOMAIN records : records[i].sig = records[j].sig => i = j

UniqueSignature == OneRecordPerSignature(expsm)

\* A draft that ExpSM_drafts.json calls committed names a record that
\* ExpSM_data.json has, of the same signature: the order of the two writes
\* never leaves a dangling committed_experience_id.
HasRecord(store, records) ==
  \A s \in Sig : Present(store, s) /\ store[s].exp # 0 =>
                   store[s].exp \in DOMAIN records /\ records[store[s].exp].sig = s

CommittedHasRecord == HasRecord(drafts, expsm)

\* A draft has an experience id exactly while it is committed, so merging
\* later reviews into it never calls for the repair branch of the commit
\* writer.
StatusFits(store) ==
  \A s \in Sig : Present(store, s) => (store[s].exp # 0 <=> store[s].status = "draft_committed")

CommittedIffExperience == StatusFits(drafts)

\* The two store files never contradict each other, whatever failed or
\* crashed between the two writes of a commit or an update.
StoresConsistent == UniqueSignature /\ CommittedHasRecord /\ CommittedIffExperience

\* Every review merged into a draft is counted in seen_count exactly once,
\* across restarts: seen_count is the number of source_review_ids.
EvidenceCountedOnce ==
  \A s \in Sig : Present(drafts, s) => drafts[s].seen = Cardinality(drafts[s].sources)

\* A new review is dropped as a duplicate only after an old one was merged
\* late: as long as the last review merged into every card is also its
\* newest, the counter primed from source_review_id alone is high enough,
\* and no review still to be handled carries an id the store already has.
InOrder(d) == \A i \in d.sources : i <= d.source

FreshReviewIds ==
  (\A s \in Sig : Present(drafts, s) => InOrder(drafts[s])) =>
    \A r \in reviews : r.id \notin written => r.id \notin ExistingReviewIds(drafts)

\* Each approved review reaches its card once, and a new one is not taken
\* for one that has.
ReviewsMergedOnce == EvidenceCountedOnce /\ FreshReviewIds

\* Unless a file write has failed, a card that says updated_in_expsm belongs
\* to a record that has been updated.  (After a failed write of ExpSM_data
\* it may not: the review id is already in _applied_review_ids.)
UpdatedMeansRecorded ==
  faults = 0 => \A s \in Sig :
    Present(drafts, s) /\ drafts[s].update = "updated_in_expsm" =>
      drafts[s].exp \in DOMAIN expsm /\ expsm[drafts[s].exp].updates > 0

\* One process applies at most one update to a record, OSErrors included;
\* every restart may add one (the ExpSM write survived, the draft write did
\* not, and the new process reviews and applies the same evidence again).
UpdatesBounded == \A i \in DOMAIN expsm : expsm[i].updates <= 1 + restarts

\* What the cards say of updates and what the records got agree.
UpdatesAreReal == UpdatedMeansRecorded /\ UpdatesBounded

\* The strengthening that makes the three invariants of the stores
\* inductive: what the copies of a commit or update writer hold between the
\* load and the last write.  They only add records or fill in fields of
\* old ones, a copied card has a record in the copied store, and the copy
\* of ExpSM_data is the file again when ExpSM_drafts is about to be written.
Writing == handler \in {"commit_writer", "update_writer"} /\ step # "start"

Grows(old, new) ==
  DOMAIN old \subseteq DOMAIN new /\ \A i \in DOMAIN old : new[i].sig = old[i].sig

KeepsFinals(old, new) ==
  \A s \in Sig : Present(old, s) /\ old[s].status \in FinalStatus =>
    Present(new, s) /\ new[s].status = old[s].status /\ new[s].exp = old[s].exp

CopiesInv ==
  Writing =>
    /\ OneRecordPerSignature(work.expsm)
    /\ HasRecord(work.drafts, work.expsm)
    /\ StatusFits(work.drafts)
    /\ Grows(expsm, work.expsm)
    /\ KeepsFinals(drafts, work.drafts)
    /\ ~work.expsmChanged \/ step = "drafts" => work.expsm = expsm

StoresInv == UniqueSignature /\ CommittedHasRecord /\ CommittedIffExperience /\ CopiesInv

-----------------------------------------------------------------------------
(* Action properties.                                                      *)

\* Committed and rejected are final: no later merge, gate run, repair or
\* restart takes a draft out of them or changes its experience id, as long
\* as the draft store stays readable.
FinalStatusIsFinal ==
  [][readable' => KeepsFinals(drafts, drafts')]_vars

\* A record is created only by a process whose policy allows it, and from a
\* draft that the file, at the time of the write, still calls ready, on enough
\* evidence, and that has a decision.
CommitsOnlyReady ==
  [][\A i \in DOMAIN expsm' \ DOMAIN expsm :
       LET s == expsm'[i].sig
       IN  /\ Present(drafts, s) /\ drafts[s].status = "draft_ready_to_commit"
           /\ drafts[s].seen >= MinReadySeen \/ drafts[s].quality = "strong"
           /\ s \notin PredictionOnly /\ AllowExpSMCommit]_vars

\* Once a card records an applied update, its experience is never updated
\* again, however much evidence follows and however often the process
\* restarts.
AppliedIsTerminal ==
  [][\A s \in Sig : Present(drafts, s) /\ drafts[s].applied # 0 =>
       expsm'[drafts[s].exp].updates = expsm[drafts[s].exp].updates]_vars

\* A committed draft told to wait for more evidence is not looked at again
\* by this process, whatever evidence arrives: only a restart changes the
\* verdict.
WaitingNeedsRestart ==
  [][\A s \in Sig : Present(drafts, s) /\ s \in updateReviewed
                    /\ drafts[s].update = "wait_more_post_commit_evidence" =>
       restarts' # restarts \/ drafts'[s].update = drafts[s].update]_vars

\* How the life of a record's updates ends: with the first that is applied,
\* or waiting for a restart.
UpdatesEnd == AppliedIsTerminal /\ WaitingNeedsRestart

\* On permanent memory the safe_demo profile leaves the draft store alone.
SafeDemoLeavesDrafts == [][profile = "safe_demo" => drafts' = drafts]_vars

\* The chain implements ExperienceMemory.
Learned == {expsm[i].sig : i \in DOMAIN expsm}

Memory == INSTANCE ExperienceMemory WITH
  memory <- [s \in Learned |-> expsm[CHOOSE i \in DOMAIN expsm : expsm[i].sig = s].updates]

MemorySpec == Memory!Spec

=============================================================================
