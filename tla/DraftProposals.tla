--------------------------- MODULE DraftProposals ---------------------------
(***************************************************************************)
(* Draft associations that must never reach AKBSM.  A provider turns a     *)
(* probe's evidence into proposals; a controller answers each transition   *)
(* request with a new review record and leaves the old one as it was, so   *)
(* every version of a record can be asked about again; an adapter places a *)
(* snapshot of a record among temporary metadata, which expires; and three *)
(* layers of diagnostics look at what is placed.  Every gate has an        *)
(* authority of its own and answers nothing to any other caller.           *)
(***************************************************************************)
EXTENDS Integers, Sequences, FiniteSets, FiniteSetsExt, SequencesExt

CONSTANTS
    Payloads,       \* what probes report
    Policies,       \* [enabled, write]: the flags of MemoryMutationPolicy
    Openings,       \* [ttl, notes] a record may be made with; a ttl may be None;
                    \* a request has notes of its own, as one of them
    Ends,           \* expires_at_tick a caller may name, None among them
    None,           \* no ttl, no expiration, no answer
    MaxTick, MaxMade, MaxPath    \* bounds

ProposalAssumption ==
    /\ None \in Ends
    /\ MaxTick \in Nat /\ MaxMade \in Nat /\ MaxPath \in Nat

VARIABLES
    clock,
    policy,
    proposals,      \* proposals made
    records,        \* every version of every review record
    entries         \* ContextTemporaryMetadataPlacement: entries, oldest first

vars == <<clock, policy, proposals, records, entries>>

Review == "explicit_test_scenario_harness"
Observing == "explicit_observation_diagnostic_harness"
Runtime == "explicit_runtime_diagnostic_harness"
Ticking == "explicit_tick_diagnostic_harness"
Authorities == {Review, Observing, Runtime, Ticking, "normal_runtime"}

-----------------------------------------------------------------------------
(* build_from_probe_evidence: one proposal for every association with a    *)
(* target, a relation and some evidence; the confidence is the higher of   *)
(* the association's score and the probe's activation.                     *)
Evidence(payload, link) ==
    (IF payload.probe THEN {"probe"} ELSE {})
        \cup (IF payload.target THEN {"target_observation"} ELSE {})
        \cup (IF link.path THEN {"path"} ELSE {})

ProposalsFrom(flags, payload, tick) ==
    IF ~flags.enabled \/ flags.write \/ payload.source = None THEN << >>
    ELSE LET Usable(l) == l.object # None /\ l.relation # None /\ Evidence(payload, l) # {}
             links == SelectSeq(payload.links, Usable)
         IN  [i \in DOMAIN links |->
                [tick |-> tick, subject |-> payload.source, object |-> links[i].object,
                 relation |-> links[i].relation,
                 confidence |-> Max({links[i].score, payload.activation})]]

-----------------------------------------------------------------------------
\* Mutant: a rejected proposal may be reviewed again.
After_Rejected(state) ==
    CASE state = "created" -> {"review_pending"}
      [] state = "review_pending" -> {"accepted_for_observation", "deferred", "rejected", "expired"}
      [] state = "accepted_for_observation" -> {"expired"}
      [] state = "deferred" -> {"review_pending", "expired"}
      [] state = "rejected" -> {"review_pending", "expired"}
      [] state = "expired" -> {}

(* AKBSM_PROPOSAL_ALLOWED_TRANSITIONS.                                     *)
After(state) ==
    CASE state = "created" -> {"review_pending"}
      [] state = "review_pending" -> {"accepted_for_observation", "deferred", "rejected", "expired"}
      [] state = "accepted_for_observation" -> {"expired"}
      [] state = "deferred" -> {"review_pending", "expired"}
      [] state = "rejected" -> {"expired"}
      [] state = "expired" -> {}

States == {"created", "review_pending", "accepted_for_observation", "deferred", "rejected", "expired"}

(* AKBSMProposalReviewRecord refuses an update older than the record; that *)
(* it is older than the last update goes unnoticed.                        *)
Timely(record, tick) == tick >= record.created

\* Mutant: every transition makes the record anew.
Moved_Renewed(record, target, notes, tick) ==
    [record EXCEPT !.state = target, !.updated = tick, !.notes = notes, !.created = tick,
                   !.path = Append(@, target)]

(* The notes are those of the request, whatever the record said before.    *)
Moved(record, target, notes, tick) ==
    [record EXCEPT !.state = target, !.updated = tick, !.notes = notes,
                   !.path = Append(@, target)]

(* request_transition, request_expiration: a new record, or no record.     *)
Answer(record, target, authority, notes, tick) ==
    IF authority = Review /\ target \in After(record.state)
    THEN {Moved(record, target, notes, tick)} ELSE {}

-----------------------------------------------------------------------------
(* A proposal is named by where it comes from, its tick and its triple; its *)
(* confidence is not part of the name.                                     *)
ProposalId(proposal) ==
    <<proposal.tick, proposal.subject, proposal.relation, proposal.object>>

(* A snapshot of a record expires when its caller says, or its ttl after   *)
(* the record was made.                                                    *)
Expiry(record, explicit) ==
    IF explicit # None THEN explicit
    ELSE IF record.ttl # None THEN record.created + record.ttl
    ELSE None

(* build_metadata: the snapshot of a record.                               *)
MetadataOf(record, explicit) ==
    [name |-> ProposalId(record.proposal), state |-> record.state,
     created |-> record.created, updated |-> record.updated, ttl |-> record.ttl,
     expires |-> Expiry(record, explicit), notes |-> record.notes, history |-> record.path]

(* AKBSMProposalContextMemoryMetadata refuses an end before the beginning. *)
Sound(metadata) ==
    /\ metadata.updated >= metadata.created
    /\ metadata.expires # None => metadata.expires >= metadata.created

(* place_metadata: nothing is placed without an end, nothing that expires  *)
(* as it is made, nothing with a word of the forbidden ones in it.         *)
Placeable(metadata) ==
    /\ metadata.expires # None /\ metadata.expires > metadata.created
    /\ metadata.ttl # 0
    /\ metadata.notes # "forbidden"

(* An entry keeps the snapshot as it was when it was placed.  It is named  *)
(* by the tick of the snapshot and the number of entries then: after some  *)
(* expired, a name may come again.                                         *)
EntryOf(metadata, explicit) ==
    [id |-> <<metadata.created, Len(entries)>>, payload |-> metadata,
     expires |-> metadata.expires, explicit |-> explicit # None]

(* AKBSMProposalContextMemoryMetadataIntegration: the boundary to the real *)
(* context memory, which is only drawn: a result says that the snapshot    *)
(* is placed later, and claims nothing it could have done.                 *)
Integrated(metadata, authority) ==
    IF authority # Review THEN None
    ELSE [metadata |-> metadata, placement |-> "deferred", claims |-> {}]

IntegrationHolds(result) ==
    /\ Sound(result.metadata)
    /\ result.placement = "deferred" /\ result.claims = {}

\* Mutant: the last tick of an entry still counts.
IsExpired_Late(entry, tick) == tick > entry.expires

IsExpired(entry, tick) == tick >= entry.expires

(* list_active_metadata.                                                   *)
ListActive(authority, tick) ==
    IF authority # Review THEN << >> ELSE SelectSeq(entries, LAMBDA e : ~IsExpired(e, tick))

(***************************************************************************)
(* Three layers look at the entries.  Each makes records of its own from    *)
(* those of the layer below, and each record has a constructor that refuses *)
(* what contradicts itself.                                                *)
(***************************************************************************)
(* _view_from_entry.  The view also looks for the result of the transition *)
(* that led to the state, under a name no snapshot has.                    *)
View(entry, tick) ==
    [id |-> entry.id, created |-> entry.payload.created, updated |-> entry.payload.created,
     ttl |-> entry.payload.ttl, expires |-> entry.expires, state |-> entry.payload.state,
     active |-> ~IsExpired(entry, tick), expired |-> IsExpired(entry, tick)]

ViewHolds(view) == ~(view.active /\ view.expired)

(* ContextTemporaryMetadataObserver.observe: expired entries only on demand. *)
Observed(authority, tick, withExpired) ==
    LET Views(Test(_)) == [i \in DOMAIN SelectSeq(entries, Test) |->
                             View(SelectSeq(entries, Test)[i], tick)]
    IN  IF authority # Observing THEN None
        ELSE [tick |-> tick, active |-> Views(LAMBDA e : ~IsExpired(e, tick)),
              expired |-> IF withExpired THEN Views(LAMBDA e : IsExpired(e, tick)) ELSE << >>]

ObservationHolds(report) ==
    /\ \A i \in DOMAIN report.active : ViewHolds(report.active[i]) /\ ~report.active[i].expired
    /\ \A i \in DOMAIN report.expired : ViewHolds(report.expired[i])

(* RuntimeTemporaryMetadataDiagnosticView: what it shows, and how much.    *)
DiagnosticView(report, authority) ==
    [authority |-> authority, tick |-> report.tick,
     active |-> report.active, active_count |-> Len(report.active),
     expired |-> report.expired, expired_count |-> Len(report.expired)]

(* RuntimeTemporaryMetadataDiagnosticReport: a view, and what its maker    *)
(* claims to have done besides; it is refused with any claim.              *)
ReportOf(view) == [view |-> view, claims |-> {}]
ReportHolds(report) == report.claims = {} /\ report.view.authority = Runtime

(* RuntimeTemporaryMetadataObservationDiagnosticProvider.build_diagnostics:*)
(* asks the observer with the observer's authority.                        *)
Diagnostics(authority, tick, withExpired) ==
    IF authority # Runtime THEN None
    ELSE ReportOf(DiagnosticView(Observed(Observing, tick, withExpired), authority))

(* TemporaryMetadataTickDiagnosticSnapshot.                                *)
SnapshotOf(report, authority, tick) ==
    [report |-> report, authority |-> authority, tick |-> tick, claims |-> {}]
SnapshotHolds(snapshot) ==
    /\ ReportHolds(snapshot.report)
    /\ snapshot.authority = Ticking /\ snapshot.claims = {}

(* TemporaryMetadataTickDiagnosticWrapper.run: the tick first, then, where *)
(* it is wanted, what the tick left behind.                                *)
TickDiagnostics(authority, tick, wanted, withExpired) ==
    IF authority # Ticking THEN None
    ELSE [authority |-> authority, tick |-> tick, enabled |-> wanted,
          snapshot |-> IF wanted THEN SnapshotOf(Diagnostics(Runtime, tick, withExpired), authority, tick)
                       ELSE None]

(* TemporaryMetadataTickDiagnosticWrapperResult.                           *)
WrapperHolds(result) ==
    /\ result.authority = Ticking
    /\ result.enabled = (result.snapshot # None)
    /\ result.enabled => SnapshotHolds(result.snapshot)

-----------------------------------------------------------------------------
Init ==
    /\ clock = 0 /\ policy \in Policies
    /\ proposals = {} /\ records = {} /\ entries = << >>

Advance ==
    /\ clock < MaxTick /\ clock' = clock + 1
    /\ UNCHANGED <<policy, proposals, records, entries>>

Propose(payload) ==
    /\ proposals' = proposals \cup ToSet(ProposalsFrom(policy, payload, clock))
    /\ proposals' # proposals
    /\ UNCHANGED <<clock, policy, records, entries>>

OpenReview(proposal, opening) ==
    /\ records' = records \cup
            {[proposal |-> proposal, state |-> "created", created |-> clock, updated |-> clock,
              ttl |-> opening.ttl, notes |-> opening.notes, path |-> <<"created">>]}
    /\ records' # records
    /\ UNCHANGED <<clock, policy, proposals, entries>>

(* A request about any version of a record, dated as it likes.             *)
Request(record, target, authority, notes, tick) ==
    /\ Timely(record, tick)
    /\ records' = records \cup Answer(record, target, authority, notes, tick)
    /\ records' # records
    /\ UNCHANGED <<clock, policy, proposals, entries>>

(* place_temporary_metadata: what is not placeable is answered with a      *)
(* rejection, and nothing changes.                                         *)
Placed(metadata, explicit) ==
    IF Placeable(metadata) THEN Append(entries, EntryOf(metadata, explicit)) ELSE entries

(* place_metadata, for a snapshot of any version of a record.              *)
Place(record, explicit) ==
    /\ LET metadata == MetadataOf(record, explicit)
       IN  Sound(metadata) /\ entries' = Placed(metadata, explicit)
    /\ entries' # entries
    /\ UNCHANGED <<clock, policy, proposals, records>>

(* expire_metadata.                                                        *)
Expire ==
    /\ \E i \in DOMAIN entries : IsExpired(entries[i], clock)
    /\ entries' = SelectSeq(entries, LAMBDA e : ~IsExpired(e, clock))
    /\ UNCHANGED <<clock, policy, proposals, records>>

\* The bounds: how many records and entries are made, and versions of one.
Room == Cardinality(records) + Len(entries) < MaxMade

Next ==
    \/ Advance
    \/ \E payload \in Payloads : Propose(payload)
    \/ Room /\ \E p \in proposals, opening \in Openings : OpenReview(p, opening)
    \/ Room /\ \E r \in {s \in records : Len(s.path) < MaxPath}, target \in States :
            \E authority \in {Review, "normal_runtime"}, tick \in {r.created, clock},
               notes \in {opening.notes : opening \in Openings} :
                Request(r, target, authority, notes, tick)
    \/ Room /\ \E r \in records, explicit \in Ends : Place(r, explicit)
    \/ Expire

Spec == Init /\ [][Next]_vars

-----------------------------------------------------------------------------
(***************************************************************************)
(* Properties                                                              *)
(***************************************************************************)
\* However often a proposal is deferred and reviewed again, whichever version
\* of its record is asked about and at whatever time: what was once rejected is
\* not accepted, what expired moves no more, and every version starts as
\* created.
PathsEndWell ==
    \A r \in records :
        /\ r.path[1] = "created" /\ Last(r.path) = r.state
        /\ \A i, j \in DOMAIN r.path : i < j =>
              /\ r.path[i] # "expired"
              /\ r.path[i] = "rejected" => r.path[j] = "expired"
              /\ r.path[j] = "accepted_for_observation" => r.path[i] \in {"created", "review_pending", "deferred"}

\* No proposal is made while the policy forbids drafts or allows writes to
\* AKBSM, and reviewing lends a proposal no more life: whatever the diagnostics
\* show as active is younger than the ttl of its record, counted from the tick
\* it was opened in, unless its caller named a later end.
NothingOutlivesItsTtl ==
    /\ proposals # {} => policy.enabled /\ ~policy.write
    /\ \A i \in DOMAIN entries :
          \/ entries[i].explicit \/ IsExpired(entries[i], clock)
          \/ \E r \in records : /\ r.path = <<"created">>
                               /\ ProposalId(r.proposal) = entries[i].payload.name
                               /\ r.ttl = entries[i].payload.ttl /\ clock < r.created + r.ttl

\* The layers see the same entries, each only for its own caller, those that
\* expired only on demand, and no constructor refuses what the layer below
\* hands it.  The state a view shows is that of a version of the record, and every
\* version of a record can be handed to the boundary.
LayersAgree ==
    LET active == ListActive(Review, clock)
        gone == Len(entries) - Len(active)
    IN  \A a \in Authorities, wanted, withExpired \in BOOLEAN :
          LET observed == Observed(a, clock, withExpired)
              shown == Diagnostics(a, clock, withExpired)
              result == TickDiagnostics(a, clock, wanted, withExpired)
          IN  /\ (observed # None) = (a = Observing)
              /\ observed # None =>
                    /\ ObservationHolds(observed)
                    /\ [i \in DOMAIN observed.active |-> observed.active[i].id]
                         = [i \in DOMAIN active |-> active[i].id]
                    /\ \A i \in DOMAIN active : \E r \in records :
                          /\ r.state = observed.active[i].state
                          /\ ProposalId(r.proposal) = active[i].payload.name
              /\ shown # None =>
                    /\ a = Runtime /\ shown.view.active_count = Len(active)
                    /\ shown.view.expired_count = (IF withExpired THEN gone ELSE 0)
              /\ result # None =>
                    /\ a = Ticking /\ WrapperHolds(result)
                    /\ wanted => result.snapshot.report = Diagnostics(Runtime, clock, withExpired)
              /\ \A r \in records :
                    LET boundary == Integrated(MetadataOf(r, None), a)
                    IN  boundary # None => a = Review /\ IntegrationHolds(boundary)
=============================================================================
