---------------------------- MODULE NativeCreate ----------------------------
(***************************************************************************)
(* NFPExpSMCreateWriter.create called from several threads on one store    *)
(* file: ExpSMStoreTransaction gives them a lock for the path, a strict     *)
(* load and a replacement of the whole file; a create allocates its id     *)
(* under the lock, gives the lock back and only then reads the file again  *)
(* to confirm.  reconcile_expsm_readback_failure reads it once more for a   *)
(* caller whose confirmation failed.                                       *)
(*                                                                         *)
(* A record is what was asked for (its request) or Old for those that were *)
(* in the file before.  A replaced file is read whole, old or new, so a    *)
(* load is one step.                                                       *)
(***************************************************************************)
EXTENDS Naturals, FiniteSets, Sequences

CONSTANTS
    Creators,       \* threads that create records
    Requests,       \* requests, identified by their content
    Malformed,      \* requests the validator refuses
    Old,            \* a record from before; also "no request"
    OldIds,         \* the ids of those
    NoOne,          \* holder of a free lock
    MaxCalls,       \* bound on calls of create
    MaxFaults,      \* bound on OSErrors
    MaxCrashes      \* bound on process ends

ASSUME CreateAssumption ==
    /\ Malformed \subseteq Requests
    /\ Old \notin Requests /\ NoOne \notin Creators
    /\ OldIds \subseteq Nat \ {0}
    /\ OldIds = {} \/ \E top \in OldIds : \A id \in OldIds : id <= top
    /\ MaxCalls \in Nat /\ MaxFaults \in Nat /\ MaxCrashes \in Nat

VARIABLES
    store,      \* the experience section of the file, by id
    readable,   \* load_strict accepts the file
    allowed,    \* allow_expsm_commit of the policy
    lock,       \* the lock of this path
    pc,         \* where each thread is: idle, waiting, loaded, written
    request,    \* what each thread was asked to create
    copy,       \* the store each has loaded
    attempt,    \* attempted_id of each
    log,        \* history: the results of the finished calls, oldest first
    orphans,    \* history: ids whose creators died before they could report
    faults, crashes     \* bounds

file == <<store, readable>>
thread == <<pc, request, copy, attempt>>
bounds == <<faults, crashes>>
vars == <<file, allowed, lock, thread, log, orphans, bounds>>

Contents == Requests \cup {Old}
Empty == [id \in {} |-> Old]
Status == {"created", "denied_by_policy", "invalid_request", "store_invalid", "write_failed", "readback_failed"}
Conclusion == {"none", "confirmed_persisted", "confirmed_absent", "unresolved"}
Result == [request : Requests, status : Status, id : Nat, conclusion : Conclusion]

\* Mutant: count instead of the highest id.
Fresh_Count(s) == Cardinality(DOMAIN s) + 1

(* max(ids, default 0) + 1.                                                *)
Fresh(s) ==
    IF DOMAIN s = {} THEN 1
    ELSE 1 + (CHOOSE top \in DOMAIN s : \A id \in DOMAIN s : id <= top)

With(s, id, content) == [i \in DOMAIN s \cup {id} |-> IF i = id THEN content ELSE s[i]]

Finished(r, status, id) ==
    log' = Append(log, [request |-> r, status |-> status, id |-> id, conclusion |-> "none"])

Running(c) == pc[c] # "idle"
Calls == Len(log) + Cardinality({c \in Creators : Running(c)}) + Cardinality(orphans)

Reset(c) ==
    /\ pc' = [pc EXCEPT ![c] = "idle"]
    /\ request' = [request EXCEPT ![c] = Old]
    /\ copy' = [copy EXCEPT ![c] = Empty]
    /\ attempt' = [attempt EXCEPT ![c] = 0]

(* The end of a call that wrote nothing.                                   *)
Fails(c, status) ==
    /\ Finished(request[c], status, 0)
    /\ Reset(c)
    /\ lock' = IF lock = c THEN NoOne ELSE lock
    /\ UNCHANGED <<file, allowed, orphans>>

Fault == faults < MaxFaults /\ faults' = faults + 1 /\ UNCHANGED crashes

-----------------------------------------------------------------------------
(* A process on a file that may be malformed, under any policy.            *)
Init ==
    /\ store = [id \in OldIds |-> Old] /\ readable \in BOOLEAN
    /\ allowed \in BOOLEAN
    /\ lock = NoOne
    /\ pc = [c \in Creators |-> "idle"]
    /\ request = [c \in Creators |-> Old]
    /\ copy = [c \in Creators |-> Empty]
    /\ attempt = [c \in Creators |-> 0]
    /\ log = << >> /\ orphans = {}
    /\ faults = 0 /\ crashes = 0

(* The validator speaks before the policy does.                            *)
Refuse(c, r) ==
    /\ ~Running(c) /\ Calls < MaxCalls
    /\ \/ r \in Malformed /\ Finished(r, "invalid_request", 0)
       \/ r \notin Malformed /\ ~allowed /\ Finished(r, "denied_by_policy", 0)
    /\ UNCHANGED <<file, allowed, lock, thread, orphans, bounds>>

Create(c, r) ==
    /\ ~Running(c) /\ Calls < MaxCalls
    /\ r \notin Malformed /\ allowed
    /\ pc' = [pc EXCEPT ![c] = "waiting"]
    /\ request' = [request EXCEPT ![c] = r]
    /\ UNCHANGED <<file, allowed, lock, copy, attempt, log, orphans, bounds>>

\* Mutant: no lock around load, allocation and replacement.
Load_NoLock(c) ==
    /\ pc[c] = "waiting" /\ readable
    /\ pc' = [pc EXCEPT ![c] = "loaded"]
    /\ copy' = [copy EXCEPT ![c] = store]
    /\ attempt' = [attempt EXCEPT ![c] = Fresh(store)]
    /\ UNCHANGED <<file, allowed, lock, request, log, orphans, bounds>>

(* The thread gets the lock, loads the file and allocates the id.          *)
Load(c) ==
    /\ pc[c] = "waiting" /\ lock = NoOne /\ readable
    /\ lock' = c
    /\ pc' = [pc EXCEPT ![c] = "loaded"]
    /\ copy' = [copy EXCEPT ![c] = store]
    /\ attempt' = [attempt EXCEPT ![c] = Fresh(store)]
    /\ UNCHANGED <<file, allowed, request, log, orphans, bounds>>

(* It gets the lock, but the store is invalid or cannot be read.           *)
LoadFails(c) ==
    /\ pc[c] = "waiting" /\ lock = NoOne
    /\ \/ ~readable /\ UNCHANGED bounds
       \/ readable /\ Fault
    /\ Fails(c, "store_invalid")

\* Mutant: the lock is given back before the file is replaced.
Replace_Unlocked(c) ==
    /\ pc[c] = "loaded"
    /\ IF lock = c
       THEN lock' = NoOne /\ UNCHANGED <<file, pc, copy>>
       ELSE /\ store' = With(copy[c], attempt[c], request[c])
            /\ readable' = TRUE
            /\ copy' = [copy EXCEPT ![c] = Empty]
            /\ pc' = [pc EXCEPT ![c] = "written"]
            /\ UNCHANGED lock
    /\ UNCHANGED <<allowed, request, attempt, log, orphans, bounds>>

(* write_complete_store succeeds; leaving the block gives the lock back.   *)
Replace(c) ==
    /\ pc[c] = "loaded"
    /\ store' = With(copy[c], attempt[c], request[c])
    /\ readable' = TRUE
    /\ lock' = NoOne
    /\ pc' = [pc EXCEPT ![c] = "written"]
    /\ copy' = [copy EXCEPT ![c] = Empty]
    /\ UNCHANGED <<allowed, request, attempt, log, orphans, bounds>>

\* Mutants: a failure that leaves the lock taken, and one after the file
\* was replaced.
ReplaceFails_KeepsLock(c) ==
    /\ pc[c] = "loaded" /\ Fault
    /\ Finished(request[c], "write_failed", 0)
    /\ Reset(c)
    /\ UNCHANGED <<file, allowed, lock, orphans>>

ReplaceFails_TooLate(c) ==
    /\ pc[c] = "loaded" /\ Fault
    /\ store' = With(copy[c], attempt[c], request[c])
    /\ Finished(request[c], "write_failed", 0)
    /\ Reset(c)
    /\ lock' = NoOne
    /\ UNCHANGED <<readable, allowed, orphans>>

(* It fails before the replacement; the temporary file is removed.         *)
ReplaceFails(c) ==
    /\ pc[c] = "loaded" /\ Fault
    /\ Fails(c, "write_failed")

(* _fresh_matching_record, outside the lock.                               *)
Matches(id, r) == readable /\ id \in DOMAIN store /\ store[id] = r

ReadBack(c) ==
    /\ pc[c] = "written"
    /\ \/ Matches(attempt[c], request[c]) /\ UNCHANGED bounds
          /\ Finished(request[c], "created", attempt[c])
       \/ ~Matches(attempt[c], request[c]) /\ UNCHANGED bounds
          /\ Finished(request[c], "readback_failed", attempt[c])
       \/ Fault /\ Finished(request[c], "readback_failed", attempt[c])
    /\ Reset(c)
    /\ UNCHANGED <<file, allowed, lock, orphans>>

(* What a fresh look at the store concludes about an attempted record.     *)
Concluded(id, r) ==
    CASE ~readable                     -> "unresolved"
      [] readable /\ Matches(id, r)    -> "confirmed_persisted"
      [] readable /\ id \notin DOMAIN store -> "confirmed_absent"
      [] OTHER                         -> "unresolved"

(* The caller of a failed confirmation asks, now or later, once or again.  *)
Reconcile(i) ==
    /\ log[i].status = "readback_failed"
    /\ \/ log' = [log EXCEPT ![i].conclusion = Concluded(log[i].id, log[i].request)] /\ UNCHANGED bounds
       \/ Fault /\ log' = [log EXCEPT ![i].conclusion = "unresolved"]
    /\ UNCHANGED <<file, allowed, lock, thread, orphans>>

(* The process ends, and another starts on the file under any policy.      *)
Crash ==
    /\ crashes < MaxCrashes /\ crashes' = crashes + 1
    /\ allowed' \in BOOLEAN
    /\ lock' = NoOne
    /\ pc' = [c \in Creators |-> "idle"]
    /\ request' = [c \in Creators |-> Old]
    /\ copy' = [c \in Creators |-> Empty]
    /\ attempt' = [c \in Creators |-> 0]
    /\ orphans' = orphans \cup {attempt[c] : c \in {d \in Creators : pc[d] = "written"}}
    /\ UNCHANGED <<file, log, faults>>

Goes(c) == Load(c) \/ LoadFails(c) \/ Replace(c) \/ ReplaceFails(c) \/ ReadBack(c)

Next ==
    \/ \E c \in Creators, r \in Requests : Refuse(c, r) \/ Create(c, r)
    \/ \E c \in Creators : Goes(c)
    \/ \E i \in DOMAIN log : Reconcile(i)
    \/ Crash

Spec == Init /\ [][Next]_vars

(* A thread inside create goes on unless it waits for the lock.            *)
FairSpec == Spec /\ \A c \in Creators : WF_vars(Goes(c))

-----------------------------------------------------------------------------
(* Types, and who has the lock.                                            *)
TypeOK ==
    /\ DOMAIN store \subseteq Nat \ {0} /\ store \in [DOMAIN store -> Contents]
    /\ readable \in BOOLEAN /\ allowed \in BOOLEAN
    /\ lock \in Creators \cup {NoOne}
    /\ pc \in [Creators -> {"idle", "waiting", "loaded", "written"}]
    /\ request \in [Creators -> Contents]
    /\ \A c \in Creators : Running(c) => request[c] \in Requests
    /\ attempt \in [Creators -> Nat]
    /\ log \in Seq(Result)
    /\ orphans \subseteq DOMAIN store
    /\ faults \in 0 .. MaxFaults /\ crashes \in 0 .. MaxCrashes
    /\ \A c \in Creators : lock = c <=> pc[c] = "loaded"

(* The calls that may have left a record: those that said created, those   *)
(* that could not tell, and those still between replacement and read-back. *)
Left == {i \in DOMAIN log : log[i].status \in {"created", "readback_failed"}}
Written == {c \in Creators : pc[c] = "written"}

(* Every record that was not there before belongs to exactly one call that *)
(* reported created or readback_failed, is about to, or died; so a call    *)
(* that reported anything else has left none, and no two callers, nor two  *)
(* calls with the same request, were given the same id.                    *)
EveryRecordHasOneOwner ==
    /\ {id \in DOMAIN store : store[id] # Old}
         = {log[i].id : i \in Left} \cup {attempt[c] : c \in Written} \cup orphans
    /\ \A i, j \in Left : log[i].id = log[j].id => i = j
    /\ \A c, d \in Written : attempt[c] = attempt[d] => c = d
    /\ \A i \in Left, c \in Written : log[i].id # attempt[c]
    /\ \A i \in Left : log[i].id \notin orphans
    /\ \A c \in Written : attempt[c] \notin orphans

(* What callers are told: a create that no I/O error disturbed on a valid   *)
(* store is confirmed although the lock is free during the read-back, and  *)
(* reconciliation never says that a record is absent after a failed        *)
(* confirmation.                                                           *)
AnswersTellTruth ==
    /\ readable /\ faults = 0 =>
         \A i \in DOMAIN log : log[i].status \in {"created", "denied_by_policy", "invalid_request"}
    /\ \A i \in DOMAIN log : log[i].conclusion # "confirmed_absent"

(* Existing ids and records remain untouched.                              *)
NothingLost == [][\A id \in DOMAIN store : id \in DOMAIN store' /\ store'[id] = store[id]]_vars

(* The threads together behave like one store that grows step by step.     *)
Confirmed == {log[i].id : i \in {j \in DOMAIN log : log[j].status = "created"}}
Promise == INSTANCE RecordStore WITH records <- store, confirmed <- Confirmed
IsRecordStore == Promise!Spec

(* No call is stuck behind the lock: each one returns, whatever fails.     *)
CallsReturn == \A c \in Creators : Running(c) ~> ~Running(c)

=============================================================================
