----------------------------- MODULE SharedStore -----------------------------
(***************************************************************************)
(* The store of NativeCreate shared with ExpSMCommitWriter, which takes its *)
(* ids from max + 1 and replaces the file through the same                 *)
(* write_complete_store, but loads and allocates without the lock.         *)
(***************************************************************************)
EXTENDS NativeCreate

CONSTANTS
    None,       \* the commit writer has loaded nothing
    MaxCommits  \* bound on runs that commit

VARIABLES
    held,       \* expsm_store of the commit writer's run, or None
    commits     \* bound

allVars == <<vars, held, commits>>

SharedInit == Init /\ held = None /\ commits = 0

(* _load_expsm_store, in a run that will commit a draft.                   *)
LoadForCommit ==
    /\ held = None /\ readable /\ allowed /\ commits < MaxCommits
    /\ held' = store
    /\ commits' = commits + 1
    /\ UNCHANGED vars

(* _next_experience_id, _experience_record and _atomic_write_json.          *)
Commit ==
    /\ held # None
    /\ store' = With(held, Fresh(held), Old)
    /\ held' = None
    /\ UNCHANGED <<readable, allowed, lock, thread, log, orphans, bounds, commits>>

(* The process ends with its commit writer too.                            *)
CrashAll == Crash /\ held' = None /\ UNCHANGED commits

SharedNext ==
    \/ /\ \/ \E c \in Creators, r \in Requests : Refuse(c, r) \/ Create(c, r)
          \/ \E c \in Creators : Goes(c)
          \/ \E i \in DOMAIN log : Reconcile(i)
       /\ UNCHANGED <<held, commits>>
    \/ LoadForCommit \/ Commit \/ CrashAll

SharedSpec == SharedInit /\ [][SharedNext]_allVars

-----------------------------------------------------------------------------
(* A create leaves existing ids and records untouched, those a commit has   *)
(* written while the create held its lock included.                        *)
ExistingUntouched ==
    [][\A c \in Creators : Replace(c) =>
         \A id \in DOMAIN store : id \in DOMAIN store' /\ store'[id] = store[id]]_allVars

=============================================================================
