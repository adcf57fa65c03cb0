------------------------- MODULE NativeCreate_proofs -------------------------
(***************************************************************************)
(* Proofs about NativeCreate for any threads, requests and bounds.  The     *)
(* argument: who has loaded the store holds the lock, and until the lock   *)
(* is given back the loaded copy is the store (LockInv); so a replacement   *)
(* adds one record under a new highest id and changes nothing else, and    *)
(* each record keeps the one owner it got then (OwnersInv).                *)
(***************************************************************************)
EXTENDS NativeCreate, TLAPS

HasTop(s) == DOMAIN s = {} \/ \E top \in DOMAIN s : \A id \in DOMAIN s : id <= top

(* A loaded copy is current as long as it matters.                         *)
LockInv ==
    /\ HasTop(store)
    /\ copy = [c \in Creators |-> copy[c]]
    /\ \A c \in Creators : pc[c] = "loaded" => copy[c] = store /\ attempt[c] = Fresh(store)
    /\ \A c \in Creators : pc[c] \in {"loaded", "written"} => readable

(* Each record of an owner is what the owner asked for.                    *)
OwnersInv ==
    /\ EveryRecordHasOneOwner
    /\ \A i \in Left : store[log[i].id] = log[i].request
    /\ \A c \in Written : store[attempt[c]] = request[c]

IInv == TypeOK /\ LockInv /\ OwnersInv /\ AnswersTellTruth

-----------------------------------------------------------------------------
(* The allocated id is new and the highest.                                *)
LEMMA FreshIsHighest ==
    ASSUME NEW s, DOMAIN s \subseteq Nat \ {0}, HasTop(s)
    PROVE  Fresh(s) \in Nat \ {0} /\ \A id \in DOMAIN s : id < Fresh(s)
<1>1. CASE DOMAIN s = {}
  BY <1>1 DEF Fresh
<1>2. CASE DOMAIN s # {}
  <2> DEFINE top == CHOOSE t \in DOMAIN s : \A id \in DOMAIN s : id <= t
  <2>1. \E t \in DOMAIN s : \A id \in DOMAIN s : id <= t
    BY <1>2 DEF HasTop
  <2>2. top \in DOMAIN s /\ \A id \in DOMAIN s : id <= top
    BY <2>1
  <2>3. Fresh(s) = 1 + top
    BY <1>2 DEF Fresh
  <2> HIDE DEF top
  <2>4. top \in Nat /\ \A id \in DOMAIN s : id \in Nat
    BY <2>2
  <2> QED
    BY <2>2, <2>3, <2>4
<1> QED
  BY <1>1, <1>2

(* A record added under it leaves a store with a highest id.               *)
LEMMA AddedIsHighest ==
    ASSUME NEW s, DOMAIN s \subseteq Nat \ {0}, HasTop(s), NEW content
    PROVE  LET t == With(s, Fresh(s), content)
           IN  /\ DOMAIN t = DOMAIN s \cup {Fresh(s)}
               /\ t[Fresh(s)] = content
               /\ Fresh(s) \notin DOMAIN s
               /\ \A id \in DOMAIN s : t[id] = s[id]
               /\ HasTop(t)
<1> DEFINE f == Fresh(s)
           t == With(s, f, content)
<1>1. f \in Nat \ {0} /\ \A id \in DOMAIN s : id < f
  BY FreshIsHighest
<1> HIDE DEF f
<1>2. \A id \in DOMAIN s : id \in Nat /\ id <= f /\ id # f
  BY <1>1
<1>3. DOMAIN t = DOMAIN s \cup {f} /\ t[f] = content
  BY DEF With
<1>4. \A id \in DOMAIN s : t[id] = s[id]
  BY <1>2 DEF With
<1>5. HasTop(t)
  <2>1. f \in DOMAIN t /\ \A id \in DOMAIN t : id <= f
    BY <1>1, <1>2, <1>3
  <2> QED
    BY <2>1 DEF HasTop
<1> QED
  BY <1>2, <1>3, <1>4, <1>5 DEF f

(* What one more result at the end of the log changes.                     *)
LEMMA LogGrows ==
    ASSUME TypeOK, NEW r \in Requests, NEW status \in Status, NEW id \in Nat,
           Finished(r, status, id)
    PROVE  /\ log' \in Seq(Result)
           /\ DOMAIN log' = DOMAIN log \cup {Len(log) + 1}
           /\ Len(log) + 1 \notin DOMAIN log
           /\ \A i \in DOMAIN log : log'[i] = log[i]
           /\ log'[Len(log) + 1].request = r
           /\ log'[Len(log) + 1].status = status
           /\ log'[Len(log) + 1].id = id
           /\ log'[Len(log) + 1].conclusion = "none"
<1> DEFINE e == [request |-> r, status |-> status, id |-> id, conclusion |-> "none"]
<1>1. e \in Result
  BY DEF Result, Conclusion
<1>2. log \in Seq(Result) /\ log' = Append(log, e)
  BY DEF TypeOK, Finished
<1>3. e.request = r /\ e.status = status /\ e.id = id /\ e.conclusion = "none"
  OBVIOUS
<1> HIDE DEF e
<1>4. /\ log' \in Seq(Result)
      /\ Len(log') = Len(log) + 1
      /\ \A i \in 1 .. Len(log) : log'[i] = log[i]
      /\ log'[Len(log) + 1] = e
  BY <1>1, <1>2
<1>5. DOMAIN log = 1 .. Len(log) /\ DOMAIN log' = 1 .. Len(log') /\ Len(log) \in Nat
  BY <1>2, <1>4
<1> QED
  BY <1>3, <1>4, <1>5

(* A result that claims no record leaves the owners as they are.           *)
LEMMA NothingClaimed ==
    ASSUME TypeOK, OwnersInv, AnswersTellTruth,
           NEW r \in Requests, NEW status \in Status \ {"created", "readback_failed"},
           Finished(r, status, 0),
           UNCHANGED <<file, orphans>>, Written' = Written,
           \A c \in Written : attempt'[c] = attempt[c] /\ request'[c] = request[c]
    PROVE  Left' = Left /\ OwnersInv'
<1>1. /\ DOMAIN log' = DOMAIN log \cup {Len(log) + 1}
      /\ \A i \in DOMAIN log : log'[i] = log[i]
      /\ log'[Len(log) + 1].status = status
  BY LogGrows DEF Status
<1>2. Left' = Left /\ \A i \in Left : i \in DOMAIN log /\ log'[i] = log[i]
  BY <1>1 DEF Left
<1>3. EveryRecordHasOneOwner'
  BY <1>2 DEF OwnersInv, EveryRecordHasOneOwner, file
<1> QED
  BY <1>2, <1>3 DEF OwnersInv, file

-----------------------------------------------------------------------------
LEMMA InitIInv ==
    ASSUME CreateAssumption, Init PROVE IInv
<1>1. DOMAIN store = OldIds /\ \A id \in DOMAIN store : store[id] = Old
  BY DEF Init
<1>2. Left = {} /\ Written = {}
  BY DEF Init, Left, Written
<1>3. TypeOK
  BY <1>1 DEF Init, TypeOK, CreateAssumption, Contents, Running
<1>4. LockInv
  <2>1. HasTop(store)
    BY <1>1 DEF HasTop, CreateAssumption
  <2> QED
    BY <2>1 DEF Init, LockInv
<1>5. OwnersInv
  BY <1>1, <1>2 DEF OwnersInv, EveryRecordHasOneOwner, Init
<1>6. AnswersTellTruth
  BY DEF Init, AnswersTellTruth
<1> QED
  BY <1>3, <1>4, <1>5, <1>6 DEF IInv

LEMMA RefuseKeeps ==
    ASSUME CreateAssumption, IInv, NEW c \in Creators, NEW r \in Requests, Refuse(c, r)
    PROVE  IInv'
<1> USE DEF IInv
<1>1. PICK status \in {"invalid_request", "denied_by_policy"} : Finished(r, status, 0)
  BY DEF Refuse
<1>2. /\ log' \in Seq(Result)
      /\ DOMAIN log' = DOMAIN log \cup {Len(log) + 1}
      /\ \A i \in DOMAIN log : log'[i] = log[i]
      /\ log'[Len(log) + 1].status = status
      /\ log'[Len(log) + 1].conclusion = "none"
  BY <1>1, LogGrows DEF Status
<1>3. UNCHANGED <<file, allowed, lock, thread, orphans, bounds>>
  BY DEF Refuse
<1>4. TypeOK'
  BY <1>2, <1>3 DEF TypeOK, file, thread, bounds, Running
<1>5. LockInv'
  BY <1>3 DEF LockInv, file, thread
<1>6. Written' = Written
  BY <1>3 DEF Written, thread
<1>7. OwnersInv'
  BY <1>1, <1>3, <1>6, NothingClaimed DEF Status, thread
<1>8. AnswersTellTruth'
  BY <1>2, <1>3 DEF AnswersTellTruth, file, bounds
<1> QED
  BY <1>4, <1>5, <1>7, <1>8

LEMMA CreateKeeps ==
    ASSUME CreateAssumption, IInv, NEW c \in Creators, NEW r \in Requests, Create(c, r)
    PROVE  IInv'
<1> USE DEF IInv
<1>1. UNCHANGED <<file, allowed, lock, copy, attempt, log, orphans, bounds>>
  BY DEF Create
<1>2. /\ pc' = [pc EXCEPT ![c] = "waiting"] /\ request' = [request EXCEPT ![c] = r]
      /\ pc[c] = "idle"
  BY DEF Create, Running
<1>3. TypeOK'
  BY <1>1, <1>2 DEF TypeOK, file, bounds, Running, Contents
<1>4. LockInv'
  BY <1>1, <1>2 DEF LockInv, TypeOK, file
<1>5. Written' = Written /\ Left' = Left /\ \A d \in Written : request'[d] = request[d]
  BY <1>1, <1>2 DEF Written, Left, TypeOK
<1>6. OwnersInv'
  BY <1>1, <1>5 DEF OwnersInv, EveryRecordHasOneOwner, file
<1>7. AnswersTellTruth'
  BY <1>1 DEF AnswersTellTruth, file, bounds
<1> QED
  BY <1>3, <1>4, <1>6, <1>7

LEMMA LoadKeeps ==
    ASSUME CreateAssumption, IInv, NEW c \in Creators, Load(c)
    PROVE  IInv'
<1> USE DEF IInv
<1>1. UNCHANGED <<file, allowed, request, log, orphans, bounds>>
  BY DEF Load
<1>2. /\ pc[c] = "waiting" /\ lock = NoOne /\ readable /\ lock' = c
      /\ pc' = [pc EXCEPT ![c] = "loaded"]
      /\ copy' = [copy EXCEPT ![c] = store]
      /\ attempt' = [attempt EXCEPT ![c] = Fresh(store)]
  BY DEF Load
<1>3. Fresh(store) \in Nat
  BY FreshIsHighest DEF TypeOK, LockInv
<1>4. \A d \in Creators : pc[d] # "loaded"
  BY <1>2 DEF TypeOK, CreateAssumption
<1>5. TypeOK'
  BY <1>1, <1>2, <1>3, <1>4 DEF TypeOK, file, bounds, Running
<1>6. LockInv'
  BY <1>1, <1>2, <1>4 DEF LockInv, TypeOK, file
<1>7. Written' = Written /\ Left' = Left /\ \A d \in Written : attempt'[d] = attempt[d]
  BY <1>1, <1>2 DEF Written, Left, TypeOK
<1>8. OwnersInv'
  BY <1>1, <1>7 DEF OwnersInv, EveryRecordHasOneOwner, file
<1>9. AnswersTellTruth'
  BY <1>1 DEF AnswersTellTruth, file, bounds
<1> QED
  BY <1>5, <1>6, <1>8, <1>9

(* A call that ends without a record, after or before it had the lock.     *)
LEMMA FailsKeeps ==
    ASSUME CreateAssumption, IInv, NEW c \in Creators, pc[c] \in {"waiting", "loaded"},
           NEW status \in {"store_invalid", "write_failed"}, Fails(c, status),
           faults' \in 0 .. MaxFaults, UNCHANGED crashes, readable => faults' # 0
    PROVE  IInv'
<1> USE DEF IInv
<1>1. Finished(request[c], status, 0) /\ UNCHANGED <<file, allowed, orphans>>
  BY DEF Fails
<1>2. /\ pc' = [pc EXCEPT ![c] = "idle"] /\ request' = [request EXCEPT ![c] = Old]
      /\ copy' = [copy EXCEPT ![c] = Empty] /\ attempt' = [attempt EXCEPT ![c] = 0]
      /\ lock' = IF lock = c THEN NoOne ELSE lock
  BY DEF Fails, Reset
<1>3. request[c] \in Requests
  BY DEF TypeOK, Running
<1>4. /\ log' \in Seq(Result)
      /\ DOMAIN log' = DOMAIN log \cup {Len(log) + 1}
      /\ \A i \in DOMAIN log : log'[i] = log[i]
      /\ log'[Len(log) + 1].conclusion = "none"
  BY <1>1, <1>3, LogGrows DEF Status
<1>5. TypeOK'
  <2>1. \A d \in Creators : lock' = d <=> pc'[d] = "loaded"
    BY <1>2 DEF TypeOK, CreateAssumption
  <2>2. lock' \in Creators \cup {NoOne}
    BY <1>2 DEF TypeOK
  <2> QED
    BY <1>1, <1>2, <1>4, <2>1, <2>2 DEF TypeOK, file, Running, Contents
<1>6. LockInv'
  BY <1>1, <1>2 DEF LockInv, TypeOK, file
<1>7. Written' = Written
  BY <1>2 DEF Written, TypeOK
<1>8. \A d \in Written : attempt'[d] = attempt[d] /\ request'[d] = request[d]
  BY <1>2 DEF Written, TypeOK
<1>9. OwnersInv'
  BY <1>1, <1>3, <1>7, <1>8, NothingClaimed DEF Status
<1>10. AnswersTellTruth'
  BY <1>1, <1>4 DEF AnswersTellTruth, file
<1> QED
  BY <1>5, <1>6, <1>9, <1>10

(* The replacement adds one record and changes no other.                   *)
LEMMA ReplaceAdds ==
    ASSUME IInv, NEW c \in Creators, Replace(c)
    PROVE  /\ DOMAIN store' = DOMAIN store \cup {attempt[c]}
           /\ store'[attempt[c]] = request[c]
           /\ attempt[c] \in Nat \ {0}
           /\ \A id \in DOMAIN store : id < attempt[c]
           /\ attempt[c] \notin DOMAIN store
           /\ \A id \in DOMAIN store : store'[id] = store[id]
           /\ HasTop(store')
           /\ store' = [i \in DOMAIN store \cup {attempt[c]} |->
                          IF i = attempt[c] THEN request[c] ELSE store[i]]
<1>1. copy[c] = store /\ attempt[c] = Fresh(store)
  BY DEF IInv, LockInv, Replace
<1>2. store' = With(store, Fresh(store), request[c])
  BY <1>1 DEF Replace
<1>3. DOMAIN store \subseteq Nat \ {0} /\ HasTop(store)
  BY DEF IInv, LockInv, TypeOK
<1> QED
  BY <1>1, <1>2, <1>3, FreshIsHighest, AddedIsHighest DEF With

LEMMA ReplaceKeeps ==
    ASSUME CreateAssumption, IInv, NEW c \in Creators, Replace(c)
    PROVE  IInv'
<1> USE DEF IInv
<1>1. /\ DOMAIN store' = DOMAIN store \cup {attempt[c]}
      /\ store'[attempt[c]] = request[c]
      /\ attempt[c] \in Nat \ {0}
      /\ attempt[c] \notin DOMAIN store
      /\ \A id \in DOMAIN store : store'[id] = store[id]
      /\ HasTop(store')
      /\ store' = [i \in DOMAIN store \cup {attempt[c]} |->
                          IF i = attempt[c] THEN request[c] ELSE store[i]]
  BY ReplaceAdds
<1>2. UNCHANGED <<allowed, request, attempt, log, orphans, bounds>>
  BY DEF Replace
<1>3. /\ pc[c] = "loaded" /\ lock' = NoOne /\ pc' = [pc EXCEPT ![c] = "written"]
      /\ copy' = [copy EXCEPT ![c] = Empty] /\ readable' = TRUE /\ readable
  BY DEF Replace, LockInv
<1>4. request[c] \in Requests /\ request[c] # Old
  BY <1>3 DEF TypeOK, Running, CreateAssumption
<1>5. \A d \in Creators : pc[d] = "loaded" => d = c
  BY <1>3 DEF TypeOK
<1>6. TypeOK'
  <2>1. DOMAIN store' \subseteq Nat \ {0} /\ store' \in [DOMAIN store' -> Contents]
    BY <1>1, <1>4 DEF TypeOK, Contents
  <2>2. \A d \in Creators : lock' = d <=> pc'[d] = "loaded"
    BY <1>3, <1>5 DEF TypeOK, CreateAssumption
  <2>3. \A d \in Creators : Running(d)' => request'[d] \in Requests
    BY <1>2, <1>3, <1>4 DEF TypeOK, Running
  <2>4. orphans' \subseteq DOMAIN store'
    BY <1>1, <1>2 DEF TypeOK
  <2> QED
    BY <1>2, <1>3, <2>1, <2>2, <2>3, <2>4 DEF TypeOK, bounds
<1>7. LockInv'
  BY <1>1, <1>2, <1>3, <1>5 DEF LockInv, TypeOK
<1>8. Left' = Left /\ Written' = Written \cup {c} /\ c \notin Written
  BY <1>2, <1>3 DEF Left, Written, TypeOK
<1>9. OwnersInv'
  <2> DEFINE owned == {log[i].id : i \in Left} \cup {attempt[d] : d \in Written} \cup orphans
  <2>1. {id \in DOMAIN store : store[id] # Old} = owned
    BY DEF OwnersInv, EveryRecordHasOneOwner
  <2>2. owned' = owned \cup {attempt[c]}
    BY <1>2, <1>8
  <2>3. {id \in DOMAIN store' : store'[id] # Old} = {id \in DOMAIN store : store[id] # Old} \cup {attempt[c]}
    BY <1>1, <1>4
  <2>4. attempt[c] \notin owned
    BY <1>1, <2>1
  <2>5. EveryRecordHasOneOwner'
    <3>1. \A i \in Left : log[i].id # attempt[c]
      BY <2>4
    <3>2. \A d \in Written : attempt[d] # attempt[c]
      BY <2>4
    <3>3. attempt[c] \notin orphans
      BY <2>4
    <3> HIDE DEF owned
    <3>4. {id \in DOMAIN store' : store'[id] # Old} = owned'
      BY <2>1, <2>2, <2>3
    <3> QED
      BY <1>2, <1>8, <3>1, <3>2, <3>3, <3>4 DEF OwnersInv, EveryRecordHasOneOwner, owned
  <2>6. \A i \in Left' : store'[log'[i].id] = log'[i].request
    BY <1>1, <1>2, <1>8, <2>1 DEF OwnersInv
  <2>7. \A d \in Written' : store'[attempt'[d]] = request'[d]
    BY <1>1, <1>2, <1>8, <2>1 DEF OwnersInv
  <2> QED
    BY <2>5, <2>6, <2>7 DEF OwnersInv
<1>10. AnswersTellTruth'
  BY <1>2, <1>3 DEF AnswersTellTruth, bounds
<1> QED
  BY <1>6, <1>7, <1>9, <1>10

(* The read-back finds the record, whatever other threads did meanwhile.   *)
LEMMA ReadBackFinds ==
    ASSUME IInv, NEW c \in Creators, pc[c] = "written"
    PROVE  Matches(attempt[c], request[c])
<1>1. c \in Written
  BY DEF Written
<1>2. attempt[c] \in DOMAIN store
  BY <1>1 DEF IInv, OwnersInv, EveryRecordHasOneOwner
<1> QED
  BY <1>1, <1>2 DEF IInv, OwnersInv, LockInv, Matches

LEMMA ReadBackKeeps ==
    ASSUME CreateAssumption, IInv, NEW c \in Creators, ReadBack(c)
    PROVE  IInv'
<1> USE DEF IInv
<1> DEFINE n == Len(log) + 1
<1>1. UNCHANGED <<file, allowed, lock, orphans>> /\ pc[c] = "written"
  BY DEF ReadBack
<1>2. /\ pc' = [pc EXCEPT ![c] = "idle"] /\ request' = [request EXCEPT ![c] = Old]
      /\ copy' = [copy EXCEPT ![c] = Empty] /\ attempt' = [attempt EXCEPT ![c] = 0]
  BY DEF ReadBack, Reset
<1>3. PICK status \in {"created", "readback_failed"} :
        /\ Finished(request[c], status, attempt[c])
        /\ UNCHANGED crashes
        /\ \/ status = "created" /\ UNCHANGED faults
           \/ faults < MaxFaults /\ faults' = faults + 1
  <2>1. Matches(attempt[c], request[c])
    BY <1>1, ReadBackFinds
  <2> QED
    BY <2>1 DEF ReadBack, Fault, bounds
<1>4. request[c] \in Requests /\ attempt[c] \in Nat
  BY <1>1 DEF TypeOK, Running
<1>5. /\ log' \in Seq(Result)
      /\ DOMAIN log' = DOMAIN log \cup {n}
      /\ n \notin DOMAIN log
      /\ \A i \in DOMAIN log : log'[i] = log[i]
      /\ log'[n].request = request[c]
      /\ log'[n].status = status
      /\ log'[n].id = attempt[c]
      /\ log'[n].conclusion = "none"
  BY <1>3, <1>4, LogGrows DEF Status
<1> HIDE DEF n
<1>6. Left' = Left \cup {n} /\ n \notin Left /\ \A i \in Left : log'[i] = log[i]
  BY <1>5 DEF Left
<1>7. Written' = Written \ {c} /\ c \in Written
  BY <1>1, <1>2 DEF Written, TypeOK
<1>8. \A d \in Written' : d \in Written /\ attempt'[d] = attempt[d] /\ request'[d] = request[d]
  BY <1>2, <1>7 DEF TypeOK, Written
<1>9. faults \in Nat /\ MaxFaults \in Nat /\ faults' \in 0 .. MaxFaults
  BY <1>3 DEF TypeOK, CreateAssumption
<1>10. TypeOK'
  <2>1. \A d \in Creators : lock' = d <=> pc'[d] = "loaded"
    BY <1>1, <1>2 DEF TypeOK
  <2> QED
    BY <1>1, <1>2, <1>3, <1>5, <1>9, <2>1 DEF TypeOK, file, Running, Contents
<1>11. LockInv'
  BY <1>1, <1>2 DEF LockInv, TypeOK, file
<1>12. OwnersInv'
  <2>1. {log'[i].id : i \in Left'} = {log[i].id : i \in Left} \cup {attempt[c]}
    BY <1>5, <1>6
  <2>2. {attempt'[d] : d \in Written'} \cup {attempt[c]} = {attempt[d] : d \in Written}
    <3>1. {attempt'[d] : d \in Written'} = {attempt[d] : d \in Written \ {c}}
      BY <1>7, <1>8
    <3> QED
      BY <1>7, <3>1
  <2>3. {id \in DOMAIN store' : store'[id] # Old}
          = {log'[i].id : i \in Left'} \cup {attempt'[d] : d \in Written'} \cup orphans'
    <3>1. {id \in DOMAIN store : store[id] # Old}
            = {log[i].id : i \in Left} \cup {attempt[d] : d \in Written} \cup orphans
      BY DEF OwnersInv, EveryRecordHasOneOwner
    <3> QED
      BY <1>1, <2>1, <2>2, <3>1 DEF file
  <2>4. \A i, j \in Left' : log'[i].id = log'[j].id => i = j
    BY <1>5, <1>6, <1>7 DEF OwnersInv, EveryRecordHasOneOwner
  <2>5. \A d, e \in Written' : attempt'[d] = attempt'[e] => d = e
    BY <1>8 DEF OwnersInv, EveryRecordHasOneOwner
  <2>6. \A i \in Left', d \in Written' : log'[i].id # attempt'[d]
    BY <1>5, <1>6, <1>7, <1>8 DEF OwnersInv, EveryRecordHasOneOwner
  <2>7. \A i \in Left' : log'[i].id \notin orphans'
    BY <1>1, <1>5, <1>6, <1>7 DEF OwnersInv, EveryRecordHasOneOwner
  <2>8. \A d \in Written' : attempt'[d] \notin orphans'
    BY <1>1, <1>8 DEF OwnersInv, EveryRecordHasOneOwner
  <2>9. EveryRecordHasOneOwner'
    BY <2>3, <2>4, <2>5, <2>6, <2>7, <2>8 DEF EveryRecordHasOneOwner
  <2>10. \A i \in Left' : store'[log'[i].id] = log'[i].request
    BY <1>1, <1>5, <1>6, <1>7 DEF OwnersInv, file
  <2>11. \A d \in Written' : store'[attempt'[d]] = request'[d]
    BY <1>1, <1>8 DEF OwnersInv, file
  <2> QED
    BY <2>9, <2>10, <2>11 DEF OwnersInv
<1>13. AnswersTellTruth'
  <2>1. faults' = 0 => faults = 0 /\ status = "created"
    BY <1>3, <1>9
  <2> QED
    BY <1>1, <1>5, <2>1 DEF AnswersTellTruth, file
<1> QED
  BY <1>10, <1>11, <1>12, <1>13

(* What Reconcile leaves of the log.                                       *)
LEMMA OnlyConcludes ==
    ASSUME TypeOK, NEW i \in DOMAIN log, NEW said \in Conclusion,
           log' = [log EXCEPT ![i].conclusion = said]
    PROVE  /\ log' \in Seq(Result)
           /\ DOMAIN log' = DOMAIN log
           /\ \A j \in DOMAIN log :
                /\ log'[j].request = log[j].request
                /\ log'[j].status = log[j].status
                /\ log'[j].id = log[j].id
                /\ log'[j].conclusion = IF j = i THEN said ELSE log[j].conclusion
<1>1. log \in Seq(Result) /\ DOMAIN log = 1 .. Len(log) /\ Len(log) \in Nat
  BY DEF TypeOK
<1> DEFINE e == [log[i] EXCEPT !.conclusion = said]
<1>2. log[i] \in Result
  BY <1>1
<1>3. /\ e \in Result
      /\ e.request = log[i].request /\ e.status = log[i].status
      /\ e.id = log[i].id /\ e.conclusion = said
  BY <1>2 DEF Result
<1>4. log' = [log EXCEPT ![i] = e]
  OBVIOUS
<1> HIDE DEF e
<1>5. DOMAIN log' = DOMAIN log /\ \A j \in DOMAIN log : log'[j] = IF j = i THEN e ELSE log[j]
  BY <1>1, <1>4
<1>6. log' \in Seq(Result)
  BY <1>1, <1>3, <1>4
<1> QED
  BY <1>3, <1>5, <1>6

(* Reconciliation cannot conclude that the record is absent.               *)
LEMMA ReconcileSays ==
    ASSUME IInv, NEW i \in DOMAIN log, Reconcile(i)
    PROVE  /\ \E said \in Conclusion \ {"confirmed_absent"} :
                log' = [log EXCEPT ![i].conclusion = said]
           /\ \/ UNCHANGED faults
              \/ faults < MaxFaults /\ faults' = faults + 1
           /\ crashes' = crashes
<1>1. i \in Left
  BY DEF Reconcile, Left
<1>2. log[i].id \in DOMAIN store
  BY <1>1 DEF IInv, OwnersInv, EveryRecordHasOneOwner
<1>3. Concluded(log[i].id, log[i].request) \in Conclusion \ {"confirmed_absent"}
  <2>1. store[log[i].id] = log[i].request
    BY <1>1 DEF IInv, OwnersInv
  <2>2. CASE readable
    <3>1. Matches(log[i].id, log[i].request)
      BY <1>2, <2>1, <2>2 DEF Matches
    <3>2. Concluded(log[i].id, log[i].request) = "confirmed_persisted"
      BY <1>2, <2>2, <3>1 DEF Concluded
    <3> QED
      BY <3>2 DEF Conclusion
  <2>3. CASE ~readable
    BY <2>3 DEF Concluded, Conclusion
  <2> QED
    BY <2>2, <2>3
<1> QED
  BY <1>3 DEF Reconcile, Fault, bounds, Conclusion

LEMMA ReconcileKeeps ==
    ASSUME CreateAssumption, IInv, NEW i \in DOMAIN log, Reconcile(i)
    PROVE  IInv'
<1> USE DEF IInv
<1>1. UNCHANGED <<file, allowed, lock, thread, orphans>>
  BY DEF Reconcile
<1>2. PICK said \in Conclusion \ {"confirmed_absent"} : log' = [log EXCEPT ![i].conclusion = said]
  BY ReconcileSays
<1>3. /\ log' \in Seq(Result)
      /\ DOMAIN log' = DOMAIN log
      /\ \A j \in DOMAIN log :
           /\ log'[j].request = log[j].request
           /\ log'[j].status = log[j].status
           /\ log'[j].id = log[j].id
           /\ log'[j].conclusion = IF j = i THEN said ELSE log[j].conclusion
  BY <1>2, OnlyConcludes
<1>4. faults' \in 0 .. MaxFaults /\ crashes' = crashes /\ (faults' = 0 => faults = 0)
  BY ReconcileSays DEF TypeOK, CreateAssumption
<1>5. TypeOK'
  BY <1>1, <1>3, <1>4 DEF TypeOK, file, thread, Running
<1>6. LockInv'
  BY <1>1 DEF LockInv, file, thread
<1>7. Left' = Left /\ Written' = Written /\ Left \subseteq DOMAIN log
  BY <1>1, <1>3 DEF Left, Written, thread
<1>8. OwnersInv'
  <2>1. {log'[j].id : j \in Left'} = {log[j].id : j \in Left}
    BY <1>3, <1>7
  <2>2. {id \in DOMAIN store' : store'[id] # Old}
          = {log'[j].id : j \in Left'} \cup {attempt'[d] : d \in Written'} \cup orphans'
    BY <1>1, <1>7, <2>1 DEF OwnersInv, EveryRecordHasOneOwner, file, thread
  <2>3. EveryRecordHasOneOwner'
    BY <1>1, <1>3, <1>7, <2>2 DEF OwnersInv, EveryRecordHasOneOwner, file, thread
  <2> QED
    BY <1>1, <1>3, <1>7, <2>3 DEF OwnersInv, file, thread
<1>9. AnswersTellTruth'
  BY <1>1, <1>3, <1>4 DEF AnswersTellTruth, file
<1> QED
  BY <1>5, <1>6, <1>8, <1>9

LEMMA CrashKeeps ==
    ASSUME CreateAssumption, IInv, Crash
    PROVE  IInv'
<1> USE DEF IInv
<1>1. UNCHANGED <<file, log, faults>>
  BY DEF Crash
<1>2. /\ lock' = NoOne /\ pc' = [c \in Creators |-> "idle"]
      /\ request' = [c \in Creators |-> Old] /\ copy' = [c \in Creators |-> Empty]
      /\ attempt' = [c \in Creators |-> 0]
      /\ allowed' \in BOOLEAN /\ crashes' \in 0 .. MaxCrashes
  BY DEF Crash, TypeOK, CreateAssumption
<1>3. orphans' = orphans \cup {attempt[c] : c \in Written}
  BY DEF Crash, Written
<1>4. Left' = Left /\ Written' = {}
  BY <1>1, <1>2 DEF Left, Written
<1>5. {id \in DOMAIN store : store[id] # Old}
        = {log[i].id : i \in Left} \cup {attempt[c] : c \in Written} \cup orphans
  BY DEF OwnersInv, EveryRecordHasOneOwner
<1>6. TypeOK'
  <2>1. orphans' \subseteq DOMAIN store'
    BY <1>1, <1>3, <1>5 DEF file
  <2> QED
    BY <1>1, <1>2, <2>1 DEF TypeOK, file, Running, Contents, CreateAssumption
<1>7. LockInv'
  BY <1>1, <1>2 DEF LockInv, file
<1>8. OwnersInv'
  <2>1. {id \in DOMAIN store' : store'[id] # Old}
          = {log'[i].id : i \in Left'} \cup {attempt'[c] : c \in Written'} \cup orphans'
    BY <1>1, <1>3, <1>4, <1>5 DEF file
  <2>2. \A i \in Left : log[i].id \notin orphans'
    BY <1>3 DEF OwnersInv, EveryRecordHasOneOwner
  <2>3. EveryRecordHasOneOwner'
    BY <1>1, <1>4, <2>1, <2>2 DEF OwnersInv, EveryRecordHasOneOwner
  <2> QED
    BY <1>1, <1>4, <2>3 DEF OwnersInv, file
<1>9. AnswersTellTruth'
  BY <1>1 DEF AnswersTellTruth, file
<1> QED
  BY <1>6, <1>7, <1>8, <1>9

-----------------------------------------------------------------------------
LEMMA FaultCounts ==
    ASSUME CreateAssumption, TypeOK, Fault
    PROVE  faults' \in 0 .. MaxFaults /\ crashes' = crashes /\ faults' # 0
BY DEF CreateAssumption, TypeOK, Fault

LEMMA NextKeeps ==
    ASSUME CreateAssumption, IInv, [Next]_vars
    PROVE  IInv'
<1>1. CASE UNCHANGED vars
  BY <1>1 DEF vars, file, thread, bounds, IInv, TypeOK, LockInv, OwnersInv, EveryRecordHasOneOwner,
              AnswersTellTruth, Left, Written, Running
<1>2. CASE \E c \in Creators, r \in Requests : Refuse(c, r) \/ Create(c, r)
  BY <1>2, RefuseKeeps, CreateKeeps
<1>3. ASSUME NEW c \in Creators, Goes(c) PROVE IInv'
  <2>1. CASE LoadFails(c)
    <3>1. pc[c] = "waiting" /\ Fails(c, "store_invalid") /\ (readable => Fault) /\ (~readable => UNCHANGED bounds)
      BY <2>1 DEF LoadFails
    <3>2. faults' \in 0 .. MaxFaults /\ crashes' = crashes /\ (readable => faults' # 0)
      BY <3>1, FaultCounts DEF IInv, TypeOK, bounds
    <3> QED
      BY <3>1, <3>2, FailsKeeps
  <2>2. CASE ReplaceFails(c)
    <3>1. pc[c] = "loaded" /\ Fails(c, "write_failed") /\ Fault
      BY <2>2 DEF ReplaceFails
    <3>2. faults' \in 0 .. MaxFaults /\ crashes' = crashes /\ faults' # 0
      BY <3>1, FaultCounts DEF IInv
    <3> QED
      BY <3>1, <3>2, FailsKeeps
  <2> QED
    BY <1>3, <2>1, <2>2, LoadKeeps, ReplaceKeeps, ReadBackKeeps DEF Goes
<1>4. CASE \E i \in DOMAIN log : Reconcile(i)
  BY <1>4, ReconcileKeeps
<1>5. CASE Crash
  BY <1>5, CrashKeeps
<1> QED
  BY <1>1, <1>2, <1>3, <1>4, <1>5 DEF Next

THEOREM Invariant == Spec => []IInv
<1>1. Init => IInv
  BY CreateAssumption, InitIInv
<1>2. IInv /\ [Next]_vars => IInv'
  BY CreateAssumption, NextKeeps
<1> QED
  BY <1>1, <1>2, PTL DEF Spec

(* The types hold, and the lock belongs to the thread that has loaded.     *)
THEOREM TypeCorrect == Spec => []TypeOK
<1>1. IInv => TypeOK
  BY DEF IInv
<1> QED
  BY <1>1, Invariant, PTL

(* Every record belongs to exactly one call, whatever fails and whenever   *)
(* the process ends.                                                       *)
THEOREM OneOwner == Spec => []EveryRecordHasOneOwner
<1>1. IInv => EveryRecordHasOneOwner
  BY DEF IInv, OwnersInv
<1> QED
  BY <1>1, Invariant, PTL

(* Results and reconciliations say what is the case.                       *)
THEOREM TruthIsTold == Spec => []AnswersTellTruth
<1>1. IInv => AnswersTellTruth
  BY DEF IInv
<1> QED
  BY <1>1, Invariant, PTL

-----------------------------------------------------------------------------
(* Apart from Replace no step touches the store, and apart from a           *)
(* successful ReadBack none confirms anything.                             *)
LEMMA StoreChanges ==
    ASSUME IInv, [Next]_vars
    PROVE  UNCHANGED store \/ \E c \in Creators : Replace(c)
<1>1. CASE UNCHANGED vars
  BY <1>1 DEF vars, file
<1>2. CASE Next
  BY <1>2 DEF Next, Refuse, Create, Goes, Load, LoadFails, ReplaceFails, Fails, ReadBack, Reconcile, Crash, file
<1> QED
  BY <1>1, <1>2

(* Existing ids and records stay as they are.                              *)
THEOREM NoRecordIsLost == Spec => NothingLost
<1>1. IInv /\ [Next]_vars => [\A id \in DOMAIN store : id \in DOMAIN store' /\ store'[id] = store[id]]_vars
  <2> SUFFICES ASSUME IInv, [Next]_vars
               PROVE  \A id \in DOMAIN store : id \in DOMAIN store' /\ store'[id] = store[id]
    OBVIOUS
  <2>1. CASE UNCHANGED store
    BY <2>1
  <2>2. CASE \E c \in Creators : Replace(c)
    BY <2>2, ReplaceAdds
  <2> QED
    BY <2>1, <2>2, StoreChanges
<1> QED
  BY <1>1, Invariant, PTL DEF Spec, NothingLost

LEMMA ConfirmedGrows ==
    ASSUME TypeOK, NEW r \in Requests, NEW status \in Status, NEW id \in Nat, Finished(r, status, id)
    PROVE  Confirmed' = IF status = "created" THEN Confirmed \cup {id} ELSE Confirmed
<1> DEFINE n == Len(log) + 1
           Said == {j \in DOMAIN log : log[j].status = "created"}
<1>1. /\ DOMAIN log' = DOMAIN log \cup {n} /\ n \notin DOMAIN log
      /\ \A i \in DOMAIN log : log'[i] = log[i]
      /\ log'[n].status = status /\ log'[n].id = id
  BY LogGrows
<1> HIDE DEF n
<1>2. Said' = IF status = "created" THEN Said \cup {n} ELSE Said
  BY <1>1
<1>3. \A i \in Said : log'[i].id = log[i].id
  BY <1>1
<1>4. Confirmed = {log[i].id : i \in Said} /\ Confirmed' = {log'[i].id : i \in Said'}
  BY DEF Confirmed
<1> HIDE DEF Said
<1> QED
  BY <1>1, <1>2, <1>3, <1>4

(* A step of the threads is a step of the one store, or none.              *)
LEMMA StepMaps ==
    ASSUME CreateAssumption, IInv, [Next]_vars
    PROVE  [Promise!Next]_(Promise!vars)
<1> USE DEF IInv
<1> SUFFICES \/ UNCHANGED <<store, Confirmed>>
             \/ \E id \in DOMAIN store', content \in Contents : Promise!Add(id, content)
             \/ \E id \in DOMAIN store : Promise!Confirm(id)
  BY DEF Promise!Next, Promise!vars
<1>1. CASE UNCHANGED vars
  BY <1>1 DEF vars, file, Confirmed
<1>2. ASSUME NEW c \in Creators, NEW r \in Requests, Refuse(c, r) PROVE UNCHANGED <<store, Confirmed>>
  <2>1. PICK status \in {"invalid_request", "denied_by_policy"} : Finished(r, status, 0)
    BY <1>2 DEF Refuse
  <2>2. UNCHANGED store
    BY <1>2 DEF Refuse, file
  <2> QED
    BY <2>1, <2>2, ConfirmedGrows DEF Status
<1>3. ASSUME NEW c \in Creators, NEW r \in Requests, Create(c, r) PROVE UNCHANGED <<store, Confirmed>>
  BY <1>3 DEF Create, file, Confirmed
<1>4. ASSUME NEW c \in Creators, Load(c) PROVE UNCHANGED <<store, Confirmed>>
  BY <1>4 DEF Load, file, Confirmed
<1>5. ASSUME NEW c \in Creators, LoadFails(c) \/ ReplaceFails(c) PROVE UNCHANGED <<store, Confirmed>>
  <2>1. PICK status \in {"store_invalid", "write_failed"} : Fails(c, status) /\ pc[c] # "idle"
    BY <1>5 DEF LoadFails, ReplaceFails
  <2>2. Finished(request[c], status, 0) /\ request[c] \in Requests /\ UNCHANGED store
    BY <2>1 DEF Fails, TypeOK, Running, file
  <2> QED
    BY <2>2, ConfirmedGrows DEF Status
<1>6. ASSUME NEW c \in Creators, Replace(c)
      PROVE  \E id \in DOMAIN store', content \in Contents : Promise!Add(id, content)
  <2>1. UNCHANGED Confirmed
    BY <1>6 DEF Replace, Confirmed
  <2>2. request[c] \in Contents
    BY <1>6 DEF TypeOK
  <2>3. Promise!Add(attempt[c], request[c]) /\ attempt[c] \in DOMAIN store'
    BY <1>6, <2>1, ReplaceAdds DEF Promise!Add
  <2> QED
    BY <2>2, <2>3
<1>7. ASSUME NEW c \in Creators, ReadBack(c)
      PROVE  UNCHANGED <<store, Confirmed>> \/ \E id \in DOMAIN store : Promise!Confirm(id)
  <2>1. pc[c] = "written" /\ UNCHANGED store
    BY <1>7 DEF ReadBack, file
  <2>2. request[c] \in Requests /\ attempt[c] \in Nat
    BY <2>1 DEF TypeOK, Running
  <2>3. attempt[c] \in DOMAIN store
    BY <2>1, ReadBackFinds DEF Matches
  <2>4. attempt[c] \notin Confirmed
    <3>1. c \in Written
      BY <2>1 DEF Written
    <3>2. \A j \in DOMAIN log : log[j].status = "created" => j \in Left
      BY DEF Left
    <3> QED
      BY <3>1, <3>2 DEF Confirmed, OwnersInv, EveryRecordHasOneOwner
  <2>5. CASE Finished(request[c], "created", attempt[c])
    <3>1. Confirmed' = Confirmed \cup {attempt[c]}
      BY <2>2, <2>5, ConfirmedGrows DEF Status
    <3> QED
      BY <2>1, <2>3, <2>4, <3>1 DEF Promise!Confirm
  <2>6. CASE Finished(request[c], "readback_failed", attempt[c])
    BY <2>1, <2>2, <2>6, ConfirmedGrows DEF Status
  <2> QED
    BY <1>7, <2>5, <2>6 DEF ReadBack
<1>8. ASSUME NEW i \in DOMAIN log, Reconcile(i) PROVE UNCHANGED <<store, Confirmed>>
  <2>1. PICK said \in Conclusion : log' = [log EXCEPT ![i].conclusion = said]
    BY <1>8, ReconcileSays
  <2>2. DOMAIN log' = DOMAIN log /\ \A j \in DOMAIN log : log'[j].status = log[j].status /\ log'[j].id = log[j].id
    BY <2>1, OnlyConcludes
  <2>3. {j \in DOMAIN log' : log'[j].status = "created"} = {j \in DOMAIN log : log[j].status = "created"}
    BY <2>2
  <2>4. Confirmed' = Confirmed
    BY <2>2, <2>3 DEF Confirmed
  <2> QED
    BY <1>8, <2>4 DEF Reconcile, file
<1>9. CASE Crash
  BY <1>9 DEF Crash, file, Confirmed
<1> QED
  BY <1>1, <1>2, <1>3, <1>4, <1>5, <1>6, <1>7, <1>8, <1>9 DEF Next, Goes

(* The threads together implement the store that grows step by step.       *)
THEOREM Implements == Spec => IsRecordStore
<1>1. Init => Promise!Init
  <2> SUFFICES ASSUME Init PROVE Promise!Init
    OBVIOUS
  <2>1. DOMAIN store = OldIds /\ store \in [DOMAIN store -> Contents]
    BY DEF Init, Contents
  <2>2. Confirmed = {}
    BY DEF Init, Confirmed
  <2> QED
    BY <2>1, <2>2, CreateAssumption DEF Promise!Init, CreateAssumption
<1>2. IInv /\ [Next]_vars => [Promise!Next]_(Promise!vars)
  BY CreateAssumption, StepMaps
<1> QED
  BY <1>1, <1>2, Invariant, PTL DEF Spec, IsRecordStore, Promise!Spec

=============================================================================
