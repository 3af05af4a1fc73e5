---------------------------- MODULE MutexProofs ----------------------------
(***************************************************************************)
(* Proofs about module Mutex, for every set of tasks, number of mutexes    *)
(* and priorities: who owns a mutex and who waits for it; and, below, the  *)
(* priorities that mutexes impose: the queues stay sorted, ceilings are    *)
(* respected and the current priority of a task is the highest of its base *)
(* priority and of what the mutexes it holds impose.                       *)
(***************************************************************************)
EXTENDS Mutex, FiniteSetTheorems, TLAPS

-----------------------------------------------------------------------------
(* The minimum of a nonempty set of numbers between 1 and n is one of them *)
(* and a lower bound of them: release_mutex and queue_insert_tpri always   *)
(* find a priority and a position.                                         *)
LEMMA MinOf ==
  ASSUME NEW n \in Nat, NEW S, S \subseteq 1..n, S # {}
  PROVE  Min(S) \in S /\ \A r \in S : Min(S) <= r
<1> DEFINE Below(k) == {j \in S : j <= k}
           T == {Below(k) : k \in S}
           R == StrictSubsetOrdering(1..n)
<1>1. IsWellFoundedOn(R, SUBSET (1..n))
  <2>1. FiniteSubsetsOf(1..n) = SUBSET (1..n)
    <3>1. IsFiniteSet(1..n)
      BY FS_Interval
    <3> QED BY <3>1, FS_FiniteSubsetsOfFinite
  <2> QED BY <2>1, FS_StrictSubsetOrderingWellFounded
<1>2. T \subseteq SUBSET (1..n) /\ T # {}
  OBVIOUS
<1>3. PICK x \in T : \A y \in T : ~(<<y, x>> \in R)
  <2> HIDE DEF T, R
  <2> QED BY <1>1, <1>2, WFMin
<1>4. PICK k \in S : x = Below(k)
  OBVIOUS
<1>5. ASSUME NEW j \in S, j < k
      PROVE  FALSE
  <2>1. k \in Below(k) /\ k \notin Below(j)
    BY <1>5
  <2>2. Below(j) \subseteq Below(k)
    <3>1. \A i \in S : i <= j => i <= k
      <4>1. S \subseteq Int
        OBVIOUS
      <4> QED BY <4>1, <1>5
    <3> QED BY <3>1
  <2>3. <<Below(j), Below(k)>> \in R
    BY <2>1, <2>2 DEF StrictSubsetOrdering
  <2> QED BY <1>3, <1>4, <2>3
<1>6. \A j \in S : k <= j
  BY <1>5
<1> QED BY <1>6 DEF Min

-----------------------------------------------------------------------------
(* What the queue operations do to the set of queued tasks.  They keep a   *)
(* queue free of duplicates.                                               *)

LEMMA QueInsertLemma ==
  ASSUME NEW q \in Seq(Task), NEW t \in Task,
         IsInjective(q), t \notin Range(q)
  PROVE  /\ QueInsert(q, t) \in Seq(Task)
         /\ Range(QueInsert(q, t)) = Range(q) \cup {t}
         /\ IsInjective(QueInsert(q, t))
<1> DEFINE r == QueInsert(q, t)
<1>1. /\ Len(q) \in Nat /\ DOMAIN q = 1..Len(q)
      /\ DOMAIN r = 1..(Len(q) + 1)
      /\ \A i \in 1..Len(q) : r[i] = q[i] /\ q[i] \in Task
      /\ r[Len(q) + 1] = t
  BY DEF QueInsert
<1>2. r \in Seq(Task)
  BY <1>1 DEF QueInsert
<1>3. Range(r) = Range(q) \cup {t}
  BY <1>1 DEF Range
<1>4. IsInjective(r)
  BY <1>1 DEF IsInjective, Range
<1> QED BY <1>2, <1>3, <1>4

LEMMA TpriLemma ==
  ASSUME NEW q \in Seq(Task), NEW t \in Task, NEW pri,
         IsInjective(q), t \notin Range(q)
  PROVE  /\ queue_insert_tpri(q, t, pri) \in Seq(Task)
         /\ Range(queue_insert_tpri(q, t, pri)) = Range(q) \cup {t}
         /\ IsInjective(queue_insert_tpri(q, t, pri))
<1> DEFINE S == {i \in 1..Len(q) : pri[q[i]] > pri[t]} \cup {Len(q) + 1}
           p == Min(S)
           r == [i \in 1..(Len(q) + 1) |->
                   IF i < p THEN q[i] ELSE IF i = p THEN t ELSE q[i - 1]]
<1>1. Len(q) \in Nat /\ DOMAIN q = 1..Len(q) /\ \A i \in 1..Len(q) : q[i] \in Task
  OBVIOUS
<1>2. p \in 1..(Len(q) + 1)
  <2>1. S \subseteq 1..(Len(q) + 1) /\ S # {} /\ Len(q) + 1 \in Nat
    BY <1>1
  <2> HIDE DEF S
  <2> QED BY <2>1, MinOf
<1>3. queue_insert_tpri(q, t, pri) = r
  BY DEF queue_insert_tpri
<1> HIDE DEF p
<1>4. r \in Seq(Task)
  BY <1>1, <1>2
<1>5. Range(r) = Range(q) \cup {t}
  <2>1. \A i \in 1..(Len(q) + 1) : r[i] \in Range(q) \cup {t}
    BY <1>1, <1>2 DEF Range
  <2>2. \A i \in 1..Len(q) : q[i] \in Range(r)
    <3> SUFFICES ASSUME NEW i \in 1..Len(q) PROVE q[i] \in Range(r)
      OBVIOUS
    <3>1. CASE i < p
      <4>1. r[i] = q[i] /\ i \in DOMAIN r
        BY <3>1, <1>1, <1>2
      <4> QED BY <4>1 DEF Range
    <3>2. CASE i >= p
      <4>1. r[i + 1] = q[i] /\ i + 1 \in DOMAIN r
        BY <3>2, <1>1, <1>2
      <4> QED BY <4>1 DEF Range
    <3> QED BY <3>1, <3>2, <1>1, <1>2
  <2>3. t \in Range(r)
    BY <1>1, <1>2 DEF Range
  <2> QED BY <2>1, <2>2, <2>3, <1>1, ZenonT(60) DEF Range
<1>6. IsInjective(r)
  BY <1>1, <1>2 DEF IsInjective, Range
<1> QED BY <1>3, <1>4, <1>5, <1>6

LEMMA QueRemoveLemma ==
  ASSUME NEW q \in Seq(Task), NEW t, IsInjective(q)
  PROVE  /\ QueRemove(q, t) \in Seq(Task)
         /\ Range(QueRemove(q, t)) = Range(q) \ {t}
         /\ IsInjective(QueRemove(q, t))
<1>1. Len(q) \in Nat /\ DOMAIN q = 1..Len(q) /\ \A i \in 1..Len(q) : q[i] \in Task
  OBVIOUS
<1>2. CASE \A i \in 1..Len(q) : q[i] # t
  BY <1>1, <1>2 DEF QueRemove, Range
<1>3. CASE \E i \in 1..Len(q) : q[i] = t
  <2> DEFINE p == CHOOSE i \in 1..Len(q) : q[i] = t
             r == [i \in 1..(Len(q) - 1) |-> IF i < p THEN q[i] ELSE q[i + 1]]
  <2>1. p \in 1..Len(q) /\ q[p] = t
    BY <1>3
  <2>2. QueRemove(q, t) = r
    BY <1>3 DEF QueRemove
  <2> HIDE DEF p
  <2>3. r \in Seq(Task)
    BY <1>1, <2>1
  <2>4. \A i \in 1..Len(q) : q[i] = t => i = p
    BY <1>1, <2>1 DEF IsInjective
  <2>5. Range(r) = Range(q) \ {t}
    <3>1. \A i \in 1..(Len(q) - 1) : r[i] \in Range(q) \ {t}
      BY <1>1, <2>1, <2>4 DEF Range
    <3>2. ASSUME NEW i \in 1..Len(q), q[i] # t
          PROVE  q[i] \in Range(r)
      <4>1. CASE i < p
        BY <4>1, <1>1, <2>1 DEF Range
      <4>2. CASE i > p
        <5>1. r[i - 1] = q[i] /\ i - 1 \in DOMAIN r
          BY <4>2, <1>1, <2>1
        <5> QED BY <5>1 DEF Range
      <4> QED BY <4>1, <4>2, <3>2, <1>1, <2>1
    <3> QED BY <3>1, <3>2, <1>1 DEF Range
  <2>6. IsInjective(r)
    BY <1>1, <2>1 DEF IsInjective
  <2> QED BY <2>2, <2>3, <2>5, <2>6
<1> QED BY <1>2, <1>3

-----------------------------------------------------------------------------
(* Priorities stay priorities. *)

LEMMA MinClaims ==
  ASSUME mtxatr \in [Mtx -> MtxAtrs \cup {NoAtr}],
         NEW t \in Task, NEW list \in SUBSET Mtx,
         NEW base \in [Task -> Pri], NEW pri \in [Task -> Pri],
         NEW wq \in [Mtx -> Seq(Task)]
  PROVE  Min(Claims(t, list, base, pri, wq)) \in Pri
<1>1. NPri \in Nat
  BY ConstAssumption
<1>2. \A m \in list : mtxatr[m].ceil \in Pri
  BY ConstAssumption DEF NoAtr, Pri
<1>3. \A m \in list : Len(wq[m]) > 0 => pri[wq[m][1]] \in Pri
  OBVIOUS
<1>4. Claims(t, list, base, pri, wq) \subseteq Pri
  BY <1>2, <1>3 DEF Claims
<1>5. Claims(t, list, base, pri, wq) # {}
  BY DEF Claims
<1> QED BY <1>1, <1>4, <1>5, MinOf DEF Pri

ChgType == [tcb : Task \cup {NoTask}, pri : Pri]

LEMMA ReleaseType ==
  ASSUME TypeOK, NEW t \in Task, NEW list \in SUBSET Mtx,
         NEW pri \in [Task -> Pri], NEW wq \in [Mtx -> Seq(Task)]
  PROVE  LET r == release_mutex(t, list, pri, wq)
         IN /\ r \in ChgType
            /\ r # NoChg => r.tcb = t
<1>1. Min(Claims(t, list, bpriority, pri, wq)) \in Pri
  BY MinClaims DEF TypeOK
<1>2. NoChg \in ChgType
  BY ConstAssumption DEF NoChg, ChgType, Pri
<1> QED BY <1>1, <1>2 DEF release_mutex, ChgType

LEMMA RelWaiType ==
  ASSUME TypeOK, WaitersHaveOwner, NEW t \in Task, Waits(t),
         NEW wq \in [Mtx -> Seq(Task)]
  PROVE  /\ mtx_rel_wai(t, wq) \in ChgType
         /\ mtx_rel_wai(t, wq) # NoChg => mtx_rel_wai(t, wq).tcb = mtxtsk[wid[t]]
<1> DEFINE o == mtxtsk[wid[t]]
<1>1. o \in Task
  BY DEF WaitersHaveOwner
<1>2. mtxlist[o] \in SUBSET Mtx
  BY <1>1 DEF TypeOK
<1>3. /\ release_mutex(o, mtxlist[o], priority, wq) \in ChgType
      /\ release_mutex(o, mtxlist[o], priority, wq) # NoChg
           => release_mutex(o, mtxlist[o], priority, wq).tcb = o
  <2>1. priority \in [Task -> Pri]
    BY DEF TypeOK
  <2> QED BY <1>1, <1>2, <2>1, ReleaseType
<1>4. NoChg \in ChgType
  BY ConstAssumption DEF NoChg, ChgType, Pri
<1> QED BY <1>3, <1>4 DEF mtx_rel_wai

-----------------------------------------------------------------------------
(* The inductive invariant holds initially ... *)
LEMMA InitIInv == Init => IInv
<1> SUFFICES ASSUME Init PROVE IInv
  OBVIOUS
<1>1. \A m \in Mtx : waitq[m] = <<>> /\ IsInjective(waitq[m]) /\ Range(waitq[m]) = {}
  BY DEF Init, IsInjective, Range
<1>2. TypeOK
  BY ConstAssumption DEF Init, TypeOK, NoChg, NoCont, NoAtr, States, Pri
<1>3. OwnerLink /\ WaitersHaveOwner /\ WaitQueues /\ LockOrder
  BY <1>1, ConstAssumption
  DEF Init, OwnerLink, WaitersHaveOwner, WaitQueues, LockOrder, Waits, Exists
<1>4. SuspendCount /\ DormantHasNothing /\ LateSuspended /\ ContOK
  BY <1>1 DEF Init, SuspendCount, DormantHasNothing, LateSuspended, ContOK, NoCont
<1> QED BY <1>2, <1>3, <1>4 DEF IInv

(* ... and every action preserves it.  The actions that touch no queue: *)
LEMMA PlainSteps ==
  ASSUME IInv, NEW t \in Task,
         _tk_ena_wai(t) \/ _tk_sta_tsk(t) \/ (\E s \in BOOLEAN : _tk_sus_tsk(t, s))
  PROVE  IInv'
<1>1. Idle
  BY DEF _tk_ena_wai, _tk_sta_tsk, _tk_sus_tsk
<1>2. TypeOK'
  <2>1. CASE _tk_ena_wai(t)
    BY <2>1 DEF IInv, TypeOK, _tk_ena_wai
  <2>2. CASE _tk_sta_tsk(t)
    BY <2>2 DEF IInv, TypeOK, _tk_sta_tsk, States
  <2>3. ASSUME NEW s \in BOOLEAN, _tk_sus_tsk(t, s) PROVE TypeOK'
    <3>1. suscnt[t] + 1 \in 0..MaxSus
      BY <2>3, ConstAssumption DEF IInv, TypeOK, _tk_sus_tsk
    <3> QED BY <2>3, <3>1 DEF IInv, TypeOK, _tk_sus_tsk, States
  <2> QED BY <2>1, <2>2, <2>3
<1>3. OwnerLink'
  BY DEF IInv, OwnerLink, _tk_ena_wai, _tk_sta_tsk, _tk_sus_tsk, Exists
<1>4. \A u \in Task : Waits(u)' <=> Waits(u)
  BY DEF IInv, TypeOK, Waits, _tk_ena_wai, _tk_sta_tsk, _tk_sus_tsk, States
<1>5. WaitersHaveOwner' /\ WaitQueues' /\ LockOrder'
  BY <1>4 DEF IInv, WaitersHaveOwner, WaitQueues, LockOrder, Leaving, Exists,
     _tk_ena_wai, _tk_sta_tsk, _tk_sus_tsk
<1>6. SuspendCount'
  BY ConstAssumption DEF IInv, TypeOK, SuspendCount, Waits, _tk_ena_wai, _tk_sta_tsk, _tk_sus_tsk, States
<1>7. DormantHasNothing' /\ LateSuspended'
  BY DEF IInv, TypeOK, DormantHasNothing, LateSuspended, _tk_ena_wai, _tk_sta_tsk, _tk_sus_tsk, States
<1>8. ContOK'
  BY <1>1 DEF IInv, ContOK, Idle, NoCont, _tk_ena_wai, _tk_sta_tsk, _tk_sus_tsk
<1> QED BY <1>2, <1>3, <1>5, <1>6, <1>7, <1>8 DEF IInv

(* tk_rsm_tsk and tk_frsm_tsk. *)
LEMMA ResumeSteps ==
  ASSUME IInv, NEW t \in Task, _tk_rsm_tsk(t) \/ _tk_frsm_tsk(t)
  PROVE  IInv'
<1>0. suscnt[t] \in 1..MaxSus
  BY ConstAssumption DEF IInv, TypeOK, SuspendCount, _tk_rsm_tsk, _tk_frsm_tsk, Resume
<1>1. Idle
  BY DEF _tk_rsm_tsk, _tk_frsm_tsk
<1>2. PICK n \in 0..MaxSus : Resume(t, n)
  BY <1>0, ConstAssumption DEF _tk_rsm_tsk, _tk_frsm_tsk
<1>3. TypeOK'
  BY <1>2 DEF IInv, TypeOK, Resume, States
<1>4. \A u \in Task : Waits(u)' <=> Waits(u)
  BY <1>2 DEF IInv, TypeOK, Waits, Resume, States
<1>5. OwnerLink' /\ WaitersHaveOwner' /\ WaitQueues' /\ LockOrder'
  BY <1>2, <1>4 DEF IInv, OwnerLink, WaitersHaveOwner, WaitQueues, LockOrder, Leaving, Exists, Resume
<1>6. SuspendCount'
  BY <1>2, ConstAssumption DEF IInv, TypeOK, SuspendCount, Resume, States
<1>7. DormantHasNothing'
  BY <1>2 DEF IInv, TypeOK, DormantHasNothing, Resume, States
<1>8. LateSuspended'
  BY <1>2 DEF IInv, TypeOK, LateSuspended, Resume
<1>9. ContOK'
  BY <1>1, <1>2 DEF IInv, ContOK, Idle, NoCont, Resume
<1> QED BY <1>3, <1>5, <1>6, <1>7, <1>8, <1>9 DEF IInv

(* Creating a mutex, and deleting one up to wait_delete. *)
LEMMA CreateStep ==
  ASSUME IInv, NEW m \in Mtx, NEW a \in MtxAtrs, _tk_cre_mtx(m, a)
  PROVE  IInv'
<1>1. a # NoAtr
  BY ConstAssumption DEF NoAtr, Kinds
<1>2. \A t \in Task : m \notin mtxlist[t] /\ ~(Waits(t) /\ wid[t] = m)
  BY DEF IInv, OwnerLink, WaitersHaveOwner, _tk_cre_mtx
<1>3. IsInjective(<<>>) /\ Range(<<>>) = {} /\ <<>> \in Seq(Task)
  BY DEF IsInjective, Range
<1>4. TypeOK'
  BY <1>3 DEF IInv, TypeOK, _tk_cre_mtx, taskVars
<1>5. OwnerLink'
  BY <1>1, <1>2, ConstAssumption DEF IInv, TypeOK, OwnerLink, Exists, Idle, NoCont, _tk_cre_mtx
<1>6. WaitersHaveOwner' /\ LockOrder'
  BY <1>1, <1>2 DEF IInv, TypeOK, WaitersHaveOwner, LockOrder, Waits, Exists, _tk_cre_mtx, taskVars
<1>7. WaitQueues'
  BY <1>2, <1>3 DEF IInv, TypeOK, WaitQueues, Waits, Leaving, _tk_cre_mtx, taskVars
<1>8. SuspendCount' /\ DormantHasNothing' /\ LateSuspended'
  BY <1>3 DEF IInv, TypeOK, SuspendCount, DormantHasNothing, LateSuspended, _tk_cre_mtx, taskVars
<1>9. ContOK'
  BY DEF IInv, ContOK, Idle, NoCont, _tk_cre_mtx
<1> QED BY <1>4, <1>5, <1>6, <1>7, <1>8, <1>9 DEF IInv

LEMMA DeleteStep ==
  ASSUME IInv, NEW m \in Mtx, _tk_del_mtx(m)
  PROVE  IInv'
<1> DEFINE o == mtxtsk[m]
<1> USE DEF taskVars
<1>1. Idle /\ Exists(m) /\ \A t \in Task : t # o => m \notin mtxlist[t]
  BY DEF IInv, OwnerLink, _tk_del_mtx
<1>2. /\ mtxlist' \in [Task -> SUBSET Mtx]
      /\ \A t \in Task : mtxlist'[t] = mtxlist[t] \ {m}
  <2>1. CASE o = NoTask
    <3>1. \A t \in Task : m \notin mtxlist[t]
      BY <1>1, <2>1, ConstAssumption
    <3>2. mtxlist' = mtxlist
      BY <2>1 DEF _tk_del_mtx
    <3>3. \A t \in Task : mtxlist[t] = mtxlist[t] \ {m}
      BY <3>1
    <3> QED BY <3>2, <3>3 DEF IInv, TypeOK
  <2>2. CASE o # NoTask
    <3>1. o \in Task /\ mtxlist \in [Task -> SUBSET Mtx]
      BY <2>2 DEF IInv, TypeOK
    <3>2. mtxlist' = [mtxlist EXCEPT ![o] = @ \ {m}]
      BY <2>2 DEF _tk_del_mtx
    <3>3. \A t \in Task : t # o => mtxlist[t] = mtxlist[t] \ {m}
      BY <1>1
    <3> HIDE DEF o
    <3> QED BY <3>1, <3>2, <3>3
  <2> QED BY <2>1, <2>2
<1>3. chg' \in ChgType /\ (chg' # NoChg => chg'.tcb \in Task)
  <2>1. CASE o = NoTask
    BY <2>1, ConstAssumption DEF _tk_del_mtx, ChgType, NoChg, Pri
  <2>2. CASE o # NoTask
    <3>1. o \in Task /\ mtxlist[o] \ {m} \in SUBSET Mtx
      BY <2>2 DEF IInv, TypeOK
    <3>2. priority \in [Task -> Pri] /\ waitq \in [Mtx -> Seq(Task)] /\ TypeOK
      BY DEF IInv, TypeOK
    <3>3. chg' = release_mutex(o, mtxlist[o] \ {m}, priority, waitq)
      BY <2>2 DEF _tk_del_mtx
    <3> QED BY <3>1, <3>2, <3>3, ReleaseType
  <2> QED BY <2>1, <2>2
<1>4. TypeOK'
  BY <1>2, <1>3 DEF IInv, TypeOK, ChgType, Mtx, _tk_del_mtx
<1>5. OwnerLink'
  BY <1>1, <1>2 DEF IInv, OwnerLink, Exists, Idle, NoCont, _tk_del_mtx
<1>6. WaitersHaveOwner' /\ WaitQueues'
  BY <1>1 DEF IInv, WaitersHaveOwner, WaitQueues, Waits, Leaving, Exists, Idle, NoCont, _tk_del_mtx
<1>7. SuspendCount' /\ LateSuspended'
  BY DEF IInv, SuspendCount, LateSuspended, _tk_del_mtx
<1>8. DormantHasNothing' /\ LockOrder'
  BY <1>2 DEF IInv, DormantHasNothing, LockOrder, Waits, _tk_del_mtx
<1>9. ContOK'
  BY <1>1, <1>3 DEF ContOK, Exists, _tk_del_mtx
<1> QED BY <1>4, <1>5, <1>6, <1>7, <1>8, <1>9 DEF IInv

(* The end of tk_del_mtx: every waiter leaves the queue. *)
LEMMA DeleteFinishStep ==
  ASSUME IInv, del_mtx_finish
  PROVE  IInv'
<1> DEFINE m == cont.mtx
           W == Range(waitq[m])
<1>1. /\ m \in Mtx /\ Exists(m) /\ cont.op = "del" /\ chg = NoChg
      /\ \A t \in Task : t \in W <=> Waits(t) /\ wid[t] = m
  BY DEF IInv, ContOK, WaitQueues, Leaving, del_mtx_finish
<1>2. IsInjective(<<>>) /\ Range(<<>>) = {} /\ <<>> \in Seq(Task)
  BY DEF IsInjective, Range
<1>3. /\ state' = [t \in Task |-> IF t \in W THEN NonWait(state[t]) ELSE state[t]]
      /\ wid' = [t \in Task |-> IF t \in W THEN 0 ELSE wid[t]]
      /\ timed' = [t \in Task |-> timed[t] /\ t \notin W]
      /\ waitq' = [waitq EXCEPT ![m] = <<>>]
      /\ mtxatr' = [mtxatr EXCEPT ![m] = NoAtr]
      /\ cont' = NoCont
      /\ UNCHANGED <<priority, bpriority, suscnt, waitmask, mtxlist, late, mtxtsk, chg>>
  BY DEF del_mtx_finish
<1> HIDE DEF W
<1>4. \A t \in Task : Waits(t)' <=> Waits(t) /\ t \notin W
  BY <1>1, <1>3 DEF Waits, NonWait
<1>5. TypeOK'
  BY <1>1, <1>2, <1>3, ConstAssumption DEF IInv, TypeOK, NonWait, States, NoCont
<1>6. OwnerLink'
  BY <1>1, <1>3 DEF IInv, TypeOK, OwnerLink, Exists, NoCont
<1>7. WaitersHaveOwner' /\ LockOrder'
  BY <1>1, <1>3, <1>4 DEF IInv, TypeOK, WaitersHaveOwner, LockOrder, Exists
<1>8. WaitQueues'
  BY <1>1, <1>2, <1>3, <1>4 DEF IInv, TypeOK, WaitQueues, Leaving, NoCont
<1>9. SuspendCount'
  BY <1>1, <1>3 DEF IInv, TypeOK, SuspendCount, NonWait, Waits, States
<1>10. DormantHasNothing'
  <2>1. \A t \in Task : state'[t] = "DORMANT" => state[t] = "DORMANT"
    BY <1>3 DEF NonWait
  <2> QED BY <1>1, <1>2, <1>3, <2>1 DEF IInv, TypeOK, DormantHasNothing
<1>11. LateSuspended'
  BY <1>1, <1>3 DEF IInv, TypeOK, LateSuspended, Waits
<1>12. ContOK'
  BY <1>1, <1>3 DEF ContOK, NoCont
<1> QED BY <1>5, <1>6, <1>7, <1>8, <1>9, <1>10, <1>11, <1>12 DEF IInv

-----------------------------------------------------------------------------
(* A step of the chain of priority changes.  The task is in the queue when *)
(* it is taken out of it: the chain never comes to the terminated task.    *)
LEMMA ChainStep ==
  ASSUME IInv, change_task_priority
  PROVE  IInv'
<1> DEFINE t == chg.tcb
           m == wid[t]
           o == mtxtsk[m]
           pri == [priority EXCEPT ![t] = chg.pri]
           q == queue_insert_tpri(QueRemove(waitq[m], t), t, pri)
           wq == [waitq EXCEPT ![m] = q]
           orders == Waits(t) /\ mtxatr[m].kind # "TFIFO"
<1> USE DEF taskVars
<1>1. t \in Task /\ chg # NoChg /\ chg.pri \in Pri /\ pri \in [Task -> Pri]
  BY DEF IInv, TypeOK, ContOK, change_task_priority
<1>2. priority' = pri
  BY DEF change_task_priority
<1>3. CASE orders
  <2>1. m \in Mtx /\ Exists(m) /\ o \in Task \ {t}
    BY <1>1, <1>3 DEF IInv, WaitersHaveOwner
  <2>2. ~Leaving(t)
    <3> SUFFICES ASSUME Leaving(t) PROVE FALSE
      OBVIOUS
    <3>1. OrderedLocks /\ \E k \in mtxlist[t] : m <= k
      BY <1>1, <1>3 DEF IInv, ContOK, Leaving
    <3>2. \A k \in mtxlist[t] : k < m /\ k \in Int /\ m \in Int
      BY <1>1, <1>3, <2>1, <3>1 DEF IInv, LockOrder, TypeOK, Mtx
    <3> QED BY <3>1, <3>2
  <2>3. t \in Range(waitq[m]) /\ IsInjective(waitq[m]) /\ waitq[m] \in Seq(Task)
    BY <1>1, <1>3, <2>1, <2>2 DEF IInv, WaitQueues, TypeOK
  <2>4. q \in Seq(Task) /\ Range(q) = Range(waitq[m]) /\ IsInjective(q)
    <3> DEFINE r == QueRemove(waitq[m], t)
    <3>1. r \in Seq(Task) /\ Range(r) = Range(waitq[m]) \ {t} /\ IsInjective(r)
      BY <2>3, QueRemoveLemma
    <3> HIDE DEF r
    <3>2. /\ queue_insert_tpri(r, t, pri) \in Seq(Task)
          /\ Range(queue_insert_tpri(r, t, pri)) = Range(r) \cup {t}
          /\ IsInjective(queue_insert_tpri(r, t, pri))
      BY <1>1, <3>1, TpriLemma
    <3> USE DEF r
    <3> QED BY <2>3, <3>1, <3>2
  <2>5. waitq' = wq
    BY <1>3 DEF change_task_priority
  <2> HIDE DEF q
  <2>6. wq \in [Mtx -> Seq(Task)]
    BY <2>4 DEF IInv, TypeOK
  <2>7. chg' \in ChgType /\ (chg' # NoChg => chg'.tcb = o)
    <3>1. TypeOK /\ mtxlist[o] \in SUBSET Mtx
      BY <2>1 DEF IInv, TypeOK
    <3>2. LET r == release_mutex(o, mtxlist[o], pri, wq)
          IN r \in ChgType /\ (r # NoChg => r.tcb = o)
      BY <1>1, <2>1, <2>6, <3>1, ReleaseType, ZenonT(60)
    <3>3. NoChg \in ChgType
      BY ConstAssumption DEF NoChg, ChgType, Pri
    <3>4. [tcb |-> o, pri |-> pri[t]] \in ChgType
      BY <1>1, <2>1 DEF ChgType
    <3>5. \/ chg' = NoChg
          \/ chg' = [tcb |-> o, pri |-> pri[t]]
          \/ chg' = release_mutex(o, mtxlist[o], pri, wq)
      BY <1>3 DEF change_task_priority, mtx_chg_pri, q
    <3> QED BY <3>2, <3>3, <3>4, <3>5
  <2>8. TypeOK'
    BY <1>1, <1>2, <2>5, <2>6, <2>7 DEF IInv, TypeOK, ChgType, change_task_priority
  <2>9. WaitQueues'
    BY <2>4, <2>5 DEF IInv, TypeOK, WaitQueues, Waits, Leaving, change_task_priority
  <2>10. OwnerLink' /\ WaitersHaveOwner' /\ SuspendCount' /\ LateSuspended' /\ LockOrder'
    BY DEF IInv, OwnerLink, WaitersHaveOwner, SuspendCount, LateSuspended, LockOrder,
           Exists, Waits, change_task_priority
  <2>11. DormantHasNothing'
    <3>1. \A k \in Mtx : Range(waitq'[k]) = Range(waitq[k])
      BY <2>1, <2>4, <2>5 DEF IInv, TypeOK
    <3> QED BY <3>1 DEF IInv, DormantHasNothing, change_task_priority
  <2>12. ContOK'
    <3>1. ASSUME cont.op = "ter", Waits(cont.tsk)
          PROVE  \E k \in mtxlist[o] : wid[cont.tsk] <= k
      <4>1. OrderedLocks /\ cont.tsk \in Task
        BY <3>1 DEF IInv, ContOK
      <4>2. PICK k \in mtxlist[t] : wid[cont.tsk] <= k
        BY <1>1, <3>1 DEF IInv, ContOK
      <4>3. k < m
        BY <1>1, <1>3, <4>1 DEF IInv, LockOrder
      <4>4. k \in Int /\ m \in Int /\ wid[cont.tsk] \in Int
        BY <1>1, <2>1, <4>1 DEF IInv, TypeOK, Mtx
      <4>5. m \in mtxlist[o]
        BY <2>1, <3>1 DEF IInv, OwnerLink
      <4>6. wid[cont.tsk] <= m
        BY <4>2, <4>3, <4>4
      <4> QED BY <4>5, <4>6
    <3> QED BY <2>1, <2>7, <3>1 DEF IInv, ContOK, Caller, Exists, Waits, change_task_priority
  <2> QED BY <2>8, <2>9, <2>10, <2>11, <2>12 DEF IInv
<1>4. CASE ~orders
  <2>1. waitq' = waitq /\ chg' = NoChg
    BY <1>4 DEF change_task_priority
  <2>2. TypeOK'
    <3>1. NoChg \in ChgType
      BY ConstAssumption DEF NoChg, ChgType, Pri
    <3> QED BY <1>1, <1>2, <2>1, <3>1 DEF IInv, TypeOK, ChgType, change_task_priority
  <2>3. OwnerLink' /\ WaitersHaveOwner' /\ WaitQueues' /\ LockOrder'
    BY <2>1 DEF IInv, OwnerLink, WaitersHaveOwner, WaitQueues, LockOrder,
                Exists, Waits, Leaving, change_task_priority
  <2>4. SuspendCount' /\ LateSuspended' /\ DormantHasNothing'
    BY <2>1 DEF IInv, SuspendCount, LateSuspended, DormantHasNothing, change_task_priority
  <2>5. ContOK'
    BY <2>1 DEF IInv, ContOK, Caller, Exists, Waits, change_task_priority
  <2> QED BY <2>2, <2>3, <2>4, <2>5 DEF IInv
<1> QED BY <1>3, <1>4

LEMMA ChangePriorityStep ==
  ASSUME IInv, NEW t \in Task, NEW p \in Pri, _tk_chg_pri(t, p)
  PROVE  IInv'
<1> USE DEF taskVars
<1>1. Idle /\ bpriority' = [bpriority EXCEPT ![t] = p] /\ bpriority' \in [Task -> Pri]
  BY DEF IInv, TypeOK, _tk_chg_pri
<1>2. Min(Claims(t, mtxlist[t], bpriority', priority, waitq)) \in Pri
  BY <1>1, MinClaims DEF IInv, TypeOK
<1>3. chg' \in ChgType /\ chg'.tcb = t
  BY <1>2 DEF _tk_chg_pri, ChgType
<1>4. TypeOK'
  BY <1>1, <1>3 DEF IInv, TypeOK, ChgType, _tk_chg_pri
<1>5. OwnerLink' /\ WaitersHaveOwner' /\ WaitQueues' /\ LockOrder'
  BY DEF IInv, OwnerLink, WaitersHaveOwner, WaitQueues, LockOrder,
         Exists, Waits, Leaving, _tk_chg_pri
<1>6. SuspendCount' /\ LateSuspended' /\ DormantHasNothing'
  BY DEF IInv, SuspendCount, LateSuspended, DormantHasNothing, _tk_chg_pri
<1>7. ContOK'
  BY <1>1, <1>3 DEF ContOK, Idle, NoCont, _tk_chg_pri
<1> QED BY <1>4, <1>5, <1>6, <1>7 DEF IInv

(* Taking a free mutex. *)
LEMMA GetStep ==
  ASSUME IInv, NEW t \in Task, NEW m \in Mtx, loc_mtx_get(t, m)
  PROVE  IInv'
<1>1. /\ Idle /\ Caller(t) /\ Exists(m) /\ mtxtsk[m] = NoTask
      /\ OrderedLocks => \A k \in mtxlist[t] : k < m
  BY DEF loc_mtx_get, loc_mtx_allowed
<1>2. /\ mtxtsk' = [mtxtsk EXCEPT ![m] = t]
      /\ mtxlist' = [mtxlist EXCEPT ![t] = @ \cup {m}]
      /\ priority' = [priority EXCEPT ![t] = RaiseToCeiling(t, m)]
      /\ late' = late \ {t}
      /\ UNCHANGED <<state, suscnt, waitmask, wid, timed, bpriority, mtxatr, waitq, chg, cont>>
  BY DEF loc_mtx_get
<1>3. ~Waits(t) /\ state[t] # "DORMANT"
  BY <1>1 DEF IInv, LateSuspended, Caller, Waits
<1>4. \A u \in Task : Waits(u) => wid[u] # m
  BY <1>1, ConstAssumption DEF IInv, WaitersHaveOwner
<1>5. TypeOK'
  <2>1. mtxatr[m].ceil \in Pri
    <3>1. mtxatr[m] \in MtxAtrs \cup {NoAtr}
      BY DEF IInv, TypeOK
    <3>2. \A a \in MtxAtrs \cup {NoAtr} : a.ceil \in Pri
      BY ConstAssumption DEF NoAtr, Pri
    <3> QED BY <3>1, <3>2
  <2>2. RaiseToCeiling(t, m) \in Pri
    BY <2>1 DEF IInv, TypeOK, RaiseToCeiling
  <2> QED BY <1>2, <2>2 DEF IInv, TypeOK
<1>6. OwnerLink'
  BY <1>1, <1>2, ConstAssumption DEF IInv, TypeOK, OwnerLink, Exists, Idle, NoCont
<1>7. WaitersHaveOwner' /\ WaitQueues'
  BY <1>2, <1>4 DEF IInv, TypeOK, WaitersHaveOwner, WaitQueues, Waits, Leaving, Exists
<1>8. LockOrder'
  BY <1>2, <1>3 DEF IInv, TypeOK, LockOrder, Waits
<1>9. SuspendCount' /\ LateSuspended' /\ DormantHasNothing'
  BY <1>2, <1>3 DEF IInv, TypeOK, SuspendCount, LateSuspended, DormantHasNothing
<1>10. ContOK'
  BY <1>1, <1>2 DEF ContOK, Idle, NoCont
<1> QED BY <1>5, <1>6, <1>7, <1>8, <1>9, <1>10 DEF IInv

(* Waiting for a mutex, up to the change of the owner's priority ... *)
LEMMA WaitStep ==
  ASSUME IInv, NEW t \in Task, NEW m \in Mtx, NEW tmo \in BOOLEAN,
         loc_mtx_wait(t, m, tmo)
  PROVE  IInv'
<1> DEFINE o == mtxtsk[m]
<1> USE DEF taskVars
<1>1. /\ Idle /\ Caller(t) /\ Exists(m) /\ o \in Task \ {t}
      /\ OrderedLocks => \A k \in mtxlist[t] : k < m
  BY DEF IInv, TypeOK, loc_mtx_wait, loc_mtx_allowed
<1>2. chg' \in ChgType /\ (chg' # NoChg => chg'.tcb \in Task)
  <2>1. NoChg \in ChgType
    BY ConstAssumption DEF NoChg, ChgType, Pri
  <2>2. [tcb |-> o, pri |-> priority[t]] \in ChgType
    BY <1>1 DEF IInv, TypeOK, ChgType
  <2> QED BY <1>1, <2>1, <2>2 DEF loc_mtx_wait
<1>3. TypeOK'
  <2>1. cont' \in [op : {"none", "loc", "del", "ter"}, tsk : Task \cup {NoTask},
                   mtx : 0..NMtx, tmo : BOOLEAN]
    <3>1. m \in 0..NMtx
      BY ConstAssumption DEF Mtx
    <3> QED BY <3>1 DEF loc_mtx_wait
  <2>2. UNCHANGED <<taskVars, priority, bpriority, mtxlist, mtxatr, mtxtsk, waitq>>
    BY DEF loc_mtx_wait
  <2> QED BY <1>2, <2>1, <2>2 DEF IInv, TypeOK, ChgType
<1>4. OwnerLink' /\ WaitersHaveOwner' /\ WaitQueues' /\ LockOrder'
  BY <1>1 DEF IInv, OwnerLink, WaitersHaveOwner, WaitQueues, LockOrder,
         Exists, Waits, Leaving, Idle, NoCont, loc_mtx_wait
<1>5. SuspendCount' /\ LateSuspended' /\ DormantHasNothing'
  BY DEF IInv, SuspendCount, LateSuspended, DormantHasNothing, loc_mtx_wait
<1>6. ContOK'
  BY <1>1, <1>2 DEF ContOK, Caller, Exists, loc_mtx_wait
<1> QED BY <1>3, <1>4, <1>5, <1>6 DEF IInv

(* ... and from make_wait on. *)
LEMMA WaitFinishStep ==
  ASSUME IInv, loc_mtx_finish
  PROVE  IInv'
<1> DEFINE t == cont.tsk
           m == cont.mtx
           q == IF mtxatr[m].kind = "TFIFO" THEN QueInsert(waitq[m], t)
                                            ELSE queue_insert_tpri(waitq[m], t, priority)
<1>1. /\ t \in Task /\ m \in Mtx /\ Caller(t) /\ Exists(m) /\ mtxtsk[m] \in Task \ {t}
      /\ OrderedLocks => \A k \in mtxlist[t] : k < m
      /\ cont.op = "loc" /\ chg = NoChg
  BY DEF IInv, ContOK, loc_mtx_finish
<1>2. ~Waits(t) /\ state[t] \in {"READY", "SUSPEND"}
  BY <1>1 DEF IInv, LateSuspended, Caller, Waits
<1>3. t \notin Range(waitq[m]) /\ IsInjective(waitq[m]) /\ waitq[m] \in Seq(Task)
  BY <1>1, <1>2 DEF IInv, TypeOK, WaitQueues
<1>4. q \in Seq(Task) /\ Range(q) = Range(waitq[m]) \cup {t} /\ IsInjective(q)
  <2>1. CASE mtxatr[m].kind = "TFIFO"
    BY <1>1, <1>3, <2>1, QueInsertLemma
  <2>2. CASE mtxatr[m].kind # "TFIFO"
    <3> HIDE DEF m, t
    <3> QED BY <1>1, <1>3, <2>2, TpriLemma
  <2> QED BY <2>1, <2>2
<1>5. /\ state' = [state EXCEPT ![t] = IF @ = "READY" THEN "WAIT" ELSE "WAITSUS"]
      /\ wid' = [wid EXCEPT ![t] = m]
      /\ timed' = [timed EXCEPT ![t] = cont.tmo]
      /\ waitq' = [waitq EXCEPT ![m] = q]
      /\ late' = late \ {t}
      /\ cont' = NoCont
      /\ UNCHANGED <<suscnt, waitmask, priority, bpriority, mtxlist, mtxatr, mtxtsk, chg>>
  BY DEF loc_mtx_finish
<1> HIDE DEF q
<1>6. /\ state'[t] \in {"WAIT", "WAITSUS"}
      /\ \A u \in Task : u # t => state'[u] = state[u] /\ wid'[u] = wid[u] /\ (Waits(u)' <=> Waits(u))
      /\ wid'[t] = m
      /\ state'[t] = IF state[t] = "READY" THEN "WAIT" ELSE "WAITSUS"
  <2>1. state \in [Task -> States] /\ wid \in [Task -> 0..NMtx]
    BY DEF IInv, TypeOK
  <2> QED BY <1>1, <1>2, <1>5, <2>1 DEF Waits
<1>7. TypeOK'
  <2>1. state' \in [Task -> States] /\ wid' \in [Task -> 0..NMtx]
    BY <1>1, <1>5 DEF IInv, TypeOK, States, Mtx
  <2>2. timed' \in [Task -> BOOLEAN] /\ waitq' \in [Mtx -> Seq(Task)]
    BY <1>1, <1>4, <1>5 DEF IInv, TypeOK
  <2>3. cont' \in [op : {"none", "loc", "del", "ter"}, tsk : Task \cup {NoTask},
                   mtx : 0..NMtx, tmo : BOOLEAN]
    BY <1>5, ConstAssumption DEF NoCont
  <2> QED BY <1>5, <2>1, <2>2, <2>3 DEF IInv, TypeOK
<1>8. OwnerLink'
  BY <1>1, <1>5 DEF IInv, OwnerLink, Exists, NoCont
<1>9. WaitersHaveOwner' /\ LockOrder'
  BY <1>1, <1>5, <1>6 DEF IInv, WaitersHaveOwner, LockOrder, Exists, Waits
<1>10. WaitQueues'
  <2>1. /\ waitq'[m] = q /\ \A k \in Mtx : k # m => waitq'[k] = waitq[k]
    BY <1>1, <1>5 DEF IInv, TypeOK
  <2>2. \A u \in Task : ~Leaving(u) /\ ~Leaving(u)'
    BY <1>1, <1>5 DEF Leaving, NoCont
  <2> QED BY <1>1, <1>2, <1>4, <1>6, <2>1, <2>2 DEF IInv, WaitQueues, Waits
<1>11. SuspendCount'
  BY <1>1, <1>2, <1>5, <1>6 DEF IInv, SuspendCount
<1>12. DormantHasNothing'
  <2>1. \A k \in Mtx, u \in Task : u # t => (u \in Range(waitq'[k]) <=> u \in Range(waitq[k]))
    BY <1>1, <1>4, <1>5 DEF IInv, TypeOK
  <2>2. state'[t] # "DORMANT"
    BY <1>6
  <2>3. \A u \in Task : u # t => timed'[u] = timed[u]
    BY <1>5 DEF IInv, TypeOK
  <2> QED BY <1>5, <1>6, <2>1, <2>2, <2>3 DEF IInv, DormantHasNothing
<1>13. LateSuspended'
  BY <1>5, <1>6 DEF IInv, TypeOK, LateSuspended
<1>14. ContOK'
  BY <1>1, <1>5 DEF ContOK, NoCont
<1> QED BY <1>7, <1>8, <1>9, <1>10, <1>11, <1>12, <1>13, <1>14 DEF IInv

(* What taking task t out of the queue of the mutex it waits for leaves.   *)
WithoutTask(t) == [waitq EXCEPT ![wid[t]] = QueRemove(waitq[wid[t]], t)]

LEMMA LeaveQueue ==
  ASSUME IInv, Idle, NEW t \in Task, Waits(t)
  PROVE  /\ WithoutTask(t) \in [Mtx -> Seq(Task)]
         /\ \A k \in Mtx : IsInjective(WithoutTask(t)[k])
         /\ \A k \in Mtx, u \in Task :
              u \in Range(WithoutTask(t)[k]) <=> Waits(u) /\ wid[u] = k /\ u # t
<1> DEFINE wq == WithoutTask(t)
           m == wid[t]
           r == QueRemove(waitq[m], t)
<1>1. m \in Mtx /\ \A u \in Task : ~Leaving(u)
  BY DEF IInv, WaitersHaveOwner, Idle, NoCont, Leaving
<1>2. waitq[m] \in Seq(Task) /\ IsInjective(waitq[m])
  BY <1>1 DEF IInv, TypeOK, WaitQueues
<1>3. r \in Seq(Task) /\ Range(r) = Range(waitq[m]) \ {t} /\ IsInjective(r)
  BY <1>2, QueRemoveLemma
<1>4. \A k \in Mtx : wq[k] = IF k = m THEN r ELSE waitq[k]
  BY <1>1 DEF IInv, TypeOK, WithoutTask
<1> HIDE DEF r
<1>5. wq \in [Mtx -> Seq(Task)]
  <2>1. wq = [waitq EXCEPT ![m] = r]
    BY DEF r, WithoutTask
  <2> QED BY <1>1, <1>3, <2>1 DEF IInv, TypeOK
<1>6. \A k \in Mtx : IsInjective(wq[k])
  BY <1>3, <1>4 DEF IInv, WaitQueues
<1>7. \A k \in Mtx, u \in Task : u \in Range(waitq[k]) <=> Waits(u) /\ wid[u] = k
  BY <1>1 DEF IInv, WaitQueues
<1>8. \A k \in Mtx, u \in Task :
        u \in Range(wq[k]) <=> Waits(u) /\ wid[u] = k /\ u # t
  BY <1>1, <1>3, <1>4, <1>7
<1> QED BY <1>5, <1>6, <1>8

(* Ending a wait without the mutex: tk_rel_wai, a timeout, tk_dis_wai. *)
LEMMA WaitReleaseStep ==
  ASSUME IInv, Idle, NEW t \in Task, Waits(t), WaitRelease(t),
         waitmask' \in [Task -> BOOLEAN],
         UNCHANGED <<suscnt, late, priority, bpriority, mtxlist, mtxatr, mtxtsk, cont>>
  PROVE  IInv'
<1> DEFINE wq == WithoutTask(t)
<1>1. /\ waitq' = wq
      /\ state' = [state EXCEPT ![t] = NonWait(@)]
      /\ wid' = [wid EXCEPT ![t] = 0]
      /\ timed' = [timed EXCEPT ![t] = FALSE]
      /\ chg' = mtx_rel_wai(t, wq)
  BY DEF WaitRelease, WithoutTask
<1>2. /\ wq \in [Mtx -> Seq(Task)]
      /\ \A k \in Mtx : IsInjective(wq[k])
      /\ \A k \in Mtx, u \in Task :
           u \in Range(wq[k]) <=> Waits(u) /\ wid[u] = k /\ u # t
  BY LeaveQueue
<1> HIDE DEF wq
<1>3. chg' \in ChgType /\ (chg' # NoChg => chg'.tcb \in Task)
  BY <1>1, <1>2, RelWaiType DEF IInv, WaitersHaveOwner
<1>4. /\ state'[t] = NonWait(state[t])
      /\ \A u \in Task : u # t => state'[u] = state[u] /\ wid'[u] = wid[u] /\ timed'[u] = timed[u]
      /\ wid'[t] = 0
  BY <1>1 DEF IInv, TypeOK
<1>5. \A u \in Task : Waits(u)' <=> Waits(u) /\ u # t
  BY <1>4 DEF Waits, NonWait
<1>6. \A u \in Task : ~Leaving(u)'
  BY DEF Idle, NoCont, Leaving
<1>7. TypeOK'
  <2>1. /\ state' \in [Task -> States] /\ wid' \in [Task -> 0..NMtx]
        /\ timed' \in [Task -> BOOLEAN]
    BY <1>1, ConstAssumption DEF IInv, TypeOK, NonWait, States
  <2>2. waitq' \in [Mtx -> Seq(Task)] /\ chg' \in [tcb : Task \cup {NoTask}, pri : Pri]
    BY <1>1, <1>2, <1>3 DEF ChgType
  <2> QED BY <2>1, <2>2 DEF IInv, TypeOK
<1>8. OwnerLink'
  BY DEF IInv, OwnerLink, Exists
<1>9. WaitersHaveOwner' /\ LockOrder'
  BY <1>4, <1>5 DEF IInv, WaitersHaveOwner, LockOrder, Exists
<1>10. WaitQueues'
  BY <1>1, <1>2, <1>4, <1>5, <1>6 DEF WaitQueues
<1>11. SuspendCount'
  BY <1>4 DEF IInv, SuspendCount, NonWait, Waits
<1>12. DormantHasNothing'
  <2>1. state'[t] # "DORMANT"
    BY <1>4 DEF NonWait
  <2>2. \A u \in Task : u # t /\ state'[u] = "DORMANT" => ~Waits(u)
    BY <1>4 DEF Waits
  <2> QED BY <1>1, <1>2, <1>4, <2>1, <2>2 DEF IInv, DormantHasNothing
<1>13. LateSuspended'
  BY <1>4 DEF IInv, TypeOK, LateSuspended, Waits
<1>14. ContOK'
  BY <1>3 DEF Idle, ContOK, NoCont
<1> QED BY <1>7, <1>8, <1>9, <1>10, <1>11, <1>12, <1>13, <1>14 DEF IInv

(* tk_dis_wai of a task it does not release only changes the mask. *)
LEMMA EndWaitSteps ==
  ASSUME IInv, NEW t \in Task,
         _tk_rel_wai(t) \/ wait_release_tmout(t) \/ _tk_dis_wai(t)
  PROVE  IInv'
<1>1. Idle
  BY DEF _tk_rel_wai, wait_release_tmout, _tk_dis_wai
<1>2. CASE _tk_rel_wai(t) \/ wait_release_tmout(t)
  <2>1. Waits(t) /\ WaitRelease(t) /\ waitmask' \in [Task -> BOOLEAN]
    BY <1>2 DEF _tk_rel_wai, wait_release_tmout, IInv, TypeOK
  <2>2. UNCHANGED <<suscnt, late, priority, bpriority, mtxlist, mtxatr, mtxtsk, cont>>
    BY <1>2 DEF _tk_rel_wai, wait_release_tmout
  <2> QED BY <1>1, <2>1, <2>2, WaitReleaseStep
<1>3. CASE _tk_dis_wai(t)
  <2>1. /\ waitmask' \in [Task -> BOOLEAN]
        /\ UNCHANGED <<suscnt, late, priority, bpriority, mtxlist, mtxatr, mtxtsk, cont>>
    BY <1>3 DEF _tk_dis_wai, IInv, TypeOK
  <2>2. CASE Waits(t) /\ ~mtxatr[wid[t]].nodiswai
    <3>1. WaitRelease(t)
      BY <1>3, <2>2 DEF _tk_dis_wai
    <3> QED BY <1>1, <2>1, <2>2, <3>1, WaitReleaseStep
  <2>3. CASE ~(Waits(t) /\ ~mtxatr[wid[t]].nodiswai)
    <3>1. UNCHANGED <<waitq, state, wid, timed, chg>>
      BY <1>3, <2>3 DEF _tk_dis_wai
    <3>2. TypeOK'
      BY <2>1, <3>1 DEF IInv, TypeOK
    <3>3. OwnerLink' /\ WaitersHaveOwner' /\ WaitQueues' /\ LockOrder'
      BY <2>1, <3>1 DEF IInv, OwnerLink, WaitersHaveOwner, WaitQueues, LockOrder,
                        Exists, Waits, Leaving
    <3>4. SuspendCount' /\ LateSuspended' /\ DormantHasNothing'
      BY <2>1, <3>1 DEF IInv, SuspendCount, LateSuspended, DormantHasNothing
    <3>5. ContOK'
      BY <1>1, <2>1, <3>1 DEF ContOK, Idle, NoCont
    <3> QED BY <3>2, <3>3, <3>4, <3>5 DEF IInv
  <2> QED BY <2>2, <2>3
<1> QED BY <1>2, <1>3

-----------------------------------------------------------------------------
(* Unlocking: the head of the queue, which waits for this very mutex, owns *)
(* it at once.                                                             *)
LEMMA UnlockStep ==
  ASSUME IInv, NEW t \in Task, NEW m \in Mtx, _tk_unl_mtx(t, m)
  PROVE  IInv'
<1> DEFINE own == Min(Claims(t, mtxlist[t] \ {m}, bpriority, priority, waitq))
           w == waitq[m][1]
<1>1. /\ Idle /\ Exists(m) /\ mtxtsk[m] = t /\ m \in mtxlist[t]
      /\ ~Waits(t) /\ state[t] # "DORMANT"
      /\ late' = late \ {t}
      /\ UNCHANGED <<suscnt, waitmask, bpriority, mtxatr, chg, cont>>
  BY DEF IInv, OwnerLink, LateSuspended, Waits, Caller, Idle, NoCont, _tk_unl_mtx
<1>2. own \in Pri
  <2>1. mtxlist[t] \ {m} \in SUBSET Mtx
    BY DEF IInv, TypeOK
  <2> QED BY <2>1, MinClaims DEF IInv, TypeOK
<1>3. \A u \in Task : ~Leaving(u) /\ ~Leaving(u)'
  BY <1>1 DEF Idle, NoCont, Leaving
<1>4. \A k \in Mtx, u \in Task : u \in Range(waitq[k]) <=> Waits(u) /\ wid[u] = k
  BY <1>3 DEF IInv, WaitQueues
<1> HIDE DEF own
<1>5. CASE Len(waitq[m]) > 0
  <2>1. w \in Range(waitq[m]) /\ w \in Task
    BY <1>5 DEF IInv, TypeOK, Range
  <2> HIDE DEF w
  <2>2. Waits(w) /\ wid[w] = m /\ w # t
    BY <1>1, <1>4, <2>1
  <2>3. /\ mtxtsk' = [mtxtsk EXCEPT ![m] = w]
        /\ mtxlist' = [mtxlist EXCEPT ![t] = @ \ {m}, ![w] = @ \cup {m}]
        /\ priority' = [priority EXCEPT ![t] = own, ![w] = RaiseToCeiling(w, m)]
        /\ waitq' = WithoutTask(w)
        /\ state' = [state EXCEPT ![w] = NonWait(@)]
        /\ wid' = [wid EXCEPT ![w] = 0]
        /\ timed' = [timed EXCEPT ![w] = FALSE]
    BY <1>5, <2>2 DEF _tk_unl_mtx, own, w, WithoutTask
  <2>4. /\ waitq' \in [Mtx -> Seq(Task)]
        /\ \A k \in Mtx : IsInjective(waitq'[k])
        /\ \A k \in Mtx, u \in Task :
             u \in Range(waitq'[k]) <=> Waits(u) /\ wid[u] = k /\ u # w
    BY <1>1, <2>1, <2>2, <2>3, LeaveQueue
  <2>5. /\ state'[w] = NonWait(state[w]) /\ wid'[w] = 0 /\ timed'[w] = FALSE
        /\ \A u \in Task : u # w => state'[u] = state[u] /\ wid'[u] = wid[u] /\ timed'[u] = timed[u]
    BY <2>1, <2>3 DEF IInv, TypeOK
  <2>6. \A u \in Task : Waits(u)' <=> Waits(u) /\ u # w
    BY <2>5 DEF Waits, NonWait
  <2>7. /\ mtxlist'[t] = mtxlist[t] \ {m} /\ mtxlist'[w] = mtxlist[w] \cup {m}
        /\ \A u \in Task : u # t /\ u # w => mtxlist'[u] = mtxlist[u]
        /\ mtxtsk'[m] = w /\ \A k \in Mtx : k # m => mtxtsk'[k] = mtxtsk[k]
    BY <2>1, <2>2, <2>3 DEF IInv, TypeOK
  <2>8. TypeOK'
    <3>1. RaiseToCeiling(w, m) \in Pri
      <4>1. mtxatr[m] \in MtxAtrs \cup {NoAtr} /\ priority[w] \in Pri
        BY <2>1 DEF IInv, TypeOK
      <4>2. \A a \in MtxAtrs \cup {NoAtr} : a.ceil \in Pri
        BY ConstAssumption DEF NoAtr, Pri
      <4> QED BY <4>1, <4>2 DEF RaiseToCeiling
    <3>2. priority' \in [Task -> Pri]
      BY <1>2, <2>3, <3>1 DEF IInv, TypeOK
    <3>3. state' \in [Task -> States] /\ wid' \in [Task -> 0..NMtx] /\ timed' \in [Task -> BOOLEAN]
      BY <2>1, <2>3, ConstAssumption DEF IInv, TypeOK, NonWait, States
    <3>4. mtxlist' \in [Task -> SUBSET Mtx] /\ mtxtsk' \in [Mtx -> Task \cup {NoTask}]
      BY <2>1, <2>3 DEF IInv, TypeOK
    <3>5. late' \subseteq Task
      BY <1>1 DEF IInv, TypeOK
    <3> QED BY <1>1, <2>4, <3>2, <3>3, <3>4, <3>5 DEF IInv, TypeOK
  <2>9. OwnerLink'
    BY <1>1, <2>1, <2>2, <2>7 DEF IInv, OwnerLink, Exists, Idle, NoCont
  <2>10. WaitersHaveOwner'
    <3>1. \A u \in Task : Waits(u)' => wid'[u] = wid[u] /\ Waits(u) /\ u # w
      BY <2>5, <2>6
    <3> QED BY <1>1, <2>1, <2>7, <3>1 DEF IInv, WaitersHaveOwner, Exists
  <2>11. LockOrder'
    <3>1. \A u \in Task : Waits(u)' => /\ wid'[u] = wid[u] /\ Waits(u)
                                       /\ mtxlist'[u] = mtxlist[u]
      BY <1>1, <2>5, <2>6, <2>7
    <3> QED BY <3>1 DEF IInv, LockOrder
  <2>12. WaitQueues'
    BY <1>3, <2>4, <2>5, <2>6 DEF WaitQueues
  <2>13. SuspendCount'
    BY <1>1, <2>2, <2>5 DEF IInv, SuspendCount, NonWait, Waits
  <2>14. DormantHasNothing'
    <3>1. state'[w] # "DORMANT" /\ state'[t] # "DORMANT"
      BY <1>1, <2>2, <2>5 DEF NonWait
    <3>2. \A u \in Task : u # w /\ state'[u] = "DORMANT" => ~Waits(u)
      BY <2>5 DEF Waits
    <3> QED BY <2>4, <2>5, <2>7, <3>1, <3>2 DEF IInv, DormantHasNothing
  <2>15. LateSuspended'
    BY <1>1, <2>2, <2>5 DEF IInv, TypeOK, LateSuspended, Waits
  <2>16. ContOK'
    BY <1>1 DEF Idle, ContOK, NoCont
  <2> QED BY <2>8, <2>9, <2>10, <2>11, <2>12, <2>13, <2>14, <2>15, <2>16 DEF IInv
<1>6. CASE ~(Len(waitq[m]) > 0)
  <2>1. /\ mtxtsk' = [mtxtsk EXCEPT ![m] = NoTask]
        /\ mtxlist' = [mtxlist EXCEPT ![t] = @ \ {m}]
        /\ priority' = [priority EXCEPT ![t] = own]
        /\ UNCHANGED <<waitq, state, wid, timed>>
    BY <1>6 DEF _tk_unl_mtx, own
  <2>2. \A u \in Task : ~(Waits(u) /\ wid[u] = m)
    <3>1. Range(waitq[m]) = {}
      <4>1. waitq[m] \in Seq(Task)
        BY DEF IInv, TypeOK
      <4> QED BY <1>6, <4>1 DEF Range
    <3> QED BY <1>4, <3>1
  <2>3. TypeOK'
    BY <1>1, <1>2, <2>1 DEF IInv, TypeOK
  <2>4. OwnerLink'
    BY <1>1, <2>1, ConstAssumption DEF IInv, TypeOK, OwnerLink, Exists, Idle, NoCont
  <2>5. WaitersHaveOwner' /\ WaitQueues'
    BY <1>1, <2>1, <2>2 DEF IInv, TypeOK, WaitersHaveOwner, WaitQueues, Waits, Leaving, Exists
  <2>6. LockOrder' /\ SuspendCount' /\ LateSuspended' /\ DormantHasNothing'
    BY <1>1, <2>1 DEF IInv, TypeOK, LockOrder, SuspendCount, LateSuspended,
                      DormantHasNothing, Waits
  <2>7. ContOK'
    BY <1>1 DEF Idle, ContOK, NoCont
  <2> QED BY <2>3, <2>4, <2>5, <2>6, <2>7 DEF IInv
<1> QED BY <1>5, <1>6

-----------------------------------------------------------------------------
(* Terminating a task up to the end of its hook.  Where tk_ter_tsk is used *)
(* on waiting tasks the order of locking keeps the chain from coming back. *)
LEMMA TerminateStep ==
  ASSUME IInv, Idle, NEW t \in Task, _ter_tsk(t),
         state[t] # "DORMANT", Waits(t) => OrderedLocks
  PROVE  IInv'
<1>1. /\ cont' = [op |-> "ter", tsk |-> t, mtx |-> 0, tmo |-> FALSE]
      /\ UNCHANGED <<state, suscnt, waitmask, wid, late, priority, bpriority, mtxlist,
                     mtxatr, mtxtsk>>
  BY DEF _ter_tsk
<1>2. \A u \in Task : ~Leaving(u) /\ (Leaving(u)' <=> u = t)
  BY <1>1 DEF Idle, NoCont, Leaving
<1>3. \A u \in Task : Waits(u)' <=> Waits(u)
  BY <1>1 DEF Waits
<1>4. /\ waitq' \in [Mtx -> Seq(Task)]
      /\ \A k \in Mtx : IsInjective(waitq'[k])
      /\ \A k \in Mtx, u \in Task :
           u \in Range(waitq'[k]) <=> Waits(u) /\ wid[u] = k /\ u # t
  <2>1. CASE Waits(t)
    <3>1. waitq' = WithoutTask(t)
      BY <2>1 DEF _ter_tsk, WithoutTask
    <3> QED BY <2>1, <3>1, LeaveQueue
  <2>2. CASE ~Waits(t)
    <3>1. waitq' = waitq
      BY <2>2 DEF _ter_tsk
    <3> QED BY <1>2, <2>2, <3>1 DEF IInv, TypeOK, WaitQueues
  <2> QED BY <2>1, <2>2
<1>5. timed' \in [Task -> BOOLEAN] /\ \A u \in Task : timed'[u] => timed[u]
  <2>1. timed' = [timed EXCEPT ![t] = FALSE] \/ timed' = timed
    BY DEF _ter_tsk
  <2> QED BY <2>1 DEF IInv, TypeOK
<1>6. /\ chg' \in ChgType
      /\ chg' # NoChg => Waits(t) /\ chg'.tcb = mtxtsk[wid[t]]
  <2>1. CASE Waits(t)
    <3>1. waitq' = WithoutTask(t) /\ chg' = mtx_rel_wai(t, waitq')
      BY <2>1 DEF _ter_tsk, WithoutTask
    <3> QED BY <1>4, <2>1, <3>1, RelWaiType DEF IInv
  <2>2. CASE ~Waits(t)
    <3>1. chg' = NoChg /\ NoChg \in ChgType
      BY <2>2, ConstAssumption DEF _ter_tsk, Idle, NoChg, ChgType, Pri
    <3> QED BY <3>1
  <2> QED BY <2>1, <2>2
<1>7. TypeOK'
  <2>1. cont' \in [op : {"none", "loc", "del", "ter"}, tsk : Task \cup {NoTask},
                   mtx : 0..NMtx, tmo : BOOLEAN]
    BY <1>1, ConstAssumption
  <2> QED BY <1>1, <1>4, <1>5, <1>6, <2>1 DEF IInv, TypeOK, ChgType
<1>8. OwnerLink' /\ WaitersHaveOwner' /\ LockOrder'
  BY <1>1 DEF IInv, OwnerLink, WaitersHaveOwner, LockOrder, Waits, Exists, Idle, NoCont
<1>9. WaitQueues'
  BY <1>1, <1>2, <1>3, <1>4 DEF WaitQueues
<1>10. SuspendCount' /\ LateSuspended'
  BY <1>1 DEF IInv, SuspendCount, LateSuspended
<1>11. DormantHasNothing'
  <2>1. \A u \in Task : state[u] = "DORMANT" => ~Waits(u)
    BY DEF Waits
  <2> QED BY <1>1, <1>4, <1>5, <2>1 DEF IInv, TypeOK, DormantHasNothing
<1>12. ContOK'
  <2>1. ASSUME Waits(t)
        PROVE  mtxtsk[wid[t]] \in Task /\ wid[t] \in mtxlist[mtxtsk[wid[t]]] /\ wid[t] <= wid[t]
    BY <2>1 DEF IInv, WaitersHaveOwner, OwnerLink, Idle, NoCont, Mtx
  <2>2. chg' # NoChg => chg'.tcb \in Task /\ \E k \in mtxlist'[chg'.tcb] : wid'[t] <= k
    BY <1>1, <1>6, <2>1
  <2> QED BY <1>1, <1>3, <2>2 DEF ContOK
<1> QED BY <1>7, <1>8, <1>9, <1>10, <1>11, <1>12 DEF IInv

(* The rest of a termination.  A task is woken by at most one mutex, the   *)
(* one it waits for.                                                       *)
LEMMA TerminateFinishStep ==
  ASSUME IInv, ter_tsk_finish
  PROVE  IInv'
<1>1. PICK x \in Task : x = cont.tsk
  BY DEF IInv, ContOK, ter_tsk_finish
<1> DEFINE Given == {m \in mtxlist[x] : Len(waitq[m]) > 0}
           Gets(t) == {m \in Given : waitq[m][1] = t}
           Woken(t) == Gets(t) # {}
<1>2. /\ waitq' = [m \in Mtx |-> IF m \in Given THEN QueRemove(waitq[m], waitq[m][1])
                                                ELSE waitq[m]]
      /\ mtxtsk' = [m \in Mtx |-> IF m \in Given THEN waitq[m][1]
                                  ELSE IF m \in mtxlist[x] THEN NoTask
                                  ELSE mtxtsk[m]]
      /\ mtxlist' = [t \in Task |-> IF t = x THEN {} ELSE mtxlist[t] \cup Gets(t)]
      /\ state' = [t \in Task |-> IF t = x THEN "DORMANT"
                                  ELSE IF Woken(t) THEN NonWait(state[t])
                                  ELSE state[t]]
      /\ priority' = [t \in Task |->
                        IF t = x THEN IPri[t]
                        ELSE IF Woken(t) THEN RaiseToCeiling(t, CHOOSE m \in Gets(t) : TRUE)
                        ELSE priority[t]]
      /\ bpriority' = [bpriority EXCEPT ![x] = IPri[x]]
      /\ suscnt' = [suscnt EXCEPT ![x] = 0]
      /\ waitmask' = [waitmask EXCEPT ![x] = FALSE]
      /\ wid' = [t \in Task |-> IF t = x \/ Woken(t) THEN 0 ELSE wid[t]]
      /\ timed' = [t \in Task |-> timed[t] /\ t # x /\ ~Woken(t)]
      /\ late' = late \ {x}
      /\ cont' = NoCont
      /\ UNCHANGED <<mtxatr, chg>>
  BY <1>1 DEF ter_tsk_finish
<1>3. /\ cont.op = "ter" /\ chg = NoChg
      /\ \A t \in Task : ~Leaving(t)' /\ (Leaving(t) <=> t = x)
  BY <1>1, <1>2 DEF ter_tsk_finish, Leaving, NoCont
<1>4. \A m \in Mtx, t \in Task : t \in Range(waitq[m]) <=> Waits(t) /\ wid[t] = m /\ t # x
  BY <1>3 DEF IInv, WaitQueues
<1>5. mtxlist[x] \subseteq Mtx /\ Given \subseteq Mtx
  BY DEF IInv, TypeOK
<1>6. \A m \in Mtx : /\ waitq[m] \in Seq(Task) /\ IsInjective(waitq[m])
                     /\ Len(waitq[m]) > 0 => waitq[m][1] \in Range(waitq[m])
                     /\ Len(waitq[m]) > 0 <=> Range(waitq[m]) # {}
  <2> SUFFICES ASSUME NEW m \in Mtx
               PROVE  /\ waitq[m] \in Seq(Task) /\ IsInjective(waitq[m])
                      /\ Len(waitq[m]) > 0 => waitq[m][1] \in Range(waitq[m])
                      /\ Len(waitq[m]) > 0 <=> Range(waitq[m]) # {}
    OBVIOUS
  <2>1. waitq[m] \in Seq(Task) /\ IsInjective(waitq[m])
    BY DEF IInv, TypeOK, WaitQueues
  <2>2. Len(waitq[m]) \in Nat /\ DOMAIN waitq[m] = 1..Len(waitq[m])
    BY <2>1
  <2>3. Len(waitq[m]) > 0 => 1 \in DOMAIN waitq[m]
    BY <2>2
  <2>4. Range(waitq[m]) # {} => Len(waitq[m]) > 0
    BY <2>2 DEF Range
  <2> QED BY <2>1, <2>3, <2>4 DEF Range
<1>7. \A m \in Given : /\ waitq[m][1] \in Task \ {x}
                       /\ Waits(waitq[m][1]) /\ wid[waitq[m][1]] = m
  <2>1. \A m \in Given : waitq[m][1] \in Task /\ waitq[m][1] \in Range(waitq[m])
    BY <1>5, <1>6
  <2> QED BY <1>4, <1>5, <2>1
<1>8. \A m \in Mtx : /\ waitq'[m] \in Seq(Task) /\ IsInjective(waitq'[m])
                     /\ Range(waitq'[m]) = Range(waitq[m]) \ {t \in Task : m \in Gets(t)}
  <2> SUFFICES ASSUME NEW m \in Mtx
               PROVE  /\ waitq'[m] \in Seq(Task) /\ IsInjective(waitq'[m])
                      /\ Range(waitq'[m]) = Range(waitq[m]) \ {t \in Task : m \in Gets(t)}
    OBVIOUS
  <2>1. CASE m \in Given
    <3>1. waitq'[m] = QueRemove(waitq[m], waitq[m][1])
      BY <1>2, <2>1
    <3>2. {t \in Task : m \in Gets(t)} = {waitq[m][1]}
      BY <1>7, <2>1
    <3> HIDE DEF Given, Gets
    <3> QED BY <1>6, <3>1, <3>2, QueRemoveLemma
  <2>2. CASE m \notin Given
    <3>1. waitq'[m] = waitq[m] /\ {t \in Task : m \in Gets(t)} = {}
      BY <1>2, <2>2
    <3> QED BY <1>6, <3>1
  <2> QED BY <2>1, <2>2
<1>9. \A t \in Task : Woken(t) => /\ Waits(t) /\ t # x /\ Gets(t) = {wid[t]}
                                  /\ wid[t] \in Given /\ waitq[wid[t]][1] = t
  BY <1>7
<1>10. \A t \in Task, m \in Mtx : m \in Gets(t) <=> m \in Given /\ waitq[m][1] = t
  OBVIOUS
<1>11. \A m : m \in Given <=> m \in mtxlist[x] /\ Len(waitq[m]) > 0
  OBVIOUS
<1> HIDE DEF Woken, Gets, Given
<1>12. \A t \in Task :
         /\ t = x => state'[t] = "DORMANT" /\ wid'[t] = 0 /\ ~timed'[t] /\ mtxlist'[t] = {}
         /\ Woken(t) => /\ state'[t] = NonWait(state[t]) /\ wid'[t] = 0 /\ ~timed'[t]
                        /\ mtxlist'[t] = mtxlist[t] \cup {wid[t]}
         /\ t # x /\ ~Woken(t) => /\ state'[t] = state[t] /\ wid'[t] = wid[t]
                                  /\ timed'[t] = timed[t] /\ mtxlist'[t] = mtxlist[t]
  <2>1. \A t \in Task : ~Woken(t) <=> Gets(t) = {}
    BY DEF Woken
  <2> QED BY <1>2, <1>9, <2>1, ZenonT(60) DEF IInv, TypeOK
<1>13. \A t \in Task : Waits(t)' <=> Waits(t) /\ t # x /\ ~Woken(t)
  BY <1>9, <1>12 DEF Waits, NonWait
<1>14. TypeOK'
  <2>1. \A a \in MtxAtrs \cup {NoAtr} : a.ceil \in Pri
    BY ConstAssumption DEF NoAtr, Pri
  <2>2. \A t \in Task, m \in Mtx : RaiseToCeiling(t, m) \in Pri
    BY <2>1 DEF IInv, TypeOK, RaiseToCeiling
  <2>3. \A t \in Task : Woken(t) => (CHOOSE m \in Gets(t) : TRUE) \in Mtx
    BY <1>5, <1>9
  <2>4. priority' \in [Task -> Pri] /\ bpriority' \in [Task -> Pri]
    <3>1. IPri \in [Task -> Pri] /\ priority \in [Task -> Pri] /\ bpriority \in [Task -> Pri]
      BY ConstAssumption DEF IInv, TypeOK
    <3>2. \A t \in Task : Woken(t) => RaiseToCeiling(t, CHOOSE m \in Gets(t) : TRUE) \in Pri
      BY <2>2, <2>3
    <3> QED BY <1>2, <3>1, <3>2
  <2>5. state' \in [Task -> States]
    BY <1>2 DEF IInv, TypeOK, NonWait, States
  <2>6. suscnt' \in [Task -> 0..MaxSus] /\ wid' \in [Task -> 0..NMtx]
    BY <1>2, ConstAssumption DEF IInv, TypeOK
  <2>7. waitmask' \in [Task -> BOOLEAN] /\ timed' \in [Task -> BOOLEAN] /\ late' \subseteq Task
    BY <1>2 DEF IInv, TypeOK
  <2>8. mtxlist' \in [Task -> SUBSET Mtx]
    <3>1. \A t \in Task : Gets(t) \subseteq Mtx
      BY <1>5, <1>10 DEF Gets
    <3> QED BY <1>2, <3>1 DEF IInv, TypeOK
  <2>9. mtxtsk' \in [Mtx -> Task \cup {NoTask}]
    BY <1>2, <1>7 DEF IInv, TypeOK
  <2>10. waitq' \in [Mtx -> Seq(Task)]
    <3>1. waitq' = [m \in Mtx |-> waitq'[m]]
      BY <1>2
    <3> QED BY <1>8, <3>1
  <2>11. cont' \in [op : {"none", "loc", "del", "ter"}, tsk : Task \cup {NoTask},
                    mtx : 0..NMtx, tmo : BOOLEAN]
    BY <1>2, ConstAssumption DEF NoCont
  <2> QED BY <1>2, <2>4, <2>5, <2>6, <2>7, <2>8, <2>9, <2>10, <2>11 DEF IInv, TypeOK
<1>15. OwnerLink'
  <2>1. \A t \in Task, m \in Mtx : m \in mtxlist[t] <=> Exists(m) /\ mtxtsk[m] = t
    BY <1>3 DEF IInv, OwnerLink
  <2> SUFFICES ASSUME NEW t \in Task, NEW m \in Mtx
               PROVE  m \in mtxlist'[t] <=> Exists(m) /\ mtxtsk'[m] = t
    BY <1>2 DEF OwnerLink, NoCont, Exists
  <2>2. CASE m \in Given
    <3>1. mtxtsk'[m] = waitq[m][1] /\ m \in mtxlist[x]
      BY <1>2, <1>11, <2>2
    <3>2. m \in mtxlist'[t] <=> waitq[m][1] = t
      <4>1. \A u \in Task : u # x => m \notin mtxlist[u]
        BY <2>1, <3>1
      <4>2. mtxlist'[t] = IF t = x THEN {} ELSE mtxlist[t] \cup Gets(t)
        BY <1>2
      <4> QED BY <1>7, <1>10, <2>2, <4>1, <4>2
    <3> QED BY <2>1, <3>1, <3>2
  <2>3. CASE m \notin Given
    <3>1. m \in mtxlist'[t] <=> t # x /\ m \in mtxlist[t]
      BY <1>2, <1>10, <2>3
    <3>2. mtxtsk'[m] = IF m \in mtxlist[x] THEN NoTask ELSE mtxtsk[m]
      BY <1>2, <2>3
    <3> QED BY <2>1, <3>1, <3>2, ConstAssumption
  <2> QED BY <2>2, <2>3
<1>16. WaitersHaveOwner'
  <2> SUFFICES ASSUME NEW t \in Task, Waits(t)'
               PROVE  wid'[t] \in Mtx /\ Exists(wid'[t]) /\ mtxtsk'[wid'[t]] \in Task \ {t}
    BY <1>2 DEF WaitersHaveOwner, Exists
  <2>1. Waits(t) /\ t # x /\ ~Woken(t) /\ wid'[t] = wid[t]
    BY <1>12, <1>13
  <2>2. wid[t] \in Mtx /\ Exists(wid[t]) /\ mtxtsk[wid[t]] \in Task \ {t}
    BY <2>1 DEF IInv, WaitersHaveOwner
  <2>3. CASE wid[t] \in Given
    <3>1. waitq[wid[t]][1] # t
      BY <1>10, <2>1, <2>2, <2>3 DEF Woken
    <3>2. mtxtsk'[wid[t]] = waitq[wid[t]][1]
      BY <1>2, <2>2, <2>3
    <3> QED BY <1>7, <2>1, <2>2, <2>3, <3>1, <3>2
  <2>4. CASE wid[t] \notin Given
    <3>1. wid[t] \notin mtxlist[x]
      BY <1>4, <1>6, <1>11, <2>1, <2>2, <2>4
    <3> QED BY <1>2, <2>1, <2>2, <2>4, <3>1
  <2> QED BY <2>3, <2>4
<1>17. LockOrder'
  BY <1>12, <1>13 DEF IInv, LockOrder
<1>18. WaitQueues'
  <2> SUFFICES ASSUME NEW m \in Mtx, NEW t \in Task
               PROVE  t \in Range(waitq'[m]) <=> Waits(t)' /\ wid'[t] = m
    BY <1>3, <1>8 DEF WaitQueues
  <2>1. t \in Range(waitq'[m]) <=> Waits(t) /\ wid[t] = m /\ t # x /\ m \notin Gets(t)
    BY <1>4, <1>8
  <2>2. Waits(t) /\ wid[t] = m => (m \in Gets(t) <=> Woken(t))
    BY <1>9 DEF Woken
  <2> QED BY <1>12, <1>13, <2>1, <2>2
<1>19. SuspendCount'
  <2>1. \A t \in Task : suscnt'[t] = IF t = x THEN 0 ELSE suscnt[t]
    BY <1>2 DEF IInv, TypeOK
  <2> QED BY <1>9, <1>12, <2>1 DEF IInv, SuspendCount, NonWait, Waits
<1>20. DormantHasNothing'
  <2> SUFFICES ASSUME NEW t \in Task, state'[t] = "DORMANT"
               PROVE  /\ mtxlist'[t] = {} /\ ~timed'[t] /\ wid'[t] = 0
                      /\ \A m \in Mtx : t \notin Range(waitq'[m])
    BY DEF DormantHasNothing
  <2>1. \A m \in Mtx : t \in Range(waitq'[m]) => Waits(t) /\ t # x
    BY <1>4, <1>8
  <2>2. CASE t = x
    BY <1>12, <2>1, <2>2
  <2>3. CASE t # x
    <3>1. ~Woken(t)
      BY <1>12 DEF NonWait
    <3>2. state[t] = "DORMANT" /\ ~Waits(t)
      BY <1>12, <2>3, <3>1 DEF Waits
    <3> QED BY <1>12, <2>1, <2>3, <3>1, <3>2 DEF IInv, DormantHasNothing
  <2> QED BY <2>2, <2>3
<1>21. LateSuspended'
  <2>1. \A t \in late \ {x} : t \in Task /\ state[t] = "SUSPEND" /\ ~Waits(t)
    BY DEF IInv, TypeOK, LateSuspended, Waits
  <2> QED BY <1>2, <1>9, <1>12, <2>1 DEF LateSuspended
<1>22. ContOK'
  BY <1>2, <1>3 DEF ContOK, NoCont
<1> QED BY <1>14, <1>15, <1>16, <1>17, <1>18, <1>19, <1>20, <1>21, <1>22 DEF IInv

-----------------------------------------------------------------------------
(* Every step of the specification preserves the invariant. *)
LEMMA NextStep ==
  ASSUME NoTerminationInDeadlock, IInv, [Next]_vars
  PROVE  IInv'
<1>1. CASE KernelStep
  BY <1>1, ChainStep, DeleteFinishStep, WaitFinishStep, TerminateFinishStep DEF KernelStep
<1>2. CASE SystemCall
  <2>1. ASSUME NEW m \in Mtx, (\E a \in MtxAtrs : _tk_cre_mtx(m, a)) \/ _tk_del_mtx(m)
        PROVE  IInv'
    BY <2>1, CreateStep, DeleteStep
  <2>2. ASSUME NEW t \in Task, NEW m \in Mtx,
               \/ loc_mtx_get(t, m)
               \/ \E tmo \in BOOLEAN : loc_mtx_wait(t, m, tmo)
               \/ _tk_unl_mtx(t, m)
        PROVE  IInv'
    BY <2>2, GetStep, WaitStep, UnlockStep
  <2>3. ASSUME NEW t \in Task, _tk_ter_tsk(t)
        PROVE  IInv'
    BY <2>3, TerminateStep DEF NoTerminationInDeadlock, _tk_ter_tsk
  <2>4. ASSUME NEW t \in Task, _tk_ext_tsk(t)
        PROVE  IInv'
    <3>1. state[t] # "DORMANT" /\ ~Waits(t)
      BY <2>4 DEF IInv, LateSuspended, Caller, Waits, _tk_ext_tsk
    <3> QED BY <2>4, <3>1, TerminateStep DEF _tk_ext_tsk
  <2>5. ASSUME NEW t \in Task,
               \/ _tk_rel_wai(t) \/ _tk_dis_wai(t) \/ _tk_ena_wai(t) \/ _tk_sta_tsk(t)
               \/ _tk_rsm_tsk(t) \/ _tk_frsm_tsk(t)
               \/ \E p \in Pri : _tk_chg_pri(t, p)
               \/ \E spins \in BOOLEAN : _tk_sus_tsk(t, spins)
        PROVE  IInv'
    BY <2>5, EndWaitSteps, PlainSteps, ResumeSteps, ChangePriorityStep
  <2> QED BY <1>2, <2>1, <2>2, <2>3, <2>4, <2>5 DEF SystemCall
<1>3. CASE TimerStep
  BY <1>3, EndWaitSteps DEF TimerStep
<1>4. CASE UNCHANGED vars
  <2> USE <1>4 DEF vars
  <2>1. TypeOK'
    BY DEF IInv, TypeOK
  <2>2. OwnerLink' /\ WaitersHaveOwner' /\ WaitQueues' /\ LockOrder'
    BY DEF IInv, OwnerLink, WaitersHaveOwner, WaitQueues, LockOrder, Exists, Waits, Leaving
  <2>3. SuspendCount' /\ LateSuspended' /\ DormantHasNothing'
    BY DEF IInv, SuspendCount, LateSuspended, DormantHasNothing
  <2>4. ContOK'
    BY DEF IInv, ContOK, Caller, Exists, Waits
  <2> QED BY <2>1, <2>2, <2>3, <2>4 DEF IInv
<1> QED BY <1>1, <1>2, <1>3, <1>4 DEF Next

(* The invariant holds in every reachable state, for every number of tasks,*)
(* mutexes and priorities and every use of the system calls, as long as    *)
(* tk_ter_tsk is not used on tasks in a deadlock.                          *)
THEOREM Invariance ==
  ASSUME NoTerminationInDeadlock
  PROVE  Spec => []IInv
<1>1. Init => IInv
  BY InitIInv
<1>2. IInv /\ [Next]_vars => IInv'
  BY NextStep
<1> QED BY <1>1, <1>2, PTL DEF Spec

(* The control blocks keep the types the code gives them. *)
THEOREM TypeCorrect ==
  ASSUME NoTerminationInDeadlock
  PROVE  Spec => []TypeOK
<1>1. IInv => TypeOK
  BY DEF IInv
<1> QED BY <1>1, Invariance, PTL

(* The two ends of the ownership link, mtxtsk and mtxlist, agree through   *)
(* unlocking, hand-over, deletion and termination.                         *)
THEOREM Ownership ==
  ASSUME NoTerminationInDeadlock
  PROVE  Spec => []OwnerLink
<1>1. IInv => OwnerLink
  BY DEF IInv
<1> QED BY <1>1, Invariance, PTL

(* A task that waits for a mutex waits for one that exists and that another*)
(* task owns: no release path forgets a waiter.                            *)
THEOREM NoForgottenWaiter ==
  ASSUME NoTerminationInDeadlock
  PROVE  Spec => []WaitersHaveOwner
<1>1. IInv => WaitersHaveOwner
  BY DEF IInv
<1> QED BY <1>1, Invariance, PTL

(* A task is in the queue of the mutex it waits for, once, and in no other *)
(* queue.                                                                  *)
THEOREM QueueConsistency ==
  ASSUME NoTerminationInDeadlock
  PROVE  Spec => []WaitQueues
<1>1. IInv => WaitQueues
  BY DEF IInv
<1> QED BY <1>1, Invariance, PTL

(* A terminated task keeps no mutex, no timer and no place in a queue.     *)
THEOREM TerminationReleasesAll ==
  ASSUME NoTerminationInDeadlock
  PROVE  Spec => []DormantHasNothing
<1>1. IInv => DormantHasNothing
  BY DEF IInv
<1> QED BY <1>1, Invariance, PTL

(* The suspend count and the task state agree. *)
THEOREM SuspendConsistency ==
  ASSUME NoTerminationInDeadlock
  PROVE  Spec => []SuspendCount
<1>1. IInv => SuspendCount
  BY DEF IInv
<1> QED BY <1>1, Invariance, PTL

-----------------------------------------------------------------------------
(* Priorities                                                              *)

(* The chain that deleting a mutex starts must not come back to the task   *)
(* that owned it: while it waits for the mutex that is being deleted, a    *)
(* task of the chain would raise that owner again.  It does in a deadlock. *)
NoDeletionInDeadlock == OrderedLocks \/ "del_mtx" \notin Calls

(* A queue of tasks in the order of their priorities. *)
InOrder(q, pri) ==
  \A i, j \in 1..Len(q) : i < j => pri[q[i]] <= pri[q[j]]

Sorted == \A m \in Mtx : mtxatr[m].kind # "TFIFO" => InOrder(waitq[m], priority)

(* Task y claims mutex m: it is in the queue, or about to enter it. *)
Claimant(y, m) ==
  \/ Waits(y) /\ wid[y] = m /\ ~Leaving(y)
  \/ cont.op = "loc" /\ cont.tsk = y /\ cont.mtx = m

(* What a priority v of task u owes to the base priority, the ceilings and *)
(* the claimants of the mutexes it holds, and where it comes from.         *)
Bounds(u, v) ==
  /\ v <= bpriority[u]
  /\ \A m \in mtxlist[u] : IsCeiling(m) => v <= mtxatr[m].ceil
  /\ \A m \in mtxlist[u], y \in Task : IsInherit(m) /\ Claimant(y, m) => v <= priority[y]
Reason(u, v) ==
  \/ v = bpriority[u]
  \/ \E m \in mtxlist[u] : IsCeiling(m) /\ v = mtxatr[m].ceil
  \/ \E m \in mtxlist[u], y \in Task : IsInherit(m) /\ Claimant(y, m) /\ v = priority[y]

(* The priority of task u once the pending change is made. *)
Target(u) == IF chg # NoChg /\ chg.tcb = u THEN chg.pri ELSE priority[u]

(* All but the pending change of the chain is done. *)
Settled == \A u \in Task, v \in Pri : v = Target(u) => Bounds(u, v) /\ Reason(u, v)

(* Before a task enters a queue, the chain only raises, to its priority. *)
RaisesOnly ==
  cont.op = "loc" /\ chg # NoChg =>
    chg.pri = priority[cont.tsk] /\ chg.pri < priority[chg.tcb]

(* The chain of a deletion does not reach a task that waits for the mutex. *)
PastDeleted ==
  cont.op = "del" /\ chg # NoChg =>
    OrderedLocks /\ (Waits(chg.tcb) => cont.mtx < wid[chg.tcb])

(* The ceilings, also of a task about to wait. *)
BelowCeiling ==
  \A t \in Task, m \in Mtx :
    IsCeiling(m) /\ (m \in mtxlist[t] \/ Claimant(t, m)) => bpriority[t] >= mtxatr[m].ceil

PInv == Sorted /\ Settled /\ RaisesOnly /\ PastDeleted /\ BelowCeiling

-----------------------------------------------------------------------------
(* Queues in the order of priorities *)

(* queue_insert_tpri finds the place. *)
LEMMA InsertInOrder ==
  ASSUME NEW q \in Seq(Task), NEW t \in Task, NEW pri \in [Task -> Pri], InOrder(q, pri)
  PROVE  InOrder(queue_insert_tpri(q, t, pri), pri)
<1> DEFINE S == {i \in 1..Len(q) : pri[q[i]] > pri[t]} \cup {Len(q) + 1}
           p == Min(S)
           r == [i \in 1..(Len(q) + 1) |->
                   IF i < p THEN q[i] ELSE IF i = p THEN t ELSE q[i - 1]]
<1>1. Len(q) \in Nat /\ \A i \in 1..Len(q) : q[i] \in Task /\ pri[q[i]] \in Int
  BY DEF Pri
<1>2. p \in S /\ \A i \in S : p <= i
  <2>1. S \subseteq 1..(Len(q) + 1) /\ S # {} /\ Len(q) + 1 \in Nat
    BY <1>1
  <2> HIDE DEF S
  <2> QED BY <2>1, MinOf
<1> HIDE DEF p
<1>3. p \in 1..(Len(q) + 1) /\ pri[t] \in Int
  BY <1>1, <1>2 DEF Pri
<1>4. \A i \in 1..Len(q) : i < p => pri[q[i]] <= pri[t]
  BY <1>1, <1>2, <1>3
<1>5. \A i \in 1..Len(q) : i >= p => pri[t] <= pri[q[i]]
  <2> SUFFICES ASSUME NEW i \in 1..Len(q), i >= p PROVE pri[t] <= pri[q[i]]
    OBVIOUS
  <2>1. p \in 1..Len(q) /\ pri[q[p]] > pri[t]
    BY <1>1, <1>2, <1>3
  <2>2. pri[q[p]] <= pri[q[i]]
    BY <1>1, <2>1 DEF InOrder
  <2> QED BY <1>1, <1>3, <2>1, <2>2
<1>6. queue_insert_tpri(q, t, pri) = r
  BY DEF queue_insert_tpri, p
<1>7. Len(r) = Len(q) + 1
  BY <1>1
<1>8. \A i, j \in 1..(Len(q) + 1) : i < j => pri[r[i]] <= pri[r[j]]
  <2> SUFFICES ASSUME NEW i \in 1..(Len(q) + 1), NEW j \in 1..(Len(q) + 1), i < j
               PROVE  pri[r[i]] <= pri[r[j]]
    OBVIOUS
  <2>1. CASE j < p
    BY <1>1, <1>3, <2>1 DEF InOrder
  <2>2. CASE j = p
    BY <1>1, <1>3, <1>4, <2>2
  <2>3. CASE j > p /\ i < p
    <3>1. r[i] = q[i] /\ r[j] = q[j - 1] /\ i \in 1..Len(q) /\ j - 1 \in 1..Len(q) /\ i <= j - 1
      BY <1>1, <1>3, <2>3
    <3> DEFINE d == j - 1
    <3>2. i = d \/ i < d
      BY <1>1, <3>1
    <3>3. d \in 1..Len(q) /\ r[j] = q[d]
      BY <3>1
    <3> HIDE DEF d
    <3>4. i < d => pri[q[i]] <= pri[q[d]]
      BY <3>1, <3>3 DEF InOrder
    <3>5. pri[q[i]] \in Int
      BY <1>1, <3>1
    <3> QED BY <3>1, <3>2, <3>3, <3>4, <3>5
  <2>4. CASE j > p /\ i = p
    <3>1. r[i] = t /\ r[j] = q[j - 1] /\ j - 1 \in 1..Len(q) /\ j - 1 >= p
      BY <1>1, <1>3, <2>4
    <3> QED BY <1>5, <3>1
  <2>5. CASE j > p /\ i > p
    <3>1. /\ r[i] = q[i - 1] /\ r[j] = q[j - 1]
          /\ i - 1 \in 1..Len(q) /\ j - 1 \in 1..Len(q) /\ i - 1 < j - 1
      BY <1>1, <1>3, <2>5
    <3> QED BY <1>1, <3>1 DEF InOrder
  <2> QED BY <1>3, <2>1, <2>2, <2>3, <2>4, <2>5
<1> QED BY <1>6, <1>7, <1>8 DEF InOrder

LEMMA RemoveInOrder ==
  ASSUME NEW q \in Seq(Task), NEW t, NEW pri, InOrder(q, pri)
  PROVE  InOrder(QueRemove(q, t), pri)
<1>1. Len(q) \in Nat /\ DOMAIN q = 1..Len(q)
  OBVIOUS
<1>2. CASE \A i \in 1..Len(q) : q[i] # t
  BY <1>2 DEF QueRemove
<1>3. CASE \E i \in 1..Len(q) : q[i] = t
  <2> DEFINE p == CHOOSE i \in 1..Len(q) : q[i] = t
             r == [i \in 1..(Len(q) - 1) |-> IF i < p THEN q[i] ELSE q[i + 1]]
  <2>1. p \in 1..Len(q)
    BY <1>3
  <2>2. QueRemove(q, t) = r
    BY <1>3 DEF QueRemove
  <2> HIDE DEF p
  <2>3. Len(r) = Len(q) - 1
    BY <1>1, <2>1
  <2>4. \A i, j \in 1..(Len(q) - 1) : i < j => pri[r[i]] <= pri[r[j]]
    <3> SUFFICES ASSUME NEW i \in 1..(Len(q) - 1), NEW j \in 1..(Len(q) - 1), i < j
                 PROVE  pri[r[i]] <= pri[r[j]]
      OBVIOUS
    <3>1. PICK k \in 1..Len(q) : r[i] = q[k] /\ k = IF i < p THEN i ELSE i + 1
      BY <1>1
    <3>2. PICK l \in 1..Len(q) : r[j] = q[l] /\ l = IF j < p THEN j ELSE j + 1
      BY <1>1
    <3>3. k < l
      BY <1>1, <2>1, <3>1, <3>2
    <3> QED BY <3>1, <3>2, <3>3 DEF InOrder
  <2> QED BY <2>2, <2>3, <2>4 DEF InOrder
<1> QED BY <1>2, <1>3

(* Only the priorities of the queued tasks matter. *)
LEMMA OrderFrame ==
  ASSUME NEW q \in Seq(Task), NEW pri, NEW pri2, InOrder(q, pri),
         \A y \in Range(q) : pri2[y] = pri[y]
  PROVE  InOrder(q, pri2)
<1>1. \A i \in 1..Len(q) : q[i] \in Range(q)
  BY DEF Range
<1> QED BY <1>1 DEF InOrder

(* The head has the highest priority of the queue. *)
LEMMA HeadHighest ==
  ASSUME NEW q \in Seq(Task), NEW pri \in [Task -> Pri], InOrder(q, pri)
  PROVE  /\ Len(q) > 0 => q[1] \in Range(q) /\ \A y \in Range(q) : pri[q[1]] <= pri[y]
         /\ \A y \in Range(q) : Len(q) > 0
<1>1. Len(q) \in Nat /\ DOMAIN q = 1..Len(q) /\ \A i \in 1..Len(q) : q[i] \in Task /\ pri[q[i]] \in Int
  BY DEF Pri
<1>2. \A y \in Range(q) : \E i \in 1..Len(q) : y = q[i]
  BY <1>1 DEF Range
<1>3. \A y \in Range(q) : Len(q) > 0
  BY <1>1, <1>2
<1>4. ASSUME Len(q) > 0 PROVE q[1] \in Range(q) /\ \A y \in Range(q) : pri[q[1]] <= pri[y]
  <2>1. 1 \in DOMAIN q
    BY <1>1, <1>4
  <2>2. \A i \in 1..Len(q) : pri[q[1]] <= pri[q[i]]
    BY <1>1, <2>1 DEF InOrder
  <2> QED BY <1>2, <2>1, <2>2 DEF Range
<1> QED BY <1>3, <1>4

(* What release_mutex computes, in terms of the tasks in the queues. *)
Highest(u, list, base, pri, wq, v) ==
  /\ v <= base[u]
  /\ \A m \in list : IsCeiling(m) => v <= mtxatr[m].ceil
  /\ \A m \in list : IsInherit(m) => \A y \in Range(wq[m]) : v <= pri[y]
  /\ \/ v = base[u]
     \/ \E m \in list : IsCeiling(m) /\ v = mtxatr[m].ceil
     \/ \E m \in list : IsInherit(m) /\ \E y \in Range(wq[m]) : v = pri[y]

LEMMA HighestClaim ==
  ASSUME TypeOK, NEW u \in Task, NEW list \in SUBSET Mtx,
         NEW base \in [Task -> Pri], NEW pri \in [Task -> Pri], NEW wq \in [Mtx -> Seq(Task)],
         \A m \in Mtx : IsInherit(m) => InOrder(wq[m], pri),
         NEW v \in Pri
  PROVE  v = Min(Claims(u, list, base, pri, wq)) <=> Highest(u, list, base, pri, wq, v)
<1> DEFINE C == Claims(u, list, base, pri, wq)
<1>1. /\ NPri \in Nat /\ Pri \subseteq Int
      /\ \A m \in list : mtxatr[m].ceil \in Pri
      /\ \A m \in list : \A y \in Range(wq[m]) : pri[y] \in Pri
  <2>1. \A m \in list : mtxatr[m].ceil \in Pri
    <3>1. \A a \in MtxAtrs \cup {NoAtr} : a.ceil \in Pri
      BY ConstAssumption DEF NoAtr, Pri
    <3> QED BY <3>1 DEF TypeOK
  <2>2. \A m \in list : \A y \in Range(wq[m]) : y \in Task
    BY DEF Range
  <2> QED BY <2>1, <2>2, ConstAssumption DEF Pri
<1>2. \A m \in list : IsInherit(m) =>
        /\ Len(wq[m]) > 0 => wq[m][1] \in Range(wq[m]) /\ \A y \in Range(wq[m]) : pri[wq[m][1]] <= pri[y]
        /\ \A y \in Range(wq[m]) : Len(wq[m]) > 0
  BY HeadHighest
<1>3. \A r : r \in C <=> \/ r = base[u]
                         \/ \E m \in list : IsCeiling(m) /\ r = mtxatr[m].ceil
                         \/ \E m \in list : IsInherit(m) /\ Len(wq[m]) > 0 /\ r = pri[wq[m][1]]
  BY DEF Claims
<1> HIDE DEF C
<1>4. C \subseteq Pri /\ C # {}
  <2>1. \A m \in list : IsInherit(m) /\ Len(wq[m]) > 0 => pri[wq[m][1]] \in Pri
    BY <1>1, <1>2
  <2>2. base[u] \in Pri
    OBVIOUS
  <2>3. \A r : r \in C => r \in Pri
    BY <1>1, <1>3, <2>1, <2>2
  <2> QED BY <1>3, <2>3
<1>5. Min(C) \in C /\ \A r \in C : Min(C) <= r
  BY <1>1, <1>4, MinOf DEF Pri
<1>6. v = Min(C) <=> v \in C /\ \A r \in C : v <= r
  <2>1. v \in Int /\ Min(C) \in Int
    BY <1>1, <1>4, <1>5
  <2> QED BY <1>5, <2>1
<1>7. (\A r \in C : v <= r) <=> /\ v <= base[u]
                                /\ \A m \in list : IsCeiling(m) => v <= mtxatr[m].ceil
                                /\ \A m \in list : IsInherit(m) => \A y \in Range(wq[m]) : v <= pri[y]
  <2>1. ASSUME NEW m \in list, IsInherit(m), NEW y \in Range(wq[m]), \A r \in C : v <= r
        PROVE  v <= pri[y]
    <3>1. pri[wq[m][1]] \in C /\ pri[wq[m][1]] <= pri[y]
      BY <1>2, <1>3, <2>1
    <3>2. pri[wq[m][1]] \in Int /\ pri[y] \in Int /\ v \in Int /\ v <= pri[wq[m][1]]
      BY <1>1, <1>4, <2>1, <3>1
    <3> QED BY <3>1, <3>2
  <2>2. \A m \in list : IsInherit(m) /\ Len(wq[m]) > 0 => wq[m][1] \in Range(wq[m])
    BY <1>2
  <2> QED BY <1>3, <2>1, <2>2
<1>8. ASSUME \A r \in C : v <= r
      PROVE  v \in C <=> \/ v = base[u]
                         \/ \E m \in list : IsCeiling(m) /\ v = mtxatr[m].ceil
                         \/ \E m \in list : IsInherit(m) /\ \E y \in Range(wq[m]) : v = pri[y]
  <2>1. ASSUME NEW m \in list, IsInherit(m), NEW y \in Range(wq[m]), v = pri[y]
        PROVE  v \in C
    <3>1. pri[wq[m][1]] \in C /\ pri[wq[m][1]] <= pri[y]
      BY <1>2, <1>3, <2>1
    <3>2. pri[wq[m][1]] \in Int /\ v \in Int /\ v <= pri[wq[m][1]]
      BY <1>1, <1>4, <1>8, <3>1
    <3>3. v = pri[wq[m][1]]
      BY <2>1, <3>1, <3>2
    <3> QED BY <3>1, <3>3
  <2>2. \A m \in list : IsInherit(m) /\ Len(wq[m]) > 0 => wq[m][1] \in Range(wq[m])
    BY <1>2
  <2> QED BY <1>3, <2>1, <2>2
<1>9. C = Claims(u, list, base, pri, wq)
  BY DEF C
<1> QED BY <1>6, <1>7, <1>8, <1>9 DEF Highest
-----------------------------------------------------------------------------
(* What does not change the priorities *)

(* The claimants of a mutex are the tasks in its queue and the one about to*)
(* enter it.                                                               *)
LEMMA Queued ==
  ASSUME IInv, NEW m \in Mtx
  PROVE  /\ waitq[m] \in Seq(Task) /\ IsInjective(waitq[m])
         /\ \A y : y \in Range(waitq[m]) <=> y \in Task /\ Waits(y) /\ wid[y] = m /\ ~Leaving(y)
         /\ cont.op # "loc" => \A y : y \in Range(waitq[m]) <=> y \in Task /\ Claimant(y, m)
<1>1. waitq[m] \in Seq(Task) /\ IsInjective(waitq[m])
  BY DEF IInv, TypeOK, WaitQueues
<1>2. \A y \in Range(waitq[m]) : y \in Task
  BY <1>1 DEF Range
<1> QED BY <1>1, <1>2 DEF IInv, WaitQueues, Claimant

LEMMA SortedStep ==
  ASSUME IInv, IInv', Sorted,
         \A m \in Mtx :
           \/ waitq'[m] = <<>>
           \/ /\ mtxatr'[m] = mtxatr[m]
              /\ waitq'[m] = waitq[m] \/ \E t : waitq'[m] = QueRemove(waitq[m], t)
              /\ \A y \in Range(waitq'[m]) : priority'[y] = priority[y]
  PROVE  Sorted'
<1> SUFFICES ASSUME NEW m \in Mtx, mtxatr'[m].kind # "TFIFO"
             PROVE  InOrder(waitq'[m], priority')
  BY DEF Sorted
<1>1. waitq[m] \in Seq(Task) /\ waitq'[m] \in Seq(Task)
  BY DEF IInv, TypeOK
<1>2. CASE waitq'[m] = <<>>
  BY <1>2 DEF InOrder
<1>3. CASE waitq'[m] # <<>>
  <2>1. InOrder(waitq[m], priority)
    BY <1>3 DEF Sorted
  <2>2. InOrder(waitq'[m], priority)
    BY <1>1, <1>3, <2>1, RemoveInOrder
  <2> QED BY <1>1, <1>3, <2>2, OrderFrame
<1> QED BY <1>2, <1>3

(* A task keeps its priority while its mutexes claim the same of it. *)
LEMMA SameDue ==
  ASSUME NEW u, NEW v, Bounds(u, v) /\ Reason(u, v),
         bpriority'[u] = bpriority[u], mtxlist'[u] = mtxlist[u],
         \A m \in mtxlist[u] :
           /\ mtxatr'[m] = mtxatr[m]
           /\ IsInherit(m) =>
                \A y \in Task : /\ Claimant(y, m)' <=> Claimant(y, m)
                                /\ Claimant(y, m) => priority'[y] = priority[y]
  PROVE  Bounds(u, v)' /\ Reason(u, v)'
<1>1. \A m \in mtxlist[u] : (IsCeiling(m)' <=> IsCeiling(m)) /\ (IsInherit(m)' <=> IsInherit(m))
  BY DEF IsCeiling, IsInherit
<1> QED BY <1>1 DEF Bounds, Reason

LEMMA FrameStep ==
  ASSUME IInv, IInv', PInv, Sorted', chg = NoChg,
         UNCHANGED <<priority, bpriority, mtxlist, mtxatr, chg>>,
         \A y \in Task, m \in Mtx : Claimant(y, m)' <=> Claimant(y, m)
  PROVE  PInv'
<1>1. \A u \in Task : mtxlist[u] \subseteq Mtx
  BY DEF IInv, TypeOK
<1>2. Settled'
  <2> SUFFICES ASSUME NEW u \in Task, NEW v \in Pri, (v = Target(u))'
               PROVE  Bounds(u, v)' /\ Reason(u, v)'
    BY DEF Settled
  <2>1. Bounds(u, v) /\ Reason(u, v)
    BY DEF PInv, Settled, Target
  <2> QED BY <1>1, <2>1, SameDue
<1>3. RaisesOnly' /\ PastDeleted'
  BY DEF RaisesOnly, PastDeleted
<1>4. BelowCeiling'
  BY DEF PInv, BelowCeiling, IsCeiling
<1> QED BY <1>2, <1>3, <1>4 DEF PInv

(* Suspending, resuming, starting tasks and tk_ena_wai. *)
LEMMA PlainPriorities ==
  ASSUME IInv, IInv', PInv, NEW t \in Task,
         \/ _tk_ena_wai(t) \/ _tk_sta_tsk(t) \/ (\E s \in BOOLEAN : _tk_sus_tsk(t, s))
         \/ _tk_rsm_tsk(t) \/ _tk_frsm_tsk(t)
  PROVE  PInv'
<1>1. /\ chg = NoChg
      /\ UNCHANGED <<wid, priority, bpriority, mtxlist, mtxatr, waitq, chg, cont>>
  BY DEF _tk_ena_wai, _tk_sta_tsk, _tk_sus_tsk, _tk_rsm_tsk, _tk_frsm_tsk, Resume, Idle
<1>2. \A y \in Task : Waits(y)' <=> Waits(y)
  <2>1. CASE _tk_rsm_tsk(t) \/ _tk_frsm_tsk(t)
    <3>1. PICK n : Resume(t, n)
      BY <2>1 DEF _tk_rsm_tsk, _tk_frsm_tsk
    <3> QED BY <3>1 DEF IInv, TypeOK, Waits, Resume, States
  <2>2. CASE _tk_ena_wai(t) \/ _tk_sta_tsk(t) \/ (\E s \in BOOLEAN : _tk_sus_tsk(t, s))
    BY <2>2 DEF IInv, TypeOK, Waits, _tk_ena_wai, _tk_sta_tsk, _tk_sus_tsk, States
  <2> QED BY <2>1, <2>2
<1>3. \A y \in Task, m \in Mtx : Claimant(y, m)' <=> Claimant(y, m)
  BY <1>1, <1>2 DEF Claimant, Leaving
<1>4. Sorted'
  BY <1>1 DEF PInv, Sorted
<1> QED BY <1>1, <1>3, <1>4, FrameStep

(* Creating a mutex: nobody holds it or waits for it. *)
LEMMA CreatePriorities ==
  ASSUME IInv, IInv', PInv, NEW m \in Mtx, NEW a \in MtxAtrs, _tk_cre_mtx(m, a)
  PROVE  PInv'
<1>1. /\ Idle /\ ~Exists(m) /\ mtxatr' = [mtxatr EXCEPT ![m] = a]
      /\ waitq' = [waitq EXCEPT ![m] = <<>>]
      /\ UNCHANGED <<state, wid, priority, bpriority, mtxlist, chg, cont>>
  BY DEF _tk_cre_mtx, taskVars
<1>2. \A k \in Mtx : k # m => mtxatr'[k] = mtxatr[k] /\ waitq'[k] = waitq[k]
  BY <1>1 DEF IInv, TypeOK
<1>3. \A u \in Task : m \notin mtxlist[u] /\ ~Claimant(u, m)
  BY <1>1 DEF IInv, OwnerLink, WaitersHaveOwner, Claimant, Idle, NoCont
<1>4. \A y \in Task, k \in Mtx : Claimant(y, k)' <=> Claimant(y, k)
  BY <1>1 DEF Claimant, Waits, Leaving
<1>5. Sorted'
  <2>1. waitq'[m] = <<>>
    BY <1>1 DEF IInv, TypeOK
  <2> QED BY <1>1, <1>2, <2>1, SortedStep DEF PInv
<1>6. Settled'
  <2> SUFFICES ASSUME NEW u \in Task, NEW v \in Pri, (v = Target(u))'
               PROVE  Bounds(u, v)' /\ Reason(u, v)'
    BY DEF Settled
  <2>1. Bounds(u, v) /\ Reason(u, v)
    BY <1>1 DEF PInv, Settled, Target
  <2>2. \A k \in mtxlist[u] : k \in Mtx /\ k # m
    BY <1>3 DEF IInv, TypeOK
  <2> QED BY <1>1, <1>2, <1>4, <2>1, <2>2, SameDue
<1>7. RaisesOnly' /\ PastDeleted'
  BY <1>1 DEF RaisesOnly, PastDeleted, Idle
<1>8. BelowCeiling'
  BY <1>1, <1>2, <1>3, <1>4 DEF PInv, BelowCeiling, IsCeiling
<1> QED BY <1>5, <1>6, <1>7, <1>8 DEF PInv
-----------------------------------------------------------------------------
(* Locking *)

(* A call that is not in the middle of its work has no claimant besides    *)
(* the tasks in the queues.                                                *)
LEMMA IdleClaims ==
  ASSUME Idle, NEW y, NEW m
  PROVE  ~Leaving(y) /\ (Claimant(y, m) <=> Waits(y) /\ wid[y] = m)
  BY DEF Idle, NoCont, Leaving, Claimant

LEMMA CallerRuns ==
  ASSUME IInv, NEW t \in Task, Caller(t)
  PROVE  ~Waits(t)
  BY DEF IInv, LateSuspended, Caller, Waits

LEMMA PriInt ==
  ASSUME IInv
  PROVE  /\ Pri \subseteq Int
         /\ \A t \in Task : priority[t] \in Pri /\ bpriority[t] \in Pri
         /\ \A m \in Mtx : mtxatr[m].ceil \in Pri
<1>1. \A a \in MtxAtrs \cup {NoAtr} : a.ceil \in Pri
  BY ConstAssumption DEF NoAtr, Pri
<1>2. \A m \in Mtx : mtxatr[m] \in MtxAtrs \cup {NoAtr}
  BY DEF IInv, TypeOK
<1> QED BY <1>1, <1>2 DEF IInv, TypeOK, Pri

(* The priority a task gets together with mutex m is its due, when nobody  *)
(* left in the queue of m has a higher priority than the task.             *)
LEMMA HandOver ==
  ASSUME IInv, NEW u \in Task, NEW m \in Mtx, NEW v \in Pri, v = RaiseToCeiling(u, m),
         Bounds(u, priority[u]) /\ Reason(u, priority[u]),
         mtxatr' = mtxatr, bpriority'[u] = bpriority[u], mtxlist'[u] = mtxlist[u] \cup {m},
         \A k \in mtxlist[u] : IsInherit(k) =>
           \A y \in Task : /\ Claimant(y, k)' <=> Claimant(y, k)
                           /\ Claimant(y, k) => priority'[y] = priority[y],
         \A y \in Task : IsInherit(m) /\ Claimant(y, m)' => priority[u] <= priority'[y]
  PROVE  Bounds(u, v)' /\ Reason(u, v)'
<1>1. /\ v = priority[u] \/ (IsCeiling(m) /\ v = mtxatr[m].ceil)
      /\ v <= priority[u] /\ (IsCeiling(m) => v <= mtxatr[m].ceil)
      /\ IsInherit(m) => v = priority[u]
  BY PriInt DEF RaiseToCeiling, IsCeiling, IsInherit
<1>2. \A k \in Mtx : (IsCeiling(k)' <=> IsCeiling(k)) /\ (IsInherit(k)' <=> IsInherit(k))
  BY DEF IsCeiling, IsInherit
<1>3. \A k \in mtxlist[u] : k \in Mtx
  BY DEF IInv, TypeOK
<1>4. /\ v \in Int /\ priority[u] \in Int /\ bpriority[u] \in Int
      /\ \A y \in Task : priority[y] \in Int
      /\ \A k \in Mtx : mtxatr[k].ceil \in Int
  BY PriInt
<1>5. Bounds(u, v)'
  <2>1. v <= bpriority[u]
    BY <1>1, <1>4 DEF Bounds
  <2>2. \A k \in mtxlist[u] : IsCeiling(k) => v <= mtxatr[k].ceil
    BY <1>1, <1>3, <1>4 DEF Bounds
  <2>3. \A k \in mtxlist[u], y \in Task : IsInherit(k) /\ Claimant(y, k) => v <= priority[y]
    BY <1>1, <1>4 DEF Bounds
  <2>4. \A k \in mtxlist'[u] : IsCeiling(k)' => v <= mtxatr'[k].ceil
    BY <1>1, <1>2, <1>3, <2>2
  <2>5. \A k \in mtxlist'[u], y \in Task : IsInherit(k)' /\ Claimant(y, k)' => v <= priority'[y]
    <3> SUFFICES ASSUME NEW k \in mtxlist'[u], NEW y \in Task, IsInherit(k)', Claimant(y, k)'
                 PROVE  v <= priority'[y]
      OBVIOUS
    <3>1. CASE k \in mtxlist[u]
      BY <1>2, <1>3, <2>3, <3>1
    <3>2. CASE k = m
      BY <1>1, <1>2, <3>2
    <3> QED BY <3>1, <3>2
  <2> QED BY <2>1, <2>4, <2>5 DEF Bounds
<1>6. Reason(u, v)'
  <2>1. CASE v = priority[u]
    BY <1>2, <1>3, <2>1 DEF Reason
  <2>2. CASE IsCeiling(m) /\ v = mtxatr[m].ceil
    BY <1>2, <2>2 DEF Reason
  <2> QED BY <1>1, <2>1, <2>2
<1> QED BY <1>5, <1>6

LEMMA GetPriorities ==
  ASSUME IInv, IInv', PInv, NEW t \in Task, NEW m \in Mtx, loc_mtx_get(t, m)
  PROVE  PInv'
<1>1. /\ Idle /\ Caller(t) /\ mtxtsk[m] = NoTask /\ ~Waits(t) /\ chg = NoChg
      /\ IsCeiling(m) => bpriority[t] >= mtxatr[m].ceil
      /\ mtxlist' = [mtxlist EXCEPT ![t] = @ \cup {m}]
      /\ priority' = [priority EXCEPT ![t] = RaiseToCeiling(t, m)]
      /\ UNCHANGED <<state, wid, bpriority, mtxatr, waitq, chg, cont>>
  BY CallerRuns DEF loc_mtx_get, loc_mtx_allowed, Idle
<1>2. /\ priority'[t] = RaiseToCeiling(t, m)
      /\ \A u \in Task : u # t => priority'[u] = priority[u] /\ mtxlist'[u] = mtxlist[u]
      /\ mtxlist'[t] = mtxlist[t] \cup {m}
  BY <1>1 DEF IInv, TypeOK
<1>3. \A y \in Task, k \in Mtx : /\ Claimant(y, k)' <=> Claimant(y, k)
                                 /\ Claimant(y, k) => y # t /\ priority'[y] = priority[y]
                                 /\ ~Claimant(y, m)
  <2>1. \A y \in Task, k \in Mtx : Claimant(y, k)' <=> Claimant(y, k)
    BY <1>1 DEF Claimant, Waits, Leaving
  <2>2. \A y \in Task : ~(Waits(y) /\ wid[y] = m)
    BY <1>1, ConstAssumption DEF IInv, WaitersHaveOwner
  <2> QED BY <1>1, <1>2, <2>1, <2>2, IdleClaims
<1>4. \A k \in Mtx : (IsCeiling(k)' <=> IsCeiling(k)) /\ (IsInherit(k)' <=> IsInherit(k))
  BY <1>1 DEF IsCeiling, IsInherit
<1>5. \A u \in Task : mtxlist[u] \subseteq Mtx
  BY DEF IInv, TypeOK
<1>6. Sorted'
  <2>1. \A k \in Mtx : \A y \in Range(waitq'[k]) : priority'[y] = priority[y]
    BY <1>1, <1>2, Queued
  <2> QED BY <1>1, <2>1, SortedStep DEF PInv
<1>7. Settled'
  <2> SUFFICES ASSUME NEW u \in Task, NEW v \in Pri, (v = Target(u))'
               PROVE  Bounds(u, v)' /\ Reason(u, v)'
    BY DEF Settled
  <2>1. v = priority'[u]
    BY <1>1 DEF Target
  <2>2. Bounds(u, priority[u]) /\ Reason(u, priority[u])
    BY <1>1, PriInt DEF PInv, Settled, Target
  <2>3. CASE u # t
    <3>1. Bounds(u, v) /\ Reason(u, v)
      BY <1>2, <2>1, <2>2, <2>3
    <3> QED BY <1>1, <1>2, <1>3, <1>5, <2>3, <3>1, SameDue
  <2>4. CASE u = t
    <3>1. v = RaiseToCeiling(u, m) /\ mtxlist'[u] = mtxlist[u] \cup {m}
      BY <1>2, <2>1, <2>4
    <3>2. \A k \in mtxlist[u] : \A y \in Task :
            /\ Claimant(y, k)' <=> Claimant(y, k)
            /\ Claimant(y, k) => priority'[y] = priority[y]
      BY <1>3, <1>5
    <3> QED BY <1>1, <1>3, <2>2, <3>1, <3>2, HandOver
  <2> QED BY <2>3, <2>4
<1>8. RaisesOnly' /\ PastDeleted'
  BY <1>1 DEF RaisesOnly, PastDeleted
<1>9. BelowCeiling'
  BY <1>1, <1>2, <1>3, <1>4 DEF PInv, BelowCeiling
<1> QED BY <1>6, <1>7, <1>8, <1>9 DEF PInv

(* The owner is given the priority of the task that is about to wait. *)
LEMMA WaitPriorities ==
  ASSUME IInv, IInv', PInv, NEW t \in Task, NEW m \in Mtx, NEW tmo \in BOOLEAN,
         loc_mtx_wait(t, m, tmo)
  PROVE  PInv'
<1> DEFINE o == mtxtsk[m]
<1>1. /\ Idle /\ ~Waits(t) /\ Exists(m) /\ o \in Task \ {t}
      /\ IsCeiling(m) => bpriority[t] >= mtxatr[m].ceil
      /\ chg = NoChg
      /\ chg' = IF IsInherit(m) /\ priority[o] > priority[t]
                THEN [tcb |-> o, pri |-> priority[t]] ELSE NoChg
      /\ cont' = [op |-> "loc", tsk |-> t, mtx |-> m, tmo |-> tmo]
      /\ UNCHANGED <<state, wid, priority, bpriority, mtxlist, mtxatr, mtxtsk, waitq>>
  BY CallerRuns DEF IInv, TypeOK, loc_mtx_wait, loc_mtx_allowed, Idle, taskVars
<1>2. \A u \in Task, k \in Mtx : k \in mtxlist[u] <=> Exists(k) /\ mtxtsk[k] = u
  BY <1>1 DEF IInv, OwnerLink, Idle, NoCont
<1>3. \A y \in Task, k \in Mtx : Claimant(y, k)' <=> Claimant(y, k) \/ (y = t /\ k = m)
  <2>1. \A y \in Task, k \in Mtx : Claimant(y, k)' <=> (Waits(y) /\ wid[y] = k) \/ (y = t /\ k = m)
    BY <1>1 DEF Claimant, Waits, Leaving
  <2> QED BY <1>1, <2>1, IdleClaims
<1>4. \A k \in Mtx : (IsCeiling(k)' <=> IsCeiling(k)) /\ (IsInherit(k)' <=> IsInherit(k))
  BY <1>1 DEF IsCeiling, IsInherit
<1>5. \A u \in Task : mtxlist[u] \subseteq Mtx
  BY DEF IInv, TypeOK
<1>6. Sorted'
  BY <1>1 DEF PInv, Sorted
<1>7. Settled'
  <2> SUFFICES ASSUME NEW u \in Task, NEW v \in Pri, (v = Target(u))'
               PROVE  Bounds(u, v)' /\ Reason(u, v)'
    BY DEF Settled
  <2>1. Bounds(u, priority[u]) /\ Reason(u, priority[u])
    BY <1>1, PriInt DEF PInv, Settled, Target
  <2>2. CASE ~(u = o /\ IsInherit(m))
    <3>1. v = priority[u]
      BY <1>1, <2>2 DEF Target, NoChg
    <3>2. \A k \in mtxlist[u] : IsInherit(k) => \A y \in Task : Claimant(y, k)' <=> Claimant(y, k)
      BY <1>2, <1>3, <1>5, <2>2
    <3> QED BY <1>1, <2>1, <3>1, <3>2, SameDue
  <2>3. CASE u = o /\ IsInherit(m)
    <3>1. /\ v = priority[o] \/ v = priority[t]
          /\ v <= priority[o] /\ v <= priority[t]
      <4>1. priority[o] \in Int /\ priority[t] \in Int
        BY <1>1, PriInt
      <4>2. CASE priority[o] > priority[t]
        <5>1. chg' = [tcb |-> o, pri |-> priority[t]] /\ chg' # NoChg
          BY <1>1, <2>3, <4>2, ConstAssumption DEF NoChg
        <5> QED BY <2>3, <4>1, <4>2, <5>1 DEF Target
      <4>3. CASE ~(priority[o] > priority[t])
        BY <1>1, <2>3, <4>1, <4>3 DEF Target
      <4> QED BY <4>2, <4>3
    <3>2. m \in mtxlist[u]
      BY <1>1, <1>2, <2>3
    <3>3. Bounds(u, v)'
      <4>1. v <= bpriority[u]
        BY <2>1, <2>3, <3>1, PriInt DEF Bounds
      <4>2. \A k \in mtxlist[u] : IsCeiling(k) => v <= mtxatr[k].ceil
        BY <1>5, <2>1, <2>3, <3>1, PriInt DEF Bounds
      <4>3. \A k \in mtxlist[u], y \in Task : IsInherit(k) /\ Claimant(y, k) => v <= priority[y]
        BY <1>5, <2>1, <2>3, <3>1, PriInt DEF Bounds
      <4> QED BY <1>1, <1>3, <1>4, <1>5, <3>1, <4>1, <4>2, <4>3 DEF Bounds
    <3>4. Reason(u, v)'
      <4>1. CASE v = priority[o]
        BY <1>1, <1>3, <1>4, <1>5, <2>1, <2>3, <4>1 DEF Reason
      <4>2. CASE v = priority[t]
        BY <1>1, <1>3, <1>4, <2>3, <3>2, <4>2 DEF Reason
      <4> QED BY <3>1, <4>1, <4>2
    <3> QED BY <3>3, <3>4
  <2> QED BY <2>2, <2>3
<1>8. RaisesOnly'
  BY <1>1 DEF RaisesOnly
<1>9. PastDeleted'
  BY <1>1 DEF PastDeleted
<1>10. BelowCeiling'
  BY <1>1, <1>3, <1>4 DEF PInv, BelowCeiling
<1> QED BY <1>6, <1>7, <1>8, <1>9, <1>10 DEF PInv

(* It enters the queue in its place. *)
LEMMA WaitFinishPriorities ==
  ASSUME IInv, IInv', PInv, loc_mtx_finish
  PROVE  PInv'
<1> DEFINE t == cont.tsk
           m == cont.mtx
           q == IF mtxatr[m].kind = "TFIFO" THEN QueInsert(waitq[m], t)
                                            ELSE queue_insert_tpri(waitq[m], t, priority)
<1>1. /\ t \in Task /\ m \in Mtx /\ ~Waits(t) /\ cont.op = "loc" /\ chg = NoChg
      /\ state' = [state EXCEPT ![t] = IF @ = "READY" THEN "WAIT" ELSE "WAITSUS"]
      /\ wid' = [wid EXCEPT ![t] = m]
      /\ waitq' = [waitq EXCEPT ![m] = q]
      /\ cont' = NoCont
      /\ UNCHANGED <<priority, bpriority, mtxlist, mtxatr, chg>>
  BY CallerRuns DEF IInv, ContOK, loc_mtx_finish
<1>2. Sorted'
  <2> SUFFICES ASSUME NEW k \in Mtx, mtxatr[k].kind # "TFIFO"
               PROVE  InOrder(waitq'[k], priority)
    BY <1>1 DEF Sorted
  <2>1. InOrder(waitq[k], priority) /\ waitq[k] \in Seq(Task) /\ priority \in [Task -> Pri]
    BY DEF PInv, Sorted, IInv, TypeOK
  <2>2. CASE k = m
    <3>1. waitq'[k] = queue_insert_tpri(waitq[k], t, priority)
      BY <1>1, <2>2 DEF IInv, TypeOK
    <3> QED BY <1>1, <2>1, <3>1, InsertInOrder
  <2>3. CASE k # m
    BY <1>1, <2>1, <2>3 DEF IInv, TypeOK
  <2> QED BY <2>2, <2>3
<1>3. \A y \in Task, k \in Mtx : Claimant(y, k)' <=> Claimant(y, k)
  <2> SUFFICES ASSUME NEW y \in Task, NEW k \in Mtx PROVE Claimant(y, k)' <=> Claimant(y, k)
    OBVIOUS
  <2>1. ~Leaving(y) /\ ~Leaving(y)'
    BY <1>1 DEF Leaving, NoCont
  <2>2. CASE y = t
    <3>1. Waits(y)' /\ wid'[y] = m
      BY <1>1, <2>2 DEF IInv, TypeOK, Waits
    <3> QED BY <1>1, <2>1, <2>2, <3>1 DEF Claimant, NoCont
  <2>3. CASE y # t
    <3>1. state'[y] = state[y] /\ wid'[y] = wid[y]
      BY <1>1, <2>3 DEF IInv, TypeOK
    <3> QED BY <1>1, <2>1, <2>3, <3>1 DEF Claimant, NoCont, Waits
  <2> QED BY <2>2, <2>3
<1> QED BY <1>1, <1>2, <1>3, FrameStep
-----------------------------------------------------------------------------
(* Changing base priorities, deleting mutexes *)

(* What release_mutex gives to a task is its due, when the queues hold the *)
(* claimants and are sorted.                                               *)
LEMMA ReleaseDue ==
  ASSUME IInv', NEW u \in Task, NEW v \in Pri, mtxatr' = mtxatr, Sorted', cont'.op # "loc",
         v = Min(Claims(u, mtxlist'[u], bpriority', priority', waitq')), TypeOK
  PROVE  Bounds(u, v)' /\ Reason(u, v)'
<1>1. /\ mtxlist'[u] \in SUBSET Mtx /\ bpriority' \in [Task -> Pri]
      /\ priority' \in [Task -> Pri] /\ waitq' \in [Mtx -> Seq(Task)]
  BY DEF IInv, TypeOK
<1>2. \A m \in Mtx : IsInherit(m) => InOrder(waitq'[m], priority')
  BY DEF Sorted, IsInherit
<1>3. /\ v <= bpriority'[u]
      /\ \A m \in mtxlist'[u] : IsCeiling(m) => v <= mtxatr[m].ceil
      /\ \A m \in mtxlist'[u] : IsInherit(m) => \A y \in Range(waitq'[m]) : v <= priority'[y]
      /\ \/ v = bpriority'[u]
         \/ \E m \in mtxlist'[u] : IsCeiling(m) /\ v = mtxatr[m].ceil
         \/ \E m \in mtxlist'[u] : IsInherit(m) /\ \E y \in Range(waitq'[m]) : v = priority'[y]
  <2>1. PICK list \in SUBSET Mtx : list = mtxlist'[u]
    BY <1>1
  <2>2. PICK base \in [Task -> Pri], pri \in [Task -> Pri], wq \in [Mtx -> Seq(Task)] :
          base = bpriority' /\ pri = priority' /\ wq = waitq'
    BY <1>1
  <2>3. \A m \in Mtx : IsInherit(m) => InOrder(wq[m], pri)
    BY <1>2, <2>2
  <2>4. v = Min(Claims(u, list, base, pri, wq))
    BY <2>1, <2>2
  <2>5. Highest(u, list, base, pri, wq, v)
    BY <2>3, <2>4, HighestClaim
  <2> QED BY <2>1, <2>2, <2>5 DEF Highest
<1>4. \A m \in Mtx : \A y : y \in Range(waitq'[m]) <=> y \in Task /\ Claimant(y, m)'
  <2>1. \A m \in Mtx : \A y \in Range(waitq'[m]) : y \in Task
    BY <1>1 DEF Range
  <2> QED BY <2>1 DEF IInv, WaitQueues, Claimant
<1>5. \A m \in Mtx : (IsCeiling(m)' <=> IsCeiling(m)) /\ (IsInherit(m)' <=> IsInherit(m))
  BY DEF IsCeiling, IsInherit
<1>6. \A m \in mtxlist'[u] : m \in Mtx
  BY <1>1
<1>7. Bounds(u, v)'
  BY <1>3, <1>4, <1>5, <1>6 DEF Bounds
<1>8. Reason(u, v)'
  BY <1>3, <1>4, <1>5, <1>6 DEF Reason
<1> QED BY <1>7, <1>8

LEMMA ChangePriorities ==
  ASSUME IInv, IInv', PInv, NEW t \in Task, NEW p \in Pri, _tk_chg_pri(t, p)
  PROVE  PInv'
<1>1. /\ Idle /\ chg = NoChg
      /\ \A m \in mtxlist[t] \cup (IF Waits(t) THEN {wid[t]} ELSE {}) :
           IsCeiling(m) => p >= mtxatr[m].ceil
      /\ bpriority' = [bpriority EXCEPT ![t] = p]
      /\ chg' = [tcb |-> t,
                 pri |-> Min(Claims(t, mtxlist[t], bpriority', priority, waitq))]
      /\ UNCHANGED <<state, wid, priority, mtxlist, mtxatr, mtxtsk, waitq, cont>>
  BY DEF _tk_chg_pri, Idle, taskVars
<1>2. \A y \in Task, k \in Mtx : Claimant(y, k)' <=> Claimant(y, k)
  BY <1>1 DEF Claimant, Waits, Leaving
<1>3. Sorted' /\ cont'.op # "loc"
  BY <1>1 DEF PInv, Sorted, Idle, NoCont
<1>4. bpriority'[t] = p /\ \A u \in Task : u # t => bpriority'[u] = bpriority[u]
  BY <1>1 DEF IInv, TypeOK
<1>5. \A u \in Task : mtxlist[u] \subseteq Mtx
  BY DEF IInv, TypeOK
<1>6. Settled'
  <2> SUFFICES ASSUME NEW u \in Task, NEW v \in Pri, (v = Target(u))'
               PROVE  Bounds(u, v)' /\ Reason(u, v)'
    BY DEF Settled
  <2>1. CASE u = t
    <3>1. v = Min(Claims(t, mtxlist'[t], bpriority', priority', waitq'))
      BY <1>1, <2>1, ConstAssumption DEF Target, NoChg
    <3> QED BY <1>1, <1>3, <2>1, <3>1, ReleaseDue DEF IInv
  <2>2. CASE u # t
    <3>1. v = priority[u]
      BY <1>1, <2>2 DEF Target
    <3>2. Bounds(u, v) /\ Reason(u, v)
      BY <1>1, <3>1 DEF PInv, Settled, Target
    <3> QED BY <1>1, <1>2, <1>4, <1>5, <2>2, <3>2, SameDue
  <2> QED BY <2>1, <2>2
<1>7. RaisesOnly' /\ PastDeleted'
  BY <1>1 DEF RaisesOnly, PastDeleted, Idle, NoCont
<1>8. BelowCeiling'
  <2> SUFFICES ASSUME NEW u \in Task, NEW m \in Mtx, IsCeiling(m),
                      m \in mtxlist[u] \/ Claimant(u, m)
               PROVE  bpriority'[u] >= mtxatr[m].ceil
    BY <1>1, <1>2 DEF BelowCeiling, IsCeiling
  <2>1. CASE u = t
    <3>1. Claimant(t, m) => Waits(t) /\ wid[t] = m
      BY <1>1, IdleClaims
    <3> QED BY <1>1, <1>4, <2>1, <3>1
  <2>2. CASE u # t
    BY <1>4, <2>2 DEF PInv, BelowCeiling
  <2> QED BY <2>1, <2>2
<1> QED BY <1>3, <1>6, <1>7, <1>8 DEF PInv

(* tk_del_mtx takes the mutex from its owner, whose priority is adjusted ...*)
LEMMA DeletePriorities ==
  ASSUME NoDeletionInDeadlock, IInv, IInv', PInv, NEW m \in Mtx, _tk_del_mtx(m)
  PROVE  PInv'
<1> DEFINE o == mtxtsk[m]
<1>1. /\ Idle /\ chg = NoChg /\ Exists(m) /\ OrderedLocks
      /\ cont' = [op |-> "del", tsk |-> NoTask, mtx |-> m, tmo |-> FALSE]
      /\ UNCHANGED <<state, wid, priority, bpriority, mtxatr, mtxtsk, waitq>>
  BY DEF _tk_del_mtx, Idle, taskVars, NoDeletionInDeadlock
<1>2. \A u \in Task, k \in Mtx : k \in mtxlist[u] <=> Exists(k) /\ mtxtsk[k] = u
  BY <1>1 DEF IInv, OwnerLink, Idle, NoCont
<1>3. \A u \in Task : mtxlist'[u] = mtxlist[u] \ {m} /\ (u # o => mtxlist'[u] = mtxlist[u])
  <2>1. CASE o = NoTask
    <3>1. mtxlist' = mtxlist /\ \A u \in Task : m \notin mtxlist[u]
      BY <1>2, <2>1, ConstAssumption DEF _tk_del_mtx
    <3> QED BY <3>1
  <2>2. CASE o # NoTask
    <3>1. mtxlist' = [mtxlist EXCEPT ![o] = @ \ {m}] /\ o \in Task
      BY <2>2 DEF _tk_del_mtx, IInv, TypeOK
    <3>2. \A u \in Task : u # o => m \notin mtxlist[u]
      BY <1>2
    <3>3. \A u \in Task : u # o => mtxlist'[u] = mtxlist[u] /\ mtxlist[u] = mtxlist[u] \ {m}
      BY <3>1, <3>2 DEF IInv, TypeOK
    <3> QED BY <3>1, <3>3 DEF IInv, TypeOK
  <2> QED BY <2>1, <2>2
<1>4. \A y \in Task, k \in Mtx : Claimant(y, k)' <=> Claimant(y, k)
  <2>1. \A y \in Task, k \in Mtx : Claimant(y, k)' <=> Waits(y) /\ wid[y] = k
    BY <1>1 DEF Claimant, Waits, Leaving
  <2> QED BY <1>1, <2>1, IdleClaims
<1>5. Sorted' /\ cont'.op # "loc"
  BY <1>1 DEF PInv, Sorted
<1>6. \A u \in Task : mtxlist[u] \subseteq Mtx
  BY DEF IInv, TypeOK
<1>7. o \in Task => chg' = release_mutex(o, mtxlist'[o], priority, waitq)
  BY <1>3, ConstAssumption DEF _tk_del_mtx
<1>8. chg' # NoChg => o \in Task /\ chg'.tcb = o
  <2>1. o \notin Task => o = NoTask
    BY DEF IInv, TypeOK
  <2>2. o \notin Task => chg' = NoChg
    BY <2>1 DEF _tk_del_mtx
  <2> QED BY <1>7, <2>2 DEF release_mutex
<1>9. Settled'
  <2> SUFFICES ASSUME NEW u \in Task, NEW v \in Pri, (v = Target(u))'
               PROVE  Bounds(u, v)' /\ Reason(u, v)'
    BY DEF Settled
  <2>1. CASE u = o
    <3>1. v = Min(Claims(u, mtxlist'[u], bpriority', priority', waitq'))
      <4>1. chg' = release_mutex(u, mtxlist'[u], priority, waitq)
        BY <1>7, <2>1
      <4>2. \A x : [tcb |-> u, pri |-> x] # NoChg
        BY ConstAssumption DEF NoChg
      <4> QED BY <1>1, <4>1, <4>2 DEF Target, release_mutex
    <3> QED BY <1>1, <1>5, <2>1, <3>1, ReleaseDue DEF IInv
  <2>2. CASE u # o
    <3>1. v = priority[u]
      BY <1>1, <1>8, <2>2 DEF Target
    <3>2. Bounds(u, v) /\ Reason(u, v)
      BY <1>1, <3>1 DEF PInv, Settled, Target
    <3> QED BY <1>1, <1>3, <1>4, <1>6, <2>2, <3>2, SameDue
  <2> QED BY <2>1, <2>2
<1>10. RaisesOnly'
  BY <1>1 DEF RaisesOnly
<1>11. PastDeleted'
  <2>1. ASSUME o \in Task, Waits(o) PROVE m < wid[o]
    BY <1>1, <1>2, <2>1 DEF IInv, LockOrder
  <2> QED BY <1>1, <1>8, <2>1 DEF PastDeleted, Waits
<1>12. BelowCeiling'
  BY <1>1, <1>3, <1>4 DEF PInv, BelowCeiling, IsCeiling
<1> QED BY <1>5, <1>9, <1>10, <1>11, <1>12 DEF PInv

(* ... and then lets the waiters go. *)
LEMMA DeleteFinishPriorities ==
  ASSUME IInv, IInv', PInv, del_mtx_finish
  PROVE  PInv'
<1> DEFINE m == cont.mtx
           W == Range(waitq[m])
<1>1. /\ m \in Mtx /\ Exists(m) /\ cont.op = "del" /\ chg = NoChg
      /\ state' = [t \in Task |-> IF t \in W THEN NonWait(state[t]) ELSE state[t]]
      /\ wid' = [t \in Task |-> IF t \in W THEN 0 ELSE wid[t]]
      /\ waitq' = [waitq EXCEPT ![m] = <<>>]
      /\ mtxatr' = [mtxatr EXCEPT ![m] = NoAtr]
      /\ cont' = NoCont
      /\ UNCHANGED <<priority, bpriority, mtxlist, chg>>
  BY DEF IInv, ContOK, del_mtx_finish
<1>2. \A t \in Task : t \in W <=> Waits(t) /\ wid[t] = m
  BY <1>1 DEF IInv, WaitQueues, Leaving
<1>3. \A k \in Mtx : k # m => mtxatr'[k] = mtxatr[k] /\ waitq'[k] = waitq[k]
  BY <1>1 DEF IInv, TypeOK
<1>4. waitq'[m] = <<>> /\ mtxatr'[m].kind = "NOEXS"
  BY <1>1 DEF IInv, TypeOK, NoAtr
<1> HIDE DEF W
<1>5. \A u \in Task : mtxlist[u] \subseteq Mtx /\ m \notin mtxlist[u]
  BY <1>1 DEF IInv, TypeOK, OwnerLink
<1>6. \A y \in Task, k \in Mtx : k # m => (Claimant(y, k)' <=> Claimant(y, k))
  <2> SUFFICES ASSUME NEW y \in Task, NEW k \in Mtx, k # m
               PROVE  Claimant(y, k)' <=> Claimant(y, k)
    OBVIOUS
  <2>1. /\ Claimant(y, k)' <=> Waits(y)' /\ wid'[y] = k
        /\ Claimant(y, k) <=> Waits(y) /\ wid[y] = k
    BY <1>1 DEF Claimant, Leaving, NoCont
  <2>2. y \in W => ~Waits(y)'
    BY <1>1 DEF Waits, NonWait
  <2>3. y \notin W => state'[y] = state[y] /\ wid'[y] = wid[y]
    BY <1>1
  <2> QED BY <1>2, <2>1, <2>2, <2>3 DEF Waits
<1>7. Sorted'
  BY <1>1, <1>3, <1>4, SortedStep DEF PInv
<1>8. Settled'
  <2> SUFFICES ASSUME NEW u \in Task, NEW v \in Pri, (v = Target(u))'
               PROVE  Bounds(u, v)' /\ Reason(u, v)'
    BY DEF Settled
  <2>1. Bounds(u, v) /\ Reason(u, v)
    BY <1>1 DEF PInv, Settled, Target
  <2>2. \A k \in mtxlist[u] : k \in Mtx /\ k # m
    BY <1>5
  <2> QED BY <1>1, <1>3, <1>6, <2>1, <2>2, SameDue
<1>9. RaisesOnly' /\ PastDeleted'
  BY <1>1 DEF RaisesOnly, PastDeleted
<1>10. BelowCeiling'
  BY <1>1, <1>3, <1>4, <1>6 DEF PInv, BelowCeiling, IsCeiling
<1> QED BY <1>7, <1>8, <1>9, <1>10 DEF PInv
-----------------------------------------------------------------------------
(* A step of the chain.  The task whose priority changes is a claimant of  *)
(* one mutex at most, so that one owner at most has a new due: the one that*)
(* mtx_chg_pri looks at.                                                   *)

(* The chain never comes to the terminated task. *)
LEMMA ChainStays ==
  ASSUME IInv, chg # NoChg, Waits(chg.tcb)
  PROVE  ~Leaving(chg.tcb) /\ wid[chg.tcb] \in Mtx /\ mtxtsk[wid[chg.tcb]] \in Task \ {chg.tcb}
<1> DEFINE x == chg.tcb
<1>1. x \in Task /\ wid[x] \in Mtx /\ mtxtsk[wid[x]] \in Task \ {x}
  BY DEF IInv, ContOK, WaitersHaveOwner
<1>2. ASSUME Leaving(x) PROVE FALSE
  <2>1. OrderedLocks /\ \E k \in mtxlist[x] : wid[x] <= k
    BY <1>2 DEF IInv, ContOK, Leaving
  <2>2. \A k \in mtxlist[x] : k < wid[x] /\ k \in Int /\ wid[x] \in Int
    BY <1>1, <2>1 DEF IInv, LockOrder, TypeOK, Mtx
  <2> QED BY <2>1, <2>2
<1> QED BY <1>1, <1>2

LEMMA ChainSorted ==
  ASSUME IInv, IInv', PInv, change_task_priority
  PROVE  Sorted'
<1>0. PICK x, m : x = chg.tcb /\ m = wid[x]
  OBVIOUS
<1>1. /\ x \in Task /\ chg # NoChg /\ priority' = [priority EXCEPT ![x] = chg.pri]
      /\ mtxatr' = mtxatr
      /\ Waits(x) /\ mtxatr[m].kind # "TFIFO" =>
           waitq' = [waitq EXCEPT ![m] = queue_insert_tpri(QueRemove(@, x), x, priority')]
      /\ ~(Waits(x) /\ mtxatr[m].kind # "TFIFO") => waitq' = waitq
  BY <1>0 DEF IInv, ContOK, change_task_priority
<1> SUFFICES ASSUME NEW k \in Mtx, mtxatr[k].kind # "TFIFO"
             PROVE  InOrder(waitq'[k], priority')
  BY <1>1 DEF Sorted
<1>2. InOrder(waitq[k], priority) /\ waitq[k] \in Seq(Task) /\ IsInjective(waitq[k])
  BY Queued DEF PInv, Sorted
<1>3. \A y \in Task : y # x => priority'[y] = priority[y]
  BY <1>1 DEF IInv, TypeOK
<1>4. CASE Waits(x) /\ k = m
  <2> DEFINE r == QueRemove(waitq[k], x)
  <2>1. waitq'[k] = queue_insert_tpri(r, x, priority')
    <3>1. waitq' = [waitq EXCEPT ![m] = queue_insert_tpri(QueRemove(waitq[m], x), x, priority')]
      BY <1>1, <1>4
    <3> QED BY <1>4, <3>1 DEF IInv, TypeOK
  <2>2. r \in Seq(Task) /\ Range(r) = Range(waitq[k]) \ {x} /\ InOrder(r, priority)
    BY <1>1, <1>2, QueRemoveLemma, RemoveInOrder
  <2> HIDE DEF r
  <2>3. \A y \in Range(r) : priority'[y] = priority[y]
    <3>1. \A y \in Range(r) : y \in Task /\ y # x
      BY <2>2 DEF Range
    <3> QED BY <1>3, <3>1
  <2>4. InOrder(r, priority')
    BY <2>2, <2>3, OrderFrame
  <2>5. priority' \in [Task -> Pri]
    BY DEF IInv, TypeOK
  <2> QED BY <1>1, <2>1, <2>2, <2>4, <2>5, InsertInOrder
<1>5. CASE ~(Waits(x) /\ k = m)
  <2>1. waitq'[k] = waitq[k]
    BY <1>1, <1>5 DEF IInv, TypeOK
  <2>2. \A y \in Range(waitq[k]) : priority'[y] = priority[y]
    BY <1>0, <1>3, <1>5, Queued
  <2> QED BY <1>2, <2>1, <2>2, OrderFrame
<1> QED BY <1>4, <1>5

LEMMA ChainPriorities ==
  ASSUME IInv, IInv', PInv, change_task_priority
  PROVE  PInv'
<1>0. PICK x, p, m, o : x = chg.tcb /\ p = chg.pri /\ m = wid[x] /\ o = mtxtsk[m]
  OBVIOUS
<1>1. /\ x \in Task /\ p \in Pri /\ chg # NoChg /\ priority' = [priority EXCEPT ![x] = p]
      /\ UNCHANGED <<state, wid, bpriority, mtxlist, mtxatr, mtxtsk, cont>>
  BY <1>0 DEF IInv, TypeOK, ContOK, change_task_priority, taskVars
<1>2. priority'[x] = p /\ \A y \in Task : y # x => priority'[y] = priority[y]
  BY <1>1 DEF IInv, TypeOK
<1>3. \A y \in Task, k \in Mtx : Claimant(y, k)' <=> Claimant(y, k)
  BY <1>1 DEF Claimant, Waits, Leaving
<1>4. \A k \in Mtx : Claimant(x, k) => Waits(x) /\ k = m
  <2>1. cont.op = "loc" => x # cont.tsk
    BY <1>0, <1>1, PriInt DEF PInv, RaisesOnly
  <2> QED BY <1>0, <2>1 DEF Claimant
<1>5. \A u \in Task : mtxlist[u] \subseteq Mtx
  BY DEF IInv, TypeOK
<1>6. Bounds(x, p) /\ Reason(x, p)
  BY <1>0, <1>1 DEF PInv, Settled, Target
<1>7. \A u \in Task : u # x => Bounds(u, priority[u]) /\ Reason(u, priority[u])
  BY <1>0, <1>1, PriInt DEF PInv, Settled, Target
<1>8. Sorted'
  BY ChainSorted
<1>9. BelowCeiling'
  BY <1>1, <1>3 DEF PInv, BelowCeiling, IsCeiling
<1>10. ASSUME NEW u \in Task, NEW v \in Pri, v = priority'[u],
              Waits(x) /\ IsInherit(m) => m \notin mtxlist[u]
       PROVE  Bounds(u, v)' /\ Reason(u, v)'
  <2>1. Bounds(u, v) /\ Reason(u, v)
    BY <1>2, <1>6, <1>7, <1>10
  <2>2. \A k \in mtxlist[u], y \in Task : IsInherit(k) /\ Claimant(y, k) => priority'[y] = priority[y]
    BY <1>2, <1>4, <1>5, <1>10
  <2> QED BY <1>1, <1>3, <1>5, <2>1, <2>2, SameDue
<1>11. CASE ~(Waits(x) /\ IsInherit(m))
  <2>1. chg' = NoChg
    BY <1>0, <1>11 DEF change_task_priority, mtx_chg_pri
  <2>2. Settled'
    BY <1>10, <1>11, <2>1 DEF Settled, Target
  <2>3. RaisesOnly' /\ PastDeleted'
    BY <2>1 DEF RaisesOnly, PastDeleted
  <2> QED BY <1>8, <1>9, <2>2, <2>3 DEF PInv
<1>12. CASE Waits(x) /\ IsInherit(m)
  <2>1. m \in Mtx /\ o \in Task \ {x} /\ ~Leaving(x) /\ Claimant(x, m)
    BY <1>0, <1>1, <1>12, ChainStays DEF Claimant
  <2>2. /\ m \in mtxlist[o] /\ \A u \in Task : m \in mtxlist[u] => u = o
        /\ cont.op = "del" => cont.mtx < m
    <3>1. cont.op = "del" => cont.mtx < m /\ cont.mtx # m
      BY <1>0, <1>1, <1>12, <2>1 DEF PInv, PastDeleted, IInv, TypeOK, Mtx
    <3>2. Exists(m)
      BY <1>0, <1>1, <1>12 DEF IInv, WaitersHaveOwner
    <3> QED BY <1>0, <2>1, <3>1, <3>2 DEF IInv, OwnerLink
  <2>3. chg' = IF priority'[o] > priority'[x] THEN [tcb |-> o, pri |-> priority'[x]]
               ELSE IF priority'[o] = priority[x] THEN release_mutex(o, mtxlist[o], priority', waitq')
               ELSE NoChg
    BY <1>0, <1>12 DEF change_task_priority, mtx_chg_pri, IsInherit
  <2>4. priority'[o] = priority[o] /\ priority[o] <= priority[x]
    BY <1>2, <1>7, <1>12, <2>1, <2>2, <1>1 DEF Bounds
  <2>5. priority[o] \in Int /\ priority[x] \in Int /\ p \in Int /\ Pri \subseteq Int
    BY <1>1, <2>1, PriInt
  <2>6. Bounds(o, priority[o]) /\ Reason(o, priority[o])
    BY <1>7, <2>1
  <2>7. \A k \in Mtx : (IsCeiling(k)' <=> IsCeiling(k)) /\ (IsInherit(k)' <=> IsInherit(k))
    BY <1>1 DEF IsCeiling, IsInherit
  <2>8. cont.op = "loc" => p = priority[cont.tsk] /\ p < priority[x] /\ priority'[cont.tsk] = p
    <3>1. cont.op = "loc" => p = priority[cont.tsk] /\ p < priority[x] /\ cont.tsk \in Task
      BY <1>0, <1>1 DEF PInv, RaisesOnly, IInv, ContOK
    <3> QED BY <1>2, <2>5, <3>1
  <2>9. ASSUME NEW u \in Task, NEW v \in Pri, u # o, (v = Target(u))', chg' # NoChg => chg'.tcb = o
        PROVE  Bounds(u, v)' /\ Reason(u, v)'
    BY <1>10, <2>2, <2>9 DEF Target
  <2>10. CASE priority[o] > p
    <3>1. chg' = [tcb |-> o, pri |-> p] /\ chg' # NoChg
      BY <1>2, <2>1, <2>3, <2>4, <2>10, ConstAssumption DEF NoChg
    <3>2. Bounds(o, p)'
      <4>1. p <= bpriority[o] /\ \A k \in mtxlist[o] : IsCeiling(k) => p <= mtxatr[k].ceil
        <5>1. bpriority[o] \in Int /\ \A k \in mtxlist[o] : mtxatr[k].ceil \in Int
          BY <1>5, <2>1, PriInt
        <5>2. priority[o] <= bpriority[o] /\ \A k \in mtxlist[o] : IsCeiling(k) => priority[o] <= mtxatr[k].ceil
          BY <2>6 DEF Bounds
        <5> QED BY <2>5, <2>10, <5>1, <5>2
      <4>2. \A k \in mtxlist[o], y \in Task : IsInherit(k) /\ Claimant(y, k) => p <= priority'[y]
        <5> SUFFICES ASSUME NEW k \in mtxlist[o], NEW y \in Task, IsInherit(k), Claimant(y, k)
                     PROVE  p <= priority'[y]
          OBVIOUS
        <5>1. CASE y = x
          BY <1>2, <2>5, <5>1
        <5>2. CASE y # x
          <6>1. priority'[y] = priority[y] /\ priority[y] \in Int /\ priority[o] <= priority[y]
            BY <1>2, <2>5, <2>6, <5>2, PriInt DEF Bounds
          <6> QED BY <2>5, <2>10, <6>1
        <5> QED BY <5>1, <5>2
      <4>3. \A k \in mtxlist[o] : k \in Mtx
        BY <1>5, <2>1
      <4> QED BY <1>1, <1>3, <2>7, <4>1, <4>2, <4>3 DEF Bounds
    <3>3. Reason(o, p)'
      BY <1>1, <1>2, <1>3, <1>12, <2>1, <2>2, <2>7 DEF Reason
    <3>4. Settled'
      <4> SUFFICES ASSUME NEW u \in Task, NEW v \in Pri, (v = Target(u))'
                   PROVE  Bounds(u, v)' /\ Reason(u, v)'
        BY DEF Settled
      <4>1. CASE u = o
        <5>1. v = p
          BY <3>1, <4>1 DEF Target
        <5> QED BY <3>2, <3>3, <4>1, <5>1
      <4> QED BY <2>9, <3>1, <4>1
    <3>5. RaisesOnly'
      BY <1>1, <2>4, <2>8, <2>10, <3>1 DEF RaisesOnly
    <3>6. PastDeleted'
      <4>1. cont.op = "del" => OrderedLocks
        BY <1>1 DEF PInv, PastDeleted
      <4>2. ASSUME OrderedLocks, Waits(o), cont.op = "del" PROVE cont.mtx < wid[o]
        <5>1. m < wid[o] /\ cont.mtx < m
          BY <2>1, <2>2, <4>2 DEF IInv, LockOrder
        <5>2. m \in Int /\ wid[o] \in Int /\ cont.mtx \in Int
          BY <2>1 DEF IInv, TypeOK, Mtx
        <5> QED BY <5>1, <5>2
      <4> QED BY <1>1, <3>1, <4>1, <4>2 DEF PastDeleted, Waits
    <3> QED BY <1>8, <1>9, <3>4, <3>5, <3>6 DEF PInv
  <2>11. CASE ~(priority[o] > p) /\ priority[o] = priority[x]
    <3>1. chg' = release_mutex(o, mtxlist[o], priority', waitq')
      BY <1>2, <2>3, <2>4, <2>11
    <3>2. cont'.op # "loc"
      BY <1>1, <2>5, <2>8, <2>11
    <3>3. chg' # NoChg => chg'.tcb = o
      BY <3>1 DEF release_mutex
    <3>4. Settled'
      <4> SUFFICES ASSUME NEW u \in Task, NEW v \in Pri, (v = Target(u))'
                   PROVE  Bounds(u, v)' /\ Reason(u, v)'
        BY DEF Settled
      <4>1. CASE u = o
        <5>1. \A c : [tcb |-> o, pri |-> c] # NoChg
          BY <2>1, ConstAssumption DEF NoChg
        <5>2. v = Min(Claims(u, mtxlist'[u], bpriority', priority', waitq'))
          BY <1>1, <3>1, <4>1, <5>1 DEF Target, release_mutex
        <5> QED BY <1>1, <1>8, <3>2, <5>2, ReleaseDue DEF IInv
      <4> QED BY <2>9, <3>3, <4>1
    <3>5. RaisesOnly'
      BY <3>2 DEF RaisesOnly
    <3>6. PastDeleted'
      <4>1. cont.op = "del" => OrderedLocks
        BY <1>1 DEF PInv, PastDeleted
      <4>2. ASSUME OrderedLocks, Waits(o), cont.op = "del" PROVE cont.mtx < wid[o]
        <5>1. m < wid[o] /\ cont.mtx < m
          BY <2>1, <2>2, <4>2 DEF IInv, LockOrder
        <5>2. m \in Int /\ wid[o] \in Int /\ cont.mtx \in Int
          BY <2>1 DEF IInv, TypeOK, Mtx
        <5> QED BY <5>1, <5>2
      <4> QED BY <1>1, <3>3, <4>1, <4>2 DEF PastDeleted, Waits
    <3> QED BY <1>8, <1>9, <3>4, <3>5, <3>6 DEF PInv
  <2>12. CASE ~(priority[o] > p) /\ priority[o] # priority[x]
    <3>1. chg' = NoChg
      BY <1>2, <2>3, <2>4, <2>12
    <3>2. Settled'
      <4> SUFFICES ASSUME NEW u \in Task, NEW v \in Pri, (v = Target(u))'
                   PROVE  Bounds(u, v)' /\ Reason(u, v)'
        BY DEF Settled
      <4>1. CASE u = o
        <5>1. v = priority[o] /\ v <= p /\ v # priority[x]
          BY <2>4, <2>5, <2>12, <3>1, <4>1 DEF Target
        <5>2. Bounds(o, v) /\ Reason(o, v)
          BY <2>6, <5>1
        <5>3. \A k \in mtxlist[o] : k \in Mtx
          BY <1>5, <2>1
        <5>4. \A k \in mtxlist[o], y \in Task : IsInherit(k) /\ Claimant(y, k) => v <= priority'[y]
          BY <1>2, <5>1, <5>2 DEF Bounds
        <5>5. Bounds(o, v)'
          BY <1>1, <1>3, <2>7, <5>2, <5>3, <5>4 DEF Bounds
        <5>6. \A y \in Task : v = priority[y] => v = priority'[y]
          BY <1>2, <5>1
        <5>7. Reason(o, v)'
          BY <1>1, <1>3, <2>7, <5>2, <5>3, <5>6 DEF Reason
        <5> QED BY <4>1, <5>5, <5>7
      <4> QED BY <2>9, <3>1, <4>1
    <3>3. RaisesOnly' /\ PastDeleted'
      BY <3>1 DEF RaisesOnly, PastDeleted
    <3> QED BY <1>8, <1>9, <3>2, <3>3 DEF PInv
  <2> QED BY <2>5, <2>10, <2>11, <2>12
<1> QED BY <1>11, <1>12-----------------------------------------------------------------------------
(* Ending a wait *)

(* A claim ends without the mutex.  mtx_rel_wai need only look at an owner *)
(* that runs at the priority of the task that leaves.                      *)
LEMMA LeaveClaim ==
  ASSUME IInv, IInv', PInv, Idle, NEW t \in Task, Waits(t),
         waitq' = WithoutTask(t), chg' = mtx_rel_wai(t, waitq'),
         UNCHANGED <<priority, bpriority, mtxlist, mtxatr, mtxtsk>>,
         \A y \in Task, k \in Mtx : Claimant(y, k)' <=> y # t /\ Claimant(y, k),
         cont'.op \in {"none", "ter"}
  PROVE  PInv'
<1>0. PICK m \in Mtx, o \in Task : m = wid[t] /\ o = mtxtsk[m]
  BY DEF IInv, WaitersHaveOwner
<1>1. /\ \A k \in Mtx : Claimant(t, k) <=> k = m
      /\ m \in mtxlist[o] /\ \A u \in Task : m \in mtxlist[u] => u = o
      /\ chg = NoChg
  <2>1. \A k \in Mtx : Claimant(t, k) <=> k = m
    BY <1>0, IdleClaims
  <2> QED BY <1>0, <2>1 DEF IInv, OwnerLink, WaitersHaveOwner, Idle, NoCont
<1>2. Sorted'
  <2>1. \A k \in Mtx : waitq'[k] = IF k = m THEN QueRemove(waitq[k], t) ELSE waitq[k]
    BY <1>0 DEF IInv, TypeOK, WithoutTask
  <2> QED BY <2>1, SortedStep DEF PInv
<1>3. chg' = IF IsInherit(m) /\ priority[o] = priority[t]
             THEN release_mutex(o, mtxlist[o], priority, waitq') ELSE NoChg
  BY <1>0 DEF mtx_rel_wai
<1>4. chg' # NoChg => chg'.tcb = o
  BY <1>3 DEF release_mutex
<1>5. \A u \in Task : mtxlist[u] \subseteq Mtx
  BY DEF IInv, TypeOK
<1>6. \A u \in Task : Bounds(u, priority[u]) /\ Reason(u, priority[u])
  BY <1>1, PriInt DEF PInv, Settled, Target
<1>7. Settled'
  <2> SUFFICES ASSUME NEW u \in Task, NEW v \in Pri, (v = Target(u))'
               PROVE  Bounds(u, v)' /\ Reason(u, v)'
    BY DEF Settled
  <2>1. CASE ~(u = o /\ IsInherit(m))
    <3>1. v = priority[u]
      BY <1>3, <1>4, <2>1 DEF Target
    <3>2. \A k \in mtxlist[u] : IsInherit(k) => \A y \in Task : Claimant(y, k)' <=> Claimant(y, k)
      BY <1>1, <1>5, <2>1
    <3> QED BY <1>6, <3>1, <3>2, SameDue
  <2>2. CASE u = o /\ priority[o] = priority[t] /\ IsInherit(m)
    <3>1. chg' = release_mutex(u, mtxlist[u], priority, waitq')
      BY <1>3, <2>2
    <3>2. \A c : [tcb |-> u, pri |-> c] # NoChg
      BY ConstAssumption DEF NoChg
    <3>3. v = Min(Claims(u, mtxlist'[u], bpriority', priority', waitq'))
      BY <3>1, <3>2 DEF Target, release_mutex
    <3> QED BY <1>2, <3>3, ReleaseDue DEF IInv
  <2>3. CASE u = o /\ priority[o] # priority[t]
    <3>1. v = priority[u] /\ v # priority[t] /\ Bounds(u, v) /\ Reason(u, v)
      BY <1>3, <1>6, <2>3 DEF Target
    <3>2. \A k \in Mtx : (IsCeiling(k)' <=> IsCeiling(k)) /\ (IsInherit(k)' <=> IsInherit(k))
      BY DEF IsCeiling, IsInherit
    <3>3. \A k \in mtxlist[u] : k \in Mtx
      BY <1>5
    <3>4. Bounds(u, v)'
      BY <3>1, <3>2, <3>3 DEF Bounds
    <3>5. Reason(u, v)'
      BY <3>1, <3>2, <3>3 DEF Reason
    <3> QED BY <3>4, <3>5
  <2> QED BY <2>1, <2>2, <2>3
<1>8. RaisesOnly' /\ PastDeleted'
  BY DEF RaisesOnly, PastDeleted
<1>9. BelowCeiling'
  BY DEF PInv, BelowCeiling, IsCeiling
<1> QED BY <1>2, <1>7, <1>8, <1>9 DEF PInv

LEMMA EndWaitPriorities ==
  ASSUME IInv, IInv', PInv, NEW t \in Task,
         _tk_rel_wai(t) \/ wait_release_tmout(t) \/ _tk_dis_wai(t)
  PROVE  PInv'
<1>1. Idle /\ UNCHANGED <<priority, bpriority, mtxlist, mtxatr, mtxtsk, cont>>
  BY DEF _tk_rel_wai, wait_release_tmout, _tk_dis_wai
<1>2. CASE Waits(t) /\ WaitRelease(t)
  <2>1. waitq' = WithoutTask(t) /\ chg' = mtx_rel_wai(t, waitq')
    BY <1>2 DEF WaitRelease, WithoutTask
  <2>2. \A y \in Task : /\ Waits(y)' <=> Waits(y) /\ y # t
                        /\ y # t => wid'[y] = wid[y]
    BY <1>2 DEF IInv, TypeOK, WaitRelease, Waits, NonWait
  <2>3. cont' = NoCont /\ cont'.op = "none"
    BY <1>1 DEF Idle, NoCont
  <2>4. \A y \in Task, k \in Mtx : Claimant(y, k)' <=> Waits(y)' /\ wid'[y] = k
    BY <2>3 DEF Claimant, Leaving
  <2>5. \A y \in Task, k \in Mtx : Claimant(y, k)' <=> y # t /\ Claimant(y, k)
    BY <1>1, <2>2, <2>4, IdleClaims
  <2> QED BY <1>1, <1>2, <2>1, <2>3, <2>5, LeaveClaim
<1>3. CASE ~(Waits(t) /\ WaitRelease(t))
  <2>1. UNCHANGED <<waitq, state, wid, chg>>
    BY <1>3 DEF _tk_rel_wai, wait_release_tmout, _tk_dis_wai
  <2>2. \A y \in Task, k \in Mtx : Claimant(y, k)' <=> Claimant(y, k)
    BY <1>1, <2>1 DEF Claimant, Waits, Leaving
  <2>3. Sorted'
    BY <1>1, <2>1 DEF PInv, Sorted
  <2> QED BY <1>1, <2>1, <2>2, <2>3, FrameStep DEF Idle
<1> QED BY <1>2, <1>3

LEMMA TerminatePriorities ==
  ASSUME IInv, IInv', PInv, Idle, NEW t \in Task, _ter_tsk(t)
  PROVE  PInv'
<1>1. /\ cont' = [op |-> "ter", tsk |-> t, mtx |-> 0, tmo |-> FALSE]
      /\ UNCHANGED <<state, wid, priority, bpriority, mtxlist, mtxatr, mtxtsk>>
  BY DEF _ter_tsk
<1>2. \A y \in Task, k \in Mtx : Claimant(y, k)' <=> y # t /\ Claimant(y, k)
  <2>1. \A y \in Task, k \in Mtx : Claimant(y, k)' <=> Waits(y) /\ wid[y] = k /\ y # t
    BY <1>1 DEF Claimant, Waits, Leaving
  <2> QED BY <2>1, IdleClaims
<1>3. CASE Waits(t)
  <2>1. waitq' = WithoutTask(t) /\ chg' = mtx_rel_wai(t, waitq')
    BY <1>3 DEF _ter_tsk, WithoutTask
  <2> QED BY <1>1, <1>2, <1>3, <2>1, LeaveClaim
<1>4. CASE ~Waits(t)
  <2>1. UNCHANGED <<waitq, chg>>
    BY <1>4 DEF _ter_tsk
  <2>2. \A k \in Mtx : ~Claimant(t, k)
    BY <1>4, IdleClaims
  <2>3. \A y \in Task, k \in Mtx : Claimant(y, k)' <=> Claimant(y, k)
    BY <1>2, <2>2
  <2>4. Sorted'
    BY <1>1, <2>1 DEF PInv, Sorted
  <2> QED BY <1>1, <2>1, <2>3, <2>4, FrameStep DEF Idle
<1> QED BY <1>3, <1>4-----------------------------------------------------------------------------
(* Handing a mutex on *)

(* The claims of a task depend on its base priority and on the heads of    *)
(* the queues of its mutexes.                                              *)
LEMMA SameClaims ==
  ASSUME NEW u, NEW list, NEW base, NEW base2, NEW pri, NEW pri2, NEW wq, NEW wq2,
         base[u] = base2[u],
         \A k \in list : wq[k] = wq2[k] /\ (Len(wq[k]) > 0 => pri[wq[k][1]] = pri2[wq[k][1]])
  PROVE  Claims(u, list, base, pri, wq) = Claims(u, list, base2, pri2, wq2)
  BY DEF Claims

LEMMA UnlockPriorities ==
  ASSUME IInv, IInv', PInv, NEW t \in Task, NEW m \in Mtx, _tk_unl_mtx(t, m)
  PROVE  PInv'
<1>0. PICK own, w, list : /\ own = Min(Claims(t, mtxlist[t] \ {m}, bpriority, priority, waitq))
                          /\ w = waitq[m][1] /\ list = mtxlist[t] \ {m}
  OBVIOUS
<1>1. /\ Idle /\ chg = NoChg /\ m \in mtxlist[t] /\ ~Waits(t)
      /\ UNCHANGED <<bpriority, mtxatr, chg, cont>>
  BY CallerRuns DEF IInv, OwnerLink, Idle, NoCont, _tk_unl_mtx
<1>2. \A u \in Task : u # t => m \notin mtxlist[u]
  BY <1>1 DEF IInv, OwnerLink
<1>3. \A u \in Task : Bounds(u, priority[u]) /\ Reason(u, priority[u]) /\ mtxlist[u] \subseteq Mtx
  BY <1>1, PriInt DEF PInv, Settled, Target, IInv, TypeOK
<1>4. \A k \in Mtx, y \in Task : /\ Claimant(y, k) <=> Waits(y) /\ wid[y] = k
                                 /\ Claimant(y, k)' <=> Waits(y)' /\ wid'[y] = k
                                 /\ y \in Range(waitq[k]) <=> Claimant(y, k)
  <2>1. Idle'
    BY <1>1 DEF Idle
  <2> QED BY <1>1, <2>1, IdleClaims, Queued DEF Idle, NoCont, Claimant, Leaving
<1>5. \A k \in Mtx : /\ waitq[k] \in Seq(Task)
                     /\ Len(waitq[k]) > 0 => waitq[k][1] \in Range(waitq[k]) /\ waitq[k][1] \in Task
                     /\ \A y \in Range(waitq[k]) : y \in Task /\ Len(waitq[k]) > 0
  <2> SUFFICES ASSUME NEW k \in Mtx
               PROVE  /\ waitq[k] \in Seq(Task)
                      /\ Len(waitq[k]) > 0 => waitq[k][1] \in Range(waitq[k]) /\ waitq[k][1] \in Task
                      /\ \A y \in Range(waitq[k]) : y \in Task /\ Len(waitq[k]) > 0
    OBVIOUS
  <2>1. waitq[k] \in Seq(Task)
    BY DEF IInv, TypeOK
  <2>2. Len(waitq[k]) \in Nat /\ DOMAIN waitq[k] = 1..Len(waitq[k])
    BY <2>1
  <2> QED BY <2>1, <2>2 DEF Range
<1>6. RaisesOnly' /\ PastDeleted'
  BY <1>1 DEF RaisesOnly, PastDeleted
<1>7. CASE Len(waitq[m]) > 0
  <2>1. w \in Task \ {t} /\ w \in Range(waitq[m]) /\ Waits(w) /\ wid[w] = m /\ Claimant(w, m)
    BY <1>0, <1>1, <1>4, <1>5, <1>7
  <2>2. /\ mtxlist' = [mtxlist EXCEPT ![t] = @ \ {m}, ![w] = @ \cup {m}]
        /\ priority' = [priority EXCEPT ![t] = own, ![w] = RaiseToCeiling(w, m)]
        /\ waitq' = [waitq EXCEPT ![m] = QueRemove(@, w)]
        /\ state' = [state EXCEPT ![w] = NonWait(@)]
        /\ wid' = [wid EXCEPT ![w] = 0]
    BY <1>0, <1>7 DEF _tk_unl_mtx
  <2>3. /\ mtxlist'[t] = list /\ mtxlist'[w] = mtxlist[w] \cup {m}
        /\ priority'[t] = own /\ priority'[w] = RaiseToCeiling(w, m)
        /\ \A u \in Task : u # t /\ u # w => mtxlist'[u] = mtxlist[u] /\ priority'[u] = priority[u]
        /\ \A k \in Mtx : k # m => waitq'[k] = waitq[k]
        /\ waitq'[m] = QueRemove(waitq[m], w)
    BY <1>0, <2>1, <2>2 DEF IInv, TypeOK
  <2>4. \A y \in Task, k \in Mtx : Claimant(y, k)' <=> y # w /\ Claimant(y, k)
    <3>1. \A y \in Task : /\ Waits(y)' <=> Waits(y) /\ y # w
                          /\ y # w => wid'[y] = wid[y]
      BY <2>1, <2>2 DEF IInv, TypeOK, Waits, NonWait
    <3> QED BY <1>4, <3>1
  <2>5. \A y \in Task, k \in Mtx : Claimant(y, k) => y # t /\ (k # m => y # w)
    BY <1>1, <1>4, <2>1
  <2>6. Sorted'
    <3>1. \A k \in Mtx : \A y \in Range(waitq'[k]) : y \in Task /\ Claimant(y, k)'
      <4>1. Idle'
        BY <1>1 DEF Idle
      <4>2. \A k \in Mtx : waitq'[k] \in Seq(Task)
        BY DEF IInv, TypeOK
      <4>3. \A k \in Mtx : \A y \in Range(waitq'[k]) : y \in Task
        BY <4>2 DEF Range
      <4> QED BY <4>1, <4>3 DEF IInv, WaitQueues, Claimant
    <3>2. \A k \in Mtx : \A y \in Range(waitq'[k]) : priority'[y] = priority[y]
      BY <2>3, <2>4, <2>5, <3>1
    <3> QED BY <1>1, <2>3, <3>2, SortedStep DEF PInv
  <2>7. Settled'
    <3> SUFFICES ASSUME NEW u \in Task, NEW v \in Pri, (v = Target(u))'
                 PROVE  Bounds(u, v)' /\ Reason(u, v)'
      BY DEF Settled
    <3>1. v = priority'[u]
      BY <1>1 DEF Target
    <3>2. CASE u = t
      <4>1. \A k \in list : /\ waitq[k] = waitq'[k]
                            /\ Len(waitq[k]) > 0 => priority[waitq[k][1]] = priority'[waitq[k][1]]
        <5>1. \A k \in list : k \in Mtx /\ k # m
          BY <1>0, <1>3
        <5>2. \A k \in list : Len(waitq[k]) > 0 => waitq[k][1] \in Task /\ waitq[k][1] # t /\ waitq[k][1] # w
          BY <1>4, <1>5, <2>5, <5>1
        <5> QED BY <2>3, <5>1, <5>2
      <4>2. Claims(t, list, bpriority, priority, waitq) = Claims(t, list, bpriority', priority', waitq')
        BY <1>1, <4>1, SameClaims
      <4>3. v = Min(Claims(t, mtxlist'[t], bpriority', priority', waitq'))
        BY <1>0, <2>3, <3>1, <3>2, <4>2
      <4> QED BY <1>1, <2>6, <3>2, <4>3, ReleaseDue DEF IInv, Idle, NoCont
    <3>3. CASE u = w
      <4>1. v = RaiseToCeiling(w, m) /\ bpriority'[w] = bpriority[w] /\ mtxlist'[w] = mtxlist[w] \cup {m}
        BY <1>1, <2>3, <3>1, <3>3
      <4>2. \A k \in mtxlist[w] : IsInherit(k) =>
              \A y \in Task : /\ Claimant(y, k)' <=> Claimant(y, k)
                              /\ Claimant(y, k) => priority'[y] = priority[y]
        <5>1. \A k \in mtxlist[w] : k \in Mtx /\ k # m
          BY <1>2, <1>3, <2>1
        <5> QED BY <2>3, <2>4, <2>5, <5>1
      <4>3. \A y \in Task : IsInherit(m) /\ Claimant(y, m)' => priority[w] <= priority'[y]
        <5> SUFFICES ASSUME NEW y \in Task, IsInherit(m), Claimant(y, m)'
                     PROVE  priority[w] <= priority'[y]
          OBVIOUS
        <5>1. y \in Range(waitq[m]) /\ y # t /\ y # w /\ priority'[y] = priority[y]
          BY <1>4, <2>3, <2>4, <2>5
        <5>2. InOrder(waitq[m], priority) /\ waitq[m] \in Seq(Task) /\ priority \in [Task -> Pri]
          BY DEF PInv, Sorted, IsInherit, IInv, TypeOK
        <5> QED BY <1>0, <1>7, <5>1, <5>2, HeadHighest
      <4> QED BY <1>1, <1>3, <2>1, <3>3, <4>1, <4>2, <4>3, HandOver
    <3>4. CASE u # t /\ u # w
      <4>1. v = priority[u] /\ mtxlist'[u] = mtxlist[u] /\ Bounds(u, v) /\ Reason(u, v)
        BY <1>3, <2>3, <3>1, <3>4
      <4>2. \A k \in mtxlist[u] : k \in Mtx /\ k # m
        BY <1>2, <1>3, <3>4
      <4>3. \A k \in mtxlist[u], y \in Task : /\ Claimant(y, k)' <=> Claimant(y, k)
                                              /\ Claimant(y, k) => priority'[y] = priority[y]
        BY <2>3, <2>4, <2>5, <4>2
      <4> QED BY <1>1, <4>1, <4>3, SameDue
    <3> QED BY <3>2, <3>3, <3>4
  <2>8. BelowCeiling'
    <3> SUFFICES ASSUME NEW u \in Task, NEW k \in Mtx, IsCeiling(k),
                        k \in mtxlist'[u] \/ Claimant(u, k)'
                 PROVE  bpriority[u] >= mtxatr[k].ceil
      BY <1>1 DEF BelowCeiling, IsCeiling
    <3>1. k \in mtxlist[u] \/ Claimant(u, k)
      BY <1>0, <2>1, <2>3, <2>4
    <3> QED BY <3>1 DEF PInv, BelowCeiling
  <2> QED BY <1>6, <2>6, <2>7, <2>8 DEF PInv
<1>8. CASE ~(Len(waitq[m]) > 0)
  <2>1. /\ mtxlist' = [mtxlist EXCEPT ![t] = @ \ {m}]
        /\ priority' = [priority EXCEPT ![t] = own]
        /\ UNCHANGED <<waitq, state, wid>>
    BY <1>0, <1>8 DEF _tk_unl_mtx
  <2>2. /\ mtxlist'[t] = list /\ priority'[t] = own
        /\ \A u \in Task : u # t => mtxlist'[u] = mtxlist[u] /\ priority'[u] = priority[u]
    BY <1>0, <2>1 DEF IInv, TypeOK
  <2>3. \A y \in Task, k \in Mtx : /\ Claimant(y, k)' <=> Claimant(y, k)
                                   /\ Claimant(y, k) => y # t /\ priority'[y] = priority[y]
    <3>1. \A y \in Task, k \in Mtx : Claimant(y, k)' <=> Claimant(y, k)
      BY <1>1, <2>1 DEF Claimant, Waits, Leaving
    <3> QED BY <1>1, <1>4, <2>2, <3>1
  <2>4. Sorted'
    <3>1. \A k \in Mtx : \A y \in Range(waitq[k]) : priority'[y] = priority[y]
      BY <1>4, <1>5, <2>3
    <3> QED BY <1>1, <2>1, <3>1, SortedStep DEF PInv
  <2>5. Settled'
    <3> SUFFICES ASSUME NEW u \in Task, NEW v \in Pri, (v = Target(u))'
                 PROVE  Bounds(u, v)' /\ Reason(u, v)'
      BY DEF Settled
    <3>1. v = priority'[u]
      BY <1>1 DEF Target
    <3>2. CASE u = t
      <4>1. \A k \in list : /\ waitq[k] = waitq'[k]
                            /\ Len(waitq[k]) > 0 => priority[waitq[k][1]] = priority'[waitq[k][1]]
        <5>1. \A k \in list : k \in Mtx
          BY <1>0, <1>3
        <5> QED BY <1>4, <1>5, <2>1, <2>3, <5>1
      <4>2. Claims(t, list, bpriority, priority, waitq) = Claims(t, list, bpriority', priority', waitq')
        BY <1>1, <4>1, SameClaims
      <4>3. v = Min(Claims(t, mtxlist'[t], bpriority', priority', waitq'))
        BY <1>0, <2>2, <3>1, <3>2, <4>2
      <4> QED BY <1>1, <2>4, <3>2, <4>3, ReleaseDue DEF IInv, Idle, NoCont
    <3>3. CASE u # t
      <4>1. v = priority[u] /\ mtxlist'[u] = mtxlist[u] /\ Bounds(u, v) /\ Reason(u, v)
        BY <1>3, <2>2, <3>1, <3>3
      <4>2. \A k \in mtxlist[u] : k \in Mtx
        BY <1>3
      <4> QED BY <1>1, <2>3, <4>1, <4>2, SameDue
    <3> QED BY <3>2, <3>3
  <2>6. BelowCeiling'
    <3> SUFFICES ASSUME NEW u \in Task, NEW k \in Mtx, IsCeiling(k),
                        k \in mtxlist'[u] \/ Claimant(u, k)'
                 PROVE  bpriority[u] >= mtxatr[k].ceil
      BY <1>1 DEF BelowCeiling, IsCeiling
    <3>1. k \in mtxlist[u] \/ Claimant(u, k)
      BY <1>0, <2>2, <2>3
    <3> QED BY <3>1 DEF PInv, BelowCeiling
  <2> QED BY <1>6, <2>4, <2>5, <2>6 DEF PInv
<1> QED BY <1>7, <1>8
(* A termination hands every mutex of the task to the head of its queue,   *)
(* and the task goes back to its initial priority.                         *)
LEMMA TerminateFinishPriorities ==
  ASSUME IInv, IInv', PInv, ter_tsk_finish
  PROVE  PInv'
<1>0. PICK x \in Task : x = cont.tsk
  BY DEF IInv, ContOK, ter_tsk_finish
<1> DEFINE Given == {m \in mtxlist[x] : Len(waitq[m]) > 0}
           Gets(t) == {m \in Given : waitq[m][1] = t}
           Woken(t) == Gets(t) # {}
<1>1. /\ waitq' = [m \in Mtx |-> IF m \in Given THEN QueRemove(waitq[m], waitq[m][1])
                                                ELSE waitq[m]]
      /\ mtxlist' = [t \in Task |-> IF t = x THEN {} ELSE mtxlist[t] \cup Gets(t)]
      /\ state' = [t \in Task |-> IF t = x THEN "DORMANT"
                                  ELSE IF Woken(t) THEN NonWait(state[t])
                                  ELSE state[t]]
      /\ priority' = [t \in Task |->
                        IF t = x THEN IPri[t]
                        ELSE IF Woken(t) THEN RaiseToCeiling(t, CHOOSE m \in Gets(t) : TRUE)
                        ELSE priority[t]]
      /\ bpriority' = [bpriority EXCEPT ![x] = IPri[x]]
      /\ wid' = [t \in Task |-> IF t = x \/ Woken(t) THEN 0 ELSE wid[t]]
      /\ cont' = NoCont
      /\ UNCHANGED <<mtxatr, chg>>
  BY <1>0 DEF ter_tsk_finish
<1>2. cont.op = "ter" /\ chg = NoChg /\ \A t \in Task : Leaving(t) <=> t = x
  BY <1>0 DEF ter_tsk_finish, Leaving
<1>3. \A u \in Task : Bounds(u, priority[u]) /\ Reason(u, priority[u]) /\ mtxlist[u] \subseteq Mtx
  BY <1>2, PriInt DEF PInv, Settled, Target, IInv, TypeOK
<1>4. \A k \in Mtx, y \in Task : /\ Claimant(y, k) <=> Waits(y) /\ wid[y] = k /\ y # x
                                 /\ Claimant(y, k)' <=> Waits(y)' /\ wid'[y] = k
                                 /\ y \in Range(waitq[k]) <=> Claimant(y, k)
                                 /\ y \in Range(waitq'[k]) <=> Claimant(y, k)'
  BY <1>1, <1>2 DEF IInv, WaitQueues, Claimant, Leaving, NoCont
<1>5. \A k \in Mtx : /\ waitq[k] \in Seq(Task)
                     /\ Len(waitq[k]) > 0 => waitq[k][1] \in Range(waitq[k]) /\ waitq[k][1] \in Task
                     /\ \A y \in Range(waitq[k]) : Len(waitq[k]) > 0
                     /\ \A y \in Range(waitq'[k]) : y \in Task
  <2> SUFFICES ASSUME NEW k \in Mtx
               PROVE  /\ waitq[k] \in Seq(Task)
                      /\ Len(waitq[k]) > 0 => waitq[k][1] \in Range(waitq[k]) /\ waitq[k][1] \in Task
                      /\ \A y \in Range(waitq[k]) : Len(waitq[k]) > 0
                      /\ \A y \in Range(waitq'[k]) : y \in Task
    OBVIOUS
  <2>1. waitq[k] \in Seq(Task) /\ waitq'[k] \in Seq(Task)
    BY DEF IInv, TypeOK
  <2>2. Len(waitq[k]) \in Nat /\ DOMAIN waitq[k] = 1..Len(waitq[k])
    BY <2>1
  <2>3. \A y \in Range(waitq'[k]) : y \in Task
    BY <2>1 DEF Range
  <2> QED BY <2>1, <2>2, <2>3 DEF Range
<1>6. \A u \in Task, k \in Mtx : k \in mtxlist[u] /\ k \in mtxlist[x] => u = x
  BY <1>2 DEF IInv, OwnerLink
<1>7. \A t \in Task : Woken(t) => /\ t # x /\ Claimant(t, wid[t]) /\ wid[t] \in Mtx
                                  /\ wid[t] \in mtxlist[x] /\ Gets(t) = {wid[t]}
                                  /\ Len(waitq[wid[t]]) > 0 /\ waitq[wid[t]][1] = t
  <2> SUFFICES ASSUME NEW t \in Task, NEW m \in Gets(t)
               PROVE  /\ t # x /\ wid[t] = m /\ Claimant(t, m) /\ m \in Mtx
                      /\ m \in mtxlist[x] /\ Len(waitq[m]) > 0 /\ waitq[m][1] = t
    OBVIOUS
  <2>1. m \in mtxlist[x] /\ Len(waitq[m]) > 0 /\ waitq[m][1] = t /\ m \in Mtx
    BY <1>3
  <2> QED BY <1>4, <1>5, <2>1
<1>8. \A t \in Task : ~Woken(t) => Gets(t) = {}
  OBVIOUS
<1>9. \A k \in Mtx : k \in mtxlist[x] /\ Len(waitq[k]) > 0 => Woken(waitq[k][1])
  OBVIOUS
<1> HIDE DEF Woken, Gets, Given
<1>10. \A t \in Task :
         /\ t = x => priority'[t] = IPri[t] /\ bpriority'[t] = IPri[t] /\ mtxlist'[t] = {}
         /\ t # x => bpriority'[t] = bpriority[t]
         /\ Woken(t) => /\ priority'[t] = RaiseToCeiling(t, wid[t])
                        /\ mtxlist'[t] = mtxlist[t] \cup {wid[t]}
         /\ t # x /\ ~Woken(t) => priority'[t] = priority[t] /\ mtxlist'[t] = mtxlist[t]
  <2>1. \A t \in Task : Woken(t) => (CHOOSE m \in Gets(t) : TRUE) = wid[t]
    BY <1>7
  <2>2. \A t \in Task : bpriority'[t] = IF t = x THEN IPri[x] ELSE bpriority[t]
    BY <1>1 DEF IInv, TypeOK
  <2>3. \A t \in Task : mtxlist'[t] = IF t = x THEN {} ELSE mtxlist[t] \cup Gets(t)
    BY <1>1
  <2>4. \A t \in Task : priority'[t] = IF t = x THEN IPri[t]
                                       ELSE IF Woken(t) THEN RaiseToCeiling(t, CHOOSE m \in Gets(t) : TRUE)
                                       ELSE priority[t]
    BY <1>1
  <2>5. ASSUME NEW t \in Task, Woken(t)
        PROVE  priority'[t] = RaiseToCeiling(t, wid[t]) /\ mtxlist'[t] = mtxlist[t] \cup {wid[t]}
    <3>1. t # x /\ Gets(t) = {wid[t]}
      BY <1>7, <2>5
    <3>2. (CHOOSE m \in Gets(t) : TRUE) = wid[t]
      BY <2>1, <2>5
    <3>3. priority'[t] = RaiseToCeiling(t, CHOOSE m \in Gets(t) : TRUE)
      BY <2>4, <2>5, <3>1
    <3>4. priority'[t] = RaiseToCeiling(t, wid[t])
      BY <3>2, <3>3
    <3> QED BY <2>3, <3>1, <3>4
  <2>6. ASSUME NEW t \in Task, t # x, ~Woken(t)
        PROVE  priority'[t] = priority[t] /\ mtxlist'[t] = mtxlist[t]
    <3>1. Gets(t) = {}
      BY <1>8, <2>6
    <3> QED BY <2>3, <2>4, <2>6, <3>1
  <2> QED BY <2>2, <2>3, <2>4, <2>5, <2>6
<1>11. \A y \in Task, k \in Mtx : Claimant(y, k)' <=> Claimant(y, k) /\ ~Woken(y)
  <2>1. \A y \in Task : /\ Waits(y)' <=> Waits(y) /\ y # x /\ ~Woken(y)
                        /\ y # x /\ ~Woken(y) => wid'[y] = wid[y]
    <3>1. \A y \in Task : state'[y] = IF y = x THEN "DORMANT"
                                       ELSE IF Woken(y) THEN NonWait(state[y]) ELSE state[y]
      BY <1>1
    <3>2. \A y \in Task : y # x /\ ~Woken(y) => wid'[y] = wid[y]
      BY <1>1
    <3>3. \A s : NonWait(s) \notin {"WAIT", "WAITSUS"}
      BY DEF NonWait
    <3> QED BY <1>7, <3>1, <3>2, <3>3 DEF Waits
  <2> QED BY <1>4, <1>7, <2>1
<1>12. \A y \in Task, k \in Mtx :
         /\ Claimant(y, k) => y # x
         /\ k \notin mtxlist[x] /\ Claimant(y, k) => ~Woken(y)
  BY <1>4, <1>7
<1>13. \A y \in Task, k \in Mtx :
         /\ Claimant(y, k)' => priority'[y] = priority[y]
         /\ k \notin mtxlist[x] => /\ Claimant(y, k)' <=> Claimant(y, k)
                                   /\ Claimant(y, k) => priority'[y] = priority[y]
  BY <1>10, <1>11, <1>12
<1>14. Sorted'
  <2>1. \A k \in Mtx : \A y \in Range(waitq'[k]) : priority'[y] = priority[y]
    BY <1>4, <1>5, <1>13
  <2>2. \A k \in Mtx : waitq'[k] = waitq[k] \/ waitq'[k] = QueRemove(waitq[k], waitq[k][1])
    BY <1>1
  <2> QED BY <1>1, <2>1, <2>2, SortedStep DEF PInv
<1>15. Settled'
  <2> SUFFICES ASSUME NEW u \in Task, NEW v \in Pri, (v = Target(u))'
               PROVE  Bounds(u, v)' /\ Reason(u, v)'
    BY DEF Settled
  <2>1. v = priority'[u]
    BY <1>1, <1>2 DEF Target
  <2>2. CASE u = x
    <3>1. v = bpriority'[u] /\ mtxlist'[u] = {} /\ v <= bpriority'[u]
      BY <1>10, <2>1, <2>2 DEF Pri
    <3> QED BY <3>1 DEF Bounds, Reason
  <2>3. CASE u # x
    <3>1. \A k \in mtxlist[u] : k \in Mtx /\ k \notin mtxlist[x]
      BY <1>3, <1>6, <2>3
    <3>2. \A k \in mtxlist[u] : \A y \in Task :
            /\ Claimant(y, k)' <=> Claimant(y, k)
            /\ Claimant(y, k) => priority'[y] = priority[y]
      BY <1>13, <3>1
    <3>3. CASE ~Woken(u)
      <4>1. v = priority[u] /\ mtxlist'[u] = mtxlist[u] /\ bpriority'[u] = bpriority[u]
        BY <1>10, <2>1, <2>3, <3>3
      <4> QED BY <1>1, <1>3, <3>2, <4>1, SameDue
    <3>4. CASE Woken(u)
      <4>1. PICK m \in Mtx : /\ m = wid[u] /\ m \in mtxlist[x]
                             /\ Len(waitq[m]) > 0 /\ waitq[m][1] = u
        BY <1>7, <3>4
      <4>2. /\ v = RaiseToCeiling(u, m) /\ bpriority'[u] = bpriority[u]
            /\ mtxlist'[u] = mtxlist[u] \cup {m}
        BY <1>10, <2>1, <2>3, <3>4, <4>1
      <4>3. \A y \in Task : IsInherit(m) /\ Claimant(y, m)' => priority[u] <= priority'[y]
        <5> SUFFICES ASSUME NEW y \in Task, IsInherit(m), Claimant(y, m)'
                     PROVE  priority[u] <= priority'[y]
          OBVIOUS
        <5>1. y \in Range(waitq[m]) /\ priority'[y] = priority[y]
          BY <1>4, <1>11, <1>13
        <5>2. InOrder(waitq[m], priority) /\ waitq[m] \in Seq(Task) /\ priority \in [Task -> Pri]
          BY DEF PInv, Sorted, IsInherit, IInv, TypeOK
        <5> QED BY <4>1, <5>1, <5>2, HeadHighest
      <4> QED BY <1>1, <1>3, <3>2, <4>2, <4>3, HandOver
    <3> QED BY <3>3, <3>4
  <2> QED BY <2>2, <2>3
<1>16. RaisesOnly' /\ PastDeleted'
  BY <1>1, <1>2 DEF RaisesOnly, PastDeleted
<1>17. BelowCeiling'
  <2> SUFFICES ASSUME NEW u \in Task, NEW k \in Mtx, IsCeiling(k),
                      k \in mtxlist'[u] \/ Claimant(u, k)'
               PROVE  bpriority'[u] >= mtxatr[k].ceil
    BY <1>1 DEF BelowCeiling, IsCeiling
  <2>1. u # x /\ (k \in mtxlist[u] \/ Claimant(u, k))
    BY <1>7, <1>10, <1>11, <1>12
  <2> QED BY <1>10, <2>1 DEF PInv, BelowCeiling
<1> QED BY <1>14, <1>15, <1>16, <1>17 DEF PInv
-----------------------------------------------------------------------------
(* The invariant and the theorems *)

LEMMA InitPInv == Init => PInv
<1> SUFFICES ASSUME Init PROVE PInv
  OBVIOUS
<1>1. /\ chg = NoChg /\ cont = NoCont /\ priority = IPri /\ bpriority = IPri
      /\ \A t \in Task : ~Waits(t) /\ mtxlist[t] = {}
      /\ \A m \in Mtx : waitq[m] = <<>>
  BY DEF Init, Waits
<1>2. \A t \in Task, m \in Mtx : ~Claimant(t, m)
  BY <1>1 DEF Claimant, NoCont
<1>3. Sorted
  BY <1>1 DEF Sorted, InOrder
<1>4. Settled
  BY <1>1 DEF Settled, Target, Bounds, Reason, Pri
<1>5. RaisesOnly /\ PastDeleted /\ BelowCeiling
  BY <1>1, <1>2 DEF RaisesOnly, PastDeleted, BelowCeiling
<1> QED BY <1>3, <1>4, <1>5 DEF PInv

LEMMA PNextStep ==
  ASSUME NoTerminationInDeadlock, NoDeletionInDeadlock, IInv, PInv, [Next]_vars
  PROVE  IInv' /\ PInv'
<1>0. IInv'
  BY NextStep
<1>1. CASE KernelStep
  BY <1>0, <1>1, ChainPriorities, DeleteFinishPriorities, WaitFinishPriorities,
     TerminateFinishPriorities DEF KernelStep
<1>2. CASE SystemCall
  <2>1. ASSUME NEW m \in Mtx, (\E a \in MtxAtrs : _tk_cre_mtx(m, a)) \/ _tk_del_mtx(m)
        PROVE  PInv'
    BY <1>0, <2>1, CreatePriorities, DeletePriorities
  <2>2. ASSUME NEW t \in Task, NEW m \in Mtx,
               \/ loc_mtx_get(t, m)
               \/ \E tmo \in BOOLEAN : loc_mtx_wait(t, m, tmo)
               \/ _tk_unl_mtx(t, m)
        PROVE  PInv'
    BY <1>0, <2>2, GetPriorities, WaitPriorities, UnlockPriorities
  <2>3. ASSUME NEW t \in Task, _tk_ter_tsk(t) \/ _tk_ext_tsk(t)
        PROVE  PInv'
    BY <1>0, <2>3, TerminatePriorities DEF _tk_ter_tsk, _tk_ext_tsk
  <2>4. ASSUME NEW t \in Task,
               \/ _tk_rel_wai(t) \/ _tk_dis_wai(t) \/ _tk_ena_wai(t) \/ _tk_sta_tsk(t)
               \/ _tk_rsm_tsk(t) \/ _tk_frsm_tsk(t)
               \/ \E p \in Pri : _tk_chg_pri(t, p)
               \/ \E spins \in BOOLEAN : _tk_sus_tsk(t, spins)
        PROVE  PInv'
    BY <1>0, <2>4, EndWaitPriorities, PlainPriorities, ChangePriorities
  <2> QED BY <1>0, <1>2, <2>1, <2>2, <2>3, <2>4 DEF SystemCall
<1>3. CASE TimerStep
  BY <1>0, <1>3, EndWaitPriorities DEF TimerStep
<1>4. CASE UNCHANGED vars
  <2> USE <1>4 DEF vars
  <2>1. Sorted' /\ RaisesOnly' /\ PastDeleted'
    BY DEF PInv, Sorted, RaisesOnly, PastDeleted, Waits
  <2>2. BelowCeiling'
    BY DEF PInv, BelowCeiling, IsCeiling, Claimant, Waits, Leaving
  <2>3. Settled'
    <3> SUFFICES ASSUME NEW u \in Task, NEW v \in Pri, (v = Target(u))'
                 PROVE  Bounds(u, v)' /\ Reason(u, v)'
      BY DEF Settled
    <3>1. Bounds(u, v) /\ Reason(u, v)
      BY DEF PInv, Settled, Target
    <3>2. \A y \in Task, m \in mtxlist[u] : Claimant(y, m)' <=> Claimant(y, m)
      BY DEF Claimant, Waits, Leaving
    <3> QED BY <3>1, <3>2, SameDue
  <2> QED BY <1>0, <2>1, <2>2, <2>3 DEF PInv
<1> QED BY <1>1, <1>2, <1>3, <1>4 DEF Next

(* The invariant holds in every reachable state, for every number of tasks,*)
(* mutexes and priorities, as long as tasks are not terminated and mutexes *)
(* not deleted in a deadlock.                                              *)
THEOREM PriorityInvariance ==
  ASSUME NoTerminationInDeadlock, NoDeletionInDeadlock
  PROVE  Spec => [](IInv /\ PInv)
<1>1. Init => IInv /\ PInv
  BY InitIInv, InitPInv
<1>2. IInv /\ PInv /\ [Next]_vars => IInv' /\ PInv'
  BY PNextStep
<1> QED BY <1>1, <1>2, PTL DEF Spec

(* The wait queues of TPRI, INHERIT and CEILING mutexes are in the order of*)
(* the current priorities, also after chains of changes through them.      *)
THEOREM QueuesStaySorted ==
  ASSUME NoTerminationInDeadlock, NoDeletionInDeadlock
  PROVE  Spec => []QueuesSorted
<1>1. PInv => QueuesSorted
  BY DEF PInv, Sorted, InOrder, QueuesSorted
<1> QED BY <1>1, PriorityInvariance, PTL

(* Whenever no call is in the kernel, the current priority of every task   *)
(* is what release_mutex would compute for it: the highest of its base     *)
(* priority, the ceilings of its mutexes and the first waiter of each of   *)
(* its inheritance mutexes, through any chain of waiting owners.           *)
THEOREM PrioritiesExact ==
  ASSUME NoTerminationInDeadlock, NoDeletionInDeadlock
  PROVE  Spec => []PriorityRule
<1>1. IInv /\ PInv => PriorityRule
  <2> SUFFICES ASSUME IInv, PInv, Idle, NEW t \in Task
               PROVE  priority[t] = Min(Claims(t, mtxlist[t], bpriority, priority, waitq))
    BY DEF PriorityRule
  <2>1. Bounds(t, priority[t]) /\ Reason(t, priority[t]) /\ priority[t] \in Pri
    BY PriInt DEF PInv, Settled, Target, Idle
  <2>2. \A m \in Mtx : \A y : y \in Range(waitq[m]) <=> y \in Task /\ Claimant(y, m)
    BY Queued DEF Idle, NoCont
  <2>3. \A m \in mtxlist[t] : m \in Mtx
    BY DEF IInv, TypeOK
  <2>4. Highest(t, mtxlist[t], bpriority, priority, waitq, priority[t])
    BY <2>1, <2>2, <2>3 DEF Highest, Bounds, Reason
  <2>5. \A m \in Mtx : IsInherit(m) => InOrder(waitq[m], priority)
    BY DEF PInv, Sorted, IsInherit
  <2>6. TypeOK /\ mtxlist[t] \in SUBSET Mtx /\ bpriority \in [Task -> Pri]
               /\ priority \in [Task -> Pri] /\ waitq \in [Mtx -> Seq(Task)]
    BY DEF IInv, TypeOK
  <2> QED BY <2>1, <2>4, <2>5, <2>6, HighestClaim
<1> QED BY <1>1, PriorityInvariance, PTL

(* No task holds or waits for a CEILING mutex with a base priority above   *)
(* the ceiling, whatever tk_chg_pri is asked in the meantime.              *)
THEOREM CeilingsRespected ==
  ASSUME NoTerminationInDeadlock, NoDeletionInDeadlock
  PROVE  Spec => []CeilingRespected
<1>1. PInv => CeilingRespected
  BY IdleClaims DEF PInv, BelowCeiling, CeilingRespected
<1> QED BY <1>1, PriorityInvariance, PTL
=============================================================================
