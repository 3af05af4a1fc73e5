-------------------------- MODULE DispatcherProofs --------------------------
(***************************************************************************)
(* Theorems about Dispatcher for every number of cores and tasks, every    *)
(* priority and affinity and every choice of calls.                        *)
(*                                                                         *)
(* Inv is the inductive invariant.  NoDoubleRun and StartsAfresh need to   *)
(* know that a core without a task holds NoTask.  DispatchRequested needs  *)
(* more: tk_del_tsk, tk_cre_tsk and tk_dis_dsp return without looking at   *)
(* schedtsk, so a core that spins for the lock must have been told already.*)
(*                                                                         *)
(* SafeInv adds to it what concerns deletion and the ready queue.  It needs*)
(* RotationSafe: a task that rotates its queue is not suspended while it   *)
(* spins for the lock.                                                     *)
(***************************************************************************)
EXTENDS Dispatcher, FiniteSetTheorems, SequenceTheorems, TLAPS

(* The variables that carry the argument have their types; nothing is      *)
(* needed of schedtsk, whatever ready_queue_top answers.                   *)
Shape ==
  /\ ctxtsk = [p \in Core |-> ctxtsk[p]]
  /\ pc \in [Core -> PC]
  /\ fresh \subseteq Task
  /\ \A p \in Core : ctxtsk[p] = NoTask <=> pc[p] \in {"disp", "intd"}

(* DispatchRequested, also of a core that spins for the kernel lock. *)
Told ==
  \A p \in Core :
    pc[p] \in {"task", "spin"} /\ ctxtsk[p] # schedtsk[p] => p \in ipi \/ p \in dds

Inv == Shape /\ NoDoubleRun /\ StartsAfresh /\ Told

(* At the start no core runs a task. *)
LEMMA InitInv == Init => Inv
  BY ConstAssumption DEF Init, Inv, Shape, NoDoubleRun, StartsAfresh, Told, PC

(* A critical section that ends with a look at schedtsk: every other core  *)
(* that should switch is told, and the core itself switches.               *)
LEMMA SectionStep ==
  ASSUME Inv, NEW p \in Core, NEW sf, NEW forced \in BOOLEAN,
         pc[p] \in {"spin", "int", "intd"}, forced => pc[p] = "spin",
         EndCritical(p, sf, forced),
         fresh' \subseteq fresh \cup {u \in Task : ~is_ctxtsk(u)}
  PROVE  Inv'
<1>1. \/ /\ ctxtsk' = [ctxtsk EXCEPT ![p] = NoTask]
         /\ pc' = [pc EXCEPT ![p] = "disp"]
      \/ /\ ctxtsk' = ctxtsk
         /\ pc' = Returned(p)
         /\ pc[p] = "spin" => Ctx(p) = schedtsk'[p] \/ p \in dds'
  BY DEF EndCritical, into_dsp
<1>2. ipi' = ipi \cup {q \in Core \ {p} : ctxtsk[q] # NoTask /\ ctxtsk[q] # schedtsk'[q]}
  BY DEF EndCritical, dispatch_request_other
<1>3. \A q \in Core \ {p} : ctxtsk'[q] = ctxtsk[q] /\ pc'[q] = pc[q]
  BY <1>1 DEF Inv, Shape, Returned
<1>4. \/ ctxtsk'[p] = NoTask /\ pc'[p] = "disp"
      \/ /\ ctxtsk'[p] = ctxtsk[p]
         /\ pc'[p] = IF pc[p] = "spin" THEN "task" ELSE pc[p]
         /\ pc[p] = "spin" => ctxtsk[p] = schedtsk'[p] \/ p \in dds'
  BY <1>1 DEF Inv, Shape, Returned, Ctx
<1>5. Shape'
  <2>1. ctxtsk' = [q \in Core |-> ctxtsk'[q]]
    BY <1>1 DEF Inv, Shape
  <2>2. pc' \in [Core -> PC]
    BY <1>1 DEF Inv, Shape, Returned, PC
  <2>3. fresh' \subseteq Task
    BY DEF Inv, Shape
  <2>4. \A q \in Core : ctxtsk'[q] = NoTask <=> pc'[q] \in {"disp", "intd"}
    BY <1>3, <1>4 DEF Inv, Shape
  <2> QED BY <2>1, <2>2, <2>3, <2>4 DEF Shape
<1>6. NoDoubleRun'
  BY <1>3, <1>4 DEF Inv, NoDoubleRun
<1>7. StartsAfresh'
  <2>1. NoTask \notin fresh'
    BY ConstAssumption DEF Inv, Shape
  <2>2. \A q \in Core : ctxtsk[q] \notin fresh'
    BY DEF Inv, StartsAfresh, is_ctxtsk
  <2> QED BY <1>3, <1>4, <2>1, <2>2 DEF StartsAfresh
<1>8. Told'
  <2> SUFFICES ASSUME NEW q \in Core,
                      pc'[q] \in {"task", "spin"}, ctxtsk'[q] # schedtsk'[q]
               PROVE  q \in ipi' \/ q \in dds'
    BY DEF Told
  <2>1. CASE q = p
    BY <1>4, <2>1
  <2>2. CASE q # p
    BY <1>2, <1>3, <2>2 DEF Inv, Shape
  <2> QED BY <2>1, <2>2
<1> QED BY <1>5, <1>6, <1>7, <1>8 DEF Inv

(* A critical section that returns without that look. *)
LEMMA NoDispatchStep ==
  ASSUME Inv, NEW p \in Core, pc[p] \in {"spin", "int", "intd"},
         pc' = Returned(p), dds \subseteq dds',
         UNCHANGED <<schedtsk, ctxtsk, ipi, fresh>>
  PROVE  Inv'
<1>1. \A q \in Core : \/ pc'[q] = pc[q]
                      \/ pc[q] = "spin" /\ pc'[q] = "task"
  BY DEF Inv, Shape, Returned
<1>2. pc' \in [Core -> PC]
  BY DEF Inv, Shape, Returned, PC
<1>3. Shape'
  BY <1>1, <1>2 DEF Inv, Shape
<1>4. NoDoubleRun' /\ StartsAfresh'
  BY DEF Inv, NoDoubleRun, StartsAfresh
<1>5. Told'
  BY <1>1 DEF Inv, Told
<1> QED BY <1>3, <1>4, <1>5 DEF Inv

-----------------------------------------------------------------------------
(* Every system call preserves the invariant. *)

LEMMA SystemCallInv ==
  ASSUME Inv, NEW p \in Core, SystemCall(p)
  PROVE  Inv'
<1> USE DEF ByAny, ByTask
<1> DEFINE Idle == {u \in Task : ~is_ctxtsk(u)}
<1>1. CASE NoEffect(p)
  BY <1>1, SectionStep DEF NoEffect, END_CRITICAL_SECTION
<1>2. CASE make_wait(p)
  BY <1>2, SectionStep DEF make_wait, END_CRITICAL_SECTION
<1>3. CASE _tk_ext_tsk(p)
  BY <1>3, SectionStep DEF _tk_ext_tsk, END_CRITICAL_FORCE
<1>4. CASE _tk_exd_tsk(p)
  BY <1>4, SectionStep DEF _tk_exd_tsk, END_CRITICAL_FORCE
<1>5. CASE _tk_dis_dsp(p)
  BY <1>5, NoDispatchStep DEF _tk_dis_dsp, END_CRITICAL_NO_DISPATCH
<1>6. CASE _tk_ena_dsp(p)
  BY <1>6, SectionStep DEF _tk_ena_dsp
<1>7. CASE _tk_rot_rdq(p)
  BY <1>7, SectionStep DEF _tk_rot_rdq, END_CRITICAL_SECTION
<1>8. ASSUME NEW u \in Task, make_non_wait(p, u)
      PROVE  Inv'
  BY <1>8, SectionStep DEF make_non_wait, END_CRITICAL_SECTION
<1>9. ASSUME NEW u \in Task, _tk_sus_tsk(p, u)
      PROVE  Inv'
  BY <1>9, SectionStep DEF _tk_sus_tsk, END_CRITICAL_SECTION
<1>10. ASSUME NEW u \in Task, _tk_rsm_tsk(p, u)
       PROVE  Inv'
  BY <1>10, SectionStep DEF _tk_rsm_tsk, END_CRITICAL_SECTION
<1>11. ASSUME NEW u \in Task, _tk_sta_tsk(p, u)
       PROVE  Inv'
  <2>1. fresh' \subseteq fresh \cup Idle
    BY <1>11 DEF _tk_sta_tsk
  <2> QED BY <1>11, <2>1, SectionStep DEF _tk_sta_tsk, END_CRITICAL_SECTION
<1>12. ASSUME NEW u \in Task, _tk_ter_tsk(p, u)
       PROVE  Inv'
  <2>1. fresh' \subseteq fresh
    BY <1>12 DEF _tk_ter_tsk
  <2> QED BY <1>12, <2>1, SectionStep DEF _tk_ter_tsk, END_CRITICAL_SECTION
<1>13. ASSUME NEW u \in Task, _tk_del_tsk(p, u)
       PROVE  Inv'
  BY <1>13, NoDispatchStep DEF _tk_del_tsk, END_CRITICAL_NO_DISPATCH
<1>14. ASSUME NEW u \in Task, _tk_cre_tsk(p, u)
       PROVE  Inv'
  BY <1>14, NoDispatchStep DEF _tk_cre_tsk, END_CRITICAL_NO_DISPATCH
<1> QED BY <1>1, <1>2, <1>3, <1>4, <1>5, <1>6, <1>7, <1>8, <1>9, <1>10,
           <1>11, <1>12, <1>13, <1>14 DEF SystemCall

(* So does what a core does by itself: only chk_restore gives it a task,   *)
(* one that no core holds.                                                 *)
LEMMA CoreInv ==
  ASSUME Inv, NEW p \in Core,
         \/ Enter(p) \/ ForceDispatch(p) \/ Interrupt(p) \/ TakeIPI(p)
         \/ chk_dsp(p) \/ ReturnToLoop(p) \/ chk_restore(p)
  PROVE  Inv'
<1> USE DEF Inv, PC
<1>1. CASE Enter(p)
  BY <1>1 DEF Enter, Shape, NoDoubleRun, StartsAfresh, Told
<1>2. CASE ForceDispatch(p)
  <2>1. Shape'
    BY <1>2 DEF ForceDispatch, into_dsp, Shape
  <2>2. NoDoubleRun'
    BY <1>2 DEF ForceDispatch, into_dsp, NoDoubleRun, Shape
  <2>3. StartsAfresh'
    BY <1>2, ConstAssumption DEF ForceDispatch, into_dsp, StartsAfresh, Shape
  <2>4. Told'
    BY <1>2 DEF ForceDispatch, into_dsp, Told, Shape
  <2> QED BY <2>1, <2>2, <2>3, <2>4
<1>3. CASE Interrupt(p)
  BY <1>3 DEF Interrupt, Shape, NoDoubleRun, StartsAfresh, Told
<1>4. CASE TakeIPI(p)
  BY <1>4 DEF TakeIPI, Shape, NoDoubleRun, StartsAfresh, Told
<1>5. CASE chk_dsp(p)
  <2>1. CASE p \notin dds /\ Ctx(p) # schedtsk[p]
    <3>1. Shape'
      BY <1>5, <2>1 DEF chk_dsp, into_dsp, Shape
    <3>2. NoDoubleRun'
      BY <1>5, <2>1 DEF chk_dsp, into_dsp, NoDoubleRun, Shape
    <3>3. StartsAfresh'
      BY <1>5, <2>1, ConstAssumption DEF chk_dsp, into_dsp, StartsAfresh, Shape
    <3>4. Told'
      BY <1>5, <2>1 DEF chk_dsp, into_dsp, Told, Shape
    <3> QED BY <3>1, <3>2, <3>3, <3>4
  <2>2. CASE ~(p \notin dds /\ Ctx(p) # schedtsk[p])
    BY <1>5, <2>2 DEF chk_dsp, Ctx, Shape, NoDoubleRun, StartsAfresh, Told
  <2> QED BY <2>1, <2>2
<1>6. CASE ReturnToLoop(p)
  BY <1>6 DEF ReturnToLoop, Shape, NoDoubleRun, StartsAfresh, Told
<1>7. CASE chk_restore(p)
  <2>1. Shape'
    BY <1>7 DEF chk_restore, Shape
  <2>2. NoDoubleRun'
    BY <1>7 DEF chk_restore, is_ctxtsk, NoDoubleRun, Shape
  <2>3. StartsAfresh'
    BY <1>7 DEF chk_restore, StartsAfresh, Shape
  <2>4. Told'
    BY <1>7 DEF chk_restore, Told, Shape
  <2> QED BY <2>1, <2>2, <2>3, <2>4
<1> QED BY <1>1, <1>2, <1>3, <1>4, <1>5, <1>6, <1>7

(* The invariant holds in every behaviour. *)
THEOREM Invariance == Spec => []Inv
<1>1. Init => Inv
  BY InitInv
<1>2. Inv /\ [Next]_vars => Inv'
  <2> SUFFICES ASSUME Inv, [Next]_vars PROVE Inv'
    OBVIOUS
  <2>1. CASE Next
    BY <2>1, SystemCallInv, CoreInv DEF Next
  <2>2. CASE UNCHANGED vars
    BY <2>2 DEF vars, Inv, Shape, NoDoubleRun, StartsAfresh, Told
  <2> QED BY <2>1, <2>2
<1> QED BY <1>1, <1>2, PTL DEF Spec

(* No task runs on two cores: chk_restore waits for the core that still    *)
(* holds the task's context, and nothing else gives a core a task.         *)
THEOREM RunsOnOneCore == Spec => []NoDoubleRun
<1>1. Inv => NoDoubleRun
  BY DEF Inv
<1> QED BY <1>1, Invariance, PTL

(* tk_sta_tsk never writes a start context that a core is still to save    *)
(* over: it refuses a task that is some core's ctxtsk.                     *)
THEOREM StartContextSafe == Spec => []StartsAfresh
<1>1. Inv => StartsAfresh
  BY DEF Inv
<1> QED BY <1>1, Invariance, PTL

(* dispatch_request_other forgets no core that runs a task it should not   *)
(* run, whichever call on whichever core changed the schedule.             *)
THEOREM NoMissedDispatch == Spec => []DispatchRequested
<1>1. Inv => DispatchRequested
  BY DEF Inv, Told, DispatchRequested
<1> QED BY <1>1, Invariance, PTL

-----------------------------------------------------------------------------
(* The ready queue *)

(* Removing a task from a queue without duplicates removes it altogether. *)
LEMMA WithoutLemma ==
  ASSUME NEW q \in Seq(Task), NEW t, IsInjective(q)
  PROVE  /\ Without(q, t) \in Seq(Task)
         /\ Range(Without(q, t)) = Range(q) \ {t}
         /\ IsInjective(Without(q, t))
<1>1. Len(q) \in Nat /\ DOMAIN q = 1..Len(q) /\ \A i \in 1..Len(q) : q[i] \in Task
  OBVIOUS
<1>2. CASE \A i \in 1..Len(q) : q[i] # t
  BY <1>1, <1>2 DEF Without, RemoveFirst, Range
<1>3. CASE \E i \in 1..Len(q) : q[i] = t
  <2>1. PICK k \in 1..Len(q) : q[k] = t
    BY <1>3
  <2>2. \A i \in 1..Len(q) : q[i] = t <=> i = k
    BY <1>1, <2>1 DEF IsInjective
  <2>3. Without(q, t) = RemoveAt(q, k)
    <3>1. SelectInSeq(q, LAMBDA v : v = t) = k
      <4>1. {i \in 1..Len(q) : q[i] = t} = {k}
        BY <2>2
      <4>2. Min({k}) = k
        BY DEF Min
      <4> QED BY <4>1, <4>2 DEF SelectInSeq
    <3> QED BY <3>1, <1>3 DEF Without, RemoveFirst
  <2> DEFINE a == SubSeq(q, 1, k - 1)
             b == SubSeq(q, k + 1, Len(q))
             r == a \o b
  <2>4. /\ a \in Seq(Task) /\ Len(a) = k - 1
        /\ \A i \in 1..(k - 1) : a[i] = q[i]
    BY <1>1, SubSeqProperties
  <2>5. /\ b \in Seq(Task) /\ Len(b) = Len(q) - k
        /\ \A i \in 1..(Len(q) - k) : b[i] = q[k + i]
    <3> DEFINE m == k + 1
    <3>1. m \in Int /\ Len(q) \in Int /\ \A i \in m..Len(q) : q[i] \in Task
      BY <1>1
    <3> HIDE DEF m
    <3>2. /\ SubSeq(q, m, Len(q)) \in Seq(Task)
          /\ Len(SubSeq(q, m, Len(q))) = IF m <= Len(q) THEN Len(q) - m + 1 ELSE 0
          /\ \A i \in 1..(Len(q) - m + 1) : SubSeq(q, m, Len(q))[i] = q[m + i - 1]
      BY <3>1, SubSeqProperties
    <3>3. b = SubSeq(q, m, Len(q))
      BY DEF m
    <3> HIDE DEF b
    <3>4. Len(b) = Len(q) - k
      <4>1. Len(b) = IF m <= Len(q) THEN Len(q) - m + 1 ELSE 0
        BY <3>2, <3>3
      <4>2. m = k + 1 /\ k <= Len(q) /\ k \in Int /\ Len(q) \in Int
        BY <1>1 DEF m
      <4> HIDE DEF r
      <4> QED BY <4>1, <4>2
    <3>5. ASSUME NEW i \in 1..(Len(q) - k)
          PROVE  b[i] = q[k + i]
      <4>1. i \in 1..(Len(q) - m + 1) /\ m + i - 1 = k + i
        BY <1>1 DEF m
      <4> QED BY <4>1, <3>2, <3>3
    <3> QED BY <3>2, <3>3, <3>4, <3>5
  <2> HIDE DEF a, b
  <2>6. /\ r \in Seq(Task) /\ Len(r) = Len(q) - 1
        /\ DOMAIN r = 1..(Len(q) - 1)
        /\ \A i \in 1..(Len(q) - 1) : r[i] = IF i < k THEN q[i] ELSE q[i + 1]
    <3>1. /\ r \in Seq(Task) /\ Len(r) = Len(a) + Len(b)
          /\ \A i \in 1..(Len(a) + Len(b)) :
               r[i] = IF i <= Len(a) THEN a[i] ELSE b[i - Len(a)]
      BY <2>4, <2>5, ConcatProperties
    <3> HIDE DEF r
    <3>2. Len(a) + Len(b) = Len(q) - 1
      BY <1>1, <2>4, <2>5
    <3>3. ASSUME NEW i \in 1..(Len(q) - 1)
          PROVE  r[i] = IF i < k THEN q[i] ELSE q[i + 1]
      <4>1. CASE i < k
        BY <4>1, <1>1, <2>4, <3>1, <3>2
      <4>2. CASE i >= k
        <5>1. r[i] = b[i - (k - 1)] /\ i - (k - 1) \in 1..(Len(q) - k)
          BY <4>2, <1>1, <2>4, <3>1, <3>2
        <5> QED BY <5>1, <4>2, <2>5, <1>1
      <4> QED BY <4>1, <4>2
    <3> QED BY <3>1, <3>2, <3>3, LenProperties
  <2>7. Without(q, t) = r
    BY <2>3 DEF RemoveAt, a, b
  <2> HIDE DEF r
  <2>8. Range(r) = Range(q) \ {t}
    <3>1. \A i \in 1..(Len(q) - 1) : r[i] \in Range(q) \ {t}
      BY <1>1, <2>2, <2>6 DEF Range
    <3>2. ASSUME NEW i \in 1..Len(q), q[i] # t
          PROVE  q[i] \in Range(r)
      <4>1. CASE i < k
        BY <4>1, <1>1, <2>6 DEF Range
      <4>2. CASE i > k
        <5>1. r[i - 1] = q[i] /\ i - 1 \in DOMAIN r
          BY <4>2, <1>1, <2>6
        <5> QED BY <5>1 DEF Range
      <4> QED BY <4>1, <4>2, <3>2, <2>1
    <3> QED BY <3>1, <3>2, <1>1, <2>6 DEF Range
  <2>9. IsInjective(r)
    BY <1>1, <2>6 DEF IsInjective
  <2> QED BY <2>6, <2>7, <2>8, <2>9
<1> QED BY <1>2, <1>3

(* Before and UpTo are positions in the queue. *)
LEMMA CountLemma ==
  ASSUME NEW q \in Seq(Task), NEW t
  PROVE  Before(q, t) \in 0..Len(q) /\ UpTo(q, t) \in 0..Len(q)
<1>1. Len(q) \in Nat /\ DOMAIN q = 1..Len(q)
  OBVIOUS
<1>2. IsFiniteSet(1..Len(q)) /\ Cardinality(1..Len(q)) = Len(q)
  BY <1>1, FS_Interval
<1>3. \A K \in SUBSET (1..Len(q)) : Cardinality(K) \in 0..Len(q)
  <2> SUFFICES ASSUME NEW K \in SUBSET (1..Len(q)) PROVE Cardinality(K) \in 0..Len(q)
    OBVIOUS
  <2>1. IsFiniteSet(K) /\ Cardinality(K) <= Len(q)
    BY <1>2, FS_Subset
  <2>2. Cardinality(K) \in Nat
    BY <2>1, FS_CardinalityType
  <2> QED BY <1>1, <2>1, <2>2
<1> QED BY <1>1, <1>3 DEF Before, UpTo

(* The queue of a priority is a sequence of tasks. *)
LEMMA QueueLemma ==
  ASSUME NEW q \in Seq(Task), NEW t
  PROVE  Queue(q, t) \in Seq(Task)
<1>1. Len(q) \in Nat /\ \A i \in 1..Len(q) : q[i] \in Task
  OBVIOUS
<1> DEFINE m == Before(q, t) + 1
           n == UpTo(q, t)
<1>2. m \in 1..(Len(q) + 1) /\ n \in 0..Len(q)
  BY <1>1, CountLemma
<1> HIDE DEF m, n
<1>3. \A i \in m..n : q[i] \in Task
  BY <1>1, <1>2
<1> QED BY <1>2, <1>3, SubSeqProperties DEF Queue, m, n

(* A task that was not in the queue is in it once. *)
LEMMA InsertedLemma ==
  ASSUME NEW q \in Seq(Task), NEW t \in Task, IsInjective(q), t \notin Range(q)
  PROVE  /\ Inserted(q, t) \in Seq(Task)
         /\ Range(Inserted(q, t)) = Range(q) \cup {t}
         /\ IsInjective(Inserted(q, t))
<1>1. Len(q) \in Nat /\ DOMAIN q = 1..Len(q) /\ \A i \in 1..Len(q) : q[i] \in Task
  OBVIOUS
<1> DEFINE k == UpTo(q, t) + 1
           a == SubSeq(q, 1, k - 1)
           b == SubSeq(q, k, Len(q))
           r == (a \o <<t>>) \o b
<1>2. k \in 1..(Len(q) + 1)
  BY <1>1, CountLemma
<1>3. Inserted(q, t) = r
  BY DEF Inserted, InsertAt
<1> HIDE DEF k
<1>4. /\ a \in Seq(Task) /\ Len(a) = k - 1
      /\ \A i \in 1..(k - 1) : a[i] = q[i]
  BY <1>1, <1>2, SubSeqProperties
<1>5. /\ b \in Seq(Task) /\ Len(b) = Len(q) - k + 1
      /\ \A i \in 1..(Len(q) - k + 1) : b[i] = q[k + i - 1]
  BY <1>1, <1>2, SubSeqProperties
<1> HIDE DEF a, b
<1>6. /\ a \o <<t>> \in Seq(Task) /\ Len(a \o <<t>>) = k
      /\ \A i \in 1..k : (a \o <<t>>)[i] = IF i < k THEN q[i] ELSE t
  <2>1. <<t>> \in Seq(Task) /\ Len(<<t>>) = 1 /\ <<t>>[1] = t
    OBVIOUS
  <2>2. /\ a \o <<t>> \in Seq(Task) /\ Len(a \o <<t>>) = Len(a) + Len(<<t>>)
        /\ \A i \in 1..(Len(a) + Len(<<t>>)) :
             (a \o <<t>>)[i] = IF i <= Len(a) THEN a[i] ELSE <<t>>[i - Len(a)]
    BY <1>4, <2>1, ConcatProperties
  <2> QED BY <1>1, <1>2, <1>4, <2>1, <2>2
<1>7. /\ r \in Seq(Task) /\ DOMAIN r = 1..(Len(q) + 1)
      /\ \A i \in 1..(Len(q) + 1) :
           r[i] = IF i < k THEN q[i] ELSE IF i = k THEN t ELSE q[i - 1]
  <2> DEFINE c == a \o <<t>>
  <2>1. c \in Seq(Task) /\ Len(c) = k /\ \A i \in 1..k : c[i] = IF i < k THEN q[i] ELSE t
    BY <1>6
  <2> HIDE DEF c
  <2>2. /\ c \o b \in Seq(Task) /\ Len(c \o b) = Len(c) + Len(b)
        /\ \A i \in 1..(Len(c) + Len(b)) :
             (c \o b)[i] = IF i <= Len(c) THEN c[i] ELSE b[i - Len(c)]
    BY <2>1, <1>5, ConcatProperties
  <2>3. r = c \o b
    BY DEF c
  <2> HIDE DEF r
  <2>4. Len(c) + Len(b) = Len(q) + 1
    BY <1>1, <1>2, <1>5, <2>1
  <2>5. ASSUME NEW i \in 1..(Len(q) + 1)
        PROVE  r[i] = IF i < k THEN q[i] ELSE IF i = k THEN t ELSE q[i - 1]
    <3>1. CASE i <= k
      BY <3>1, <1>1, <1>2, <2>1, <2>2, <2>3, <2>4
    <3>2. CASE i > k
      <4>1. r[i] = b[i - k] /\ i - k \in 1..(Len(q) - k + 1)
        BY <3>2, <1>1, <1>2, <2>1, <2>2, <2>3, <2>4
      <4> QED BY <4>1, <3>2, <1>5, <1>1, <1>2
    <3> QED BY <3>1, <3>2, <1>2
  <2> QED BY <2>2, <2>3, <2>4, <2>5, LenProperties
<1> HIDE DEF r
<1>8. Range(r) = Range(q) \cup {t}
  <2>1. \A i \in 1..(Len(q) + 1) : r[i] \in Range(q) \cup {t}
    BY <1>1, <1>2, <1>7 DEF Range
  <2>2. ASSUME NEW i \in 1..Len(q)
        PROVE  q[i] \in Range(r)
    <3>1. CASE i < k
      BY <3>1, <1>1, <1>7 DEF Range
    <3>2. CASE i >= k
      <4>1. r[i + 1] = q[i] /\ i + 1 \in DOMAIN r
        BY <3>2, <1>1, <1>2, <1>7
      <4> QED BY <4>1 DEF Range
    <3> QED BY <3>1, <3>2, <1>1, <1>2
  <2>3. t \in Range(r)
    BY <1>1, <1>2, <1>7 DEF Range
  <2> QED BY <2>1, <2>2, <2>3, <1>1, <1>7 DEF Range
<1>9. IsInjective(r)
  <2>1. \A i, j \in 1..Len(q) : q[i] = q[j] => i = j
    BY <1>1 DEF IsInjective
  <2>2. \A i \in 1..Len(q) : q[i] # t
    BY <1>1 DEF Range
  <2>3. ASSUME NEW i \in 1..(Len(q) + 1), NEW j \in 1..(Len(q) + 1), r[i] = r[j]
        PROVE  i = j
    <3>1. \A x \in 1..(Len(q) + 1) :
            x = k \/ (x < k /\ r[x] = q[x] /\ x \in 1..Len(q))
                  \/ (x > k /\ r[x] = q[x - 1] /\ x - 1 \in 1..Len(q))
      BY <1>1, <1>2, <1>7
    <3>2. r[k] = t
      BY <1>1, <1>2, <1>7
    <3> QED BY <3>1, <3>2, <2>1, <2>2, <2>3, <1>1, <1>2
  <2> QED BY <2>3, <1>7 DEF IsInjective
<1> QED BY <1>3, <1>7, <1>8, <1>9

(* The schedule that ready_queue_top answers gives tasks of the queue to   *)
(* the cores, each to at most one.                                         *)
LEMMA TopLemma ==
  ASSUME NEW q, NEW d, NEW sch \in ready_queue_top(q, d)
  PROVE  /\ sch \in [Core -> Range(q) \cup {NoTask}]
         /\ \A x, y \in Core : sch[x] = sch[y] /\ sch[x] # NoTask => x = y
  BY DEF ready_queue_top, S!Schedules, S!Core, Core, S!Range, Range

-----------------------------------------------------------------------------
(* Suspended tasks and the rotation of queues do not go together: run      *)
(* DispatchRotate shows what a suspended task does that rotates a queue it *)
(* is in no more.                                                          *)
RotationSafe == "rot_rdq" \notin Calls \/ "sus_tsk" \notin Calls

(* A task that waits has left its core by the end of the critical section  *)
(* that made it wait; one that is suspended may still be on its way.       *)
WaitersLeft ==
  \A p \in Core : ctxtsk[p] # NoTask => state[ctxtsk[p]] \notin {"WAIT", "WAITSUS"}

NoneSuspended ==
  "sus_tsk" \notin Calls => \A t \in Task : state[t] \notin {"SUSPEND", "WAITSUS"}

SafeInv ==
  /\ Inv /\ TypeOK
  /\ DeletedOnce /\ ScheduledReady
  /\ WaitersLeft /\ NoneSuspended

(* At the start InitTask is ready and no core runs it yet. *)
LEMMA InitSafe == Init => SafeInv
<1> SUFFICES ASSUME Init PROVE SafeInv
  OBVIOUS
<1>1. Inv
  BY InitInv
<1>2. /\ ready \in Seq(Task) /\ IsInjective(ready) /\ Range(ready) = {InitTask}
  BY ConstAssumption DEF Init, IsInjective, Range
<1>3. schedtsk \in [Core -> {InitTask} \cup {NoTask}]
  <2>1. schedtsk \in ready_queue_top(ready, dds)
    BY DEF Init
  <2> QED BY <2>1, <1>2, TopLemma
<1>4. state \in [Task -> States]
  BY DEF Init, States
<1>5. TypeOK
  BY <1>1, <1>2, <1>3, <1>4, ConstAssumption DEF TypeOK, Init, Inv, Shape
<1>6. ScheduledReady
  BY <1>2, <1>3, ConstAssumption DEF Init, ScheduledReady
<1>7. DeletedOnce
  BY ConstAssumption DEF Init, DeletedOnce, is_ctxtsk
<1>8. WaitersLeft /\ NoneSuspended
  BY DEF Init, WaitersLeft, NoneSuspended
<1> QED BY <1>1, <1>5, <1>6, <1>7, <1>8 DEF SafeInv

(* The new schedule holds READY tasks if the new queue holds them.         *)
LEMMA ScheduleStep ==
  ASSUME SafeInv, ready' \in Seq(Task), IsInjective(ready'),
         Range(ready') = {t \in Task : state'[t] = "READY"},
         update_schedtsk(ready', dds') \/ schedtsk' \in ready_queue_top(ready', dds')
  PROVE  schedtsk' \in [Core -> Task \cup {NoTask}] /\ ScheduledReady'
<1>1. schedtsk' \in [Core -> Range(ready') \cup {NoTask}]
  <2>1. CASE schedtsk' \in ready_queue_top(ready', dds')
    BY <2>1, TopLemma
  <2>2. CASE ready' = ready /\ schedtsk' = schedtsk
    <3>1. schedtsk \in [Core -> Task \cup {NoTask}]
      BY DEF SafeInv, TypeOK
    <3>2. \A x \in Core : schedtsk[x] # NoTask => schedtsk[x] \in Range(ready)
      BY <3>1 DEF SafeInv, ScheduledReady
    <3> QED BY <2>2, <3>1, <3>2
  <2> QED BY <2>1, <2>2 DEF update_schedtsk
<1>2. schedtsk' \in [Core -> Task \cup {NoTask}]
  BY <1>1
<1> QED BY <1>1, <1>2 DEF ScheduledReady

(* A critical section frees the control block of a deleted task when the   *)
(* task leaves its core, and only then.                                    *)
LEMMA FreeStep ==
  ASSUME SafeInv, NEW p \in Core, NEW sf \in SUBSET Task, NEW forced \in BOOLEAN,
         pc[p] \in {"spin", "int", "intd"}, forced => pc[p] = "spin",
         EndCritical(p, sf, forced),
         \A t \in sf : is_ctxtsk(t) /\ t \notin free,
         \A t \in Task : state'[t] = "NONEXIST" <=> t \in free \cup sf
  PROVE  DeletedOnce' /\ free' \subseteq Task /\ stkfree' \subseteq Task
<1>1. /\ free \subseteq Task /\ NoTask \notin Task
      /\ \A x \in Core : ctxtsk[x] \notin free
      /\ ctxtsk \in [Core -> Task \cup {NoTask}]
  BY ConstAssumption DEF SafeInv, TypeOK, DeletedOnce
<1>2. CASE into_dsp(p, sf) /\ pc[p] = "spin"
  <2>1. /\ ctxtsk' = [ctxtsk EXCEPT ![p] = NoTask]
        /\ free' = free \cup (sf \cap {ctxtsk[p]})
        /\ stkfree' = sf \ {ctxtsk[p]}
    BY <1>2 DEF into_dsp, Ctx
  <2>2. \A x \in Core \ {p} : ctxtsk'[x] = ctxtsk[x] /\ ctxtsk[x] # ctxtsk[p]
    <3>1. ctxtsk[p] # NoTask
      BY <1>2 DEF SafeInv, TypeOK
    <3> QED BY <1>1, <2>1, <3>1 DEF SafeInv, Inv, NoDoubleRun
  <2>3. ctxtsk'[p] = NoTask
    BY <1>1, <2>1
  <2>4. \A x \in Core : ctxtsk'[x] \notin free'
    BY <1>1, <2>1, <2>2, <2>3
  <2>5. \A t \in stkfree' : is_ctxtsk(t)' /\ t \notin free'
    BY <2>1, <2>2 DEF is_ctxtsk
  <2>6. free' \cup stkfree' = free \cup sf
    BY <2>1
  <2> QED BY <1>1, <2>1, <2>4, <2>5, <2>6 DEF DeletedOnce
<1>3. CASE stkfree' = sf /\ UNCHANGED <<ctxtsk, free>>
  BY <1>1, <1>3 DEF DeletedOnce, is_ctxtsk
<1> QED BY <1>2, <1>3 DEF EndCritical

(* A critical section that leaves a proper queue behind. *)
LEMMA SafeStep ==
  ASSUME SafeInv, NEW p \in Core, NEW sf \in SUBSET Task, NEW forced \in BOOLEAN,
         pc[p] \in {"spin", "int", "intd"}, forced => pc[p] = "spin",
         ready' \in Seq(Task), IsInjective(ready'),
         Range(ready') = {t \in Task : state'[t] = "READY"},
         update_schedtsk(ready', dds') \/ schedtsk' \in ready_queue_top(ready', dds'),
         EndCritical(p, sf, forced),
         dds' \subseteq Core,
         state' \in [Task -> States],
         tskque' \in [Task -> Seq(Task)],
         fresh' \subseteq fresh \cup {u \in Task : ~is_ctxtsk(u)},
         \A t \in sf : is_ctxtsk(t) /\ t \notin free,
         \A t \in Task : state'[t] = "NONEXIST" <=> t \in free \cup sf,
         NoneSuspended',
         \A x \in Core : ctxtsk[x] # NoTask /\ state'[ctxtsk[x]] \in {"WAIT", "WAITSUS"}
                           => x = p /\ pc[p] = "spin" /\ p \notin dds'
  PROVE  SafeInv'
<1>1. Inv'
  BY SectionStep DEF SafeInv
<1>2. schedtsk' \in [Core -> Task \cup {NoTask}] /\ ScheduledReady'
  BY ScheduleStep
<1>3. DeletedOnce' /\ free' \subseteq Task /\ stkfree' \subseteq Task
  BY FreeStep
<1>4. ctxtsk \in [Core -> Task \cup {NoTask}] /\ ipi \subseteq Core /\ fresh \subseteq Task
  BY DEF SafeInv, TypeOK
<1>5. ctxtsk' \in [Core -> Task \cup {NoTask}]
  BY <1>4 DEF EndCritical, into_dsp
<1>6. ipi' \subseteq Core
  BY <1>4 DEF EndCritical, dispatch_request_other
<1>7. TypeOK'
  BY <1>1, <1>2, <1>3, <1>4, <1>5, <1>6 DEF TypeOK, Inv, Shape
<1>8. WaitersLeft'
  <2> SUFFICES ASSUME NEW x \in Core, ctxtsk'[x] # NoTask,
                      state'[ctxtsk'[x]] \in {"WAIT", "WAITSUS"}
               PROVE  FALSE
    BY DEF WaitersLeft
  <2>1. ctxtsk'[x] = ctxtsk[x]
    BY <1>4 DEF EndCritical, into_dsp
  <2>2. x = p /\ pc[p] = "spin" /\ p \notin dds'
    BY <2>1
  <2>3. schedtsk'[p] # ctxtsk[p]
    BY <1>2, <2>1, <2>2 DEF ScheduledReady
  <2>4. into_dsp(p, sf)
    BY <2>2, <2>3 DEF EndCritical, Ctx
  <2> QED BY <1>4, <2>2, <2>4 DEF into_dsp
<1> QED BY <1>1, <1>2, <1>3, <1>7, <1>8 DEF SafeInv

-----------------------------------------------------------------------------
(* What the cases below use of SafeInv. *)
LEMMA Known ==
  ASSUME SafeInv
  PROVE  /\ state \in [Task -> States] /\ ready \in Seq(Task) /\ IsInjective(ready)
         /\ Range(ready) = {t \in Task : state[t] = "READY"}
         /\ tskque \in [Task -> Seq(Task)]
         /\ stkfree \in SUBSET Task /\ free \subseteq Task
         /\ dds \subseteq Core /\ fresh \subseteq Task
         /\ ctxtsk \in [Core -> Task \cup {NoTask}]
         /\ \A t \in stkfree : is_ctxtsk(t) /\ t \notin free
         /\ \A t \in Task : state[t] = "NONEXIST" <=> t \in free \cup stkfree
         /\ \A x \in Core : ctxtsk[x] # NoTask =>
              ctxtsk[x] \in Task /\ state[ctxtsk[x]] \notin {"WAIT", "WAITSUS"}
         /\ \A x \in Core : pc[x] \in {"spin", "int"} => ctxtsk[x] \in Task
         /\ \A x, y \in Core : ctxtsk[x] = ctxtsk[y] /\ x # y => ctxtsk[x] = NoTask
         /\ "sus_tsk" \notin Calls => \A t \in Task : state[t] \notin {"SUSPEND", "WAITSUS"}
  BY DEF SafeInv, TypeOK, ScheduledReady, DeletedOnce, WaitersLeft, NoneSuspended,
         Inv, NoDoubleRun

(* A call that changes the state of task u only, which stays existent,     *)
(* does not start to wait and is suspended only if tk_sus_tsk is in use.   *)
LEMMA OneTaskStep ==
  ASSUME SafeInv, NEW p \in Core, NEW u \in Task,
         pc[p] \in {"spin", "int", "intd"},
         state' \in [Task -> States], \A t \in Task \ {u} : state'[t] = state[t],
         state[u] # "NONEXIST" /\ state'[u] # "NONEXIST",
         state'[u] \in {"WAIT", "WAITSUS"} =>
           \A x \in Core : ctxtsk[x] = u => x = p /\ pc[p] = "spin" /\ p \notin dds',
         state'[u] \in {"SUSPEND", "WAITSUS"} =>
           "sus_tsk" \in Calls \/ state[u] \in {"SUSPEND", "WAITSUS"},
         ready' \in Seq(Task) /\ IsInjective(ready'),
         Range(ready') = IF state'[u] = "READY" THEN Range(ready) \cup {u}
                                                ELSE Range(ready) \ {u},
         END_CRITICAL_SECTION(p, ready', dds') /\ dds' \subseteq Core,
         tskque' \in [Task -> Seq(Task)],
         fresh' \subseteq fresh \cup {t \in Task : ~is_ctxtsk(t)}
  PROVE  SafeInv'
<1> USE Known
<1>1. \A t \in Task : state'[t] = "NONEXIST" <=> t \in free \cup stkfree
  OBVIOUS
<1>2. Range(ready') = {t \in Task : state'[t] = "READY"}
  OBVIOUS
<1>3. update_schedtsk(ready', dds') /\ EndCritical(p, stkfree, FALSE)
  BY DEF END_CRITICAL_SECTION
<1>4. NoneSuspended'
  BY DEF NoneSuspended
<1>5. \A x \in Core : ctxtsk[x] # NoTask /\ state'[ctxtsk[x]] \in {"WAIT", "WAITSUS"}
                        => x = p /\ pc[p] = "spin" /\ p \notin dds'
  OBVIOUS
<1> QED BY <1>1, <1>2, <1>3, <1>4, <1>5, SafeStep

(* A call that leaves the states of the tasks alone. *)
LEMMA SameStatesStep ==
  ASSUME SafeInv, NEW p \in Core,
         pc[p] \in {"spin", "int", "intd"},
         ready' \in Seq(Task), IsInjective(ready'), Range(ready') = Range(ready),
         update_schedtsk(ready', dds') \/ schedtsk' \in ready_queue_top(ready', dds'),
         EndCritical(p, stkfree, FALSE),
         dds' \subseteq Core,
         UNCHANGED <<state, fresh, tskque>>
  PROVE  SafeInv'
<1> USE Known
<1>1. NoneSuspended'
  BY DEF NoneSuspended
<1>2. \A x \in Core : ctxtsk[x] # NoTask /\ state'[ctxtsk[x]] \in {"WAIT", "WAITSUS"}
                        => x = p /\ pc[p] = "spin" /\ p \notin dds'
  OBVIOUS
<1> QED BY <1>1, <1>2, SafeStep

(* A call that ends its task, s being NONEXIST if it deletes it as well.   *)
LEMMA ExitStep ==
  ASSUME SafeInv, NEW p \in Core, NEW s \in {"DORMANT", "NONEXIST"}, NEW sf,
         ByTask(p),
         state' = [state EXCEPT ![Ctx(p)] = s],
         sf = stkfree \cup (IF s = "NONEXIST" THEN {Ctx(p)} ELSE {}),
         END_CRITICAL_FORCE(p, Without(ready, Ctx(p)), dds \ {p}, sf),
         Unlinked(Ctx(p)),
         UNCHANGED fresh
  PROVE  SafeInv'
<1> USE Known
<1> DEFINE t == Ctx(p)
           q == Without(ready, t)
<1>1. pc[p] = "spin" /\ t \in Task /\ state[t] \notin {"DORMANT", "NONEXIST"}
  BY DEF ByTask, Ctx
<1>2. q \in Seq(Task) /\ IsInjective(q) /\ Range(q) = Range(ready) \ {t}
  BY WithoutLemma
<1>3. /\ state' \in [Task -> States]
      /\ \A u \in Task : state'[u] = IF u = t THEN s ELSE state[u]
  BY <1>1 DEF States
<1>4. /\ ready' = q /\ dds' \subseteq Core /\ update_schedtsk(ready', dds')
      /\ EndCritical(p, sf, TRUE)
  BY DEF END_CRITICAL_FORCE
<1>5. is_ctxtsk(t)
  BY DEF is_ctxtsk, Ctx
<1> HIDE DEF q
<1>6. /\ ready' \in Seq(Task) /\ IsInjective(ready')
      /\ Range(ready') = {u \in Task : state'[u] = "READY"}
  BY <1>2, <1>3, <1>4
<1>7. /\ sf \in SUBSET Task
      /\ \A u \in sf : is_ctxtsk(u) /\ u \notin free
      /\ \A u \in Task : state'[u] = "NONEXIST" <=> u \in free \cup sf
  BY <1>1, <1>3, <1>5
<1>8. NoneSuspended'
  BY <1>3 DEF NoneSuspended
<1>9. \A x \in Core : ctxtsk[x] # NoTask /\ state'[ctxtsk[x]] \in {"WAIT", "WAITSUS"}
                        => x = p /\ pc[p] = "spin" /\ p \notin dds'
  BY <1>3
<1>10. tskque' \in [Task -> Seq(Task)]
  BY <1>1 DEF Unlinked
<1>11. fresh' \subseteq fresh \cup {u \in Task : ~is_ctxtsk(u)}
  OBVIOUS
<1> HIDE Known
<1> QED BY <1>1, <1>3, <1>4, <1>6, <1>7, <1>8, <1>9, <1>10, <1>11, SafeStep, ZenonT(60)

(* Deleting and creating a task: nothing but the states of tasks that are  *)
(* not ready, free and stkfree changes.                                    *)
LEMMA NoDispatchSafe ==
  ASSUME SafeInv, NEW p \in Core, pc[p] \in {"spin", "int", "intd"},
         NEW u \in Task, NEW s \in {"DORMANT", "NONEXIST"},
         state[u] \in {"DORMANT", "NONEXIST"},
         state' = [state EXCEPT ![u] = s],
         END_CRITICAL_NO_DISPATCH(p),
         UNCHANGED <<dds, fresh, tskque>>,
         DeletedOnce', free' \subseteq Task, stkfree' \subseteq Task
  PROVE  SafeInv'
<1>1. Inv'
  BY NoDispatchStep DEF SafeInv, END_CRITICAL_NO_DISPATCH
<1>2. /\ state' \in [Task -> States]
      /\ \A t \in Task : state'[t] = IF t = u THEN s ELSE state[t]
  BY DEF SafeInv, TypeOK, States
<1>3. UNCHANGED <<ready, schedtsk, ctxtsk, ipi>>
  BY DEF END_CRITICAL_NO_DISPATCH
<1>4. TypeOK'
  BY <1>1, <1>2, <1>3 DEF SafeInv, TypeOK, Inv, Shape
<1>5. ScheduledReady'
  <2>1. {t \in Task : state'[t] = "READY"} = {t \in Task : state[t] = "READY"}
    BY <1>2
  <2> QED BY <1>2, <1>3, <2>1 DEF SafeInv, ScheduledReady, TypeOK
<1>6. WaitersLeft'
  BY <1>2, <1>3 DEF SafeInv, WaitersLeft, TypeOK
<1>7. NoneSuspended'
  BY <1>2 DEF SafeInv, NoneSuspended
<1> QED BY <1>1, <1>4, <1>5, <1>6, <1>7 DEF SafeInv

-----------------------------------------------------------------------------
(* Every system call, from a task or from a handler, keeps SafeInv.  Most  *)
(* change one task and are instances of OneTaskStep or SameStatesStep.     *)
LEMMA SystemCallSafe ==
  ASSUME RotationSafe, SafeInv, NEW p \in Core, SystemCall(p)
  PROVE  SafeInv'
<1>k. /\ state \in [Task -> States] /\ ready \in Seq(Task) /\ IsInjective(ready)
      /\ Range(ready) = {t \in Task : state[t] = "READY"}
      /\ tskque \in [Task -> Seq(Task)] /\ dds \subseteq Core
  BY Known
<1>c. /\ \A x \in Core : ctxtsk[x] # NoTask =>
           ctxtsk[x] \in Task /\ state[ctxtsk[x]] \notin {"WAIT", "WAITSUS"}
      /\ \A x, y \in Core : ctxtsk[x] = ctxtsk[y] /\ x # y => ctxtsk[x] = NoTask
      /\ NoTask \notin Task
  BY Known, ConstAssumption
<1>f. UNCHANGED fresh => fresh' \subseteq fresh \cup {t \in Task : ~is_ctxtsk(t)}
  OBVIOUS
<1>e. \A q, d : END_CRITICAL_SECTION(p, q, d) =>
        ready' = q /\ dds' = d /\ END_CRITICAL_SECTION(p, ready', dds')
  BY DEF END_CRITICAL_SECTION
<1>s. \A t \in Task, s \in States : state' = [state EXCEPT ![t] = s] =>
        /\ state' \in [Task -> States] /\ state'[t] = s
        /\ \A x \in Task \ {t} : state'[x] = state[x]
  BY <1>k
<1>S. {"DORMANT", "READY", "WAIT", "SUSPEND", "WAITSUS"} \subseteq States
  BY DEF States
<1>pc. ByAny(p) => pc[p] \in {"spin", "int", "intd"}
  BY DEF ByAny, ByTask
<1>t. ByTask(p) => pc[p] = "spin" /\ Ctx(p) \in Task /\ state[Ctx(p)] \in {"READY", "SUSPEND"}
  <2>1. ASSUME ByTask(p)
        PROVE  pc[p] = "spin" /\ Ctx(p) \in Task
    BY <2>1, Known DEF ByTask, Ctx
  <2>2. ASSUME ByTask(p)
        PROVE  state[Ctx(p)] \in {"READY", "SUSPEND"}
    <3>1. state[Ctx(p)] \in States \ {"DORMANT", "NONEXIST", "WAIT", "WAITSUS"}
      BY <2>1, <2>2, <1>k, <1>c DEF ByTask, Ctx
    <3> QED BY <3>1 DEF States
  <2> QED BY <2>1, <2>2
<1>w. \A t \in Task : /\ Without(ready, t) \in Seq(Task)
                      /\ Range(Without(ready, t)) = Range(ready) \ {t}
                      /\ IsInjective(Without(ready, t))
  BY <1>k, WithoutLemma
<1>i. \A t \in Task : state[t] # "READY" =>
        /\ Inserted(ready, t) \in Seq(Task)
        /\ Range(Inserted(ready, t)) = Range(ready) \cup {t}
        /\ IsInjective(Inserted(ready, t))
  BY <1>k, InsertedLemma
<1>u. \A t \in Task : Unlinked(t) => tskque' \in [Task -> Seq(Task)]
  BY <1>k DEF Unlinked
<1>1. CASE NoEffect(p)
  <2>1. /\ pc[p] = "spin" /\ ready' = ready /\ dds' = dds /\ update_schedtsk(ready', dds')
        /\ EndCritical(p, stkfree, FALSE) /\ UNCHANGED <<state, fresh, tskque>>
    BY <1>1, <1>t DEF NoEffect, END_CRITICAL_SECTION
  <2>2. pc[p] \in {"spin", "int", "intd"} /\ dds' \subseteq Core
    BY <2>1, <1>k
  <2>3. ready \in Seq(Task) /\ IsInjective(ready) /\ Range(ready) = Range(ready)
    BY <1>k
  <2> QED BY <2>1, <2>2, <2>3, SameStatesStep
<1>2. CASE make_wait(p)
  <2> DEFINE t == Ctx(p)
             s == IF state[t] = "READY" THEN "WAIT" ELSE "WAITSUS"
             q == Without(ready, t)
  <2>1. /\ t \in Task /\ pc[p] = "spin" /\ state[t] \in {"READY", "SUSPEND"}
        /\ p \notin dds /\ END_CRITICAL_SECTION(p, q, dds)
        /\ Unlinked(t) /\ UNCHANGED fresh
    BY <1>2, <1>t DEF make_wait
  <2>2. state' = [state EXCEPT ![t] = s]
    BY <1>2, <2>1 DEF make_wait
  <2>3. \A x \in Core : ctxtsk[x] = t => x = p
    BY <2>1, <1>c DEF Ctx
  <2>4. tskque' \in [Task -> Seq(Task)]
    BY <2>1, <1>u
  <2>5. q \in Seq(Task) /\ Range(q) = Range(ready) \ {t} /\ IsInjective(q)
    BY <2>1, <1>w
  <2>6. /\ s \in {"WAIT", "WAITSUS"} /\ s \in States
        /\ s = "WAITSUS" => state[t] = "SUSPEND"
    BY <2>1 DEF States
  <2>7. /\ ready' = q /\ dds' = dds /\ dds' \subseteq Core
        /\ END_CRITICAL_SECTION(p, ready', dds')
    BY <2>1, <1>e, <1>k
  <2>8. /\ state' \in [Task -> States] /\ state'[t] = s
        /\ \A x \in Task \ {t} : state'[x] = state[x]
    BY <2>1, <2>2, <2>6, <1>s
  <2> HIDE DEF q, s, t
  <2> QED BY <2>1, <2>3, <2>4, <2>5, <2>6, <2>7, <2>8, <1>f, OneTaskStep
<1>3. CASE _tk_ext_tsk(p)
  BY <1>3, ExitStep DEF _tk_ext_tsk
<1>4. CASE _tk_exd_tsk(p)
  BY <1>4, ExitStep DEF _tk_exd_tsk
<1>5. CASE _tk_dis_dsp(p)
  <2>1. /\ pc[p] = "spin" /\ END_CRITICAL_NO_DISPATCH(p)
        /\ dds \subseteq dds' /\ dds' \subseteq Core
        /\ UNCHANGED <<state, stkfree, free, fresh, tskque>>
    BY <1>5, <1>t, <1>k DEF _tk_dis_dsp
  <2>2. Inv'
    BY <2>1, NoDispatchStep DEF SafeInv, END_CRITICAL_NO_DISPATCH
  <2>3. UNCHANGED <<ready, schedtsk, ctxtsk, ipi>>
    BY <2>1 DEF END_CRITICAL_NO_DISPATCH
  <2> QED BY <2>1, <2>2, <2>3 DEF SafeInv, TypeOK, Inv, Shape, DeletedOnce, is_ctxtsk,
             ScheduledReady, WaitersLeft, NoneSuspended
<1>6. CASE _tk_ena_dsp(p)
  <2>1. /\ pc[p] = "spin" /\ dds' \subseteq Core /\ EndCritical(p, stkfree, FALSE)
        /\ UNCHANGED <<state, ready, fresh, tskque>>
    BY <1>6, <1>t, <1>k DEF _tk_ena_dsp
  <2>2. schedtsk' \in ready_queue_top(ready', dds')
    BY <1>6 DEF _tk_ena_dsp
  <2> QED BY <2>1, <2>2, <1>k, SameStatesStep
<1>7. CASE _tk_rot_rdq(p)
  <2> DEFINE t == Ctx(p)
  <2>1. pc[p] = "spin" /\ t \in Task /\ state[t] = "READY"
    <3>1. /\ pc[p] = "spin" /\ t \in Task
          /\ state[t] \in {"READY", "SUSPEND"} /\ "sus_tsk" \notin Calls
      BY <1>7, <1>t DEF _tk_rot_rdq, RotationSafe
    <3> QED BY <3>1, Known
  <2>2. PICK q \in {ready, Inserted(Without(ready, t), t)} : END_CRITICAL_SECTION(p, q, dds)
    BY <1>7 DEF _tk_rot_rdq
  <2>3. q \in Seq(Task) /\ IsInjective(q) /\ Range(q) = Range(ready)
    <3>1. t \in Range(ready)
      BY <2>1, <1>k
    <3>2. t \notin Range(Without(ready, t))
      BY <2>1, <1>w
    <3>3. /\ Inserted(Without(ready, t), t) \in Seq(Task)
          /\ Range(Inserted(Without(ready, t), t)) = Range(Without(ready, t)) \cup {t}
          /\ IsInjective(Inserted(Without(ready, t), t))
      BY <2>1, <3>2, <1>w, InsertedLemma
    <3>4. Range(Without(ready, t)) \cup {t} = Range(ready)
      BY <2>1, <3>1, <1>w
    <3> QED BY <2>2, <3>3, <3>4, <1>k
  <2>4. UNCHANGED <<state, fresh, tskque>>
    BY <1>7 DEF _tk_rot_rdq
  <2>5. /\ ready' = q /\ dds' = dds /\ update_schedtsk(ready', dds')
        /\ EndCritical(p, stkfree, FALSE)
    BY <2>2 DEF END_CRITICAL_SECTION
  <2> QED BY <2>1, <2>3, <2>4, <2>5, <1>k, SameStatesStep
<1>8. ASSUME NEW u \in Task, make_non_wait(p, u)
      PROVE  SafeInv'
  <2>1. /\ pc[p] \in {"spin", "int", "intd"} /\ UNCHANGED <<fresh, tskque>>
    BY <1>8, <1>pc DEF make_non_wait
  <2>2. CASE /\ state[u] = "WAIT" /\ state' = [state EXCEPT ![u] = "READY"]
             /\ END_CRITICAL_SECTION(p, Inserted(ready, u), dds)
    <3>1. /\ ready' = Inserted(ready, u) /\ dds' = dds /\ dds' \subseteq Core
          /\ END_CRITICAL_SECTION(p, ready', dds')
      BY <2>2, <1>e, <1>k
    <3>2. /\ state' \in [Task -> States] /\ state'[u] = "READY"
          /\ \A x \in Task \ {u} : state'[x] = state[x]
      BY <2>2, <1>s, <1>S
    <3>3. /\ ready' \in Seq(Task) /\ IsInjective(ready')
          /\ Range(ready') = Range(ready) \cup {u}
      BY <2>2, <3>1, <1>i
    <3> QED BY <2>1, <2>2, <3>1, <3>2, <3>3, <1>k, <1>f, OneTaskStep
  <2>3. CASE /\ state[u] = "WAITSUS" /\ state' = [state EXCEPT ![u] = "SUSPEND"]
             /\ END_CRITICAL_SECTION(p, ready, dds)
    <3>1. /\ ready' = ready /\ dds' = dds /\ dds' \subseteq Core
          /\ END_CRITICAL_SECTION(p, ready', dds')
      BY <2>3, <1>e, <1>k
    <3>2. /\ state' \in [Task -> States] /\ state'[u] = "SUSPEND"
          /\ \A x \in Task \ {u} : state'[x] = state[x]
      BY <2>3, <1>s, <1>S
    <3>3. /\ ready' \in Seq(Task) /\ IsInjective(ready')
          /\ Range(ready') = Range(ready) \ {u}
      BY <2>3, <3>1, <1>k
    <3> QED BY <2>1, <2>3, <3>1, <3>2, <3>3, <1>k, <1>f, OneTaskStep
  <2> QED BY <1>8, <2>2, <2>3 DEF make_non_wait
<1>9. ASSUME NEW u \in Task, _tk_sus_tsk(p, u)
      PROVE  SafeInv'
  <2>1. /\ pc[p] \in {"spin", "int", "intd"} /\ "sus_tsk" \in Calls /\ UNCHANGED fresh
    BY <1>9, <1>pc DEF _tk_sus_tsk
  <2>2. CASE /\ state[u] = "READY" /\ state' = [state EXCEPT ![u] = "SUSPEND"]
             /\ tskque' = [tskque EXCEPT ![u] = IF is_ctxtsk(u) THEN Queue(ready, u) ELSE <<>>]
             /\ END_CRITICAL_SECTION(p, Without(ready, u), dds)
    <3>1. /\ ready' = Without(ready, u) /\ dds' = dds /\ dds' \subseteq Core
          /\ END_CRITICAL_SECTION(p, ready', dds')
      BY <2>2, <1>e, <1>k
    <3>2. /\ state' \in [Task -> States] /\ state'[u] = "SUSPEND"
          /\ \A x \in Task \ {u} : state'[x] = state[x]
      BY <2>2, <1>s, <1>S
    <3>3. /\ ready' \in Seq(Task) /\ IsInjective(ready')
          /\ Range(ready') = Range(ready) \ {u}
      BY <2>2, <3>1, <1>w
    <3>4. tskque' \in [Task -> Seq(Task)]
      <4>1. Queue(ready, u) \in Seq(Task) /\ <<>> \in Seq(Task)
        BY <1>k, QueueLemma
      <4> QED BY <4>1, <2>2, <1>k
    <3> QED BY <2>1, <2>2, <3>1, <3>2, <3>3, <3>4, <1>f, OneTaskStep
  <2>3. CASE /\ state[u] = "WAIT" /\ state' = [state EXCEPT ![u] = "WAITSUS"]
             /\ END_CRITICAL_SECTION(p, ready, dds) /\ UNCHANGED tskque
    <3>1. /\ ready' = ready /\ dds' = dds /\ dds' \subseteq Core
          /\ END_CRITICAL_SECTION(p, ready', dds')
      BY <2>3, <1>e, <1>k
    <3>2. /\ state' \in [Task -> States] /\ state'[u] = "WAITSUS"
          /\ \A x \in Task \ {u} : state'[x] = state[x]
      BY <2>3, <1>s, <1>S
    <3>3. /\ ready' \in Seq(Task) /\ IsInjective(ready')
          /\ Range(ready') = Range(ready) \ {u}
      BY <2>3, <3>1, <1>k
    <3>4. \A x \in Core : ctxtsk[x] # u
      BY <2>3, <1>c
    <3> QED BY <2>1, <2>3, <3>1, <3>2, <3>3, <3>4, <1>k, <1>f, OneTaskStep
  <2> QED BY <1>9, <2>2, <2>3 DEF _tk_sus_tsk
<1>10. ASSUME NEW u \in Task, _tk_rsm_tsk(p, u)
       PROVE  SafeInv'
  <2>1. /\ pc[p] \in {"spin", "int", "intd"} /\ UNCHANGED fresh
    BY <1>10, <1>pc DEF _tk_rsm_tsk
  <2>2. CASE /\ state[u] = "SUSPEND" /\ state' = [state EXCEPT ![u] = "READY"]
             /\ Unlinked(u) /\ END_CRITICAL_SECTION(p, Inserted(ready, u), dds)
    <3>1. /\ ready' = Inserted(ready, u) /\ dds' = dds /\ dds' \subseteq Core
          /\ END_CRITICAL_SECTION(p, ready', dds')
      BY <2>2, <1>e, <1>k
    <3>2. /\ state' \in [Task -> States] /\ state'[u] = "READY"
          /\ \A x \in Task \ {u} : state'[x] = state[x]
      BY <2>2, <1>s, <1>S
    <3>3. /\ ready' \in Seq(Task) /\ IsInjective(ready')
          /\ Range(ready') = Range(ready) \cup {u}
      BY <2>2, <3>1, <1>i
    <3> QED BY <2>1, <2>2, <3>1, <3>2, <3>3, <1>u, <1>f, OneTaskStep
  <2>3. CASE /\ state[u] = "WAITSUS" /\ state' = [state EXCEPT ![u] = "WAIT"]
             /\ END_CRITICAL_SECTION(p, ready, dds) /\ UNCHANGED tskque
    <3>1. /\ ready' = ready /\ dds' = dds /\ dds' \subseteq Core
          /\ END_CRITICAL_SECTION(p, ready', dds')
      BY <2>3, <1>e, <1>k
    <3>2. /\ state' \in [Task -> States] /\ state'[u] = "WAIT"
          /\ \A x \in Task \ {u} : state'[x] = state[x]
      BY <2>3, <1>s, <1>S
    <3>3. /\ ready' \in Seq(Task) /\ IsInjective(ready')
          /\ Range(ready') = Range(ready) \ {u}
      BY <2>3, <3>1, <1>k
    <3>4. \A x \in Core : ctxtsk[x] # u
      BY <2>3, <1>c
    <3> QED BY <2>1, <2>3, <3>1, <3>2, <3>3, <3>4, <1>k, <1>f, OneTaskStep
  <2> QED BY <1>10, <2>2, <2>3 DEF _tk_rsm_tsk
<1>11. ASSUME NEW u \in Task, _tk_sta_tsk(p, u)
       PROVE  SafeInv'
  <2>1. fresh' \subseteq fresh \cup {t \in Task : ~is_ctxtsk(t)}
    BY <1>11 DEF _tk_sta_tsk
  <2>2. /\ pc[p] \in {"spin", "int", "intd"} /\ UNCHANGED tskque
        /\ state[u] = "DORMANT" /\ state' = [state EXCEPT ![u] = "READY"]
        /\ END_CRITICAL_SECTION(p, Inserted(ready, u), dds)
    BY <1>11, <1>pc DEF _tk_sta_tsk
  <2>3. /\ ready' = Inserted(ready, u) /\ dds' = dds /\ dds' \subseteq Core
        /\ END_CRITICAL_SECTION(p, ready', dds')
    BY <2>2, <1>e, <1>k
  <2>4. /\ state' \in [Task -> States] /\ state'[u] = "READY"
        /\ \A x \in Task \ {u} : state'[x] = state[x]
    BY <2>2, <1>s, <1>S
  <2>5. /\ ready' \in Seq(Task) /\ IsInjective(ready')
        /\ Range(ready') = Range(ready) \cup {u}
    BY <2>2, <2>3, <1>i
  <2> QED BY <2>1, <2>2, <2>3, <2>4, <2>5, <1>k, OneTaskStep
<1>12. ASSUME NEW u \in Task, _tk_ter_tsk(p, u)
       PROVE  SafeInv'
  <2>1. fresh' \subseteq fresh \cup {t \in Task : ~is_ctxtsk(t)}
    BY <1>12 DEF _tk_ter_tsk
  <2> DEFINE d == {x \in dds : ctxtsk[x] # u}
  <2>2. /\ pc[p] \in {"spin", "int", "intd"} /\ Unlinked(u)
        /\ state[u] \notin {"DORMANT", "NONEXIST"} /\ state' = [state EXCEPT ![u] = "DORMANT"]
        /\ END_CRITICAL_SECTION(p, Without(ready, u), d)
    BY <1>12, <1>pc DEF _tk_ter_tsk
  <2>3. /\ ready' = Without(ready, u) /\ dds' = d /\ dds' \subseteq Core
        /\ END_CRITICAL_SECTION(p, ready', dds')
    BY <2>2, <1>e, <1>k
  <2>4. /\ state' \in [Task -> States] /\ state'[u] = "DORMANT"
        /\ \A x \in Task \ {u} : state'[x] = state[x]
    BY <2>2, <1>s, <1>S
  <2>5. /\ ready' \in Seq(Task) /\ IsInjective(ready')
        /\ Range(ready') = Range(ready) \ {u}
    BY <2>3, <1>w
  <2> HIDE DEF d
  <2> QED BY <2>1, <2>2, <2>3, <2>4, <2>5, <1>u, OneTaskStep
<1>13. ASSUME NEW u \in Task, _tk_del_tsk(p, u)
       PROVE  SafeInv'
  <2>1. /\ pc[p] \in {"spin", "int", "intd"} /\ UNCHANGED <<dds, fresh, tskque>>
        /\ state[u] = "DORMANT" /\ state' = [state EXCEPT ![u] = "NONEXIST"]
        /\ END_CRITICAL_NO_DISPATCH(p) /\ UNCHANGED ctxtsk
        /\ IF is_ctxtsk(u) THEN stkfree' = stkfree \cup {u} /\ UNCHANGED free
                           ELSE free' = free \cup {u} /\ UNCHANGED stkfree
    BY <1>13, <1>pc DEF _tk_del_tsk, END_CRITICAL_NO_DISPATCH
  <2>2. u \notin free \cup stkfree
    BY <2>1, Known
  <2>3. DeletedOnce'
    <3>1. \A x \in Core : ctxtsk'[x] \notin free'
      BY <2>1 DEF SafeInv, DeletedOnce, is_ctxtsk
    <3>2. \A t \in stkfree' : is_ctxtsk(t)' /\ t \notin free'
      BY <2>1, <2>2, Known DEF is_ctxtsk
    <3>3. \A t \in Task : state'[t] = "NONEXIST" <=> t \in free' \cup stkfree'
      BY <2>1, Known
    <3> QED BY <3>1, <3>2, <3>3 DEF DeletedOnce
  <2>4. free' \subseteq Task /\ stkfree' \subseteq Task
    BY <2>1, Known
  <2> QED BY <2>1, <2>3, <2>4, NoDispatchSafe
<1>14. ASSUME NEW u \in Task, _tk_cre_tsk(p, u)
       PROVE  SafeInv'
  <2>1. /\ pc[p] \in {"spin", "int", "intd"} /\ UNCHANGED <<dds, fresh, tskque>>
        /\ u \in free /\ state' = [state EXCEPT ![u] = "DORMANT"]
        /\ END_CRITICAL_NO_DISPATCH(p) /\ UNCHANGED ctxtsk
        /\ free' = free \ {u} /\ stkfree' = stkfree \ {u}
    BY <1>14, <1>pc DEF _tk_cre_tsk, END_CRITICAL_NO_DISPATCH
  <2>2. DeletedOnce'
    <3>1. \A x \in Core : ctxtsk'[x] \notin free'
      BY <2>1 DEF SafeInv, DeletedOnce
    <3>2. \A t \in stkfree' : is_ctxtsk(t)' /\ t \notin free'
      BY <2>1, Known DEF is_ctxtsk
    <3>3. \A t \in Task : state'[t] = "NONEXIST" <=> t \in free' \cup stkfree'
      BY <2>1, Known
    <3> QED BY <3>1, <3>2, <3>3 DEF DeletedOnce
  <2>3. free' \subseteq Task /\ stkfree' \subseteq Task
    BY <2>1, Known
  <2>4. state[u] = "NONEXIST"
    BY <2>1, Known
  <2> QED BY <2>1, <2>2, <2>3, <2>4, NoDispatchSafe
<1> QED BY <1>1, <1>2, <1>3, <1>4, <1>5, <1>6, <1>7, <1>8, <1>9, <1>10,
           <1>11, <1>12, <1>13, <1>14 DEF SystemCall

(* A core by itself frees the task it leaves if it was deleted, and takes  *)
(* the task it is scheduled to run, which is READY and so not free.        *)
LEMMA CoreSafe ==
  ASSUME SafeInv, NEW p \in Core,
         \/ Enter(p) \/ ForceDispatch(p) \/ Interrupt(p) \/ TakeIPI(p)
         \/ chk_dsp(p) \/ ReturnToLoop(p) \/ chk_restore(p)
  PROVE  SafeInv'
<1> USE Known
<1>1. Inv'
  BY CoreInv DEF SafeInv
<1>2. /\ UNCHANGED <<state, ready, schedtsk, dds, tskque>>
      /\ fresh' \subseteq Task /\ ipi' \subseteq Core
  BY DEF Enter, ForceDispatch, Interrupt, TakeIPI, chk_dsp, ReturnToLoop, chk_restore,
         SafeInv, TypeOK
<1>3. ScheduledReady' /\ NoneSuspended'
  BY <1>2 DEF SafeInv, ScheduledReady, NoneSuspended
<1>4. /\ ctxtsk' \in [Core -> Task \cup {NoTask}] /\ WaitersLeft' /\ DeletedOnce'
      /\ free' \subseteq Task /\ stkfree' \subseteq Task
  <2>1. CASE UNCHANGED <<ctxtsk, free, stkfree>>
    BY <1>2, <2>1 DEF SafeInv, WaitersLeft, DeletedOnce, is_ctxtsk
  <2>2. CASE into_dsp(p, stkfree) /\ pc[p] \in {"spin", "int"}
    <3>1. /\ ctxtsk' = [ctxtsk EXCEPT ![p] = NoTask]
          /\ free' = free \cup (stkfree \cap {ctxtsk[p]})
          /\ stkfree' = stkfree \ {ctxtsk[p]}
      BY <2>2 DEF into_dsp, Ctx
    <3>2. /\ ctxtsk'[p] = NoTask
          /\ \A x \in Core \ {p} : ctxtsk'[x] = ctxtsk[x] /\ ctxtsk[x] # ctxtsk[p]
      BY <2>2, <3>1, ConstAssumption
    <3>3. \A x \in Core : ctxtsk'[x] \notin free'
      BY <3>1, <3>2, ConstAssumption DEF SafeInv, DeletedOnce
    <3>4. \A t \in stkfree' : is_ctxtsk(t)' /\ t \notin free'
      BY <3>1, <3>2 DEF is_ctxtsk
    <3>5. free' \cup stkfree' = free \cup stkfree
      BY <3>1
    <3>6. DeletedOnce'
      BY <1>2, <3>3, <3>4, <3>5 DEF DeletedOnce
    <3>7. WaitersLeft'
      BY <1>2, <3>2 DEF WaitersLeft
    <3> QED BY <3>1, <3>6, <3>7
  <2>3. CASE chk_restore(p)
    <3>1. /\ ctxtsk' = [ctxtsk EXCEPT ![p] = schedtsk[p]] /\ UNCHANGED <<free, stkfree>>
          /\ ctxtsk[p] = NoTask
      BY <2>3 DEF chk_restore, SafeInv, TypeOK
    <3>2. schedtsk[p] \in Task /\ state[schedtsk[p]] = "READY"
      BY <2>3 DEF chk_restore, SafeInv, TypeOK, ScheduledReady
    <3>3. /\ ctxtsk'[p] = schedtsk[p]
          /\ \A x \in Core \ {p} : ctxtsk'[x] = ctxtsk[x]
      BY <3>1
    <3>4. \A x \in Core : ctxtsk'[x] \notin free'
      BY <3>1, <3>2, <3>3 DEF SafeInv, DeletedOnce
    <3>5. \A t \in stkfree : is_ctxtsk(t)'
      BY <3>1, <3>3, ConstAssumption DEF is_ctxtsk
    <3>6. DeletedOnce'
      BY <1>2, <3>1, <3>4, <3>5 DEF DeletedOnce
    <3>7. WaitersLeft'
      BY <1>2, <3>2, <3>3 DEF WaitersLeft
    <3> QED BY <3>1, <3>2, <3>6, <3>7
  <2> QED BY <2>1, <2>2, <2>3 DEF Enter, ForceDispatch, Interrupt, TakeIPI, chk_dsp, ReturnToLoop
<1>5. TypeOK'
  BY <1>1, <1>2, <1>4 DEF SafeInv, TypeOK, Inv, Shape
<1> QED BY <1>1, <1>3, <1>4, <1>5 DEF SafeInv

(* The stronger invariant holds in every behaviour in which tasks are not  *)
(* suspended while they rotate the ready queue.                            *)
THEOREM SafeInvariance ==
  ASSUME RotationSafe
  PROVE  Spec => []SafeInv
<1>1. Init => SafeInv
  BY InitSafe
<1>2. SafeInv /\ [Next]_vars => SafeInv'
  <2> SUFFICES ASSUME SafeInv, [Next]_vars PROVE SafeInv'
    OBVIOUS
  <2>1. CASE Next
    BY <2>1, RotationSafe, SystemCallSafe, CoreSafe DEF Next
  <2>2. CASE UNCHANGED vars
    BY <2>2 DEF vars, SafeInv, TypeOK, Inv, Shape, NoDoubleRun, StartsAfresh, Told,
                DeletedOnce, is_ctxtsk, ScheduledReady, WaitersLeft, NoneSuspended
  <2> QED BY <2>1, <2>2
<1> QED BY <1>1, <1>2, PTL DEF Spec

(* Every variable keeps its type: states, queues and the schedule stay     *)
(* within the tasks and cores there are.                                   *)
THEOREM TypeCorrect ==
  ASSUME RotationSafe
  PROVE  Spec => []TypeOK
<1>1. SafeInv => TypeOK
  BY DEF SafeInv
<1> QED BY <1>1, SafeInvariance, PTL

(* The stacks and the control block of a deleted task are freed once, by   *)
(* tk_del_tsk or by the dispatcher of the core that runs it, and no core   *)
(* runs a task that is free.                                               *)
THEOREM FreedOnce ==
  ASSUME RotationSafe
  PROVE  Spec => []DeletedOnce
<1>1. SafeInv => DeletedOnce
  BY DEF SafeInv
<1> QED BY <1>1, SafeInvariance, PTL

(* Whatever ready_queue_top selects is READY, also when another core has   *)
(* suspended, terminated or deleted tasks in between.                      *)
THEOREM OnlyReadyScheduled ==
  ASSUME RotationSafe
  PROVE  Spec => []ScheduledReady
<1>1. SafeInv => ScheduledReady
  BY DEF SafeInv
<1> QED BY <1>1, SafeInvariance, PTL

=============================================================================
