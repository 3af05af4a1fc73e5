----------------------------- MODULE PortProofs -----------------------------
(***************************************************************************)
(* The dispatchers of both ports implement Dispatcher, for every number of *)
(* cores and tasks, every priority and affinity and every choice of calls. *)
(*                                                                         *)
(* Calls and interrupts are those of Dispatcher as they stand.  In the loop*)
(* of the SH port only l_dispatch2 shows: it is chk_restore, and the rest  *)
(* of the argument is that it gives the core the task that schedtsk still  *)
(* names and that no other core holds.                                     *)
(***************************************************************************)
EXTENDS ShDispatch, TLAPS

(* The refinement mapping: a core runs its task from when ctxtsk holds it. *)
Bar == [p \in Core |-> IF phase[p] = "exit" THEN "task" ELSE pc[p]]

(* What D instantiates with it. *)
LEMMA BarStep ==
  ASSUME pc \in [Core -> PC], NEW p \in Core, NEW v, phase[p] = "open", phase' = phase,
         pc' = [pc EXCEPT ![p] = v]
  PROVE  Bar' = [Bar EXCEPT ![p] = v] /\ Bar[p] = pc[p]
  BY DEF Bar

(* The schedule and the ready queue do not depend on it. *)
LEMMA TopSame == \A q, d : D!ready_queue_top(q, d) = ready_queue_top(q, d)
  BY DEF ready_queue_top, D!ready_queue_top, S!Schedules, D!S!Schedules,
         S!Allowed, D!S!Allowed, S!Selected, D!S!Selected, S!FoldLeft, D!S!FoldLeft,
         S!MapThenFoldSet, D!S!MapThenFoldSet, S!Max, D!S!Max, S!Matchable, D!S!Matchable,
         S!Core, D!S!Core, S!IsInjective, D!S!IsInjective, S!Range, D!S!Range

LEMMA WithoutSame == \A q, t : D!Without(q, t) = Without(q, t)
  BY DEF Without, D!Without, RemoveFirst, D!RemoveFirst, RemoveAt, D!RemoveAt,
         SelectInSeq, D!SelectInSeq, Min, D!Min

LEMMA QueueSame ==
  \A q, t : D!Inserted(q, t) = Inserted(q, t) /\ D!Queue(q, t) = Queue(q, t)
<1>1. \A q, t : D!Before(q, t) = Before(q, t) /\ D!UpTo(q, t) = UpTo(q, t)
  BY DEF Before, D!Before, UpTo, D!UpTo, Cardinality, D!Cardinality
<1> QED BY <1>1 DEF Inserted, D!Inserted, Queue, D!Queue, InsertAt, D!InsertAt

(* A critical section, of a core that is not in the dispatcher's loop. *)
Shared(p) == pc \in [Core -> PC] /\ p \in Core /\ phase[p] = "open" /\ phase' = phase

LEMMA IntoSame ==
  ASSUME NEW p, Shared(p), NEW sf, into_dsp(p, sf)
  PROVE  D!into_dsp(p, sf)
<1>1. pc' = [pc EXCEPT ![p] = "disp"]
  BY DEF into_dsp
<1>2. Bar' = [Bar EXCEPT ![p] = "disp"] /\ Bar[p] = pc[p]
  BY <1>1, BarStep DEF Shared
<1> QED BY <1>2 DEF into_dsp, D!into_dsp, Bar, Ctx, D!Ctx

LEMMA ReturnedSame ==
  ASSUME NEW p, Shared(p), pc' = Returned(p)
  PROVE  Bar' = D!Returned(p)
<1> DEFINE v == IF pc[p] = "spin" THEN "task" ELSE pc[p]
<1>1. pc' = [pc EXCEPT ![p] = v]
  BY DEF Returned
<1>2. Bar' = [Bar EXCEPT ![p] = v] /\ Bar[p] = pc[p]
  BY <1>1, BarStep DEF Shared
<1> QED BY <1>2 DEF D!Returned, Bar

LEMMA EndSame ==
  ASSUME NEW p, Shared(p), NEW sf, NEW forced \in BOOLEAN, EndCritical(p, sf, forced)
  PROVE  D!EndCritical(p, sf, forced)
<1>1. D!dispatch_request_other(p)
  BY DEF EndCritical, dispatch_request_other, D!dispatch_request_other, Core, D!Core
<1>2. Bar[p] = pc[p]
  BY DEF Shared, Bar
<1>3. CASE forced \/ (pc[p] = "spin" /\ Ctx(p) # schedtsk'[p] /\ p \notin dds')
  <2>1. D!into_dsp(p, sf)
    BY <1>3, IntoSame DEF EndCritical
  <2> QED BY <1>1, <1>2, <1>3, <2>1 DEF D!EndCritical, Bar, Ctx, D!Ctx
<1>4. CASE ~(forced \/ (pc[p] = "spin" /\ Ctx(p) # schedtsk'[p] /\ p \notin dds'))
  <2>1. pc' = Returned(p) /\ stkfree' = sf /\ UNCHANGED <<ctxtsk, free>>
    BY <1>4 DEF EndCritical
  <2>2. Bar' = D!Returned(p)
    BY <2>1, ReturnedSame
  <2> QED BY <1>1, <1>2, <1>4, <2>1, <2>2 DEF D!EndCritical, Bar, Ctx, D!Ctx
<1> QED BY <1>3, <1>4

LEMMA SectionSame ==
  ASSUME NEW p, Shared(p)
  PROVE  /\ \A q, d : END_CRITICAL_SECTION(p, q, d) => D!END_CRITICAL_SECTION(p, q, d)
         /\ \A q, d, sf : END_CRITICAL_FORCE(p, q, d, sf) => D!END_CRITICAL_FORCE(p, q, d, sf)
         /\ END_CRITICAL_NO_DISPATCH(p) => D!END_CRITICAL_NO_DISPATCH(p)
<1>1. \A q, d : update_schedtsk(q, d) => D!update_schedtsk(q, d)
  BY TopSame DEF update_schedtsk, D!update_schedtsk
<1>2. \A sf : \A forced \in BOOLEAN : EndCritical(p, sf, forced) => D!EndCritical(p, sf, forced)
  BY EndSame
<1>3. END_CRITICAL_NO_DISPATCH(p) => D!END_CRITICAL_NO_DISPATCH(p)
  BY ReturnedSame DEF END_CRITICAL_NO_DISPATCH, D!END_CRITICAL_NO_DISPATCH, Bar
<1>4. \A q, d : END_CRITICAL_SECTION(p, q, d) => D!END_CRITICAL_SECTION(p, q, d)
  BY <1>1, <1>2 DEF END_CRITICAL_SECTION, D!END_CRITICAL_SECTION
<1>5. \A q, d, sf : END_CRITICAL_FORCE(p, q, d, sf) => D!END_CRITICAL_FORCE(p, q, d, sf)
  BY <1>1, <1>2 DEF END_CRITICAL_FORCE, D!END_CRITICAL_FORCE
<1> QED BY <1>3, <1>4, <1>5

(* The conditions on who calls. *)
LEMMA CallerSame ==
  ASSUME NEW p, Shared(p)
  PROVE  /\ D!ByTask(p) <=> ByTask(p)
         /\ D!ByAny(p) <=> ByAny(p)
         /\ \A u : D!Other(p, u) <=> Other(p, u)
         /\ \A u : D!is_ctxtsk(u) <=> is_ctxtsk(u)
         /\ \A u : D!Unlinked(u) <=> Unlinked(u)
         /\ D!Ctx(p) = Ctx(p)
<1>1. Bar[p] = pc[p]
  BY DEF Shared, Bar
<1>2. D!Ctx(p) = Ctx(p)
  BY DEF D!Ctx, Ctx
<1>3. D!ByTask(p) <=> ByTask(p)
  BY <1>1, <1>2 DEF D!ByTask, ByTask, Bar
<1>4. D!ByAny(p) <=> ByAny(p)
  BY <1>1, <1>3 DEF D!ByAny, ByAny, Bar
<1>5. \A u : D!Other(p, u) <=> Other(p, u)
  BY <1>1, <1>2 DEF D!Other, Other, Bar
<1>6. \A u : D!is_ctxtsk(u) <=> is_ctxtsk(u)
  BY DEF D!is_ctxtsk, is_ctxtsk, Core, D!Core
<1>7. \A u : D!Unlinked(u) <=> Unlinked(u)
  BY DEF D!Unlinked, Unlinked
<1> QED BY <1>2, <1>3, <1>4, <1>5, <1>6, <1>7

-----------------------------------------------------------------------------
(* The actions that the ports share are actions of D. *)

LEMMA SystemCallSame ==
  ASSUME NEW p, Shared(p), SystemCall(p)
  PROVE  D!SystemCall(p)
<1>1. CASE NoEffect(p)
  <2>1. D!NoEffect(p)
    BY <1>1, SectionSame, CallerSame DEF NoEffect, D!NoEffect
  <2> QED BY <2>1 DEF D!SystemCall
<1>2. CASE make_wait(p)
  <2>1. D!make_wait(p)
    BY <1>2, SectionSame, CallerSame, WithoutSame DEF make_wait, D!make_wait
  <2> QED BY <2>1 DEF D!SystemCall
<1>3. CASE _tk_ext_tsk(p)
  <2>1. D!_tk_ext_tsk(p)
    BY <1>3, SectionSame, CallerSame, WithoutSame DEF _tk_ext_tsk, D!_tk_ext_tsk
  <2> QED BY <2>1 DEF D!SystemCall
<1>4. CASE _tk_exd_tsk(p)
  <2>1. D!_tk_exd_tsk(p)
    BY <1>4, SectionSame, CallerSame, WithoutSame DEF _tk_exd_tsk, D!_tk_exd_tsk
  <2> QED BY <2>1 DEF D!SystemCall
<1>5. CASE _tk_dis_dsp(p)
  <2>1. D!_tk_dis_dsp(p)
    BY <1>5, SectionSame, CallerSame DEF _tk_dis_dsp, D!_tk_dis_dsp
  <2> QED BY <2>1 DEF D!SystemCall
<1>6. CASE _tk_ena_dsp(p)
  <2>1. D!_tk_ena_dsp(p)
    BY <1>6, EndSame, TopSame, CallerSame DEF _tk_ena_dsp, D!_tk_ena_dsp
  <2> QED BY <2>1 DEF D!SystemCall
<1>7. CASE _tk_rot_rdq(p)
  <2>1. \A q : D!Last(q) = Last(q)
    BY DEF Last, D!Last
  <2>2. D!_tk_rot_rdq(p)
    BY <1>7, <2>1, SectionSame, CallerSame, WithoutSame, QueueSame
    DEF _tk_rot_rdq, D!_tk_rot_rdq
  <2> QED BY <2>2 DEF D!SystemCall
<1>8. ASSUME NEW u \in Task, make_non_wait(p, u)
      PROVE  D!SystemCall(p)
  <2>1. D!make_non_wait(p, u)
    BY <1>8, SectionSame, CallerSame, QueueSame DEF make_non_wait, D!make_non_wait
  <2> QED BY <2>1 DEF D!SystemCall
<1>9. ASSUME NEW u \in Task, _tk_sus_tsk(p, u)
      PROVE  D!SystemCall(p)
  <2>1. D!_tk_sus_tsk(p, u)
    BY <1>9, SectionSame, CallerSame, QueueSame, WithoutSame DEF _tk_sus_tsk, D!_tk_sus_tsk
  <2> QED BY <2>1 DEF D!SystemCall
<1>10. ASSUME NEW u \in Task, _tk_rsm_tsk(p, u)
       PROVE  D!SystemCall(p)
  <2>1. D!_tk_rsm_tsk(p, u)
    BY <1>10, SectionSame, CallerSame, QueueSame DEF _tk_rsm_tsk, D!_tk_rsm_tsk
  <2> QED BY <2>1 DEF D!SystemCall
<1>11. ASSUME NEW u \in Task, _tk_sta_tsk(p, u)
       PROVE  D!SystemCall(p)
  <2>1. D!_tk_sta_tsk(p, u)
    BY <1>11, SectionSame, CallerSame, QueueSame DEF _tk_sta_tsk, D!_tk_sta_tsk
  <2> QED BY <2>1 DEF D!SystemCall
<1>12. ASSUME NEW u \in Task, _tk_ter_tsk(p, u)
       PROVE  D!SystemCall(p)
  <2>1. D!_tk_ter_tsk(p, u)
    BY <1>12, SectionSame, CallerSame, WithoutSame DEF _tk_ter_tsk, D!_tk_ter_tsk
  <2> QED BY <2>1 DEF D!SystemCall
<1>13. ASSUME NEW u \in Task, _tk_del_tsk(p, u)
       PROVE  D!SystemCall(p)
  <2>1. D!_tk_del_tsk(p, u)
    BY <1>13, SectionSame, CallerSame DEF _tk_del_tsk, D!_tk_del_tsk
  <2> QED BY <2>1 DEF D!SystemCall
<1>14. ASSUME NEW u \in Task, _tk_cre_tsk(p, u)
       PROVE  D!SystemCall(p)
  <2>1. D!_tk_cre_tsk(p, u)
    BY <1>14, SectionSame, CallerSame DEF _tk_cre_tsk, D!_tk_cre_tsk
  <2> QED BY <2>1 DEF D!SystemCall
<1> QED BY <1>1, <1>2, <1>3, <1>4, <1>5, <1>6, <1>7, <1>8, <1>9, <1>10,
           <1>11, <1>12, <1>13, <1>14 DEF SystemCall

LEMMA CoreSame ==
  ASSUME NEW p, Shared(p)
  PROVE  /\ Enter(p) => D!Enter(p)
         /\ ForceDispatch(p) => D!ForceDispatch(p)
         /\ Interrupt(p) => D!Interrupt(p)
         /\ TakeIPI(p) => D!TakeIPI(p)
         /\ chk_dsp(p) => D!chk_dsp(p)
         /\ ReturnToLoop(p) => D!ReturnToLoop(p)
         /\ chk_restore(p) => D!chk_restore(p)
<1>1. Bar[p] = pc[p]
  BY DEF Shared, Bar
<1>2. \A v : pc' = [pc EXCEPT ![p] = v] => Bar' = [Bar EXCEPT ![p] = v]
  BY BarStep DEF Shared
<1>3. Enter(p) => D!Enter(p)
  BY <1>1, <1>2 DEF Enter, D!Enter, Bar
<1>4. ForceDispatch(p) => D!ForceDispatch(p)
  <2> SUFFICES ASSUME ForceDispatch(p) PROVE D!ForceDispatch(p)
    OBVIOUS
  <2>1. into_dsp(p, stkfree)
    BY DEF ForceDispatch
  <2>2. D!into_dsp(p, stkfree)
    BY <1>2, <2>1 DEF into_dsp, D!into_dsp, Bar, Ctx, D!Ctx
  <2> QED BY <1>1, <2>2, CallerSame DEF ForceDispatch, D!ForceDispatch, Bar
<1>5. Interrupt(p) => D!Interrupt(p)
  <2> DEFINE v == IF pc[p] = "task" THEN "int" ELSE "intd"
  <2> SUFFICES ASSUME Interrupt(p) PROVE D!Interrupt(p)
    OBVIOUS
  <2>1. Bar' = [Bar EXCEPT ![p] = v]
    BY <1>2 DEF Interrupt
  <2> QED BY <1>1, <2>1 DEF Interrupt, D!Interrupt, Bar
<1>6. TakeIPI(p) => D!TakeIPI(p)
  <2> DEFINE v == IF pc[p] = "task" THEN "int" ELSE IF pc[p] = "disp" THEN "intd" ELSE pc[p]
  <2> SUFFICES ASSUME TakeIPI(p) PROVE D!TakeIPI(p)
    OBVIOUS
  <2>1. Bar' = [Bar EXCEPT ![p] = v]
    BY <1>2 DEF TakeIPI
  <2> QED BY <1>1, <2>1 DEF TakeIPI, D!TakeIPI, Bar
<1>7. chk_dsp(p) => D!chk_dsp(p)
  <2> SUFFICES ASSUME chk_dsp(p) PROVE D!chk_dsp(p)
    OBVIOUS
  <2>1. CASE p \notin dds /\ Ctx(p) # schedtsk[p]
    <3>1. into_dsp(p, stkfree)
      BY <2>1 DEF chk_dsp
    <3>2. D!into_dsp(p, stkfree)
      BY <1>2, <3>1 DEF into_dsp, D!into_dsp, Bar, Ctx, D!Ctx
    <3> QED BY <1>1, <2>1, <3>2, CallerSame DEF chk_dsp, D!chk_dsp, Bar
  <2>2. CASE ~(p \notin dds /\ Ctx(p) # schedtsk[p])
    <3>1. Bar' = [Bar EXCEPT ![p] = "task"]
      BY <1>2, <2>2 DEF chk_dsp
    <3> QED BY <1>1, <2>2, <3>1, CallerSame DEF chk_dsp, D!chk_dsp, Bar
  <2> QED BY <2>1, <2>2
<1>8. ReturnToLoop(p) => D!ReturnToLoop(p)
  BY <1>1, <1>2 DEF ReturnToLoop, D!ReturnToLoop, Bar
<1>9. chk_restore(p) => D!chk_restore(p)
  BY <1>1, <1>2, CallerSame DEF chk_restore, D!chk_restore, Bar
<1> QED BY <1>3, <1>4, <1>5, <1>6, <1>7, <1>8, <1>9

-----------------------------------------------------------------------------
(* What the loop of the SH port rests on: while a core loads its task or   *)
(* keeps the lock, no core holds a task that is scheduled elsewhere, and   *)
(* schedtsk stays what it was when the core chose to load.                 *)
OneCoreEach ==
  \A p, q \in Core : schedtsk[p] = schedtsk[q] /\ schedtsk[p] # NoTask => p = q

LoopInv ==
  /\ pc \in [Core -> PC] /\ phase \in [Core -> Phase]
  /\ ctxtsk = [p \in Core |-> ctxtsk[p]] /\ r8 = [p \in Core |-> r8[p]]
  /\ \A p \in Core : phase[p] # "open" => pc[p] = "disp"
  /\ \A p \in Core : pc[p] \in {"disp", "intd"} /\ phase[p] # "exit" => ctxtsk[p] = NoTask
  /\ OneCoreEach
  /\ \A p \in Core : Loading(p) => schedtsk[p] # NoTask
  /\ \A p \in Core : phase[p] = "loaded" => r8[p] = schedtsk[p]
  /\ lock # NoCore \/ (\E p \in Core : Loading(p)) => Ready
  /\ port = "ARM" => lock = NoCore /\ \A p \in Core : phase[p] = "open"

(* A schedule gives a task to one core. *)
LEMMA TopOnce ==
  ASSUME NEW q, NEW d, NEW sch \in ready_queue_top(q, d)
  PROVE  \A x, y \in Core : sch[x] = sch[y] /\ sch[x] # NoTask => x = y
  BY DEF ready_queue_top, S!Schedules, S!Core, Core

(* What an action that the ports share does to a core and the schedule. *)
Effect(p) ==
  /\ \/ /\ ctxtsk' = ctxtsk
        /\ \E v \in PC : /\ pc' = [pc EXCEPT ![p] = v]
                         /\ v \in {"disp", "intd"} => pc[p] \in {"disp", "intd"}
     \/ ctxtsk' = [ctxtsk EXCEPT ![p] = NoTask] /\ pc' = [pc EXCEPT ![p] = "disp"]
     \/ /\ ctxtsk' = [ctxtsk EXCEPT ![p] = schedtsk[p]]
        /\ pc' = [pc EXCEPT ![p] = "task"]
  /\ schedtsk' = schedtsk \/ \E q, d : schedtsk' \in ready_queue_top(q, d)

LEMMA CallEffect ==
  ASSUME NEW p \in Core, pc \in [Core -> PC], SystemCall(p)
  PROVE  Effect(p) /\ pc[p] # "disp"
<1>1. ByAny(p) /\ pc[p] \in {"spin", "int", "intd"}
  BY DEF SystemCall, NoEffect, make_wait, _tk_ext_tsk, _tk_exd_tsk, _tk_dis_dsp,
         _tk_ena_dsp, _tk_rot_rdq, make_non_wait, _tk_sus_tsk, _tk_rsm_tsk, _tk_sta_tsk,
         _tk_ter_tsk, _tk_del_tsk, _tk_cre_tsk, ByAny, ByTask
<1>2. /\ \/ ctxtsk' = ctxtsk /\ pc' = Returned(p)
         \/ ctxtsk' = [ctxtsk EXCEPT ![p] = NoTask] /\ pc' = [pc EXCEPT ![p] = "disp"]
      /\ schedtsk' = schedtsk \/ \E q, d : schedtsk' \in ready_queue_top(q, d)
  <2>1. \A sf : \A forced \in BOOLEAN : EndCritical(p, sf, forced) =>
          \/ ctxtsk' = ctxtsk /\ pc' = Returned(p)
          \/ ctxtsk' = [ctxtsk EXCEPT ![p] = NoTask] /\ pc' = [pc EXCEPT ![p] = "disp"]
    BY DEF EndCritical, into_dsp
  <2>2. \A q, d : update_schedtsk(q, d) =>
          schedtsk' = schedtsk \/ schedtsk' \in ready_queue_top(q, d)
    BY DEF update_schedtsk
  <2>3. CASE \E q, d : END_CRITICAL_SECTION(p, q, d)
    BY <2>1, <2>2, <2>3 DEF END_CRITICAL_SECTION
  <2>4. CASE \E q, d, sf : END_CRITICAL_FORCE(p, q, d, sf)
    BY <2>1, <2>2, <2>4 DEF END_CRITICAL_FORCE
  <2>5. CASE END_CRITICAL_NO_DISPATCH(p)
    BY <2>5 DEF END_CRITICAL_NO_DISPATCH
  <2>6. CASE _tk_ena_dsp(p)
    BY <2>1, <2>6 DEF _tk_ena_dsp
  <2> QED BY <2>3, <2>4, <2>5, <2>6
          DEF SystemCall, NoEffect, make_wait, _tk_ext_tsk, _tk_exd_tsk, _tk_dis_dsp,
              _tk_rot_rdq, make_non_wait, _tk_sus_tsk, _tk_rsm_tsk, _tk_sta_tsk,
              _tk_ter_tsk, _tk_del_tsk, _tk_cre_tsk
<1>3. \E v \in PC : /\ Returned(p) = [pc EXCEPT ![p] = v]
                    /\ v \in {"disp", "intd"} => pc[p] \in {"disp", "intd"}
  <2> DEFINE v == IF pc[p] = "spin" THEN "task" ELSE pc[p]
  <2>1. v \in PC /\ (v \in {"disp", "intd"} => pc[p] \in {"disp", "intd"})
    BY <1>1 DEF PC
  <2>2. Returned(p) = [pc EXCEPT ![p] = v]
    BY DEF Returned
  <2> QED BY <2>1, <2>2
<1> QED BY <1>1, <1>2, <1>3 DEF Effect

LEMMA CoreEffect ==
  ASSUME NEW p \in Core, pc \in [Core -> PC],
         \/ Enter(p) \/ ForceDispatch(p) \/ Interrupt(p) \/ TakeIPI(p)
         \/ chk_dsp(p) \/ ReturnToLoop(p) \/ chk_restore(p)
  PROVE  Effect(p)
<1>1. schedtsk' = schedtsk
  BY DEF Enter, ForceDispatch, Interrupt, TakeIPI, chk_dsp, ReturnToLoop, chk_restore
<1>2. CASE Enter(p)
  BY <1>1, <1>2 DEF Enter, Effect, PC
<1>3. CASE ForceDispatch(p)
  BY <1>1, <1>3 DEF ForceDispatch, into_dsp, Effect
<1>4. CASE Interrupt(p)
  <2> DEFINE v == IF pc[p] = "task" THEN "int" ELSE "intd"
  <2>1. v \in PC /\ (v \in {"disp", "intd"} => pc[p] \in {"disp", "intd"})
    BY <1>4 DEF PC, Interrupt
  <2>2. ctxtsk' = ctxtsk /\ pc' = [pc EXCEPT ![p] = v]
    BY <1>4 DEF Interrupt
  <2> QED BY <1>1, <2>1, <2>2 DEF Effect
<1>5. CASE TakeIPI(p)
  <2> DEFINE v == IF pc[p] = "task" THEN "int" ELSE IF pc[p] = "disp" THEN "intd" ELSE pc[p]
  <2>1. v \in PC /\ (v \in {"disp", "intd"} => pc[p] \in {"disp", "intd"})
    BY DEF PC
  <2>2. ctxtsk' = ctxtsk /\ pc' = [pc EXCEPT ![p] = v]
    BY <1>5 DEF TakeIPI
  <2> QED BY <1>1, <2>1, <2>2 DEF Effect
<1>6. CASE chk_dsp(p)
  BY <1>1, <1>6 DEF chk_dsp, into_dsp, Effect, PC
<1>7. CASE ReturnToLoop(p)
  BY <1>1, <1>7 DEF ReturnToLoop, Effect, PC
<1>8. CASE chk_restore(p)
  BY <1>1, <1>8 DEF chk_restore, Effect
<1> QED BY <1>2, <1>3, <1>4, <1>5, <1>6, <1>7, <1>8

(* Such an action preserves LoopInv, if it leaves the tasks of the cores   *)
(* and the schedule alone or nobody loads a task.                          *)
LEMMA SharedInv ==
  ASSUME LoopInv, NEW p \in Core, Effect(p), phase[p] = "open",
         UNCHANGED <<phase, lock, r8, port>>,
         \/ UNCHANGED <<ctxtsk, schedtsk>>
         \/ lock = NoCore /\ \A x \in Core : ~Loading(x)
  PROVE  LoopInv'
<1> USE DEF LoopInv
<1>1. pc' \in [Core -> PC] /\ ctxtsk' = [x \in Core |-> ctxtsk'[x]]
  BY DEF Effect, PC
<1>2. \A x \in Core \ {p} : pc'[x] = pc[x] /\ ctxtsk'[x] = ctxtsk[x]
  BY DEF Effect
<1>3. pc'[p] \in {"disp", "intd"} => ctxtsk'[p] = NoTask
  BY DEF Effect
<1>4. OneCoreEach'
  BY TopOnce DEF Effect, OneCoreEach
<1>5. \A x \in Core : Loading(x)' <=> Loading(x)
  BY DEF Loading
<1>6. \A x \in Core : phase'[x] # "open" => pc'[x] = "disp"
  BY <1>2
<1>7. \A x \in Core : pc'[x] \in {"disp", "intd"} /\ phase'[x] # "exit" => ctxtsk'[x] = NoTask
  BY <1>2, <1>3
<1>8. CASE UNCHANGED <<ctxtsk, schedtsk>>
  BY <1>1, <1>4, <1>5, <1>6, <1>7, <1>8 DEF Ready
<1>9. CASE lock = NoCore /\ \A x \in Core : ~Loading(x)
  BY <1>1, <1>4, <1>5, <1>6, <1>7, <1>9 DEF Loading
<1> QED BY <1>8, <1>9

-----------------------------------------------------------------------------
(* A step of D, or one that D does not see. *)
DStep == D!Next \/ UNCHANGED D!vars

(* A step within the loop that does not change what the core holds. *)
LEMMA Hidden ==
  ASSUME UNCHANGED vars, Bar' = Bar
  PROVE  DStep
  BY DEF DStep, D!vars, vars, Bar

(* The loop of the SH port. *)
LEMMA LoopStep ==
  ASSUME LoopInv, Timely, NEW p \in Core, Loop(p), port = "SH", UNCHANGED port
  PROVE  LoopInv' /\ DStep
<1> USE DEF LoopInv
<1>arm. port # "ARM" /\ port' # "ARM"
  OBVIOUS
<1>1. CASE l_dispatch1(p)
  <2>1. /\ phase' = [phase EXCEPT ![p] = "check"] /\ phase[p] = "open" /\ pc[p] = "disp"
        /\ UNCHANGED <<vars, lock, rcd, r8>>
    BY <1>1 DEF l_dispatch1, InPhase
  <2>2. Bar' = Bar
    BY <2>1 DEF Bar, vars
  <2>3. \A x \in Core : Loading(x)' <=> Loading(x)
    BY <2>1 DEF Loading
  <2>4. LoopInv'
    BY <1>arm, <2>1, <2>3 DEF vars, OneCoreEach, Ready, Phase, Loading
  <2> QED BY <2>1, <2>2, <2>4, Hidden
<1>2. CASE chk_restore_Locked(p)
  <2>1. CASE schedtsk[p] # NoTask /\ Ready
    <3>1. /\ phase' = [phase EXCEPT ![p] = "chosen"] /\ phase[p] = "check"
          /\ UNCHANGED <<vars, r8>>
      BY <1>2, <2>1 DEF chk_restore_Locked, RET_DISPATCH, InPhase
    <3>2. Bar' = Bar
      BY <3>1 DEF Bar, vars
    <3>3. \A x \in Core : Loading(x)' => Loading(x) \/ x = p
      BY <3>1 DEF Loading
    <3>4. LoopInv'
      BY <1>arm, <2>1, <3>1, <3>3 DEF vars, OneCoreEach, Ready, Phase
    <3> QED BY <3>1, <3>2, <3>4, Hidden
  <2>2. CASE ~(schedtsk[p] # NoTask /\ Ready)
    <3>1. /\ phase' = [phase EXCEPT ![p] = "open"] /\ phase[p] = "check"
          /\ UNCHANGED <<vars, lock, rcd, r8>>
      BY <1>2, <2>2 DEF chk_restore_Locked, RET_NO_DISPATCH, InPhase
    <3>2. Bar' = Bar
      BY <3>1 DEF Bar, vars
    <3>3. \A x \in Core : Loading(x)' => Loading(x)
      BY <3>1 DEF Loading
    <3>4. LoopInv'
      BY <1>arm, <3>1, <3>3 DEF vars, OneCoreEach, Ready, Phase
    <3> QED BY <3>1, <3>2, <3>4, Hidden
  <2> QED BY <2>1, <2>2
<1>3. CASE chk_restore_Busy(p)
  <2>1. /\ phase' = [phase EXCEPT ![p] = "chosen"] /\ phase[p] = "check"
        /\ UNCHANGED <<vars, r8, lock>> /\ Ready /\ schedtsk[p] # NoTask
    BY <1>3 DEF chk_restore_Busy, RET_DISPATCH, InPhase
  <2>2. Bar' = Bar
    BY <2>1 DEF Bar, vars
  <2>3. \A x \in Core : Loading(x)' => Loading(x) \/ x = p
    BY <2>1 DEF Loading
  <2>4. LoopInv'
    BY <1>arm, <2>1, <2>3 DEF vars, OneCoreEach, Ready, Phase
  <2> QED BY <2>1, <2>2, <2>4, Hidden
<1>4. CASE reload(p)
  <2>1. /\ phase' = [phase EXCEPT ![p] = "loaded"] /\ phase[p] = "chosen"
        /\ r8' = [r8 EXCEPT ![p] = schedtsk[p]] /\ UNCHANGED <<vars, lock>>
    BY <1>4 DEF reload, InPhase
  <2>2. Bar' = Bar
    BY <2>1 DEF Bar, vars
  <2>3. \A x \in Core : Loading(x)' <=> Loading(x)
    BY <2>1 DEF Loading
  <2>4. LoopInv'
    BY <1>arm, <2>1, <2>3 DEF vars, OneCoreEach, Ready, Phase
  <2> QED BY <2>1, <2>2, <2>4, Hidden
<1>5. CASE l_dispatch2(p)
  <2>1. /\ phase' = [phase EXCEPT ![p] = "exit"] /\ phase[p] = "loaded"
        /\ ctxtsk' = [ctxtsk EXCEPT ![p] = schedtsk[p]]
        /\ fresh' = fresh \ {schedtsk[p]}
        /\ UNCHANGED <<state, stkfree, free, ready, schedtsk, dds, pc, ipi, tskque, lock>>
        /\ r8' = [r8 EXCEPT ![p] = NoTask]
    BY <1>5 DEF l_dispatch2, InPhase
  <2>2. Loading(p) /\ schedtsk[p] # NoTask /\ Ready /\ ctxtsk[p] = NoTask /\ pc[p] = "disp"
    BY <2>1 DEF Loading
  <2>3. ~is_ctxtsk(schedtsk[p])
    BY <2>2 DEF is_ctxtsk, Ready, OneCoreEach
  <2>4. Bar' = [Bar EXCEPT ![p] = "task"] /\ Bar[p] = "disp"
    BY <2>1, <2>2 DEF Bar
  <2>5. D!chk_restore(p)
    BY <2>1, <2>2, <2>3, <2>4 DEF D!chk_restore, Bar, D!is_ctxtsk, is_ctxtsk, D!Core, Core
  <2>6. \A x \in Core : Loading(x)' => Loading(x)
    BY <2>1 DEF Loading
  <2>7. Ready'
    BY <2>1, <2>2 DEF Ready
  <2>8. LoopInv'
    BY <1>arm, <2>1, <2>2, <2>6, <2>7 DEF OneCoreEach, Phase
  <2> QED BY <2>5, <2>8 DEF DStep, D!Next, D!Core, Core
<1>6. CASE exit_dsp_Holder(p) \/ exit_dsp_Other(p)
  <2>1. /\ phase' = [phase EXCEPT ![p] = "open"] /\ phase[p] = "exit"
        /\ pc' = [pc EXCEPT ![p] = "task"]
        /\ UNCHANGED <<state, stkfree, free, ready, schedtsk, ctxtsk, dds, ipi, fresh, tskque, r8>>
        /\ lock' \in {lock, NoCore}
    BY <1>6 DEF exit_dsp_Holder, exit_dsp_Other, Restored, InPhase
  <2>2. Bar' = Bar
    BY <2>1 DEF Bar
  <2>3. UNCHANGED D!vars
    BY <2>1, <2>2 DEF D!vars, Bar
  <2>4. \A x \in Core : Loading(x)' => Loading(x)
    BY <2>1 DEF Loading
  <2>5. LoopInv'
    BY <1>arm, <2>1, <2>4 DEF OneCoreEach, Ready, Phase, PC
  <2> QED BY <2>3, <2>5 DEF DStep
<1> QED BY <1>1, <1>2, <1>3, <1>4, <1>5, <1>6 DEF Loop

(* Everything else a core of the SH port does. *)
LEMMA OutsideStep ==
  ASSUME LoopInv, Timely, NEW p \in Core, UNCHANGED port,
         CriticalSection(p) \/ dispatch_to_schedtsk(p) \/ _tk_ret_int(p) \/ Unlocked(p)
  PROVE  LoopInv' /\ DStep
<1>0. pc \in [Core -> PC] /\ (pc[p] # "disp" => phase[p] = "open")
  BY DEF LoopInv
<1>1. CASE CriticalSection(p)
  <2>1. SystemCall(p) /\ UNCHANGED <<phase, lock, r8>>
    BY <1>1 DEF CriticalSection
  <2>2. Effect(p) /\ phase[p] = "open"
    BY <1>0, <2>1, CallEffect
  <2>3. lock = NoCore /\ \A x \in Core : ~Loading(x)
    BY <1>1 DEF CriticalSection, Locked
  <2>4. D!SystemCall(p)
    BY <1>0, <2>1, <2>2, SystemCallSame DEF Shared
  <2> QED BY <2>1, <2>2, <2>3, <2>4, SharedInv DEF DStep, D!Next, D!Core, Core
<1>2. CASE dispatch_to_schedtsk(p)
  <2>1. ForceDispatch(p) /\ UNCHANGED <<phase, lock, r8>> /\ pc[p] = "spin"
    BY <1>2 DEF dispatch_to_schedtsk, ForceDispatch
  <2>2. Effect(p) /\ phase[p] = "open"
    BY <1>0, <2>1, CoreEffect
  <2>3. lock = NoCore /\ \A x \in Core : ~Loading(x)
    BY <1>2 DEF dispatch_to_schedtsk, Locked
  <2>4. D!ForceDispatch(p)
    BY <1>0, <2>1, <2>2, CoreSame DEF Shared
  <2> QED BY <2>1, <2>2, <2>3, <2>4, SharedInv DEF DStep, D!Next, D!Core, Core
<1>3. CASE _tk_ret_int(p)
  <2>1. chk_dsp(p) /\ UNCHANGED <<phase, lock, r8>> /\ pc[p] = "int"
    BY <1>3 DEF _tk_ret_int, chk_dsp, shOnly
  <2>2. Effect(p) /\ phase[p] = "open"
    BY <1>0, <2>1, CoreEffect
  <2>3. lock = NoCore /\ \A x \in Core : ~Loading(x)
    BY <1>3 DEF _tk_ret_int, Locked
  <2>4. D!chk_dsp(p)
    BY <1>0, <2>1, <2>2, CoreSame DEF Shared
  <2> QED BY <2>1, <2>2, <2>3, <2>4, SharedInv DEF DStep, D!Next, D!Core, Core
<1>4. CASE Unlocked(p)
  <2>1. /\ Enter(p) \/ Interrupt(p) \/ TakeIPI(p) \/ ReturnToLoop(p)
        /\ UNCHANGED <<phase, lock, r8>> /\ phase[p] = "open"
    BY <1>4 DEF Unlocked, shOnly
  <2>2. Effect(p) /\ UNCHANGED <<ctxtsk, schedtsk>>
    BY <1>0, <2>1, CoreEffect DEF Enter, Interrupt, TakeIPI, ReturnToLoop
  <2>3. D!Enter(p) \/ D!Interrupt(p) \/ D!TakeIPI(p) \/ D!ReturnToLoop(p)
    BY <1>0, <2>1, CoreSame DEF Shared
  <2> QED BY <2>1, <2>2, <2>3, SharedInv DEF DStep, D!Next, D!Core, Core
<1> QED BY <1>1, <1>2, <1>3, <1>4

(* The ARM port has no loop of this kind: no core is ever in a phase. *)
LEMMA ArmStep ==
  ASSUME LoopInv, ByArm(Next)
  PROVE  LoopInv' /\ DStep
<1>0. /\ pc \in [Core -> PC] /\ lock = NoCore /\ \A p \in Core : phase[p] = "open"
      /\ UNCHANGED <<phase, lock, r8, port>> /\ Next
  BY DEF LoopInv, ByArm, shOnly
<1>1. \A p \in Core : ~Loading(p) /\ Shared(p)
  BY <1>0 DEF Loading, Shared
<1>2. PICK p \in Core : \/ Enter(p) \/ ForceDispatch(p) \/ SystemCall(p) \/ Interrupt(p)
                        \/ TakeIPI(p) \/ chk_dsp(p) \/ ReturnToLoop(p) \/ chk_restore(p)
  BY <1>0 DEF Next
<1>3. Effect(p)
  BY <1>0, <1>2, CallEffect, CoreEffect
<1>4. LoopInv'
  BY <1>0, <1>1, <1>3, SharedInv
<1>5. D!Next
  <2>1. CASE SystemCall(p)
    <3>1. D!SystemCall(p)
      BY <1>1, <2>1, SystemCallSame
    <3> QED BY <3>1 DEF D!Next, D!Core, Core
  <2>2. CASE ~SystemCall(p)
    <3>1. \/ D!Enter(p) \/ D!ForceDispatch(p) \/ D!Interrupt(p) \/ D!TakeIPI(p)
          \/ D!chk_dsp(p) \/ D!ReturnToLoop(p) \/ D!chk_restore(p)
      BY <1>1, <1>2, <2>2, CoreSame
    <3> QED BY <3>1 DEF D!Next, D!Core, Core
  <2> QED BY <2>1, <2>2
<1> QED BY <1>4, <1>5 DEF DStep

LEMMA InitStep == PortInit => LoopInv /\ D!Init
<1> SUFFICES ASSUME PortInit PROVE LoopInv /\ D!Init
  OBVIOUS
<1> USE DEF PortInit, ShInit, Init
<1>1. Bar = [p \in Core |-> "disp"]
  BY DEF Bar
<1>2. D!Init
  BY <1>1, TopSame DEF D!Init, Bar, D!Core, Core
<1>3. OneCoreEach
  BY TopOnce DEF OneCoreEach
<1>4. \A p \in Core : ~Loading(p)
  BY DEF Loading
<1>5. LoopInv
  BY <1>3, <1>4 DEF LoopInv, PC, Phase
<1> QED BY <1>2, <1>5

(* Both dispatchers implement Dispatcher, the SH port's if a core that was *)
(* told to load its task has done so before the lock is taken again.       *)
THEOREM PortsImplementDispatcher ==
  ASSUME Timely
  PROVE  PortSpec => ImplementsDispatcher
<1>1. PortInit => LoopInv /\ D!Init
  BY InitStep
<1>2. LoopInv /\ [PortNext]_portVars => LoopInv' /\ [D!Next]_D!vars
  <2> SUFFICES ASSUME LoopInv, [PortNext]_portVars
               PROVE  LoopInv' /\ DStep
    BY DEF DStep
  <2>1. CASE ByArm(Next)
    BY <2>1, ArmStep
  <2>2. CASE BySh(ShNext)
    <3>1. PICK p \in Core : \/ CriticalSection(p) \/ dispatch_to_schedtsk(p)
                            \/ _tk_ret_int(p) \/ Unlocked(p) \/ Loop(p)
      BY <2>2 DEF BySh, ShNext
    <3>2. port = "SH" /\ UNCHANGED port
      BY <2>2 DEF BySh
    <3> QED BY <3>1, <3>2, LoopStep, OutsideStep, Timely
  <2>3. CASE UNCHANGED portVars
    <3>1. UNCHANGED <<vars, phase, lock, r8, port>>
      BY <2>3 DEF portVars, shVars, shOnly
    <3>2. Bar' = Bar
      BY <3>1 DEF Bar, vars
    <3>3. DStep
      BY <3>1, <3>2, Hidden
    <3>4. LoopInv'
      BY <3>1 DEF LoopInv, vars, OneCoreEach, Ready, Loading
    <3> QED BY <3>3, <3>4
  <2> QED BY <2>1, <2>2, <2>3 DEF PortNext
<1> QED BY <1>1, <1>2, PTL DEF PortSpec, ImplementsDispatcher, D!Spec

-----------------------------------------------------------------------------
(* What DispatcherProofs proves of Dispatcher therefore holds of both      *)
(* ports.  P is Dispatcher as D is, with its theorems.                     *)
P == INSTANCE DispatcherProofs WITH pc <- Bar

LEMMA TopP == \A q, d : D!ready_queue_top(q, d) = P!ready_queue_top(q, d)
  BY DEF P!ready_queue_top, D!ready_queue_top, P!S!Schedules, D!S!Schedules,
         P!S!Allowed, D!S!Allowed, P!S!Selected, D!S!Selected, P!S!FoldLeft, D!S!FoldLeft,
         P!S!MapThenFoldSet, D!S!MapThenFoldSet, P!S!Max, D!S!Max, P!S!Matchable, D!S!Matchable,
         P!S!Core, D!S!Core, P!S!IsInjective, D!S!IsInjective, P!S!Range, D!S!Range

LEMMA WithoutP == \A q, t : D!Without(q, t) = P!Without(q, t)
  BY DEF P!Without, D!Without, P!RemoveFirst, D!RemoveFirst, P!RemoveAt, D!RemoveAt,
         P!SelectInSeq, D!SelectInSeq, P!Min, D!Min

LEMMA QueueP ==
  \A q, t : D!Inserted(q, t) = P!Inserted(q, t) /\ D!Queue(q, t) = P!Queue(q, t)
<1>1. \A q, t : D!Before(q, t) = P!Before(q, t) /\ D!UpTo(q, t) = P!UpTo(q, t)
  BY DEF P!Before, D!Before, P!UpTo, D!UpTo, P!Cardinality, D!Cardinality
<1> QED BY <1>1 DEF P!Inserted, D!Inserted, P!Queue, D!Queue, P!InsertAt, D!InsertAt

LEMMA InitP == D!Init <=> P!Init
  BY TopP DEF P!Init, D!Init, Bar, D!Core, P!Core

LEMMA PartsP ==
  /\ \A p, sf : D!into_dsp(p, sf) <=> P!into_dsp(p, sf)
  /\ \A p : D!ByTask(p) <=> P!ByTask(p)
  /\ \A p : D!ByAny(p) <=> P!ByAny(p)
  /\ \A p, u : D!Other(p, u) <=> P!Other(p, u)
  /\ \A u : D!is_ctxtsk(u) <=> P!is_ctxtsk(u)
  /\ \A u : D!Unlinked(u) <=> P!Unlinked(u)
  /\ \A p : D!Ctx(p) = P!Ctx(p)
  /\ \A p : D!dispatch_request_other(p) <=> P!dispatch_request_other(p)
  /\ \A p : D!Returned(p) = P!Returned(p)
  BY DEF Bar, D!Core, P!Core, D!into_dsp, P!into_dsp, D!ByTask, P!ByTask, D!ByAny, P!ByAny,
   D!Other, P!Other, D!is_ctxtsk, P!is_ctxtsk, D!Unlinked, P!Unlinked, D!Ctx, P!Ctx,
   D!dispatch_request_other, P!dispatch_request_other, D!Returned, P!Returned

LEMMA SectionP ==
  /\ \A p, sf, forced : D!EndCritical(p, sf, forced) <=> P!EndCritical(p, sf, forced)
  /\ \A p, q, d : D!END_CRITICAL_SECTION(p, q, d) <=> P!END_CRITICAL_SECTION(p, q, d)
  /\ \A p, q, d, sf : D!END_CRITICAL_FORCE(p, q, d, sf) <=> P!END_CRITICAL_FORCE(p, q, d, sf)
  /\ \A p : D!END_CRITICAL_NO_DISPATCH(p) <=> P!END_CRITICAL_NO_DISPATCH(p)
<1>1. \A p, sf, forced : D!EndCritical(p, sf, forced) <=> P!EndCritical(p, sf, forced)
  BY PartsP DEF D!EndCritical, P!EndCritical, Bar
<1>2. \A q, d : D!update_schedtsk(q, d) <=> P!update_schedtsk(q, d)
  BY TopP DEF D!update_schedtsk, P!update_schedtsk
<1>3. \A p, q, d : D!END_CRITICAL_SECTION(p, q, d) <=> P!END_CRITICAL_SECTION(p, q, d)
  BY <1>1, <1>2 DEF D!END_CRITICAL_SECTION, P!END_CRITICAL_SECTION
<1>4. \A p, q, d, sf : D!END_CRITICAL_FORCE(p, q, d, sf) <=> P!END_CRITICAL_FORCE(p, q, d, sf)
  BY <1>1, <1>2 DEF D!END_CRITICAL_FORCE, P!END_CRITICAL_FORCE
<1>5. \A p : D!END_CRITICAL_NO_DISPATCH(p) <=> P!END_CRITICAL_NO_DISPATCH(p)
  BY PartsP DEF D!END_CRITICAL_NO_DISPATCH, P!END_CRITICAL_NO_DISPATCH, Bar
<1> QED BY <1>1, <1>3, <1>4, <1>5

LEMMA SystemCallP ==
  ASSUME NEW p PROVE D!SystemCall(p) <=> P!SystemCall(p)
<1>1. D!NoEffect(p) <=> P!NoEffect(p)
  BY PartsP, SectionP DEF D!NoEffect, P!NoEffect
<1>2. D!make_wait(p) <=> P!make_wait(p)
  BY WithoutP, PartsP, SectionP DEF D!make_wait, P!make_wait
<1>3. D!_tk_ext_tsk(p) <=> P!_tk_ext_tsk(p)
  BY WithoutP, PartsP, SectionP DEF D!_tk_ext_tsk, P!_tk_ext_tsk
<1>4. D!_tk_exd_tsk(p) <=> P!_tk_exd_tsk(p)
  BY WithoutP, PartsP, SectionP DEF D!_tk_exd_tsk, P!_tk_exd_tsk
<1>5. D!_tk_dis_dsp(p) <=> P!_tk_dis_dsp(p)
  BY PartsP, SectionP DEF D!_tk_dis_dsp, P!_tk_dis_dsp
<1>6. D!_tk_ena_dsp(p) <=> P!_tk_ena_dsp(p)
  BY TopP, PartsP, SectionP DEF D!_tk_ena_dsp, P!_tk_ena_dsp
<1>7. D!_tk_rot_rdq(p) <=> P!_tk_rot_rdq(p)
  BY WithoutP, QueueP, PartsP, SectionP DEF D!_tk_rot_rdq, P!_tk_rot_rdq, D!Last, P!Last
<1>8. ASSUME NEW u PROVE D!make_non_wait(p, u) <=> P!make_non_wait(p, u)
  BY QueueP, PartsP, SectionP DEF D!make_non_wait, P!make_non_wait
<1>9. ASSUME NEW u PROVE D!_tk_sus_tsk(p, u) <=> P!_tk_sus_tsk(p, u)
  BY WithoutP, QueueP, PartsP, SectionP DEF D!_tk_sus_tsk, P!_tk_sus_tsk
<1>10. ASSUME NEW u PROVE D!_tk_rsm_tsk(p, u) <=> P!_tk_rsm_tsk(p, u)
  BY QueueP, PartsP, SectionP DEF D!_tk_rsm_tsk, P!_tk_rsm_tsk
<1>11. ASSUME NEW u PROVE D!_tk_sta_tsk(p, u) <=> P!_tk_sta_tsk(p, u)
  BY QueueP, PartsP, SectionP DEF D!_tk_sta_tsk, P!_tk_sta_tsk
<1>12. ASSUME NEW u PROVE D!_tk_ter_tsk(p, u) <=> P!_tk_ter_tsk(p, u)
  BY WithoutP, PartsP, SectionP DEF D!_tk_ter_tsk, P!_tk_ter_tsk
<1>13. ASSUME NEW u PROVE D!_tk_del_tsk(p, u) <=> P!_tk_del_tsk(p, u)
  BY PartsP, SectionP DEF D!_tk_del_tsk, P!_tk_del_tsk
<1>14. ASSUME NEW u PROVE D!_tk_cre_tsk(p, u) <=> P!_tk_cre_tsk(p, u)
  BY PartsP, SectionP DEF D!_tk_cre_tsk, P!_tk_cre_tsk
<1> QED BY <1>1, <1>2, <1>3, <1>4, <1>5, <1>6, <1>7, <1>8, <1>9, <1>10,
       <1>11, <1>12, <1>13, <1>14
    DEF D!SystemCall, P!SystemCall

LEMMA NextP == D!Next <=> P!Next
<1> SUFFICES ASSUME NEW p
             PROVE  /\ D!Enter(p) <=> P!Enter(p)
                    /\ D!ForceDispatch(p) <=> P!ForceDispatch(p)
                    /\ D!Interrupt(p) <=> P!Interrupt(p)
                    /\ D!TakeIPI(p) <=> P!TakeIPI(p)
                    /\ D!chk_dsp(p) <=> P!chk_dsp(p)
                    /\ D!ReturnToLoop(p) <=> P!ReturnToLoop(p)
                    /\ D!chk_restore(p) <=> P!chk_restore(p)
  BY SystemCallP DEF D!Next, P!Next, D!Core, P!Core
<1>1. D!Enter(p) <=> P!Enter(p)
  BY DEF D!Enter, P!Enter, Bar
<1>2. D!ForceDispatch(p) <=> P!ForceDispatch(p)
  BY DEF D!ForceDispatch, P!ForceDispatch, Bar, D!into_dsp, P!into_dsp,
         D!Ctx, P!Ctx, D!ByTask, P!ByTask
<1>3. D!Interrupt(p) <=> P!Interrupt(p)
  BY DEF D!Interrupt, P!Interrupt, Bar
<1>4. D!TakeIPI(p) <=> P!TakeIPI(p)
  BY DEF D!TakeIPI, P!TakeIPI, Bar
<1>5. D!chk_dsp(p) <=> P!chk_dsp(p)
  BY DEF D!chk_dsp, P!chk_dsp, Bar, D!into_dsp, P!into_dsp,
         D!Ctx, P!Ctx, D!ByTask, P!ByTask
<1>6. D!ReturnToLoop(p) <=> P!ReturnToLoop(p)
  BY DEF D!ReturnToLoop, P!ReturnToLoop, Bar
<1>7. D!chk_restore(p) <=> P!chk_restore(p)
  BY PartsP DEF D!chk_restore, P!chk_restore, Bar
<1> QED BY <1>1, <1>2, <1>3, <1>4, <1>5, <1>6, <1>7

LEMMA SpecP == D!Spec <=> P!Spec
<1>1. UNCHANGED D!vars <=> UNCHANGED P!vars
  BY DEF D!vars, P!vars, Bar
<1>2. [D!Next]_D!vars <=> [P!Next]_P!vars
  BY <1>1, NextP
<1> QED BY InitP, <1>2, PTL DEF D!Spec, P!Spec

(* The assumption on the constants, of P. *)
LEMMA ConstP ==
  /\ NoTask \notin Task /\ NProc \in Nat \ {0}
  /\ InitTask \in Task /\ Free \subseteq Task \ {InitTask}
  /\ Aff \in [Task -> (SUBSET P!Core) \ {{}}]
  BY ConstAssumption DEF P!Core, Core

LEMMA PortsImplementP ==
  ASSUME Timely
  PROVE  PortSpec => P!Spec
<1>1. PortSpec => D!Spec
  BY PortsImplementDispatcher DEF ImplementsDispatcher
<1> QED BY <1>1, SpecP, PTL

(* On neither port does a task ever run on two cores.                      *)
THEOREM PortsRunOnOneCore ==
  ASSUME Timely
  PROVE  PortSpec => []NoDoubleRun
<1>1. P!Spec => []P!NoDoubleRun
  BY ConstP, P!RunsOnOneCore
<1>2. P!NoDoubleRun => NoDoubleRun
  BY DEF P!NoDoubleRun, NoDoubleRun, P!Core, Core
<1> QED BY <1>1, <1>2, PortsImplementP, PTL

(* On neither port is the context a task starts with overwritten by a core *)
(* that still saves its earlier life.                                      *)
THEOREM PortsStartAfresh ==
  ASSUME Timely
  PROVE  PortSpec => []StartsAfresh
<1>1. P!Spec => []P!StartsAfresh
  BY ConstP, P!StartContextSafe
<1>2. P!StartsAfresh => StartsAfresh
  BY DEF P!StartsAfresh, StartsAfresh, P!Core, Core
<1> QED BY <1>1, <1>2, PortsImplementP, PTL

(* On neither port does a core go on with a task it should not run without *)
(* an interrupt on its way to it, unless it has dispatching disabled.      *)
THEOREM PortsTellCores ==
  ASSUME Timely
  PROVE  PortSpec => []DispatchRequested
<1>1. P!Spec => []P!DispatchRequested
  BY ConstP, P!NoMissedDispatch
<1>2. P!DispatchRequested => DispatchRequested
  BY DEF P!DispatchRequested, DispatchRequested, P!Core, Core, Bar
<1> QED BY <1>1, <1>2, PortsImplementP, PTL

(* On either port the stacks and the control block of a deleted task are   *)
(* freed once, by nobody while a core still runs on them.                  *)
THEOREM PortsFreeOnce ==
  ASSUME Timely, "rot_rdq" \notin Calls \/ "sus_tsk" \notin Calls
  PROVE  PortSpec => []DeletedOnce
<1>1. P!RotationSafe
  BY DEF P!RotationSafe
<1>2. P!Spec => []P!DeletedOnce
  BY <1>1, ConstP, P!FreedOnce
<1>3. P!DeletedOnce => DeletedOnce
  BY DEF P!DeletedOnce, DeletedOnce, P!Core, Core, P!is_ctxtsk, is_ctxtsk
<1> QED BY <1>2, <1>3, PortsImplementP, PTL

(* On either port only READY tasks are in the ready queue and given to a   *)
(* core: none that another core suspended, terminated or deleted.          *)
THEOREM PortsScheduleReady ==
  ASSUME Timely, "rot_rdq" \notin Calls \/ "sus_tsk" \notin Calls
  PROVE  PortSpec => []ScheduledReady
<1>1. P!RotationSafe
  BY DEF P!RotationSafe
<1>2. P!Spec => []P!ScheduledReady
  BY <1>1, ConstP, P!OnlyReadyScheduled
<1>3. P!ScheduledReady => ScheduledReady
  BY DEF P!ScheduledReady, ScheduledReady, P!Core, Core, P!IsInjective, IsInjective, P!Range, Range
<1> QED BY <1>2, <1>3, PortsImplementP, PTL
=============================================================================
