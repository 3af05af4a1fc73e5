----------------------------- MODULE Dispatcher -----------------------------
(***************************************************************************)
(* Tasks on several cores: what a core does between the kernel's critical  *)
(* sections, how ctxtsk follows schedtsk, and what becomes of a task that  *)
(* another core suspends, terminates or deletes while it runs.             *)
(*                                                                         *)
(* One spin lock guards the kernel.  A critical section is a step: nobody  *)
(* sees it half done, and BEGIN_CRITICAL_SECTION disables interrupts until *)
(* END_CRITICAL_SECTION or the end of into_dsp.  What lies between such    *)
(* steps is where the cores interleave: a core that has disabled its       *)
(* interrupts and spins for the lock, an interrupt requested but not taken,*)
(* a handler, the dispatcher's loop.                                       *)
(***************************************************************************)
EXTENDS Integers, SequencesExt

CONSTANTS
  Task,     \* the task control blocks
  NoTask,   \* NULL
  NProc,    \* num_proc
  InitTask, \* the task the system starts
  Free,     \* the control blocks that are free at the start
  Pri,      \* the priority of each task, 1 is the highest
  Aff,      \* tcb->assprc of each task
  Calls     \* the system calls in use

Core == 1..NProc

ASSUME ConstAssumption ==
  /\ NoTask \notin Task /\ NProc \in Nat \ {0}
  /\ InitTask \in Task /\ Free \subseteq Task \ {InitTask}
  /\ Aff \in [Task -> (SUBSET Core) \ {{}}]

VARIABLES
  state,    \* tcb->state
  stkfree,  \* the tasks with tcb->stkfree: to be freed when dispatched away
  free,     \* free_tcb
  ready,    \* the tasks of the ready queue in order
  schedtsk, \* schedtsk[]
  ctxtsk,   \* ctxtsk[]
  dds,      \* the cores in tk_dis_dsp
  pc,       \* what each core does, see PC
  ipi,      \* the cores with an interrupt from another core pending
  fresh,    \* the tasks whose saved context is the entry of the task
  tskque    \* tcb->tskque of a task suspended while it ran: the queue it was in

vars == <<state, stkfree, free, ready, schedtsk, ctxtsk, dds, pc, ipi, fresh, tskque>>

(* "task": runs ctxtsk with interrupts enabled; "spin": its task has       *)
(* disabled them to enter the kernel; "int": a handler that interrupted the*)
(* task; "disp": the dispatcher's loop; "intd": a handler on top of it.    *)
PC == {"task", "spin", "int", "disp", "intd"}

(* An operator with a name of the form Operator_Bug is Operator with a      *)
(* plausible mistake, which one of the properties below rules out.         *)

Ctx(p) == ctxtsk[p]
is_ctxtsk(t) == \E p \in Core : ctxtsk[p] = t

S == INSTANCE Schedule WITH order <- ready, cores <- Aff, answer <- schedtsk

(* ready_queue_top on the queue q with the dispatch-disabled cores d. *)
ready_queue_top(q, d) ==
  S!Schedules(q, [t \in Task |-> S!Allowed(t, Aff, ctxtsk, d)])

Without(q, t) == RemoveFirst(q, t)

(* How many tasks of the ready queue q come before the queue of t's        *)
(* priority, and before its end.                                           *)
Before(q, t) == Cardinality({i \in DOMAIN q : Pri[q[i]] < Pri[t]})
UpTo(q, t) == Cardinality({i \in DOMAIN q : Pri[q[i]] <= Pri[t]})

(* The queue of t's priority. *)
Queue(q, t) == SubSeq(q, Before(q, t) + 1, UpTo(q, t))
Unlinked(t) == tskque' = [tskque EXCEPT ![t] = <<>>]

(* ready_queue_insert: behind the tasks of its priority. *)
Inserted(q, t) == InsertAt(q, UpTo(q, t) + 1, t)

-----------------------------------------------------------------------------
(* Entering and leaving the kernel *)

(* A system call of a task, at BEGIN_CRITICAL_SECTION: a task that was     *)
(* terminated meanwhile does not get through.                              *)
ByTask(p) == pc[p] = "spin" /\ state[Ctx(p)] \notin {"DORMANT", "NONEXIST"}

(* A system call of a task or of a handler. *)
ByAny(p) == ByTask(p) \/ pc[p] \in {"int", "intd"}

(* into_dsp: the core drops its task and frees it if it was deleted. *)
into_dsp(p, sf) ==
  /\ ctxtsk' = [ctxtsk EXCEPT ![p] = NoTask]
  /\ pc' = [pc EXCEPT ![p] = "disp"]
  /\ free' = free \cup (sf \cap {Ctx(p)})
  /\ stkfree' = sf \ {Ctx(p)}

(* The return from a system call to the task or to the handler. *)
Returned(p) == [pc EXCEPT ![p] = IF @ = "spin" THEN "task" ELSE @]

(* update_schedtsk: the choice is made again if the queue has changed. *)
update_schedtsk(q, d) ==
  IF q = ready THEN schedtsk' = schedtsk ELSE schedtsk' \in ready_queue_top(q, d)

dispatch_request_other_Scheduled(p) ==
  ipi' = ipi \cup {q \in Core \ {p} : schedtsk'[q] # NoTask /\ ctxtsk[q] # schedtsk'[q]}

dispatch_request_other(p) ==
  ipi' = ipi \cup {q \in Core \ {p} : ctxtsk[q] # NoTask /\ ctxtsk[q] # schedtsk'[q]}

(* END_CRITICAL_SECTION with the new ready queue and dispatch_disabled;    *)
(* sf is stkfree, and forced is END_CRITICAL_FORCE.                        *)
EndCritical(p, sf, forced) ==
  /\ dispatch_request_other(p)
  /\ IF forced \/ (pc[p] = "spin" /\ Ctx(p) # schedtsk'[p] /\ p \notin dds')
     THEN into_dsp(p, sf)
     ELSE pc' = Returned(p) /\ stkfree' = sf /\ UNCHANGED <<ctxtsk, free>>

END_CRITICAL_SECTION(p, q, d) ==
  /\ ready' = q
  /\ dds' = d
  /\ update_schedtsk(q, d)
  /\ EndCritical(p, stkfree, FALSE)

END_CRITICAL_FORCE(p, q, d, sf) ==
  /\ ready' = q
  /\ dds' = d
  /\ update_schedtsk(q, d)
  /\ EndCritical(p, sf, TRUE)

END_CRITICAL_NO_DISPATCH(p) ==
  pc' = Returned(p) /\ UNCHANGED <<ready, schedtsk, ctxtsk, ipi>>

(* A task calls the kernel: interrupts are disabled, the lock is not held. *)
Enter(p) ==
  /\ pc[p] = "task"
  /\ pc' = [pc EXCEPT ![p] = "spin"]
  /\ UNCHANGED <<state, stkfree, free, ready, schedtsk, ctxtsk, dds, ipi, fresh, tskque>>

(* force_dispatch of a task that was terminated while it spun. *)
ForceDispatch(p) ==
  /\ pc[p] = "spin" /\ ~ByTask(p)
  /\ into_dsp(p, stkfree)
  /\ UNCHANGED <<state, ready, schedtsk, dds, ipi, fresh, tskque>>

-----------------------------------------------------------------------------
(* System calls; p is the core, t the task that calls, u another task. *)

(* A call that changes nothing or fails. *)
NoEffect(p) ==
  /\ ByTask(p)
  /\ END_CRITICAL_SECTION(p, ready, dds)
  /\ UNCHANGED <<state, fresh, tskque>>

(* tk_slp_tsk and every other call that waits: make_wait.  A task that has *)
(* been suspended on its way is in the ready queue no more.                *)
make_wait(p) ==
  /\ ByTask(p) /\ "wait" \in Calls
  /\ p \notin dds
  /\ LET t == Ctx(p)
     IN /\ state' = [state EXCEPT ![t] = IF @ = "READY" THEN "WAIT" ELSE "WAITSUS"]
        /\ END_CRITICAL_SECTION(p, Without(ready, t), dds)
  /\ Unlinked(Ctx(p))
  /\ UNCHANGED fresh

(* wait_release of a task: make_non_wait. *)
make_non_wait(p, u) ==
  /\ ByAny(p)
  /\ \/ /\ state[u] = "WAIT"
        /\ state' = [state EXCEPT ![u] = "READY"]
        /\ END_CRITICAL_SECTION(p, Inserted(ready, u), dds)
     \/ /\ state[u] = "WAITSUS"
        /\ state' = [state EXCEPT ![u] = "SUSPEND"]
        /\ END_CRITICAL_SECTION(p, ready, dds)
  /\ UNCHANGED <<fresh, tskque>>

(* CHECK_NONSELF: handlers have no task of their own. *)
Other(p, u) == pc[p] = "spin" => u # Ctx(p)

_tk_sus_tsk(p, u) ==
  /\ ByAny(p) /\ Other(p, u) /\ "sus_tsk" \in Calls
  /\ \A q \in dds : ctxtsk[q] # u
  /\ \/ /\ state[u] = "READY"
        /\ state' = [state EXCEPT ![u] = "SUSPEND"]
        /\ tskque' = [tskque EXCEPT ![u] = IF is_ctxtsk(u) THEN Queue(ready, u) ELSE <<>>]
        /\ END_CRITICAL_SECTION(p, Without(ready, u), dds)
     \/ /\ state[u] = "WAIT"
        /\ state' = [state EXCEPT ![u] = "WAITSUS"]
        /\ END_CRITICAL_SECTION(p, ready, dds)
        /\ UNCHANGED tskque
  /\ UNCHANGED fresh

_tk_rsm_tsk(p, u) ==
  /\ ByAny(p) /\ Other(p, u)
  /\ \/ /\ state[u] = "SUSPEND"
        /\ state' = [state EXCEPT ![u] = "READY"]
        /\ Unlinked(u)
        /\ END_CRITICAL_SECTION(p, Inserted(ready, u), dds)
     \/ /\ state[u] = "WAITSUS"
        /\ state' = [state EXCEPT ![u] = "WAIT"]
        /\ END_CRITICAL_SECTION(p, ready, dds)
        /\ UNCHANGED tskque
  /\ UNCHANGED fresh

_tk_sta_tsk_Running(p, u) ==
  /\ ByAny(p) /\ Other(p, u)
  /\ state[u] = "DORMANT"
  /\ state' = [state EXCEPT ![u] = "READY"]
  /\ fresh' = fresh \cup {u}
  /\ END_CRITICAL_SECTION(p, Inserted(ready, u), dds)
  /\ UNCHANGED tskque

(* The old activation of the task may still run on its core. *)
_tk_sta_tsk(p, u) ==
  /\ ByAny(p) /\ Other(p, u)
  /\ state[u] = "DORMANT"
  /\ ~is_ctxtsk(u)
  /\ state' = [state EXCEPT ![u] = "READY"]
  /\ fresh' = fresh \cup {u}
  /\ END_CRITICAL_SECTION(p, Inserted(ready, u), dds)
  /\ UNCHANGED tskque

_tk_ter_tsk_StaysReady(p, u) ==
  /\ ByAny(p) /\ Other(p, u) /\ "ter_tsk" \in Calls
  /\ state[u] \notin {"DORMANT", "NONEXIST"}
  /\ state' = [state EXCEPT ![u] = "DORMANT"]
  /\ fresh' = fresh \ {u}
  /\ Unlinked(u)
  /\ END_CRITICAL_SECTION(p, ready, {q \in dds : ctxtsk[q] # u})

(* _ter_tsk and make_dormant; the core that runs u learns of it later. *)
_tk_ter_tsk(p, u) ==
  /\ ByAny(p) /\ Other(p, u) /\ "ter_tsk" \in Calls
  /\ state[u] \notin {"DORMANT", "NONEXIST"}
  /\ state' = [state EXCEPT ![u] = "DORMANT"]
  /\ fresh' = fresh \ {u}
  /\ Unlinked(u)
  /\ END_CRITICAL_SECTION(p, Without(ready, u), {q \in dds : ctxtsk[q] # u})

_tk_ext_tsk(p) ==
  /\ ByTask(p)
  /\ LET t == Ctx(p)
     IN /\ state' = [state EXCEPT ![t] = "DORMANT"]
        /\ END_CRITICAL_FORCE(p, Without(ready, t), dds \ {p}, stkfree)
  /\ Unlinked(Ctx(p))
  /\ UNCHANGED fresh

_tk_exd_tsk(p) ==
  /\ ByTask(p) /\ "del_tsk" \in Calls
  /\ LET t == Ctx(p)
     IN /\ state' = [state EXCEPT ![t] = "NONEXIST"]
        /\ END_CRITICAL_FORCE(p, Without(ready, t), dds \ {p}, stkfree \cup {t})
  /\ Unlinked(Ctx(p))
  /\ UNCHANGED fresh

_tk_del_tsk_AtOnce(p, u) ==
  /\ ByAny(p) /\ Other(p, u) /\ "del_tsk" \in Calls
  /\ state[u] = "DORMANT"
  /\ state' = [state EXCEPT ![u] = "NONEXIST"]
  /\ free' = free \cup {u}
  /\ END_CRITICAL_NO_DISPATCH(p)
  /\ UNCHANGED <<dds, fresh, stkfree, tskque>>

(* A task that still runs is freed by its dispatcher. *)
_tk_del_tsk(p, u) ==
  /\ ByAny(p) /\ Other(p, u) /\ "del_tsk" \in Calls
  /\ state[u] = "DORMANT"
  /\ state' = [state EXCEPT ![u] = "NONEXIST"]
  /\ IF is_ctxtsk(u) THEN stkfree' = stkfree \cup {u} /\ UNCHANGED free
                     ELSE free' = free \cup {u} /\ UNCHANGED stkfree
  /\ END_CRITICAL_NO_DISPATCH(p)
  /\ UNCHANGED <<dds, fresh, tskque>>

_tk_cre_tsk(p, u) ==
  /\ ByAny(p)
  /\ u \in free
  /\ state' = [state EXCEPT ![u] = "DORMANT"]
  /\ free' = free \ {u}
  /\ stkfree' = stkfree \ {u}
  /\ END_CRITICAL_NO_DISPATCH(p)
  /\ UNCHANGED <<dds, fresh, tskque>>

_tk_dis_dsp_NoRetry(p) ==
  /\ ByTask(p) /\ "dis_dsp" \in Calls
  /\ dds' = dds \cup {p}
  /\ END_CRITICAL_NO_DISPATCH(p)
  /\ UNCHANGED <<state, stkfree, free, fresh, tskque>>

(* A task that was suspended on its way tries again. *)
_tk_dis_dsp(p) ==
  /\ ByTask(p) /\ "dis_dsp" \in Calls
  /\ dds' = IF state[Ctx(p)] \in {"SUSPEND", "WAITSUS"} THEN dds ELSE dds \cup {p}
  /\ END_CRITICAL_NO_DISPATCH(p)
  /\ UNCHANGED <<state, stkfree, free, fresh, tskque>>

(* The schedule is always chosen again. *)
_tk_ena_dsp(p) ==
  /\ ByTask(p) /\ "dis_dsp" \in Calls
  /\ dds' = dds \ {p}
  /\ schedtsk' \in ready_queue_top(ready, dds')
  /\ EndCritical(p, stkfree, FALSE)
  /\ UNCHANGED <<state, ready, fresh, tskque>>

(* _tk_rot_rdq(TPRI_RUN) of a task: rotate_ready_queue_ctx, which moves the*)
(* calling task to the end of its queue unless it is the last.  It goes by *)
(* tcb->tskque, also for a task that was suspended on its way and is in no *)
(* queue; that is modelled while its neighbours are still where it left    *)
(* them, which makes the links those of a task that is still queued.       *)
_tk_rot_rdq(p) ==
  /\ ByTask(p) /\ "rot_rdq" \in Calls
  /\ LET t == Ctx(p)
         linked == IF state[t] = "READY" THEN Queue(ready, t) ELSE tskque[t]
     IN /\ Without(linked, t) = Without(Queue(ready, t), t)
        /\ END_CRITICAL_SECTION(p, IF Last(linked) = t THEN ready
                                   ELSE Inserted(Without(ready, t), t), dds)
  /\ UNCHANGED <<state, fresh, tskque>>

-----------------------------------------------------------------------------
(* Interrupts and the dispatcher *)

Interrupt(p) ==
  /\ pc[p] \in {"task", "disp"}
  /\ "int" \in Calls
  /\ pc' = [pc EXCEPT ![p] = IF @ = "task" THEN "int" ELSE "intd"]
  /\ UNCHANGED <<state, stkfree, free, ready, schedtsk, ctxtsk, dds, ipi, fresh, tskque>>

(* The interrupt another core asked for; its handler does nothing. *)
TakeIPI(p) ==
  /\ p \in ipi
  /\ pc[p] # "spin"
  /\ ipi' = ipi \ {p}
  /\ pc' = [pc EXCEPT ![p] = IF @ = "task" THEN "int" ELSE IF @ = "disp" THEN "intd" ELSE @]
  /\ UNCHANGED <<state, stkfree, free, ready, schedtsk, ctxtsk, dds, fresh, tskque>>

(* tk_ret_int: chk_dsp dispatches if the core should run another task. *)
chk_dsp(p) ==
  /\ pc[p] = "int"
  /\ IF p \notin dds /\ Ctx(p) # schedtsk[p]
     THEN into_dsp(p, stkfree)
     ELSE pc' = [pc EXCEPT ![p] = "task"] /\ UNCHANGED <<stkfree, free, ctxtsk>>
  /\ UNCHANGED <<state, ready, schedtsk, dds, ipi, fresh, tskque>>

ReturnToLoop(p) ==
  /\ pc[p] = "intd"
  /\ pc' = [pc EXCEPT ![p] = "disp"]
  /\ UNCHANGED <<state, stkfree, free, ready, schedtsk, ctxtsk, dds, ipi, fresh, tskque>>

chk_restore_AnyCore(p) ==
  /\ pc[p] = "disp"
  /\ schedtsk[p] # NoTask
  /\ ctxtsk' = [ctxtsk EXCEPT ![p] = schedtsk[p]]
  /\ pc' = [pc EXCEPT ![p] = "task"]
  /\ fresh' = fresh \ {schedtsk[p]}
  /\ UNCHANGED <<state, stkfree, free, ready, schedtsk, dds, ipi, tskque>>

(* chk_restore: the task is taken once no core holds its context. *)
chk_restore(p) ==
  /\ pc[p] = "disp"
  /\ schedtsk[p] # NoTask
  /\ ~is_ctxtsk(schedtsk[p])
  /\ ctxtsk' = [ctxtsk EXCEPT ![p] = schedtsk[p]]
  /\ pc' = [pc EXCEPT ![p] = "task"]
  /\ fresh' = fresh \ {schedtsk[p]}
  /\ UNCHANGED <<state, stkfree, free, ready, schedtsk, dds, ipi, tskque>>

-----------------------------------------------------------------------------
Init ==
  /\ state = [t \in Task |-> IF t = InitTask THEN "READY"
                             ELSE IF t \in Free THEN "NONEXIST" ELSE "DORMANT"]
  /\ stkfree = {}
  /\ free = Free
  /\ ready = <<InitTask>>
  /\ dds = {}
  /\ ctxtsk = [p \in Core |-> NoTask]
  /\ schedtsk \in ready_queue_top(ready, dds)
  /\ pc = [p \in Core |-> "disp"]
  /\ ipi = {}
  /\ fresh = {InitTask}
  /\ tskque = [t \in Task |-> <<>>]

SystemCall(p) ==
  \/ NoEffect(p) \/ make_wait(p) \/ _tk_ext_tsk(p) \/ _tk_exd_tsk(p)
  \/ _tk_dis_dsp(p) \/ _tk_ena_dsp(p) \/ _tk_rot_rdq(p)
  \/ \E u \in Task : \/ make_non_wait(p, u) \/ _tk_sus_tsk(p, u) \/ _tk_rsm_tsk(p, u)
                     \/ _tk_sta_tsk(p, u) \/ _tk_ter_tsk(p, u)
                     \/ _tk_del_tsk(p, u) \/ _tk_cre_tsk(p, u)

Next ==
  \E p \in Core :
    \/ Enter(p) \/ ForceDispatch(p) \/ SystemCall(p)
    \/ Interrupt(p) \/ TakeIPI(p) \/ chk_dsp(p) \/ ReturnToLoop(p) \/ chk_restore(p)

Spec == Init /\ [][Next]_vars

-----------------------------------------------------------------------------
(* Properties *)

States == {"NONEXIST", "DORMANT", "READY", "WAIT", "SUSPEND", "WAITSUS"}

(* Each variable holds what its C counterpart can; a core holds a task     *)
(* exactly while it runs it or has interrupted it.                         *)
TypeOK ==
  /\ state \in [Task -> States]
  /\ stkfree \subseteq Task /\ free \subseteq Task /\ fresh \subseteq Task
  /\ ready \in Seq(Task) /\ tskque \in [Task -> Seq(Task)]
  /\ schedtsk \in [Core -> Task \cup {NoTask}]
  /\ ctxtsk \in [Core -> Task \cup {NoTask}]
  /\ dds \subseteq Core /\ ipi \subseteq Core
  /\ pc \in [Core -> PC]
  /\ \A p \in Core : ctxtsk[p] = NoTask <=> pc[p] \in {"disp", "intd"}

(* No task runs on two cores: the dispatcher of a core that a task moves to*)
(* waits until the core it leaves has saved its context.                   *)
NoDoubleRun ==
  \A p, q \in Core : ctxtsk[p] = ctxtsk[q] /\ p # q => ctxtsk[p] = NoTask

(* The stacks and the control block of a deleted task are freed exactly    *)
(* once: by tk_del_tsk, or, while a core still runs on the stack, by that  *)
(* core's dispatcher when it leaves the task.                              *)
DeletedOnce ==
  /\ \A p \in Core : ctxtsk[p] \notin free
  /\ \A t \in stkfree : is_ctxtsk(t) /\ t \notin free
  /\ \A t \in Task : state[t] = "NONEXIST" <=> t \in free \cup stkfree

(* The ready queue holds the READY tasks, and only READY tasks can be given*)
(* to a core: none that was suspended, terminated or deleted on another    *)
(* core meanwhile.                                                         *)
ScheduledReady ==
  /\ IsInjective(ready)
  /\ Range(ready) = {t \in Task : state[t] = "READY"}
  /\ \A p \in Core : schedtsk[p] # NoTask => state[schedtsk[p]] = "READY"

(* A task that was started begins at its entry: no core is left that would *)
(* save the context of the task's earlier life over it.                    *)
StartsAfresh == \A p \in Core : ctxtsk[p] \notin fresh

(* A core that runs a task it should not run has been told, or is about to *)
(* find out at the end of a critical section or of an interrupt.           *)
DispatchRequested ==
  \A p \in Core :
    pc[p] = "task" /\ ctxtsk[p] # schedtsk[p] => p \in ipi \/ p \in dds

(* A task that waits, is suspended or has ended leaves its core, whatever  *)
(* it and the other cores do.                                              *)
StopsRunning ==
  \A p \in Core, t \in Task :
    (ctxtsk[p] = t /\ state[t] # "READY") ~> (ctxtsk[p] # t \/ state[t] = "READY")

(* When the tasks leave the schedule alone, every core comes to run the    *)
(* task it should, unless a core keeps dispatching disabled.               *)
Quiet == \E p \in Core : \/ ForceDispatch(p) \/ NoEffect(p) \/ TakeIPI(p)
                         \/ chk_dsp(p) \/ ReturnToLoop(p) \/ chk_restore(p)
=============================================================================
