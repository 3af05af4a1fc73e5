------------------------------ MODULE Schedule ------------------------------
(***************************************************************************)
(* What ready_queue_top promises to the dispatcher: given the tasks in     *)
(* ready order, an assignment of tasks to cores in which nobody is left    *)
(* out in favour of a task behind it.  How it is found is ReadyQueueTop.   *)
(***************************************************************************)
EXTENDS Integers, SequencesExt

CONSTANTS
  Task,    \* the tasks
  NoTask,  \* NULL
  NProc    \* num_proc


(* ALL_CORE_BIT; a set of cores is a bit pattern. *)
Core == 1..NProc

(* The cores task t may be scheduled on: a task in tk_dis_dsp stays where  *)
(* it runs, and its core takes no other task.  aff is tcb->assprc, ctx is  *)
(* ctxtsk and dds the cores with dispatch_disabled >= DDS_DISABLE.         *)
Allowed(t, aff, ctx, dds) ==
  LET own == {p \in dds : ctx[p] = t}
  IN IF own # {} THEN own ELSE aff[t] \ dds

(* All the tasks of S can run at the same time. *)
Matchable(S, cores) ==
  \E f \in [S -> Core] : IsInjective(f) /\ \A t \in S : f[t] \in cores[t]

(* The tasks to run: in ready order, each one that can run together with   *)
(* those taken before it.                                                  *)
Selected(order, cores) ==
  FoldLeft(LAMBDA S, t : IF Matchable(S \cup {t}, cores) THEN S \cup {t} ELSE S,
           {}, order)

(* A schedule runs the selected tasks, each once and on an allowed core. *)
Schedules(order, cores) ==
  {sch \in [Core -> Range(order) \cup {NoTask}] :
     /\ Range(sch) \ {NoTask} = Selected(order, cores)
     /\ \A p \in Core : sch[p] # NoTask => p \in cores[sch[p]]
     /\ \A p, q \in Core : sch[p] = sch[q] /\ sch[p] # NoTask => p = q}

-----------------------------------------------------------------------------
(* The operation: the inputs do not change while it runs under the kernel  *)
(* lock, and it answers once.                                              *)
VARIABLES
  order,  \* the tasks in the ready queue, highest priority first
  cores,  \* Allowed of each of them
  answer  \* the schedule, <<>> until there is one

Request ==
  /\ order \in Seq(Task)
  /\ IsInjective(order)
  /\ cores \in [Task -> SUBSET Core]
  /\ answer = <<>>

Answer ==
  /\ answer = <<>>
  /\ answer' \in Schedules(order, cores)
  /\ UNCHANGED <<order, cores>>

Spec == Request /\ [][Answer]_<<order, cores, answer>>
=============================================================================
