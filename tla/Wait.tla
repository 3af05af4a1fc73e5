------------------------------- MODULE Wait -------------------------------
(***************************************************************************)
(* What every object a task can wait for is built from: the wait state of  *)
(* the tasks, the wait queues, and wait.c's routines over them.            *)
(*                                                                         *)
(* A system call is one step: between BEGIN_CRITICAL_SECTION and its end   *)
(* nobody else sees the kernel's data (module Dispatcher).  The routines   *)
(* here are functions on a record k of the kernel's tables: k.tcb and k.wq *)
(* are the variables below, and each object's module adds its own table.   *)
(* Results (wercd) are left out: a call that fails changes nothing.  *)
(***************************************************************************)
EXTENDS Integers, SequencesExt

CONSTANTS
  Task,      \* the tasks, all of them created and started
  Events,    \* the task events of tk_wai_tev, "EV1" to "EV8"
  QueueName, \* the wait queues: <<wait factor, object>>
  ItskPri,   \* tcb->itskpri, the same for all tasks
  Pris,      \* the priorities tk_chg_pri may set
  Tmos,      \* the timeouts of calls that wait: TRUE if there is one
  NOEXS      \* the content of a control block that is free

ASSUME WaitAssumption ==
  /\ ItskPri \in Nat /\ Pris \subseteq Nat
  /\ Tmos \subseteq BOOLEAN

VARIABLES
  tcb,  \* the task control blocks
  waitq \* the wait queues: wait_queue, send_queue, recv_queue, ... of the objects

(* tcb->wspec and tcb->winfo of a task that waits for nothing.  Those of a *)
(* waiting task are a record: kind is the wait factor, id is tcb->wid,     *)
(* timed says whether wtmeb is in the timer queue, nodiswai is             *)
(* tcb->nodiswai, and the other fields are winfo's.                        *)
NoWait == [kind |-> "NONE"]

(* A started task.  late: another core suspended it while it spun for the  *)
(* kernel's lock, it still is ctxtsk there and will complete its call.     *)
NewTask ==
  [state |-> "READY", pri |-> ItskPri, suscnt |-> 0, wupcnt |-> 0, tskevt |-> {},
   waitmask |-> {}, wrdvno |-> 0, late |-> FALSE, wait |-> NoWait]

WaitInit ==
  /\ tcb = [t \in Task |-> NewTask]
  /\ waitq = [q \in QueueName |-> <<>>]

Waiting(k, t) == k.tcb[t].state \in {"WAIT", "WAITSUS"}
Caller(t) == tcb[t].state = "READY" \/ tcb[t].late

(* The call of t is over without a wait. *)
Returned(k, t) == [k EXCEPT !.tcb[t].late = FALSE]

(* The queue that tcb->tskque is in; a task that waits for nothing, sleeps,*)
(* or waits for events or a reply is in none.                              *)
QueueOf(w) == IF w.kind = "NONE" \/ "id" \notin DOMAIN w THEN <<>> ELSE <<w.kind, w.id>>
Unqueue(wq, t, q) == IF q \in DOMAIN wq THEN [wq EXCEPT ![q] = Remove(@, t)] ELSE wq

make_non_wait(s) == IF s = "WAIT" THEN "READY" ELSE "SUSPEND"

(* wait_release_ok, wait_release_ok_ercd; wait_release_ng and              *)
(* wait_release_tmout call the wait factor's rel_wai_hook after it.        *)
wait_release(k, t) ==
  [k EXCEPT !.tcb[t].state = make_non_wait(@), !.tcb[t].wait = NoWait,
            !.wq = Unqueue(@, t, QueueOf(k.tcb[t].wait))]

wait_delete(k, q) == FoldLeft(wait_release, k, k.wq[q])

make_wait(k, t, w) ==
  [k EXCEPT !.tcb[t].state = IF @ = "READY" THEN "WAIT" ELSE "WAITSUS",
            !.tcb[t].late = FALSE, !.tcb[t].wait = w]

(* Before the first task of lower priority. *)
queue_insert_tpri(k, t, s) ==
  LET Before(x) == k.tcb[x].pri <= k.tcb[t].pri
      i == SelectInSeq(s, LAMBDA x : ~Before(x))
  IN  IF i = 0 THEN Append(s, t) ELSE InsertAt(s, i, t)

(* w.id's queue for w.kind; atr has the object's tpri. *)
gcb_make_wait(k, t, w, atr) ==
  LET q == <<w.kind, w.id>>
      m == make_wait(k, t, w)
  IN  [m EXCEPT !.wq[q] = IF atr.tpri THEN queue_insert_tpri(m, t, @) ELSE Append(@, t)]

gcb_change_priority(k, t, q) ==
  [k EXCEPT !.wq[q] = queue_insert_tpri(k, t, Remove(@, t))]

is_diswai(k, t, kind, atr) == kind \in k.tcb[t].waitmask /\ ~atr.nodiswai

(* Whether t, which is not in q, may pass the tasks in it. *)
gcb_top_of_wait_queue(k, t, q, atr) ==
  \/ k.wq[q] = <<>>
  \/ atr.tpri /\ k.tcb[t].pri < k.tcb[Head(k.wq[q])].pri

(* What tk_ref_... and td_..._que show of a queue. *)
NoTask == "0"
wait_tskid(k, q) == IF k.wq[q] = <<>> THEN NoTask ELSE Head(k.wq[q])

(* How tcb->waitmask names the wait: its factor or its events. *)
tskwait(w) == IF w.kind = "EV" THEN w.ptn ELSE {w.kind}

=============================================================================
