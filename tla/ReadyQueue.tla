----------------------------- MODULE ReadyQueue -----------------------------
(***************************************************************************)
(* The ready queue (ready_queue.h): one queue per priority, a bitmap of the*)
(* queues in use, top[], which caches the first num_proc tasks so that     *)
(* ready_queue_top need not search for them, and chg, which tells          *)
(* update_schedtsk that the choice of schedtsk may be out of date.         *)
(*                                                                         *)
(* An action is one call that changes the queue, inside a critical section;*)
(* update_schedtsk is what END_CRITICAL_SECTION does.  Its loop over the   *)
(* tasks that lose their core, where a time slice may end, is a step per   *)
(* task: displaced holds those it has still to look at, and nothing else   *)
(* happens meanwhile.  Tasks without TA_ASSPRC only: the tasks to run are  *)
(* the first num_proc of the queue.                                        *)
(***************************************************************************)
EXTENDS Integers, Sequences, FiniteSetsExt

CONSTANTS
  Task,   \* the tasks
  NoTask, \* NULL
  NPri,   \* NUM_PRI, 1 is the highest priority
  NProc   \* num_proc

Pri == 1..NPri
Core == 1..NProc

ASSUME ConstAssumption ==
  NoTask \notin Task /\ NPri \in Nat \ {0} /\ NProc \in Nat \ {0}

VARIABLES
  que,      \* rq->tskque[]
  bitmap,   \* rq->bitmap, a set of priorities
  top,      \* rq->top[]
  chg,      \* rq->chg
  priority, \* tcb->priority
  wtskq,    \* the wait queue of an extended SVC lock; its tasks are READY
  klockwait,\* the tasks with tcb->klockwait
  schedtsk, \* the tasks in schedtsk[], as a set
  displaced \* running tasks that reschedule has not chosen again

vars == <<que, bitmap, top, chg, priority, wtskq, klockwait, schedtsk, displaced>>

(* An operator with a name of the form Operator_Bug is Operator with a      *)
(* plausible mistake, which one of the properties below rules out.         *)

-----------------------------------------------------------------------------
(* A ready queue is a record of the first three variables. *)

rq == [que |-> que, bitmap |-> bitmap, top |-> top]
Become(q) == que' = q.que /\ bitmap' = q.bitmap /\ top' = q.top

(* QueRemove. *)
Without(s, t) ==
  LET n == CHOOSE k \in DOMAIN s : s[k] = t
  IN [k \in 1..(Len(s) - 1) |-> IF k < n THEN s[k] ELSE s[k + 1]]

InReadyQueue(t) == \E p \in Pri : t \in Range(que[p])

(* get_next_tcb: the successor in the queue q of t's priority, else the    *)
(* head of the next queue the bitmap shows.                                *)
get_next_tcb(r, q, t, pri) ==
  LET i == CHOOSE k \in DOMAIN q[pri[t]] : q[pri[t]][k] = t
      Lower == {p \in r.bitmap : p > pri[t]}
  IN IF i < Len(q[pri[t]]) THEN q[pri[t]][i + 1]
     ELSE IF Lower # {} THEN r.que[Min(Lower)][1] ELSE NoTask

(* top[] with t put in before the first entry that is empty or in later. *)
PutTop(a, t, later) ==
  LET n == Min({k \in Core : a[k] \in later \cup {NoTask}} \cup {NProc + 1})
  IN [k \in Core |-> IF k < n THEN a[k] ELSE IF k = n THEN t ELSE a[k - 1]]

update_top_when_insert(a, t, pri) == PutTop(a, t, {x \in Task : pri[x] > pri[t]})
update_top_when_insert_top(a, t, pri) == PutTop(a, t, {x \in Task : pri[x] >= pri[t]})

update_top_when_remove_Gap(r, old, t, pri) ==
  [k \in Core |-> IF r.top[k] = t THEN NoTask ELSE r.top[k]]

(* update_top_when_remove: t has left the queues old.  With one processor  *)
(* the successor is read from the links t still has.                       *)
update_top_when_remove(r, old, t, pri) ==
  IF t \notin Range(r.top) THEN r.top
  ELSE LET n == CHOOSE k \in Core : r.top[k] = t
           a == [k \in Core |-> IF k < n \/ k = NProc THEN r.top[k] ELSE r.top[k + 1]]
       IN IF NProc = 1 THEN [a EXCEPT ![1] = get_next_tcb(r, old, t, pri)]
          ELSE IF a[NProc - 1] = NoTask THEN a
          ELSE [a EXCEPT ![NProc] = get_next_tcb(r, r.que, a[NProc - 1], pri)]

Inserted(r, t, pri) ==
  [que |-> [r.que EXCEPT ![pri[t]] = Append(@, t)],
   bitmap |-> r.bitmap \cup {pri[t]},
   top |-> update_top_when_insert(r.top, t, pri)]

(* The queues and the bitmap without t; top[] is next. *)
Unlinked(r, t, pri) ==
  LET q == [r.que EXCEPT ![pri[t]] = Without(@, t)]
  IN [r EXCEPT !.que = q, !.bitmap = IF q[pri[t]] = <<>> THEN @ \ {pri[t]} ELSE @]

Deleted(r, t, pri) ==
  LET u == Unlinked(r, t, pri)
  IN [u EXCEPT !.top = update_top_when_remove(u, r.que, t, pri)]

(* The task goes behind the others of its priority: the common part of     *)
(* ready_queue_rotate and ready_queue_move_last, where the queue does not  *)
(* become empty.                                                           *)
MovedLast(r, t, pri) ==
  IF r.que[pri[t]][Len(r.que[pri[t]])] = t THEN r ELSE Inserted(Deleted(r, t, pri), t, pri)

(* ready_queue_top, for tasks that may run on any core. *)
ready_queue_top(r) == Range(r.top) \ {NoTask}

-----------------------------------------------------------------------------
Init ==
  /\ que = [p \in Pri |-> <<>>]
  /\ bitmap = {}
  /\ top = [p \in Core |-> NoTask]
  /\ chg = FALSE
  /\ priority \in [Task -> Pri]
  /\ wtskq = <<>>
  /\ klockwait = {}
  /\ schedtsk = {}
  /\ displaced = {}

(* make_ready: ready_queue_insert. *)
make_ready(t) ==
  /\ displaced = {}
  /\ ~InReadyQueue(t) /\ t \notin klockwait
  /\ Become(Inserted(rq, t, priority))
  /\ chg' = TRUE
  /\ UNCHANGED <<priority, wtskq, klockwait, schedtsk, displaced>>

LeaveLock_FlagStays(t) ==
  /\ t \in klockwait
  /\ wtskq' = Without(wtskq, t)
  /\ UNCHANGED klockwait

(* ready_queue_delete of a READY task that waits for an extended SVC lock  *)
(* takes it out of that queue; neither top[] nor chg is touched.           *)
LeaveLock(t) ==
  /\ t \in klockwait
  /\ wtskq' = Without(wtskq, t)
  /\ klockwait' = klockwait \ {t}

(* make_non_ready, which looks for a replacement of a scheduled task. *)
make_non_ready(t) ==
  /\ displaced = {}
  /\ \/ /\ LeaveLock(t)
        /\ UNCHANGED <<que, bitmap, top, chg, schedtsk>>
     \/ /\ InReadyQueue(t)
        /\ LET r == Deleted(rq, t, priority)
           IN /\ Become(r)
              /\ IF t \in schedtsk THEN schedtsk' = ready_queue_top(r) /\ chg' = FALSE
                                   ELSE schedtsk' = schedtsk /\ chg' = TRUE
        /\ UNCHANGED <<wtskq, klockwait>>
  /\ UNCHANGED <<priority, displaced>>

change_task_priority_Late(t, p) ==
  /\ displaced = {}
  /\ priority' = [priority EXCEPT ![t] = p]
  /\ InReadyQueue(t)
  /\ Become(Inserted(Deleted(rq, t, priority), t, priority))
  /\ chg' = TRUE
  /\ UNCHANGED <<schedtsk, wtskq, klockwait, displaced>>

(* change_task_priority: a READY task is taken out at its old priority and *)
(* put in at the new one, also one that waits for an extended SVC lock.    *)
change_task_priority(t, p) ==
  /\ displaced = {}
  /\ priority' = [priority EXCEPT ![t] = p]
  /\ \/ /\ LeaveLock(t)
        /\ Become(Inserted(rq, t, priority'))
        /\ chg' = TRUE
     \/ /\ InReadyQueue(t)
        /\ Become(Inserted(Deleted(rq, t, priority), t, priority'))
        /\ chg' = TRUE
        /\ UNCHANGED <<wtskq, klockwait>>
     \/ /\ ~InReadyQueue(t) /\ t \notin klockwait
        /\ UNCHANGED <<que, bitmap, top, chg, wtskq, klockwait>>
  /\ UNCHANGED <<schedtsk, displaced>>

(* ready_queue_rotate; the flag is set only if there is something to turn. *)
rotate_ready_queue(p) ==
  /\ displaced = {}
  /\ que[p] # <<>>
  /\ Become(MovedLast(rq, que[p][1], priority))
  /\ chg' = (chg \/ Len(que[p]) > 1)
  /\ UNCHANGED <<priority, wtskq, klockwait, schedtsk, displaced>>

move_last_NoChoice(t) ==
  /\ displaced = {}
  /\ InReadyQueue(t) /\ t \in schedtsk
  /\ Become(MovedLast(rq, t, priority))
  /\ UNCHANGED <<chg, priority, schedtsk, wtskq, klockwait, displaced>>

(* ready_queue_move_last by the timer handler or by tk_rot_rdq of a running*)
(* task: it does not set chg, the caller chooses again if it returns TRUE. *)
(* tk_rot_rdq does so by reschedule.                                       *)
move_last(t) ==
  /\ displaced = {}
  /\ InReadyQueue(t) /\ t \in schedtsk
  /\ que[priority[t]][Len(que[priority[t]])] # t
  /\ LET r == MovedLast(rq, t, priority)
     IN Become(r) /\ schedtsk' = ready_queue_top(r)
  /\ chg' = FALSE
  /\ displaced' \in {{}, schedtsk \ schedtsk'}
  /\ UNCHANGED <<priority, wtskq, klockwait>>

(* LockSVC of a lock that is taken: the task stays READY. *)
LockSVC_wait(t) ==
  /\ displaced = {}
  /\ InReadyQueue(t) /\ t \in schedtsk
  /\ LET r == Deleted(rq, t, priority)
     IN Become(r) /\ schedtsk' = ready_queue_top(r)
  /\ chg' = FALSE
  /\ wtskq' = Append(wtskq, t)
  /\ klockwait' = klockwait \cup {t}
  /\ UNCHANGED <<priority, displaced>>

(* UnlockSVC with a waiting task. *)
UnlockSVC_wake ==
  /\ displaced = {}
  /\ wtskq # <<>>
  /\ LET t == Head(wtskq)
         r == Inserted(rq, t, priority)
     IN /\ Become(r)
        /\ schedtsk' = ready_queue_top(r)
        /\ klockwait' = klockwait \ {t}
  /\ wtskq' = Tail(wtskq)
  /\ chg' = FALSE
  /\ UNCHANGED <<priority, displaced>>

(* ready_queue_insert_top, as the wake-up of an object lock does.  *)
UnlockOBJ_wake ==
  /\ displaced = {}
  /\ wtskq # <<>>
  /\ LET t == Head(wtskq)
         r == [que |-> [que EXCEPT ![priority[t]] = <<t>> \o @],
               bitmap |-> bitmap \cup {priority[t]},
               top |-> update_top_when_insert_top(top, t, priority)]
     IN /\ Become(r)
        /\ schedtsk' = ready_queue_top(r)
        /\ klockwait' = klockwait \ {t}
  /\ wtskq' = Tail(wtskq)
  /\ chg' = FALSE
  /\ UNCHANGED <<priority, displaced>>

(* update_schedtsk, reschedule: if chg, the choice is made again. *)
update_schedtsk ==
  /\ displaced = {}
  /\ chg
  /\ chg' = FALSE
  /\ schedtsk' = ready_queue_top(rq)
  /\ displaced' = schedtsk \ schedtsk'
  /\ UNCHANGED <<que, bitmap, top, priority, wtskq, klockwait>>

(* time_slice_schedule in the loop of reschedule, after the choice was made*)
(* and chg was cleared: a task that ran, and is not chosen, may have used  *)
(* up its time slice.                                                      *)
time_slice_schedule(t) ==
  /\ t \in displaced
  /\ Become(rq) \/ Become(MovedLast(rq, t, priority))
  /\ displaced' = displaced \ {t}
  /\ UNCHANGED <<chg, priority, wtskq, klockwait, schedtsk>>

Next ==
  \/ \E t \in Task : \/ make_ready(t) \/ make_non_ready(t) \/ move_last(t)
                     \/ LockSVC_wait(t) \/ time_slice_schedule(t)
                     \/ \E p \in Pri : change_task_priority(t, p)
  \/ \E p \in Pri : rotate_ready_queue(p)
  \/ UnlockSVC_wake \/ UnlockOBJ_wake \/ update_schedtsk

Spec == Init /\ [][Next]_vars
-----------------------------------------------------------------------------
(* Properties *)

(* Ready order: by priority, then first come first served. *)
Before(q, pri, x, y) ==
  \/ pri[x] < pri[y]
  \/ /\ pri[x] = pri[y]
     /\ \E i, j \in DOMAIN q[pri[x]] : i < j /\ q[pri[x]][i] = x /\ q[pri[x]][j] = y

(* top[] holds the first num_proc tasks of the queue, in order, however it *)
(* was updated: inserts, removals and rotations keep the cache exact.      *)
TopIsPrefix ==
  /\ \A n \in Core : top[n] # NoTask => InReadyQueue(top[n])
  /\ \A m, n \in Core : m < n /\ top[n] # NoTask =>
       top[m] # NoTask /\ Before(que, priority, top[m], top[n])
  /\ \A t \in Task : InReadyQueue(t) /\ t \notin Range(top) =>
       \A n \in Core : top[n] # NoTask /\ Before(que, priority, top[n], t)

(* A priority is in the bitmap exactly while its queue has tasks, and a    *)
(* task is in the queue of its current priority, once.                     *)
QueuesExact ==
  /\ bitmap = {p \in Pri : que[p] # <<>>}
  /\ \A p \in Pri : IsInjective(que[p]) /\ \A t \in Range(que[p]) : priority[t] = p

(* A task that waits for an extended SVC lock is READY but not in the ready*)
(* queue: the two uses of its one queue link never overlap.                *)
LockWaitersApart ==
  /\ IsInjective(wtskq)
  /\ Range(wtskq) = klockwait
  /\ \A t \in klockwait : ~InReadyQueue(t)

(* While chg is clear schedtsk is up to date: no operation changes who     *)
(* should run without setting chg or choosing again, not even the time     *)
(* slice that is handled after the choice.                                 *)
ScheduleCurrent == ~chg => schedtsk = ready_queue_top(rq)
=============================================================================
