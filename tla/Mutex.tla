------------------------------- MODULE Mutex -------------------------------
(***************************************************************************)
(* Mutexes of the SMP T-Kernel (mutex.c) with the task states and the      *)
(* priorities they act on: locking with and without inheritance or a       *)
(* ceiling, the wait queues, the priority change that travels from a       *)
(* waiter to an owner that waits itself, and every call that ends a wait   *)
(* or a task while it holds or waits for mutexes.                          *)
(*                                                                         *)
(* All of it runs inside BEGIN_CRITICAL_SECTION, one lock for all cores,   *)
(* so a system call is atomic.  The one loop in it, change_task_priority   *)
(* calling the priority hook of a waiting task, which calls                *)
(* change_task_priority of the owner, is a step per task here: chg is the  *)
(* call about to be made and cont what the system call does after it.      *)
(* While either is pending no other action is enabled.                     *)
(***************************************************************************)
EXTENDS Integers, Sequences, FiniteSetsExt

CONSTANTS
  Task,        \* the tasks; each exists, tk_cre_tsk and tk_del_tsk are not here
  NoTask,      \* NULL
  NMtx,        \* the number of mutex control blocks; a mutex is its index
  NPri,        \* the number of priorities, 1 is the highest
  IPri,        \* the initial priority of each task (tcb->ipriority)
  MtxAtrs,     \* the attributes an application creates mutexes with
  MaxSus,      \* bound on suscnt
  Calls,       \* the system calls the application uses, besides lock and unlock
  OrderedLocks \* TRUE: the application locks mutexes in ascending order only

Mtx == 1..NMtx
Pri == 1..NPri
Kinds == {"TFIFO", "TPRI", "INHERIT", "CEILING"}
NoAtr == [kind |-> "NOEXS", ceil |-> 1, nodiswai |-> FALSE]

ASSUME ConstAssumption ==
  /\ NMtx \in Nat /\ NPri \in Nat \ {0} /\ MaxSus \in Nat
  /\ NoTask \notin Task
  /\ IPri \in [Task -> Pri]
  /\ MtxAtrs \subseteq [kind : Kinds, ceil : Pri, nodiswai : BOOLEAN]
  /\ OrderedLocks \in BOOLEAN

VARIABLES
  state,      \* tcb->state
  priority,   \* tcb->priority, the current priority
  bpriority,  \* tcb->bpriority, the base priority
  suscnt,     \* tcb->suscnt
  waitmask,   \* tcb->waitmask has TTW_MTX: tk_dis_wai is in force
  wid,        \* tcb->wid, the mutex waited for; 0 when the task does not wait
  timed,      \* tcb->wtmeb is in the timer queue
  mtxlist,    \* tcb->mtxlist, the mutexes held, as a set
  late,       \* tasks suspended by another core while they spin at the kernel
              \* lock: each still makes the call it was about to make
  mtxatr,     \* mtxcb->mtxatr and ceilpri; NoAtr for a free control block
  mtxtsk,     \* mtxcb->mtxtsk, the owner
  waitq,      \* mtxcb->wait_queue
  chg,        \* the pending change_task_priority(tcb, priority)
  cont        \* the rest of the system call that is being executed

taskVars == <<state, suscnt, waitmask, wid, timed, late>>
vars == <<state, priority, bpriority, suscnt, waitmask, wid, timed, mtxlist,
          late, mtxatr, mtxtsk, waitq, chg, cont>>

NoChg == [tcb |-> NoTask, pri |-> 1]
NoCont == [op |-> "none", tsk |-> NoTask, mtx |-> 0, tmo |-> FALSE]

(* An operator with a name of the form Operator_Bug is Operator with a      *)
(* plausible mistake, which one of the properties below rules out.         *)

(* No system call is between BEGIN_ and END_CRITICAL_SECTION. *)
Idle == chg = NoChg /\ cont = NoCont

Exists(m) == mtxatr[m] # NoAtr
Waits(t) == state[t] \in {"WAIT", "WAITSUS"}
IsCeiling(m) == mtxatr[m].kind = "CEILING"
IsInherit(m) == mtxatr[m].kind = "INHERIT"

(* A task whose termination has reached the end of wait_cancel. *)
Leaving(t) == cont.op = "ter" /\ cont.tsk = t

(* A task that can reach the body of a system call. *)
Caller(t) == state[t] = "READY" \/ t \in late

-----------------------------------------------------------------------------
(* Queues *)

(* QueInsert(e, q): at the tail. *)
QueInsert(q, e) == [i \in 1..(Len(q) + 1) |-> IF i <= Len(q) THEN q[i] ELSE e]

QueRemove_Head(q, e) == [i \in 1..(Len(q) - 1) |-> q[i + 1]]

(* QueRemove(e); an entry that is in no queue leaves q alone. *)
QueRemove(q, e) ==
  IF \A i \in 1..Len(q) : q[i] # e
  THEN q
  ELSE LET p == CHOOSE i \in 1..Len(q) : q[i] = e
       IN [i \in 1..(Len(q) - 1) |-> IF i < p THEN q[i] ELSE q[i + 1]]

queue_insert_tpri_Fifo(q, t, pri) == QueInsert(q, t)

(* queue_insert_tpri: before the first task with a lower priority. *)
queue_insert_tpri(q, t, pri) ==
  LET p == Min({i \in 1..Len(q) : pri[q[i]] > pri[t]} \cup {Len(q) + 1})
  IN [i \in 1..(Len(q) + 1) |->
        IF i < p THEN q[i] ELSE IF i = p THEN t ELSE q[i - 1]]

-----------------------------------------------------------------------------
(* Priorities *)

(* The priorities release_mutex takes the highest of for task t: its base  *)
(* priority, and what the mutexes of list impose on it.                    *)
Claims(t, list, base, pri, wq) ==
  {base[t]} \cup {mtxatr[m].ceil : m \in {k \in list : IsCeiling(k)}}
            \cup {pri[wq[m][1]] : m \in {k \in list : IsInherit(k) /\ Len(wq[k]) > 0}}

(* release_mutex(t, relmtxcb) with list what is left of t's mutexes: the   *)
(* change_task_priority it ends with, if any.                              *)
release_mutex(t, list, pri, wq) ==
  LET newpri == Min(Claims(t, list, bpriority, pri, wq))
  IN IF newpri # pri[t] THEN [tcb |-> t, pri |-> newpri] ELSE NoChg

mtx_rel_wai_KeepOwner(t, wq) == NoChg

(* mtx_rel_wai(t), the rel_wai_hook of an inheritance mutex; t has left    *)
(* the queue, wq is what remains.                                          *)
mtx_rel_wai(t, wq) ==
  LET o == mtxtsk[wid[t]]
  IN IF IsInherit(wid[t]) /\ priority[o] = priority[t]
     THEN release_mutex(o, mtxlist[o], priority, wq)
     ELSE NoChg

mtx_chg_pri_NotStrict(t, old, pri, wq) ==
  LET o == mtxtsk[wid[t]]
  IN IF IsInherit(wid[t]) /\ pri[o] >= pri[t] THEN [tcb |-> o, pri |-> pri[t]] ELSE NoChg

(* mtx_chg_pri(t, old), the chg_pri_hook of an inheritance mutex: t has its*)
(* new priority in pri and its new place in wq.                            *)
mtx_chg_pri(t, old, pri, wq) ==
  LET o == mtxtsk[wid[t]]
  IN IF ~IsInherit(wid[t]) THEN NoChg
     ELSE IF pri[o] > pri[t] THEN [tcb |-> o, pri |-> pri[t]]
     ELSE IF pri[o] = old THEN release_mutex(o, mtxlist[o], pri, wq)
     ELSE NoChg

NonWait_Ready(s) == "READY"

(* make_non_wait: the state after a wait ends. *)
NonWait(s) == IF s = "WAIT" THEN "READY" ELSE "SUSPEND"

(* The priority of a task that has just got mutex m from the queue. *)
RaiseToCeiling(t, m) ==
  IF IsCeiling(m) /\ priority[t] > mtxatr[m].ceil THEN mtxatr[m].ceil
                                                  ELSE priority[t]

-----------------------------------------------------------------------------
Init ==
  /\ state = [t \in Task |-> "DORMANT"]
  /\ priority = IPri
  /\ bpriority = IPri
  /\ suscnt = [t \in Task |-> 0]
  /\ waitmask = [t \in Task |-> FALSE]
  /\ wid = [t \in Task |-> 0]
  /\ timed = [t \in Task |-> FALSE]
  /\ mtxlist = [t \in Task |-> {}]
  /\ late = {}
  /\ mtxatr = [m \in Mtx |-> NoAtr]
  /\ mtxtsk = [m \in Mtx |-> NoTask]
  /\ waitq = [m \in Mtx |-> <<>>]
  /\ chg = NoChg
  /\ cont = NoCont

-----------------------------------------------------------------------------
(* The chain of priority changes: one call of change_task_priority, with   *)
(* mtx_chg_pri when the task waits for a mutex that orders its queue.      *)
change_task_priority ==
  /\ chg # NoChg
  /\ LET t == chg.tcb
         m == wid[t]
         pri == [priority EXCEPT ![t] = chg.pri]
     IN /\ priority' = pri
        /\ IF Waits(t) /\ mtxatr[m].kind # "TFIFO"
           THEN LET wq == [waitq EXCEPT
                             ![m] = queue_insert_tpri(QueRemove(@, t), t, pri)]
                IN /\ waitq' = wq
                   /\ chg' = mtx_chg_pri(t, priority[t], pri, wq)
           ELSE waitq' = waitq /\ chg' = NoChg
  /\ UNCHANGED <<taskVars, bpriority, mtxlist, mtxatr, mtxtsk, cont>>

-----------------------------------------------------------------------------
(* Creating and deleting mutexes *)

_tk_cre_mtx(m, a) ==
  /\ Idle
  /\ ~Exists(m)
  /\ mtxatr' = [mtxatr EXCEPT ![m] = a]
  /\ mtxtsk' = [mtxtsk EXCEPT ![m] = NoTask]
  /\ waitq' = [waitq EXCEPT ![m] = <<>>]
  /\ UNCHANGED <<taskVars, priority, bpriority, mtxlist, chg, cont>>

_tk_del_mtx(m) ==
  /\ Idle
  /\ "del_mtx" \in Calls
  /\ Exists(m)
  /\ LET o == mtxtsk[m]
     IN IF o = NoTask
        THEN chg' = NoChg /\ mtxlist' = mtxlist
        ELSE /\ mtxlist' = [mtxlist EXCEPT ![o] = @ \ {m}]
             /\ chg' = release_mutex(o, mtxlist[o] \ {m}, priority, waitq)
  /\ cont' = [op |-> "del", tsk |-> NoTask, mtx |-> m, tmo |-> FALSE]
  /\ UNCHANGED <<taskVars, priority, bpriority, mtxatr, mtxtsk, waitq>>

(* The rest of _tk_del_mtx: wait_delete, and the block is freed. *)
del_mtx_finish ==
  /\ chg = NoChg
  /\ cont.op = "del"
  /\ LET m == cont.mtx
         W == Range(waitq[m])
     IN /\ state' = [t \in Task |-> IF t \in W THEN NonWait(state[t]) ELSE state[t]]
        /\ wid' = [t \in Task |-> IF t \in W THEN 0 ELSE wid[t]]
        /\ timed' = [t \in Task |-> timed[t] /\ t \notin W]
        /\ waitq' = [waitq EXCEPT ![m] = <<>>]
        /\ mtxatr' = [mtxatr EXCEPT ![m] = NoAtr]
  /\ cont' = NoCont
  /\ UNCHANGED <<priority, bpriority, suscnt, waitmask, mtxlist, late, mtxtsk, chg>>

-----------------------------------------------------------------------------
(* Locking and unlocking *)

loc_mtx_allowed_Again(t, m) ==
  /\ Exists(m)
  /\ IsCeiling(m) => bpriority[t] >= mtxatr[m].ceil
  /\ OrderedLocks => \A k \in mtxlist[t] \ {m} : k < m

(* The checks of _tk_loc_mtx that end in an error. *)
loc_mtx_allowed(t, m) ==
  /\ Exists(m)
  /\ mtxtsk[m] # t
  /\ IsCeiling(m) => bpriority[t] >= mtxatr[m].ceil
  /\ waitmask[t] => mtxatr[m].nodiswai
  /\ OrderedLocks => \A k \in mtxlist[t] : k < m

loc_mtx_get_Unlisted(t, m) ==
  /\ Idle
  /\ Caller(t)
  /\ loc_mtx_allowed(t, m)
  /\ mtxtsk[m] = NoTask
  /\ mtxtsk' = [mtxtsk EXCEPT ![m] = t]
  /\ UNCHANGED <<taskVars, priority, bpriority, mtxlist, mtxatr, waitq, chg, cont>>

(* _tk_loc_mtx of a free mutex. *)
loc_mtx_get(t, m) ==
  /\ Idle
  /\ Caller(t)
  /\ loc_mtx_allowed(t, m)
  /\ mtxtsk[m] = NoTask
  /\ mtxtsk' = [mtxtsk EXCEPT ![m] = t]
  /\ mtxlist' = [mtxlist EXCEPT ![t] = @ \cup {m}]
  /\ priority' = [priority EXCEPT ![t] = RaiseToCeiling(t, m)]
  /\ late' = late \ {t}
  /\ UNCHANGED <<state, suscnt, waitmask, wid, timed, bpriority, mtxatr, waitq, chg, cont>>

(* _tk_loc_mtx of a mutex another task holds, with TMO_FEVR or, when tmo,  *)
(* a time limit: the owner is raised first, then the caller waits.         *)
loc_mtx_wait(t, m, tmo) ==
  /\ Idle
  /\ Caller(t)
  /\ tmo => "timeout" \in Calls
  /\ loc_mtx_allowed(t, m)
  /\ mtxtsk[m] # NoTask
  /\ LET o == mtxtsk[m]
     IN chg' = IF IsInherit(m) /\ priority[o] > priority[t]
               THEN [tcb |-> o, pri |-> priority[t]] ELSE NoChg
  /\ cont' = [op |-> "loc", tsk |-> t, mtx |-> m, tmo |-> tmo]
  /\ UNCHANGED <<taskVars, priority, bpriority, mtxlist, mtxatr, mtxtsk, waitq>>

(* The rest of _tk_loc_mtx: make_wait and the wait queue. *)
loc_mtx_finish ==
  /\ chg = NoChg
  /\ cont.op = "loc"
  /\ LET t == cont.tsk
         m == cont.mtx
     IN /\ state' = [state EXCEPT ![t] = IF @ = "READY" THEN "WAIT" ELSE "WAITSUS"]
        /\ wid' = [wid EXCEPT ![t] = m]
        /\ timed' = [timed EXCEPT ![t] = cont.tmo]
        /\ waitq' = [waitq EXCEPT ![m] = IF mtxatr[m].kind = "TFIFO"
                                         THEN QueInsert(@, t)
                                         ELSE queue_insert_tpri(@, t, priority)]
        /\ late' = late \ {t}
  /\ cont' = NoCont
  /\ UNCHANGED <<suscnt, waitmask, priority, bpriority, mtxlist, mtxatr, mtxtsk, chg>>

(* _tk_unl_mtx; the caller does not wait, so its own priority change       *)
(* starts no chain.                                                        *)
_tk_unl_mtx(t, m) ==
  /\ Idle
  /\ Caller(t)
  /\ Exists(m)
  /\ mtxtsk[m] = t
  /\ LET own == Min(Claims(t, mtxlist[t] \ {m}, bpriority, priority, waitq))
     IN IF Len(waitq[m]) > 0
        THEN LET w == waitq[m][1]
             IN /\ mtxtsk' = [mtxtsk EXCEPT ![m] = w]
                /\ mtxlist' = [mtxlist EXCEPT ![t] = @ \ {m}, ![w] = @ \cup {m}]
                /\ priority' = [priority EXCEPT ![t] = own, ![w] = RaiseToCeiling(w, m)]
                /\ waitq' = [waitq EXCEPT ![m] = QueRemove(@, w)]
                /\ state' = [state EXCEPT ![w] = NonWait(@)]
                /\ wid' = [wid EXCEPT ![w] = 0]
                /\ timed' = [timed EXCEPT ![w] = FALSE]
        ELSE /\ mtxtsk' = [mtxtsk EXCEPT ![m] = NoTask]
             /\ mtxlist' = [mtxlist EXCEPT ![t] = @ \ {m}]
             /\ priority' = [priority EXCEPT ![t] = own]
             /\ UNCHANGED <<waitq, state, wid, timed>>
  /\ late' = late \ {t}
  /\ UNCHANGED <<suscnt, waitmask, bpriority, mtxatr, chg, cont>>

-----------------------------------------------------------------------------
(* Ending a wait *)

(* wait_release_ng and wait_release_tmout: the task leaves the queue and   *)
(* the timer, gets its new state, and the hook adjusts the owner.          *)
WaitRelease(t) ==
  LET wq == [waitq EXCEPT ![wid[t]] = QueRemove(@, t)]
  IN /\ waitq' = wq
     /\ state' = [state EXCEPT ![t] = NonWait(@)]
     /\ wid' = [wid EXCEPT ![t] = 0]
     /\ timed' = [timed EXCEPT ![t] = FALSE]
     /\ chg' = mtx_rel_wai(t, wq)

_tk_rel_wai(t) ==
  /\ Idle
  /\ "rel_wai" \in Calls
  /\ Waits(t)
  /\ WaitRelease(t)
  /\ UNCHANGED <<suscnt, waitmask, late, priority, bpriority, mtxlist, mtxatr, mtxtsk, cont>>

(* The timer handler calls wait_release_tmout of an expired entry. *)
wait_release_tmout(t) ==
  /\ Idle
  /\ Waits(t)
  /\ timed[t]
  /\ WaitRelease(t)
  /\ UNCHANGED <<suscnt, waitmask, late, priority, bpriority, mtxlist, mtxatr, mtxtsk, cont>>

(* _tk_dis_wai with TTW_MTX in the mask. *)
_tk_dis_wai(t) ==
  /\ Idle
  /\ "dis_wai" \in Calls
  /\ waitmask' = [waitmask EXCEPT ![t] = TRUE]
  /\ IF Waits(t) /\ ~mtxatr[wid[t]].nodiswai
     THEN WaitRelease(t)
     ELSE UNCHANGED <<waitq, state, wid, timed, chg>>
  /\ UNCHANGED <<suscnt, late, priority, bpriority, mtxlist, mtxatr, mtxtsk, cont>>

_tk_ena_wai(t) ==
  /\ Idle
  /\ "dis_wai" \in Calls
  /\ waitmask' = [waitmask EXCEPT ![t] = FALSE]
  /\ UNCHANGED <<state, suscnt, wid, timed, late, priority, bpriority, mtxlist,
                 mtxatr, mtxtsk, waitq, chg, cont>>

-----------------------------------------------------------------------------
(* Tasks *)

_tk_sta_tsk(t) ==
  /\ Idle
  /\ state[t] = "DORMANT"
  /\ state' = [state EXCEPT ![t] = "READY"]
  /\ UNCHANGED <<suscnt, waitmask, wid, timed, late, priority, bpriority, mtxlist,
                 mtxatr, mtxtsk, waitq, chg, cont>>

_ter_tsk_StaysQueued(t) ==
  /\ cont' = [op |-> "ter", tsk |-> t, mtx |-> 0, tmo |-> FALSE]
  /\ UNCHANGED <<taskVars, priority, bpriority, mtxlist, mtxatr, mtxtsk, waitq, chg>>

(* _ter_tsk up to the end of the rel_wai_hook.  The state is still a wait  *)
(* state when the hook runs.                                               *)
_ter_tsk(t) ==
  /\ IF Waits(t)
     THEN LET wq == [waitq EXCEPT ![wid[t]] = QueRemove(@, t)]
          IN /\ waitq' = wq
             /\ timed' = [timed EXCEPT ![t] = FALSE]
             /\ chg' = mtx_rel_wai(t, wq)
     ELSE UNCHANGED <<waitq, timed, chg>>
  /\ cont' = [op |-> "ter", tsk |-> t, mtx |-> 0, tmo |-> FALSE]
  /\ UNCHANGED <<state, suscnt, waitmask, wid, late, priority, bpriority, mtxlist,
                 mtxatr, mtxtsk>>

_tk_ter_tsk(t) ==
  /\ Idle
  /\ "ter_tsk" \in Calls
  /\ state[t] # "DORMANT"
  /\ _ter_tsk(t)

_tk_ext_tsk(t) ==
  /\ Idle
  /\ Caller(t)
  /\ _ter_tsk(t)

(* The rest of a termination: signal_all_mutex hands every mutex of the    *)
(* task to the head of its queue, then make_dormant.                       *)
ter_tsk_finish ==
  /\ chg = NoChg
  /\ cont.op = "ter"
  /\ LET x == cont.tsk
         Given == {m \in mtxlist[x] : Len(waitq[m]) > 0}
         Gets(t) == {m \in Given : waitq[m][1] = t}
         Woken(t) == Gets(t) # {}
     IN /\ waitq' = [m \in Mtx |-> IF m \in Given THEN QueRemove(waitq[m], waitq[m][1])
                                                  ELSE waitq[m]]
        /\ mtxtsk' = [m \in Mtx |-> IF m \in Given THEN waitq[m][1]
                                    ELSE IF m \in mtxlist[x] THEN NoTask
                                    ELSE mtxtsk[m]]
        /\ mtxlist' = [t \in Task |-> IF t = x THEN {} ELSE mtxlist[t] \cup Gets(t)]
        /\ state' = [t \in Task |-> IF t = x THEN "DORMANT"
                                    ELSE IF Woken(t) THEN NonWait(state[t])
                                    ELSE state[t]]
        /\ priority' = [t \in Task |->
                          IF t = x THEN IPri[t]
                          ELSE IF Woken(t) THEN RaiseToCeiling(t, CHOOSE m \in Gets(t) : TRUE)
                          ELSE priority[t]]
        /\ bpriority' = [bpriority EXCEPT ![x] = IPri[x]]
        /\ suscnt' = [suscnt EXCEPT ![x] = 0]
        /\ waitmask' = [waitmask EXCEPT ![x] = FALSE]
        /\ wid' = [t \in Task |-> IF t = x \/ Woken(t) THEN 0 ELSE wid[t]]
        /\ timed' = [t \in Task |-> timed[t] /\ t # x /\ ~Woken(t)]
        /\ late' = late \ {x}
  /\ cont' = NoCont
  /\ UNCHANGED <<mtxatr, chg>>

_tk_chg_pri_HeldOnly(t, p) ==
  /\ Idle
  /\ "chg_pri" \in Calls
  /\ \A m \in mtxlist[t] : IsCeiling(m) => p >= mtxatr[m].ceil
  /\ bpriority' = [bpriority EXCEPT ![t] = p]
  /\ chg' = [tcb |-> t,
             pri |-> Min(Claims(t, mtxlist[t], bpriority', priority, waitq))]
  /\ UNCHANGED <<taskVars, priority, mtxlist, mtxatr, mtxtsk, waitq, cont>>

(* _tk_chg_pri and chg_pri_mutex: refused above a ceiling of a mutex held  *)
(* or waited for, limited by what the mutexes held impose.                 *)
_tk_chg_pri(t, p) ==
  /\ Idle
  /\ "chg_pri" \in Calls
  /\ \A m \in mtxlist[t] \cup (IF Waits(t) THEN {wid[t]} ELSE {}) :
       IsCeiling(m) => p >= mtxatr[m].ceil
  /\ bpriority' = [bpriority EXCEPT ![t] = p]
  /\ chg' = [tcb |-> t,
             pri |-> Min(Claims(t, mtxlist[t], bpriority', priority, waitq))]
  /\ UNCHANGED <<taskVars, priority, mtxlist, mtxatr, mtxtsk, waitq, cont>>

(* _tk_sus_tsk; a running task may be at the kernel lock (spins). *)
_tk_sus_tsk(t, spins) ==
  /\ Idle
  /\ "sus_tsk" \in Calls
  /\ state[t] # "DORMANT"
  /\ suscnt[t] < MaxSus
  /\ suscnt' = [suscnt EXCEPT ![t] = @ + 1]
  /\ state' = [state EXCEPT ![t] = IF @ = "READY" THEN "SUSPEND"
                                   ELSE IF @ = "WAIT" THEN "WAITSUS" ELSE @]
  /\ spins => state[t] = "READY"
  /\ late' = IF spins THEN late \cup {t} ELSE late
  /\ UNCHANGED <<waitmask, wid, timed, priority, bpriority, mtxlist, mtxatr, mtxtsk,
                 waitq, chg, cont>>

Resume_AnyState(t, n) ==
  /\ suscnt' = [suscnt EXCEPT ![t] = n]
  /\ UNCHANGED <<state, waitmask, wid, timed, late, priority, bpriority, mtxlist, mtxatr,
                 mtxtsk, waitq, chg, cont>>

Resume(t, n) ==
  /\ state[t] \in {"SUSPEND", "WAITSUS"}
  /\ suscnt' = [suscnt EXCEPT ![t] = n]
  /\ IF n > 0 THEN UNCHANGED <<state, late>>
     ELSE /\ state' = [state EXCEPT ![t] = IF @ = "SUSPEND" THEN "READY" ELSE "WAIT"]
          /\ late' = late \ {t}
  /\ UNCHANGED <<waitmask, wid, timed, priority, bpriority, mtxlist, mtxatr, mtxtsk,
                 waitq, chg, cont>>

_tk_rsm_tsk(t) == Idle /\ Resume(t, suscnt[t] - 1)
_tk_frsm_tsk(t) == Idle /\ Resume(t, 0)

-----------------------------------------------------------------------------
(* What the kernel does next without being asked. *)
KernelStep ==
  change_task_priority \/ del_mtx_finish \/ loc_mtx_finish \/ ter_tsk_finish

SystemCall ==
  \/ \E m \in Mtx : \/ \E a \in MtxAtrs : _tk_cre_mtx(m, a)
                    \/ _tk_del_mtx(m)
  \/ \E t \in Task, m \in Mtx : \/ loc_mtx_get(t, m)
                                \/ \E tmo \in BOOLEAN : loc_mtx_wait(t, m, tmo)
                                \/ _tk_unl_mtx(t, m)
  \/ \E t \in Task : \/ _tk_rel_wai(t) \/ _tk_dis_wai(t) \/ _tk_ena_wai(t)
                     \/ _tk_sta_tsk(t) \/ _tk_ter_tsk(t) \/ _tk_ext_tsk(t)
                     \/ _tk_rsm_tsk(t) \/ _tk_frsm_tsk(t)
                     \/ \E p \in Pri : _tk_chg_pri(t, p)
                     \/ \E spins \in BOOLEAN : _tk_sus_tsk(t, spins)

TimerStep == \E t \in Task : wait_release_tmout(t)

Next == KernelStep \/ SystemCall \/ TimerStep

Spec == Init /\ [][Next]_vars
-----------------------------------------------------------------------------
(* Properties *)

States == {"DORMANT", "READY", "WAIT", "SUSPEND", "WAITSUS"}

(* The fields of the control blocks have the values the C types and the    *)
(* code give them.                                                         *)
TypeOK ==
  /\ state \in [Task -> States]
  /\ priority \in [Task -> Pri]
  /\ bpriority \in [Task -> Pri]
  /\ suscnt \in [Task -> 0..MaxSus]
  /\ waitmask \in [Task -> BOOLEAN]
  /\ wid \in [Task -> 0..NMtx]
  /\ timed \in [Task -> BOOLEAN]
  /\ mtxlist \in [Task -> SUBSET Mtx]
  /\ late \subseteq Task
  /\ mtxatr \in [Mtx -> MtxAtrs \cup {NoAtr}]
  /\ mtxtsk \in [Mtx -> Task \cup {NoTask}]
  /\ waitq \in [Mtx -> Seq(Task)]
  /\ chg \in [tcb : Task \cup {NoTask}, pri : Pri]
  /\ cont \in [op : {"none", "loc", "del", "ter"}, tsk : Task \cup {NoTask},
               mtx : 0..NMtx, tmo : BOOLEAN]

(* mtxtsk and mtxlist, the two ends of the ownership link, agree whenever  *)
(* a mutex changes hands, is deleted or its owner ends.                    *)
OwnerLink ==
  \A t \in Task, m \in Mtx :
    m \in mtxlist[t] <=> Exists(m) /\ mtxtsk[m] = t /\ ~(cont.op = "del" /\ cont.mtx = m)

(* A task that waits, waits for a mutex that exists and that another task  *)
(* holds, so that somebody is left to wake it: no release path, deletion or*)
(* termination forgets a waiter.                                           *)
WaitersHaveOwner ==
  \A t \in Task : Waits(t) =>
    /\ wid[t] \in Mtx
    /\ Exists(wid[t])
    /\ mtxtsk[wid[t]] \in Task \ {t}

(* A task is in the queue of the mutex it waits for, once, and in no other *)
(* queue; a task that does not wait or is being terminated is in none.     *)
WaitQueues ==
  \A m \in Mtx :
    /\ IsInjective(waitq[m])
    /\ \A t \in Task :
         t \in Range(waitq[m]) <=> Waits(t) /\ wid[t] = m /\ ~Leaving(t)

(* The queues of TPRI, INHERIT and CEILING mutexes stay in priority order  *)
(* while the priorities of the tasks in them change.                       *)
QueuesSorted ==
  Idle => \A m \in Mtx : mtxatr[m].kind # "TFIFO" =>
            \A i, j \in 1..Len(waitq[m]) :
              i < j => priority[waitq[m][i]] <= priority[waitq[m][j]]

(* The rule release_mutex states (A, B): the current priority of a task is *)
(* the highest of its base priority and of what the mutexes it holds       *)
(* impose, after every chain of changes.                                   *)
PriorityRule ==
  Idle => \A t \in Task : state[t] # "DORMANT" =>
            priority[t] = Min(Claims(t, mtxlist[t], bpriority, priority, waitq))

(* The ceiling protocol's premise: nobody that holds or waits for a        *)
(* CEILING mutex has a base priority above the ceiling, whatever tk_chg_pri*)
(* is asked while it waits or holds.                                       *)
CeilingRespected ==
  Idle => \A t \in Task, m \in Mtx :
            IsCeiling(m) /\ (m \in mtxlist[t] \/ (Waits(t) /\ wid[t] = m))
              => bpriority[t] >= mtxatr[m].ceil

(* A task is suspended exactly while suspend requests are pending, through *)
(* every wake, timeout, deletion and termination.                          *)
SuspendCount ==
  \A t \in Task : suscnt[t] > 0 <=> state[t] \in {"SUSPEND", "WAITSUS"}

(* A terminated task keeps nothing: no mutex, no timer, no place in a wait *)
(* queue ("Cancel task wait state. Remove the task from the timer queue    *)
(* and the wait queue.", wait.h).                                          *)
DormantHasNothing ==
  \A t \in Task : state[t] = "DORMANT" =>
    /\ mtxlist[t] = {} /\ ~timed[t] /\ wid[t] = 0
    /\ \A m \in Mtx : t \notin Range(waitq[m])

-----------------------------------------------------------------------------
(* The inductive invariant behind these properties.  It needs tk_ter_tsk   *)
(* to meet no cycle of waiting tasks: the chain its hook starts must not   *)
(* come back to the task that is being terminated.                         *)

NoTerminationInDeadlock == OrderedLocks \/ "ter_tsk" \notin Calls

(* A task only spins at the kernel lock in a state it was suspended in.    *)
LateSuspended == \A t \in late : state[t] = "SUSPEND"

(* With ordered locking a task waits for a mutex above all those it holds. *)
LockOrder ==
  OrderedLocks => \A t \in Task : Waits(t) => \A k \in mtxlist[t] : k < wid[t]

(* What a system call in the middle of its work has established, and, for  *)
(* a termination, that the chain has passed the terminated task.           *)
ContOK ==
  /\ chg # NoChg => chg.tcb \in Task
  /\ cont.op = "none" => cont = NoCont
  /\ cont.op = "loc" =>
       /\ cont.tsk \in Task /\ cont.mtx \in Mtx
       /\ Caller(cont.tsk)
       /\ Exists(cont.mtx)
       /\ mtxtsk[cont.mtx] \in Task \ {cont.tsk}
       /\ OrderedLocks => \A k \in mtxlist[cont.tsk] : k < cont.mtx
  /\ cont.op = "del" => cont.mtx \in Mtx /\ Exists(cont.mtx)
  /\ cont.op = "ter" =>
       /\ cont.tsk \in Task
       /\ state[cont.tsk] # "DORMANT"
       /\ Waits(cont.tsk) => OrderedLocks
       /\ Waits(cont.tsk) /\ chg # NoChg =>
            \E k \in mtxlist[chg.tcb] : wid[cont.tsk] <= k

IInv ==
  /\ TypeOK
  /\ OwnerLink
  /\ WaitersHaveOwner
  /\ WaitQueues
  /\ SuspendCount
  /\ DormantHasNothing
  /\ LateSuspended
  /\ LockOrder
  /\ ContOK

-----------------------------------------------------------------------------
(* Fairness: a core that holds the kernel lock runs on with interrupts     *)
(* disabled until END_CRITICAL_SECTION.                                    *)
KernelSpec == Spec /\ WF_vars(KernelStep)

(* The chain of priority changes ends, also around a cycle of tasks that   *)
(* wait for each other; until it does no core can enter the kernel.        *)
ChainEnds == ~Idle ~> Idle
=============================================================================
