----------------------------- MODULE Semaphore -----------------------------
(***************************************************************************)
(* Counting semaphores (semaphore.c).  Waiting is FIFO or by priority, and *)
(* with TA_CNT a task that needs less may pass one that needs more.        *)
(***************************************************************************)
EXTENDS Wait

CONSTANTS
  SemId,   \* the semaphores
  SemAtrs, \* the attributes they are created with: [tpri, cnt, nodiswai]
  MaxSem   \* the largest maxsem they are created with

VARIABLE semcb \* the semaphores: NOEXS, or [atr, semcnt, maxsem]

SemK == [tcb |-> tcb, wq |-> waitq, sem |-> semcb]
SemBecomes(k) == tcb' = k.tcb /\ waitq' = k.wq /\ semcb' = k.sem

SemInit == semcb = [s \in SemId |-> NOEXS]

SemQueue(s) == <<"SEM", s>>
SemNeed(k, t) == k.tcb[t].wait.cnt

(* Release t with what it waits for. *)
SemGive(k, s, t) ==
  [wait_release(k, t) EXCEPT !.sem[s].semcnt = @ - SemNeed(k, t)]

(* The loop of sem_chg_pri: from the head, as long as there is enough. *)
SemServe(k, s) ==
  LET Give(r, t) ==
        IF r.stop \/ r.k.sem[s].semcnt < SemNeed(r.k, t) THEN [r EXCEPT !.stop = TRUE]
        ELSE [r EXCEPT !.k = SemGive(r.k, s, t)]
  IN  FoldLeft(Give, [k |-> k, stop |-> FALSE], k.wq[SemQueue(s)]).k

(* A released waiter does not let the next ones through. *)
sem_rel_wai_Nobody(k, s) == k

sem_rel_wai(k, s) == IF k.sem[s].atr.cnt THEN k ELSE SemServe(k, s)

sem_chg_pri(k, s, t) == sem_rel_wai(gcb_change_priority(k, t, SemQueue(s)), s)

_tk_cre_sem(s) == \E atr \in SemAtrs, m \in 1..MaxSem : \E i \in 0..m :
  /\ semcb[s] = NOEXS
  /\ semcb' = [semcb EXCEPT ![s] = [atr |-> atr, semcnt |-> i, maxsem |-> m]]
  /\ UNCHANGED <<tcb, waitq>>

_tk_del_sem(s) ==
  /\ semcb[s] # NOEXS
  /\ SemBecomes([wait_delete(SemK, SemQueue(s)) EXCEPT !.sem[s] = NOEXS])

(* With TA_CNT the loop passes the tasks that need too much. *)
sig_sem(k, s, cnt) ==
  LET Give(r, t) ==
        IF r.stop THEN r
        ELSE IF r.k.sem[s].semcnt < SemNeed(r.k, t)
             THEN [r EXCEPT !.stop = ~r.k.sem[s].atr.cnt]
        ELSE LET g == SemGive(r.k, s, t)
             IN  [k |-> g, stop |-> g.sem[s].semcnt <= 0]
  IN  FoldLeft(Give, [k |-> [k EXCEPT !.sem[s].semcnt = @ + cnt], stop |-> FALSE],
               k.wq[SemQueue(s)]).k

_tk_sig_sem(s, cnt) ==
  /\ semcb[s] # NOEXS /\ cnt <= semcb[s].maxsem - semcb[s].semcnt
  /\ SemBecomes(sig_sem(SemK, s, cnt))

(* A call without a reply in time polls: it fails and changes nothing. *)
_tk_wai_sem(t, s, cnt, tmout) ==
  /\ Caller(t) /\ semcb[s] # NOEXS /\ cnt <= semcb[s].maxsem
  /\ ~is_diswai(SemK, t, "SEM", semcb[s].atr)
  /\ IF /\ semcb[s].atr.cnt \/ gcb_top_of_wait_queue(SemK, t, SemQueue(s), semcb[s].atr)
        /\ semcb[s].semcnt >= cnt
     THEN SemBecomes([Returned(SemK, t) EXCEPT !.sem[s].semcnt = @ - cnt])
     ELSE SemBecomes(gcb_make_wait(SemK, t,
            [kind |-> "SEM", id |-> s, timed |-> tmout, nodiswai |-> semcb[s].atr.nodiswai,
             cnt |-> cnt], semcb[s].atr))

_tk_ref_sem(s) == [wtsk |-> wait_tskid(SemK, SemQueue(s)), semcnt |-> semcb[s].semcnt]
_td_sem_que(s) == waitq[SemQueue(s)]

SemNext == \E s \in SemId :
  \/ _tk_cre_sem(s)
  \/ _tk_del_sem(s)
  \/ \E cnt \in 1..MaxSem : _tk_sig_sem(s, cnt)
  \/ \E t \in Task, cnt \in 1..MaxSem, tmout \in Tmos : _tk_wai_sem(t, s, cnt, tmout)

(* The count stays between 0 and what the semaphore was created with. *)
SemTypeOK ==
  semcb \in [SemId -> {NOEXS} \cup
    { [atr |-> a, semcnt |-> c, maxsem |-> m] : a \in SemAtrs, c \in 0..MaxSem, m \in 1..MaxSem }]

(* No task waits for a semaphore that could serve it: not the head of the  *)
(* queue, and with TA_CNT none at all.                                     *)
SemNobodyWaits == \A s \in SemId : semcb[s] # NOEXS =>
  LET q == waitq[SemQueue(s)] IN
  \A i \in 1..Len(q) :
    i = 1 \/ semcb[s].atr.cnt => semcb[s].semcnt < tcb[q[i]].wait.cnt

=============================================================================
