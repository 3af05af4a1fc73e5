------------------------------- MODULE Timer -------------------------------
(***************************************************************************)
(* The timer queue and the cyclic and alarm handlers (timer.c, timer.h,    *)
(* time_calls.c).  The timer interrupt, on one processor, takes the events *)
(* that are due off the timer queue; a handler then goes to the queue of   *)
(* the processor that has to run it, which runs its queue in a loop and    *)
(* leaves the critical section only while a handler runs.                  *)
(*                                                                         *)
(* A step is what happens between two points outside of the critical       *)
(* section.  An object is a cyclic handler, an alarm handler, or a task in *)
(* its delay or timeout; each has one timer event block.                   *)
(***************************************************************************)
EXTENDS Integers, SequencesExt

CONSTANTS
  Proc,         \* the processors
  TimerProc,    \* the one that takes the timer interrupt
  Cyc,          \* the cyclic handlers
  Alm,          \* the alarm handlers
  Task,         \* the tasks that may wait for the time to pass
  NOEXS,        \* the content of a control block that is free
  Idle,         \* no handler
  TIMER_PERIOD,
  CycKinds,     \* what cyclic handlers are created with: [sta, phs, assprc, cyctim, cycphs]
  Assprcs,      \* assprc of an alarm handler: a processor, or Idle without TA_ASSPRC
  Almtims,      \* the times alarm handlers are started with
  Dlytims,      \* the times tasks wait
  MaxTime,      \* bound: the time
  MaxUse,       \* bound: the handlers that exist and tasks that wait, together
  MaxNo         \* bound: the deletions of handlers; cycno and almno are UINT

ASSUME TimerAssumption ==
  /\ TimerProc \in Proc /\ Idle \notin Proc /\ Assprcs \subseteq Proc \cup {Idle}
  /\ Cyc \cap Alm = {} /\ (Cyc \cup Alm) \cap Task = {}
  /\ TIMER_PERIOD \in Nat \ {0} /\ MaxTime \in Nat
  /\ CycKinds \subseteq [sta : BOOLEAN, phs : BOOLEAN, assprc : Proc \cup {Idle},
                         cyctim : Nat \ {0}, cycphs : Nat]
  /\ Almtims \subseteq Nat /\ Dlytims \subseteq Nat \ {0}

VARIABLES
  current_time,
  timer_queue,   \* the objects whose event is in the timer queue
  time,          \* time of each event: cyctmeb, almtmeb, wtmeb
  handler_queue, \* of each processor: [upd, act, hdrque]
  cyccb, almcb,  \* NOEXS, or what it was created with and stat
  hdrno,         \* cycno and almno
  exec,          \* the handler each handler_execution runs, for its queue's processor
  imm,           \* the handler that a call on each processor runs at once
  ipi,           \* the processors with a handler request pending
  ended          \* the processors whose handler_execution ended with its task

vars == <<current_time, timer_queue, time, handler_queue, cyccb, almcb, hdrno,
          exec, imm, ipi, ended>>

Handler == Cyc \cup Alm
Object == Handler \cup Task

(* The contents of control blocks; handlers that run.                      *)
Flags == {"STA", "RUN", "IMM"}
CycCB == [assprc : Proc \cup {Idle}, phs : BOOLEAN, cyctim : Nat \ {0}, stat : SUBSET Flags]
AlmCB == [assprc : Proc \cup {Idle}, stat : SUBSET Flags]
Instances == [hdr : Handler, no : Nat]
Executions == [by : {"INT", "TASK"}, inst : Instances]

ASSUME NoneAssumption ==
  NOEXS \notin CycCB \cup AlmCB /\ Idle \notin Instances \cup Executions

K == [now |-> current_time, tq |-> timer_queue, time |-> time, hq |-> handler_queue,
      cb |-> [h \in Handler |-> IF h \in Cyc THEN cyccb[h] ELSE almcb[h]],
      no |-> hdrno, exec |-> exec, imm |-> imm, ipi |-> ipi]

Becomes(k) ==
  /\ current_time' = k.now /\ timer_queue' = k.tq /\ time' = k.time
  /\ handler_queue' = k.hq /\ hdrno' = k.no
  /\ cyccb' = [c \in Cyc |-> k.cb[c]] /\ almcb' = [a \in Alm |-> k.cb[a]]
  /\ exec' = k.exec /\ imm' = k.imm /\ ipi' = k.ipi

Init ==
  /\ current_time = 0 /\ timer_queue = <<>>
  /\ time = [o \in Object |-> 0]
  /\ handler_queue = [p \in Proc |-> [upd |-> FALSE, act |-> FALSE, hdrque |-> <<>>]]
  /\ cyccb = [c \in Cyc |-> NOEXS] /\ almcb = [a \in Alm |-> NOEXS]
  /\ hdrno = [h \in Handler |-> 0]
  /\ exec = [p \in Proc |-> Idle] /\ imm = [p \in Proc |-> Idle]
  /\ ipi = {} /\ ended = {}

-----------------------------------------------------------------------------
(* The queues *)

(* Behind the events of the same time. *)
timer_insert_abs(k, o, tm) ==
  LET i == SelectInSeq(k.tq, LAMBDA x : tm < k.time[x])
  IN  [k EXCEPT !.time[o] = tm,
                !.tq = IF i = 0 THEN Append(@, o) ELSE InsertAt(@, i, o)]

timer_insert_reltim(k, o, tmout) == timer_insert_abs(k, o, k.now + tmout + TIMER_PERIOD)

(* The event of a handler may have left for a processor's queue. *)
timer_delete(k, o) ==
  [k EXCEPT !.tq = RemoveFirst(@, o),
            !.hq = [p \in Proc |-> [k.hq[p] EXCEPT !.hdrque = RemoveFirst(@, o)]]]

enqueue_handler(k, p, h) ==
  [k EXCEPT !.hq[p].hdrque = Append(@, h), !.hq[p].upd = TRUE]

(* distribute_cychdr, distribute_almhdr; p is get_prid(). *)
Target(k, p, h) == IF k.cb[h].assprc = Idle THEN p ELSE k.cb[h].assprc
distribute(k, p, h) == enqueue_handler(k, Target(k, p, h), h)

(* A late handler starts a new phase. *)
cyc_next_time_FromNow(k, c) ==
  LET tm == k.time[c] + k.cb[c].cyctim IN IF tm > k.now THEN tm ELSE k.now + k.cb[c].cyctim

(* The next time of the handler's phase that is still to come. *)
cyc_next_time(k, c) ==
  LET cyctim == k.cb[c].cyctim
      tm == k.time[c] + cyctim
  IN  IF tm > k.now THEN tm
      ELSE k.time[c] + ((k.now - k.time[c]) \div cyctim + 1) * cyctim

(* Nobody reads the time of an event that is in no queue, but for that of  *)
(* a cyclic handler.                                                       *)
Forget(k, o) == [k EXCEPT !.time[o] = 0]

Instance(k, h) == [hdr |-> h, no |-> k.no[h]]

(* Call the handler h from the queue of p, up to where it runs.  by is     *)
(* "INT", or "TASK" if it runs in the call of a task.                      *)
call_cychdr(k, p, by, c) ==
  [timer_insert_abs(k, c, cyc_next_time(k, c)) EXCEPT
     !.cb[c].stat = @ \cup {"RUN"},
     !.exec[p] = [by |-> by, inst |-> Instance(k, c)]]

call_almhdr(k, p, by, a) ==
  [Forget(k, a) EXCEPT !.cb[a].stat = (@ \ {"STA"}) \cup {"RUN"},
            !.exec[p] = [by |-> by, inst |-> Instance(k, a)]]

(* Up to the next handler or to the end of the loop. *)
handler_execution(k, p, by) ==
  IF k.hq[p].hdrque = <<>>
  THEN [k EXCEPT !.hq[p].act = FALSE, !.exec[p] = Idle]
  ELSE LET h == Head(k.hq[p].hdrque)
           q == [k EXCEPT !.hq[p].hdrque = Tail(@)]
       IN  IF h \in Cyc THEN call_cychdr(q, p, by, h) ELSE call_almhdr(q, p, by, h)

check_handler_queue(k) == {p \in Proc : k.hq[p].upd /\ ~k.hq[p].act}

(* The other processors are requested only if this one has nothing to run. *)
handler_update_OneOrOthers(k, p, by) ==
  LET assprc == check_handler_queue(k)
      c == [k EXCEPT !.hq = [q \in Proc |->
              [k.hq[q] EXCEPT !.upd = FALSE, !.act = @ \/ q \in assprc]]]
  IN  IF p \in assprc THEN handler_execution(c, p, by) ELSE [c EXCEPT !.ipi = @ \cup assprc]

(* Check the queues, and request the processors whose loop does not run. *)
handler_update(k, p, by) ==
  LET assprc == check_handler_queue(k)
      c == [k EXCEPT !.hq = [q \in Proc |->
              [k.hq[q] EXCEPT !.upd = FALSE, !.act = @ \/ q \in assprc]]]
      handler_request == [c EXCEPT !.ipi = @ \cup (assprc \ {p})]
  IN  IF p \in assprc THEN handler_execution(handler_request, p, by) ELSE handler_request

-----------------------------------------------------------------------------
(* Interrupts, and the end of handlers *)

(* The events that are due at a time: how many, from the head of the queue.*)
Due(now) ==
  LET later == SelectInSeq(timer_queue, LAMBDA o : time[o] > now)
  IN  IF later = 0 THEN Len(timer_queue) ELSE later - 1

(* The elements of s whose index is in S. *)
InOrder(s, S) ==
  [n \in 1..Cardinality(S) |-> s[CHOOSE i \in S : Cardinality({j \in S : j <= i}) = n]]

(* Those that are due, one after the other: a task does not wait any       *)
(* longer, a handler goes to the queue it is to run from.                  *)
expire(k, due) ==
  LET Mine(p) == {i \in DOMAIN due : due[i] \in Handler /\ Target(k, TimerProc, due[i]) = p}
  IN  [k EXCEPT !.time = [o \in Object |-> IF o \in Task /\ Contains(due, o) THEN 0 ELSE k.time[o]],
                !.hq = [p \in Proc |-> [k.hq[p] EXCEPT !.hdrque = @ \o InOrder(due, Mine(p)),
                                                      !.upd = @ \/ Mine(p) # {}]]]

(* Not while a handler runs from an interrupt on that processor, or with   *)
(* interrupts disabled.                                                    *)
timer_handler ==
  /\ current_time + TIMER_PERIOD <= MaxTime
  /\ imm[TimerProc] = Idle
  /\ exec[TimerProc] # Idle => exec[TimerProc].by = "TASK"
  /\ LET now == current_time + TIMER_PERIOD
         k == [K EXCEPT !.now = now, !.tq = SubSeq(@, Due(now) + 1, Len(@))]
     IN  Becomes(handler_update(expire(k, SubSeq(timer_queue, 1, Due(now))), TimerProc, "INT"))
  /\ UNCHANGED ended

handler_interrupt(p) ==
  /\ p \in ipi /\ imm[p] = Idle
  /\ Becomes(handler_execution([K EXCEPT !.ipi = @ \ {p}], p, "INT"))
  /\ UNCHANGED ended

ClearRun(k, inst, flags) ==
  IF k.no[inst.hdr] = inst.no THEN [k EXCEPT !.cb[inst.hdr].stat = @ \ flags] ELSE k

(* The loop enters the critical section and goes on. *)
HandlerReturns(p) ==
  /\ exec[p] # Idle
  /\ exec[p].by = "INT" => imm[p] = Idle
  /\ LET k == [ClearRun(K, exec[p].inst, {"RUN"}) EXCEPT !.exec[p] = Idle]
     IN  Becomes(handler_execution(k, p, exec[p].by))
  /\ UNCHANGED ended

ImmediateReturns(p) ==
  /\ imm[p] # Idle
  /\ Becomes([ClearRun(K, imm[p], {"RUN", "IMM"}) EXCEPT !.imm[p] = Idle])
  /\ UNCHANGED ended

(* A loop that a task runs ends when the task is terminated. *)
TaskEnds(p) ==
  /\ exec[p] # Idle /\ exec[p].by = "TASK"
  /\ exec' = [exec EXCEPT ![p] = Idle] /\ ended' = ended \cup {p}
  /\ UNCHANGED <<current_time, timer_queue, time, handler_queue, cyccb, almcb, hdrno, imm, ipi>>

-----------------------------------------------------------------------------
(* The calls.  One that may run a handler at once is made on p by a task,  *)
(* or by a handler that p's queue runs; a handler that was called at once  *)
(* makes no such call.                                                     *)

Stat(h) == K.cb[h].stat
Exists(h) == K.cb[h] # NOEXS
Started(h) == Exists(h) /\ "STA" \in Stat(h)
MayCall(p) == imm[p] = Idle

InUse == {h \in Handler : Exists(h)} \cup {t \in Task : Contains(timer_queue, t)}
MayUse(o) == o \notin InUse /\ Cardinality(InUse) < MaxUse

immediate_call_cychdr(k, p, c) ==
  IF k.cb[c].assprc # Idle THEN handler_update(distribute(k, p, c), p, "TASK")
  ELSE [timer_insert_abs(k, c, cyc_next_time(k, c)) EXCEPT
          !.cb[c].stat = @ \cup {"RUN", "IMM"}, !.imm[p] = Instance(k, c)]

(* A handler that is only queued does not count as started. *)
immediate_call_almhdr_Unstarted(k, p, a) ==
  IF k.cb[a].assprc # Idle
  THEN handler_update(distribute([Forget(k, a) EXCEPT !.cb[a].stat = @ \ {"STA"}], p, a), p, "TASK")
  ELSE [Forget(k, a) EXCEPT !.cb[a].stat = (@ \ {"STA"}) \cup {"RUN", "IMM"}, !.imm[p] = Instance(k, a)]

immediate_call_almhdr(k, p, a) ==
  IF k.cb[a].assprc # Idle
  THEN handler_update(distribute([Forget(k, a) EXCEPT !.cb[a].stat = @ \cup {"STA"}], p, a), p, "TASK")
  ELSE [Forget(k, a) EXCEPT !.cb[a].stat = (@ \ {"STA"}) \cup {"RUN", "IMM"}, !.imm[p] = Instance(k, a)]

_tk_cre_cyc(p, c) == \E kind \in CycKinds :
  /\ MayUse(c)
  /\ LET tm == current_time + kind.cycphs + TIMER_PERIOD
         k == [K EXCEPT !.cb[c] = [assprc |-> kind.assprc, phs |-> kind.phs, cyctim |-> kind.cyctim,
                                   stat |-> IF kind.sta THEN {"STA"} ELSE {}],
                        !.time[c] = tm]
     IN  /\ kind.sta /\ kind.cycphs = 0 => MayCall(p)
         /\ Becomes(IF ~kind.sta THEN k
                    ELSE IF kind.cycphs = 0 THEN immediate_call_cychdr(k, p, c)
                    ELSE timer_insert_abs(k, c, tm))
  /\ UNCHANGED ended

_tk_sta_cyc(c) ==
  /\ Exists(c)
  /\ LET s == [K EXCEPT !.cb[c].stat = @ \cup {"STA"}]
     IN  Becomes(
           IF ~cyccb[c].phs
           THEN timer_insert_reltim(IF Started(c) THEN timer_delete(s, c) ELSE s, c, cyccb[c].cyctim)
           ELSE IF Started(c) THEN s
           ELSE timer_insert_abs(s, c, IF time[c] <= current_time THEN cyc_next_time(K, c) ELSE time[c]))
  /\ UNCHANGED ended

(* How long it is until the handler is called; if it is stopped, until it  *)
(* would be if it was started now.                                         *)
_tk_ref_cyc(c) ==
  LET tm == IF Started(c) \/ time[c] > current_time THEN time[c] ELSE cyc_next_time(K, c)
      left == tm - current_time - TIMER_PERIOD
  IN  IF ~Exists(c) THEN NOEXS
      ELSE [lfttim |-> IF left < 0 THEN 0 ELSE left, cycstat |-> Stat(c) \ {"RUN", "IMM"}]

(* _tk_stp_cyc, and _tk_stp_alm, which does the same. *)
Stop(k, h) == [IF Started(h) THEN timer_delete(k, h) ELSE k EXCEPT !.cb[h].stat = @ \ {"STA"}]
_tk_stp_cyc(c) == Exists(c) /\ Becomes(Stop(K, c)) /\ UNCHANGED ended
_tk_stp_alm(a) == Exists(a) /\ Becomes(Forget(Stop(K, a), a)) /\ UNCHANGED ended

MayDelete(h) == Exists(h) /\ MapThenSumSet(LAMBDA x : hdrno[x], Handler) < MaxNo

(* A handler that runs goes on. *)
Delete(k, h) == [Forget(Stop(k, h), h) EXCEPT !.cb[h] = NOEXS, !.no[h] = @ + 1]
_tk_del_cyc(c) == MayDelete(c) /\ Becomes(Delete(K, c)) /\ UNCHANGED ended
_tk_del_alm(a) == MayDelete(a) /\ Becomes(Delete(K, a)) /\ UNCHANGED ended

_tk_cre_alm(a) == \E assprc \in Assprcs :
  /\ MayUse(a)
  /\ Becomes([K EXCEPT !.cb[a] = [assprc |-> assprc, stat |-> {}]])
  /\ UNCHANGED ended

(* Does not ask who runs the handler when the time is to come. *)
WouldOverlap_AtOnce(a, almtim) ==
  almtim = 0 /\ "RUN" \in Stat(a) /\ ("IMM" \in Stat(a) \/ almcb[a].assprc = Idle)

(* E_OBJ: the handler runs, and could be made to run twice at once. *)
WouldOverlap(a, almtim) ==
  /\ "RUN" \in Stat(a)
  /\ \/ almtim = 0 /\ "IMM" \in Stat(a)
     \/ almcb[a].assprc = Idle /\ (almtim = 0 \/ "IMM" \in Stat(a))

_tk_sta_alm(p, a, almtim) ==
  /\ Exists(a) /\ ~WouldOverlap(a, almtim)
  /\ almtim = 0 => MayCall(p)
  /\ LET k == IF Started(a) THEN timer_delete(K, a) ELSE K
     IN  Becomes(IF almtim = 0 THEN immediate_call_almhdr(k, p, a)
                 ELSE timer_insert_reltim([k EXCEPT !.cb[a].stat = @ \cup {"STA"}], a, almtim))
  /\ UNCHANGED ended

(* tk_dly_tsk, or any wait with a timeout; and its end by another task. *)
_tk_dly_tsk(t, dlytim) ==
  /\ MayUse(t)
  /\ Becomes(timer_insert_reltim(K, t, dlytim)) /\ UNCHANGED ended

wait_release(t) ==
  /\ Contains(timer_queue, t)
  /\ Becomes(Forget(timer_delete(K, t), t)) /\ UNCHANGED ended

Next ==
  \/ timer_handler
  \/ \E p \in Proc :
       \/ handler_interrupt(p) \/ HandlerReturns(p) \/ ImmediateReturns(p) \/ TaskEnds(p)
       \/ \E c \in Cyc : _tk_cre_cyc(p, c)
       \/ \E a \in Alm, almtim \in Almtims : _tk_sta_alm(p, a, almtim)
  \/ \E c \in Cyc : _tk_sta_cyc(c) \/ _tk_stp_cyc(c) \/ _tk_del_cyc(c)
  \/ \E a \in Alm : _tk_cre_alm(a) \/ _tk_stp_alm(a) \/ _tk_del_alm(a)
  \/ \E t \in Task : wait_release(t) \/ \E dlytim \in Dlytims : _tk_dly_tsk(t, dlytim)

Spec == Init /\ [][Next]_vars

(* A pending interrupt is taken when interrupts are enabled, and a handler *)
(* returns: it makes finitely many calls.                                  *)
FairSpec == Spec /\ \A p \in Proc :
  /\ SF_vars(handler_interrupt(p))
  /\ SF_vars(HandlerReturns(p))
  /\ WF_vars(ImmediateReturns(p))

-----------------------------------------------------------------------------
(* Properties *)

InTimerQueue(o) == Cardinality({i \in DOMAIN timer_queue : timer_queue[i] = o})
InHandlerQueues(h) ==
  Cardinality(UNION {{p} \X {i \in DOMAIN handler_queue[p].hdrque :
                               handler_queue[p].hdrque[i] = h} : p \in Proc})

(* timer_delete and enqueue_tmeb rely on it: the event of a handler is in  *)
(* one queue exactly while the handler is started.  And what is due has    *)
(* left the timer queue, and is served: by a loop that runs or is          *)
(* requested, unless the task that ran the loop was terminated.            *)
EventsQueued ==
  /\ \A h \in Handler :
       InTimerQueue(h) + InHandlerQueues(h) = IF Started(h) THEN 1 ELSE 0
  /\ \A i \in 1..Len(timer_queue) :
       /\ time[timer_queue[i]] > current_time
       /\ i > 1 => time[timer_queue[i - 1]] <= time[timer_queue[i]]
  /\ \A p \in Proc :
       /\ handler_queue[p].hdrque # <<>> => handler_queue[p].act
       /\ handler_queue[p].act = (p \in ipi \/ exec[p] # Idle \/ p \in ended)

(* However it is stopped, started and called at once: an alarm handler runs*)
(* on one processor at a time (tk_sta_alm's E_OBJ, and one loop per queue).*)
AlarmAlone == \A p, q \in Proc, a \in Alm :
  LET Runs(x) == exec[x] # Idle /\ exec[x].inst.hdr = a
  IN  /\ p # q /\ Runs(p) /\ Runs(q) => exec[p].inst # exec[q].inst
      /\ imm[p] # Idle /\ imm[p].hdr = a =>
           /\ Runs(q) => exec[q].inst # imm[p]
           /\ p # q => imm[p] # imm[q]

(* However late it is served, a cyclic handler keeps its phase, which      *)
(* tk_sta_cyc changes only without TA_PHS (cyc_next_time); it is set for a *)
(* time to come when it is called.                                         *)
InPhase == [][\A c \in Cyc : Exists(c) /\ hdrno'[c] = hdrno[c] =>
  /\ cyccb[c].phs => (time'[c] - time[c]) % cyccb[c].cyctim = 0
  /\ \A p \in Proc :
       exec'[p] # exec[p] /\ exec'[p] # Idle /\ exec'[p].inst.hdr = c => time'[c] > current_time']_vars

(* A handler in a processor's queue leaves it: to run, or because somebody *)
(* stops it (handler_request, handler_execution).                          *)
HandlersRun == \A p \in Proc, h \in Handler :
  []<>(~Contains(handler_queue[p].hdrque, h) \/ p \in ended)

=============================================================================
