----------------------------- MODULE TaskSync -----------------------------
(***************************************************************************)
(* Suspension, sleeping and task events (task_sync.c).  What ends any kind *)
(* of wait needs the hooks of all objects: module Objects.                 *)
(***************************************************************************)
EXTENDS Wait

CONSTANTS
  MaxSus, \* bound: suspensions of a task, INT_MAX in the code
  MaxWup, \* bound: wakeup requests of a task, INT_MAX in the code
  MaxDisturbed \* bound: tasks suspended, dormant, masked or of another priority

SyncK == [tcb |-> tcb, wq |-> waitq]
SyncBecomes(k) == tcb' = k.tcb /\ waitq' = k.wq

Disturbed == {t \in Task :
  \/ tcb[t].state \in {"SUSPEND", "WAITSUS", "DORMANT"}
  \/ tcb[t].waitmask # {} \/ tcb[t].pri # ItskPri}
MayDisturb(t) == Cardinality(Disturbed \cup {t}) <= MaxDisturbed

(* A READY task may be late: it runs on another core and spins for the     *)
(* kernel's lock.                                                          *)
_tk_sus_tsk(t, late) ==
  /\ tcb[t].state # "DORMANT" /\ tcb[t].suscnt < MaxSus /\ MayDisturb(t)
  /\ late => tcb[t].state = "READY"
  /\ SyncBecomes([SyncK EXCEPT !.tcb[t] = [@ EXCEPT
       !.suscnt = @ + 1, !.late = @ \/ late,
       !.state = CASE @ = "READY" -> "SUSPEND" [] @ = "WAIT" -> "WAITSUS" [] OTHER -> @]])

Resumed(c) == [c EXCEPT !.suscnt = 0, !.late = FALSE,
                        !.state = IF @ = "SUSPEND" THEN "READY" ELSE "WAIT"]

_tk_rsm_tsk(t) ==
  /\ tcb[t].state \in {"SUSPEND", "WAITSUS"}
  /\ SyncBecomes([SyncK EXCEPT !.tcb[t] =
       IF @.suscnt = 1 THEN Resumed(@) ELSE [@ EXCEPT !.suscnt = @ - 1]])

_tk_frsm_tsk(t) ==
  /\ tcb[t].state \in {"SUSPEND", "WAITSUS"}
  /\ SyncBecomes([SyncK EXCEPT !.tcb[t] = Resumed(@)])

_tk_slp_tsk(t, tmout) ==
  /\ Caller(t) /\ "SLP" \notin tcb[t].waitmask
  /\ SyncBecomes(
       IF tcb[t].wupcnt > 0 THEN Returned([SyncK EXCEPT !.tcb[t].wupcnt = @ - 1], t)
       ELSE make_wait(SyncK, t, [kind |-> "SLP", timed |-> tmout, nodiswai |-> FALSE]))

Sleeps(t) == Waiting(SyncK, t) /\ tcb[t].wait.kind = "SLP"

_tk_wup_tsk(t) ==
  /\ tcb[t].state # "DORMANT"
  /\ \/ Sleeps(t) /\ SyncBecomes(wait_release(SyncK, t))
     \/ /\ ~Sleeps(t) /\ tcb[t].wupcnt < MaxWup
        /\ SyncBecomes([SyncK EXCEPT !.tcb[t].wupcnt = @ + 1])

_tk_can_wup(t) ==
  /\ tcb[t].state # "DORMANT"
  /\ SyncBecomes([SyncK EXCEPT !.tcb[t].wupcnt = 0])

_tk_wai_tev(t, waiptn, tmout) ==
  /\ Caller(t) /\ tcb[t].waitmask \cap waiptn = {}
  /\ SyncBecomes(
       IF tcb[t].tskevt \cap waiptn # {}
       THEN Returned([SyncK EXCEPT !.tcb[t].tskevt = @ \ waiptn], t)
       ELSE make_wait(SyncK, t,
              [kind |-> "EV", timed |-> tmout, nodiswai |-> FALSE, ptn |-> waiptn]))

(* An event that ends a wait is not recorded. *)
_tk_sig_tev(t, ev) ==
  /\ tcb[t].state # "DORMANT"
  /\ SyncBecomes(IF Waiting(SyncK, t) /\ ev \in tskwait(tcb[t].wait)
                 THEN wait_release(SyncK, t)
                 ELSE [SyncK EXCEPT !.tcb[t].tskevt = @ \cup {ev}])

(* A task that another core suspended in its call completes a call that    *)
(* does not wait.                                                          *)
LateReturn(t) == tcb[t].late /\ SyncBecomes(Returned(SyncK, t))

SuspendNext == \E t \in Task :
  \/ \E late \in BOOLEAN : _tk_sus_tsk(t, late)
  \/ _tk_rsm_tsk(t)
  \/ _tk_frsm_tsk(t)
  \/ LateReturn(t)

SleepNext == \E t \in Task :
  \/ \E tmout \in Tmos : _tk_slp_tsk(t, tmout)
  \/ _tk_wup_tsk(t)
  \/ _tk_can_wup(t)
  \/ \E waiptn \in SUBSET Events \ {{}}, tmout \in Tmos : _tk_wai_tev(t, waiptn, tmout)
  \/ \E ev \in Events : _tk_sig_tev(t, ev)

(* No task sleeps with a wakeup request left, or waits for an event it has.*)
SyncNobodyWaits == \A t \in Task :
  LET w == tcb[t].wait IN
  /\ w.kind = "SLP" => tcb[t].wupcnt = 0
  /\ w.kind = "EV" => tcb[t].tskevt \cap w.ptn = {}

=============================================================================
