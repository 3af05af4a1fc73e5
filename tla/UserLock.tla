------------------------------ MODULE UserLock ------------------------------
(***************************************************************************)
(* The locks of libtk: the high-speed lock over a semaphore (fastlock.c)   *)
(* and the multi-lock over an event flag (fastmlock.c).  An atomic         *)
(* operation or a system call is a step.  Which of the waiting tasks goes  *)
(* on depends on priorities and is open here.                              *)
(***************************************************************************)
EXTENDS Integers, FiniteSets

CONSTANTS
  Locker,    \* the tasks
  LockNos    \* numbers of the multi-lock

ASSUME LockAssumption == IsFiniteSet(Locker) /\ LockNos \subseteq 0..31

VARIABLES
  cnt, semcnt,    \* FastLock: the counter, its semaphore
  wai, flg,       \* FastMLock: the counter, the bits that are taken,
  flgptn,         \* its event flag
  doing,          \* of each task, [at, no]
  released        \* for the properties: FastLock has taken a wait that
                  \* tk_rel_wai ended for one that got the semaphore

lockvars == <<cnt, semcnt, wai, flg, flgptn, doing, released>>

Out == [at |-> "OUT", no |-> 0]
CallersAt(steps) == {t \in Locker : doing[t].at \in steps}
With(steps, no) == {t \in CallersAt(steps) : doing[t].no = no}

Step(t, from, to) ==
  /\ doing[t].at = from
  /\ doing' = [doing EXCEPT ![t].at = to]

(* Both locks are created. *)
LockInit ==
  /\ cnt = -1 /\ semcnt = 0
  /\ wai = 0 /\ flg = {} /\ flgptn = {}
  /\ doing = [t \in Locker |-> Out] /\ released = FALSE

-----------------------------------------------------------------------------
(* FastLock *)

Lock(t) ==
  /\ Step(t, "OUT", IF cnt + 1 > 0 THEN "WAISEM" ELSE "IN")
  /\ cnt' = cnt + 1
  /\ UNCHANGED <<semcnt, wai, flg, flgptn, released>>

tk_wai_sem(t) ==
  /\ IF semcnt > 0 THEN Step(t, "WAISEM", "IN") /\ semcnt' = semcnt - 1
     ELSE Step(t, "WAISEM", "SLEEP") /\ UNCHANGED semcnt
  /\ UNCHANGED <<cnt, wai, flg, flgptn, released>>

(* What tk_wai_sem returns is not looked at: a task that another has       *)
(* released goes on as if it had the lock.                                 *)
tk_rel_wai(t) ==
  /\ Step(t, "SLEEP", "IN")
  /\ released' = TRUE
  /\ UNCHANGED <<cnt, semcnt, wai, flg, flgptn>>

Unlock(t) ==
  /\ Step(t, "IN", IF cnt > 0 THEN "SIGSEM" ELSE "OUT")
  /\ cnt' = cnt - 1
  /\ UNCHANGED <<semcnt, wai, flg, flgptn, released>>

(* maxsem is 1. *)
tk_sig_sem(t) ==
  /\ doing[t].at = "SIGSEM"
  /\ IF CallersAt({"SLEEP"}) = {}
     THEN /\ semcnt' = IF semcnt < 1 THEN semcnt + 1 ELSE semcnt
          /\ doing' = [doing EXCEPT ![t] = Out]
     ELSE /\ \E w \in CallersAt({"SLEEP"}) : doing' = [doing EXCEPT ![t] = Out, ![w].at = "IN"]
          /\ UNCHANGED semcnt
  /\ UNCHANGED <<cnt, wai, flg, flgptn, released>>

-----------------------------------------------------------------------------
(* FastMLock *)

MLockTmo(t, no) ==
  /\ doing[t].at = "OUT"
  /\ doing' = [doing EXCEPT ![t] = [at |-> "BTS", no |-> no]]
  /\ wai' = wai + 1
  /\ UNCHANGED <<cnt, semcnt, flg, flgptn, released>>

BTS(t) ==
  LET no == doing[t].no IN
  /\ Step(t, "BTS", IF no \in flg THEN "WAIFLG" ELSE "LOCKED")
  /\ flg' = flg \cup {no}
  /\ UNCHANGED <<cnt, semcnt, wai, flgptn, released>>

(* TWF_BITCLR *)
tk_wai_flg(t) ==
  LET no == doing[t].no IN
  /\ IF no \in flgptn THEN Step(t, "WAIFLG", "BTS") ELSE Step(t, "WAIFLG", "MSLEEP")
  /\ flgptn' = flgptn \ {no}
  /\ UNCHANGED <<cnt, semcnt, wai, flg, released>>

(* Here the error is looked at: TMO, or E_RLWAI of tk_rel_wai.             *)
Timeout(t) ==
  /\ Step(t, "MSLEEP", "FAILED")
  /\ UNCHANGED <<cnt, semcnt, wai, flg, flgptn, released>>

MLockTmo_Dec(t) ==
  /\ \/ Step(t, "LOCKED", "MIN")
     \/ doing[t].at = "FAILED" /\ doing' = [doing EXCEPT ![t] = Out]
  /\ wai' = wai - 1
  /\ UNCHANGED <<cnt, semcnt, flg, flgptn, released>>

MUnlock(t) ==
  /\ Step(t, "MIN", "WAKE")
  /\ flg' = flg \ {doing[t].no}
  /\ UNCHANGED <<cnt, semcnt, wai, flgptn, released>>

NoneWaits == wai = 0

MUnlock_Wake(t) ==
  /\ IF NoneWaits THEN doing[t].at = "WAKE" /\ doing' = [doing EXCEPT ![t] = Out]
     ELSE Step(t, "WAKE", "SETFLG")
  /\ UNCHANGED <<cnt, semcnt, wai, flg, flgptn, released>>

tk_set_flg(t) ==
  LET no == doing[t].no
      waiting == With({"MSLEEP"}, no)
  IN
  /\ doing[t].at = "SETFLG"
  /\ IF waiting = {}
     THEN flgptn' = flgptn \cup {no} /\ doing' = [doing EXCEPT ![t] = Out]
     ELSE /\ \E w \in waiting : doing' = [doing EXCEPT ![t] = Out, ![w].at = "BTS"]
          /\ UNCHANGED flgptn
  /\ UNCHANGED <<cnt, semcnt, wai, flg, released>>

LockNext == \E t \in Locker :
  \/ Lock(t) \/ tk_wai_sem(t) \/ tk_rel_wai(t) \/ Unlock(t) \/ tk_sig_sem(t)
  \/ \E no \in LockNos : MLockTmo(t, no)
  \/ BTS(t) \/ tk_wai_flg(t) \/ Timeout(t) \/ MLockTmo_Dec(t)
  \/ MUnlock(t) \/ MUnlock_Wake(t) \/ tk_set_flg(t)

LockSpec == LockInit /\ [][LockNext]_lockvars

-----------------------------------------------------------------------------
(* The lock is with a task, with the semaphore or on its way to it: it is  *)
(* never lost, whatever wait is released, and as long as none was released *)
(* it is there once.                                                       *)
Copies == Cardinality(CallersAt({"IN", "SIGSEM"})) + semcnt
FastLockHandedOn ==
  /\ cnt + 1 = Cardinality(CallersAt({"WAISEM", "SLEEP", "IN"}))
  /\ cnt >= 0 => Copies >= 1
  /\ ~released => Copies = (IF cnt >= 0 THEN 1 ELSE 0)

Asleep(t, no) ==
  /\ doing[t].no = no
  /\ doing[t].at = "MSLEEP" \/ (doing[t].at = "WAIFLG" /\ no \notin flgptn)
Awake(no) == \E t \in Locker : doing[t].at \in {"BTS", "WAKE", "SETFLG"} /\ doing[t].no = no

(* A number has one owner, and as long as one task waits for it either it  *)
(* is taken or somebody who is awake will take it or wake that task.       *)
Owned(no) == Cardinality(With({"LOCKED", "MIN"}, no)) = IF no \in flg THEN 1 ELSE 0
NotStranded(no) == no \in flg \/ Awake(no) \/ \A t \in Locker : ~Asleep(t, no)
MultiLockHandedOn == \A no \in LockNos : Owned(no) /\ NotStranded(no)

UserLocksHandedOn == FastLockHandedOn /\ MultiLockHandedOn

=============================================================================
