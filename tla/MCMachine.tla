----------------------------- MODULE MCMachine ------------------------------
(* A small instance of Machine for TLC. *)
EXTENDS Machine

CONSTANTS p1, p2, p3, c1, a1, t1, s1, s2

(* Cyclic handlers shorter and longer than TIMER_PERIOD, on either         *)
(* processor, and called at once.                                          *)
Kind(sta, phs, assprc, cyctim, cycphs) ==
  [sta |-> sta, phs |-> phs, assprc |-> assprc, cyctim |-> cyctim, cycphs |-> cycphs]
Kinds == {Kind(TRUE, FALSE, p2, 1, 0), Kind(TRUE, TRUE, Idle, 3, 0),
          Kind(TRUE, TRUE, p2, 2, 1), Kind(FALSE, TRUE, Idle, 3, 1)}
AnyAssprc == {Idle, p2}

(* Whatever is got from Imalloc or from the kernel may be refused.         *)
Refused ==
  Named \cup {"memmgr", "Imalloc", "mp_domain", "subsystem", "resource_group", "timer", InitTask,
              "segmgr", "MemLock", "log_mbf", "log_task", "sysmgr", "DevMgrLock", "DevMgrSync",
              "DevCBtbl", "OpnCBtbl", "ReqCBtbl", "evtmbf", "devmgr"}

(* One of two requesters does not wait, and has a second request.          *)
BothModes == [p \in Caller |-> IF p = p1 THEN {[sync |-> FALSE, self |-> FALSE]}
                                         ELSE {[sync |-> TRUE, self |-> TRUE]}]
OneTwice == [p \in Caller |-> IF p = p1 THEN 2 ELSE 1]

=============================================================================
