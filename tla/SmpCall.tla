------------------------------ MODULE SmpCall -------------------------------
(***************************************************************************)
(* Calls between processors (smpcall_drv.c): a processor has a function    *)
(* executed on all others by an interrupt, and waits until they have begun *)
(* or ended it.  ControlCacheM (cache.c) uses it with a parameter on its   *)
(* own stack.                                                              *)
(*                                                                         *)
(* A request is a number, in the order of those of its processor.          *)
(***************************************************************************)
EXTENDS Integers, Sequences, FiniteSets, SequencesExt

CONSTANTS
  Cpu,     \* the processors
  Caller,  \* bound: those that make requests
  First,   \* the one that initializes the driver
  Modes,   \* how each calls it: [sync, self]
  NoCpu,
  MaxReq   \* bound: the requests of each

ASSUME SmpCallAssumption ==
  /\ IsFiniteSet(Cpu) /\ First \in Cpu /\ Caller \subseteq Cpu /\ NoCpu \notin Cpu
  /\ Modes \in [Caller -> SUBSET [sync : BOOLEAN, self : BOOLEAN]]
  /\ MaxReq \in [Caller -> Nat]

VARIABLES
  dcb,     \* [valid, available_proc, lock: the processor that holds it]
  status,  \* of each requester: the processors that have not accepted yet,
           \* and those that have not executed
  request, \* of each requester, the number that is func and param
  smpc_ipi,\* interrupts that are pending, <<from, to>>
  handler, \* of each processor: [from, at] of the request it executes
  call,    \* of each processor: [at, mode], where its caller is
  notified,\* of each pair <<from, to>>, the requests notified
  executed \* of each pair, those executed

smpvars == <<dcb, status, request, smpc_ipi, handler, call, notified, executed>>

Pair == Cpu \X Cpu
NoHandler == [from |-> NoCpu, at |-> "NONE"]
AMode == [sync |-> TRUE, self |-> FALSE]
NoCall == [at |-> "IDLE", mode |-> AMode]

SmpInit ==
  /\ dcb = [valid |-> FALSE, available_proc |-> {}, lock |-> NoCpu]
  /\ status = [p \in Cpu |-> [acp |-> {}, exe |-> {}]]
  /\ request = [p \in Cpu |-> 0]
  /\ smpc_ipi = {}
  /\ handler = [p \in Cpu |-> NoHandler]
  /\ call = [p \in Cpu |-> NoCall]
  /\ notified = [pair \in Pair |-> <<>>]
  /\ executed = [pair \in Pair |-> <<>>]

Goes(p, at) == call' = [call EXCEPT ![p].at = at]

(* Interrupts are disabled from smpc_lock to smpc_unlock, in the handler,  *)
(* and in other code; in the loop of smpc_lock they are not.               *)
Enabled_NotInLock(p) == handler[p] = NoHandler /\ call[p].at \in {"IDLE", "WAI"}
Enabled(p) == handler[p] = NoHandler /\ call[p].at \in {"IDLE", "LOCK", "WAI"}
Running(p) == handler[p] = NoHandler

-----------------------------------------------------------------------------
smpc_init(p) ==
  /\ p = First /\ ~dcb.valid
  /\ dcb' = [dcb EXCEPT !.valid = TRUE]
  /\ UNCHANGED <<status, request, smpc_ipi, handler, call, notified, executed>>

smpc_regist(p) ==
  /\ dcb.valid /\ p \notin dcb.available_proc
  /\ dcb' = [dcb EXCEPT !.available_proc = @ \cup {p}]
  /\ UNCHANGED <<status, request, smpc_ipi, handler, call, notified, executed>>

(* A call begins: CC_SELF does not come here. *)
ControlCacheM(p, m) ==
  /\ Running(p) /\ call[p].at = "IDLE" /\ p \in dcb.available_proc
  /\ request[p] < MaxReq[p]
  /\ call' = [call EXCEPT ![p] = [at |-> "LOCK", mode |-> m]]
  /\ UNCHANGED <<dcb, status, request, smpc_ipi, handler, notified, executed>>

smpc_lock(p) ==
  /\ Running(p) /\ call[p].at = "LOCK" /\ dcb.lock = NoCpu
  /\ dcb' = [dcb EXCEPT !.lock = p]
  /\ Goes(p, "REQ")
  /\ UNCHANGED <<status, request, smpc_ipi, handler, notified, executed>>

wait_for_completion(p) == status[p].exe = {}
wait_for_acceptance(p) == status[p].acp = {}

(* Nobody is to execute a request of a processor that is alone. *)
notify(p) ==
  LET bitmap == dcb.available_proc \ {p} IN
  /\ request' = [request EXCEPT ![p] = @ + 1]
  /\ status' = [status EXCEPT ![p] = [acp |-> bitmap, exe |-> bitmap]]
  /\ smpc_ipi' = smpc_ipi \cup ({p} \X bitmap)
  /\ notified' = [pair \in Pair |->
       IF pair[1] = p /\ pair[2] \in bitmap THEN Append(notified[pair], request[p] + 1) ELSE notified[pair]]

smpc_req_NoWait(p) ==
  /\ Running(p) /\ call[p].at = "REQ"
  /\ notify(p)
  /\ Goes(p, IF call[p].mode.self THEN "SELF" ELSE "WAIT")
  /\ UNCHANGED <<dcb, handler, executed>>

smpc_req(p) ==
  /\ Running(p) /\ call[p].at = "REQ"
  /\ wait_for_completion(p)
  /\ notify(p)
  /\ Goes(p, IF call[p].mode.self THEN "SELF" ELSE "WAIT")
  /\ UNCHANGED <<dcb, handler, executed>>

(* Own processor also. *)
smpc_req_Self(p) ==
  /\ Running(p) /\ call[p].at = "SELF"
  /\ executed' = [executed EXCEPT ![<<p, p>>] = Append(@, request[p])]
  /\ notified' = [notified EXCEPT ![<<p, p>>] = Append(@, request[p])]
  /\ Goes(p, "WAIT")
  /\ UNCHANGED <<dcb, status, request, smpc_ipi, handler>>

smpc_req_Done_Accepted(p) ==
  /\ Running(p) /\ call[p].at = "WAIT"
  /\ wait_for_acceptance(p)
  /\ Goes(p, "UNLOCK")
  /\ UNCHANGED <<dcb, status, request, smpc_ipi, handler, notified, executed>>

smpc_req_Done(p) ==
  /\ Running(p) /\ call[p].at = "WAIT"
  /\ IF call[p].mode.sync THEN wait_for_completion(p) ELSE wait_for_acceptance(p)
  /\ Goes(p, "UNLOCK")
  /\ UNCHANGED <<dcb, status, request, smpc_ipi, handler, notified, executed>>

(* After a call that did not wait, smpc_wai follows before its parameter   *)
(* goes; with interrupts enabled again.                                    *)
smpc_unlock(p) ==
  /\ Running(p) /\ call[p].at = "UNLOCK"
  /\ dcb' = [dcb EXCEPT !.lock = NoCpu]
  /\ \/ call' = [call EXCEPT ![p] = NoCall]
     \/ call' = [call EXCEPT ![p].at = "WAI"] /\ ~call[p].mode.sync
  /\ UNCHANGED <<status, request, smpc_ipi, handler, notified, executed>>

smpc_wai(p) ==
  /\ Running(p) /\ call[p].at = "WAI" /\ wait_for_completion(p)
  /\ call' = [call EXCEPT ![p] = NoCall]
  /\ UNCHANGED <<dcb, status, request, smpc_ipi, handler, notified, executed>>

(* The interrupt, and the steps of do_request.                             *)
smpc_handler(q, from) ==
  /\ <<from, q>> \in smpc_ipi /\ Enabled(q)
  /\ smpc_ipi' = smpc_ipi \ {<<from, q>>}
  /\ handler' = [handler EXCEPT ![q] = [from |-> from, at |-> "ACCEPT"]]
  /\ UNCHANGED <<dcb, status, request, call, notified, executed>>

do_request(q) ==
  LET from == handler[q].from IN
  \/ /\ handler[q].at = "ACCEPT"
     /\ status' = [status EXCEPT ![from].acp = @ \ {q}]
     /\ handler' = [handler EXCEPT ![q].at = "EXECUTE"]
     /\ UNCHANGED executed
  \/ /\ handler[q].at = "EXECUTE"
     /\ executed' = [executed EXCEPT ![<<from, q>>] = Append(@, request[from])]
     /\ handler' = [handler EXCEPT ![q].at = "FINISH"]
     /\ UNCHANGED status
  \/ /\ handler[q].at = "FINISH"
     /\ status' = [status EXCEPT ![from].exe = @ \ {q}]
     /\ handler' = [handler EXCEPT ![q] = NoHandler]
     /\ UNCHANGED executed

DoRequest(q) == do_request(q) /\ UNCHANGED <<dcb, request, smpc_ipi, call, notified>>

(* Other code with interrupts disabled for a while. *)
Disable(p) ==
  /\ Running(p) /\ call[p].at = "IDLE"
  /\ Goes(p, "OTHER")
  /\ UNCHANGED <<dcb, status, request, smpc_ipi, handler, notified, executed>>

Enable(p) ==
  /\ Running(p) /\ call[p].at = "OTHER"
  /\ call' = [call EXCEPT ![p] = NoCall]
  /\ UNCHANGED <<dcb, status, request, smpc_ipi, handler, notified, executed>>

(* What the processor does by itself once it has begun. *)
Goon(p) ==
  \/ smpc_req(p) \/ smpc_req_Self(p) \/ smpc_req_Done(p) \/ smpc_unlock(p)
  \/ smpc_wai(p) \/ DoRequest(p) \/ Enable(p)

SmpNext == \E p \in Cpu :
  \/ smpc_init(p) \/ smpc_regist(p)
  \/ p \in Caller /\ \E m \in Modes[p] : ControlCacheM(p, m)
  \/ smpc_lock(p)
  \/ \E from \in Cpu : smpc_handler(p, from)
  \/ Disable(p)
  \/ Goon(p)

SmpSpec == SmpInit /\ [][SmpNext]_smpvars

(* A processor runs on, and an interrupt that stays enabled and pending is *)
(* taken.  Nothing makes the lock fair, and nobody has to make calls.      *)
SmpFairSpec ==
  /\ SmpSpec
  /\ \A p \in Cpu : WF_smpvars(Goon(p))
  /\ \A p \in Cpu : SF_smpvars(\E from \in Cpu : smpc_handler(p, from))

-----------------------------------------------------------------------------
(* Every processor executes the requests it was notified of, each once and *)
(* in their order: func and param are not overwritten before they are used *)
(* (smpc_req waits for the last request, smpcall_drv.c:194).               *)
ExecutedInOrder == \A pair \in Pair : IsPrefix(executed[pair], notified[pair])

(* When a synchronous request returns it was executed by all, and nobody   *)
(* will touch its parameter again: the stack of ControlCacheM (cache.c:164)*)
ParameterInUse(p) ==
  \E q \in Cpu : <<p, q>> \in smpc_ipi \/ (handler[q].from = p /\ handler[q].at # "FINISH")
ParameterLives == \A p \in Cpu :
  call[p].at = "UNLOCK" /\ call[p].mode.sync =>
    ~ParameterInUse(p) /\ \A q \in Cpu : executed[<<p, q>>] = notified[<<p, q>>]

(* A processor that has the lock gets its answers and releases the lock    *)
(* again, although the others may want the lock too: they take interrupts  *)
(* between their tries (smpc_lock, ispinlock.c:42).                        *)
RequestsEnd == []<>(dcb.lock = NoCpu)

=============================================================================
