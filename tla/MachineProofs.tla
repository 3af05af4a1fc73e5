--------------------------- MODULE MachineProofs ---------------------------
(***************************************************************************)
(* Calls between processors, the log, and (with TimerProofs) the timer     *)
(* queue and its handlers, for every number of processors, requests,       *)
(* tasks, messages and handlers.                                           *)
(*                                                                         *)
(* Calls: what the requester keeps of a processor (its two bits in status) *)
(* says where that processor is with the request (Accounts).               *)
(*                                                                         *)
(* Log: a message that is not yet safe is in the hand of a task that still *)
(* puts it in the buffer or writes it, because nothing turns the switch on *)
(* any more (InHand).                                                      *)
(***************************************************************************)
EXTENDS Machine, TimerProofs, TLAPS

-----------------------------------------------------------------------------
(* Calls between processors *)

CallAt == {"IDLE", "OTHER", "LOCK", "REQ", "SELF", "WAIT", "UNLOCK", "WAI"}
Mode == [sync : BOOLEAN, self : BOOLEAN]

SmpTypeOK ==
  /\ dcb \in [valid : BOOLEAN, available_proc : SUBSET Cpu, lock : Cpu \cup {NoCpu}]
  /\ status \in [Cpu -> [acp : SUBSET Cpu, exe : SUBSET Cpu]]
  /\ request \in [Cpu -> Nat]
  /\ smpc_ipi \subseteq Pair
  /\ handler \in [Cpu -> [from : Cpu, at : {"ACCEPT", "EXECUTE", "FINISH"}] \cup {NoHandler}]
  /\ call \in [Cpu -> [at : CallAt, mode : Mode]]
  /\ notified \in [Pair -> Seq(Nat)]
  /\ executed \in [Pair -> Seq(Nat)]

(* q still has to execute the request of p that it was notified of. *)
Owes(p, q) == \/ <<p, q>> \in smpc_ipi
              \/ handler[q].from = p /\ handler[q].at \in {"ACCEPT", "EXECUTE"}

(* The bits of q in the status of p, and what q has executed. *)
Account(p, q) ==
  /\ handler[q].from # q /\ <<q, q>> \notin smpc_ipi
  /\ <<p, q>> \in smpc_ipi => handler[q].from # p
  /\ q \in status[p].acp <=> <<p, q>> \in smpc_ipi \/ (handler[q].from = p /\ handler[q].at = "ACCEPT")
  /\ q \in status[p].exe <=> <<p, q>> \in smpc_ipi \/ handler[q].from = p
  /\ notified[<<p, q>>] = IF Owes(p, q) THEN Append(executed[<<p, q>>], request[p])
                                        ELSE executed[<<p, q>>]

Accounts == \A p, q \in Cpu : Account(p, q)

(* A synchronous request is not finished before all have executed it. *)
Waited == \A p \in Cpu : call[p].at = "UNLOCK" /\ call[p].mode.sync => status[p].exe = {}

SmpInv == SmpTypeOK /\ Accounts /\ Waited

(* The modes of the callers are modes. *)
LEMMA ModeType ==
  ASSUME NEW p \in Caller, NEW m \in Modes[p]
  PROVE  p \in Cpu /\ m \in Mode
BY SmpCallAssumption DEF Mode

LEMMA SmpStart == SmpInit => SmpInv
<1> SUFFICES ASSUME SmpInit PROVE SmpInv
  OBVIOUS
<1> USE SmpCallAssumption DEF SmpInit, NoHandler, NoCall, AMode
<1>1. SmpTypeOK
  BY DEF SmpTypeOK, CallAt, Mode, Pair
<1>2. Accounts
  BY DEF Accounts, Account, Owes, Pair
<1>3. Waited
  BY DEF Waited
<1> QED BY <1>1, <1>2, <1>3 DEF SmpInv

(* Steps that leave the requests alone. *)
LEMMA SmpAside ==
  ASSUME SmpInv,
         UNCHANGED <<status, request, smpc_ipi, handler, notified, executed>>,
         dcb' \in [valid : BOOLEAN, available_proc : SUBSET Cpu, lock : Cpu \cup {NoCpu}],
         call' \in [Cpu -> [at : CallAt, mode : Mode]],
         \A p \in Cpu : call'[p].at = "UNLOCK" /\ call'[p].mode.sync =>
            \/ call[p].at = "UNLOCK" /\ call[p].mode.sync
            \/ status[p].exe = {}
  PROVE  SmpInv'
<1>1. SmpTypeOK'
  BY DEF SmpInv, SmpTypeOK
<1>2. Accounts'
  <2>1. ASSUME NEW p \in Cpu, NEW q \in Cpu PROVE Account(p, q)'
    <3>1. Account(p, q)
      BY DEF SmpInv, Accounts
    <3>2. Owes(p, q)' <=> Owes(p, q)
      BY DEF Owes
    <3> QED BY <3>1, <3>2 DEF Account
  <2> QED BY <2>1 DEF Accounts
<1>3. Waited'
  BY DEF SmpInv, Waited
<1> QED BY <1>1, <1>2, <1>3 DEF SmpInv

(* notify: every other processor owes the request.  It owed none before.   *)
LEMMA Notified ==
  ASSUME SmpInv, NEW p \in Cpu, wait_for_completion(p), notify(p), call[p].at = "REQ",
         UNCHANGED <<dcb, handler, executed>>,
         Goes(p, IF call[p].mode.self THEN "SELF" ELSE "WAIT")
  PROVE  SmpInv'
<1> DEFINE bitmap == dcb.available_proc \ {p}
<1>1. bitmap \subseteq Cpu
  BY DEF SmpInv, SmpTypeOK
<1>2. /\ request' = [request EXCEPT ![p] = @ + 1]
      /\ status' = [status EXCEPT ![p] = [acp |-> bitmap, exe |-> bitmap]]
      /\ smpc_ipi' = smpc_ipi \cup ({p} \X bitmap)
      /\ notified' = [pair \in Pair |->
           IF pair[1] = p /\ pair[2] \in bitmap THEN Append(notified[pair], request[p] + 1)
                                               ELSE notified[pair]]
  BY DEF notify
<1> HIDE DEF bitmap
<1>3. SmpTypeOK'
  <2>1. request' \in [Cpu -> Nat] /\ status' \in [Cpu -> [acp : SUBSET Cpu, exe : SUBSET Cpu]]
    BY <1>1, <1>2 DEF SmpInv, SmpTypeOK
  <2>2. smpc_ipi' \subseteq Pair
    BY <1>1, <1>2 DEF SmpInv, SmpTypeOK, Pair
  <2>3. call' \in [Cpu -> [at : CallAt, mode : Mode]]
    BY ZenonT(60) DEF SmpInv, SmpTypeOK, Goes, CallAt
  <2>4. notified' \in [Pair -> Seq(Nat)]
    BY <1>2 DEF SmpInv, SmpTypeOK
  <2> QED BY <2>1, <2>2, <2>3, <2>4 DEF SmpInv, SmpTypeOK
<1>4. \A q \in Cpu : <<p, q>> \notin smpc_ipi /\ handler[q].from # p
  BY DEF SmpInv, Accounts, Account, wait_for_completion
<1>5. ASSUME NEW r \in Cpu, NEW q \in Cpu PROVE Account(r, q)'
  <2>1. Account(r, q) /\ p \notin bitmap /\ <<r, q>> \in Pair
    BY <1>5 DEF SmpInv, Accounts, Pair, bitmap
  <2>2. /\ request'[r] = IF r = p THEN request[r] + 1 ELSE request[r]
        /\ status'[r] = IF r = p THEN [acp |-> bitmap, exe |-> bitmap] ELSE status[r]
        /\ <<r, q>> \in smpc_ipi' <=> <<r, q>> \in smpc_ipi \/ (r = p /\ q \in bitmap)
        /\ notified'[<<r, q>>] = IF r = p /\ q \in bitmap
                                 THEN Append(notified[<<r, q>>], request[p] + 1)
                                 ELSE notified[<<r, q>>]
    BY <1>2, <2>1 DEF SmpInv, SmpTypeOK
  <2> HIDE DEF bitmap
  <2>3. CASE r # p
    <3>1. /\ request'[r] = request[r] /\ status'[r] = status[r] /\ handler' = handler
          /\ executed' = executed /\ notified'[<<r, q>>] = notified[<<r, q>>]
          /\ <<r, q>> \in smpc_ipi' <=> <<r, q>> \in smpc_ipi
          /\ <<q, q>> \in smpc_ipi' <=> <<q, q>> \in smpc_ipi
      BY <1>2, <2>1, <2>2, <2>3 DEF bitmap
    <3>2. Owes(r, q)' <=> Owes(r, q)
      BY <3>1 DEF Owes
    <3> QED BY <2>1, <3>1, <3>2 DEF Account
  <2>4. CASE r = p
    <3>1. <<p, q>> \notin smpc_ipi /\ handler[q].from # p
      BY <1>4
    <3>2. handler' = handler /\ executed' = executed
      OBVIOUS
    <3>3. notified[<<p, q>>] = executed[<<p, q>>]
      BY <2>1, <2>4, <3>1 DEF Account, Owes
    <3>4. Owes(p, q)' <=> q \in bitmap
      BY <2>2, <2>4, <3>1, <3>2 DEF Owes
    <3>5. <<q, q>> \notin smpc_ipi'
      BY <1>2, <2>1 DEF Account
    <3>6. q \in status'[p].acp <=> q \in bitmap
      BY <2>2, <2>4
    <3>7. q \in status'[p].exe <=> q \in bitmap
      BY <2>2, <2>4
    <3>8. <<p, q>> \in smpc_ipi' <=> q \in bitmap
      BY <2>2, <2>4, <3>1
    <3>9. notified'[<<p, q>>] = IF q \in bitmap THEN Append(executed'[<<p, q>>], request'[p])
                                                ELSE executed'[<<p, q>>]
      BY <2>2, <2>4, <3>2, <3>3
    <3> QED BY <2>1, <2>4, <3>1, <3>2, <3>4, <3>5, <3>6, <3>7, <3>8, <3>9 DEF Account
  <2> QED BY <2>3, <2>4
<1>6. Waited'
  BY <1>2 DEF SmpInv, SmpTypeOK, Waited, Goes
<1> QED BY <1>3, <1>5, <1>6 DEF SmpInv, Accounts

(* Its own processor executes the request without owing it. *)
LEMMA SelfExecuted ==
  ASSUME SmpInv, NEW p \in Cpu, smpc_req_Self(p)
  PROVE  SmpInv'
<1>1. SmpTypeOK'
  <2>1. call' \in [Cpu -> [at : CallAt, mode : Mode]]
    BY DEF SmpInv, SmpTypeOK, Goes, CallAt, smpc_req_Self
  <2>2. <<p, p>> \in Pair /\ request[p] \in Nat
    BY DEF SmpInv, SmpTypeOK, Pair
  <2>3. notified' \in [Pair -> Seq(Nat)] /\ executed' \in [Pair -> Seq(Nat)]
    BY <2>2 DEF SmpInv, SmpTypeOK, smpc_req_Self
  <2> QED BY <2>1, <2>3 DEF SmpInv, SmpTypeOK, smpc_req_Self
<1>2. ASSUME NEW r \in Cpu, NEW q \in Cpu PROVE Account(r, q)'
  <2>1. Account(r, q) /\ <<r, q>> \in Pair
    BY <1>2 DEF SmpInv, Accounts, Pair
  <2>2. /\ UNCHANGED <<status, request, smpc_ipi, handler>>
        /\ executed' = [executed EXCEPT ![<<p, p>>] = Append(@, request[p])]
        /\ notified' = [notified EXCEPT ![<<p, p>>] = Append(@, request[p])]
    BY DEF smpc_req_Self
  <2>3. Owes(r, q)' <=> Owes(r, q)
    BY <2>2 DEF Owes
  <2>4. CASE <<r, q>> # <<p, p>>
    BY <2>1, <2>2, <2>3, <2>4 DEF Account, SmpInv, SmpTypeOK
  <2>5. CASE <<r, q>> = <<p, p>>
    <3>1. r = p /\ q = p /\ handler[p].from # p
      BY <2>1, <2>5 DEF Account
    <3>2. ~Owes(p, p)
      BY <2>1, <3>1 DEF Account, Owes
    <3> QED BY <2>1, <2>2, <2>3, <3>1, <3>2 DEF Account, SmpInv, SmpTypeOK
  <2> QED BY <2>4, <2>5
<1>3. Waited'
  BY DEF SmpInv, SmpTypeOK, Waited, Goes, smpc_req_Self
<1> QED BY <1>1, <1>2, <1>3 DEF SmpInv, Accounts
(* The interrupt: what was pending is now in the handler. *)
LEMMA Interrupted ==
  ASSUME SmpInv, NEW q \in Cpu, NEW from \in Cpu, smpc_handler(q, from)
  PROVE  SmpInv'
<1>1. /\ <<from, q>> \in smpc_ipi /\ handler[q] = NoHandler
      /\ smpc_ipi' = smpc_ipi \ {<<from, q>>}
      /\ handler' = [handler EXCEPT ![q] = [from |-> from, at |-> "ACCEPT"]]
      /\ UNCHANGED <<dcb, status, request, call, notified, executed>>
  BY DEF smpc_handler, Enabled
<1>2. SmpTypeOK'
  BY <1>1 DEF SmpInv, SmpTypeOK
<1>3. ASSUME NEW r \in Cpu, NEW d \in Cpu PROVE Account(r, d)'
  <2>1. Account(r, d) /\ Account(from, q) /\ from # NoCpu /\ r # NoCpu
    BY SmpCallAssumption, <1>3 DEF SmpInv, Accounts
  <2>2. /\ <<r, d>> \in smpc_ipi' <=> <<r, d>> \in smpc_ipi /\ ~(r = from /\ d = q)
        /\ <<d, d>> \in smpc_ipi' => <<d, d>> \in smpc_ipi
        /\ handler'[d] = IF d = q THEN [from |-> from, at |-> "ACCEPT"] ELSE handler[d]
    BY <1>1 DEF SmpInv, SmpTypeOK
  <2>3. from # q
    BY <1>1, <2>1 DEF Account
  <2>4. CASE d # q
    <3>1. Owes(r, d)' <=> Owes(r, d)
      BY <2>2, <2>4 DEF Owes
    <3> QED BY <1>1, <2>1, <2>2, <2>4, <3>1 DEF Account
  <2>5. CASE d = q /\ r # from
    <3>1. handler[d].from # r /\ handler'[d].from # r /\ handler'[d].from # d
      BY <1>1, <2>1, <2>2, <2>3, <2>5 DEF NoHandler
    <3>2. Owes(r, d)' <=> Owes(r, d)
      BY <2>2, <2>5, <3>1 DEF Owes
    <3> QED BY <1>1, <2>1, <2>2, <2>5, <3>1, <3>2 DEF Account
  <2>6. CASE d = q /\ r = from
    <3>1. Owes(r, d)' /\ Owes(r, d) /\ handler'[d].from = r /\ handler'[d].at = "ACCEPT"
      BY <1>1, <2>2, <2>6 DEF Owes
    <3> QED BY <1>1, <2>1, <2>2, <2>3, <2>6, <3>1 DEF Account
  <2> QED BY <2>4, <2>5, <2>6
<1>4. Waited'
  BY <1>1 DEF SmpInv, Waited
<1> QED BY <1>2, <1>3, <1>4 DEF SmpInv, Accounts

(* The handler: accepts, executes, finishes; one bit or request at a time. *)
LEMMA Handled ==
  ASSUME SmpInv, NEW q \in Cpu, DoRequest(q)
  PROVE  SmpInv'
<1> DEFINE from == handler[q].from
<1>1. /\ UNCHANGED <<dcb, request, smpc_ipi, call, notified>>
      /\ handler[q].at \in {"ACCEPT", "EXECUTE", "FINISH"}
  BY DEF DoRequest, do_request
<1>2. handler[q] # NoHandler
  BY <1>1 DEF NoHandler
<1>3. from \in Cpu /\ from # q /\ handler[q] = [from |-> from, at |-> handler[q].at]
  <2>1. handler[q] \in [from : Cpu, at : {"ACCEPT", "EXECUTE", "FINISH"}]
    BY <1>2 DEF SmpInv, SmpTypeOK
  <2>2. Account(q, q)
    BY DEF SmpInv, Accounts
  <2> QED BY <2>1, <2>2 DEF Account
<1> HIDE DEF from
<1>4. CASE handler[q].at = "ACCEPT"
  <2>1. /\ status' = [status EXCEPT ![from].acp = @ \ {q}]
        /\ handler' = [handler EXCEPT ![q].at = "EXECUTE"]
        /\ executed' = executed
    BY <1>4 DEF DoRequest, do_request, from
  <2>2. SmpTypeOK'
    <3>1. handler' \in [Cpu -> [from : Cpu, at : {"ACCEPT", "EXECUTE", "FINISH"}] \cup {NoHandler}]
      <4>1. [handler[q] EXCEPT !.at = "EXECUTE"] = [from |-> from, at |-> "EXECUTE"]
        BY <1>3
      <4> QED BY <1>3, <2>1, <4>1 DEF SmpInv, SmpTypeOK
    <3>2. status' \in [Cpu -> [acp : SUBSET Cpu, exe : SUBSET Cpu]]
      <4>1. status \in [Cpu -> [acp : SUBSET Cpu, exe : SUBSET Cpu]]
        BY DEF SmpInv, SmpTypeOK
      <4>2. [status[from] EXCEPT !.acp = @ \ {q}] \in [acp : SUBSET Cpu, exe : SUBSET Cpu]
        BY <1>3, <4>1
      <4> QED BY <1>3, <2>1, <4>1, <4>2
    <3> QED BY <1>1, <2>1, <3>1, <3>2 DEF SmpInv, SmpTypeOK
  <2>3. ASSUME NEW r \in Cpu, NEW d \in Cpu PROVE Account(r, d)'
    <3>1. Account(r, d)
      BY <2>3 DEF SmpInv, Accounts
    <3>2. /\ handler'[d].from = handler[d].from
          /\ handler'[d].at = IF d = q THEN "EXECUTE" ELSE handler[d].at
          /\ d \in status'[r].acp <=> d \in status[r].acp /\ ~(r = from /\ d = q)
          /\ d \in status'[r].exe <=> d \in status[r].exe
      BY <1>3, <2>1 DEF SmpInv, SmpTypeOK
    <3>3. Owes(r, d)' <=> Owes(r, d)
      BY <1>1, <1>4, <3>2 DEF Owes
    <3>4. d = q => handler[d].from = from
      BY DEF from
    <3> QED BY <1>1, <1>4, <2>1, <3>1, <3>2, <3>3, <3>4 DEF Account
  <2>4. Waited'
    BY <1>1, <1>3, <2>1 DEF SmpInv, SmpTypeOK, Waited
  <2> QED BY <2>2, <2>3, <2>4 DEF SmpInv, Accounts
<1>5. CASE handler[q].at = "EXECUTE"
  <2>1. /\ status' = status
        /\ handler' = [handler EXCEPT ![q].at = "FINISH"]
        /\ executed' = [executed EXCEPT ![<<from, q>>] = Append(@, request[from])]
    BY <1>5 DEF DoRequest, do_request, from
  <2>2. <<from, q>> \in Pair /\ request[from] \in Nat
    BY <1>3 DEF SmpInv, SmpTypeOK, Pair
  <2>3. SmpTypeOK'
    <3>1. executed' \in [Pair -> Seq(Nat)]
      BY <2>1, <2>2 DEF SmpInv, SmpTypeOK
    <3>2. handler' \in [Cpu -> [from : Cpu, at : {"ACCEPT", "EXECUTE", "FINISH"}] \cup {NoHandler}]
      <4>1. [handler[q] EXCEPT !.at = "FINISH"] = [from |-> from, at |-> "FINISH"]
        BY <1>3
      <4> QED BY <1>3, <2>1, <4>1 DEF SmpInv, SmpTypeOK
    <3> QED BY <1>1, <2>1, <3>1, <3>2 DEF SmpInv, SmpTypeOK
  <2>4. ASSUME NEW r \in Cpu, NEW d \in Cpu PROVE Account(r, d)'
    <3>1. Account(r, d) /\ Account(from, q) /\ <<r, d>> \in Pair
      BY <1>3, <2>4 DEF SmpInv, Accounts, Pair
    <3>2. /\ handler'[d].from = handler[d].from
          /\ handler'[d].at = IF d = q THEN "FINISH" ELSE handler[d].at
          /\ executed'[<<r, d>>] = IF r = from /\ d = q THEN Append(executed[<<r, d>>], request[r])
                                                       ELSE executed[<<r, d>>]
      BY <1>3, <2>1, <2>2, <3>1 DEF SmpInv, SmpTypeOK
    <3>3. d = q => handler[d].from = from
      BY DEF from
    <3>4. CASE r = from /\ d = q
      <4>1. Owes(r, d) /\ ~Owes(r, d)'
        BY <1>1, <1>5, <3>1, <3>2, <3>3, <3>4 DEF Owes, Account
      <4> QED BY <1>1, <1>5, <2>1, <3>1, <3>2, <3>3, <3>4, <4>1 DEF Account
    <3>5. CASE ~(r = from /\ d = q)
      <4>1. Owes(r, d)' <=> Owes(r, d)
        BY <1>1, <3>2, <3>3, <3>5 DEF Owes
      <4> QED BY <1>1, <1>5, <2>1, <3>1, <3>2, <3>3, <3>5, <4>1 DEF Account
    <3> QED BY <3>4, <3>5
  <2>5. Waited'
    BY <1>1, <2>1 DEF SmpInv, Waited
  <2> QED BY <2>3, <2>4, <2>5 DEF SmpInv, Accounts
<1>6. CASE handler[q].at = "FINISH"
  <2>1. /\ status' = [status EXCEPT ![from].exe = @ \ {q}]
        /\ handler' = [handler EXCEPT ![q] = NoHandler]
        /\ executed' = executed
    BY <1>6 DEF DoRequest, do_request, from
  <2>2. SmpTypeOK'
    BY <1>1, <1>3, <2>1, ZenonT(60) DEF SmpInv, SmpTypeOK
  <2>3. ASSUME NEW r \in Cpu, NEW d \in Cpu PROVE Account(r, d)'
    <3>1. Account(r, d) /\ NoCpu \notin Cpu
      BY SmpCallAssumption, <2>3 DEF SmpInv, Accounts
    <3>2. /\ handler'[d] = IF d = q THEN NoHandler ELSE handler[d]
          /\ d \in status'[r].acp <=> d \in status[r].acp
          /\ d \in status'[r].exe <=> d \in status[r].exe /\ ~(r = from /\ d = q)
      BY <1>3, <2>1 DEF SmpInv, SmpTypeOK
    <3>3. d = q => handler[d].from = from /\ handler'[d].from \notin Cpu
      BY <3>1, <3>2 DEF from, NoHandler
    <3>4. Owes(r, d)' <=> Owes(r, d)
      BY <1>1, <1>6, <3>2, <3>3 DEF Owes
    <3> QED BY <1>1, <1>6, <2>1, <3>1, <3>2, <3>3, <3>4 DEF Account
  <2>4. Waited'
    BY <1>1, <1>3, <2>1 DEF SmpInv, SmpTypeOK, Waited
  <2> QED BY <2>2, <2>3, <2>4 DEF SmpInv, Accounts
<1> QED BY <1>1, <1>4, <1>5, <1>6
LEMMA SmpStep == SmpInv /\ [SmpNext]_smpvars => SmpInv'
<1> SUFFICES ASSUME SmpInv, [SmpNext]_smpvars PROVE SmpInv'
  OBVIOUS
<1>1. dcb \in [valid : BOOLEAN, available_proc : SUBSET Cpu, lock : Cpu \cup {NoCpu}]
      /\ call \in [Cpu -> [at : CallAt, mode : Mode]]
  BY DEF SmpInv, SmpTypeOK
<1>2. \A p \in Cpu : call[p].at = "UNLOCK" /\ call[p].mode.sync => status[p].exe = {}
  BY DEF SmpInv, Waited
<1>3. NoCall \in [at : CallAt, mode : Mode]
  BY DEF NoCall, AMode, CallAt, Mode
<1>a. ASSUME NEW p \in Cpu, smpc_init(p) PROVE SmpInv'
  BY <1>a, <1>1, SmpAside DEF smpc_init
<1>b. ASSUME NEW p \in Cpu, smpc_regist(p) PROVE SmpInv'
  BY <1>b, <1>1, SmpAside DEF smpc_regist
<1>c. ASSUME NEW p \in Caller, NEW m \in Modes[p], ControlCacheM(p, m) PROVE SmpInv'
  <2>1. call' \in [Cpu -> [at : CallAt, mode : Mode]]
    BY <1>c, <1>1, ModeType DEF ControlCacheM, CallAt
  <2>2. \A r \in Cpu : call'[r].at = "UNLOCK" => call'[r] = call[r]
    BY <1>c, <1>1 DEF ControlCacheM
  <2> QED BY <1>c, <1>1, <2>1, <2>2, SmpAside DEF ControlCacheM
<1>d. ASSUME NEW p \in Cpu, smpc_lock(p) PROVE SmpInv'
  <2>1. call' \in [Cpu -> [at : CallAt, mode : Mode]]
    BY <1>d, <1>1 DEF smpc_lock, Goes, CallAt
  <2>2. \A r \in Cpu : call'[r].at = "UNLOCK" => call'[r] = call[r]
    BY <1>d, <1>1 DEF smpc_lock, Goes
  <2>3. dcb' \in [valid : BOOLEAN, available_proc : SUBSET Cpu, lock : Cpu \cup {NoCpu}]
    BY <1>d, <1>1 DEF smpc_lock
  <2> QED BY <1>d, <2>1, <2>2, <2>3, SmpAside DEF smpc_lock
<1>e. ASSUME NEW p \in Cpu, NEW from \in Cpu, smpc_handler(p, from) PROVE SmpInv'
  BY <1>e, Interrupted
<1>f. ASSUME NEW p \in Cpu, Disable(p) PROVE SmpInv'
  <2>1. call' \in [Cpu -> [at : CallAt, mode : Mode]]
    BY <1>f, <1>1 DEF Disable, Goes, CallAt
  <2>2. \A r \in Cpu : call'[r].at = "UNLOCK" => call'[r] = call[r]
    BY <1>f, <1>1 DEF Disable, Goes
  <2> QED BY <1>f, <1>1, <2>1, <2>2, SmpAside DEF Disable
<1>g. ASSUME NEW p \in Cpu, smpc_req(p) PROVE SmpInv'
  BY <1>g, Notified DEF smpc_req
<1>h. ASSUME NEW p \in Cpu, smpc_req_Self(p) PROVE SmpInv'
  BY <1>h, SelfExecuted
<1>i. ASSUME NEW p \in Cpu, smpc_req_Done(p) PROVE SmpInv'
  <2>1. call' \in [Cpu -> [at : CallAt, mode : Mode]]
    BY <1>i, <1>1 DEF smpc_req_Done, Goes, CallAt
  <2>2. \A r \in Cpu : call'[r].at = "UNLOCK" /\ call'[r].mode.sync =>
          call'[r] = call[r] \/ status[r].exe = {}
    BY <1>i, <1>1 DEF smpc_req_Done, Goes, wait_for_completion
  <2> QED BY <1>i, <1>1, <2>1, <2>2, SmpAside DEF smpc_req_Done
<1>j. ASSUME NEW p \in Cpu, smpc_unlock(p) PROVE SmpInv'
  <2>1. call' \in [Cpu -> [at : CallAt, mode : Mode]]
    BY <1>j, <1>1, <1>3 DEF smpc_unlock, CallAt
  <2>2. \A r \in Cpu : call'[r].at = "UNLOCK" => call'[r] = call[r]
    BY <1>j, <1>1 DEF smpc_unlock, NoCall
  <2>3. dcb' \in [valid : BOOLEAN, available_proc : SUBSET Cpu, lock : Cpu \cup {NoCpu}]
    BY <1>j, <1>1 DEF smpc_unlock
  <2> QED BY <1>j, <2>1, <2>2, <2>3, SmpAside DEF smpc_unlock
<1>k. ASSUME NEW p \in Cpu, smpc_wai(p) \/ Enable(p) PROVE SmpInv'
  <2>1. call' = [call EXCEPT ![p] = NoCall]
    BY <1>k DEF smpc_wai, Enable
  <2>2. call' \in [Cpu -> [at : CallAt, mode : Mode]]
    BY <2>1, <1>1, <1>3
  <2>3. \A r \in Cpu : call'[r].at = "UNLOCK" => call'[r] = call[r]
    BY <2>1, <1>1 DEF NoCall
  <2> QED BY <1>k, <1>1, <2>2, <2>3, SmpAside DEF smpc_wai, Enable
<1>l. ASSUME NEW p \in Cpu, DoRequest(p) PROVE SmpInv'
  BY <1>l, Handled
<1>m. CASE UNCHANGED smpvars
  BY <1>m, <1>1, <1>2, SmpAside DEF smpvars
<1> QED
  BY <1>a, <1>b, <1>c, <1>d, <1>e, <1>f, <1>g, <1>h, <1>i, <1>j, <1>k, <1>l, <1>m
     DEF SmpNext, Goon

(* What the accounts say of the requests.                                  *)
LEMMA SmpSafe == SmpInv => ExecutedInOrder /\ ParameterLives
<1> SUFFICES ASSUME SmpInv PROVE ExecutedInOrder /\ ParameterLives
  OBVIOUS
<1>1. ASSUME NEW pair \in Pair PROVE IsPrefix(executed[pair], notified[pair])
  <2>1. PICK p \in Cpu, q \in Cpu : pair = <<p, q>>
    BY DEF Pair
  <2>2. /\ executed[pair] \in Seq(Nat) /\ request[p] \in Nat
        /\ notified[pair] = Append(executed[pair], request[p]) \/ notified[pair] = executed[pair]
    BY <2>1 DEF SmpInv, SmpTypeOK, Accounts, Account
  <2>3. CASE notified[pair] = executed[pair]
    BY <2>2, <2>3 DEF IsPrefix
  <2>4. CASE notified[pair] = Append(executed[pair], request[p])
    <3> DEFINE e == executed[pair]
               n == notified[pair]
    <3>1. e \in Seq(Nat) /\ n \in Seq(Nat) /\ Len(e) \in Nat /\ Len(n) = Len(e) + 1
          /\ \A i \in 1..Len(e) : n[i] = e[i]
      BY <2>2, <2>4
    <3> HIDE DEF e, n
    <3>2. /\ SubSeq(e, 1, Len(e)) \in Seq(Nat) /\ Len(SubSeq(e, 1, Len(e))) = Len(e)
          /\ SubSeq(n, 1, Len(e)) \in Seq(Nat) /\ Len(SubSeq(n, 1, Len(e))) = Len(e)
          /\ \A i \in 1..Len(e) : SubSeq(e, 1, Len(e))[i] = e[i] /\ SubSeq(n, 1, Len(e))[i] = n[i]
      BY <3>1
    <3>3. SubSeq(e, 1, Len(e)) = SubSeq(n, 1, Len(e))
      BY <3>1, <3>2
    <3> QED BY <3>1, <3>3 DEF IsPrefix, e, n
  <2> QED BY <2>2, <2>3, <2>4
<1>2. ASSUME NEW p \in Cpu, call[p].at = "UNLOCK", call[p].mode.sync
      PROVE  ~ParameterInUse(p) /\ \A q \in Cpu : executed[<<p, q>>] = notified[<<p, q>>]
  <2>1. \A q \in Cpu : Account(p, q) /\ q \notin status[p].exe
    BY <1>2 DEF SmpInv, Accounts, Waited
  <2>2. \A q \in Cpu : <<p, q>> \notin smpc_ipi /\ handler[q].from # p
    BY <2>1 DEF Account
  <2>3. \A q \in Cpu : ~Owes(p, q)
    BY <2>2 DEF Owes
  <2> QED BY <2>1, <2>2, <2>3 DEF Account, ParameterInUse
<1> QED BY <1>1, <1>2 DEF ExecutedInOrder, ParameterLives
-----------------------------------------------------------------------------
(* The log *)

Message == Sender \X Nat
LogAt == {"idle", "queue", "look", "wait", "waited"}   \* ~Early: none is at "empty"

LogTypeOK ==
  /\ logtask_alive \in BOOLEAN
  /\ mbf \in Seq(Message) /\ out \in Seq(Message) /\ msg \subseteq Message
  /\ at \in [Sender -> LogAt]
  /\ sent \in [Sender -> Nat]

Safe(m) == Printed(m) \/ m \in ToSet(mbf) \cup msg \cup deleted

(* The sender still puts its message in the buffer or writes it: the switch*)
(* is off, and is turned on only before there are senders.                 *)
InHand(s) == at[s] = "queue" \/ (at[s] = "look" /\ ~logtask_alive)

Kept == \A s \in Sender : \A i \in 1..sent[s] :
  Safe(<<s, i>>) \/ (i = sent[s] /\ InHand(s))

(* The log task turns the switch on once, when nobody is in a call.        *)
SwitchedOnce ==
  /\ logtask_alive => Begun \/ log = "alive"
  /\ \A s \in Sender : at[s] = "queue" => Begun
  /\ log \in {"started", "alive"} => \A s \in Sender : at[s] \notin {"queue", "look"}

(* The log task has at most one message, and the buffer is deleted once.   *)
Single ==
  /\ msg = {} \/ \E m \in Message : msg = {m}
  /\ log # "write" => msg = {}
  /\ open \/ log = "none" => deleted = {}
  /\ open => log # "none"

LogInv == LogTypeOK /\ Kept /\ SwitchedOnce /\ Single

LEMMA AppendedLog ==
  ASSUME NEW q \in Seq(Message), NEW m \in Message
  PROVE  /\ Append(q, m) \in Seq(Message)
         /\ ToSet(Append(q, m)) = ToSet(q) \cup {m}
         /\ \A x : Contains(Append(q, m), x) <=> Contains(q, x) \/ x = m
<1> DEFINE r == Append(q, m)
<1>1. /\ r \in Seq(Message) /\ Len(r) = Len(q) + 1 /\ Len(q) \in Nat
      /\ r[Len(q) + 1] = m /\ \A i \in 1..Len(q) : r[i] = q[i]
      /\ DOMAIN r = 1..(Len(q) + 1) /\ DOMAIN q = 1..Len(q)
  OBVIOUS
<1> HIDE DEF r
<1>2. \A i : i \in 1..(Len(q) + 1) <=> i \in 1..Len(q) \/ i = Len(q) + 1
  BY <1>1
<1>3. ToSet(r) = ToSet(q) \cup {m}
  BY <1>1, <1>2 DEF ToSet
<1>4. \A x : Contains(r, x) <=> Contains(q, x) \/ x = m
  BY <1>1, <1>2 DEF Contains
<1> QED BY <1>1, <1>3, <1>4 DEF r

LEMMA TakenLog ==
  ASSUME NEW q \in Seq(Message), q # <<>>
  PROVE  /\ Head(q) \in Message /\ Tail(q) \in Seq(Message)
         /\ ToSet(q) = {Head(q)} \cup ToSet(Tail(q))
<1> DEFINE r == Tail(q)
<1>1. /\ Len(q) \in Nat \ {0} /\ Head(q) = q[1] /\ Head(q) \in Message
      /\ r \in Seq(Message) /\ Len(r) = Len(q) - 1
      /\ \A i \in 1..(Len(q) - 1) : r[i] = q[i + 1]
      /\ DOMAIN q = 1..Len(q) /\ DOMAIN r = 1..(Len(q) - 1)
  OBVIOUS
<1> HIDE DEF r
<1>2. ToSet(q) \subseteq {Head(q)} \cup ToSet(r)
  <2> SUFFICES ASSUME NEW i \in 1..Len(q) PROVE q[i] \in {Head(q)} \cup ToSet(r)
    BY <1>1 DEF ToSet
  <2>1. CASE i = 1
    BY <1>1, <2>1
  <2>2. CASE i # 1
    <3>1. i - 1 \in 1..(Len(q) - 1) /\ (i - 1) + 1 = i
      BY <1>1, <2>2
    <3>2. r[i - 1] = q[i]
      BY <1>1, <3>1
    <3> QED BY <1>1, <3>1, <3>2 DEF ToSet
  <2> QED BY <2>1, <2>2
<1>3. ToSet(r) \subseteq ToSet(q)
  <2> SUFFICES ASSUME NEW i \in 1..(Len(q) - 1) PROVE r[i] \in ToSet(q)
    BY <1>1 DEF ToSet
  <2>1. i + 1 \in 1..Len(q) /\ r[i] = q[i + 1]
    BY <1>1
  <2> QED BY <1>1, <2>1 DEF ToSet
<1>4. Head(q) \in ToSet(q)
  BY <1>1 DEF ToSet
<1> QED BY <1>1, <1>2, <1>3, <1>4 DEF r

LEMMA LogStart == LogInit => LogInv
<1> SUFFICES ASSUME LogInit PROVE LogInv
  OBVIOUS
<1> USE DEF LogInit
<1>1. LogTypeOK
  <2>1. mbf \in Seq(Message) /\ out \in Seq(Message)
    OBVIOUS
  <2>2. at \in [Sender -> LogAt] /\ sent \in [Sender -> Nat]
    BY DEF LogAt
  <2> QED BY <2>1, <2>2 DEF LogTypeOK
<1>2. Kept
  <2>1. \A s \in Sender : sent[s] = 0
    OBVIOUS
  <2>2. \A s \in Sender : 1..sent[s] = {}
    BY <2>1
  <2> QED BY <2>2 DEF Kept
<1>3. SwitchedOnce /\ Single
  BY DEF SwitchedOnce, Single, Begun
<1> QED BY <1>1, <1>2, <1>3 DEF LogInv

(* Steps of the senders and the log task that lose nothing.                *)
LosesNothing == \A m \in Message : Safe(m) => Safe(m)'
HandsOver == \A s \in Sender : InHand(s) => InHand(s)' \/ Safe(<<s, sent[s]>>)'

LEMMA KeptOn ==
  ASSUME LogInv, LosesNothing, HandsOver, sent' = sent
  PROVE  Kept'
<1> SUFFICES ASSUME NEW s \in Sender, NEW i \in 1..sent[s]
             PROVE  Safe(<<s, i>>)' \/ (i = sent[s] /\ InHand(s)')
  BY DEF Kept
<1>1. <<s, i>> \in Message
  BY DEF LogInv, LogTypeOK, Message
<1>2. Safe(<<s, i>>) \/ (i = sent[s] /\ InHand(s))
  BY DEF LogInv, Kept
<1>3. sent' = sent
  OBVIOUS
<1> QED BY <1>1, <1>2, <1>3 DEF LosesNothing, HandsOver
(* The calls of a task that logs. *)
LEMMA SenderSteps ==
  ASSUME LogInv, ~Early, NEW s \in Sender,
         __syslog_send(s) \/ Sends(s) \/ svc_syslog_wait(s)
  PROVE  LogInv'
<1>0. /\ at \in [Sender -> LogAt] /\ sent \in [Sender -> Nat] /\ sent[s] \in Nat
      /\ mbf \in Seq(Message) /\ out \in Seq(Message) /\ msg \subseteq Message
  BY DEF LogInv, LogTypeOK
<1>1. ASSUME __syslog_send(s) PROVE LogInv'
  <2>1. /\ at[s] = "idle" /\ log \notin {"started", "alive"}
        /\ sent' = [sent EXCEPT ![s] = @ + 1]
        /\ at' = [at EXCEPT ![s] = IF logtask_alive THEN "queue" ELSE "look"]
        /\ UNCHANGED <<logtask_alive, mbf, open, deleted, log, msg, out>>
    BY <1>1 DEF __syslog_send, LogGoes, buffer, logTask, Begun, LogInv, SwitchedOnce
  <2>2. LogTypeOK'
    BY <1>0, <2>1 DEF LogInv, LogTypeOK, LogAt
  <2>3. ASSUME NEW r \in Sender, NEW i \in 1..sent'[r]
        PROVE  Safe(<<r, i>>)' \/ (i = sent'[r] /\ InHand(r)')
    <3>1. CASE r = s /\ i = sent[s] + 1
      BY <1>0, <2>1, <3>1 DEF InHand, LogInv, LogTypeOK
    <3>2. CASE ~(r = s /\ i = sent[s] + 1)
      <4>1. i \in 1..sent[r] /\ (r # s => at'[r] = at[r] /\ sent'[r] = sent[r])
        BY <1>0, <2>1, <2>3, <3>2
      <4>2. Safe(<<r, i>>) \/ (i = sent[r] /\ InHand(r))
        BY <4>1 DEF LogInv, Kept
      <4>3. ~InHand(s)
        BY <2>1 DEF InHand
      <4>4. Safe(<<r, i>>)' <=> Safe(<<r, i>>)
        BY <2>1 DEF Safe, Printed
      <4>5. r # s => (InHand(r)' <=> InHand(r))
        BY <2>1, <4>1 DEF InHand
      <4> QED BY <4>1, <4>2, <4>3, <4>4, <4>5
    <3> QED BY <3>1, <3>2
  <2>4. SwitchedOnce' /\ Single'
    BY <1>0, <2>1 DEF LogInv, SwitchedOnce, Single, Begun
  <2> QED BY <2>2, <2>3, <2>4 DEF LogInv, Kept
<1>2. ASSUME tk_snd_mbf(s) PROVE LogInv'
  <2>1. /\ at[s] = "queue" /\ at' = [at EXCEPT ![s] = "look"]
        /\ UNCHANGED <<open, deleted, log, msg, sent, out>>
        /\ \/ mbf' = Append(mbf, <<s, sent[s]>>) /\ logtask_alive' = logtask_alive
           \/ mbf' = mbf /\ logtask_alive' = FALSE
    BY <1>0, <1>2 DEF tk_snd_mbf, LogGoes, logTask, Current, LogAt
  <2>2. <<s, sent[s]>> \in Message
    BY <1>0 DEF Message
  <2>a. /\ Append(mbf, <<s, sent[s]>>) \in Seq(Message)
        /\ ToSet(Append(mbf, <<s, sent[s]>>)) = ToSet(mbf) \cup {<<s, sent[s]>>}
    BY <1>0, <2>2, AppendedLog
  <2>3. /\ mbf' \in Seq(Message) /\ ToSet(mbf) \subseteq ToSet(mbf')
        /\ <<s, sent[s]>> \in ToSet(mbf') \/ ~logtask_alive'
    BY <1>0, <2>1, <2>a
  <2>4. LogTypeOK'
    BY <1>0, <2>1, <2>3 DEF LogInv, LogTypeOK, LogAt
  <2>5. LosesNothing
    BY <2>1, <2>3 DEF LosesNothing, Safe, Printed
  <2>6. HandsOver
    BY <1>0, <2>1, <2>3 DEF HandsOver, InHand, Safe
  <2>7. Kept'
    BY <2>1, <2>5, <2>6, KeptOn
  <2>8. SwitchedOnce' /\ Single'
    BY <1>0, <2>1 DEF LogInv, SwitchedOnce, Single, Begun
  <2> QED BY <2>4, <2>7, <2>8 DEF LogInv
<1>3. ASSUME sys_write(s) PROVE LogInv'
  <2>1. /\ at[s] = "look" /\ at' = [at EXCEPT ![s] = "idle"]
        /\ UNCHANGED <<logtask_alive, mbf, open, deleted, log, msg, sent>>
        /\ \/ logtask_alive /\ out' = out
           \/ ~logtask_alive /\ out' = Append(out, <<s, sent[s]>>)
    BY <1>3 DEF sys_write, LogGoes, Written, buffer, logTask, Current
  <2>2. <<s, sent[s]>> \in Message
    BY <1>0 DEF Message
  <2>a. /\ Append(out, <<s, sent[s]>>) \in Seq(Message)
        /\ \A m : Contains(Append(out, <<s, sent[s]>>), m)
                    <=> Contains(out, m) \/ m = <<s, sent[s]>>
    BY <1>0, <2>2, AppendedLog
  <2>3. /\ out' \in Seq(Message)
        /\ \A m : Contains(out, m) => Contains(out', m)
        /\ Contains(out', <<s, sent[s]>>) \/ logtask_alive
    BY <1>0, <2>1, <2>a
  <2>4. LogTypeOK'
    BY <1>0, <2>1, <2>3 DEF LogInv, LogTypeOK, LogAt
  <2>5. LosesNothing
    BY <2>1, <2>3 DEF LosesNothing, Safe, Printed
  <2>6. HandsOver
    BY <1>0, <2>1, <2>3 DEF HandsOver, InHand, Safe, Printed
  <2>7. Kept'
    BY <2>1, <2>5, <2>6, KeptOn
  <2>8. SwitchedOnce' /\ Single'
    BY <1>0, <2>1 DEF LogInv, SwitchedOnce, Single, Begun
  <2> QED BY <2>4, <2>7, <2>8 DEF LogInv
<1>4. ASSUME svc_syslog_wait(s) PROVE LogInv'
  <2>1. /\ at[s] \notin {"queue", "look"}
        /\ \E a \in {"wait", "waited", "idle"} : at' = [at EXCEPT ![s] = a]
        /\ UNCHANGED <<logtask_alive, mbf, open, deleted, log, msg, sent, out>>
    BY <1>4 DEF svc_syslog_wait, LogGoes, buffer, logTask
  <2>2. LogTypeOK'
    BY <1>0, <2>1 DEF LogInv, LogTypeOK, LogAt
  <2>3. LosesNothing
    BY <2>1 DEF LosesNothing, Safe, Printed
  <2>4. \A r \in Sender : at[r] \in {"queue", "look"} \/ at'[r] \in {"queue", "look"} => at'[r] = at[r]
    BY <1>0, <2>1
  <2>5. HandsOver
    BY <2>1, <2>4 DEF HandsOver, InHand
  <2>6. Kept'
    BY <2>1, <2>3, <2>5, KeptOn
  <2>7. SwitchedOnce' /\ Single'
    BY <2>1, <2>4 DEF LogInv, SwitchedOnce, Single, Begun
  <2> QED BY <2>2, <2>6, <2>7 DEF LogInv
<1> QED BY <1>1, <1>2, <1>3, <1>4 DEF Sends
(* What the log task, initialize_syslog and finish_syslog do. *)
LEMMA LogTaskSteps ==
  ASSUME LogInv, LogTask \/ initialize_syslog \/ finish_syslog
  PROVE  LogInv'
<1>0. /\ at \in [Sender -> LogAt] /\ sent \in [Sender -> Nat] /\ logtask_alive \in BOOLEAN
      /\ mbf \in Seq(Message) /\ out \in Seq(Message) /\ msg \subseteq Message
  BY DEF LogInv, LogTypeOK
<1>1. ASSUME initialize_syslog PROVE LogInv'
  <2>1. /\ log = "none" /\ log' = "started" /\ \A s \in Sender : at[s] = "idle"
        /\ UNCHANGED <<logtask_alive, mbf, deleted, msg, at, sent, out>>
    BY <1>1 DEF initialize_syslog, sender
  <2>2. LosesNothing /\ HandsOver
    BY <2>1 DEF LosesNothing, HandsOver, Safe, Printed, InHand
  <2> QED BY <1>0, <2>1, <2>2, KeptOn DEF LogInv, LogTypeOK, SwitchedOnce, Single, Begun
<1>2. ASSUME log_task PROVE LogInv'
  <2>1. /\ \/ log = "started" /\ log' = "alive" /\ logtask_alive' = TRUE
           \/ log = "alive" /\ log' = "receive" /\ logtask_alive' = logtask_alive
        /\ UNCHANGED <<mbf, open, deleted, msg, at, sent, out>>
    BY <1>2 DEF log_task, sender, buffer
  <2>2. \A s \in Sender : at[s] \notin {"queue", "look"}
    BY <2>1 DEF LogInv, SwitchedOnce
  <2>3. LosesNothing /\ HandsOver
    BY <2>1, <2>2 DEF LosesNothing, HandsOver, Safe, Printed, InHand
  <2> QED BY <1>0, <2>1, <2>2, <2>3, KeptOn DEF LogInv, LogTypeOK, SwitchedOnce, Single, Begun
<1>3. ASSUME tk_rcv_mbf PROVE LogInv'
  <2>1. /\ log = "receive" /\ UNCHANGED <<logtask_alive, open, deleted, at, sent, out>>
        /\ \/ /\ mbf # <<>> /\ msg' = {Head(mbf)} /\ mbf' = Tail(mbf) /\ log' = "write"
           \/ log' = "leave" /\ mbf' = mbf /\ msg' = msg
    BY <1>3 DEF tk_rcv_mbf, sender
  <2>2. msg = {}
    BY <2>1 DEF LogInv, Single
  <2>3. /\ mbf' \in Seq(Message) /\ msg' \subseteq Message
        /\ msg' = {} \/ \E m \in Message : msg' = {m}
        /\ ToSet(mbf) \subseteq ToSet(mbf') \cup msg'
        /\ log' # "write" => msg' = {}
    BY <1>0, <2>1, <2>2, TakenLog
  <2>4. LosesNothing /\ HandsOver
    BY <2>1, <2>2, <2>3 DEF LosesNothing, HandsOver, Safe, Printed, InHand
  <2>5. Kept'
    BY <2>1, <2>4, KeptOn
  <2> QED BY <1>0, <2>1, <2>3, <2>5 DEF LogInv, LogTypeOK, SwitchedOnce, Single, Begun
<1>4. ASSUME console_out PROVE LogInv'
  <2>1. /\ log = "write" /\ log' = "receive" /\ msg' = {}
        /\ \E m \in msg : out' = Append(out, m)
        /\ UNCHANGED <<logtask_alive, mbf, open, deleted, at, sent>>
    BY <1>4 DEF console_out, sender, buffer, Written
  <2>2. PICK m \in Message : msg = {m} /\ out' = Append(out, m)
    BY <1>0, <2>1 DEF LogInv, Single
  <2>3. /\ out' \in Seq(Message)
        /\ \A x : Contains(out', x) <=> Contains(out, x) \/ x = m
    BY <1>0, <2>2, AppendedLog
  <2>4. LosesNothing /\ HandsOver
    BY <2>1, <2>2, <2>3 DEF LosesNothing, HandsOver, Safe, Printed, InHand
  <2>5. Kept'
    BY <2>1, <2>4, KeptOn
  <2> QED BY <1>0, <2>1, <2>3, <2>5 DEF LogInv, LogTypeOK, SwitchedOnce, Single, Begun
<1>5. ASSUME log_task_Ends PROVE LogInv'
  <2>1. /\ log = "leave" /\ log' = "gone" /\ logtask_alive' = FALSE
        /\ UNCHANGED <<mbf, open, deleted, msg, at, sent, out>>
    BY <1>5 DEF log_task_Ends, sender, buffer
  <2>2. LosesNothing /\ HandsOver
    BY <2>1 DEF LosesNothing, HandsOver, Safe, Printed, InHand
  <2>3. Kept'
    BY <2>1, <2>2, KeptOn
  <2> QED BY <1>0, <2>1, <2>3 DEF LogInv, LogTypeOK, SwitchedOnce, Single, Begun
<1>6. ASSUME finish_syslog PROVE LogInv'
  <2>1. /\ open /\ ~open' /\ deleted' = ToSet(mbf) /\ mbf' = <<>>
        /\ UNCHANGED <<logtask_alive, log, msg, at, sent, out>>
    BY <1>6 DEF finish_syslog, sender, logTask
  <2>2. deleted = {}
    BY <2>1 DEF LogInv, Single
  <2>3. LosesNothing /\ HandsOver
    BY <2>1, <2>2 DEF LosesNothing, HandsOver, Safe, Printed, InHand
  <2>4. Kept'
    BY <2>1, <2>3, KeptOn
  <2>5. log # "none"
    BY <2>1 DEF LogInv, Single
  <2> QED BY <1>0, <2>1, <2>4, <2>5 DEF LogInv, LogTypeOK, SwitchedOnce, Single, Begun
<1> QED BY <1>1, <1>2, <1>3, <1>4, <1>5, <1>6 DEF LogTask
LEMMA LogUnchanged == LogInv /\ UNCHANGED logVars => LogInv'
BY DEF LogInv, LogTypeOK, Kept, SwitchedOnce, Single, Safe, Printed, InHand, Begun,
       logVars, sender, buffer, logTask

LEMMA LogStep == ~Early /\ LogInv /\ [LogNext]_logVars => LogInv'
BY SenderSteps, LogTaskSteps, LogUnchanged DEF LogNext

(* What has been logged and is not in hand is safe. *)
LEMMA LogSafe == LogInv => NoneLost
<1> SUFFICES ASSUME LogInv, NEW s \in Sender, NEW m \in Returned(s) PROVE Safe(m)
  BY DEF NoneLost, Safe
<1>1. sent[s] \in Nat
  BY DEF LogInv, LogTypeOK
<1>2. PICK i \in 1..sent[s] : /\ m = <<s, i>>
                              /\ at[s] \in {"queue", "look"} => i # sent[s]
  BY <1>1 DEF Returned
<1> QED BY <1>2 DEF LogInv, Kept, InHand

-----------------------------------------------------------------------------
(* The machine: the others leave the state of a part alone. *)

LEMMA PartSteps ==
  [MachNext]_machvars => [SmpNext]_smpvars /\ [LogNext]_logVars /\ [Next]_vars
BY DEF MachNext, machvars, ByTimer, ByStart, ByLog, BySmp

(* Requests between processors: each is executed by every processor that   *)
(* was notified, in order and once, and a synchronous one has ended        *)
(* everywhere before its parameter goes (smpcall_drv.c, cache.c).          *)
THEOREM CallsExecuted == MachSpec => []CallsCorrect
<1>1. MachInit => SmpInv
  BY SmpStart DEF MachInit
<1>2. SmpInv /\ [MachNext]_machvars => SmpInv'
  BY SmpStep, PartSteps
<1>3. SmpInv => CallsCorrect
  BY SmpSafe DEF CallsCorrect
<1> QED BY <1>1, <1>2, <1>3, PTL DEF MachSpec

(* The log loses no message but with its buffer (syslog.c), if nobody logs *)
(* between initialize_syslog and the first step of the log task.           *)
THEOREM LogKeepsAll ==
  ASSUME ~Early
  PROVE  MachSpec => []LogCorrect
<1>1. MachInit => LogInv
  BY LogStart DEF MachInit
<1>2. LogInv /\ [MachNext]_machvars => LogInv'
  BY LogStep, PartSteps
<1>3. LogInv => LogCorrect
  BY LogSafe DEF LogCorrect
<1> QED BY <1>1, <1>2, <1>3, PTL DEF MachSpec

(* The timer queue and the handlers (timer.c, time_calls.c): the event of  *)
(* a handler is in one queue exactly while the handler is started, what is *)
(* due is served, and an alarm handler runs on one processor at a time.    *)
THEOREM HandlersSound == MachSpec => []HandlersCorrect
<1>1. MachInit => TimerInv
  BY TimerStart DEF MachInit
<1>2. TimerInv /\ [MachNext]_machvars => TimerInv'
  BY TimerStep, PartSteps
<1>3. TimerInv => HandlersCorrect
  BY TimerSafe DEF HandlersCorrect
<1> QED BY <1>1, <1>2, <1>3, PTL DEF MachSpec

(* However late it is served, a cyclic handler keeps its phase, but for    *)
(* tk_sta_cyc without TA_PHS (time_calls.c: cyc_next_time, tk_sta_cyc).    *)
THEOREM PhaseHeld == MachSpec => InPhase
<1> DEFINE A == \A c \in Cyc : Exists(c) /\ hdrno'[c] = hdrno[c] =>
                  /\ cyccb[c].phs => (time'[c] - time[c]) % cyccb[c].cyctim = 0
                  /\ \A p \in Proc :
                       exec'[p] # exec[p] /\ exec'[p] # Idle /\ exec'[p].inst.hdr = c
                         => time'[c] > current_time'
<1>1. MachInit => TimerInv
  BY TimerStart DEF MachInit
<1>2. TimerInv /\ [MachNext]_machvars => TimerInv'
  BY TimerStep, PartSteps
<1>3. TimerInv /\ [MachNext]_machvars => [A]_vars
  BY PhaseKept, PartSteps DEF OnTime
<1> QED BY <1>1, <1>2, <1>3, PTL DEF MachSpec, InPhase
=============================================================================
