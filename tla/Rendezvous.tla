---------------------------- MODULE Rendezvous ----------------------------
(***************************************************************************)
(* Rendezvous ports (rendezvous.c).  A caller waits for an acceptor (CAL)  *)
(* and then for the reply (RDV); the acceptor gets a number that names the *)
(* rendezvous, and any task that knows it replies or forwards the caller   *)
(* to another port.                                                        *)
(***************************************************************************)
EXTENDS Wait

CONSTANTS
  PorId,    \* the ports
  PorKinds, \* what they are created with: [atr, maxcmsz, maxrmsz]
  Ptns,     \* the patterns of calls and acceptors
  Cmsgszs,  \* the sizes of call messages
  MaxRdv    \* bound: the rendezvous of all tasks; a task counts modulo 16

VARIABLES
  porcb,  \* the ports: NOEXS, or [atr, maxcmsz, maxrmsz]
  rdvdone \* the numbers of each caller below this one were answered or given up

PorK == [tcb |-> tcb, wq |-> waitq, por |-> porcb, rdvdone |-> rdvdone]
PorBecomes(k) == tcb' = k.tcb /\ waitq' = k.wq /\ porcb' = k.por /\ rdvdone' = k.rdvdone

PorInit == porcb = [p \in PorId |-> NOEXS] /\ rdvdone = [t \in Task |-> 0]

CalQueue(p) == <<"CAL", p>>
AcpQueue(p) == <<"ACP", p>>

(* The rendezvous so far are as many as the bound allows. *)
Spent == MapThenSumSet(LAMBDA t : tcb[t].wrdvno, Task) >= MaxRdv

(* The number the caller t counts on. *)
gen_rdvno(k, t) == [k EXCEPT !.tcb[t].wrdvno = @ + 1]

cal_chg_pri(k, p, t) == gcb_change_priority(k, t, CalQueue(p))

(* buf is the room the caller has: for its message, and for a reply as     *)
(* long as the port it called allows.                                      *)
CalWait(p, atr, ptn, cmsgsz, buf, tmout) ==
  [kind |-> "CAL", id |-> p, timed |-> tmout, nodiswai |-> atr.nodiswai,
   calptn |-> ptn, cmsgsz |-> cmsgsz, buf |-> buf]
RdvWait(rdvno, maxrmsz, nodiswai, buf) ==
  [kind |-> "RDV", timed |-> FALSE, nodiswai |-> nodiswai,
   rdvno |-> rdvno, maxrmsz |-> maxrmsz, buf |-> buf]

_tk_cre_por(p) == \E kind \in PorKinds :
  /\ porcb[p] = NOEXS
  /\ porcb' = [porcb EXCEPT ![p] = kind]
  /\ UNCHANGED <<tcb, waitq, rdvdone>>

_tk_del_por(p) ==
  /\ porcb[p] # NOEXS
  /\ PorBecomes([wait_delete(wait_delete(PorK, CalQueue(p)), AcpQueue(p)) EXCEPT
                 !.por[p] = NOEXS])

(* The first acceptor, or caller, whose pattern meets ptn; 0 if none does. *)
Acceptor(k, p, ptn) ==
  SelectInSeq(k.wq[AcpQueue(p)], LAMBDA t : k.tcb[t].wait.acpptn \cap ptn # {})
CallerFor(k, p, ptn) ==
  SelectInSeq(k.wq[CalQueue(p)], LAMBDA t : k.tcb[t].wait.calptn \cap ptn # {})

(* With RDV disabled the acceptor gets a number nobody waits for.          *)
cal_por(k, t, p, ptn, cmsgsz, tmout) ==
  LET cb == k.por[p]
      i == Acceptor(k, p, ptn)
      buf == IF cmsgsz > cb.maxrmsz THEN cmsgsz ELSE cb.maxrmsz
      acc == wait_release(gen_rdvno(k, t), k.wq[AcpQueue(p)][i])
  IN  IF i = 0
      THEN gcb_make_wait(k, t, CalWait(p, cb.atr, ptn, cmsgsz, buf, tmout), cb.atr)
      ELSE IF is_diswai(k, t, "RDV", cb.atr) THEN Returned(acc, t)
      ELSE make_wait(acc, t, RdvWait(k.tcb[t].wrdvno, cb.maxrmsz, cb.atr.nodiswai, buf))

_tk_cal_por(t, p, ptn, cmsgsz, tmout) ==
  /\ Caller(t) /\ porcb[p] # NOEXS /\ cmsgsz <= porcb[p].maxcmsz
  /\ ~is_diswai(PorK, t, "CAL", porcb[p].atr)
  /\ ~Spent
  /\ PorBecomes(cal_por(PorK, t, p, ptn, cmsgsz, tmout))

(* The caller goes on to wait for the reply, without a timeout.            *)
acp_por(k, t, p, ptn, tmout) ==
  LET cb == k.por[p]
      i == CallerFor(k, p, ptn)
      c == k.wq[CalQueue(p)][i]
      g == gen_rdvno(k, c)
      w == k.tcb[c].wait
  IN  IF i = 0
      THEN make_wait([k EXCEPT !.wq[AcpQueue(p)] = Append(@, t)], t,
             [kind |-> "ACP", id |-> p, timed |-> tmout, nodiswai |-> cb.atr.nodiswai,
              acpptn |-> ptn])
      ELSE IF is_diswai(k, c, "RDV", cb.atr) THEN Returned(wait_release(g, c), t)
      ELSE Returned([g EXCEPT !.wq = Unqueue(@, c, CalQueue(p)),
             !.tcb[c].wait = RdvWait(k.tcb[c].wrdvno, cb.maxrmsz, w.nodiswai, w.buf)], t)

_tk_acp_por(t, p, ptn, tmout) ==
  /\ Caller(t) /\ porcb[p] # NOEXS
  /\ ~is_diswai(PorK, t, "ACP", porcb[p].atr)
  /\ ~Spent
  /\ PorBecomes(acp_por(PorK, t, p, ptn, tmout))

(* Whether c waits for the reply to its rendezvous rdvno. *)
InRendezvous(c, rdvno) ==
  Waiting(PorK, c) /\ tcb[c].wait.kind = "RDV" /\ tcb[c].wait.rdvno = rdvno

(* Only compares the message with the port it goes to. *)
ForwardFits_CallOnly(p, c, cmsgsz) == cmsgsz <= porcb[p].maxcmsz

ForwardFits(p, c, cmsgsz) ==
  /\ cmsgsz <= porcb[p].maxcmsz
  /\ porcb[p].maxrmsz <= tcb[c].wait.maxrmsz
  /\ cmsgsz <= tcb[c].wait.maxrmsz

fwd_por(k, p, ptn, c, cmsgsz) ==
  LET cb == k.por[p]
      i == Acceptor(k, p, ptn)
      w == k.tcb[c].wait
      acc == wait_release(gen_rdvno(k, c), k.wq[AcpQueue(p)][i])
      call == [k EXCEPT !.tcb[c].wait = CalWait(p, cb.atr, ptn, cmsgsz, w.buf, FALSE)]
  IN  IF is_diswai(k, c, "CAL", cb.atr) THEN wait_release(k, c)
      ELSE IF i = 0
      THEN [call EXCEPT !.wq[CalQueue(p)] =
              IF cb.atr.tpri THEN queue_insert_tpri(call, c, @) ELSE Append(@, c)]
      ELSE IF is_diswai(k, c, "RDV", cb.atr) THEN wait_release(acc, c)
      ELSE [acc EXCEPT !.tcb[c].wait =
              RdvWait(k.tcb[c].wrdvno, cb.maxrmsz, cb.atr.nodiswai, w.buf)]

_tk_fwd_por(p, ptn, c, rdvno, cmsgsz) ==
  /\ porcb[p] # NOEXS
  /\ InRendezvous(c, rdvno) /\ ForwardFits(p, c, cmsgsz)
  /\ ~Spent
  /\ PorBecomes([fwd_por(PorK, p, ptn, c, cmsgsz) EXCEPT !.rdvdone[c] = rdvno + 1])

(* The length of the reply is at most the maxrmsz of the wait. *)
_tk_rpl_rdv(c, rdvno) ==
  /\ InRendezvous(c, rdvno)
  /\ PorBecomes([wait_release(PorK, c) EXCEPT !.rdvdone[c] = rdvno + 1])

_tk_ref_por(p) == [wtsk |-> wait_tskid(PorK, CalQueue(p)), atsk |-> wait_tskid(PorK, AcpQueue(p))]
_td_cal_que(p) == waitq[CalQueue(p)]
_td_acp_que(p) == waitq[AcpQueue(p)]

PorNext ==
  \/ \E p \in PorId :
       \/ _tk_cre_por(p)
       \/ _tk_del_por(p)
       \/ \E t \in Task, ptn \in Ptns, cmsgsz \in Cmsgszs, tmout \in Tmos :
            _tk_cal_por(t, p, ptn, cmsgsz, tmout)
       \/ \E t \in Task, ptn \in Ptns, tmout \in Tmos : _tk_acp_por(t, p, ptn, tmout)
       \/ \E ptn \in Ptns, c \in Task, cmsgsz \in Cmsgszs : \E rdvno \in 0..tcb[c].wrdvno :
            _tk_fwd_por(p, ptn, c, rdvno, cmsgsz)
  \/ \E c \in Task : \E rdvno \in 0..tcb[c].wrdvno : _tk_rpl_rdv(c, rdvno)

(* No caller waits for an acceptor of its port and pattern.                *)
PorNobodyWaits == \A p \in PorId : porcb[p] # NOEXS =>
  \A c \in ToSet(waitq[CalQueue(p)]), a \in ToSet(waitq[AcpQueue(p)]) :
    tcb[c].wait.calptn \cap tcb[a].wait.acpptn = {}

(* A number ends with the reply or the forwarding: what still waits for it *)
(* is another rendezvous with another number, which was given out.         *)
AnsweredOnce == \A c \in Task : tcb[c].wait.kind = "RDV" =>
  tcb[c].wait.rdvno \in rdvdone[c]..tcb[c].wrdvno - 1

(* Through however many ports a caller is forwarded, no reply and no       *)
(* message it carries is longer than the room it has.                      *)
RepliesFit == \A c \in Task :
  LET w == tcb[c].wait IN
  /\ w.kind = "RDV" => w.maxrmsz <= w.buf
  /\ w.kind = "CAL" => w.cmsgsz <= w.buf /\ porcb[w.id].maxrmsz <= w.buf

=============================================================================
