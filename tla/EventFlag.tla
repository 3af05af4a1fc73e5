----------------------------- MODULE EventFlag -----------------------------
(***************************************************************************)
(* Event flags (eventflag.c).  A pattern of bits is a set; a task waits    *)
(* for all or, with TWF_ORW, one of the bits of waiptn, and its release    *)
(* may clear those bits or all of them.                                    *)
(***************************************************************************)
EXTENDS Wait

CONSTANTS
  FlgId,   \* the event flags
  FlgAtrs, \* the attributes they are created with: [tpri, wmul, nodiswai]
  Bits,    \* the bits of a pattern
  Wfmodes  \* the modes of tk_wai_flg: subsets of {"ORW", "CLR", "BITCLR"}

VARIABLE flgcb \* the event flags: NOEXS, or [atr, flgptn]

FlgK == [tcb |-> tcb, wq |-> waitq, flg |-> flgcb]
FlgBecomes(k) == tcb' = k.tcb /\ waitq' = k.wq /\ flgcb' = k.flg

FlgInit == flgcb = [f \in FlgId |-> NOEXS]

FlgQueue(f) == <<"FLG", f>>

eventflag_cond(flgptn, waiptn, wfmode) ==
  IF "ORW" \in wfmode THEN flgptn \cap waiptn # {} ELSE waiptn \subseteq flgptn

(* The pattern after a wait for waiptn was satisfied. *)
Cleared(flgptn, waiptn, wfmode) ==
  IF "CLR" \in wfmode THEN {} ELSE IF "BITCLR" \in wfmode THEN flgptn \ waiptn ELSE flgptn

flg_chg_pri(k, f, t) == gcb_change_priority(k, t, FlgQueue(f))

_tk_cre_flg(f) == \E atr \in FlgAtrs, iflgptn \in SUBSET Bits :
  /\ flgcb[f] = NOEXS
  /\ flgcb' = [flgcb EXCEPT ![f] = [atr |-> atr, flgptn |-> iflgptn]]
  /\ UNCHANGED <<tcb, waitq>>

_tk_del_flg(f) ==
  /\ flgcb[f] # NOEXS
  /\ FlgBecomes([wait_delete(FlgK, FlgQueue(f)) EXCEPT !.flg[f] = NOEXS])

(* Stops once the pattern is cleared. *)
set_flg(k, f, setptn) ==
  LET Release(r, t) ==
        LET w == r.k.tcb[t].wait
            p == r.k.flg[f].flgptn
            c == Cleared(p, w.waiptn, w.wfmode)
        IN  IF r.stop \/ ~eventflag_cond(p, w.waiptn, w.wfmode) THEN r
            ELSE [k |-> [wait_release(r.k, t) EXCEPT !.flg[f].flgptn = c],
                  stop |-> w.wfmode \cap {"CLR", "BITCLR"} # {} /\ c = {}]
  IN  FoldLeft(Release,
               [k |-> [k EXCEPT !.flg[f].flgptn = @ \cup setptn], stop |-> FALSE],
               k.wq[FlgQueue(f)]).k

_tk_set_flg(f, setptn) ==
  /\ flgcb[f] # NOEXS
  /\ FlgBecomes(set_flg(FlgK, f, setptn))

_tk_clr_flg(f, clrptn) ==
  /\ flgcb[f] # NOEXS
  /\ flgcb' = [flgcb EXCEPT ![f].flgptn = @ \cap clrptn]
  /\ UNCHANGED <<tcb, waitq>>

_tk_wai_flg(t, f, waiptn, wfmode, tmout) ==
  /\ Caller(t) /\ flgcb[f] # NOEXS
  /\ flgcb[f].atr.wmul \/ waitq[FlgQueue(f)] = <<>>
  /\ ~is_diswai(FlgK, t, "FLG", flgcb[f].atr)
  /\ IF eventflag_cond(flgcb[f].flgptn, waiptn, wfmode)
     THEN FlgBecomes([Returned(FlgK, t) EXCEPT !.flg[f].flgptn = Cleared(@, waiptn, wfmode)])
     ELSE FlgBecomes(gcb_make_wait(FlgK, t,
            [kind |-> "FLG", id |-> f, timed |-> tmout, nodiswai |-> flgcb[f].atr.nodiswai,
             waiptn |-> waiptn, wfmode |-> wfmode], flgcb[f].atr))

_tk_ref_flg(f) == [wtsk |-> wait_tskid(FlgK, FlgQueue(f)), flgptn |-> flgcb[f].flgptn]
_td_flg_que(f) == waitq[FlgQueue(f)]

FlgNext == \E f \in FlgId :
  \/ _tk_cre_flg(f)
  \/ _tk_del_flg(f)
  \/ \E ptn \in SUBSET Bits : _tk_set_flg(f, ptn) \/ _tk_clr_flg(f, ptn)
  \/ \E t \in Task, waiptn \in SUBSET Bits \ {{}}, wfmode \in Wfmodes, tmout \in Tmos :
       _tk_wai_flg(t, f, waiptn, wfmode, tmout)

FlgTypeOK ==
  flgcb \in [FlgId -> {NOEXS} \cup { [atr |-> a, flgptn |-> p] : a \in FlgAtrs, p \in SUBSET Bits }]

(* No task waits for a pattern that is set, and one at most waits for a    *)
(* flag without TA_WMUL.                                                   *)
FlgNobodyWaits == \A f \in FlgId : flgcb[f] # NOEXS =>
  LET q == waitq[FlgQueue(f)] IN
  /\ \A i \in 1..Len(q) :
       ~eventflag_cond(flgcb[f].flgptn, tcb[q[i]].wait.waiptn, tcb[q[i]].wait.wfmode)
  /\ flgcb[f].atr.wmul \/ Len(q) <= 1

=============================================================================
