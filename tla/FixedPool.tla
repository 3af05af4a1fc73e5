----------------------------- MODULE FixedPool -----------------------------
(***************************************************************************)
(* Fixed size memory pools (mempfix.c).  Blocks never used come from an    *)
(* index into the pool, returned ones from a list linked through them.     *)
(***************************************************************************)
EXTENDS Wait

CONSTANTS
  MpfId,   \* the pools
  MpfAtrs, \* the attributes they are created with: [tpri, nodiswai]
  MaxBlf   \* the largest mpfcnt they are created with

VARIABLES
  mpfcb,  \* the pools: NOEXS, or [atr, mpfcnt, frbcnt, unused, freelist]
  mpfheld \* the blocks of each pool that the application holds

MpfK == [tcb |-> tcb, wq |-> waitq, mpf |-> mpfcb, mpfheld |-> mpfheld]
MpfBecomes(k) == tcb' = k.tcb /\ waitq' = k.wq /\ mpfcb' = k.mpf /\ mpfheld' = k.mpfheld

MpfInit == mpfcb = [p \in MpfId |-> NOEXS] /\ mpfheld = [p \in MpfId |-> {}]

MpfQueue(p) == <<"MPF", p>>

mpf_chg_pri(k, p, t) == gcb_change_priority(k, t, MpfQueue(p))

_tk_cre_mpf(p) == \E atr \in MpfAtrs, mpfcnt \in 1..MaxBlf :
  /\ mpfcb[p] = NOEXS
  /\ mpfcb' = [mpfcb EXCEPT ![p] = [atr |-> atr, mpfcnt |-> mpfcnt, frbcnt |-> mpfcnt,
                                    unused |-> 0, freelist |-> <<>>]]
  /\ UNCHANGED <<tcb, waitq, mpfheld>>

_tk_del_mpf(p) ==
  /\ mpfcb[p] # NOEXS
  /\ MpfBecomes([wait_delete(MpfK, MpfQueue(p)) EXCEPT !.mpf[p] = NOEXS, !.mpfheld[p] = {}])

TakeBlf(k, p) ==
  LET b == k.mpf[p]
      blf == IF b.freelist # <<>> THEN Head(b.freelist) ELSE b.unused
  IN  [k EXCEPT !.mpf[p] =
         [@ EXCEPT !.freelist = IF @ # <<>> THEN Tail(@) ELSE @,
                   !.unused = IF b.freelist # <<>> THEN @ ELSE @ + 1,
                   !.frbcnt = @ - 1],
       !.mpfheld[p] = @ \cup {blf}]

_tk_get_mpf(t, p, tmout) ==
  /\ Caller(t) /\ mpfcb[p] # NOEXS
  /\ ~is_diswai(MpfK, t, "MPF", mpfcb[p].atr)
  /\ MpfBecomes(IF mpfcb[p].frbcnt <= 0
       THEN gcb_make_wait(MpfK, t,
              [kind |-> "MPF", id |-> p, timed |-> tmout, nodiswai |-> mpfcb[p].atr.nodiswai],
              mpfcb[p].atr)
       ELSE Returned(TakeBlf(MpfK, p), t))

(* A waiting task gets the block at once: it stays with the application.   *)
rel_mpf(k, p, blf) ==
  LET q == k.wq[MpfQueue(p)] IN
  IF q # <<>> THEN wait_release(k, Head(q))
  ELSE [k EXCEPT !.mpf[p].freelist = <<blf>> \o @, !.mpf[p].frbcnt = @ + 1,
                 !.mpfheld[p] = @ \ {blf}]

(* Applications return only blocks they hold: the code cannot check it.    *)
_tk_rel_mpf(p, blf) ==
  /\ mpfcb[p] # NOEXS /\ blf \in mpfheld[p]
  /\ MpfBecomes(rel_mpf(MpfK, p, blf))

_tk_ref_mpf(p) == [wtsk |-> wait_tskid(MpfK, MpfQueue(p)), frbcnt |-> mpfcb[p].frbcnt]
_td_mpf_que(p) == waitq[MpfQueue(p)]

MpfNext == \E p \in MpfId :
  \/ _tk_cre_mpf(p)
  \/ _tk_del_mpf(p)
  \/ \E t \in Task, tmout \in Tmos : _tk_get_mpf(t, p, tmout)
  \/ \E blf \in 0..MaxBlf - 1 : _tk_rel_mpf(p, blf)

(* A task waits for a block only while there is none.                      *)
MpfNobodyWaits == \A p \in MpfId :
  mpfcb[p] # NOEXS => waitq[MpfQueue(p)] = <<>> \/ mpfcb[p].frbcnt = 0

(* Every block is held, on the list, or not used yet: in one of them.      *)
MpfBlocks == \A p \in MpfId : mpfcb[p] # NOEXS =>
  LET b == mpfcb[p] IN
  /\ IsInjective(b.freelist)
  /\ mpfheld[p] \cap ToSet(b.freelist) = {}
  /\ mpfheld[p] \cup ToSet(b.freelist) = 0..b.unused - 1
  /\ b.unused <= b.mpfcnt
  /\ b.frbcnt = b.mpfcnt - Cardinality(mpfheld[p])

=============================================================================
