------------------------------ MODULE Mailbox ------------------------------
(***************************************************************************)
(* Mailboxes (mailbox.c).  A message belongs to the application and is     *)
(* linked into the mailbox by its own header: nothing is copied.           *)
(***************************************************************************)
EXTENDS Wait

CONSTANTS
  MbxId,   \* the mailboxes
  MbxAtrs, \* the attributes they are created with: [tpri, mpri, nodiswai]
  Msg,     \* the message packets
  Msgpri,  \* msgpri of each packet
  NULL

ASSUME MsgAssumption == NULL \notin Msg /\ Msgpri \in [Msg -> Nat \ {0}]

VARIABLES
  mbxcb,   \* the mailboxes: NOEXS, or [atr, head, tail], its mq_head and mq_tail
  msgnext, \* the header of each packet: msgque[0]
  mbxio    \* what the last step accepted and delivered

MbxK == [tcb |-> tcb, wq |-> waitq, mbx |-> mbxcb, msgnext |-> msgnext]
MbxBecomes(k) == tcb' = k.tcb /\ waitq' = k.wq /\ mbxcb' = k.mbx /\ msgnext' = k.msgnext

MbxNothing == [in |-> <<>>, out |-> <<>>]

MbxInit ==
  /\ mbxcb = [m \in MbxId |-> NOEXS]
  /\ msgnext = [p \in Msg |-> NULL]
  /\ mbxio = MbxNothing

MbxQueue(m) == <<"MBX", m>>

(* The packets linked from p on. *)
Linked(next, p) ==
  LET From[n \in 0..Cardinality(Msg), q \in Msg \cup {NULL}] ==
        IF n = 0 \/ q = NULL THEN <<>> ELSE <<q>> \o From[n - 1, next[q]]
  IN  From[Cardinality(Msg), p]

(* What a mailbox holds, and the packets the application may send. *)
MbxBox(k, m) == IF k.mbx[m] = NOEXS THEN <<>> ELSE Linked(k.msgnext, k.mbx[m].head)
Owned(k) == Msg \ UNION {ToSet(MbxBox(k, m)) : m \in MbxId}

(* Link p behind prev, NULL is the mailbox itself. *)
Link(k, m, p, prev) ==
  IF prev = NULL
  THEN [k EXCEPT !.mbx[m].head = p, !.msgnext[p] = k.mbx[m].head]
  ELSE [k EXCEPT !.msgnext = [@ EXCEPT ![p] = k.msgnext[prev], ![prev] = p]]

(* Behind the last packet whose msgpri is not larger. *)
queue_insert_mpri(k, m, p) ==
  LET box == MbxBox(k, m)
      i == SelectInSeq(box, LAMBDA x : Msgpri[x] > Msgpri[p])
      n == IF i = 0 THEN Len(box) ELSE i - 1
  IN  Link(k, m, p, IF n = 0 THEN NULL ELSE box[n])

(* mq_tail is stale while the mailbox is empty. *)
queue_append(k, m, p) ==
  LET l == IF k.mbx[m].head = NULL THEN [k EXCEPT !.mbx[m].head = p]
           ELSE [k EXCEPT !.msgnext[k.mbx[m].tail] = p]
  IN  [l EXCEPT !.msgnext[p] = NULL, !.mbx[m].tail = p]

mbx_chg_pri(k, m, t) == gcb_change_priority(k, t, MbxQueue(m))

(* The packets a deleted mailbox held go back to the application; the link *)
(* of a packet that is not queued is the application's: it reads NULL here.*)
Unlink(next, ps) == [p \in Msg |-> IF p \in ps THEN NULL ELSE next[p]]

_tk_cre_mbx(m) == \E atr \in MbxAtrs :
  /\ mbxcb[m] = NOEXS
  /\ mbxcb' = [mbxcb EXCEPT ![m] = [atr |-> atr, head |-> NULL, tail |-> NULL]]
  /\ mbxio' = MbxNothing
  /\ UNCHANGED <<tcb, waitq, msgnext>>

_tk_del_mbx(m) ==
  /\ mbxcb[m] # NOEXS
  /\ MbxBecomes([wait_delete(MbxK, MbxQueue(m)) EXCEPT
       !.mbx[m] = NOEXS, !.msgnext = Unlink(@, ToSet(MbxBox(MbxK, m)))])
  /\ mbxio' = MbxNothing

_tk_snd_mbx(m, p) ==
  /\ mbxcb[m] # NOEXS /\ p \in Owned(MbxK)
  /\ LET q == waitq[MbxQueue(m)] IN
     IF q # <<>>
     THEN /\ MbxBecomes(wait_release(MbxK, Head(q)))
          /\ mbxio' = [in |-> <<p>>, out |-> <<p>>]
     ELSE /\ MbxBecomes(IF mbxcb[m].atr.mpri THEN queue_insert_mpri(MbxK, m, p)
                        ELSE queue_append(MbxK, m, p))
          /\ mbxio' = [in |-> <<p>>, out |-> <<>>]

_tk_rcv_mbx(t, m, tmout) ==
  /\ Caller(t) /\ mbxcb[m] # NOEXS
  /\ ~is_diswai(MbxK, t, "MBX", mbxcb[m].atr)
  /\ IF mbxcb[m].head # NULL
     THEN LET p == mbxcb[m].head IN
          /\ MbxBecomes([Returned(MbxK, t) EXCEPT
               !.mbx[m].head = msgnext[p], !.msgnext = Unlink(@, {p})])
          /\ mbxio' = [in |-> <<>>, out |-> <<p>>]
     ELSE /\ MbxBecomes(gcb_make_wait(MbxK, t,
               [kind |-> "MBX", id |-> m, timed |-> tmout,
                nodiswai |-> mbxcb[m].atr.nodiswai], mbxcb[m].atr))
          /\ mbxio' = MbxNothing

_tk_ref_mbx(m) == [wtsk |-> wait_tskid(MbxK, MbxQueue(m)), pk_msg |-> mbxcb[m].head]
_td_mbx_que(m) == waitq[MbxQueue(m)]

MbxNext == \E m \in MbxId :
  \/ _tk_cre_mbx(m)
  \/ _tk_del_mbx(m)
  \/ \E p \in Msg : _tk_snd_mbx(m, p)
  \/ \E t \in Task, tmout \in Tmos : _tk_rcv_mbx(t, m, tmout)

MbxTypeOK ==
  /\ mbxcb \in [MbxId -> {NOEXS} \cup
       { [atr |-> a, head |-> h, tail |-> l] : a \in MbxAtrs, h \in Msg \cup {NULL}, l \in Msg \cup {NULL} }]
  /\ msgnext \in [Msg -> Msg \cup {NULL}]

(* No task waits for a message while there is one. *)
MbxNobodyWaits == \A m \in MbxId :
  mbxcb[m] # NOEXS => waitq[MbxQueue(m)] = <<>> \/ mbxcb[m].head = NULL

=============================================================================
