--------------------------- MODULE MessageBuffer ---------------------------
(***************************************************************************)
(* Message buffers (messagebuf.c): messages are copied through a ring of   *)
(* bytes, each behind a header with its size.  A sender waits for space, a *)
(* receiver for a message, and either hands over to the other directly.    *)
(***************************************************************************)
EXTENDS Wait

CONSTANTS
  MbfId,   \* the message buffers
  MbfAtrs, \* the attributes they are created with: [tpri, nodiswai]
  Bufszs,  \* the buffer sizes, multiples of HEADERSZ
  Message, \* the messages, sequences of bytes not longer than maxmsz
  Junk,    \* a byte that is no part of a message
  HEADERSZ \* sizeof(HEADER), a message takes a multiple of it

ASSUME MbfAssumption ==
  /\ HEADERSZ \in Nat \ {0}
  /\ \A n \in Bufszs : n \in Nat /\ n % HEADERSZ = 0
  /\ \A m \in Message : Len(m) > 0

VARIABLES
  mbfcb, \* the message buffers: NOEXS, or [atr, bufsz, frbufsz, head, tail, buffer]
  mbfio  \* what the last step accepted and delivered

MbfNothing == [in |-> <<>>, out |-> <<>>]

MbfK == [tcb |-> tcb, wq |-> waitq, mbf |-> mbfcb, mbfio |-> MbfNothing]
MbfBecomes(k) == tcb' = k.tcb /\ waitq' = k.wq /\ mbfcb' = k.mbf /\ mbfio' = k.mbfio

MbfInit == mbfcb = [m \in MbfId |-> NOEXS] /\ mbfio = MbfNothing

SmbfQueue(m) == <<"SMBF", m>>
RmbfQueue(m) == <<"RMBF", m>>

-----------------------------------------------------------------------------
(* The ring *)

ROUNDSZ(sz) == ((sz + HEADERSZ - 1) \div HEADERSZ) * HEADERSZ

mbf_free(b, msgsz) == HEADERSZ + msgsz <= b.frbufsz
mbf_empty(b) == b.frbufsz = b.bufsz

Wrapped(b, p) == IF p >= b.bufsz THEN 0 ELSE p

(* memcpy of sz bytes from p on, in two parts if the end of the ring is in *)
(* between: the addresses of the bytes, and the address after them.        *)
CopyTo(b, p, sz) == [i \in 1..sz |-> IF p + i <= b.bufsz THEN p + i - 1 ELSE p + i - 1 - b.bufsz]
After(b, p, sz) ==
  LET remsz == b.bufsz - p
  IN  Wrapped(b, IF remsz < sz THEN ROUNDSZ(sz - remsz) ELSE p + ROUNDSZ(sz))

msg_to_mbf(b, msg) ==
  LET p == Wrapped(b, b.tail + HEADERSZ)
      to == CopyTo(b, p, Len(msg))
      Byte(c) == IF c = b.tail THEN Len(msg)
                 ELSE IF \E i \in 1..Len(msg) : to[i] = c
                      THEN msg[CHOOSE i \in 1..Len(msg) : to[i] = c]
                      ELSE b.buffer[c]
  IN  [b EXCEPT !.frbufsz = @ - (HEADERSZ + ROUNDSZ(Len(msg))),
                !.buffer = [c \in DOMAIN b.buffer |-> Byte(c)],
                !.tail = After(b, p, Len(msg))]

(* The message at address h of the ring. *)
MessageAt(b, h) ==
  LET from == CopyTo(b, Wrapped(b, h + HEADERSZ), b.buffer[h])
  IN  [i \in 1..b.buffer[h] |-> b.buffer[from[i]]]

(* The ring once the first message is taken; its bytes are junk now. *)
mbf_to_msg(b) ==
  LET p == Wrapped(b, b.head + HEADERSZ)
      sz == b.buffer[b.head]
      from == CopyTo(b, p, sz)
      taken == {b.head} \cup {from[i] : i \in 1..sz}
  IN  [b EXCEPT !.frbufsz = @ + HEADERSZ + ROUNDSZ(sz),
                !.buffer = [c \in DOMAIN b.buffer |-> IF c \in taken THEN Junk ELSE b.buffer[c]],
                !.head = After(b, p, sz)]

(* The messages in the ring, found by going from header to header. *)
MbfBox(b) ==
  IF b = NOEXS \/ mbf_empty(b) THEN <<>>
  ELSE LET used == b.bufsz - b.frbufsz
           Walk[left \in 0..used] ==
             IF left = 0 THEN <<>>
             ELSE LET h == (b.head + used - left) % b.bufsz
                  IN  <<MessageAt(b, h)>> \o Walk[left - HEADERSZ - ROUNDSZ(b.buffer[h])]
       IN  Walk[used]

-----------------------------------------------------------------------------
(* The calls *)

Accept(k, m, msg) ==
  [k EXCEPT !.mbf[m] = msg_to_mbf(@, msg), !.mbfio.in = Append(@, msg)]

(* As long as the head of the senders finds space. *)
mbf_wakeup(k, m) ==
  LET Store(r, t) ==
        LET msg == r.k.tcb[t].wait.msg
        IN  IF r.stop \/ ~mbf_free(r.k.mbf[m], Len(msg)) THEN [r EXCEPT !.stop = TRUE]
            ELSE [r EXCEPT !.k = wait_release(Accept(r.k, m, msg), t)]
  IN  FoldLeft(Store, [k |-> k, stop |-> FALSE], k.wq[SmbfQueue(m)]).k

mbf_rel_wai(k, m) == mbf_wakeup(k, m)
mbf_chg_pri(k, m, t) == mbf_wakeup(gcb_change_priority(k, t, SmbfQueue(m)), m)

_tk_cre_mbf(m) == \E atr \in MbfAtrs, bufsz \in Bufszs :
  /\ mbfcb[m] = NOEXS
  /\ MbfBecomes([MbfK EXCEPT !.mbf[m] =
       [atr |-> atr, bufsz |-> bufsz, frbufsz |-> bufsz, head |-> 0, tail |-> 0,
        buffer |-> [c \in 0..bufsz - 1 |-> Junk]]])

_tk_del_mbf(m) ==
  /\ mbfcb[m] # NOEXS
  /\ MbfBecomes([wait_delete(wait_delete(MbfK, RmbfQueue(m)), SmbfQueue(m)) EXCEPT
                 !.mbf[m] = NOEXS])

Handover(k, msg) == [k EXCEPT !.mbfio = [in |-> Append(@.in, msg), out |-> Append(@.out, msg)]]

(* A send that does not wait: of the task t, or of a handler (indp), which *)
(* stores a message that fits even if senders wait.                        *)
Sent(k, m, msg, Top) ==
  LET rq == k.wq[RmbfQueue(m)] IN
  IF rq # <<>> THEN wait_release(Handover(k, msg), Head(rq))
  ELSE IF Top /\ mbf_free(k.mbf[m], Len(msg)) THEN Accept(k, m, msg) ELSE k

_tk_snd_mbf_indp(m, msg) ==
  /\ mbfcb[m] # NOEXS
  /\ MbfBecomes(Sent(MbfK, m, msg, TRUE))

_tk_snd_mbf(t, m, msg, tmout) ==
  /\ Caller(t) /\ mbfcb[m] # NOEXS
  /\ ~is_diswai(MbfK, t, "SMBF", mbfcb[m].atr)
  /\ LET k == Sent(MbfK, m, msg, gcb_top_of_wait_queue(MbfK, t, SmbfQueue(m), mbfcb[m].atr))
     IN  MbfBecomes(
           IF k # MbfK THEN Returned(k, t)
           ELSE gcb_make_wait(k, t,
                  [kind |-> "SMBF", id |-> m, timed |-> tmout,
                   nodiswai |-> mbfcb[m].atr.nodiswai, msg |-> msg], mbfcb[m].atr))

(* The first sender is asked before the ring. *)
Received_SenderFirst(k, m) ==
  LET b == k.mbf[m]
      sq == k.wq[SmbfQueue(m)]
  IN  IF sq # <<>>
      THEN mbf_wakeup(wait_release(Handover(k, k.tcb[Head(sq)].wait.msg), Head(sq)), m)
      ELSE IF ~mbf_empty(b)
      THEN [k EXCEPT !.mbf[m] = mbf_to_msg(b), !.mbfio.out = <<MessageAt(b, b.head)>>]
      ELSE k

(* From the ring, else from the first sender; then others may find space. *)
Received(k, m) ==
  LET b == k.mbf[m]
      sq == k.wq[SmbfQueue(m)]
  IN  IF ~mbf_empty(b)
      THEN mbf_wakeup([k EXCEPT !.mbf[m] = mbf_to_msg(b),
                                !.mbfio.out = <<MessageAt(b, b.head)>>], m)
      ELSE IF sq # <<>>
      THEN mbf_wakeup(wait_release(Handover(k, k.tcb[Head(sq)].wait.msg), Head(sq)), m)
      ELSE k

_tk_rcv_mbf(t, m, tmout) ==
  /\ Caller(t) /\ mbfcb[m] # NOEXS
  /\ ~is_diswai(MbfK, t, "RMBF", mbfcb[m].atr)
  /\ LET k == Received(MbfK, m)
     IN  MbfBecomes(
           IF k # MbfK THEN Returned(k, t)
           ELSE gcb_make_wait(k, t,
                  [kind |-> "RMBF", id |-> m, timed |-> tmout,
                   nodiswai |-> mbfcb[m].atr.nodiswai], [tpri |-> FALSE]))

_tk_ref_mbf(m) ==
  LET b == mbfcb[m]
      sq == waitq[SmbfQueue(m)]
  IN  [wtsk |-> wait_tskid(MbfK, RmbfQueue(m)), stsk |-> wait_tskid(MbfK, SmbfQueue(m)),
       msgsz |-> IF ~mbf_empty(b) THEN b.buffer[b.head]
                 ELSE IF sq # <<>> THEN Len(tcb[Head(sq)].wait.msg) ELSE 0]
_td_smbf_que(m) == waitq[SmbfQueue(m)]
_td_rmbf_que(m) == waitq[RmbfQueue(m)]

MbfNext == \E m \in MbfId :
  \/ _tk_cre_mbf(m)
  \/ _tk_del_mbf(m)
  \/ \E msg \in Message : _tk_snd_mbf_indp(m, msg)
  \/ \E t \in Task, msg \in Message, tmout \in Tmos : _tk_snd_mbf(t, m, msg, tmout)
  \/ \E t \in Task, tmout \in Tmos : _tk_rcv_mbf(t, m, tmout)

(* No receiver waits while there is a message, and no sender while there   *)
(* is a receiver, an empty ring nobody reads or, for the first of them,    *)
(* space.                                                                  *)
MbfNobodyWaits == \A m \in MbfId : mbfcb[m] # NOEXS =>
  LET sq == waitq[SmbfQueue(m)]
      rq == waitq[RmbfQueue(m)]
  IN  /\ rq # <<>> => sq = <<>> /\ mbf_empty(mbfcb[m])
      /\ sq # <<>> => ~mbf_free(mbfcb[m], Len(tcb[Head(sq)].wait.msg))

(* The free space is what the headers do not account for. *)
MbfTypeOK == \A m \in MbfId : mbfcb[m] # NOEXS =>
  LET b == mbfcb[m] IN
  /\ b.frbufsz \in 0..b.bufsz
  /\ b.head \in 0..b.bufsz /\ b.tail \in 0..b.bufsz
  /\ b.bufsz - b.frbufsz =
       FoldLeft(LAMBDA n, msg : n + HEADERSZ + ROUNDSZ(Len(msg)), 0, MbfBox(b))

=============================================================================
