------------------------------ MODULE Objects ------------------------------
(***************************************************************************)
(* The objects tasks wait for, with everything that ends a wait from the   *)
(* outside: a timeout, tk_rel_wai, tk_dis_wai, tk_ter_tsk, a deletion; and *)
(* what disturbs a waiting task: a suspension or a change of priority.     *)
(*                                                                         *)
(* Each of these runs a hook of the object, which may serve other tasks    *)
(* that wait for it: wait_release_ng and wait_release_tmout call           *)
(* wspec->rel_wai_hook, change_task_priority calls wspec->chg_pri_hook.    *)
(***************************************************************************)
EXTENDS TaskSync, Semaphore, EventFlag, Mailbox, MessageBuffer, FixedPool,
        MemoryPool, Rendezvous

CONSTANTS
  WaitMasks, \* the wait masks of tk_dis_wai
  MaxKinds   \* bound: the kinds of objects in use at a time

vars == <<tcb, waitq, semcb, flgcb, mbxcb, msgnext, mbxio, mbfcb, mbfio, mpfcb, mpfheld,
          mplcb, porcb, rdvdone>>

K == [tcb |-> tcb, wq |-> waitq, sem |-> semcb, flg |-> flgcb, mbx |-> mbxcb,
      msgnext |-> msgnext, mbf |-> mbfcb, mbfio |-> MbfNothing,
      mpf |-> mpfcb, mpfheld |-> mpfheld, mpl |-> mplcb, por |-> porcb, rdvdone |-> rdvdone]

Becomes(k) ==
  /\ tcb' = k.tcb /\ waitq' = k.wq
  /\ semcb' = k.sem /\ flgcb' = k.flg
  /\ mbxcb' = k.mbx /\ msgnext' = k.msgnext /\ mbxio' = MbxNothing
  /\ mbfcb' = k.mbf /\ mbfio' = k.mbfio
  /\ mpfcb' = k.mpf /\ mpfheld' = k.mpfheld
  /\ mplcb' = k.mpl /\ porcb' = k.por /\ rdvdone' = k.rdvdone

Init ==
  /\ WaitInit /\ SemInit /\ FlgInit /\ MbxInit /\ MbfInit /\ MpfInit /\ MplInit /\ PorInit

-----------------------------------------------------------------------------
(* The hooks *)

rel_wai_hook(k, w) ==
  CASE w.kind = "SEM" -> sem_rel_wai(k, w.id)
    [] w.kind = "SMBF" -> mbf_rel_wai(k, w.id)
    [] w.kind = "MPL" -> mpl_rel_wai(k, w.id)
    [] OTHER -> k

(* Only the tasks in the object's main queue, and only with TA_TPRI. *)
TpriObject(k, w) ==
  CASE w.kind = "SEM" -> k.sem[w.id].atr.tpri
    [] w.kind = "FLG" -> k.flg[w.id].atr.tpri
    [] w.kind = "MBX" -> k.mbx[w.id].atr.tpri
    [] w.kind = "SMBF" -> k.mbf[w.id].atr.tpri
    [] w.kind = "MPF" -> k.mpf[w.id].atr.tpri
    [] w.kind = "MPL" -> k.mpl[w.id].atr.tpri
    [] w.kind = "CAL" -> k.por[w.id].atr.tpri
    [] OTHER -> FALSE

chg_pri_hook(k, t) ==
  LET w == k.tcb[t].wait IN
  IF ~TpriObject(k, w) THEN k
  ELSE CASE w.kind = "SEM" -> sem_chg_pri(k, w.id, t)
         [] w.kind = "FLG" -> flg_chg_pri(k, w.id, t)
         [] w.kind = "MBX" -> mbx_chg_pri(k, w.id, t)
         [] w.kind = "SMBF" -> mbf_chg_pri(k, w.id, t)
         [] w.kind = "MPF" -> mpf_chg_pri(k, w.id, t)
         [] w.kind = "MPL" -> mpl_chg_pri(k, w.id, t)
         [] OTHER -> cal_chg_pri(k, w.id, t)

(* wait_release_ng and, in this respect the same, wait_release_tmout. *)
wait_release_ng(k, t) == rel_wai_hook(wait_release(k, t), k.tcb[t].wait)

-----------------------------------------------------------------------------
(* The calls that end or disturb any wait *)

wait_release_tmout(t) ==
  /\ Waiting(K, t) /\ tcb[t].wait.timed
  /\ Becomes(wait_release_ng(K, t))

_tk_rel_wai(t) == Waiting(K, t) /\ Becomes(wait_release_ng(K, t))

(* A task may disable its own waits. *)
_tk_dis_wai(t, waitmask) ==
  /\ tcb[t].state # "DORMANT" /\ MayDisturb(t)
  /\ LET k == [K EXCEPT !.tcb[t].waitmask = waitmask]
         w == tcb[t].wait
     IN  Becomes(IF /\ Waiting(K, t) /\ ~w.nodiswai
                    /\ tskwait(w) \cap waitmask # {}
                 THEN wait_release_ng(k, t) ELSE k)

_tk_ena_wai(t) == Becomes([K EXCEPT !.tcb[t].waitmask = {}])

change_task_priority(k, t, pri) ==
  LET c == [k EXCEPT !.tcb[t].pri = pri]
  IN  IF Waiting(k, t) THEN chg_pri_hook(c, t) ELSE c

_tk_chg_pri(t, pri) ==
  /\ tcb[t].state # "DORMANT" /\ MayDisturb(t)
  /\ Becomes(change_task_priority(K, t, pri))

make_dormant(k, t) ==
  [k EXCEPT !.tcb[t] = [NewTask EXCEPT !.state = "DORMANT", !.wrdvno = k.tcb[t].wrdvno]]

(* A terminated task does not release its place in the queue. *)
_ter_tsk_StaysQueued(k, t) == make_dormant(k, t)

(* The hook runs when the task has left the queue, before it is DORMANT. *)
_ter_tsk(k, t) ==
  LET w == k.tcb[t].wait
      c == [k EXCEPT !.tcb[t].wait = NoWait, !.wq = Unqueue(@, t, QueueOf(w))]
  IN  make_dormant(IF Waiting(k, t) THEN rel_wai_hook(c, w) ELSE k, t)

_tk_ter_tsk(t) ==
  /\ tcb[t].state # "DORMANT" /\ MayDisturb(t)
  /\ Becomes(_ter_tsk(K, t))

_tk_ext_tsk(t) == Caller(t) /\ MayDisturb(t) /\ Becomes(_ter_tsk(K, t))

_tk_sta_tsk(t) ==
  /\ tcb[t].state = "DORMANT"
  /\ Becomes([K EXCEPT !.tcb[t].state = "READY"])

-----------------------------------------------------------------------------
(* The objects in use, and the specification *)

InUse ==
  {"SYNC" : t \in {x \in Task : tcb[x].wupcnt > 0 \/ tcb[x].tskevt # {} \/
                                tcb[x].suscnt > 1 \/ tcb[x].wait.kind \in {"SLP", "EV"}}}
  \cup {"SEM" : s \in {x \in SemId : semcb[x] # NOEXS}}
  \cup {"FLG" : s \in {x \in FlgId : flgcb[x] # NOEXS}}
  \cup {"MBX" : s \in {x \in MbxId : mbxcb[x] # NOEXS}}
  \cup {"MBF" : s \in {x \in MbfId : mbfcb[x] # NOEXS}}
  \cup {"MPF" : s \in {x \in MpfId : mpfcb[x] # NOEXS}}
  \cup {"MPL" : s \in {x \in MplId : mplcb[x] # NOEXS}}
  \cup {"POR" : s \in {x \in PorId : porcb[x] # NOEXS \/ \E t \in Task : tcb[t].wrdvno > 0}}
MayUse(kind) == Cardinality(InUse \cup {kind}) <= MaxKinds

SyncOnly == UNCHANGED <<semcb, flgcb, mpfcb, mpfheld, mplcb, porcb, rdvdone>>
NoMbx == UNCHANGED <<mbxcb, msgnext>> /\ mbxio' = MbxNothing
NoMbf == UNCHANGED mbfcb /\ mbfio' = MbfNothing

Sync ==
  /\ \/ SuspendNext /\ (MayUse("SYNC") \/ \A t \in Task : tcb'[t].suscnt <= 1)
     \/ SleepNext /\ MayUse("SYNC")
  /\ NoMbx /\ NoMbf /\ SyncOnly
Sem == MayUse("SEM") /\ SemNext /\ NoMbx /\ NoMbf
       /\ UNCHANGED <<flgcb, mpfcb, mpfheld, mplcb, porcb, rdvdone>>
Flg == MayUse("FLG") /\ FlgNext /\ NoMbx /\ NoMbf
       /\ UNCHANGED <<semcb, mpfcb, mpfheld, mplcb, porcb, rdvdone>>
Mbx == MayUse("MBX") /\ MbxNext /\ NoMbf /\ SyncOnly
Mbf == MayUse("MBF") /\ MbfNext /\ NoMbx /\ SyncOnly
Mpf == MayUse("MPF") /\ MpfNext /\ NoMbx /\ NoMbf
       /\ UNCHANGED <<semcb, flgcb, mplcb, porcb, rdvdone>>
Mpl == MayUse("MPL") /\ MplNext /\ NoMbx /\ NoMbf
       /\ UNCHANGED <<semcb, flgcb, mpfcb, mpfheld, porcb, rdvdone>>
Por == MayUse("POR") /\ PorNext /\ NoMbx /\ NoMbf
       /\ UNCHANGED <<semcb, flgcb, mpfcb, mpfheld, mplcb>>

Disturb == \E t \in Task :
  \/ wait_release_tmout(t)
  \/ _tk_rel_wai(t)
  \/ \E waitmask \in WaitMasks : _tk_dis_wai(t, waitmask)
  \/ _tk_ena_wai(t)
  \/ \E pri \in Pris : _tk_chg_pri(t, pri)
  \/ _tk_ter_tsk(t)
  \/ _tk_ext_tsk(t)
  \/ _tk_sta_tsk(t)

Next == Sync \/ Sem \/ Flg \/ Mbx \/ Mbf \/ Mpf \/ Mpl \/ Por \/ Disturb

Spec == Init /\ [][Next]_vars

-----------------------------------------------------------------------------
(* Properties *)

_tk_ref_tsk(t) ==
  [tskwait |-> tcb[t].wait.kind, wid |-> IF "id" \in DOMAIN tcb[t].wait THEN tcb[t].wait.id ELSE 0]

(* For each queue: the first task tk_ref_... names, and what td_..._que    *)
(* lists; or that the object does not exist.                               *)
Shown(q) ==
  LET x == q[2] IN
  CASE q[1] = "SEM" -> IF semcb[x] = NOEXS THEN NOEXS ELSE <<_tk_ref_sem(x).wtsk, _td_sem_que(x)>>
    [] q[1] = "FLG" -> IF flgcb[x] = NOEXS THEN NOEXS ELSE <<_tk_ref_flg(x).wtsk, _td_flg_que(x)>>
    [] q[1] = "MBX" -> IF mbxcb[x] = NOEXS THEN NOEXS ELSE <<_tk_ref_mbx(x).wtsk, _td_mbx_que(x)>>
    [] q[1] = "SMBF" -> IF mbfcb[x] = NOEXS THEN NOEXS ELSE <<_tk_ref_mbf(x).stsk, _td_smbf_que(x)>>
    [] q[1] = "RMBF" -> IF mbfcb[x] = NOEXS THEN NOEXS ELSE <<_tk_ref_mbf(x).wtsk, _td_rmbf_que(x)>>
    [] q[1] = "MPF" -> IF mpfcb[x] = NOEXS THEN NOEXS ELSE <<_tk_ref_mpf(x).wtsk, _td_mpf_que(x)>>
    [] q[1] = "MPL" -> IF mplcb[x] = NOEXS THEN NOEXS ELSE <<_tk_ref_mpl(x).wtsk, _td_mpl_que(x)>>
    [] q[1] = "CAL" -> IF porcb[x] = NOEXS THEN NOEXS ELSE <<_tk_ref_por(x).wtsk, _td_cal_que(x)>>
    [] OTHER -> IF porcb[x] = NOEXS THEN NOEXS ELSE <<_tk_ref_por(x).atsk, _td_acp_que(x)>>

ReferencesAgree == \A q \in QueueName :
  LET waits == {t \in Task : _tk_ref_tsk(t) = [tskwait |-> q[1], wid |-> q[2]]} IN
  IF Shown(q) = NOEXS THEN waits = {}
  ELSE /\ ToSet(Shown(q)[2]) = waits
       /\ (Shown(q)[1] = NoTask) = (waits = {})

(* A task's state says what it waits for, and it is in the queue of what   *)
(* it waits for, once, and in no other; queues of TA_TPRI objects are in   *)
(* order of priority.  tk_ref_tsk, tk_ref_sem and the others, and          *)
(* td_sem_que and the others show the same, seen from either side.         *)
QueuesAgree ==
  /\ ReferencesAgree
  /\ \A t \in Task :
       LET c == tcb[t] IN
       /\ (c.wait = NoWait) = ~Waiting(K, t)
       /\ (c.suscnt > 0) = (c.state \in {"SUSPEND", "WAITSUS"})
       /\ c.late => c.state = "SUSPEND"
       /\ \A q \in QueueName :
            Cardinality({i \in 1..Len(waitq[q]) : waitq[q][i] = t})
              = IF QueueOf(c.wait) = q THEN 1 ELSE 0
  /\ \A q \in QueueName : waitq[q] # <<>> =>
       (TpriObject(K, tcb[Head(waitq[q])].wait) =>
         \A i \in 1..Len(waitq[q]) - 1 : tcb[waitq[q][i]].pri <= tcb[waitq[q][i + 1]].pri)

(* Whatever ends or disturbs other waits, and in whatever order: no task   *)
(* waits for what the object could give it (sig_sem, set_flg, mbf_wakeup,  *)
(* mpl_wakeup and the hooks).                                              *)
NobodyWaitsForWhatIsThere ==
  /\ SyncNobodyWaits /\ SemNobodyWaits /\ FlgNobodyWaits /\ MbxNobodyWaits
  /\ MbfNobodyWaits /\ MpfNobodyWaits /\ MplNobodyWaits /\ PorNobodyWaits

(* A semaphore counts what it should, a ring accounts for its messages, and*)
(* every block of a pool is in exactly one place.                          *)
ResourcesConserved ==
  /\ SemTypeOK /\ FlgTypeOK /\ MbxTypeOK /\ MbfTypeOK
  /\ MpfBlocks /\ MplBlocks
  /\ \A p \in MplId : mplcb[p] # NOEXS =>
       (_tk_ref_mpl(p).maxsz <= _tk_ref_mpl(p).frsz /\ _tk_ref_mpl(p).frsz <= mplcb[p].mplsz)
  /\ \A m \in MbfId : mbfcb[m] # NOEXS =>
       LET r == _tk_ref_mbf(m)
       IN  (r.msgsz = 0) = (r.stsk = NoTask /\ mbf_empty(mbfcb[m]))

(* A rendezvous number is answered once, and fits the caller (tk_acp_por,  *)
(* tk_fwd_por, tk_rpl_rdv).                                                *)
RendezvousSafe == AnsweredOnce /\ RepliesFit

(* Mailboxes and message buffers deliver what was sent, in order: by       *)
(* msgpri with TA_MPRI (tk_snd_mbx, tk_rcv_mbx, tk_snd_mbf, tk_rcv_mbf).   *)
TheMbx == CHOOSE m \in MbxId : TRUE
TheMbf == CHOOSE m \in MbfId : TRUE
MsgRank(p) == Msgpri[p]
NoRank(m) == 0

MbxChannel == INSTANCE Channel WITH
  Rank <- MsgRank, byrank <- mbxcb[TheMbx] # NOEXS /\ mbxcb[TheMbx].atr.mpri,
  open <- mbxcb[TheMbx] # NOEXS, box <- MbxBox(K, TheMbx), io <- mbxio
MbfChannel == INSTANCE Channel WITH
  Rank <- NoRank, byrank <- FALSE,
  open <- mbfcb[TheMbf] # NOEXS, box <- MbfBox(mbfcb[TheMbf]), io <- mbfio

MessagesInOrder == MbxChannel!Spec /\ MbfChannel!Spec

=============================================================================
