---------------------------- MODULE MemoryPool ----------------------------
(***************************************************************************)
(* Variable size memory pools (mempool.c).  A block is an area of the pool,*)
(* and a task may wait for one of its size.                                *)
(***************************************************************************)
EXTENDS Wait, AreaQueue

CONSTANTS
  MplId,   \* the pools
  MplAtrs, \* the attributes they are created with: [tpri, nodiswai]
  Mplszs,  \* the pool sizes, rounded, see AreaQueue
  Blkszs   \* the block sizes asked for

VARIABLE mplcb \* the pools: NOEXS, or [atr, mplsz, area, free]

MplK == [tcb |-> tcb, wq |-> waitq, mpl |-> mplcb]
MplBecomes(k) == tcb' = k.tcb /\ waitq' = k.wq /\ mplcb' = k.mpl

MplInit == mplcb = [p \in MplId |-> NOEXS]

MplQueue(p) == <<"MPL", p>>

(* The sizes that searchFreeArea looks for from the larger end. *)
Limit(b) == b.mplsz \div 4

(* The area of the pool and, in use, the header behind it. *)
init_mempool(b) ==
  LET m == [b EXCEPT !.area = <<NewArea(0, b.mplsz, FALSE), NewArea(HEADER + b.mplsz, 0, TRUE)>>]
  IN  appendFreeArea(m, 0, Limit(b))

(* The pool with a block taken, or as it was if there is none. *)
get_blk(b, blksz) ==
  LET i == searchFreeArea(b, blksz, Limit(b))
  IN  IF i > Len(b.free) THEN b
      ELSE get_area(b, Head(b.free[i]), blksz, Limit(b))

rel_blk(b, at) == put_area(b, at, Limit(b))

(* As long as the largest free area suffices the head of the queue. *)
mpl_wakeup(k, p) ==
  LET Give(r, t) ==
        LET blksz == r.k.tcb[t].wait.blksz
        IN  IF r.stop \/ blksz > MaxFreeSize(r.k.mpl[p]) THEN [r EXCEPT !.stop = TRUE]
            ELSE [r EXCEPT !.k = [wait_release(r.k, t) EXCEPT !.mpl[p] = get_blk(@, blksz)]]
  IN  FoldLeft(Give, [k |-> k, stop |-> FALSE], k.wq[MplQueue(p)]).k

mpl_rel_wai(k, p) == mpl_wakeup(k, p)
mpl_chg_pri(k, p, t) == mpl_wakeup(gcb_change_priority(k, t, MplQueue(p)), p)

_tk_cre_mpl(p) == \E atr \in MplAtrs, mplsz \in Mplszs :
  /\ mplcb[p] = NOEXS
  /\ mplcb' = [mplcb EXCEPT ![p] =
       init_mempool([atr |-> atr, mplsz |-> mplsz, area |-> <<>>, free |-> <<>>])]
  /\ UNCHANGED <<tcb, waitq>>

_tk_del_mpl(p) ==
  /\ mplcb[p] # NOEXS
  /\ MplBecomes([wait_delete(MplK, MplQueue(p)) EXCEPT !.mpl[p] = NOEXS])

_tk_get_mpl(t, p, sz, tmout) ==
  LET blksz == roundSize(sz)
      b == mplcb[p]
      got == get_blk(b, blksz)
  IN
  /\ Caller(t) /\ b # NOEXS /\ blksz <= b.mplsz
  /\ ~is_diswai(MplK, t, "MPL", b.atr)
  /\ MplBecomes(
       IF gcb_top_of_wait_queue(MplK, t, MplQueue(p), b.atr) /\ got # b
       THEN [Returned(MplK, t) EXCEPT !.mpl[p] = got]
       ELSE gcb_make_wait(MplK, t,
              [kind |-> "MPL", id |-> p, timed |-> tmout, nodiswai |-> b.atr.nodiswai,
               blksz |-> blksz], b.atr))

(* Applications return only addresses they were given. *)
Blocks(b) == {b.area[i].at : i \in {j \in 1..Len(b.area) - 1 : b.area[j].used}}

_tk_rel_mpl(p) == mplcb[p] # NOEXS /\ \E at \in Blocks(mplcb[p]) :
  MplBecomes(mpl_wakeup([MplK EXCEPT !.mpl[p] = rel_blk(@, at)], p))

_tk_ref_mpl(p) ==
  [wtsk |-> wait_tskid(MplK, MplQueue(p)), maxsz |-> MaxFreeSize(mplcb[p]),
   frsz |-> SumFunction([i \in DOMAIN mplcb[p].free |-> FreeSize(mplcb[p], i) * Len(mplcb[p].free[i])])]
_td_mpl_que(p) == waitq[MplQueue(p)]

MplNext == \E p \in MplId :
  \/ _tk_cre_mpl(p)
  \/ _tk_del_mpl(p)
  \/ \E t \in Task, sz \in Blkszs, tmout \in Tmos : _tk_get_mpl(t, p, sz, tmout)
  \/ _tk_rel_mpl(p)

(* The head of the queue needs more than any free area has.                *)
MplNobodyWaits == \A p \in MplId : mplcb[p] # NOEXS =>
  LET q == waitq[MplQueue(p)]
  IN  q # <<>> => tcb[Head(q)].wait.blksz > MaxFreeSize(mplcb[p])

(* The areas are the pool, without a gap, an overlap or a free area that   *)
(* is lost.                                                                *)
MplBlocks == \A p \in MplId : mplcb[p] # NOEXS =>
  LET b == mplcb[p] IN
  /\ b.area[1].at = 0 /\ b.area[Len(b.area)] = NewArea(HEADER + b.mplsz, 0, TRUE)
  /\ Tiles(b) /\ Coalesced(b) /\ FreeExact(b)

=============================================================================
