------------------------------ MODULE PagePool ------------------------------
(***************************************************************************)
(* The system memory in pages (smpmemmgr.c): GetSysMemBlk, RelSysMemBlk.   *)
(* A block is marked at its first, its second and its last page; the marks *)
(* of the pages between are those of the blocks they were in before.  A    *)
(* call is a step: it runs under MemLock.                                  *)
(***************************************************************************)
EXTENDS Integers, SequencesExt

CONSTANT MaxPage \* maxpage, the pages of the system

ASSUME MaxPageAssumption == MaxPage \in Nat \ {0}

VARIABLES
  pageque, \* the marks of each page, and the free queue as that of page 0
  freepage \* the number of free pages

PageT == [q |-> pageque, freepage |-> freepage]

E_PAR == -17
E_OK == 0

_clrPageQue == [cont |-> FALSE, use |-> FALSE, next |-> 0, prev |-> 0]

NumOfPages(q, pn) == IF q[pn].cont THEN q[pn + 1].next ELSE 1

(* The second and the last page of a block of n pages. *)
Marks(pn, n) == (IF n > 1 THEN {pn + 1} ELSE {}) \cup (IF n > 2 THEN {pn + n - 1} ELSE {})
SetMarks(q, pn, n, u) ==
  [i \in DOMAIN q |->
     IF i = pn THEN [q[i] EXCEPT !.use = u, !.cont = n > 1]
     ELSE IF i \in Marks(pn, n) THEN [use |-> u, cont |-> TRUE, next |-> n, prev |-> 0]
     ELSE q[i]]

insertPageQue(q, que, ent) ==
  [[q EXCEPT ![ent].prev = q[que].prev, ![ent].next = que]
     EXCEPT ![q[que].prev].next = ent, ![que].prev = ent]

removePageQue(q, ent) ==
  IF q[ent].next = ent THEN q
  ELSE [q EXCEPT ![q[ent].prev].next = q[ent].next, ![q[ent].next].prev = q[ent].prev]

(* The smallest free block that suffices, or 0. *)
searchFreeQue(q, n) ==
  LET From[pn \in DOMAIN q] ==
        IF pn = 0 \/ NumOfPages(q, pn) >= n THEN pn ELSE From[q[pn].next]
  IN  From[q[0].next]

appendFreePages(q, pn, n) ==
  LET m == SetMarks(q, pn, n, FALSE)
  IN  insertPageQue(m, searchFreeQue(m, n), pn)

(* initPageQue last: the page is in no queue. *)
setUsePages(q, pn, n) ==
  [SetMarks(q, pn, n, TRUE) EXCEPT ![pn].next = pn, ![pn].prev = pn]

PageInit ==
  /\ pageque = appendFreePages([pn \in 0..MaxPage |-> _clrPageQue], 1, MaxPage)
  /\ freepage = MaxPage

(* A block of nblk pages: [pn, t], where pn is 0 if there is none. *)
getPage(t, nblk) ==
  LET pn == searchFreeQue(t.q, nblk)
      free == NumOfPages(t.q, pn) - nblk
      use == setUsePages(removePageQue(t.q, pn), pn, nblk)
  IN  IF pn = 0 THEN [pn |-> 0, t |-> t]
      ELSE [pn |-> pn,
            t |-> [q |-> IF free > 0 THEN appendFreePages(use, pn + nblk, free) ELSE use,
                   freepage |-> t.freepage - nblk]]

(* Page 0 is the free queue.  The variant forgets the first page. *)
FreeBefore_NotFirst(q, pn) == pn > 2 /\ ~q[pn - 1].use
FreeBefore(q, pn) == pn > 1 /\ ~q[pn - 1].use

(* The block before is found by the mark of its last page only. *)
PagesBefore(q, pn) == IF q[pn - 1].cont THEN q[pn - 1].next ELSE 1

relPage(t, pn) ==
  LET free == NumOfPages(t.q, pn)
      nextfree == pn + free <= MaxPage /\ ~t.q[pn + free].use
      q1 == IF nextfree THEN removePageQue(t.q, pn + free) ELSE t.q
      n1 == IF nextfree THEN free + NumOfPages(t.q, pn + free) ELSE free
      prevfree == FreeBefore(q1, pn)
      n2 == PagesBefore(q1, pn)
      q2 == [removePageQue(q1, pn - n2) EXCEPT ![pn].use = FALSE]
  IN  IF ~t.q[pn].use THEN [ercd |-> E_PAR, t |-> t]
      ELSE [ercd |-> free,
            t |-> [q |-> IF prevfree THEN appendFreePages(q2, pn - n2, n1 + n2)
                         ELSE appendFreePages(q1, pn, n1),
                   freepage |-> t.freepage + free]]

PageBecomes(t) == pageque' = t.q /\ freepage' = t.freepage

(* Every caller releases what it was given, and once. *)
GetSysMemBlk(pn, nblk) ==
  LET g == getPage(PageT, nblk) IN pn = g.pn /\ PageBecomes(g.t)
RelSysMemBlk(pn) ==
  LET r == relPage(PageT, pn) IN r.ercd >= E_OK /\ PageBecomes(r.t)
RefSysMemInfo == [total |-> MaxPage, free |-> freepage]

-----------------------------------------------------------------------------
(* The blocks, one behind the other from page 1. *)
Blocks ==
  LET At[pn \in 1..MaxPage + 1] ==
        IF pn > MaxPage THEN {}
        ELSE LET n == NumOfPages(pageque, pn)
             IN  {[pn |-> pn, n |-> n, use |-> pageque[pn].use]}
                   \cup IF pn + n <= MaxPage + 1 THEN At[pn + n] ELSE {}
  IN  At[1]

(* The blocks lie behind each other in all pages, two free ones never touch*)
(* and the queue has the free ones, forwards and backwards, by size.       *)
PagesExact ==
  LET Free == {b \in Blocks : ~b.use}
  IN
  /\ \A b \in Blocks : b.pn + b.n <= MaxPage + 1
  /\ \A b, c \in Free : b.pn + b.n # c.pn
  /\ freepage = FoldSet(LAMBDA b, n : b.n + n, 0, Free)
  /\ \A b \in Free :
       LET nx == pageque[b.pn].next
           pv == pageque[b.pn].prev
       IN  /\ nx = 0 \/ \E c \in Free : c.pn = nx /\ c.n >= b.n
           /\ pageque[nx].prev = b.pn /\ pageque[pv].next = b.pn
  /\ pageque[0].next = 0 <=> Free = {}

=============================================================================
