---------------------------- MODULE KernelMemory ----------------------------
(***************************************************************************)
(* The memory of the kernel and of the libraries on top of the system      *)
(* memory (PagePool): Imalloc, Ifree (imalloc.c), and _mem_malloc,         *)
(* _mem_realloc, _mem_free (libtk), which cut areas out of pages.          *)
(*                                                                         *)
(* Imalloc and Ifree let go of MemLockObj to get and to release pages, so  *)
(* that calls overlap.  The library holds its lock over a whole call.      *)
(***************************************************************************)
EXTENDS AreaQueue, PagePool

CONSTANTS
  Allocator, \* the tasks that call Imalloc and Ifree
  Pagesz,    \* the size of a page; all sizes are as in AreaQueue
  Sizes,     \* the sizes asked for
  MaxLost,  \* bound: the blocks of pages lost with a task that was terminated
  MaxBlocks \* bound: the blocks of memory in use

ASSUME PageszAssumption == Pagesz \in Nat /\ Pagesz >= MIN_FRAGMENT + 2 * HEADER

VARIABLES
  imacb,  \* the kernel's areas and free areas, see AreaQueue
  macb,   \* the library's
  mem,    \* the blocks in use: [owner, at, size], size as it was asked for
  pc,     \* what each caller does while it does not hold the lock
  lostpgs \* the pages nobody knows of any more

memvars == <<pageque, freepage, imacb, macb, mem, pc, lostpgs>>

Ready == [at |-> "READY"]
Empty == [area |-> <<>>, free |-> <<>>]

(* init_Imalloc, _tkm_init *)
MemInit ==
  /\ PageInit
  /\ imacb = Empty /\ macb = Empty
  /\ mem = {} /\ lostpgs = {}
  /\ pc = [c \in Allocator |-> Ready]

PageCount(size) == (size + Pagesz - 1) \div Pagesz
PageAdr(pn) == (pn - 1) * Pagesz
PageNo(at) == at \div Pagesz + 1

FourthOfPage == Pagesz \div 4

(* n new pages at the address at, as one area with a header behind it. *)
NewPages(m, at, n) ==
  [m EXCEPT !.area = <<NewArea(at, n * Pagesz - 2 * HEADER, FALSE),
                       NewArea(at + n * Pagesz - HEADER, 0, TRUE)>> \o @]

(* AREA_END and AREA_TOP *)
IsEnd(m, i) == m.area[i].sz = 0
IsTop(m, i) == i = 1 \/ IsEnd(m, i - 1)

(* The area at is all there is in its pages. *)
WholePages(m, at) == LET i == Index(m, at) IN IsTop(m, i) /\ IsEnd(m, i + 1)
RemovePages(m, at) == LET i == Index(m, at) IN removeAreaQue(removeAreaQue(m, i + 1), i)

Block(owner, at, size) == [owner |-> owner, at |-> at, size |-> size]

-----------------------------------------------------------------------------
(* imalloc.c *)

(* A free area, or none: then the caller lets go of the lock. *)
imalloc(c, sz) ==
  LET size == roundSize(sz)
      i == searchFreeArea(imacb, size, FourthOfPage)
      at == Head(imacb.free[i])
  IN
  /\ pc[c] = Ready
  /\ IF i <= Len(imacb.free)
     THEN /\ imacb' = get_area(imacb, at, size, FourthOfPage)
          /\ mem' = mem \cup {Block("KERNEL", at, sz)}
          /\ UNCHANGED pc
     ELSE /\ pc' = [pc EXCEPT ![c] = [at |-> "GET", size |-> sz]]
          /\ UNCHANGED <<imacb, mem>>
  /\ UNCHANGED <<pageque, freepage, macb, lostpgs>>

PagesFor(sz) == PageCount(roundSize(sz) + 2 * HEADER)

imalloc_GetPages(c) ==
  /\ pc[c].at = "GET"
  /\ \E pn \in 0..MaxPage :
       /\ GetSysMemBlk(pn, PagesFor(pc[c].size))
       /\ pc' = [pc EXCEPT ![c] =
            IF pn = 0 THEN Ready ELSE [at |-> "ADD", pn |-> pn, size |-> pc[c].size]]
  /\ UNCHANGED <<imacb, macb, mem, lostpgs>>

(* Nobody looks again for an area that was freed in the meantime. *)
imalloc_AddPages(c) ==
  LET at == PageAdr(pc[c].pn)
      size == roundSize(pc[c].size)
  IN
  /\ pc[c].at = "ADD"
  /\ imacb' = mem_alloc(NewPages(imacb, at, PagesFor(pc[c].size)), at, size, FourthOfPage)
  /\ mem' = mem \cup {Block("KERNEL", at, pc[c].size)}
  /\ pc' = [pc EXCEPT ![c] = Ready]
  /\ UNCHANGED <<pageque, freepage, macb, lostpgs>>

(* With interrupts disabled (isDI) pages are kept. *)
ifree(c, b, isDI) ==
  LET r == coalesce(imacb, b.at)
  IN
  /\ pc[c] = Ready /\ b \in mem /\ b.owner = "KERNEL"
  /\ mem' = mem \ {b}
  /\ IF ~isDI /\ WholePages(r.m, r.at)
     THEN /\ imacb' = RemovePages(r.m, r.at)
          /\ pc' = [pc EXCEPT ![c] = [at |-> "REL", pn |-> PageNo(r.at)]]
     ELSE /\ imacb' = appendFreeArea(r.m, r.at, FourthOfPage)
          /\ UNCHANGED pc
  /\ UNCHANGED <<pageque, freepage, macb, lostpgs>>

ifree_RelPages(c) ==
  /\ pc[c].at = "REL"
  /\ RelSysMemBlk(pc[c].pn)
  /\ pc' = [pc EXCEPT ![c] = Ready]
  /\ UNCHANGED <<imacb, macb, mem, lostpgs>>

(* tk_ter_tsk of a caller that does not hold the lock; it may have pages.  *)
Terminated(c) ==
  /\ pc[c] # Ready /\ Cardinality(lostpgs) < MaxLost
  /\ pc' = [pc EXCEPT ![c] = Ready]
  /\ lostpgs' = IF pc[c].at = "GET" THEN lostpgs ELSE lostpgs \cup {pc[c].pn}
  /\ UNCHANGED <<pageque, freepage, imacb, macb, mem>>

-----------------------------------------------------------------------------
(* memalloc.c, with the pages in k.t: k is [m, t]. *)

LibK == [m |-> macb, t |-> PageT]
LibBecomes(k) ==
  /\ macb' = k.m /\ PageBecomes(k.t)
  /\ UNCHANGED <<imacb, pc, lostpgs>>

(* [at, k], where at is -1 if there is no memory. *)
_mem_malloc(k, sz) ==
  LET size == roundSize(sz)
      i == searchFreeArea(k.m, size, FourthOfPage)
      g == getPage(k.t, PagesFor(sz))
      top == PageAdr(g.pn)
  IN  IF i <= Len(k.m.free)
      THEN [at |-> Head(k.m.free[i]),
            k |-> [k EXCEPT !.m = get_area(@, Head(k.m.free[i]), size, FourthOfPage)]]
      ELSE IF g.pn = 0 THEN [at |-> -1, k |-> k]
      ELSE [at |-> top,
            k |-> [m |-> mem_alloc(NewPages(k.m, top, PagesFor(sz)), top, size, FourthOfPage),
                   t |-> g.t]]

_mem_free(k, at) ==
  LET r == coalesce(k.m, at)
  IN  IF WholePages(r.m, r.at)
      THEN [m |-> RemovePages(r.m, r.at), t |-> relPage(k.t, PageNo(r.at)).t]
      ELSE [k EXCEPT !.m = appendFreeArea(r.m, r.at, FourthOfPage)]

(* A larger block first takes in the free area behind it, for good if that *)
(* is enough; without memory the block gets its old size back.             *)
_mem_realloc(k, at, sz) ==
  LET size == roundSize(sz)
      oldsz == AreaSize(k.m, at)
      u == [k EXCEPT !.m = MergeNext(@, Index(@, at))]
      Cut(n) == [u EXCEPT !.m = mem_alloc(@, at, n, FourthOfPage)]
      r == _mem_malloc(u, sz)
  IN  IF size <= AreaSize(u.m, at) THEN [at |-> at, k |-> Cut(size)]
      ELSE IF r.at = -1 THEN [at |-> -1, k |-> Cut(oldsz)]
      ELSE [at |-> r.at, k |-> _mem_free(r.k, at)]

(* Kmalloc, Vmalloc, Smalloc *)
Malloc(sz) ==
  LET r == _mem_malloc(LibK, sz)
  IN  /\ LibBecomes(r.k)
      /\ mem' = IF r.at = -1 THEN mem ELSE mem \cup {Block("LIBRARY", r.at, sz)}

Realloc(b, sz) ==
  /\ b \in mem /\ b.owner = "LIBRARY"
  /\ \E r \in {_mem_realloc(LibK, b.at, sz)} :
       /\ LibBecomes(r.k)
       /\ mem' = IF r.at = -1 THEN mem ELSE (mem \ {b}) \cup {Block("LIBRARY", r.at, sz)}

Free(b) ==
  /\ b \in mem /\ b.owner = "LIBRARY"
  /\ LibBecomes(_mem_free(LibK, b.at))
  /\ mem' = mem \ {b}

(* memcheck.c: the areas of whole pages, each large enough, and ptr in use.*)
chkalloc(m, ptr) ==
  LET n == Len(m.area)
      InPage(i) == ~IsEnd(m, i)
  IN
  /\ n > 0 => ~IsEnd(m, 1) /\ IsEnd(m, n)
  /\ \A i \in 1..n : InPage(i) =>
       /\ i < n /\ m.area[i + 1].at - m.area[i].at = m.area[i].sz + HEADER
       /\ m.area[i].sz + HEADER >= 3
  /\ \A i \in 2..n : IsEnd(m, i) => ~IsEnd(m, i - 1)
  /\ ptr = -1 \/ \E i \in 1..n : m.area[i].at = ptr /\ m.area[i].used /\ InPage(i)

-----------------------------------------------------------------------------
MemMore == Cardinality(mem) + Cardinality({c \in Allocator : pc[c] # Ready}) < MaxBlocks

MemNext ==
  \/ \E c \in Allocator :
       \/ \E sz \in Sizes : MemMore /\ imalloc(c, sz)
       \/ imalloc_GetPages(c)
       \/ imalloc_AddPages(c)
       \/ \E b \in mem, isDI \in BOOLEAN : ifree(c, b, isDI)
       \/ ifree_RelPages(c)
       \/ Terminated(c)
  \/ \E sz \in Sizes : MemMore /\ Malloc(sz)
  \/ \E b \in mem, sz \in Sizes : Realloc(b, sz)
  \/ \E b \in mem : Free(b)

(* The first pages of the blocks that hold the areas of m. *)
Tops(m) == {PageNo(m.area[i].at) : i \in {j \in 1..Len(m.area) : IsTop(m, j)}}
InFlight == {pc[c].pn : c \in {x \in Allocator : pc[x].at \in {"ADD", "REL"}}}

(* Every page is free or with one owner. *)
PagesOwned ==
  LET used == {b.pn : b \in {x \in Blocks : x.use}}
  IN  /\ used = UNION {Tops(imacb), Tops(macb), InFlight, lostpgs}
      /\ Cardinality(used) = Cardinality(Tops(imacb)) + Cardinality(Tops(macb))
           + Cardinality({c \in Allocator : pc[c].at \in {"ADD", "REL"}}) + Cardinality(lostpgs)

(* The areas of m fill their pages, and those in use are the blocks that   *)
(* were given out, each as large as was asked for.                         *)
HeapExact(m, owner) ==
  /\ chkalloc(m, -1)
  /\ Coalesced(m) /\ FreeExact(m)
  /\ \A b \in Blocks : b.pn \in Tops(m) =>
       \E i \in 1..Len(m.area) : IsEnd(m, i) /\ m.area[i].at = PageAdr(b.pn + b.n) - HEADER
  /\ {m.area[i].at : i \in {j \in 1..Len(m.area) : m.area[j].used /\ ~IsEnd(m, j)}}
       = {b.at : b \in {x \in mem : x.owner = owner}}
  /\ \A b \in mem : b.owner = owner => AreaSize(m, b.at) >= b.size

(* Memory is conserved: every page is in a block, every block is free, with *)
(* a heap, or with a call that is about to add or to release it, and every *)
(* area of a heap is free or the memory somebody was given.                *)
MemoryConserved ==
  /\ PagesExact /\ PagesOwned
  /\ HeapExact(imacb, "KERNEL") /\ HeapExact(macb, "LIBRARY")

=============================================================================
