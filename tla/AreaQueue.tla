----------------------------- MODULE AreaQueue -----------------------------
(***************************************************************************)
(* The free areas of a piece of memory: the routines that mempool.c,       *)
(* imalloc.c and memalloc.c share word for word.                           *)
(*                                                                         *)
(* m.area is 'areaque', the areas in its order: at is the address of an    *)
(* area's header and sz its size without it.  m.free is 'freeque': for     *)
(* each size that occurs, in increasing order, the free areas of that size,*)
(* the one in the size-ordered queue first.  All sizes and addresses are in*)
(* units of sizeof(QUEUE), which is the size of a header.                  *)
(***************************************************************************)
EXTENDS Integers, SequencesExt

HEADER == 1
MIN_FRAGMENT == 2

roundSize(sz) == IF sz < MIN_FRAGMENT THEN MIN_FRAGMENT ELSE sz

NewArea(at, sz, used) == [at |-> at, sz |-> sz, used |-> used]

Index(m, at) == SelectInSeq(m.area, LAMBDA a : a.at = at)
AreaSize(m, at) == m.area[Index(m, at)].sz
FreeSize(m, i) == AreaSize(m, Head(m.free[i]))
MaxFreeSize(m) == IF m.free = <<>> THEN 0 ELSE FreeSize(m, Len(m.free))

(* The place in freeque of the smallest size that suffices, one past its   *)
(* end if there is none; sizes above limit are searched for from the larger*)
(* end, the others from the smaller one.                                   *)
searchFreeArea(m, sz, limit) ==
  LET n == Len(m.free)
      Down == {i \in 1..n : FreeSize(m, i) <= sz}
      j == IF Down = {} THEN 0 ELSE CHOOSE i \in Down : \A x \in Down : x <= i
      Up == {i \in 1..n : FreeSize(m, i) >= sz}
  IN  IF sz > limit
      THEN IF j # 0 /\ FreeSize(m, j) = sz THEN j ELSE j + 1
      ELSE IF Up = {} THEN n + 1 ELSE CHOOSE i \in Up : \A x \in Up : i <= x

appendFreeArea(m, at, limit) ==
  LET i == searchFreeArea(m, AreaSize(m, at), limit)
      u == [m EXCEPT !.area[Index(m, at)].used = FALSE]
  IN  IF i <= Len(m.free) /\ FreeSize(m, i) = AreaSize(m, at)
      THEN [u EXCEPT !.free[i] = Append(@, at)]
      ELSE [u EXCEPT !.free = InsertAt(@, i, <<at>>)]

(* Forgets the other areas of that size. *)
removeFreeQue_Group(m, at) ==
  [m EXCEPT !.free = SelectSeq(@, LAMBDA g : ~Contains(g, at))]

(* The next area of that size takes the place of the one that leaves. *)
removeFreeQue(m, at) ==
  [m EXCEPT !.free = SelectSeq([i \in 1..Len(@) |-> Remove(@[i], at)], LAMBDA g : g # <<>>)]

(* A header at the address at, inside or behind the area that is i-th. *)
insertAreaQue(m, i, at, sz) == [m EXCEPT !.area = InsertAt(@, i + 1, NewArea(at, sz, FALSE))]
removeAreaQue(m, i) == [m EXCEPT !.area = RemoveAt(@, i)]

(* Cut sz off the area at, which is in no queue of free areas; all of it,  *)
(* if the rest were too small.                                             *)
mem_alloc(m, at, sz, limit) ==
  LET i == Index(m, at)
      rest == m.area[i].sz - sz
      Split == insertAreaQue([m EXCEPT !.area[i].sz = sz], i, at + HEADER + sz, rest - HEADER)
  IN  [IF rest >= MIN_FRAGMENT + HEADER
       THEN appendFreeArea(Split, at + HEADER + sz, limit) ELSE m
       EXCEPT !.area[i].used = TRUE]

get_area(m, at, sz, limit) == mem_alloc(removeFreeQue(m, at), at, sz, limit)

(* The i-th area takes in the one behind it. *)
Merge(m, i) == removeAreaQue([m EXCEPT !.area[i].sz = @ + HEADER + m.area[i + 1].sz], i + 1)

MergeNext(m, i) ==
  IF m.area[i + 1].used THEN m ELSE Merge(removeFreeQue(m, m.area[i + 1].at), i)

(* The area at, free and merged with its free neighbours, the next one     *)
(* first, but in no queue of free areas: [m, at].                          *)
coalesce(m, at) ==
  LET i == Index(m, at)
      n == MergeNext([m EXCEPT !.area[i].used = FALSE], i)
  IN  IF i > 1 /\ ~n.area[i - 1].used
      THEN [m |-> Merge(removeFreeQue(n, n.area[i - 1].at), i - 1), at |-> n.area[i - 1].at]
      ELSE [m |-> n, at |-> at]

(* Give back the area at. *)
put_area(m, at, limit) == LET c == coalesce(m, at) IN appendFreeArea(c.m, c.at, limit)

(* The areas lie behind each other, no two free ones touch, and freeque    *)
(* has the free ones, ordered by size.                                     *)
Tiles(m) == \A i \in 1..Len(m.area) - 1 :
  m.area[i + 1].at = m.area[i].at + HEADER + m.area[i].sz
Coalesced(m) == \A i \in 1..Len(m.area) - 1 : m.area[i].used \/ m.area[i + 1].used
FreeExact(m) ==
  LET all == FlattenSeq(m.free) IN
  /\ \A i \in 1..Len(m.free) : m.free[i] # <<>>
  /\ IsInjective(all)
  /\ ToSet(all) = {m.area[i].at : i \in {j \in 1..Len(m.area) : ~m.area[j].used}}
  /\ \A i, j \in 1..Len(m.free) : i < j => FreeSize(m, i) < FreeSize(m, j)
  /\ \A i \in 1..Len(m.free) : \A x \in ToSet(m.free[i]) : AreaSize(m, x) = FreeSize(m, i)

=============================================================================
