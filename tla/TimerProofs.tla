----------------------------- MODULE TimerProofs -----------------------------
(***************************************************************************)
(* The timer queue and the queues of handlers, for every number of         *)
(* processors, handlers and tasks.                                         *)
(*                                                                         *)
(* The calls of Timer compute the next state step by step, as a record k;  *)
(* the invariant KInv is therefore about such a record, and there is one   *)
(* lemma for each step.  A loop of handler_execution that is between two   *)
(* handlers is neither requested nor running: KInv counts it among the     *)
(* ended ones, e, until it takes the next handler.                         *)
(***************************************************************************)
EXTENDS Timer, FiniteSetTheorems, SequenceTheorems, WellFoundedInduction, TLAPS

-----------------------------------------------------------------------------
(* Sequences without repetition: what enters, leaves or stays *)

(* r is q with o put at the place i; r is q without its element i.         *)
Puts(q, r, i, o) ==
  /\ i \in 1..(Len(q) + 1) /\ Len(r) = Len(q) + 1
  /\ \A j \in 1..(Len(q) + 1) : r[j] = IF j < i THEN q[j] ELSE IF j = i THEN o ELSE q[j - 1]

Takes(q, r, i) ==
  /\ i \in 1..Len(q) /\ Len(r) = Len(q) - 1
  /\ \A j \in 1..(Len(q) - 1) : r[j] = IF j < i THEN q[j] ELSE q[j + 1]

LEMMA InsertAtPuts ==
  ASSUME NEW S, NEW q \in Seq(S), NEW i \in 1..Len(q), NEW o \in S
  PROVE  InsertAt(q, i, o) \in Seq(S) /\ Puts(q, InsertAt(q, i, o), i, o)
<1> DEFINE a == SubSeq(q, 1, i - 1)
           b == SubSeq(q, i, Len(q))
           u == <<o>>
<1>1. a \in Seq(S) /\ Len(a) = i - 1 /\ \A j \in 1..(i - 1) : a[j] = q[j]
  OBVIOUS
<1>2. b \in Seq(S) /\ Len(b) = Len(q) - i + 1 /\ \A j \in 1..(Len(q) - i + 1) : b[j] = q[i + j - 1]
  OBVIOUS
<1>3. u \in Seq(S) /\ Len(u) = 1 /\ u[1] = o
  OBVIOUS
<1>4. InsertAt(q, i, o) = a \o u \o b
  BY DEF InsertAt
<1> HIDE DEF a, b, u
<1> DEFINE c == a \o u
<1>5. c \in Seq(S) /\ Len(c) = i /\ \A j \in 1..i : c[j] = IF j < i THEN q[j] ELSE o
  <2>1. /\ c \in Seq(S) /\ Len(c) = Len(a) + Len(u)
        /\ \A j \in 1..(Len(a) + Len(u)) : c[j] = IF j <= Len(a) THEN a[j] ELSE u[j - Len(a)]
    BY <1>1, <1>3, ConcatProperties
  <2> HIDE DEF c
  <2> SUFFICES ASSUME NEW j \in 1..i PROVE c[j] = IF j < i THEN q[j] ELSE o
    BY <1>1, <1>3, <2>1
  <2>2. CASE j < i
    BY <1>1, <1>3, <2>1, <2>2
  <2>3. CASE j = i
    BY <1>1, <1>3, <2>1, <2>3
  <2> QED BY <2>2, <2>3
<1> HIDE DEF c
<1> DEFINE r == c \o b
<1>6. r \in Seq(S) /\ Len(r) = Len(q) + 1
      /\ \A j \in 1..(Len(q) + 1) : r[j] = IF j <= i THEN c[j] ELSE b[j - i]
  <2>1. /\ r \in Seq(S) /\ Len(r) = Len(c) + Len(b)
        /\ \A j \in 1..(Len(c) + Len(b)) : r[j] = IF j <= Len(c) THEN c[j] ELSE b[j - Len(c)]
    BY <1>2, <1>5, ConcatProperties
  <2>2. Len(c) + Len(b) = Len(q) + 1
    BY <1>2, <1>5
  <2> HIDE DEF r
  <2> QED BY <1>5, <2>1, <2>2
<1>7. InsertAt(q, i, o) = r
  BY <1>4 DEF c
<1> HIDE DEF r
<1>8. \A j \in 1..(Len(q) + 1) : r[j] = IF j < i THEN q[j] ELSE IF j = i THEN o ELSE q[j - 1]
  <2> SUFFICES ASSUME NEW j \in 1..(Len(q) + 1)
               PROVE  r[j] = IF j < i THEN q[j] ELSE IF j = i THEN o ELSE q[j - 1]
    OBVIOUS
  <2>1. CASE j <= i
    BY <1>5, <1>6, <2>1
  <2>2. CASE j > i
    <3>1. j - i \in 1..(Len(q) - i + 1) /\ i + (j - i) - 1 = j - 1
      BY <2>2
    <3>2. b[j - i] = q[j - 1]
      BY <1>2, <3>1
    <3> QED BY <1>6, <2>2, <3>2
  <2> QED BY <2>1, <2>2
<1> QED BY <1>6, <1>7, <1>8 DEF Puts

LEMMA AppendPuts ==
  ASSUME NEW S, NEW q \in Seq(S), NEW o \in S
  PROVE  Append(q, o) \in Seq(S) /\ Puts(q, Append(q, o), Len(q) + 1, o)
<1>1. Len(q) \in Nat
  OBVIOUS
<1> QED BY <1>1 DEF Puts

LEMMA PutInSet ==
  ASSUME NEW S, NEW q \in Seq(S), NEW r \in Seq(S), NEW i, NEW o, Puts(q, r, i, o),
         IsInjective(q), o \notin Range(q)
  PROVE  IsInjective(r) /\ Range(r) = Range(q) \cup {o}
<1>0. Len(q) \in Nat /\ DOMAIN q = 1..Len(q) /\ DOMAIN r = 1..(Len(q) + 1) /\ i \in 1..(Len(q) + 1)
  BY DEF Puts
<1> DEFINE Old(j) == IF j < i THEN j ELSE j - 1
<1>1. \A j \in DOMAIN r : j # i => Old(j) \in DOMAIN q /\ r[j] = q[Old(j)]
  BY <1>0 DEF Puts
<1>2. r[i] = o
  BY <1>0 DEF Puts
<1>3. \A j \in DOMAIN q : q[j] # o
  BY DEF Range
<1>4. IsInjective(r)
  <2> SUFFICES ASSUME NEW x \in DOMAIN r, NEW y \in DOMAIN r, r[x] = r[y] PROVE x = y
    BY DEF IsInjective
  <2>1. CASE x = i \/ y = i
    BY <1>1, <1>2, <1>3, <2>1
  <2>2. CASE x # i /\ y # i
    <3>1. Old(x) = Old(y)
      BY <1>1, <2>2 DEF IsInjective
    <3> QED BY <1>0, <2>2, <3>1
  <2> QED BY <2>1, <2>2
<1>5. ASSUME NEW x \in Range(r) PROVE x \in Range(q) \cup {o}
  <2>1. PICK j \in DOMAIN r : x = r[j]
    BY <1>5 DEF Range
  <2> QED BY <1>1, <1>2, <2>1 DEF Range
<1>6. ASSUME NEW x \in Range(q) PROVE x \in Range(r)
  <2>1. PICK j \in DOMAIN q : x = q[j]
    BY <1>6 DEF Range
  <2>2. PICK n \in DOMAIN r : n # i /\ Old(n) = j
    <3>1. CASE j < i
      BY <1>0, <3>1
    <3>2. CASE j >= i
      <4>1. j + 1 \in DOMAIN r /\ j + 1 # i /\ Old(j + 1) = j
        BY <1>0, <3>2
      <4> QED BY <4>1
    <3> QED BY <1>0, <3>1, <3>2
  <2> QED BY <1>1, <2>1, <2>2 DEF Range
<1>7. o \in Range(r)
  BY <1>0, <1>2 DEF Range
<1> QED BY <1>4, <1>5, <1>6, <1>7

(* The minimum of a set of indices.                                        *)
LEMMA MinOf ==
  ASSUME NEW n \in Nat, NEW S, S \subseteq 1..n, S # {}
  PROVE  Min(S) \in S /\ \A r \in S : Min(S) <= r
<1> DEFINE Below(k) == {j \in S : j <= k}
           T == {Below(k) : k \in S}
           R == StrictSubsetOrdering(1..n)
<1>1. IsWellFoundedOn(R, SUBSET (1..n))
  <2>1. FiniteSubsetsOf(1..n) = SUBSET (1..n)
    <3>1. IsFiniteSet(1..n)
      BY FS_Interval
    <3> QED BY <3>1, FS_FiniteSubsetsOfFinite
  <2> QED BY <2>1, FS_StrictSubsetOrderingWellFounded
<1>2. T \subseteq SUBSET (1..n) /\ T # {}
  OBVIOUS
<1>3. PICK x \in T : \A y \in T : ~(<<y, x>> \in R)
  <2> HIDE DEF T, R
  <2> QED BY <1>1, <1>2, WFMin
<1>4. PICK k \in S : x = Below(k)
  OBVIOUS
<1>5. ASSUME NEW j \in S, j < k
      PROVE  FALSE
  <2>1. k \in Below(k) /\ k \notin Below(j)
    BY <1>5
  <2>2. Below(j) \subseteq Below(k)
    <3>1. \A i \in S : i <= j => i <= k
      <4>1. S \subseteq Int
        OBVIOUS
      <4> QED BY <4>1, <1>5
    <3> QED BY <3>1
  <2>3. <<Below(j), Below(k)>> \in R
    BY <2>1, <2>2 DEF StrictSubsetOrdering
  <2> QED BY <1>3, <1>4, <2>3
<1>6. \A j \in S : k <= j
  BY <1>5
<1> QED BY <1>6 DEF Min

(* The elements of r stand in the order in which they stand in q.          *)
Keeps(q, r) ==
  \A i, j \in DOMAIN r : i < j => \E x, y \in DOMAIN q : x < y /\ r[i] = q[x] /\ r[j] = q[y]

LEMMA RemoveFirstTakes ==
  ASSUME NEW S, NEW q \in Seq(S), NEW o \in Range(q)
  PROVE  /\ RemoveFirst(q, o) \in Seq(S)
         /\ \E i \in 1..Len(q) : q[i] = o /\ Takes(q, RemoveFirst(q, o), i)
<1> DEFINE I == {i \in 1..Len(q) : q[i] = o}
           m == Min(I)
<1>1. I # {} /\ I \subseteq 1..Len(q) /\ Len(q) \in Nat
  BY DEF Range
<1>2. m \in I
  <2> HIDE DEF I
  <2> QED BY <1>1, MinOf
<1>3. SelectInSeq(q, LAMBDA v : v = o) = m
  BY <1>1 DEF SelectInSeq
<1>4. m \in 1..Len(q) /\ q[m] = o
  BY <1>2
<1>5. RemoveFirst(q, o) = RemoveAt(q, m)
  BY <1>3, <1>4 DEF RemoveFirst
<1> HIDE DEF m
<1> DEFINE a == SubSeq(q, 1, m - 1)
           b == SubSeq(q, m + 1, Len(q))
<1>6. a \in Seq(S) /\ Len(a) = m - 1 /\ \A j \in 1..(m - 1) : a[j] = q[j]
  BY <1>4
<1>7. b \in Seq(S) /\ Len(b) = Len(q) - m /\ \A j \in 1..(Len(q) - m) : b[j] = q[m + j]
  BY <1>4
<1>8. RemoveFirst(q, o) = a \o b
  BY <1>5 DEF RemoveAt
<1> HIDE DEF a, b
<1> DEFINE r == a \o b
<1>9. r \in Seq(S) /\ Len(r) = Len(q) - 1
      /\ \A j \in 1..(Len(q) - 1) : r[j] = IF j < m THEN a[j] ELSE b[j - m + 1]
  BY <1>4, <1>6, <1>7
<1> HIDE DEF r
<1>10. \A j \in 1..(Len(q) - 1) : r[j] = IF j < m THEN q[j] ELSE q[j + 1]
  <2> SUFFICES ASSUME NEW j \in 1..(Len(q) - 1) PROVE r[j] = IF j < m THEN q[j] ELSE q[j + 1]
    OBVIOUS
  <2>1. CASE j < m
    BY <1>4, <1>6, <1>9, <2>1
  <2>2. CASE j >= m
    <3>1. j - m + 1 \in 1..(Len(q) - m) /\ m + (j - m + 1) = j + 1
      BY <1>4, <2>2
    <3>2. b[j - m + 1] = q[j + 1]
      BY <1>7, <3>1
    <3> QED BY <1>4, <1>9, <2>2, <3>2
  <2> QED BY <1>4, <2>1, <2>2
<1> QED BY <1>4, <1>8, <1>9, <1>10 DEF Takes, r

LEMMA RemovedSet ==
  ASSUME NEW S, NEW q \in Seq(S), NEW o, IsInjective(q)
  PROVE  /\ RemoveFirst(q, o) \in Seq(S) /\ IsInjective(RemoveFirst(q, o))
         /\ Range(RemoveFirst(q, o)) = Range(q) \ {o}
         /\ Keeps(q, RemoveFirst(q, o))
<1>1. CASE o \notin Range(q)
  <2>1. RemoveFirst(q, o) = q
    BY <1>1 DEF RemoveFirst, Range
  <2> QED BY <1>1, <2>1 DEF Keeps
<1>2. CASE o \in Range(q)
  <2>0. PICK r : r = RemoveFirst(q, o)
    OBVIOUS
  <2>1. r \in Seq(S) /\ \E i \in 1..Len(q) : q[i] = o /\ Takes(q, r, i)
    BY <1>2, <2>0, RemoveFirstTakes
  <2>2. PICK i \in 1..Len(q) : q[i] = o /\ Takes(q, r, i)
    BY <2>1
  <2>3. Len(q) \in Nat /\ DOMAIN q = 1..Len(q) /\ DOMAIN r = 1..(Len(q) - 1)
    BY <2>1, <2>2 DEF Takes
  <2> DEFINE Old(j) == IF j < i THEN j ELSE j + 1
  <2>4. \A j \in DOMAIN r : Old(j) \in DOMAIN q /\ Old(j) # i /\ r[j] = q[Old(j)]
    BY <2>2, <2>3 DEF Takes
  <2>5. \A j, n \in DOMAIN r : (Old(j) = Old(n) => j = n) /\ (j < n => Old(j) < Old(n))
    BY <2>3
  <2>6. \A n \in DOMAIN q : n # i => \E j \in DOMAIN r : Old(j) = n
    <3> SUFFICES ASSUME NEW n \in DOMAIN q, n # i PROVE \E j \in DOMAIN r : Old(j) = n
      OBVIOUS
    <3>1. CASE n < i
      BY <2>3, <3>1
    <3>2. CASE n > i
      <4>1. n - 1 \in DOMAIN r /\ Old(n - 1) = n
        BY <2>3, <3>2
      <4> QED BY <4>1
    <3> QED BY <2>3, <3>1, <3>2
  <2> HIDE DEF Old
  <2>7. IsInjective(r)
    BY <2>4, <2>5 DEF IsInjective
  <2>8. Range(r) \subseteq Range(q) \ {o}
    <3> SUFFICES ASSUME NEW j \in DOMAIN r PROVE r[j] \in Range(q) /\ r[j] # o
      BY DEF Range
    <3> QED BY <2>2, <2>3, <2>4 DEF Range, IsInjective
  <2>9. Range(q) \ {o} \subseteq Range(r)
    <3> SUFFICES ASSUME NEW n \in DOMAIN q, q[n] # o PROVE q[n] \in Range(r)
      BY DEF Range
    <3>1. PICK j \in DOMAIN r : Old(j) = n
      BY <2>2, <2>6
    <3> QED BY <2>4, <3>1 DEF Range
  <2>10. Keeps(q, r)
    <3> SUFFICES ASSUME NEW x \in DOMAIN r, NEW y \in DOMAIN r, x < y
                 PROVE  \E n, m \in DOMAIN q : n < m /\ r[x] = q[n] /\ r[y] = q[m]
      BY DEF Keeps
    <3> QED BY <2>4, <2>5
  <2> QED BY <2>0, <2>1, <2>7, <2>8, <2>9, <2>10
<1> QED BY <1>1, <1>2

(* Cardinalities of where something stands in a sequence. *)
LEMMA Counted ==
  ASSUME NEW q, IsInjective(q), NEW o
  PROVE  Cardinality({i \in DOMAIN q : q[i] = o}) = IF o \in Range(q) THEN 1 ELSE 0
<1> DEFINE I == {i \in DOMAIN q : q[i] = o}
<1>1. CASE o \in Range(q)
  <2>1. PICK i : I = {i}
    BY <1>1 DEF Range, IsInjective
  <2> QED BY <1>1, <2>1, FS_Singleton
<1>2. CASE o \notin Range(q)
  <2>1. I = {}
    BY <1>2 DEF Range
  <2> QED BY <1>2, <2>1, FS_EmptySet
<1> QED BY <1>1, <1>2

LEMMA EmptySet ==
  ASSUME NEW S, NEW q \in Seq(S), q # <<>>
  PROVE  Range(q) # {}
<1>1. 1 \in DOMAIN q
  OBVIOUS
<1> QED BY <1>1 DEF Range

(* InOrder lists the elements at the places in M, each once. *)
LEMMA InOrderSet ==
  ASSUME NEW S, NEW q \in Seq(S), IsInjective(q), NEW M \in SUBSET DOMAIN q
  PROVE  /\ InOrder(q, M) \in Seq({q[i] : i \in M})
         /\ IsInjective(InOrder(q, M))
         /\ Range(InOrder(q, M)) = {q[i] : i \in M}
<1> DEFINE C == Cardinality(M)
           Upto(i) == {j \in M : j <= i}
           f == [i \in M |-> Cardinality(Upto(i))]
           at(n) == CHOOSE i \in M : Cardinality(Upto(i)) = n
           r == InOrder(q, M)
<1>1. M \subseteq Int /\ IsFiniteSet(M)
  <2>1. M \subseteq 1..Len(q) /\ Len(q) \in Int
    OBVIOUS
  <2>2. IsFiniteSet(1..Len(q))
    BY <2>1, FS_Interval
  <2> QED BY <2>1, <2>2, FS_Subset
<1>2. C \in Nat
  BY <1>1, FS_CardinalityType
<1>3. \A i \in M : IsFiniteSet(Upto(i)) /\ Cardinality(Upto(i)) \in 1..C
  <2> SUFFICES ASSUME NEW i \in M PROVE IsFiniteSet(Upto(i)) /\ Cardinality(Upto(i)) \in 1..C
    OBVIOUS
  <2>1. Upto(i) \in SUBSET M /\ Upto(i) # {}
    BY <1>1
  <2> HIDE DEF Upto
  <2>2. IsFiniteSet(Upto(i)) /\ Cardinality(Upto(i)) <= C
    BY <1>1, <2>1, FS_Subset
  <2>3. Cardinality(Upto(i)) \in Nat /\ Cardinality(Upto(i)) # 0
    BY <2>1, <2>2, FS_CardinalityType, FS_EmptySet
  <2> HIDE DEF C
  <2> QED BY <1>2, <2>2, <2>3
<1>4. f \in Injection(M, 1..C)
  <2>1. f \in [M -> 1..C]
    BY <1>3
  <2>2. ASSUME NEW i \in M, NEW j \in M, f[i] = f[j], i < j PROVE FALSE
    <3>1. Upto(i) \in SUBSET Upto(j)
      BY <1>1, <2>2
    <3>2. Upto(i) = Upto(j)
      BY <1>3, <2>2, <3>1, FS_Subset
    <3>3. j \in Upto(j) /\ j \notin Upto(i)
      BY <1>1, <2>2
    <3> QED BY <3>2, <3>3
  <2>3. \A i, j \in M : i = j \/ i < j \/ j < i
    BY <1>1
  <2>4. IsInjective(f)
    BY <2>2, <2>3 DEF IsInjective
  <2> QED BY <2>1, <2>4 DEF Injection
<1>5. f \in Surjection(M, 1..C)
  <2>1. IsFiniteSet(1..C) /\ Cardinality(1..C) = C
    BY <1>2, FS_Interval
  <2> HIDE DEF f
  <2> QED BY <1>4, <2>1, FS_Injection
<1>6. \A n \in 1..C : at(n) \in M /\ Cardinality(Upto(at(n))) = n
  <2> SUFFICES ASSUME NEW n \in 1..C PROVE at(n) \in M /\ Cardinality(Upto(at(n))) = n
    OBVIOUS
  <2>1. \E i \in M : Cardinality(Upto(i)) = n
    BY <1>5 DEF Surjection
  <2> HIDE DEF Upto
  <2> QED BY <2>1
<1>7. \A i \in M : \E n \in 1..C : at(n) = i
  <2> SUFFICES ASSUME NEW i \in M PROVE \E n \in 1..C : at(n) = i
    OBVIOUS
  <2>1. f[i] \in 1..C /\ at(f[i]) \in M /\ f[at(f[i])] = f[i]
    BY <1>3, <1>6
  <2> HIDE DEF at, f
  <2>2. at(f[i]) = i
    BY <1>4, <2>1 DEF Injection, IsInjective
  <2> QED BY <2>1, <2>2
<1>8. r = [n \in 1..C |-> q[at(n)]]
  BY DEF InOrder
<1> HIDE DEF at, r
<1>9. r \in Seq({q[i] : i \in M}) /\ DOMAIN r = 1..C /\ \A n \in 1..C : r[n] = q[at(n)]
  <2>1. \A n \in 1..C : q[at(n)] \in {q[i] : i \in M}
    BY <1>6
  <2> DEFINE E == {q[i] : i \in M}
  <2> HIDE DEF C, E
  <2>2. r \in Seq(E)
    BY <1>2, <1>8, <2>1 DEF E
  <2> QED BY <1>8, <2>2 DEF E
<1>10. IsInjective(r)
  <2> SUFFICES ASSUME NEW n \in 1..C, NEW m \in 1..C, r[n] = r[m] PROVE n = m
    BY <1>9 DEF IsInjective
  <2>1. at(n) = at(m)
    BY <1>6, <1>9 DEF IsInjective
  <2> QED BY <1>6, <2>1
<1>11. Range(r) = {q[i] : i \in M}
  <2>1. ASSUME NEW n \in 1..C PROVE r[n] \in {q[i] : i \in M}
    BY <1>6, <1>9
  <2>2. ASSUME NEW i \in M PROVE q[i] \in Range(r)
    <3>1. PICK n \in 1..C : at(n) = i
      BY <1>7
    <3> QED BY <1>9, <3>1 DEF Range
  <2> QED BY <1>9, <2>1, <2>2 DEF Range
<1> QED BY <1>9, <1>10, <1>11 DEF r

-----------------------------------------------------------------------------
(* The invariant, of a record k *)

HandlerQueue == [upd : BOOLEAN, act : BOOLEAN, hdrque : Seq(Handler)]
ControlBlocks ==
  {f \in [Handler -> CycCB \cup AlmCB \cup {NOEXS}] :
     /\ \A c \in Cyc : f[c] # NOEXS => f[c] \in CycCB
     /\ \A a \in Alm : f[a] # NOEXS => f[a] \in AlmCB}

KType ==
  [now : Int, tq : Seq(Object), time : [Object -> Int], hq : [Proc -> HandlerQueue],
   cb : ControlBlocks, no : [Handler -> Nat], exec : [Proc -> Executions \cup {Idle}],
   imm : [Proc -> Instances \cup {Idle}], ipi : SUBSET Proc]

(* The handlers of S, and no others, have their event in a queue: in one.  *)
Queue(hq, p) == Range(hq[p].hdrque)
Queued(tq, hq, o) == o \in Range(tq) \/ \E p \in Proc : o \in Queue(hq, p)

QueuedOnce(tq, hq, S) ==
  /\ IsInjective(tq) /\ \A p \in Proc : IsInjective(hq[p].hdrque)
  /\ \A p \in Proc : Range(tq) \cap Queue(hq, p) = {}
  /\ \A p, q \in Proc : p # q => Queue(hq, p) \cap Queue(hq, q) = {}
  /\ \A h \in Handler : h \in S <=> Queued(tq, hq, h)

(* What is in the timer queue is to come, in the order of the times.       *)
Timely(tq, tm, now) ==
  /\ \A o \in Range(tq) : tm[o] > now
  /\ \A i, j \in DOMAIN tq : i < j => tm[tq[i]] <= tm[tq[j]]

(* act says that a loop is requested, runs or has ended in e; it is only   *)
(* one of these.  And a queue that is not empty is served, or looked at.   *)
Served(hq, int, exe, e) == \A p \in Proc :
  /\ hq[p].act <=> p \in int \/ exe[p] # Idle \/ p \in e
  /\ ~(p \in int /\ exe[p] # Idle) /\ ~(p \in int /\ p \in e) /\ ~(exe[p] # Idle /\ p \in e)
  /\ hq[p].hdrque # <<>> => hq[p].act \/ hq[p].upd

Looked(k) == \A p \in Proc : ~k.hq[p].upd

(* See AlarmAlone. *)
Alone(exe, im) == \A p, q \in Proc, a \in Alm :
  LET Runs(x) == exe[x] # Idle /\ exe[x].inst.hdr = a
  IN  /\ p # q /\ Runs(p) /\ Runs(q) => exe[p].inst # exe[q].inst
      /\ im[p] # Idle /\ im[p].hdr = a =>
           /\ Runs(q) => exe[q].inst # im[p]
           /\ p # q => im[p] # im[q]

(* A handler of today's block runs, in its queue's processor if it is not  *)
(* called at once, and its flags say so.                                   *)
Known(cb, no, inst) ==
  /\ inst.no <= no[inst.hdr]
  /\ inst.no = no[inst.hdr] => cb[inst.hdr] # NOEXS

Place(cb, a) == IF cb[a].assprc = Idle THEN TimerProc ELSE cb[a].assprc
Today(no, h) == [hdr |-> h, no |-> no[h]]

Remembered(cb, no, exe, im) == \A p \in Proc :
  /\ exe[p] # Idle => Known(cb, no, exe[p].inst)
  /\ im[p] # Idle => Known(cb, no, im[p])

Placed(hq, cb, no, exe, im) == \A p \in Proc, a \in Alm :
  /\ a \in Queue(hq, p) => p = Place(cb, a)
  /\ exe[p] # Idle /\ exe[p].inst = Today(no, a) => "RUN" \in cb[a].stat /\ p = Place(cb, a)
  /\ im[p] # Idle /\ im[p] = Today(no, a) =>
       cb[a].assprc = Idle /\ {"RUN", "IMM"} \subseteq cb[a].stat /\ "STA" \notin cb[a].stat

KInv(k, e, S) ==
  /\ k \in KType /\ e \subseteq Proc
  /\ QueuedOnce(k.tq, k.hq, S)
  /\ Timely(k.tq, k.time, k.now)
  /\ Served(k.hq, k.ipi, k.exec, e)
  /\ Alone(k.exec, k.imm)
  /\ Remembered(k.cb, k.no, k.exec, k.imm)
  /\ Placed(k.hq, k.cb, k.no, k.exec, k.imm)

StartedIn(k) == {h \in Handler : k.cb[h] # NOEXS /\ "STA" \in k.cb[h].stat}

Full(k, e) == KInv(k, e, StartedIn(k))

TimerInv == Full(K, ended) /\ Looked(K)

Same(r, k, F) == \A f \in F : r[f] = k[f]

-----------------------------------------------------------------------------
(* Steps of the queues *)

(* An object leaves the queue it may be in; it enters the timer queue.     *)
LEMMA Leaves ==
  ASSUME NEW tq \in Seq(Object), NEW hq \in [Proc -> HandlerQueue], NEW S, NEW o,
         QueuedOnce(tq, hq, S),
         NEW t \in Seq(Object), IsInjective(t), Range(t) = Range(tq) \ {o},
         NEW g, \A p \in Proc : IsInjective(g[p].hdrque) /\ Queue(g, p) = Queue(hq, p) \ {o}
  PROVE  QueuedOnce(t, g, S \ {o})
<1>1. \A h \in Handler : h \in S \ {o} <=> Queued(t, g, h)
  BY DEF QueuedOnce, Queued
<1>2. \A p \in Proc : Range(t) \cap Queue(g, p) = {}
  BY DEF QueuedOnce
<1>3. \A p, q \in Proc : p # q => Queue(g, p) \cap Queue(g, q) = {}
  BY DEF QueuedOnce
<1> QED BY <1>1, <1>2, <1>3 DEF QueuedOnce

LEMMA EntersTimer ==
  ASSUME NEW tq \in Seq(Object), NEW hq, NEW S, NEW o, ~Queued(tq, hq, o),
         QueuedOnce(tq, hq, S),
         NEW t, IsInjective(t), Range(t) = Range(tq) \cup {o}
  PROVE  QueuedOnce(t, hq, S \cup ({o} \cap Handler))
<1>1. \A h \in Handler : h \in S \cup ({o} \cap Handler) <=> Queued(t, hq, h)
  BY DEF QueuedOnce, Queued
<1>2. \A p \in Proc : Range(t) \cap Queue(hq, p) = {}
  BY DEF QueuedOnce, Queued
<1> QED BY <1>1, <1>2 DEF QueuedOnce

LEMMA EntersHandlers ==
  ASSUME NEW tq, NEW hq, NEW S, NEW h \in Handler, ~Queued(tq, hq, h), QueuedOnce(tq, hq, S),
         NEW p \in Proc, NEW g, IsInjective(g[p].hdrque), Queue(g, p) = Queue(hq, p) \cup {h},
         \A q \in Proc : q # p => g[q].hdrque = hq[q].hdrque
  PROVE  QueuedOnce(tq, g, S \cup {h})
<1>0. \A q \in Proc : q # p => Queue(g, q) = Queue(hq, q)
  BY DEF Queue
<1>1. \A x \in Handler : x \in S \cup {h} <=> Queued(tq, g, x)
  BY <1>0 DEF QueuedOnce, Queued
<1>2. \A q \in Proc : Range(tq) \cap Queue(g, q) = {}
  BY <1>0 DEF QueuedOnce, Queued
<1>3. \A x, y \in Proc : x # y => Queue(g, x) \cap Queue(g, y) = {}
  BY <1>0 DEF QueuedOnce, Queued
<1>4. \A q \in Proc : IsInjective(g[q].hdrque)
  BY DEF QueuedOnce
<1> QED BY <1>1, <1>2, <1>3, <1>4 DEF QueuedOnce

(* The queues are what they were, but for upd and act. *)
LEMMA QueuesStay ==
  ASSUME NEW tq, NEW hq, NEW g, NEW S, NEW cb, NEW no, NEW exe, NEW im,
         \A p \in Proc : g[p].hdrque = hq[p].hdrque
  PROVE  /\ QueuedOnce(tq, hq, S) => QueuedOnce(tq, g, S)
         /\ Placed(hq, cb, no, exe, im) => Placed(g, cb, no, exe, im)
<1>1. \A p \in Proc : Queue(g, p) = Queue(hq, p)
  BY DEF Queue
<1>2. \A o : Queued(tq, g, o) <=> Queued(tq, hq, o)
  BY <1>1 DEF Queued
<1>3. QueuedOnce(tq, hq, S) => QueuedOnce(tq, g, S)
  BY <1>1, <1>2 DEF QueuedOnce
<1>4. Placed(hq, cb, no, exe, im) => Placed(g, cb, no, exe, im)
  BY <1>1 DEF Placed
<1> QED BY <1>3, <1>4

LEMMA TimelyKept ==
  ASSUME NEW tq, NEW tm, NEW now, Timely(tq, tm, now), NEW t, Keeps(tq, t),
         Range(t) \subseteq Range(tq)
  PROVE  Timely(t, tm, now)
<1>1. \A o \in Range(t) : tm[o] > now
  BY DEF Timely
<1>2. \A i, j \in DOMAIN t : i < j => tm[t[i]] <= tm[t[j]]
  <2> SUFFICES ASSUME NEW i \in DOMAIN t, NEW j \in DOMAIN t, i < j PROVE tm[t[i]] <= tm[t[j]]
    OBVIOUS
  <2>1. PICK x, y \in DOMAIN tq : x < y /\ t[i] = tq[x] /\ t[j] = tq[y]
    BY DEF Keeps
  <2> QED BY <2>1 DEF Timely
<1> QED BY <1>1, <1>2 DEF Timely

(* The event of o takes its place among those of the timer queue: behind   *)
(* those that are not later.                                               *)
LEMMA TimelyPut ==
  ASSUME NEW tq \in Seq(Object), NEW tm \in [Object -> Int], NEW now \in Int, Timely(tq, tm, now),
         NEW o \in Object, o \notin Range(tq), NEW x \in Int, x > now,
         NEW t \in Seq(Object), NEW i, Puts(tq, t, i, o),
         Range(t) = Range(tq) \cup {o},
         \A j \in 1..Len(tq) : (j < i => tm[tq[j]] <= x) /\ (j >= i => x <= tm[tq[j]])
  PROVE  Timely(t, [tm EXCEPT ![o] = x], now)
<1> DEFINE new == [tm EXCEPT ![o] = x]
<1>0. Len(tq) \in Nat /\ DOMAIN tq = 1..Len(tq) /\ DOMAIN t = 1..(Len(tq) + 1) /\ i \in 1..(Len(tq) + 1)
  BY DEF Puts
<1>1. new[o] = x /\ \A j \in 1..Len(tq) : new[tq[j]] = tm[tq[j]] /\ tm[tq[j]] \in Int
  <2>1. \A j \in 1..Len(tq) : tq[j] \in Object /\ tq[j] # o
    BY <1>0 DEF Range
  <2> QED BY <2>1
<1>2. \A y \in Range(t) : new[y] > now
  <2> SUFFICES ASSUME NEW y \in Range(tq) PROVE new[y] > now
    BY <1>1
  <2>1. PICK j \in 1..Len(tq) : y = tq[j]
    BY <1>0 DEF Range
  <2> QED BY <1>1, <2>1 DEF Timely
<1>3. t[i] = o
  BY <1>0 DEF Puts
<1> HIDE DEF new
<1> DEFINE Old(j) == IF j < i THEN j ELSE j - 1
<1>4. \A j \in DOMAIN t : j # i => Old(j) \in 1..Len(tq) /\ t[j] = tq[Old(j)]
  BY SMTT(30), <1>0 DEF Puts
<1>5. \A j, n \in DOMAIN t : j < n => new[t[j]] <= new[t[n]]
  <2> SUFFICES ASSUME NEW j \in DOMAIN t, NEW n \in DOMAIN t, j < n PROVE new[t[j]] <= new[t[n]]
    OBVIOUS
  <2>1. CASE j = i
    <3>1. n # i /\ Old(n) >= i /\ Old(n) \in 1..Len(tq) /\ t[n] = tq[Old(n)]
      BY <1>0, <1>4, <2>1
    <3> QED BY <1>1, <1>3, <2>1, <3>1
  <2>2. CASE n = i
    <3>1. j # i /\ Old(j) < i /\ Old(j) \in 1..Len(tq) /\ t[j] = tq[Old(j)]
      BY <1>0, <1>4, <2>2
    <3> QED BY <1>1, <1>3, <2>2, <3>1
  <2>3. CASE j # i /\ n # i
    <3>1. /\ Old(j) \in 1..Len(tq) /\ t[j] = tq[Old(j)]
          /\ Old(n) \in 1..Len(tq) /\ t[n] = tq[Old(n)] /\ Old(j) < Old(n)
      <4>1. Old(j) \in 1..Len(tq) /\ t[j] = tq[Old(j)]
        BY <1>4, <2>3
      <4>2. Old(n) \in 1..Len(tq) /\ t[n] = tq[Old(n)]
        BY <1>4, <2>3
      <4>3. Old(j) < Old(n)
        BY SMTT(30), <1>0, <2>3
      <4> QED BY <4>1, <4>2, <4>3
    <3>2. tm[tq[Old(j)]] <= tm[tq[Old(n)]]
      BY <1>0, <3>1 DEF Timely
    <3> QED BY <1>1, <3>1, <3>2
  <2> QED BY <2>1, <2>2, <2>3
<1> QED BY <1>2, <1>5 DEF Timely, new

-----------------------------------------------------------------------------
(* Steps of the record *)

LEMMA KFields ==
  ASSUME NEW k \in KType
  PROVE  /\ k.now \in Int /\ k.tq \in Seq(Object) /\ k.time \in [Object -> Int]
         /\ k.hq \in [Proc -> HandlerQueue] /\ k.cb \in ControlBlocks
         /\ k.no \in [Handler -> Nat] /\ k.exec \in [Proc -> Executions \cup {Idle}]
         /\ k.imm \in [Proc -> Instances \cup {Idle}] /\ k.ipi \subseteq Proc
BY DEF KType

(* A record whose field f is v.                                            *)
LEMMA OneField ==
  ASSUME NEW k \in KType
  PROVE  /\ \A v \in [Object -> Int] : LET r == [k EXCEPT !.time = v] IN
              r \in KType /\ r.time = v /\ Same(r, k, {"now", "tq", "hq", "cb", "no", "exec", "imm", "ipi"})
         /\ \A v \in [Proc -> HandlerQueue] : LET r == [k EXCEPT !.hq = v] IN
              r \in KType /\ r.hq = v /\ Same(r, k, {"now", "tq", "time", "cb", "no", "exec", "imm", "ipi"})
         /\ \A v \in ControlBlocks : LET r == [k EXCEPT !.cb = v] IN
              r \in KType /\ r.cb = v /\ Same(r, k, {"now", "tq", "time", "hq", "no", "exec", "imm", "ipi"})
         /\ \A v \in [Proc -> Executions \cup {Idle}] : LET r == [k EXCEPT !.exec = v] IN
              r \in KType /\ r.exec = v /\ Same(r, k, {"now", "tq", "time", "hq", "cb", "no", "imm", "ipi"})
         /\ \A v \in [Proc -> Instances \cup {Idle}] : LET r == [k EXCEPT !.imm = v] IN
              r \in KType /\ r.imm = v /\ Same(r, k, {"now", "tq", "time", "hq", "cb", "no", "exec", "ipi"})
         /\ \A v \in SUBSET Proc : LET r == [k EXCEPT !.ipi = v] IN
              r \in KType /\ r.ipi = v /\ Same(r, k, {"now", "tq", "time", "hq", "cb", "no", "exec", "imm"})
BY DEF KType, Same

(* Lines of a record that are lines of another. *)
LEMMA Unmoved ==
  ASSUME NEW k, NEW r, NEW e, NEW S, KInv(k, e, S), r \in KType
  PROVE  /\ Same(r, k, {"tq", "hq"}) => QueuedOnce(r.tq, r.hq, S)
         /\ Same(r, k, {"tq", "time", "now"}) => Timely(r.tq, r.time, r.now)
         /\ Same(r, k, {"hq", "ipi", "exec"}) => Served(r.hq, r.ipi, r.exec, e)
         /\ Same(r, k, {"exec", "imm"}) => Alone(r.exec, r.imm)
         /\ Same(r, k, {"cb", "no", "exec", "imm"}) => Remembered(r.cb, r.no, r.exec, r.imm)
         /\ Same(r, k, {"hq", "cb", "no", "exec", "imm"}) => Placed(r.hq, r.cb, r.no, r.exec, r.imm)
BY DEF KInv, Same

Rest == {"hq", "cb", "no", "exec", "imm", "ipi"}
Still == {"now", "tq", "time", "cb", "no"}

(* timer_insert_abs: the time of an event that is in no queue. *)
LEMMA Inserted ==
  ASSUME NEW k, NEW e, NEW S, KInv(k, e, S), NEW o \in Object, ~Queued(k.tq, k.hq, o),
         NEW tm \in Int, tm > k.now
  PROVE  LET r == timer_insert_abs(k, o, tm)
         IN  /\ KInv(r, e, S \cup ({o} \cap Handler))
             /\ Same(r, k, {"now"}) /\ Same(r, k, Rest) /\ r.time = [k.time EXCEPT ![o] = tm]
<1> DEFINE I == {j \in 1..Len(k.tq) : tm < k.time[k.tq[j]]}
           i == SelectInSeq(k.tq, LAMBDA x : tm < k.time[x])
           new == IF i = 0 THEN Append(k.tq, o) ELSE InsertAt(k.tq, i, o)
           nt == [k.time EXCEPT ![o] = tm]
           r == timer_insert_abs(k, o, tm)
<1>0. k \in KType
  BY DEF KInv
<1>1. /\ k.now \in Int /\ k.tq \in Seq(Object) /\ k.time \in [Object -> Int]
      /\ Len(k.tq) \in Nat /\ DOMAIN k.tq = 1..Len(k.tq)
  BY <1>0, KFields
<1>2. i = IF I # {} THEN Min(I) ELSE 0
  BY DEF SelectInSeq
<1>3. I # {} => i \in I /\ \A j \in I : i <= j
  <2>1. I \subseteq 1..Len(k.tq)
    OBVIOUS
  <2> HIDE DEF I, i
  <2> QED BY <1>1, <1>2, <2>1, MinOf
<1>4. I = {} => i = 0
  BY <1>2
<1>5. r = [k EXCEPT !.time = nt, !.tq = new]
  BY <1>0 DEF timer_insert_abs, KType
<1>6. i # 0 => i \in 1..Len(k.tq) /\ i \in I
  BY <1>3, <1>4
<1> DEFINE n == IF i = 0 THEN Len(k.tq) + 1 ELSE i
<1>7. n \in 1..(Len(k.tq) + 1) /\ \A j \in 1..Len(k.tq) : (j < n => j \notin I) /\ (j >= n => n \in I)
  <2> HIDE DEF I, i
  <2>1. CASE I = {}
    BY <1>1, <1>4, <2>1
  <2>2. CASE I # {}
    <3>1. i \in I /\ i \in 1..Len(k.tq) /\ i # 0
      BY <1>1, <1>3, <2>2 DEF I
    <3> QED BY <1>1, <1>3, <3>1
  <2> QED BY <2>1, <2>2
<1>8. new \in Seq(Object) /\ Puts(k.tq, new, n, o)
  <2> HIDE DEF I, i
  <2>1. CASE i = 0
    BY <1>1, <2>1, AppendPuts
  <2>2. CASE i # 0
    <3>1. InsertAt(k.tq, i, o) \in Seq(Object) /\ Puts(k.tq, InsertAt(k.tq, i, o), i, o)
      BY <1>1, <1>6, <2>2, InsertAtPuts
    <3> QED BY <2>2, <3>1
  <2> QED BY <2>1, <2>2
<1>9. \A j \in 1..Len(k.tq) : k.tq[j] \in Object /\ k.time[k.tq[j]] \in Int
  BY <1>1
<1>10. \A j \in 1..Len(k.tq) : (j < n => k.time[k.tq[j]] <= tm) /\ (j >= n => tm <= k.time[k.tq[j]])
  <2> HIDE DEF i, n
  <2> SUFFICES ASSUME NEW j \in 1..Len(k.tq)
               PROVE  (j < n => k.time[k.tq[j]] <= tm) /\ (j >= n => tm <= k.time[k.tq[j]])
    OBVIOUS
  <2>1. CASE j < n
    BY <1>1, <1>7, <1>9, <2>1
  <2>2. CASE j >= n
    <3>1. n \in 1..Len(k.tq) /\ tm < k.time[k.tq[n]]
      BY <1>7, <2>2
    <3>2. n < j => k.time[k.tq[n]] <= k.time[k.tq[j]]
      BY <1>1, <3>1 DEF KInv, Timely
    <3>3. k.time[k.tq[n]] \in Int /\ k.time[k.tq[j]] \in Int
      BY <1>9, <3>1
    <3>4. n = j \/ n < j
      BY <1>1, <2>2, <3>1
    <3> QED BY <1>1, <2>2, <3>1, <3>2, <3>3, <3>4
  <2> QED BY <1>1, <1>7, <2>1, <2>2
<1> HIDE DEF n, new, I, i
<1>11. nt \in [Object -> Int]
  BY <1>1
<1> HIDE DEF nt
<1>12. r \in KType /\ r.tq = new /\ r.time = nt /\ Same(r, k, {"now"}) /\ Same(r, k, Rest)
  BY <1>0, <1>5, <1>8, <1>11 DEF KType, Same, Rest
<1> HIDE DEF r
<1>13. o \notin Range(k.tq)
  BY DEF Queued
<1>14. IsInjective(new) /\ Range(new) = Range(k.tq) \cup {o}
  BY <1>1, <1>8, <1>13, PutInSet DEF KInv, QueuedOnce
<1>15. QueuedOnce(new, k.hq, S \cup ({o} \cap Handler))
  BY <1>1, <1>14, EntersTimer DEF KInv
<1>16. Timely(new, nt, k.now)
  <2>1. Timely(k.tq, k.time, k.now)
    BY DEF KInv
  <2> QED BY <1>1, <1>8, <1>10, <1>13, <1>14, <2>1, TimelyPut DEF nt
<1>17. r.hq = k.hq /\ r.now = k.now
  BY <1>12 DEF Same, Rest
<1>18. Same(r, k, {"hq", "ipi", "exec"}) /\ Same(r, k, {"exec", "imm"})
       /\ Same(r, k, {"cb", "no", "exec", "imm"}) /\ Same(r, k, {"hq", "cb", "no", "exec", "imm"})
  BY <1>12 DEF Same, Rest
<1>19. KInv(r, e, S \cup ({o} \cap Handler))
  <2>1. e \subseteq Proc
    BY DEF KInv
  <2>2. /\ Served(r.hq, r.ipi, r.exec, e) /\ Alone(r.exec, r.imm)
        /\ Remembered(r.cb, r.no, r.exec, r.imm) /\ Placed(r.hq, r.cb, r.no, r.exec, r.imm)
    BY <1>12, <1>18, Unmoved
  <2> QED BY <1>12, <1>15, <1>16, <1>17, <2>1, <2>2 DEF KInv
<1> QED BY <1>12, <1>19 DEF r, nt

(* timer_delete: the event leaves the queue it is in. *)
LEMMA Deleted ==
  ASSUME NEW k, NEW e, NEW S, KInv(k, e, S), NEW o
  PROVE  LET r == timer_delete(k, o)
         IN  /\ KInv(r, e, S \ {o}) /\ ~Queued(r.tq, r.hq, o)
             /\ Same(r, k, {"now", "time", "cb", "no", "exec", "imm", "ipi"})
             /\ Looked(k) => Looked(r)
<1> DEFINE nt == RemoveFirst(k.tq, o)
           nh == [p \in Proc |-> [k.hq[p] EXCEPT !.hdrque = RemoveFirst(@, o)]]
           r == timer_delete(k, o)
<1>0. k \in KType /\ QueuedOnce(k.tq, k.hq, S)
  BY DEF KInv
<1>1. k.tq \in Seq(Object) /\ k.hq \in [Proc -> HandlerQueue]
  BY <1>0, KFields
<1>2. nt \in Seq(Object) /\ IsInjective(nt) /\ Range(nt) = Range(k.tq) \ {o} /\ Keeps(k.tq, nt)
  BY <1>0, <1>1, RemovedSet DEF QueuedOnce
<1>3. ASSUME NEW p \in Proc
      PROVE  /\ nh[p] \in HandlerQueue /\ nh[p].upd = k.hq[p].upd /\ nh[p].act = k.hq[p].act
             /\ IsInjective(nh[p].hdrque) /\ Queue(nh, p) = Queue(k.hq, p) \ {o}
  <2> DEFINE q == k.hq[p].hdrque
  <2>1. k.hq[p] \in [upd : BOOLEAN, act : BOOLEAN, hdrque : Seq(Handler)]
    BY <1>1 DEF HandlerQueue
  <2>2. q \in Seq(Handler) /\ IsInjective(q)
    BY <1>0, <2>1 DEF QueuedOnce
  <2>3. /\ RemoveFirst(q, o) \in Seq(Handler) /\ IsInjective(RemoveFirst(q, o))
        /\ Range(RemoveFirst(q, o)) = Range(q) \ {o}
    BY <2>2, RemovedSet
  <2>4. nh[p] = [k.hq[p] EXCEPT !.hdrque = RemoveFirst(q, o)]
    OBVIOUS
  <2> HIDE DEF nh
  <2>5. nh[p] \in HandlerQueue /\ nh[p].upd = k.hq[p].upd /\ nh[p].act = k.hq[p].act
        /\ nh[p].hdrque = RemoveFirst(q, o)
    BY <2>1, <2>3, <2>4 DEF HandlerQueue
  <2> QED BY <2>3, <2>5 DEF Queue
<1>4. r = [k EXCEPT !.tq = nt, !.hq = nh]
  BY <1>0 DEF timer_delete, KType
<1>5. nh \in [Proc -> HandlerQueue]
  BY <1>3
<1> HIDE DEF nt, nh
<1>6. /\ r \in KType /\ r.tq = nt /\ r.hq = nh
      /\ Same(r, k, {"now", "time", "cb", "no", "exec", "imm", "ipi"})
  BY <1>0, <1>2, <1>4, <1>5 DEF KType, Same
<1> HIDE DEF r
<1>7. QueuedOnce(nt, nh, S \ {o})
  BY <1>0, <1>1, <1>2, <1>3, Leaves
<1>8. Timely(r.tq, r.time, r.now)
  <2>1. Timely(k.tq, k.time, k.now)
    BY DEF KInv
  <2>2. Timely(nt, k.time, k.now)
    BY <1>2, <2>1, TimelyKept
  <2> QED BY <1>6, <2>2 DEF Same
<1>9. Served(r.hq, r.ipi, r.exec, e)
  <2>1. Served(k.hq, k.ipi, k.exec, e)
    BY DEF KInv
  <2>2. \A p \in Proc : nh[p].hdrque # <<>> => k.hq[p].hdrque # <<>>
    <3> SUFFICES ASSUME NEW p \in Proc, nh[p].hdrque # <<>> PROVE k.hq[p].hdrque # <<>>
      OBVIOUS
    <3>1. Queue(nh, p) # {}
      <4>1. nh[p].hdrque \in Seq(Handler)
        BY <1>5 DEF HandlerQueue
      <4> QED BY <4>1, EmptySet DEF Queue
    <3>2. Queue(k.hq, p) # {}
      BY <1>3, <3>1
    <3> QED BY <3>2 DEF Queue, Range
  <2>3. r.ipi = k.ipi /\ r.exec = k.exec
    BY <1>6 DEF Same
  <2> QED BY <1>3, <1>6, <2>1, <2>2, <2>3 DEF Served
<1>10. Placed(r.hq, r.cb, r.no, r.exec, r.imm)
  <2>1. Placed(k.hq, k.cb, k.no, k.exec, k.imm)
    BY DEF KInv
  <2>2. r.cb = k.cb /\ r.no = k.no /\ r.exec = k.exec /\ r.imm = k.imm
    BY <1>6 DEF Same
  <2>3. \A p \in Proc, a \in Alm : a \in Queue(nh, p) => a \in Queue(k.hq, p)
    BY <1>3
  <2> QED BY <1>6, <2>1, <2>2, <2>3 DEF Placed
<1>11. Alone(r.exec, r.imm) /\ Remembered(r.cb, r.no, r.exec, r.imm)
  <2>1. Same(r, k, {"exec", "imm"}) /\ Same(r, k, {"cb", "no", "exec", "imm"})
    BY <1>6 DEF Same
  <2> QED BY <1>6, <2>1, Unmoved
<1>12. KInv(r, e, S \ {o})
  <2>1. e \subseteq Proc
    BY DEF KInv
  <2> QED BY <1>6, <1>7, <1>8, <1>9, <1>10, <1>11, <2>1 DEF KInv
<1>13. ~Queued(r.tq, r.hq, o)
  BY <1>2, <1>3, <1>6 DEF Queued
<1>14. Looked(k) => Looked(r)
  BY <1>3, <1>6 DEF Looked
<1> QED BY <1>6, <1>12, <1>13, <1>14 DEF r

(* The time of an event that is not in the timer queue. *)
LEMMA Retimed ==
  ASSUME NEW k, NEW e, NEW S, KInv(k, e, S), NEW o \in Object, o \notin Range(k.tq), NEW x \in Int
  PROVE  LET r == [k EXCEPT !.time[o] = x]
         IN  /\ KInv(r, e, S) /\ r.time = [k.time EXCEPT ![o] = x]
             /\ Same(r, k, {"now", "tq"}) /\ Same(r, k, Rest)
<1> DEFINE nt == [k.time EXCEPT ![o] = x]
           r == [k EXCEPT !.time[o] = x]
<1>0. k \in KType
  BY DEF KInv
<1>1. k.tq \in Seq(Object) /\ k.time \in [Object -> Int] /\ nt \in [Object -> Int]
  BY <1>0, KFields
<1>2. r = [k EXCEPT !.time = nt]
  BY <1>0 DEF KType
<1> HIDE DEF nt, r
<1>3. r \in KType /\ r.time = nt /\ Same(r, k, {"now", "tq"}) /\ Same(r, k, Rest)
  <2>1. r \in KType /\ r.time = nt /\ Same(r, k, {"now", "tq", "hq", "cb", "no", "exec", "imm", "ipi"})
    BY <1>0, <1>1, <1>2, OneField
  <2> QED BY <2>1 DEF Same, Rest
<1>4. \A i \in DOMAIN k.tq : nt[k.tq[i]] = k.time[k.tq[i]]
  <2>1. \A i \in DOMAIN k.tq : k.tq[i] \in Object /\ k.tq[i] # o
    BY <1>1 DEF Range
  <2> QED BY <1>1, <2>1 DEF nt
<1>5. Timely(r.tq, r.time, r.now)
  <2>1. Timely(k.tq, k.time, k.now)
    BY DEF KInv
  <2>2. Timely(k.tq, nt, k.now)
    <3>1. \A y \in Range(k.tq) : nt[y] > k.now
      BY <1>4, <2>1 DEF Timely, Range
    <3> QED BY <1>4, <2>1, <3>1 DEF Timely
  <2> QED BY <1>3, <2>2 DEF Same
<1>6. KInv(r, e, S)
  <2>1. e \subseteq Proc
    BY DEF KInv
  <2>2. Same(r, k, {"tq", "hq"}) /\ Same(r, k, {"hq", "ipi", "exec"}) /\ Same(r, k, {"exec", "imm"})
        /\ Same(r, k, {"cb", "no", "exec", "imm"}) /\ Same(r, k, {"hq", "cb", "no", "exec", "imm"})
    BY <1>3 DEF Same, Rest
  <2> QED BY <1>3, <1>5, <2>1, <2>2, Unmoved DEF KInv
<1> QED BY <1>3, <1>6 DEF r, nt

(* enqueue_handler, of a handler whose event is in no queue. *)
LEMMA Enqueued ==
  ASSUME NEW k, NEW e, NEW S, KInv(k, e, S), NEW h \in Handler, ~Queued(k.tq, k.hq, h),
         NEW p \in Proc, h \in Alm => p = Place(k.cb, h)
  PROVE  LET r == enqueue_handler(k, p, h)
         IN  /\ KInv(r, e, S \cup {h})
             /\ Same(r, k, {"now", "tq", "time", "cb", "no", "exec", "imm", "ipi"})
<1> DEFINE q == Append(k.hq[p].hdrque, h)
           new == [k.hq[p] EXCEPT !.hdrque = q, !.upd = TRUE]
           nh == [k.hq EXCEPT ![p] = new]
           r == enqueue_handler(k, p, h)
<1>0. k \in KType /\ QueuedOnce(k.tq, k.hq, S)
  BY DEF KInv
<1>1. k.tq \in Seq(Object) /\ k.hq \in [Proc -> HandlerQueue]
  BY <1>0, KFields
<1>2. k.hq[p] \in [upd : BOOLEAN, act : BOOLEAN, hdrque : Seq(Handler)]
  BY <1>1 DEF HandlerQueue
<1>3. q \in Seq(Handler) /\ IsInjective(q) /\ Range(q) = Queue(k.hq, p) \cup {h}
  <2>1. k.hq[p].hdrque \in Seq(Handler) /\ IsInjective(k.hq[p].hdrque) /\ h \notin Range(k.hq[p].hdrque)
    BY <1>0, <1>2 DEF QueuedOnce, Queued, Queue
  <2> DEFINE a == k.hq[p].hdrque
  <2>2. Append(a, h) \in Seq(Handler) /\ Puts(a, Append(a, h), Len(a) + 1, h)
    BY <2>1, AppendPuts
  <2>3. a \in Seq(Handler) /\ IsInjective(a) /\ h \notin Range(a)
    BY <2>1
  <2> HIDE DEF a
  <2>4. IsInjective(Append(a, h)) /\ Range(Append(a, h)) = Range(a) \cup {h}
    <3> DEFINE b == Append(a, h)
               n == Len(a) + 1
    <3>1. b \in Seq(Handler) /\ Puts(a, b, n, h)
      BY <2>2
    <3> HIDE DEF b, n
    <3>2. IsInjective(b) /\ Range(b) = Range(a) \cup {h}
      BY <2>3, <3>1, PutInSet
    <3> QED BY <3>2 DEF b
  <2> QED BY <2>2, <2>4 DEF Queue, a
<1>4. r = [k EXCEPT !.hq = nh]
  BY <1>0, <1>1, <1>2 DEF enqueue_handler, KType
<1> HIDE DEF q
<1>5. new \in HandlerQueue /\ new.hdrque = q /\ new.upd = TRUE /\ new.act = k.hq[p].act
  BY <1>2, <1>3 DEF HandlerQueue
<1> HIDE DEF new
<1>6. nh \in [Proc -> HandlerQueue] /\ nh[p] = new /\ \A x \in Proc : x # p => nh[x] = k.hq[x]
  BY <1>1, <1>5
<1> HIDE DEF nh
<1>7. /\ r \in KType /\ r.hq = nh
      /\ Same(r, k, {"now", "tq", "time", "cb", "no", "exec", "imm", "ipi"})
  BY <1>0, <1>4, <1>6, OneField
<1> HIDE DEF r
<1>8. QueuedOnce(r.tq, nh, S \cup {h})
  <2>1. IsInjective(nh[p].hdrque) /\ Queue(nh, p) = Queue(k.hq, p) \cup {h}
    BY <1>3, <1>5, <1>6 DEF Queue
  <2>2. \A x \in Proc : x # p => nh[x].hdrque = k.hq[x].hdrque
    BY <1>6
  <2>3. r.tq = k.tq
    BY <1>7 DEF Same
  <2> QED BY <1>0, <2>1, <2>2, <2>3, EntersHandlers
<1>9. Served(r.hq, r.ipi, r.exec, e)
  <2>1. Served(k.hq, k.ipi, k.exec, e) /\ r.ipi = k.ipi /\ r.exec = k.exec
    BY <1>7 DEF KInv, Same
  <2> QED BY <1>5, <1>6, <1>7, <2>1 DEF Served
<1>10. Placed(r.hq, r.cb, r.no, r.exec, r.imm)
  <2>1. Placed(k.hq, k.cb, k.no, k.exec, k.imm)
    BY DEF KInv
  <2>2. r.cb = k.cb /\ r.no = k.no /\ r.exec = k.exec /\ r.imm = k.imm
    BY <1>7 DEF Same
  <2>3. \A x \in Proc, a \in Alm : a \in Queue(nh, x) => a \in Queue(k.hq, x) \/ (a = h /\ x = p)
    BY <1>3, <1>5, <1>6 DEF Queue
  <2> QED BY <1>7, <2>1, <2>2, <2>3 DEF Placed
<1>11. Timely(r.tq, r.time, r.now) /\ Alone(r.exec, r.imm) /\ Remembered(r.cb, r.no, r.exec, r.imm)
  <2>1. Same(r, k, {"tq", "time", "now"}) /\ Same(r, k, {"exec", "imm"})
        /\ Same(r, k, {"cb", "no", "exec", "imm"})
    BY <1>7 DEF Same
  <2> QED BY <1>7, <2>1, Unmoved
<1>12. KInv(r, e, S \cup {h})
  <2>1. e \subseteq Proc
    BY DEF KInv
  <2> QED BY <1>7, <1>8, <1>9, <1>10, <1>11, <2>1 DEF KInv
<1> QED BY <1>7, <1>12 DEF r

(* Control blocks: new flags, a new block, a block that is freed. *)
WithStat(k, h, s) == [k EXCEPT !.cb[h].stat = s]

LEMMA BlockTypes ==
  ASSUME NEW cb \in ControlBlocks, NEW h \in Handler, cb[h] # NOEXS, NEW s \in SUBSET Flags
  PROVE  /\ [cb EXCEPT ![h].stat = s] \in ControlBlocks
         /\ [cb EXCEPT ![h].stat = s][h] = [cb[h] EXCEPT !.stat = s]
         /\ [cb[h] EXCEPT !.stat = s] # NOEXS
         /\ [cb[h] EXCEPT !.stat = s].stat = s
         /\ [cb[h] EXCEPT !.stat = s].assprc = cb[h].assprc
         /\ h \in Cyc => [cb[h] EXCEPT !.stat = s].cyctim = cb[h].cyctim
         /\ cb[h].stat \subseteq Flags /\ cb[h].assprc \in Proc \cup {Idle}
         /\ h \in Cyc => cb[h] \in CycCB /\ cb[h].cyctim \in Nat \ {0}
         /\ h \in Alm => cb[h] \in AlmCB
<1>0. /\ cb \in [Handler -> CycCB \cup AlmCB \cup {NOEXS}]
      /\ \A c \in Cyc : cb[c] # NOEXS => cb[c] \in CycCB
      /\ \A a \in Alm : cb[a] # NOEXS => cb[a] \in AlmCB
  BY DEF ControlBlocks
<1> DEFINE b == [cb[h] EXCEPT !.stat = s]
           n == [cb EXCEPT ![h].stat = s]
<1>1. CASE h \in Cyc
  <2>1. cb[h] \in [assprc : Proc \cup {Idle}, phs : BOOLEAN, cyctim : Nat \ {0}, stat : SUBSET Flags]
    BY <1>0, <1>1 DEF CycCB
  <2>2. b \in CycCB /\ b.stat = s /\ b.assprc = cb[h].assprc /\ b.cyctim = cb[h].cyctim
    BY <2>1 DEF CycCB
  <2> HIDE DEF b
  <2>3. n = [cb EXCEPT ![h] = b]
    BY DEF b
  <2>4. n \in ControlBlocks /\ n[h] = b
    <3>1. h \notin Alm
      BY <1>1, TimerAssumption
    <3> HIDE DEF n
    <3>2. /\ n \in [Handler -> CycCB \cup AlmCB \cup {NOEXS}] /\ n[h] = b
          /\ \A x \in Handler : x # h => n[x] = cb[x]
      BY <1>0, <2>2, <2>3
    <3>3. \A c \in Cyc : n[c] # NOEXS => n[c] \in CycCB
      BY <1>0, <2>2, <2>3, <3>1, <3>2 DEF Handler
    <3>4. \A a \in Alm : n[a] # NOEXS => n[a] \in AlmCB
      BY <1>0, <2>2, <2>3, <3>1, <3>2 DEF Handler
    <3> QED BY <3>2, <3>3, <3>4 DEF ControlBlocks
  <2>5. b # NOEXS
    BY <2>2, NoneAssumption
  <2> QED BY <1>1, <2>1, <2>2, <2>4, <2>5, TimerAssumption DEF b, CycCB
<1>2. CASE h \in Alm
  <2>1. cb[h] \in [assprc : Proc \cup {Idle}, stat : SUBSET Flags]
    BY <1>0, <1>2 DEF AlmCB
  <2>2. b \in AlmCB /\ b.stat = s /\ b.assprc = cb[h].assprc
    BY <2>1 DEF AlmCB
  <2> HIDE DEF b
  <2>3. n = [cb EXCEPT ![h] = b]
    BY DEF b
  <2>4. h \notin Cyc
    BY <1>2, TimerAssumption
  <2>5. n \in ControlBlocks /\ n[h] = b
    <3> HIDE DEF n
    <3>2. /\ n \in [Handler -> CycCB \cup AlmCB \cup {NOEXS}] /\ n[h] = b
          /\ \A x \in Handler : x # h => n[x] = cb[x]
      BY <1>0, <2>2, <2>3
    <3>3. \A c \in Cyc : n[c] # NOEXS => n[c] \in CycCB
      BY <1>0, <2>2, <2>3, <2>4, <3>2 DEF Handler
    <3>4. \A a \in Alm : n[a] # NOEXS => n[a] \in AlmCB
      BY <1>0, <2>2, <2>3, <2>4, <3>2 DEF Handler
    <3> QED BY <3>2, <3>3, <3>4 DEF ControlBlocks
  <2>6. b # NOEXS
    BY <2>2, NoneAssumption
  <2> QED BY <2>1, <2>2, <2>4, <2>5, <2>6 DEF b, AlmCB
<1> QED BY <1>1, <1>2 DEF Handler

RunsIn(k, p, h) == k.exec[p] # Idle /\ k.exec[p].inst = Today(k.no, h)
RunsAtOnce(k, p, h) == k.imm[p] # Idle /\ k.imm[p] = Today(k.no, h)

LEMMA Restated ==
  ASSUME NEW k, NEW e, NEW S, KInv(k, e, S), NEW h \in Handler, k.cb[h] # NOEXS,
         NEW s \in SUBSET Flags,
         h \in Alm => \A p \in Proc :
           /\ RunsIn(k, p, h) => "RUN" \in s
           /\ RunsAtOnce(k, p, h) => {"RUN", "IMM"} \subseteq s /\ "STA" \notin s
  PROVE  LET r == WithStat(k, h, s)
         IN  /\ KInv(r, e, S)
             /\ Same(r, k, {"now", "tq", "time", "hq", "no", "exec", "imm", "ipi"})
             /\ r.cb[h] # NOEXS /\ r.cb[h].stat = s /\ r.cb[h].assprc = k.cb[h].assprc
             /\ h \in Cyc => r.cb[h].cyctim = k.cb[h].cyctim
             /\ \A x \in Handler \ {h} : r.cb[x] = k.cb[x]
<1> DEFINE nc == [k.cb EXCEPT ![h].stat = s]
           r == WithStat(k, h, s)
<1>0. k \in KType
  BY DEF KInv
<1>1. k.cb \in ControlBlocks /\ k.cb \in [Handler -> CycCB \cup AlmCB \cup {NOEXS}]
  BY <1>0, KFields DEF ControlBlocks
<1>2. /\ nc \in ControlBlocks /\ nc[h] # NOEXS /\ nc[h].stat = s /\ nc[h].assprc = k.cb[h].assprc
      /\ h \in Cyc => nc[h].cyctim = k.cb[h].cyctim
  BY ZenonT(40), <1>1, BlockTypes
<1>3. \A x \in Handler \ {h} : nc[x] = k.cb[x]
  BY <1>1
<1>4. r = [k EXCEPT !.cb = nc]
  BY <1>0 DEF WithStat, KType
<1> HIDE DEF nc, r
<1>5. r \in KType /\ r.cb = nc /\ Same(r, k, {"now", "tq", "time", "hq", "no", "exec", "imm", "ipi"})
  <2>1. LET v == [k EXCEPT !.cb = nc] IN
          v \in KType /\ v.cb = nc /\ Same(v, k, {"now", "tq", "time", "hq", "no", "exec", "imm", "ipi"})
    BY <1>0, <1>2, OneField
  <2> QED BY <1>4, <2>1
<1>6. r.hq = k.hq /\ r.no = k.no /\ r.exec = k.exec /\ r.imm = k.imm
  BY <1>5 DEF Same
<1>7. \A x \in Handler : nc[x] # NOEXS <=> k.cb[x] # NOEXS
  BY <1>2, <1>3
<1>8. \A x \in Handler : Place(nc, x) = Place(k.cb, x) /\ nc[x].assprc = k.cb[x].assprc
  BY <1>2, <1>3 DEF Place
<1>9. Remembered(r.cb, r.no, r.exec, r.imm)
  <2>1. Remembered(k.cb, k.no, k.exec, k.imm)
    BY DEF KInv
  <2>2. \A p \in Proc : (k.exec[p] # Idle => k.exec[p].inst.hdr \in Handler)
                     /\ (k.imm[p] # Idle => k.imm[p].hdr \in Handler)
    BY <1>0, KFields DEF Executions, Instances
  <2> QED BY <1>5, <1>6, <1>7, <2>1, <2>2 DEF Remembered, Known
<1>10. Placed(r.hq, r.cb, r.no, r.exec, r.imm)
  <2>1. Placed(k.hq, k.cb, k.no, k.exec, k.imm)
    BY DEF KInv
  <2> SUFFICES ASSUME NEW p \in Proc, NEW a \in Alm
               PROVE  /\ a \in Queue(k.hq, p) => p = Place(nc, a)
                      /\ RunsIn(k, p, a) => "RUN" \in nc[a].stat /\ p = Place(nc, a)
                      /\ RunsAtOnce(k, p, a) => nc[a].assprc = Idle
                           /\ {"RUN", "IMM"} \subseteq nc[a].stat /\ "STA" \notin nc[a].stat
    BY <1>5, <1>6 DEF Placed, RunsIn, RunsAtOnce
  <2>2. /\ a \in Queue(k.hq, p) => p = Place(k.cb, a)
        /\ RunsIn(k, p, a) => "RUN" \in k.cb[a].stat /\ p = Place(k.cb, a)
        /\ RunsAtOnce(k, p, a) => k.cb[a].assprc = Idle
             /\ {"RUN", "IMM"} \subseteq k.cb[a].stat /\ "STA" \notin k.cb[a].stat
    BY <2>1 DEF Placed, RunsIn, RunsAtOnce
  <2>3. a \in Handler
    BY DEF Handler
  <2>4. CASE a = h
    BY <1>2, <1>8, <2>2, <2>3, <2>4
  <2>5. CASE a # h
    BY <1>3, <1>8, <2>2, <2>3, <2>5
  <2> QED BY <2>4, <2>5
<1>11. KInv(r, e, S)
  <2>1. e \subseteq Proc
    BY DEF KInv
  <2>2. Same(r, k, {"tq", "hq"}) /\ Same(r, k, {"tq", "time", "now"})
        /\ Same(r, k, {"hq", "ipi", "exec"}) /\ Same(r, k, {"exec", "imm"})
    BY <1>5 DEF Same
  <2>3. QueuedOnce(r.tq, r.hq, S) /\ Timely(r.tq, r.time, r.now) /\ Served(r.hq, r.ipi, r.exec, e)
        /\ Alone(r.exec, r.imm)
    BY <1>5, <2>2, Unmoved
  <2> QED BY <1>5, <1>9, <1>10, <2>1, <2>3 DEF KInv
<1> QED BY <1>2, <1>3, <1>5, <1>11 DEF r, nc

(* A new block, of a handler whose events are in no queue. *)
LEMMA Created ==
  ASSUME NEW k, NEW e, NEW S, KInv(k, e, S), NEW h \in Handler, k.cb[h] = NOEXS, h \notin S,
         NEW b, h \in Cyc => b \in CycCB, h \in Alm => b \in AlmCB
  PROVE  LET r == [k EXCEPT !.cb[h] = b]
         IN  /\ KInv(r, e, S) /\ r.cb[h] = b /\ b # NOEXS
             /\ \A x \in Handler \ {h} : r.cb[x] = k.cb[x]
             /\ Same(r, k, {"now", "tq", "time", "hq", "no", "exec", "imm", "ipi"})
<1> DEFINE nc == [k.cb EXCEPT ![h] = b]
           r == [k EXCEPT !.cb[h] = b]
<1>0. k \in KType /\ b # NOEXS
  BY NoneAssumption DEF KInv, Handler
<1>1. k.cb \in ControlBlocks /\ k.cb \in [Handler -> CycCB \cup AlmCB \cup {NOEXS}]
  BY <1>0, KFields DEF ControlBlocks
<1>2. r = [k EXCEPT !.cb = nc]
  BY <1>0 DEF KType
<1>3. /\ nc \in [Handler -> CycCB \cup AlmCB \cup {NOEXS}] /\ nc[h] = b
      /\ \A x \in Handler : x # h => nc[x] = k.cb[x]
  BY <1>1 DEF Handler
<1> HIDE DEF nc, r
<1>4. nc \in ControlBlocks
  <2>1. \A c \in Cyc : nc[c] # NOEXS => nc[c] \in CycCB
    BY <1>1, <1>3 DEF ControlBlocks, Handler
  <2>2. \A a \in Alm : nc[a] # NOEXS => nc[a] \in AlmCB
    BY <1>1, <1>3 DEF ControlBlocks, Handler
  <2> QED BY <1>3, <2>1, <2>2 DEF ControlBlocks
<1>5. r \in KType /\ r.cb = nc /\ Same(r, k, {"now", "tq", "time", "hq", "no", "exec", "imm", "ipi"})
  <2>1. LET v == [k EXCEPT !.cb = nc] IN
          v \in KType /\ v.cb = nc /\ Same(v, k, {"now", "tq", "time", "hq", "no", "exec", "imm", "ipi"})
    BY <1>0, <1>4, OneField
  <2> QED BY <1>2, <2>1
<1>6. r.hq = k.hq /\ r.no = k.no /\ r.exec = k.exec /\ r.imm = k.imm
  BY <1>5 DEF Same
<1>7. \A p \in Proc : (k.exec[p] # Idle => k.exec[p].inst.hdr \in Handler)
                   /\ (k.imm[p] # Idle => k.imm[p].hdr \in Handler)
  BY <1>0, KFields DEF Executions, Instances
<1>8. Remembered(k.cb, k.no, k.exec, k.imm) /\ Placed(k.hq, k.cb, k.no, k.exec, k.imm)
      /\ QueuedOnce(k.tq, k.hq, S)
  BY DEF KInv
<1>9. Remembered(r.cb, r.no, r.exec, r.imm)
  BY <1>0, <1>3, <1>5, <1>6, <1>7, <1>8 DEF Remembered, Known
<1>10. Placed(r.hq, r.cb, r.no, r.exec, r.imm)
  <2>1. \A p \in Proc : ~RunsIn(k, p, h) /\ ~RunsAtOnce(k, p, h) /\ h \notin Queue(k.hq, p)
    BY <1>8 DEF Remembered, Known, RunsIn, RunsAtOnce, Today, QueuedOnce, Queued
  <2>2. \A a \in Alm : a # h => nc[a] = k.cb[a] /\ Place(nc, a) = Place(k.cb, a)
    BY <1>3 DEF Handler, Place
  <2> QED BY <1>5, <1>6, <1>8, <2>1, <2>2 DEF Placed, RunsIn, RunsAtOnce
<1>11. KInv(r, e, S)
  <2>1. e \subseteq Proc
    BY DEF KInv
  <2>2. Same(r, k, {"tq", "hq"}) /\ Same(r, k, {"tq", "time", "now"})
        /\ Same(r, k, {"hq", "ipi", "exec"}) /\ Same(r, k, {"exec", "imm"})
    BY <1>5 DEF Same
  <2>3. QueuedOnce(r.tq, r.hq, S) /\ Timely(r.tq, r.time, r.now) /\ Served(r.hq, r.ipi, r.exec, e)
        /\ Alone(r.exec, r.imm)
    BY <1>5, <2>2, Unmoved
  <2> QED BY <1>5, <1>9, <1>10, <2>1, <2>3 DEF KInv
<1> QED BY <1>0, <1>3, <1>5, <1>11 DEF r, nc

(* A block is freed: what runs of it is not of the next one. *)
Freed(k, h) == [k EXCEPT !.cb[h] = NOEXS, !.no[h] = @ + 1]

LEMMA FreedBlock ==
  ASSUME NEW k, NEW e, NEW S, KInv(k, e, S), NEW h \in Handler, h \notin S
  PROVE  LET r == Freed(k, h)
         IN  /\ KInv(r, e, S) /\ r.cb[h] = NOEXS
             /\ Same(r, k, {"now", "tq", "time", "hq", "exec", "imm", "ipi"})
             /\ \A x \in Handler \ {h} : r.cb[x] = k.cb[x]
<1> DEFINE nc == [k.cb EXCEPT ![h] = NOEXS]
           nn == [k.no EXCEPT ![h] = @ + 1]
           r == Freed(k, h)
<1>0. k \in KType
  BY DEF KInv
<1>1. k.cb \in ControlBlocks /\ k.cb \in [Handler -> CycCB \cup AlmCB \cup {NOEXS}]
      /\ k.no \in [Handler -> Nat]
  BY <1>0, KFields DEF ControlBlocks
<1>2. r = [k EXCEPT !.cb = nc, !.no = nn]
  BY <1>0 DEF KType, Freed
<1>3. /\ nc \in [Handler -> CycCB \cup AlmCB \cup {NOEXS}] /\ nc[h] = NOEXS
      /\ \A x \in Handler : x # h => nc[x] = k.cb[x]
  BY <1>1
<1>4. /\ nn \in [Handler -> Nat] /\ nn[h] = k.no[h] + 1
      /\ \A x \in Handler : x # h => nn[x] = k.no[x]
  BY <1>1
<1> HIDE DEF nc, nn, r
<1>5. nc \in ControlBlocks
  <2>1. \A c \in Cyc : nc[c] # NOEXS => nc[c] \in CycCB
    BY <1>1, <1>3 DEF ControlBlocks, Handler
  <2>2. \A a \in Alm : nc[a] # NOEXS => nc[a] \in AlmCB
    BY <1>1, <1>3 DEF ControlBlocks, Handler
  <2> QED BY <1>3, <2>1, <2>2 DEF ControlBlocks
<1>6. /\ r \in KType /\ r.cb = nc /\ r.no = nn
      /\ Same(r, k, {"now", "tq", "time", "hq", "exec", "imm", "ipi"})
  BY <1>0, <1>2, <1>4, <1>5 DEF KType, Same
<1>7. r.hq = k.hq /\ r.exec = k.exec /\ r.imm = k.imm
  BY <1>6 DEF Same
<1>8. \A p \in Proc : (k.exec[p] # Idle => k.exec[p].inst \in Instances)
                   /\ (k.imm[p] # Idle => k.imm[p] \in Instances)
  BY <1>0, KFields DEF Executions
<1>9. Remembered(k.cb, k.no, k.exec, k.imm) /\ Placed(k.hq, k.cb, k.no, k.exec, k.imm)
      /\ QueuedOnce(k.tq, k.hq, S)
  BY DEF KInv
<1>10. \A i \in Instances : Known(k.cb, k.no, i) => Known(nc, nn, i) /\ i # Today(nn, h)
  <2> SUFFICES ASSUME NEW i \in Instances, Known(k.cb, k.no, i)
               PROVE  Known(nc, nn, i) /\ i # Today(nn, h)
    OBVIOUS
  <2>1. i.hdr \in Handler /\ i.no \in Nat /\ k.no[i.hdr] \in Nat /\ i.no <= k.no[i.hdr]
    BY <1>1 DEF Instances, Known
  <2>2. CASE i.hdr = h
    BY <1>4, <2>1, <2>2 DEF Known, Today
  <2>3. CASE i.hdr # h
    BY <1>3, <1>4, <2>1, <2>3 DEF Known, Today
  <2> QED BY <2>2, <2>3
<1>11. Remembered(r.cb, r.no, r.exec, r.imm)
  BY <1>6, <1>7, <1>8, <1>9, <1>10 DEF Remembered
<1>12. Placed(r.hq, r.cb, r.no, r.exec, r.imm)
  <2>1. \A p \in Proc : (k.exec[p] # Idle => k.exec[p].inst # Today(nn, h))
                     /\ (k.imm[p] # Idle => k.imm[p] # Today(nn, h)) /\ h \notin Queue(k.hq, p)
    BY <1>8, <1>9, <1>10 DEF Remembered, QueuedOnce, Queued
  <2>2. \A a \in Alm : a # h => nc[a] = k.cb[a] /\ Place(nc, a) = Place(k.cb, a)
                                /\ Today(nn, a) = Today(k.no, a)
    BY <1>3, <1>4 DEF Handler, Place, Today
  <2> QED BY <1>6, <1>7, <1>9, <2>1, <2>2 DEF Placed
<1>13. KInv(r, e, S)
  <2>1. e \subseteq Proc
    BY DEF KInv
  <2>2. Same(r, k, {"tq", "hq"}) /\ Same(r, k, {"tq", "time", "now"})
        /\ Same(r, k, {"hq", "ipi", "exec"}) /\ Same(r, k, {"exec", "imm"})
    BY <1>6 DEF Same
  <2>3. QueuedOnce(r.tq, r.hq, S) /\ Timely(r.tq, r.time, r.now) /\ Served(r.hq, r.ipi, r.exec, e)
        /\ Alone(r.exec, r.imm)
    BY <1>6, <2>2, Unmoved
  <2> QED BY <1>6, <1>11, <1>12, <2>1, <2>3 DEF KInv
<1> QED BY <1>3, <1>6, <1>13 DEF r

-----------------------------------------------------------------------------
(* Handlers begin and end; loops do *)

LEMMA Runners ==
  ASSUME NEW k \in KType, NEW p \in Proc
  PROVE  /\ k.exec[p] # Idle => /\ k.exec[p].inst \in Instances /\ k.exec[p].inst.hdr \in Handler
                                /\ k.exec[p].by \in {"INT", "TASK"}
         /\ k.imm[p] # Idle => k.imm[p] \in Instances /\ k.imm[p].hdr \in Handler
BY KFields DEF Executions, Instances

LEMMA TodayType ==
  ASSUME NEW k \in KType, NEW h \in Handler
  PROVE  /\ Instance(k, h) = Today(k.no, h) /\ Today(k.no, h) \in Instances
         /\ Today(k.no, h) # Idle /\ Today(k.no, h).hdr = h /\ Today(k.no, h).no = k.no[h]
         /\ \A by \in {"INT", "TASK"} : LET x == [by |-> by, inst |-> Instance(k, h)] IN
              x \in Executions /\ x # Idle /\ x.inst = Today(k.no, h) /\ x.by = by
<1>1. Instance(k, h) = Today(k.no, h) /\ Today(k.no, h) \in Instances
      /\ Today(k.no, h).hdr = h /\ Today(k.no, h).no = k.no[h]
  BY KFields DEF Instance, Today, Instances
<1>2. Today(k.no, h) # Idle
  BY <1>1, NoneAssumption
<1>3. ASSUME NEW by \in {"INT", "TASK"}
      PROVE  LET x == [by |-> by, inst |-> Instance(k, h)] IN
               x \in Executions /\ x # Idle /\ x.inst = Today(k.no, h) /\ x.by = by
  <2>1. [by |-> by, inst |-> Instance(k, h)] \in Executions
    BY <1>1 DEF Executions
  <2> QED BY <1>1, <2>1, NoneAssumption
<1> QED BY <1>1, <1>2, <1>3

LEMMA TodayKnown ==
  ASSUME NEW k \in KType, NEW h \in Handler
  PROVE  /\ k.cb[h] # NOEXS => Known(k.cb, k.no, Today(k.no, h))
         /\ \A a \in Handler : Today(k.no, a) = Today(k.no, h) => a = h
<1>1. k.no[h] \in Nat
  BY KFields
<1>2. Today(k.no, h).hdr = h /\ Today(k.no, h).no = k.no[h]
  BY DEF Today
<1>3. \A a \in Handler : Today(k.no, a).hdr = a
  BY DEF Today
<1>4. Known(k.cb, k.no, Today(k.no, h)) <=>
        /\ Today(k.no, h).no <= k.no[Today(k.no, h).hdr]
        /\ Today(k.no, h).no = k.no[Today(k.no, h).hdr] => k.cb[Today(k.no, h).hdr] # NOEXS
  BY DEF Known
<1>5. k.cb[h] # NOEXS => Known(k.cb, k.no, Today(k.no, h))
  BY <1>1, <1>2, <1>4
<1>6. ASSUME NEW a \in Handler, Today(k.no, a) = Today(k.no, h) PROVE a = h
  BY <1>2, <1>3, <1>6
<1> QED BY <1>5, <1>6

(* The loop of p takes a handler. *)
LEMMA ExecStarts ==
  ASSUME NEW k, NEW e, NEW S, NEW p \in Proc, p \notin e, KInv(k, e \cup {p}, S),
         NEW h \in Handler, k.cb[h] # NOEXS, NEW by \in {"INT", "TASK"},
         h \in Alm => /\ "RUN" \in k.cb[h].stat /\ p = Place(k.cb, h)
                      /\ \A q \in Proc : ~RunsAtOnce(k, q, h)
  PROVE  LET r == [k EXCEPT !.exec[p] = [by |-> by, inst |-> Instance(k, h)]]
         IN  KInv(r, e, S) /\ Same(r, k, {"now", "tq", "time", "hq", "cb", "no", "imm", "ipi"})
<1> DEFINE x == [by |-> by, inst |-> Instance(k, h)]
           ne == [k.exec EXCEPT ![p] = x]
           r == [k EXCEPT !.exec[p] = x]
<1>0. k \in KType
  BY DEF KInv
<1>1. x \in Executions /\ x # Idle /\ x.inst = Today(k.no, h)
  BY ZenonT(40), <1>0, TodayType
<1>2. k.exec \in [Proc -> Executions \cup {Idle}]
  BY <1>0, KFields
<1>3. r = [k EXCEPT !.exec = ne]
  BY <1>0 DEF KType
<1> HIDE DEF x
<1>4. /\ ne \in [Proc -> Executions \cup {Idle}] /\ ne[p] = x
      /\ \A q \in Proc : q # p => ne[q] = k.exec[q]
  BY <1>1, <1>2
<1> HIDE DEF ne, r
<1>5. r \in KType /\ r.exec = ne /\ Same(r, k, {"now", "tq", "time", "hq", "cb", "no", "imm", "ipi"})
  <2>1. LET v == [k EXCEPT !.exec = ne] IN
          v \in KType /\ v.exec = ne /\ Same(v, k, {"now", "tq", "time", "hq", "cb", "no", "imm", "ipi"})
    BY <1>0, <1>4, OneField
  <2> QED BY <1>3, <2>1
<1>6. r.hq = k.hq /\ r.cb = k.cb /\ r.no = k.no /\ r.imm = k.imm /\ r.ipi = k.ipi
  BY <1>5 DEF Same
<1>7. /\ Served(k.hq, k.ipi, k.exec, e \cup {p}) /\ Alone(k.exec, k.imm)
      /\ Remembered(k.cb, k.no, k.exec, k.imm) /\ Placed(k.hq, k.cb, k.no, k.exec, k.imm)
  BY DEF KInv
<1>8. k.exec[p] = Idle
  BY <1>7 DEF Served
<1>9. Served(r.hq, r.ipi, r.exec, e)
  BY <1>1, <1>4, <1>5, <1>6, <1>7 DEF Served
<1>10. Remembered(r.cb, r.no, r.exec, r.imm)
  <2>1. Known(k.cb, k.no, x.inst)
    BY <1>0, <1>1, TodayKnown
  <2> QED BY <1>1, <1>4, <1>5, <1>6, <1>7, <2>1 DEF Remembered
<1>11. ASSUME h \in Alm, NEW q \in Proc
       PROVE  /\ k.exec[q] # Idle => k.exec[q].inst # Today(k.no, h)
              /\ k.imm[q] # Idle => k.imm[q] # Today(k.no, h)
  BY <1>7, <1>8, <1>11 DEF Placed, RunsAtOnce
<1>12. Today(k.no, h).hdr = h
  BY <1>0, TodayType
<1>13. Alone(r.exec, r.imm)
  <2> SUFFICES ASSUME NEW a \in Alm, NEW y \in Proc, NEW q \in Proc
               PROVE  /\ (y # q /\ ne[y] # Idle /\ ne[y].inst.hdr = a /\ ne[q] # Idle /\ ne[q].inst.hdr = a)
                           => ne[y].inst # ne[q].inst
                      /\ (k.imm[y] # Idle /\ k.imm[y].hdr = a) =>
                           /\ ne[q] # Idle /\ ne[q].inst.hdr = a => ne[q].inst # k.imm[y]
                           /\ y # q => k.imm[y] # k.imm[q]
    BY <1>5, <1>6 DEF Alone
  <2>1. CASE y # p /\ q # p
    BY <1>4, <1>7, <2>1 DEF Alone
  <2>2. CASE y = p \/ q = p
    BY <1>1, <1>4, <1>7, <1>11, <1>12, <2>2 DEF Alone
  <2> QED BY <2>1, <2>2
<1>14. Placed(r.hq, r.cb, r.no, r.exec, r.imm)
  <2> SUFFICES ASSUME NEW a \in Alm, ne[p] # Idle, ne[p].inst = Today(k.no, a)
               PROVE  "RUN" \in k.cb[a].stat /\ p = Place(k.cb, a)
    BY <1>4, <1>5, <1>6, <1>7 DEF Placed
  <2>1. a = h
    <3>1. Today(k.no, a) = Today(k.no, h) /\ a \in Handler
      BY <1>1, <1>4 DEF Handler
    <3> QED BY <1>0, <3>1, TodayKnown
  <2> QED BY <2>1
<1>15. KInv(r, e, S)
  <2>1. e \subseteq Proc /\ QueuedOnce(k.tq, k.hq, S) /\ Timely(k.tq, k.time, k.now)
    BY DEF KInv
  <2>2. r.tq = k.tq /\ r.time = k.time /\ r.now = k.now
    BY <1>5 DEF Same
  <2> QED BY <1>5, <1>6, <1>9, <1>10, <1>13, <1>14, <2>1, <2>2 DEF KInv
<1> QED BY <1>5, <1>15 DEF r, x

(* A handler that its task called at once. *)
LEMMA ImmStarts ==
  ASSUME NEW k, NEW e, NEW S, KInv(k, e, S), NEW p \in Proc, k.imm[p] = Idle,
         NEW h \in Handler, k.cb[h] # NOEXS,
         h \in Alm => /\ k.cb[h].assprc = Idle /\ {"RUN", "IMM"} \subseteq k.cb[h].stat
                      /\ "STA" \notin k.cb[h].stat
                      /\ \A q \in Proc : ~RunsIn(k, q, h) /\ ~RunsAtOnce(k, q, h)
  PROVE  LET r == [k EXCEPT !.imm[p] = Instance(k, h)]
         IN  KInv(r, e, S) /\ Same(r, k, {"now", "tq", "time", "hq", "cb", "no", "exec", "ipi"})
<1> DEFINE x == Instance(k, h)
           ni == [k.imm EXCEPT ![p] = x]
           r == [k EXCEPT !.imm[p] = x]
<1>0. k \in KType
  BY DEF KInv
<1>1. x \in Instances /\ x # Idle /\ x = Today(k.no, h) /\ x.hdr = h
  <2>1. /\ Instance(k, h) = Today(k.no, h) /\ Today(k.no, h) \in Instances
        /\ Today(k.no, h) # Idle /\ Today(k.no, h).hdr = h
    BY ZenonT(40), <1>0, TodayType
  <2> QED BY <2>1
<1>2. k.imm \in [Proc -> Instances \cup {Idle}]
  BY <1>0, KFields
<1>3. r = [k EXCEPT !.imm = ni]
  BY <1>0 DEF KType
<1> HIDE DEF x
<1>4. /\ ni \in [Proc -> Instances \cup {Idle}] /\ ni[p] = x
      /\ \A q \in Proc : q # p => ni[q] = k.imm[q]
  BY <1>1, <1>2
<1> HIDE DEF ni, r
<1>5. r \in KType /\ r.imm = ni /\ Same(r, k, {"now", "tq", "time", "hq", "cb", "no", "exec", "ipi"})
  <2>1. LET v == [k EXCEPT !.imm = ni] IN
          v \in KType /\ v.imm = ni /\ Same(v, k, {"now", "tq", "time", "hq", "cb", "no", "exec", "ipi"})
    BY <1>0, <1>4, OneField
  <2> QED BY <1>3, <2>1
<1>6. r.hq = k.hq /\ r.cb = k.cb /\ r.no = k.no /\ r.exec = k.exec /\ r.ipi = k.ipi
  BY <1>5 DEF Same
<1>7. /\ Served(k.hq, k.ipi, k.exec, e) /\ Alone(k.exec, k.imm)
      /\ Remembered(k.cb, k.no, k.exec, k.imm) /\ Placed(k.hq, k.cb, k.no, k.exec, k.imm)
  BY DEF KInv
<1>10. Remembered(r.cb, r.no, r.exec, r.imm)
  <2>1. Known(k.cb, k.no, x)
    BY <1>0, <1>1, TodayKnown
  <2> QED BY <1>1, <1>4, <1>5, <1>6, <1>7, <2>1 DEF Remembered
<1>11. ASSUME h \in Alm, NEW q \in Proc
       PROVE  /\ k.exec[q] # Idle => k.exec[q].inst # x
              /\ k.imm[q] # Idle => k.imm[q] # x
  BY <1>1, <1>11 DEF RunsAtOnce, RunsIn
<1>13. Alone(r.exec, r.imm)
  <2> SUFFICES ASSUME NEW a \in Alm, NEW y \in Proc, NEW q \in Proc
               PROVE  /\ (y # q /\ k.exec[y] # Idle /\ k.exec[y].inst.hdr = a
                              /\ k.exec[q] # Idle /\ k.exec[q].inst.hdr = a)
                           => k.exec[y].inst # k.exec[q].inst
                      /\ (ni[y] # Idle /\ ni[y].hdr = a) =>
                           /\ k.exec[q] # Idle /\ k.exec[q].inst.hdr = a => k.exec[q].inst # ni[y]
                           /\ y # q => ni[y] # ni[q]
    BY <1>5, <1>6 DEF Alone
  <2>1. CASE y # p /\ q # p
    BY <1>4, <1>7, <2>1 DEF Alone
  <2>2. CASE y = p
    BY <1>1, <1>4, <1>7, <1>11, <2>2 DEF Alone
  <2>3. CASE y # p /\ q = p
    BY <1>1, <1>4, <1>7, <1>11, <2>3 DEF Alone
  <2> QED BY <2>1, <2>2, <2>3
<1>14. Placed(r.hq, r.cb, r.no, r.exec, r.imm)
  <2> SUFFICES ASSUME NEW a \in Alm, ni[p] # Idle, ni[p] = Today(k.no, a)
               PROVE  k.cb[a].assprc = Idle /\ {"RUN", "IMM"} \subseteq k.cb[a].stat
                      /\ "STA" \notin k.cb[a].stat
    BY <1>4, <1>5, <1>6, <1>7 DEF Placed
  <2>1. a = h
    <3>1. Today(k.no, a) = Today(k.no, h) /\ a \in Handler
      BY <1>1, <1>4 DEF Handler
    <3> QED BY <1>0, <3>1, TodayKnown
  <2> QED BY <2>1
<1>15. KInv(r, e, S)
  <2>1. e \subseteq Proc /\ QueuedOnce(k.tq, k.hq, S) /\ Timely(k.tq, k.time, k.now)
    BY DEF KInv
  <2>2. r.tq = k.tq /\ r.time = k.time /\ r.now = k.now
    BY <1>5 DEF Same
  <2> QED BY <1>5, <1>6, <1>7, <1>10, <1>13, <1>14, <2>1, <2>2 DEF KInv
<1> QED BY <1>5, <1>15 DEF r, x

LEMMA ExecEnds ==
  ASSUME NEW k, NEW e, NEW S, KInv(k, e, S), NEW p \in Proc, k.exec[p] # Idle
  PROVE  LET r == [k EXCEPT !.exec[p] = Idle]
         IN  /\ KInv(r, e \cup {p}, S) /\ p \notin e /\ r.exec[p] = Idle
             /\ Same(r, k, {"now", "tq", "time", "hq", "cb", "no", "imm", "ipi"})
<1> DEFINE ne == [k.exec EXCEPT ![p] = Idle]
           r == [k EXCEPT !.exec[p] = Idle]
<1>0. k \in KType /\ e \subseteq Proc
  BY DEF KInv
<1>1. k.exec \in [Proc -> Executions \cup {Idle}]
  BY <1>0, KFields
<1>2. r = [k EXCEPT !.exec = ne]
  BY <1>0 DEF KType
<1>3. /\ ne \in [Proc -> Executions \cup {Idle}] /\ ne[p] = Idle
      /\ \A q \in Proc : q # p => ne[q] = k.exec[q]
  BY <1>1
<1> HIDE DEF ne, r
<1>4. r \in KType /\ r.exec = ne /\ Same(r, k, {"now", "tq", "time", "hq", "cb", "no", "imm", "ipi"})
  <2>1. LET v == [k EXCEPT !.exec = ne] IN
          v \in KType /\ v.exec = ne /\ Same(v, k, {"now", "tq", "time", "hq", "cb", "no", "imm", "ipi"})
    BY <1>0, <1>3, OneField
  <2> QED BY <1>2, <2>1
<1>5. r.hq = k.hq /\ r.cb = k.cb /\ r.no = k.no /\ r.imm = k.imm /\ r.ipi = k.ipi
  BY <1>4 DEF Same
<1>6. /\ Served(k.hq, k.ipi, k.exec, e) /\ Alone(k.exec, k.imm)
      /\ Remembered(k.cb, k.no, k.exec, k.imm) /\ Placed(k.hq, k.cb, k.no, k.exec, k.imm)
  BY DEF KInv
<1>7. p \notin e
  BY <1>6 DEF Served
<1>8. Served(k.hq, k.ipi, ne, e \cup {p})
  BY <1>3, <1>6 DEF Served
<1>9. Alone(ne, k.imm)
  BY <1>3, <1>6 DEF Alone
<1>10. Remembered(k.cb, k.no, ne, k.imm)
  BY <1>3, <1>6 DEF Remembered
<1>11. Placed(k.hq, k.cb, k.no, ne, k.imm)
  BY <1>3, <1>6 DEF Placed
<1>12. KInv(r, e \cup {p}, S)
  <2>1. QueuedOnce(k.tq, k.hq, S) /\ Timely(k.tq, k.time, k.now)
    BY DEF KInv
  <2>2. r.tq = k.tq /\ r.time = k.time /\ r.now = k.now
    BY <1>4 DEF Same
  <2> QED BY <1>0, <1>4, <1>5, <1>8, <1>9, <1>10, <1>11, <2>1, <2>2 DEF KInv
<1> QED BY <1>3, <1>4, <1>7, <1>12 DEF r

LEMMA ImmEnds ==
  ASSUME NEW k, NEW e, NEW S, KInv(k, e, S), NEW p \in Proc
  PROVE  LET r == [k EXCEPT !.imm[p] = Idle]
         IN  KInv(r, e, S) /\ Same(r, k, {"now", "tq", "time", "hq", "cb", "no", "exec", "ipi"})
<1> DEFINE ni == [k.imm EXCEPT ![p] = Idle]
           r == [k EXCEPT !.imm[p] = Idle]
<1>0. k \in KType /\ e \subseteq Proc
  BY DEF KInv
<1>1. k.imm \in [Proc -> Instances \cup {Idle}]
  BY <1>0, KFields
<1>2. r = [k EXCEPT !.imm = ni]
  BY <1>0 DEF KType
<1>3. /\ ni \in [Proc -> Instances \cup {Idle}] /\ ni[p] = Idle
      /\ \A q \in Proc : q # p => ni[q] = k.imm[q]
  BY <1>1
<1> HIDE DEF ni, r
<1>4. r \in KType /\ r.imm = ni /\ Same(r, k, {"now", "tq", "time", "hq", "cb", "no", "exec", "ipi"})
  <2>1. LET v == [k EXCEPT !.imm = ni] IN
          v \in KType /\ v.imm = ni /\ Same(v, k, {"now", "tq", "time", "hq", "cb", "no", "exec", "ipi"})
    BY <1>0, <1>3, OneField
  <2> QED BY <1>2, <2>1
<1>5. r.hq = k.hq /\ r.cb = k.cb /\ r.no = k.no /\ r.exec = k.exec /\ r.ipi = k.ipi
  BY <1>4 DEF Same
<1>6. /\ Served(k.hq, k.ipi, k.exec, e) /\ Alone(k.exec, k.imm)
      /\ Remembered(k.cb, k.no, k.exec, k.imm) /\ Placed(k.hq, k.cb, k.no, k.exec, k.imm)
  BY DEF KInv
<1>7. Alone(k.exec, ni)
  <2> SUFFICES ASSUME NEW a \in Alm, NEW y \in Proc, NEW q \in Proc
               PROVE  /\ (y # q /\ k.exec[y] # Idle /\ k.exec[y].inst.hdr = a
                              /\ k.exec[q] # Idle /\ k.exec[q].inst.hdr = a)
                           => k.exec[y].inst # k.exec[q].inst
                      /\ (ni[y] # Idle /\ ni[y].hdr = a) =>
                           /\ k.exec[q] # Idle /\ k.exec[q].inst.hdr = a => k.exec[q].inst # ni[y]
                           /\ y # q => ni[y] # ni[q]
    BY DEF Alone
  <2> QED BY <1>3, <1>6 DEF Alone
<1>8. Remembered(k.cb, k.no, k.exec, ni)
  BY <1>3, <1>6 DEF Remembered
<1>9. Placed(k.hq, k.cb, k.no, k.exec, ni)
  BY <1>3, <1>6 DEF Placed
<1>10. KInv(r, e, S)
  <2>1. QueuedOnce(k.tq, k.hq, S) /\ Timely(k.tq, k.time, k.now)
    BY DEF KInv
  <2>2. r.tq = k.tq /\ r.time = k.time /\ r.now = k.now
    BY <1>4 DEF Same
  <2> QED BY <1>0, <1>4, <1>5, <1>6, <1>7, <1>8, <1>9, <2>1, <2>2 DEF KInv
<1> QED BY <1>4, <1>10 DEF r

(* A request is taken: the loop of p is between two handlers.              *)
LEMMA Accepted ==
  ASSUME NEW k, NEW e, NEW S, KInv(k, e, S), NEW p \in Proc, p \in k.ipi
  PROVE  LET r == [k EXCEPT !.ipi = @ \ {p}]
         IN  /\ KInv(r, e \cup {p}, S) /\ p \notin e
             /\ Same(r, k, {"now", "tq", "time", "hq", "cb", "no", "exec", "imm"})
<1> DEFINE nu == k.ipi \ {p}
           r == [k EXCEPT !.ipi = @ \ {p}]
<1>0. k \in KType /\ e \subseteq Proc
  BY DEF KInv
<1>1. nu \in SUBSET Proc
  BY <1>0, KFields
<1>2. r = [k EXCEPT !.ipi = nu]
  BY <1>0 DEF KType
<1>3. p \notin nu /\ \A q \in Proc : q # p => (q \in nu <=> q \in k.ipi)
  OBVIOUS
<1> HIDE DEF nu, r
<1>4. r \in KType /\ r.ipi = nu /\ Same(r, k, {"now", "tq", "time", "hq", "cb", "no", "exec", "imm"})
  <2>1. LET v == [k EXCEPT !.ipi = nu] IN
          v \in KType /\ v.ipi = nu /\ Same(v, k, {"now", "tq", "time", "hq", "cb", "no", "exec", "imm"})
    BY <1>0, <1>1, OneField
  <2> QED BY <1>2, <2>1
<1>5. r.hq = k.hq /\ r.exec = k.exec
  BY <1>4 DEF Same
<1>6. Served(k.hq, k.ipi, k.exec, e)
  BY DEF KInv
<1>7. p \notin e /\ Served(r.hq, r.ipi, r.exec, e \cup {p})
  BY <1>3, <1>4, <1>5, <1>6 DEF Served
<1>8. KInv(r, e \cup {p}, S)
  <2>1. /\ Same(r, k, {"tq", "hq"}) /\ Same(r, k, {"tq", "time", "now"}) /\ Same(r, k, {"exec", "imm"})
        /\ Same(r, k, {"cb", "no", "exec", "imm"}) /\ Same(r, k, {"hq", "cb", "no", "exec", "imm"})
    BY <1>4 DEF Same
  <2>2. /\ QueuedOnce(r.tq, r.hq, S) /\ Timely(r.tq, r.time, r.now) /\ Alone(r.exec, r.imm)
        /\ Remembered(r.cb, r.no, r.exec, r.imm) /\ Placed(r.hq, r.cb, r.no, r.exec, r.imm)
    BY <1>4, <2>1, Unmoved
  <2> QED BY <1>0, <1>4, <1>7, <2>2 DEF KInv
<1> QED BY <1>4, <1>7, <1>8 DEF r

(* The queue of p becomes q; the others stay.                              *)
LEMMA QueueOf ==
  ASSUME NEW k \in KType, NEW p \in Proc, NEW q \in HandlerQueue
  PROVE  LET r == [k EXCEPT !.hq[p] = q]
         IN  /\ r \in KType /\ r.hq = [k.hq EXCEPT ![p] = q] /\ r.hq[p] = q
             /\ \A x \in Proc : x # p => r.hq[x] = k.hq[x]
             /\ Same(r, k, {"now", "tq", "time", "cb", "no", "exec", "imm", "ipi"})
<1> DEFINE nh == [k.hq EXCEPT ![p] = q]
           r == [k EXCEPT !.hq[p] = q]
<1>1. k.hq \in [Proc -> HandlerQueue]
  BY KFields
<1>2. r = [k EXCEPT !.hq = nh]
  BY DEF KType
<1>3. nh \in [Proc -> HandlerQueue] /\ nh[p] = q /\ \A x \in Proc : x # p => nh[x] = k.hq[x]
  BY <1>1
<1> HIDE DEF r
<1>4. r \in KType /\ r.hq = nh /\ Same(r, k, {"now", "tq", "time", "cb", "no", "exec", "imm", "ipi"})
  <2> HIDE DEF nh
  <2>1. LET v == [k EXCEPT !.hq = nh] IN
          v \in KType /\ v.hq = nh /\ Same(v, k, {"now", "tq", "time", "cb", "no", "exec", "imm", "ipi"})
    BY <1>3, OneField
  <2> QED BY <1>2, <2>1
<1> QED BY <1>3, <1>4 DEF r

(* The loop of p finds no other handler.                                   *)
LEMMA LoopEnds ==
  ASSUME NEW k, NEW e, NEW S, NEW p \in Proc, KInv(k, e \cup {p}, S), p \notin e, e \subseteq Proc,
         k.hq[p].hdrque = <<>>
  PROVE  LET r == [k EXCEPT !.hq[p].act = FALSE, !.exec[p] = Idle]
         IN  /\ KInv(r, e, S)
             /\ Looked(k) => Looked(r)
             /\ Same(r, k, {"now", "tq", "time", "cb", "no", "imm", "ipi"})
<1> DEFINE q == [k.hq[p] EXCEPT !.act = FALSE]
           r == [k EXCEPT !.hq[p] = q]
<1>0. k \in KType
  BY DEF KInv
<1>1. k.hq[p] \in [upd : BOOLEAN, act : BOOLEAN, hdrque : Seq(Handler)]
  BY <1>0, KFields DEF HandlerQueue
<1>2. /\ q \in HandlerQueue /\ q.act = FALSE /\ q.upd = k.hq[p].upd
      /\ q.hdrque = k.hq[p].hdrque
  BY <1>1 DEF HandlerQueue
<1>3. Served(k.hq, k.ipi, k.exec, e \cup {p})
  BY DEF KInv
<1>4. k.exec[p] = Idle /\ p \notin k.ipi
  BY <1>3 DEF Served
<1>5. [k EXCEPT !.hq[p].act = FALSE, !.exec[p] = Idle] = r
  <2>1. k.exec \in [Proc -> Executions \cup {Idle}] /\ k.hq \in [Proc -> HandlerQueue]
    BY <1>0, KFields
  <2>2. [k.exec EXCEPT ![p] = Idle] = k.exec
    BY <1>4, <2>1
  <2>3. [k EXCEPT !.hq[p].act = FALSE, !.exec[p] = Idle]
          = [k EXCEPT !.hq = [k.hq EXCEPT ![p] = q], !.exec = [k.exec EXCEPT ![p] = Idle]]
    BY <1>0 DEF KType
  <2>4. [k EXCEPT !.hq = [k.hq EXCEPT ![p] = q], !.exec = k.exec] = r
    BY <1>0 DEF KType
  <2> QED BY <2>2, <2>3, <2>4
<1> HIDE DEF q, r
<1>6. /\ r \in KType /\ r.hq[p] = q /\ \A x \in Proc : x # p => r.hq[x] = k.hq[x]
      /\ Same(r, k, {"now", "tq", "time", "cb", "no", "exec", "imm", "ipi"})
  BY <1>0, <1>2, QueueOf DEF r
<1>7. r.ipi = k.ipi /\ r.exec = k.exec
  BY <1>6 DEF Same
<1>8. Served(r.hq, r.ipi, r.exec, e)
  BY <1>2, <1>3, <1>4, <1>6, <1>7 DEF Served
<1>9. \A x \in Proc : r.hq[x].hdrque = k.hq[x].hdrque
  BY <1>2, <1>6
<1>10. QueuedOnce(r.tq, r.hq, S) /\ Placed(r.hq, r.cb, r.no, r.exec, r.imm)
  <2>1. QueuedOnce(k.tq, k.hq, S) /\ Placed(k.hq, k.cb, k.no, k.exec, k.imm)
    BY DEF KInv
  <2>2. r.tq = k.tq /\ r.cb = k.cb /\ r.no = k.no /\ r.imm = k.imm
    BY <1>6 DEF Same
  <2> QED BY <1>7, <1>9, <2>1, <2>2, QueuesStay
<1>11. KInv(r, e, S)
  <2>1. /\ Same(r, k, {"tq", "time", "now"}) /\ Same(r, k, {"exec", "imm"})
        /\ Same(r, k, {"cb", "no", "exec", "imm"})
    BY <1>6 DEF Same
  <2>2. /\ Timely(r.tq, r.time, r.now) /\ Alone(r.exec, r.imm)
        /\ Remembered(r.cb, r.no, r.exec, r.imm)
    BY <1>6, <2>1, Unmoved
  <2> QED BY <1>6, <1>8, <1>10, <2>2 DEF KInv
<1>12. Looked(k) => Looked(r)
  BY <1>2, <1>6 DEF Looked
<1>13. Same(r, k, {"now", "tq", "time", "cb", "no", "imm", "ipi"})
  BY <1>6 DEF Same
<1> QED BY <1>5, <1>11, <1>12, <1>13

LEMMA TailOf ==
  ASSUME NEW T, NEW s \in Seq(T), s # <<>>, IsInjective(s)
  PROVE  /\ Head(s) \in T /\ Head(s) \in Range(s)
         /\ Tail(s) \in Seq(T) /\ IsInjective(Tail(s)) /\ Range(Tail(s)) = Range(s) \ {Head(s)}
<1>1. Len(s) \in Nat /\ Len(s) # 0 /\ DOMAIN s = 1..Len(s) /\ Head(s) = s[1] /\ s[1] \in T
  OBVIOUS
<1>2. /\ Tail(s) \in Seq(T) /\ DOMAIN Tail(s) = 1..(Len(s) - 1)
      /\ \A i \in 1..(Len(s) - 1) : Tail(s)[i] = s[i + 1]
  OBVIOUS
<1> DEFINE t == Tail(s)
<1> HIDE DEF t
<1>3. \A x, y \in DOMAIN s : s[x] = s[y] => x = y
  BY DEF IsInjective
<1>4. IsInjective(t)
  <2> SUFFICES ASSUME NEW x \in DOMAIN t, NEW y \in DOMAIN t, t[x] = t[y] PROVE x = y
    BY DEF IsInjective
  <2>1. x + 1 \in DOMAIN s /\ y + 1 \in DOMAIN s /\ s[x + 1] = s[y + 1] /\ x \in Int /\ y \in Int
    BY <1>1, <1>2 DEF t
  <2> QED BY <1>3, <2>1
<1>5. Range(t) \subseteq Range(s) \ {Head(s)}
  <2> SUFFICES ASSUME NEW x \in DOMAIN t PROVE t[x] \in Range(s) /\ t[x] # Head(s)
    BY DEF Range
  <2>1. x + 1 \in DOMAIN s /\ t[x] = s[x + 1] /\ x + 1 # 1 /\ 1 \in DOMAIN s
    BY <1>1, <1>2 DEF t
  <2> QED BY <1>1, <1>3, <2>1 DEF Range
<1>6. Range(s) \ {Head(s)} \subseteq Range(t)
  <2> SUFFICES ASSUME NEW x \in DOMAIN s, s[x] # Head(s) PROVE s[x] \in Range(t)
    BY DEF Range
  <2>1. x # 1 /\ x - 1 \in 1..(Len(s) - 1) /\ t[x - 1] = s[x]
    BY <1>1, <1>2 DEF t
  <2> QED BY <1>2, <2>1 DEF Range, t
<1>7. Head(s) \in Range(s)
  BY <1>1 DEF Range
<1> QED BY <1>1, <1>2, <1>4, <1>5, <1>6, <1>7 DEF t

(* The loop of p takes the first handler of its queue off it.              *)
LEMMA HeadTaken ==
  ASSUME NEW k, NEW e, NEW S, KInv(k, e, S), NEW p \in Proc, k.hq[p].hdrque # <<>>
  PROVE  LET r == [k EXCEPT !.hq[p].hdrque = Tail(@)]
             h == Head(k.hq[p].hdrque)
         IN  /\ KInv(r, e, S \ {h}) /\ h \in S /\ h \in Handler /\ ~Queued(r.tq, r.hq, h)
             /\ h \in Alm => p = Place(k.cb, h)
             /\ Looked(k) => Looked(r)
             /\ Same(r, k, {"now", "tq", "time", "cb", "no", "exec", "imm", "ipi"})
<1> DEFINE s == k.hq[p].hdrque
           h == Head(s)
           q == [k.hq[p] EXCEPT !.hdrque = Tail(s)]
           r == [k EXCEPT !.hq[p] = q]
<1>0. k \in KType
  BY DEF KInv
<1>1. /\ k.hq[p] \in [upd : BOOLEAN, act : BOOLEAN, hdrque : Seq(Handler)]
      /\ k.tq \in Seq(Object) /\ k.hq \in [Proc -> HandlerQueue]
  BY <1>0, KFields DEF HandlerQueue
<1>2. /\ QueuedOnce(k.tq, k.hq, S) /\ Served(k.hq, k.ipi, k.exec, e) /\ e \subseteq Proc
      /\ Placed(k.hq, k.cb, k.no, k.exec, k.imm)
  BY DEF KInv
<1>3. s \in Seq(Handler) /\ s # <<>> /\ IsInjective(s)
  BY <1>1, <1>2 DEF QueuedOnce
<1> HIDE DEF s
<1>4. /\ h \in Handler /\ h \in Range(s)
      /\ Tail(s) \in Seq(Handler) /\ IsInjective(Tail(s)) /\ Range(Tail(s)) = Range(s) \ {h}
  BY <1>3, TailOf
<1> HIDE DEF h
<1>5. /\ q \in HandlerQueue /\ q.act = k.hq[p].act /\ q.upd = k.hq[p].upd
      /\ q.hdrque = Tail(s)
  BY <1>1, <1>4 DEF HandlerQueue
<1>6. [k EXCEPT !.hq[p].hdrque = Tail(@)] = r
  <2>1. [k EXCEPT !.hq[p].hdrque = Tail(@)]
          = [k EXCEPT !.hq[p] = [k.hq[p] EXCEPT !.hdrque = Tail(k.hq[p].hdrque)]]
    BY <1>0 DEF KType
  <2> QED BY <2>1 DEF s
<1> HIDE DEF q, r
<1>7. /\ r \in KType /\ r.hq[p] = q /\ \A x \in Proc : x # p => r.hq[x] = k.hq[x]
      /\ Same(r, k, {"now", "tq", "time", "cb", "no", "exec", "imm", "ipi"})
  BY <1>0, <1>5, QueueOf DEF r
<1>8. r.tq = k.tq /\ r.ipi = k.ipi /\ r.exec = k.exec /\ r.cb = k.cb /\ r.no = k.no /\ r.imm = k.imm
  BY <1>7 DEF Same
<1>9. Range(s) = Queue(k.hq, p) /\ Queue(r.hq, p) = Queue(k.hq, p) \ {h}
      /\ \A x \in Proc : x # p => Queue(r.hq, x) = Queue(k.hq, x)
  BY <1>4, <1>5, <1>7 DEF Queue, s
<1>10. h \notin Range(k.tq) /\ \A x \in Proc : x # p => h \notin Queue(k.hq, x)
  BY <1>2, <1>4, <1>9 DEF QueuedOnce
<1>11. \A x \in Proc : IsInjective(r.hq[x].hdrque) /\ Queue(r.hq, x) = Queue(k.hq, x) \ {h}
  BY ZenonT(40), <1>2, <1>4, <1>5, <1>7, <1>9, <1>10 DEF QueuedOnce
<1>12. QueuedOnce(r.tq, r.hq, S \ {h})
  <2>1. IsInjective(k.tq) /\ Range(k.tq) = Range(k.tq) \ {h}
    BY <1>2, <1>10 DEF QueuedOnce
  <2> QED BY <1>1, <1>2, <1>8, <1>11, <2>1, Leaves
<1>13. Served(r.hq, r.ipi, r.exec, e)
  <2>1. k.hq[p].hdrque # <<>>
    OBVIOUS
  <2> QED BY <1>2, <1>5, <1>7, <1>8, <2>1 DEF Served
<1>14. Placed(r.hq, r.cb, r.no, r.exec, r.imm)
  <2>1. \A x \in Proc, a \in Alm : a \in Queue(r.hq, x) => a \in Queue(k.hq, x)
    BY <1>11
  <2> QED BY <1>2, <1>8, <2>1 DEF Placed
<1>15. KInv(r, e, S \ {h})
  <2>1. /\ Same(r, k, {"tq", "time", "now"}) /\ Same(r, k, {"exec", "imm"})
        /\ Same(r, k, {"cb", "no", "exec", "imm"})
    BY <1>7 DEF Same
  <2>2. /\ Timely(r.tq, r.time, r.now) /\ Alone(r.exec, r.imm)
        /\ Remembered(r.cb, r.no, r.exec, r.imm)
    BY <1>7, <2>1, Unmoved
  <2> QED BY <1>2, <1>7, <1>12, <1>13, <1>14, <2>2 DEF KInv
<1>16. h \in S /\ ~Queued(r.tq, r.hq, h)
  <2>1. Queued(k.tq, k.hq, h)
    BY <1>4, <1>9 DEF Queued
  <2> QED BY <1>2, <1>4, <1>8, <1>10, <1>11, <2>1 DEF QueuedOnce, Queued
<1>17. h \in Alm => p = Place(k.cb, h)
  BY <1>2, <1>4, <1>9 DEF Placed
<1>18. Looked(k) => Looked(r)
  BY <1>5, <1>7 DEF Looked
<1> QED BY <1>4, <1>6, <1>7, <1>15, <1>16, <1>17, <1>18 DEF h, s

(* A cyclic handler is set for a time to come.                             *)
LEMMA DivUp ==
  ASSUME NEW m \in Nat, NEW d \in Nat \ {0}
  PROVE  (m \div d + 1) * d > m /\ m \div d \in Int
OBVIOUS

LEMMA NextTime ==
  ASSUME NEW k \in KType, NEW c \in Cyc, k.cb[c] # NOEXS
  PROVE  cyc_next_time(k, c) \in Int /\ cyc_next_time(k, c) > k.now
<1> DEFINE d == k.cb[c].cyctim
           t == k.time[c]
           n == k.now
<1>1. d \in Nat \ {0} /\ t \in Int /\ n \in Int
  <2>1. k.cb[c] \in CycCB
    BY KFields DEF ControlBlocks
  <2>2. c \in Object
    BY DEF Object, Handler
  <2> QED BY <2>1, <2>2, KFields DEF CycCB
<1>2. cyc_next_time(k, c) = IF t + d > n THEN t + d ELSE t + ((n - t) \div d + 1) * d
  BY DEF cyc_next_time
<1> HIDE DEF d, t, n
<1>3. CASE t + d > n
  BY <1>1, <1>2, <1>3 DEF n
<1>4. CASE ~(t + d > n)
  <2> DEFINE m == n - t
  <2>1. m \in Nat
    BY <1>1, <1>4
  <2> DEFINE x == (m \div d + 1) * d
  <2>2. x > m /\ x \in Int
    <3>1. (m \div d + 1) * d > m /\ m \div d \in Int
      BY <1>1, <2>1, DivUp
    <3> QED BY <1>1, <3>1
  <2>3. cyc_next_time(k, c) = t + x
    BY <1>2, <1>4
  <2>4. n = t + m
    BY <1>1
  <2> HIDE DEF x, m
  <2> QED BY <1>1, <2>1, <2>2, <2>3, <2>4 DEF n
<1> QED BY <1>3, <1>4

LEMMA Block ==
  ASSUME NEW k \in KType, NEW h \in Handler, k.cb[h] # NOEXS
  PROVE  k.cb[h].stat \subseteq Flags /\ k.cb[h].assprc \in Proc \cup {Idle}
<1>1. k.cb \in ControlBlocks /\ {} \in SUBSET Flags
  BY KFields
<1> QED BY <1>1, BlockTypes

LEMMA StartedWith ==
  ASSUME NEW k, NEW r, NEW h \in Handler, r.cb[h] # NOEXS,
         \A x \in Handler \ {h} : r.cb[x] = k.cb[x]
  PROVE  StartedIn(r) = IF "STA" \in r.cb[h].stat THEN StartedIn(k) \cup {h} ELSE StartedIn(k) \ {h}
BY DEF StartedIn

LEMMA StartedSame ==
  ASSUME NEW k, NEW r, r.cb = k.cb
  PROVE  StartedIn(r) = StartedIn(k)
BY DEF StartedIn

(* call_cychdr: its event was taken off a queue. *)
LEMMA CycCalled ==
  ASSUME NEW k, NEW e, NEW S, NEW p \in Proc, p \notin e, KInv(k, e \cup {p}, S),
         NEW c \in Cyc, c \in StartedIn(k), S = StartedIn(k) \ {c},
         ~Queued(k.tq, k.hq, c), NEW by \in {"INT", "TASK"}
  PROVE  LET r == call_cychdr(k, p, by, c)
         IN  Full(r, e) /\ Same(r, k, {"now", "hq", "no", "imm", "ipi"})
<1> DEFINE tm == cyc_next_time(k, c)
           a == timer_insert_abs(k, c, tm)
           s == a.cb[c].stat \cup {"RUN"}
           b == WithStat(a, c, s)
           r == call_cychdr(k, p, by, c)
<1>0. k \in KType /\ c \in Handler /\ c \in Object /\ c \notin Alm /\ k.cb[c] # NOEXS
  BY TimerAssumption DEF KInv, Handler, Object, StartedIn
<1>1. tm \in Int /\ tm > k.now
  BY <1>0, NextTime
<1> HIDE DEF tm
<1>2. KInv(a, e \cup {p}, S \cup ({c} \cap Handler)) /\ Same(a, k, {"now"}) /\ Same(a, k, Rest)
  BY <1>0, <1>1, Inserted
<1>3. r = [a EXCEPT !.cb[c].stat = @ \cup {"RUN"}, !.exec[p] = [by |-> by, inst |-> Instance(k, c)]]
  BY DEF call_cychdr, tm
<1> HIDE DEF a, r
<1>4. /\ KInv(a, e \cup {p}, S \cup {c}) /\ a \in KType
      /\ a.now = k.now /\ a.hq = k.hq /\ a.cb = k.cb /\ a.no = k.no /\ a.imm = k.imm /\ a.ipi = k.ipi
  <2>1. {c} \cap Handler = {c}
    BY <1>0
  <2> QED BY <1>2, <2>1 DEF KInv, Same, Rest
<1>5. s \in SUBSET Flags
  BY <1>0, <1>4, Block DEF Flags
<1>6. r = [b EXCEPT !.exec[p] = [by |-> by, inst |-> Instance(b, c)]]
  BY <1>3, <1>4 DEF KType, WithStat, Instance
<1> HIDE DEF s
<1>7. /\ KInv(b, e \cup {p}, S \cup {c}) /\ Same(b, a, {"now", "tq", "time", "hq", "no", "exec", "imm", "ipi"})
      /\ b.cb[c] # NOEXS /\ b.cb[c].stat = s /\ \A x \in Handler \ {c} : b.cb[x] = a.cb[x]
  <2>1. a.cb[c] # NOEXS
    BY <1>0, <1>4
  <2> QED BY <1>0, <1>4, <1>5, <2>1, Restated
<1> HIDE DEF b
<1>8. KInv(r, e, S \cup {c}) /\ Same(r, b, {"now", "tq", "time", "hq", "cb", "no", "imm", "ipi"})
  BY <1>0, <1>6, <1>7, ExecStarts
<1>9. StartedIn(r) = S \cup {c}
  <2>1. StartedIn(r) = StartedIn(b)
    BY <1>8, StartedSame DEF Same
  <2>2. StartedIn(b) = IF "STA" \in s THEN StartedIn(k) \cup {c} ELSE StartedIn(k) \ {c}
    <3>1. \A x \in Handler \ {c} : b.cb[x] = k.cb[x]
      BY <1>4, <1>7
    <3> QED BY <1>0, <1>7, <3>1 DEF StartedIn
  <2>3. "STA" \in s <=> c \in StartedIn(k)
    BY <1>0, <1>4 DEF s, StartedIn
  <2> QED BY <2>1, <2>2, <2>3
<1>10. Same(r, k, {"now", "hq", "no", "imm", "ipi"})
  BY <1>4, <1>7, <1>8 DEF Same
<1> QED BY <1>8, <1>9, <1>10 DEF Full, r

(* call_almhdr: its event was taken off the queue of its processor. *)
LEMMA AlmCalled ==
  ASSUME NEW k, NEW e, NEW S, NEW p \in Proc, p \notin e, KInv(k, e \cup {p}, S),
         NEW a \in Alm, a \in StartedIn(k), S = StartedIn(k) \ {a}, ~Queued(k.tq, k.hq, a), p = Place(k.cb, a),
         NEW by \in {"INT", "TASK"}
  PROVE  LET r == call_almhdr(k, p, by, a)
         IN  Full(r, e) /\ Same(r, k, {"now", "hq", "no", "imm", "ipi"})
<1> DEFINE f == Forget(k, a)
           s == (f.cb[a].stat \ {"STA"}) \cup {"RUN"}
           b == WithStat(f, a, s)
           r == call_almhdr(k, p, by, a)
<1>0. k \in KType /\ a \in Handler /\ a \in Object /\ k.cb[a] # NOEXS /\ "STA" \in k.cb[a].stat
  BY DEF KInv, Handler, Object, StartedIn
<1>1. KInv(f, e \cup {p}, S) /\ Same(f, k, {"now", "tq"}) /\ Same(f, k, Rest)
  BY <1>0, Retimed DEF Forget, Queued
<1>2. r = [f EXCEPT !.cb[a].stat = (@ \ {"STA"}) \cup {"RUN"},
                    !.exec[p] = [by |-> by, inst |-> Instance(k, a)]]
  BY DEF call_almhdr
<1> HIDE DEF f, r
<1>4. /\ f \in KType /\ f.now = k.now /\ f.tq = k.tq /\ f.exec = k.exec
      /\ f.hq = k.hq /\ f.cb = k.cb /\ f.no = k.no /\ f.imm = k.imm /\ f.ipi = k.ipi
  BY <1>1 DEF KInv, Same, Rest
<1>5. s \in SUBSET Flags
  BY <1>0, <1>4, Block DEF Flags
<1>6. r = [b EXCEPT !.exec[p] = [by |-> by, inst |-> Instance(b, a)]]
  BY <1>2, <1>4 DEF KType, WithStat, Instance
<1>7. \A q \in Proc : ~RunsAtOnce(k, q, a)
  BY <1>0 DEF KInv, Placed, RunsAtOnce
<1>8. "RUN" \in s /\ "STA" \notin s
  OBVIOUS
<1> HIDE DEF s
<1>9. /\ KInv(b, e \cup {p}, S) /\ Same(b, f, {"now", "tq", "time", "hq", "no", "exec", "imm", "ipi"})
      /\ b.cb[a] # NOEXS /\ b.cb[a].stat = s /\ b.cb[a].assprc = f.cb[a].assprc
      /\ \A x \in Handler \ {a} : b.cb[x] = f.cb[x]
  <2>1. \A q \in Proc : ~RunsAtOnce(f, q, a)
    BY <1>4, <1>7 DEF RunsAtOnce
  <2>2. \A q \in Proc : /\ RunsIn(f, q, a) => "RUN" \in s
                        /\ RunsAtOnce(f, q, a) => {"RUN", "IMM"} \subseteq s /\ "STA" \notin s
    BY <1>8, <2>1
  <2>3. f.cb[a] # NOEXS
    BY <1>0, <1>4
  <2> QED BY <1>0, <1>1, <1>5, <2>2, <2>3, Restated
<1> HIDE DEF b
<1>10. KInv(r, e, S) /\ Same(r, b, {"now", "tq", "time", "hq", "cb", "no", "imm", "ipi"})
  <2>1. "RUN" \in b.cb[a].stat /\ p = Place(b.cb, a)
    BY <1>4, <1>8, <1>9 DEF Place
  <2>2. \A q \in Proc : ~RunsAtOnce(b, q, a)
    BY <1>4, <1>7, <1>9 DEF RunsAtOnce, Same
  <2> QED BY <1>0, <1>6, <1>9, <2>1, <2>2, ExecStarts
<1>11. StartedIn(r) = S
  <2>1. StartedIn(r) = StartedIn(b)
    BY <1>10, StartedSame DEF Same
  <2>2. StartedIn(b) = StartedIn(k) \ {a}
    <3>1. \A x \in Handler \ {a} : b.cb[x] = k.cb[x]
      BY <1>4, <1>9
    <3> QED BY <1>0, <1>8, <1>9, <3>1 DEF StartedIn
  <2> QED BY <2>1, <2>2
<1>12. Same(r, k, {"now", "hq", "no", "imm", "ipi"})
  BY <1>4, <1>9, <1>10 DEF Same
<1> QED BY <1>10, <1>11, <1>12 DEF Full, r

(* handler_execution: the loop of p runs its next handler, or ends.        *)
LEMMA Executed ==
  ASSUME NEW k, NEW e, e \subseteq Proc, NEW p \in Proc, p \notin e, Full(k, e \cup {p}),
         NEW by \in {"INT", "TASK"}
  PROVE  LET r == handler_execution(k, p, by)
         IN  /\ Full(r, e)
             /\ Looked(k) => Looked(r)
<1> DEFINE r == handler_execution(k, p, by)
<1>1. KInv(k, e \cup {p}, StartedIn(k))
  BY DEF Full
<1>2. CASE k.hq[p].hdrque = <<>>
  <2>1. r = [k EXCEPT !.hq[p].act = FALSE, !.exec[p] = Idle]
    BY <1>2 DEF handler_execution
  <2> HIDE DEF r
  <2>2. /\ KInv(r, e, StartedIn(k))
        /\ Looked(k) => Looked(r)
        /\ Same(r, k, {"now", "tq", "time", "cb", "no", "imm", "ipi"})
    BY <1>1, <1>2, <2>1, LoopEnds
  <2>3. StartedIn(r) = StartedIn(k)
    BY <2>2, StartedSame DEF Same
  <2> QED BY <2>2, <2>3 DEF Full, r
<1>3. CASE k.hq[p].hdrque # <<>>
  <2> DEFINE q == [k EXCEPT !.hq[p].hdrque = Tail(@)]
             h == Head(k.hq[p].hdrque)
  <2>1. r = IF h \in Cyc THEN call_cychdr(q, p, by, h) ELSE call_almhdr(q, p, by, h)
    BY <1>3 DEF handler_execution
  <2>2. /\ KInv(q, e \cup {p}, StartedIn(k) \ {h}) /\ h \in StartedIn(k) /\ h \in Handler
        /\ ~Queued(q.tq, q.hq, h)
        /\ h \in Alm => p = Place(k.cb, h)
        /\ Looked(k) => Looked(q)
        /\ Same(q, k, {"now", "tq", "time", "cb", "no", "exec", "imm", "ipi"})
    BY <1>1, <1>3, HeadTaken
  <2> HIDE DEF q, h, r
  <2>3. q.cb = k.cb /\ StartedIn(q) = StartedIn(k) /\ k.cb[h] # NOEXS
    BY <2>2, StartedSame DEF Same, StartedIn
  <2> DEFINE S == StartedIn(k) \ {h}
  <2>4. KInv(q, e \cup {p}, S) /\ h \in StartedIn(q) /\ S = StartedIn(q) \ {h}
    BY <2>2, <2>3
  <2> HIDE DEF S
  <2>5. Full(r, e) /\ Same(r, q, {"now", "hq", "no", "imm", "ipi"})
    <3>1. CASE h \in Cyc
      <4>1. r = call_cychdr(q, p, by, h)
        BY <2>1, <3>1
      <4> QED BY <2>2, <2>4, <3>1, <4>1, CycCalled
    <3>2. CASE h \notin Cyc
      <4>1. h \in Alm /\ r = call_almhdr(q, p, by, h) /\ p = Place(q.cb, h)
        BY <2>1, <2>2, <2>3, <3>2 DEF Handler
      <4> QED BY <2>2, <2>4, <4>1, AlmCalled
    <3> QED BY <3>1, <3>2
  <2>6. Looked(q) => Looked(r)
    BY <2>5 DEF Looked, Same
  <2> QED BY <2>2, <2>5, <2>6 DEF r
<1> QED BY <1>2, <1>3

(* handler_update: the loops that nobody serves are requested; that of p   *)
(* runs at once.                                                           *)
LEMMA Updated ==
  ASSUME NEW k, NEW e, e \subseteq Proc, NEW p \in Proc, Full(k, e), NEW by \in {"INT", "TASK"}
  PROVE  LET r == handler_update(k, p, by)
         IN  Full(r, e) /\ Looked(r)
<1> DEFINE A == check_handler_queue(k)
           nh == [q \in Proc |-> [k.hq[q] EXCEPT !.upd = FALSE, !.act = @ \/ q \in A]]
           nu == k.ipi \cup (A \ {p})
           c == [[k EXCEPT !.hq = nh] EXCEPT !.ipi = @ \cup (A \ {p})]
           r == handler_update(k, p, by)
           E == IF p \in A THEN e \cup {p} ELSE e
           S == StartedIn(k)
<1>0. KInv(k, e, S) /\ k \in KType
  BY DEF Full, KInv
<1>1. k.hq \in [Proc -> HandlerQueue] /\ k.ipi \subseteq Proc
  BY <1>0, KFields
<1>2. A = {q \in Proc : k.hq[q].upd /\ ~k.hq[q].act}
  BY DEF check_handler_queue
<1>3. r = IF p \in A THEN handler_execution(c, p, by) ELSE c
  BY DEF handler_update
<1> HIDE DEF A, r
<1>4. ASSUME NEW q \in Proc
      PROVE  /\ nh[q] \in HandlerQueue /\ nh[q].upd = FALSE
             /\ nh[q].act = (k.hq[q].act \/ q \in A) /\ nh[q].hdrque = k.hq[q].hdrque
  <2>1. k.hq[q] \in [upd : BOOLEAN, act : BOOLEAN, hdrque : Seq(Handler)]
    BY <1>1 DEF HandlerQueue
  <2> QED BY <2>1 DEF HandlerQueue
<1>5. nh \in [Proc -> HandlerQueue] /\ nu \subseteq Proc
  BY <1>1, <1>2, <1>4
<1>6. c = [k EXCEPT !.hq = nh, !.ipi = nu]
  BY <1>0 DEF KType
<1> HIDE DEF nh, c
<1>7. /\ c \in KType /\ c.hq = nh /\ c.ipi = nu
      /\ Same(c, k, {"now", "tq", "time", "cb", "no", "exec", "imm"})
  BY <1>0, <1>5, <1>6 DEF KType, Same
<1>8. Served(k.hq, k.ipi, k.exec, e)
  BY <1>0 DEF KInv
<1>9. p \in A => p \notin e
  BY <1>2, <1>8 DEF Served
<1>10. Served(c.hq, c.ipi, c.exec, E)
  <2>1. c.exec = k.exec
    BY <1>7 DEF Same
  <2> SUFFICES ASSUME NEW q \in Proc
               PROVE  /\ nh[q].act <=> q \in nu \/ k.exec[q] # Idle \/ q \in E
                      /\ ~(q \in nu /\ k.exec[q] # Idle) /\ ~(q \in nu /\ q \in E)
                      /\ ~(k.exec[q] # Idle /\ q \in E)
                      /\ nh[q].hdrque # <<>> => nh[q].act \/ nh[q].upd
    BY <1>7, <2>1 DEF Served
  <2>2. /\ k.hq[q].act <=> q \in k.ipi \/ k.exec[q] # Idle \/ q \in e
        /\ ~(q \in k.ipi /\ k.exec[q] # Idle) /\ ~(q \in k.ipi /\ q \in e)
        /\ ~(k.exec[q] # Idle /\ q \in e)
        /\ k.hq[q].hdrque # <<>> => k.hq[q].act \/ k.hq[q].upd
    BY <1>8 DEF Served
  <2>3. q \in nu <=> q \in k.ipi \/ (q \in A /\ q # p)
    OBVIOUS
  <2>4. q \in E <=> q \in e \/ (q = p /\ q \in A)
    OBVIOUS
  <2>5. q \in A <=> k.hq[q].upd /\ ~k.hq[q].act
    BY <1>2
  <2> HIDE DEF nu, E
  <2> QED BY <1>4, <2>2, <2>3, <2>4, <2>5
<1> HIDE DEF nu
<1>11. QueuedOnce(c.tq, c.hq, S) /\ Placed(c.hq, c.cb, c.no, c.exec, c.imm)
  <2>1. QueuedOnce(k.tq, k.hq, S) /\ Placed(k.hq, k.cb, k.no, k.exec, k.imm)
    BY <1>0 DEF KInv
  <2>2. c.tq = k.tq /\ c.cb = k.cb /\ c.no = k.no /\ c.imm = k.imm /\ c.exec = k.exec
    BY <1>7 DEF Same
  <2> QED BY <1>4, <1>7, <2>1, <2>2, QueuesStay
<1>12. Full(c, E)
  <2>1. /\ Same(c, k, {"tq", "time", "now"}) /\ Same(c, k, {"exec", "imm"})
        /\ Same(c, k, {"cb", "no", "exec", "imm"})
    BY <1>7 DEF Same
  <2>2. /\ Timely(c.tq, c.time, c.now) /\ Alone(c.exec, c.imm)
        /\ Remembered(c.cb, c.no, c.exec, c.imm)
    BY <1>0, <1>7, <2>1, Unmoved
  <2>3. StartedIn(c) = S
    BY <1>7, StartedSame DEF Same
  <2>4. E \subseteq Proc
    OBVIOUS
  <2> QED BY <1>7, <1>10, <1>11, <2>2, <2>3, <2>4 DEF Full, KInv
<1>13. Looked(c)
  BY <1>4, <1>7 DEF Looked
<1>14. CASE p \in A
  <2>1. Full(c, e \cup {p}) /\ p \notin e /\ r = handler_execution(c, p, by)
    BY <1>3, <1>9, <1>12, <1>14
  <2> QED BY <1>13, <2>1, Executed DEF r
<1>15. CASE p \notin A
  BY <1>3, <1>12, <1>13, <1>15 DEF r
<1> QED BY <1>14, <1>15

-----------------------------------------------------------------------------
(* The events that are due *)

LEMMA ConcatSet ==
  ASSUME NEW T, NEW s \in Seq(T), NEW t \in Seq(T), IsInjective(s), IsInjective(t),
         Range(s) \cap Range(t) = {}
  PROVE  s \o t \in Seq(T) /\ IsInjective(s \o t) /\ Range(s \o t) = Range(s) \cup Range(t)
<1> DEFINE u == s \o t
<1>1. /\ u \in Seq(T) /\ Len(u) = Len(s) + Len(t)
      /\ \A i \in 1..(Len(s) + Len(t)) : u[i] = IF i <= Len(s) THEN s[i] ELSE t[i - Len(s)]
  BY ConcatProperties
<1>2. /\ Len(s) \in Nat /\ Len(t) \in Nat /\ DOMAIN s = 1..Len(s) /\ DOMAIN t = 1..Len(t)
      /\ DOMAIN u = 1..(Len(s) + Len(t))
  BY <1>1
<1> HIDE DEF u
<1>3. ASSUME NEW i \in DOMAIN u
      PROVE  \/ i \in DOMAIN s /\ u[i] = s[i] /\ u[i] \in Range(s) /\ i <= Len(s)
             \/ i - Len(s) \in DOMAIN t /\ u[i] = t[i - Len(s)] /\ u[i] \in Range(t) /\ i > Len(s)
  BY <1>1, <1>2 DEF Range
<1>4. IsInjective(u)
  <2> SUFFICES ASSUME NEW i \in DOMAIN u, NEW j \in DOMAIN u, u[i] = u[j] PROVE i = j
    BY DEF IsInjective
  <2>1. i \in Int /\ j \in Int
    BY <1>2
  <2>2. CASE i \in DOMAIN s /\ u[i] = s[i] /\ u[i] \in Range(s)
    <3>1. j \in DOMAIN s /\ u[j] = s[j]
      BY <1>3, <2>2
    <3> QED BY <2>2, <3>1 DEF IsInjective
  <2>3. CASE i - Len(s) \in DOMAIN t /\ u[i] = t[i - Len(s)] /\ u[i] \in Range(t)
    <3>1. j - Len(s) \in DOMAIN t /\ u[j] = t[j - Len(s)]
      BY <1>3, <2>3
    <3>2. i - Len(s) = j - Len(s)
      BY <2>3, <3>1 DEF IsInjective
    <3> QED BY <1>2, <2>1, <3>2
  <2> QED BY <1>3, <2>2, <2>3
<1>5. Range(u) \subseteq Range(s) \cup Range(t)
  <2> SUFFICES ASSUME NEW i \in DOMAIN u PROVE u[i] \in Range(s) \cup Range(t)
    BY DEF Range
  <2> QED BY <1>3
<1>6. Range(s) \subseteq Range(u)
  <2> SUFFICES ASSUME NEW i \in DOMAIN s PROVE s[i] \in Range(u)
    BY DEF Range
  <2>1. i \in DOMAIN u /\ u[i] = s[i]
    BY <1>1, <1>2
  <2> QED BY <2>1 DEF Range
<1>7. Range(t) \subseteq Range(u)
  <2> SUFFICES ASSUME NEW i \in DOMAIN t PROVE t[i] \in Range(u)
    BY DEF Range
  <2>1. i + Len(s) \in DOMAIN u /\ u[i + Len(s)] = t[i]
    BY <1>1, <1>2
  <2> QED BY <2>1 DEF Range
<1> QED BY <1>1, <1>4, <1>5, <1>6, <1>7 DEF u

LEMMA CutSet ==
  ASSUME NEW T, NEW q \in Seq(T), IsInjective(q), NEW n \in 0..Len(q)
  PROVE  LET s == SubSeq(q, 1, n)
             t == SubSeq(q, n + 1, Len(q))
         IN  /\ s \in Seq(T) /\ IsInjective(s) /\ t \in Seq(T) /\ IsInjective(t)
             /\ Range(s) \cap Range(t) = {} /\ Range(s) \cup Range(t) = Range(q)
             /\ \A j \in DOMAIN t : n + j \in (n + 1)..Len(q) /\ t[j] = q[n + j]
<1> DEFINE s == SubSeq(q, 1, n)
           t == SubSeq(q, n + 1, Len(q))
<1>1. Len(q) \in Nat /\ n \in Nat /\ n <= Len(q) /\ DOMAIN q = 1..Len(q)
  OBVIOUS
<1>2. s \in Seq(T) /\ DOMAIN s = 1..n /\ \A j \in 1..n : s[j] = q[j]
  BY <1>1
<1>3. t \in Seq(T) /\ DOMAIN t = 1..(Len(q) - n) /\ \A j \in 1..(Len(q) - n) : t[j] = q[n + j]
  BY <1>1
<1> HIDE DEF s, t
<1>4. \A x, y \in DOMAIN q : q[x] = q[y] => x = y
  BY DEF IsInjective
<1>5. \A j \in DOMAIN t : n + j \in (n + 1)..Len(q) /\ n + j \in DOMAIN q /\ t[j] = q[n + j] /\ j \in Int
  BY <1>1, <1>3
<1>6. IsInjective(s)
  BY <1>1, <1>2, <1>4 DEF IsInjective
<1>7. IsInjective(t)
  <2> SUFFICES ASSUME NEW x \in DOMAIN t, NEW y \in DOMAIN t, t[x] = t[y] PROVE x = y
    BY DEF IsInjective
  <2>1. n + x = n + y
    BY <1>4, <1>5
  <2> QED BY <1>1, <1>5, <2>1
<1>8. Range(s) \cap Range(t) = {}
  <2> SUFFICES ASSUME NEW x \in DOMAIN s, NEW y \in DOMAIN t, s[x] = t[y] PROVE FALSE
    BY DEF Range
  <2>1. x \in DOMAIN q /\ x <= n /\ x = n + y
    BY <1>1, <1>2, <1>4, <1>5
  <2> QED BY <1>1, <1>5, <2>1
<1>9. Range(s) \cup Range(t) = Range(q)
  <2>1. ASSUME NEW x \in DOMAIN s PROVE s[x] \in Range(q)
    BY <1>1, <1>2 DEF Range
  <2>2. ASSUME NEW x \in DOMAIN t PROVE t[x] \in Range(q)
    BY <1>5 DEF Range
  <2>3. ASSUME NEW x \in DOMAIN q PROVE q[x] \in Range(s) \cup Range(t)
    <3>1. CASE x <= n
      <4>1. x \in DOMAIN s /\ s[x] = q[x]
        BY <1>1, <1>2, <3>1
      <4> QED BY <4>1 DEF Range
    <3>2. CASE x > n
      <4>1. x - n \in DOMAIN t /\ n + (x - n) = x
        BY <1>1, <1>3, <3>2
      <4>2. t[x - n] = q[x]
        BY <1>5, <4>1
      <4> QED BY <4>1, <4>2 DEF Range
    <3> QED BY <1>1, <3>1, <3>2
  <2> QED BY <2>1, <2>2, <2>3 DEF Range
<1> QED BY <1>2, <1>3, <1>5, <1>6, <1>7, <1>8, <1>9 DEF s, t

(* What is due is at the head of the queue.                                *)
LEMMA DuePrefix ==
  ASSUME NEW now \in Int, timer_queue \in Seq(Object), time \in [Object -> Int],
         NEW old, Timely(timer_queue, time, old)
  PROVE  /\ Due(now) \in 0..Len(timer_queue)
         /\ \A j \in (Due(now) + 1)..Len(timer_queue) : time[timer_queue[j]] > now
<1> DEFINE I == {j \in 1..Len(timer_queue) : time[timer_queue[j]] > now}
           i == SelectInSeq(timer_queue, LAMBDA o : time[o] > now)
<1>1. Len(timer_queue) \in Nat /\ DOMAIN timer_queue = 1..Len(timer_queue)
  OBVIOUS
<1>2. i = IF I # {} THEN Min(I) ELSE 0
  BY DEF SelectInSeq
<1>3. Due(now) = IF i = 0 THEN Len(timer_queue) ELSE i - 1
  BY DEF Due
<1>4. I \subseteq 1..Len(timer_queue)
  OBVIOUS
<1>5. \A j \in 1..Len(timer_queue) : j \in I <=> time[timer_queue[j]] > now
  OBVIOUS
<1> HIDE DEF I, i
<1>6. CASE I = {}
  BY <1>1, <1>2, <1>3, <1>6
<1>7. CASE I # {}
  <2>1. i \in I /\ i \in 1..Len(timer_queue)
    BY <1>1, <1>2, <1>4, <1>7, MinOf
  <2>2. Due(now) = i - 1
    BY <1>1, <1>3, <2>1
  <2>3. ASSUME NEW j \in i..Len(timer_queue) PROVE time[timer_queue[j]] > now
    <3>1. j \in 1..Len(timer_queue) /\ i <= j
      BY <1>1, <2>1
    <3>2. time[timer_queue[i]] \in Int /\ time[timer_queue[j]] \in Int /\ time[timer_queue[i]] > now
      BY <1>1, <1>5, <2>1, <3>1
    <3>3. i < j => time[timer_queue[i]] <= time[timer_queue[j]]
      BY <1>1, <2>1, <3>1 DEF Timely
    <3> QED BY <1>1, <2>1, <3>1, <3>2, <3>3
  <2> QED BY <1>1, <2>1, <2>2, <2>3
<1> QED BY <1>6, <1>7

(* The events at the head of the queue leave it.                           *)
LEMMA CutOff ==
  ASSUME NEW k, NEW e, NEW S, KInv(k, e, S), NEW n \in 0..Len(k.tq), NEW now \in Int,
         \A j \in (n + 1)..Len(k.tq) : k.time[k.tq[j]] > now
  PROVE  LET r == [k EXCEPT !.now = now, !.tq = SubSeq(@, n + 1, Len(@))]
             due == SubSeq(k.tq, 1, n)
         IN  /\ KInv(r, e, S \ Range(due))
             /\ due \in Seq(Object) /\ IsInjective(due)
             /\ \A o \in Range(due) : ~Queued(r.tq, r.hq, o) /\ Queued(k.tq, k.hq, o)
             /\ Same(r, k, {"time", "hq", "cb", "no", "exec", "imm", "ipi"})
<1> DEFINE t == SubSeq(k.tq, n + 1, Len(k.tq))
           due == SubSeq(k.tq, 1, n)
           r == [k EXCEPT !.now = now, !.tq = SubSeq(@, n + 1, Len(@))]
<1>0. k \in KType /\ QueuedOnce(k.tq, k.hq, S) /\ Timely(k.tq, k.time, k.now) /\ e \subseteq Proc
  BY DEF KInv
<1>1. k.tq \in Seq(Object) /\ Len(k.tq) \in Nat /\ DOMAIN k.tq = 1..Len(k.tq)
  BY <1>0, KFields
<1>2. /\ due \in Seq(Object) /\ IsInjective(due) /\ t \in Seq(Object) /\ IsInjective(t)
      /\ Range(due) \cap Range(t) = {} /\ Range(due) \cup Range(t) = Range(k.tq)
      /\ \A j \in DOMAIN t : n + j \in (n + 1)..Len(k.tq) /\ t[j] = k.tq[n + j]
  <2>1. IsInjective(k.tq)
    BY <1>0 DEF QueuedOnce
  <2> QED BY <1>1, <2>1, CutSet
<1>3. r = [k EXCEPT !.now = now, !.tq = t]
  BY <1>0 DEF KType
<1> HIDE DEF t, due, r
<1>4. /\ r \in KType /\ r.now = now /\ r.tq = t
      /\ Same(r, k, {"time", "hq", "cb", "no", "exec", "imm", "ipi"})
  BY <1>0, <1>2, <1>3 DEF KType, Same
<1>5. r.hq = k.hq /\ r.time = k.time
  BY <1>4 DEF Same
<1>6. QueuedOnce(t, k.hq, S \ Range(due))
  <2>1. \A h \in Handler : h \in S \ Range(due) <=> Queued(t, k.hq, h)
    BY <1>0, <1>2 DEF QueuedOnce, Queued
  <2>2. \A p \in Proc : Range(t) \cap Queue(k.hq, p) = {}
    BY <1>0, <1>2 DEF QueuedOnce
  <2> QED BY <1>0, <1>2, <2>1, <2>2 DEF QueuedOnce
<1>7. Timely(t, k.time, now)
  <2>1. \A o \in Range(t) : k.time[o] > now
    BY <1>2 DEF Range
  <2>2. ASSUME NEW i \in DOMAIN t, NEW j \in DOMAIN t, i < j PROVE k.time[t[i]] <= k.time[t[j]]
    <3>1. n + i \in DOMAIN k.tq /\ n + j \in DOMAIN k.tq /\ n + i < n + j
      <4>1. DOMAIN t \subseteq Nat
        BY <1>2
      <4> QED BY <1>1, <1>2, <2>2, <4>1
    <3> QED BY <1>0, <1>2, <3>1 DEF Timely
  <2> QED BY <2>1, <2>2 DEF Timely
<1>8. ASSUME NEW o \in Range(due) PROVE ~Queued(r.tq, r.hq, o) /\ Queued(k.tq, k.hq, o)
  BY <1>0, <1>2, <1>4, <1>5 DEF QueuedOnce, Queued
<1>9. KInv(r, e, S \ Range(due))
  <2>1. /\ Same(r, k, {"hq", "ipi", "exec"}) /\ Same(r, k, {"exec", "imm"})
        /\ Same(r, k, {"cb", "no", "exec", "imm"}) /\ Same(r, k, {"hq", "cb", "no", "exec", "imm"})
    BY <1>4 DEF Same
  <2>2. /\ Served(r.hq, r.ipi, r.exec, e) /\ Alone(r.exec, r.imm)
        /\ Remembered(r.cb, r.no, r.exec, r.imm) /\ Placed(r.hq, r.cb, r.no, r.exec, r.imm)
    BY <1>4, <2>1, Unmoved
  <2> QED BY <1>0, <1>4, <1>5, <1>6, <1>7, <2>2 DEF KInv
<1> QED BY <1>2, <1>4, <1>8, <1>9 DEF r, due

(* They go to the queues of the processors that are to run them.           *)
LEMMA Expired ==
  ASSUME NEW k, NEW e, NEW S, KInv(k, e, S), NEW due \in Seq(Object), IsInjective(due),
         \A o \in Range(due) : ~Queued(k.tq, k.hq, o),
         \A h \in Range(due) \cap Handler : k.cb[h] # NOEXS
  PROVE  LET r == expire(k, due)
         IN  /\ KInv(r, e, S \cup (Range(due) \cap Handler))
             /\ Same(r, k, {"now", "tq", "cb", "no", "exec", "imm", "ipi"})
<1> DEFINE Mine(p) == {i \in DOMAIN due : due[i] \in Handler /\ Target(k, TimerProc, due[i]) = p}
           ord(p) == InOrder(due, Mine(p))
           nt == [o \in Object |-> IF o \in Task /\ Contains(due, o) THEN 0 ELSE k.time[o]]
           nh == [p \in Proc |-> [k.hq[p] EXCEPT !.hdrque = @ \o ord(p), !.upd = @ \/ Mine(p) # {}]]
           r == expire(k, due)
           New(p) == {due[i] : i \in Mine(p)}
<1>0. /\ k \in KType /\ QueuedOnce(k.tq, k.hq, S) /\ Timely(k.tq, k.time, k.now) /\ e \subseteq Proc
      /\ Served(k.hq, k.ipi, k.exec, e) /\ Placed(k.hq, k.cb, k.no, k.exec, k.imm)
  BY DEF KInv
<1>1. /\ k.tq \in Seq(Object) /\ k.hq \in [Proc -> HandlerQueue] /\ k.time \in [Object -> Int]
  BY <1>0, KFields
<1>2. r = [k EXCEPT !.time = nt, !.hq = nh]
  BY <1>0 DEF expire
<1>3. \A p \in Proc : New(p) \subseteq Handler /\ New(p) \subseteq Range(due)
  BY DEF Range
<1>4. \A h \in Range(due) \cap Handler : \E p \in Proc : h \in New(p)
  <2> SUFFICES ASSUME NEW h \in Range(due) \cap Handler PROVE \E p \in Proc : h \in New(p)
    OBVIOUS
  <2>1. Target(k, TimerProc, h) \in Proc
    BY <1>0, Block, TimerAssumption DEF Target
  <2>2. PICK i \in DOMAIN due : h = due[i]
    BY DEF Range
  <2> QED BY <2>1, <2>2
<1>5. \A p, q \in Proc : p # q => New(p) \cap New(q) = {}
  <2> SUFFICES ASSUME NEW p \in Proc, NEW q \in Proc, p # q,
                      NEW i \in Mine(p), NEW j \in Mine(q), due[i] = due[j]
               PROVE  FALSE
    OBVIOUS
  <2> QED BY DEF IsInjective
<1>6. \A p \in Proc, a \in Alm : a \in New(p) => p = Place(k.cb, a)
  BY DEF Target, Place
<1>7. ASSUME NEW p \in Proc
      PROVE  /\ ord(p) \in Seq(New(p)) /\ IsInjective(ord(p)) /\ Range(ord(p)) = New(p)
             /\ Mine(p) = {} => New(p) = {}
             /\ Mine(p) \subseteq DOMAIN due
  <2>1. Mine(p) \in SUBSET DOMAIN due
    OBVIOUS
  <2> HIDE DEF Mine
  <2>2. ord(p) \in Seq(New(p)) /\ IsInjective(ord(p)) /\ Range(ord(p)) = New(p)
    BY <2>1, InOrderSet
  <2> QED BY <2>1, <2>2
<1> HIDE DEF ord, Mine, New
<1>8. ASSUME NEW p \in Proc
      PROVE  /\ nh[p] \in HandlerQueue /\ nh[p].act = k.hq[p].act
             /\ k.hq[p].upd => nh[p].upd
             /\ New(p) # {} => nh[p].upd
             /\ IsInjective(nh[p].hdrque) /\ Queue(nh, p) = Queue(k.hq, p) \cup New(p)
             /\ nh[p].hdrque # <<>> => k.hq[p].hdrque # <<>> \/ New(p) # {}
  <2> DEFINE s == k.hq[p].hdrque
             u == s \o ord(p)
             b == k.hq[p].upd \/ Mine(p) # {}
  <2>1. k.hq[p] \in [upd : BOOLEAN, act : BOOLEAN, hdrque : Seq(Handler)]
    BY <1>1 DEF HandlerQueue
  <2>2. s \in Seq(Handler) /\ IsInjective(s) /\ Range(s) = Queue(k.hq, p)
    BY <1>0, <2>1 DEF QueuedOnce, Queue
  <2>3. ord(p) \in Seq(Handler) /\ IsInjective(ord(p)) /\ Range(ord(p)) = New(p)
    BY <1>3, <1>7
  <2>4. Range(s) \cap New(p) = {}
    BY <1>3, <2>2 DEF Queued
  <2> HIDE DEF s
  <2>5. u \in Seq(Handler) /\ IsInjective(u) /\ Range(u) = Range(s) \cup New(p)
    BY <2>2, <2>3, <2>4, ConcatSet
  <2>6. nh[p] = [k.hq[p] EXCEPT !.hdrque = u, !.upd = b]
    BY <2>1 DEF s
  <2> HIDE DEF nh, u
  <2>7. nh[p] \in HandlerQueue /\ nh[p].act = k.hq[p].act /\ nh[p].hdrque = u /\ nh[p].upd = b
    <3>1. b \in BOOLEAN
      BY <2>1
    <3> HIDE DEF b
    <3> QED BY <2>1, <2>5, <2>6, <3>1 DEF HandlerQueue
  <2>8. u # <<>> => s # <<>> \/ New(p) # {}
    <3> SUFFICES ASSUME u # <<>> PROVE Range(s) # {} \/ New(p) # {}
      BY DEF Range
    <3> QED BY <2>5, EmptySet
  <2> QED BY <1>7, <2>2, <2>5, <2>7, <2>8 DEF Queue, s
<1>9. nh \in [Proc -> HandlerQueue]
  BY <1>8
<1>10. nt \in [Object -> Int] /\ \A o \in Object : o \notin Range(due) => nt[o] = k.time[o]
  <2>1. \A o \in Object : Contains(due, o) => o \in Range(due)
    BY DEF Contains, Range
  <2> QED BY <1>1, <2>1
<1> HIDE DEF nt, nh, r
<1>11. /\ r \in KType /\ r.time = nt /\ r.hq = nh
       /\ Same(r, k, {"now", "tq", "cb", "no", "exec", "imm", "ipi"})
  BY <1>0, <1>2, <1>9, <1>10 DEF KType, Same
<1>12. /\ r.now = k.now /\ r.tq = k.tq /\ r.cb = k.cb /\ r.no = k.no
       /\ r.exec = k.exec /\ r.imm = k.imm /\ r.ipi = k.ipi
  BY <1>11 DEF Same
<1>13. QueuedOnce(k.tq, nh, S \cup (Range(due) \cap Handler))
  <2>1. \A h \in Handler : h \in S \cup (Range(due) \cap Handler) <=> Queued(k.tq, nh, h)
    BY <1>0, <1>3, <1>4, <1>8 DEF QueuedOnce, Queued
  <2>2. \A p \in Proc : Range(k.tq) \cap Queue(nh, p) = {}
    BY <1>0, <1>3, <1>8 DEF QueuedOnce, Queued
  <2>3. ASSUME NEW p \in Proc, NEW q \in Proc, p # q
        PROVE  Queue(nh, p) \cap Queue(nh, q) = {}
    BY <1>0, <1>3, <1>5, <1>8, <2>3 DEF QueuedOnce, Queued
  <2> QED BY <1>0, <1>8, <2>1, <2>2, <2>3 DEF QueuedOnce
<1>14. Timely(k.tq, nt, k.now)
  <2>1. \A i \in DOMAIN k.tq : k.tq[i] \in Object /\ nt[k.tq[i]] = k.time[k.tq[i]]
    <3> SUFFICES ASSUME NEW i \in DOMAIN k.tq
                 PROVE  k.tq[i] \in Object /\ k.tq[i] \notin Range(due)
      BY <1>10
    <3>1. k.tq[i] \in Object
      BY <1>1
    <3>2. k.tq[i] \in Range(k.tq)
      BY DEF Range
    <3> QED BY <3>1, <3>2 DEF Queued
  <2> QED BY <1>0, <2>1 DEF Timely, Range
<1>15. Served(nh, k.ipi, k.exec, e)
  BY <1>0, <1>8 DEF Served
<1>16. Placed(nh, k.cb, k.no, k.exec, k.imm)
  <2>1. \A p \in Proc, a \in Alm : a \in Queue(nh, p) => p = Place(k.cb, a)
    BY <1>0, <1>6, <1>8 DEF Placed
  <2> QED BY <1>0, <2>1 DEF Placed
<1>17. KInv(r, e, S \cup (Range(due) \cap Handler))
  <2>1. Alone(k.exec, k.imm) /\ Remembered(k.cb, k.no, k.exec, k.imm)
    BY DEF KInv
  <2> QED BY <1>0, <1>11, <1>12, <1>13, <1>14, <1>15, <1>16, <2>1 DEF KInv
<1> QED BY <1>11, <1>17 DEF r

-----------------------------------------------------------------------------
(* The actions *)

LEMMA FullParts ==
  ASSUME NEW k, NEW e, Full(k, e)
  PROVE  KInv(k, e, StartedIn(k)) /\ k \in KType /\ e \subseteq Proc
BY DEF Full, KInv

(* What a call computes is the next state. *)
LEMMA BecomesK ==
  ASSUME NEW k \in KType, Becomes(k)
  PROVE  K' = k
<1> DEFINE f == [h \in Handler |-> IF h \in Cyc THEN cyccb'[h] ELSE almcb'[h]]
<1>1. k.cb \in [Handler -> CycCB \cup AlmCB \cup {NOEXS}]
  BY KFields DEF ControlBlocks
<1>2. f = k.cb
  <2>1. \A h \in Handler : f[h] = k.cb[h]
    BY DEF Becomes, Handler
  <2> QED BY <1>1, <2>1
<1>3. K' = [now |-> k.now, tq |-> k.tq, time |-> k.time, hq |-> k.hq, cb |-> f,
            no |-> k.no, exec |-> k.exec, imm |-> k.imm, ipi |-> k.ipi]
  BY DEF Becomes, K
<1> HIDE DEF f
<1>4. k = [now |-> k.now, tq |-> k.tq, time |-> k.time, hq |-> k.hq, cb |-> k.cb,
           no |-> k.no, exec |-> k.exec, imm |-> k.imm, ipi |-> k.ipi]
  BY DEF KType
<1> QED BY <1>2, <1>3, <1>4

LEMMA Then ==
  ASSUME NEW k, Full(k, ended'), Looked(k), Becomes(k)
  PROVE  TimerInv'
<1>1. K' = k
  BY FullParts, BecomesK
<1> QED BY <1>1 DEF TimerInv

(* The fields of K are the variables. *)
LEMMA NowK ==
  ASSUME TimerInv
  PROVE  /\ KInv(K, ended, StartedIn(K)) /\ Full(K, ended) /\ Looked(K)
         /\ K \in KType /\ ended \subseteq Proc
         /\ K.now = current_time /\ K.tq = timer_queue /\ K.time = time /\ K.hq = handler_queue
         /\ K.no = hdrno /\ K.exec = exec /\ K.imm = imm /\ K.ipi = ipi
         /\ \A c \in Cyc : K.cb[c] = cyccb[c]
         /\ \A a \in Alm : K.cb[a] = almcb[a]
         /\ \A h \in Handler : h \in StartedIn(K) <=> Started(h)
<1>1. Full(K, ended) /\ Looked(K)
  BY DEF TimerInv
<1>2. KInv(K, ended, StartedIn(K)) /\ K \in KType /\ ended \subseteq Proc
  BY <1>1, FullParts
<1>3. /\ K.now = current_time /\ K.tq = timer_queue /\ K.time = time /\ K.hq = handler_queue
      /\ K.no = hdrno /\ K.exec = exec /\ K.imm = imm /\ K.ipi = ipi
  BY DEF K
<1>4. \A c \in Cyc : K.cb[c] = cyccb[c]
  BY DEF K, Handler
<1>5. \A a \in Alm : K.cb[a] = almcb[a]
  BY TimerAssumption DEF K, Handler
<1>6. \A h \in Handler : h \in StartedIn(K) <=> Started(h)
  BY DEF StartedIn, Started, Exists, Stat
<1> QED BY <1>1, <1>2, <1>3, <1>4, <1>5, <1>6

LEMMA TimerTicks ==
  ASSUME TimerInv, timer_handler
  PROVE  TimerInv'
<1> DEFINE now == current_time + TIMER_PERIOD
           n == Due(now)
           due == SubSeq(timer_queue, 1, n)
           a == [K EXCEPT !.now = now, !.tq = SubSeq(@, n + 1, Len(@))]
           b == expire(a, due)
           c == handler_update(b, TimerProc, "INT")
           S == StartedIn(K)
<1>0. KInv(K, ended, S) /\ K \in KType /\ ended \subseteq Proc
      /\ K.now = current_time /\ K.tq = timer_queue /\ K.time = time
  BY NowK
<1>1. now \in Int /\ timer_queue \in Seq(Object) /\ time \in [Object -> Int]
  <2>1. current_time \in Int /\ timer_queue \in Seq(Object) /\ time \in [Object -> Int]
    BY <1>0, KFields
  <2> QED BY <2>1, TimerAssumption
<1>2. Becomes(c) /\ ended' = ended
  BY DEF timer_handler
<1> HIDE DEF now
<1>3. n \in 0..Len(K.tq) /\ \A j \in (n + 1)..Len(K.tq) : K.time[K.tq[j]] > now
  <2>1. Timely(timer_queue, time, current_time)
    BY <1>0 DEF KInv
  <2>2. /\ n \in 0..Len(timer_queue)
        /\ \A j \in (n + 1)..Len(timer_queue) : time[timer_queue[j]] > now
    BY <1>1, <2>1, DuePrefix
  <2> QED BY <1>0, <2>2
<1> HIDE DEF n
<1>4. /\ KInv(a, ended, S \ Range(due))
      /\ due \in Seq(Object) /\ IsInjective(due)
      /\ \A o \in Range(due) : ~Queued(a.tq, a.hq, o) /\ Queued(K.tq, K.hq, o)
      /\ Same(a, K, {"time", "hq", "cb", "no", "exec", "imm", "ipi"})
  <2>1. due = SubSeq(K.tq, 1, n)
    BY <1>0
  <2> HIDE DEF due
  <2> QED BY <1>0, <1>1, <1>3, <2>1, CutOff
<1> HIDE DEF a, due
<1>5. \A h \in Range(due) \cap Handler : h \in S
  BY <1>0, <1>4 DEF KInv, QueuedOnce
<1>6. a.cb = K.cb
  BY <1>4 DEF Same
<1>7. /\ KInv(b, ended, (S \ Range(due)) \cup (Range(due) \cap Handler))
      /\ Same(b, a, {"now", "tq", "cb", "no", "exec", "imm", "ipi"})
  <2>1. \A h \in Range(due) \cap Handler : a.cb[h] # NOEXS
    BY <1>5, <1>6 DEF StartedIn
  <2> DEFINE T == S \ Range(due)
  <2>2. KInv(a, ended, T)
    BY <1>4
  <2> HIDE DEF T
  <2>3. /\ KInv(b, ended, T \cup (Range(due) \cap Handler))
        /\ Same(b, a, {"now", "tq", "cb", "no", "exec", "imm", "ipi"})
    BY <1>4, <2>1, <2>2, Expired
  <2> QED BY <2>3 DEF T
<1> HIDE DEF b
<1>8. Full(b, ended)
  <2>1. StartedIn(b) = S
    BY <1>6, <1>7, StartedSame DEF Same
  <2>2. (S \ Range(due)) \cup (Range(due) \cap Handler) = S
    BY <1>5 DEF StartedIn
  <2> QED BY <1>7, <2>1, <2>2 DEF Full
<1>9. Full(c, ended) /\ Looked(c)
  BY <1>0, <1>8, Updated, TimerAssumption
<1> HIDE DEF c
<1> QED BY <1>2, <1>9, Then

LEMMA TakesRequest ==
  ASSUME TimerInv, NEW p \in Proc, handler_interrupt(p)
  PROVE  TimerInv'
<1> DEFINE k == [K EXCEPT !.ipi = @ \ {p}]
           r == handler_execution(k, p, "INT")
<1>1. KInv(K, ended, StartedIn(K)) /\ p \in K.ipi /\ Looked(K) /\ ended \subseteq Proc
  BY NowK DEF handler_interrupt
<1>2. /\ KInv(k, ended \cup {p}, StartedIn(K)) /\ p \notin ended
      /\ Same(k, K, {"now", "tq", "time", "hq", "cb", "no", "exec", "imm"})
  BY <1>1, Accepted
<1>3. Becomes(r) /\ ended' = ended
  BY DEF handler_interrupt
<1> HIDE DEF k
<1>4. Full(k, ended \cup {p}) /\ Looked(k)
  BY <1>1, <1>2, StartedSame DEF Full, Same, Looked
<1>5. Full(r, ended) /\ Looked(r)
  BY <1>1, <1>2, <1>4, Executed
<1> HIDE DEF r
<1> QED BY <1>3, <1>5, Then

(* A handler that is no longer among those that run: its flags say so.     *)
LEMMA RunCleared ==
  ASSUME NEW k, NEW e, Full(k, e), NEW inst \in Instances, Known(k.cb, k.no, inst),
         NEW flags, "STA" \notin flags,
         inst.hdr \in Alm => \A q \in Proc :
           /\ k.exec[q] # Idle => k.exec[q].inst # inst
           /\ k.imm[q] # Idle => k.imm[q] # inst
  PROVE  LET r == ClearRun(k, inst, flags)
         IN  Full(r, e) /\ Same(r, k, {"now", "tq", "time", "hq", "no", "exec", "imm", "ipi"})
<1> DEFINE h == inst.hdr
           s == k.cb[h].stat \ flags
           r == ClearRun(k, inst, flags)
<1>0. KInv(k, e, StartedIn(k)) /\ k \in KType
  BY FullParts
<1>1. h \in Handler /\ inst = [hdr |-> h, no |-> inst.no]
  BY DEF Instances
<1>2. CASE k.no[h] # inst.no
  <2>1. r = k
    BY <1>2 DEF ClearRun
  <2> QED BY <2>1 DEF Same
<1>3. CASE k.no[h] = inst.no
  <2>1. r = WithStat(k, h, s)
    BY <1>0, <1>3 DEF ClearRun, WithStat, KType
  <2>2. k.cb[h] # NOEXS /\ inst = Today(k.no, h)
    BY <1>1, <1>3 DEF Known, Today
  <2>3. s \in SUBSET Flags
    BY <1>0, <1>1, <2>2, Block
  <2>4. h \in Alm => \A q \in Proc : ~RunsIn(k, q, h) /\ ~RunsAtOnce(k, q, h)
    BY <2>2 DEF RunsIn, RunsAtOnce
  <2>5. "STA" \in s <=> h \in StartedIn(k)
    BY <1>1, <2>2 DEF StartedIn
  <2> HIDE DEF s, r, h
  <2>6. /\ KInv(r, e, StartedIn(k)) /\ Same(r, k, {"now", "tq", "time", "hq", "no", "exec", "imm", "ipi"})
        /\ r.cb[h] # NOEXS /\ r.cb[h].stat = s
        /\ \A x \in Handler \ {h} : r.cb[x] = k.cb[x]
    BY <1>0, <1>1, <2>1, <2>2, <2>3, <2>4, Restated
  <2>7. StartedIn(r) = StartedIn(k)
    BY <1>1, <2>5, <2>6 DEF StartedIn
  <2> QED BY <2>6, <2>7 DEF Full, r
<1> QED BY <1>2, <1>3

LEMMA Returns ==
  ASSUME TimerInv, NEW p \in Proc, HandlerReturns(p)
  PROVE  TimerInv'
<1> DEFINE inst == exec[p].inst
           a == [K EXCEPT !.exec[p] = Idle]
           b == ClearRun(a, inst, {"RUN"})
           c == handler_execution(b, p, exec[p].by)
           E == ended \cup {p}
<1>0. /\ KInv(K, ended, StartedIn(K)) /\ Looked(K) /\ K \in KType /\ ended \subseteq Proc
      /\ K.exec = exec
  BY NowK
<1>1. exec[p] # Idle /\ ended' = ended
  BY DEF HandlerReturns
<1>2. inst \in Instances /\ exec[p].by \in {"INT", "TASK"}
  BY <1>0, <1>1, Runners
<1>3. Becomes(c)
  <2>1. [ClearRun(K, inst, {"RUN"}) EXCEPT !.exec[p] = Idle] = b
    BY <1>0 DEF ClearRun, KType
  <2> HIDE DEF b
  <2> QED BY <2>1 DEF HandlerReturns
<1>4. /\ KInv(a, E, StartedIn(K)) /\ p \notin ended /\ a.exec[p] = Idle
      /\ Same(a, K, {"now", "tq", "time", "hq", "cb", "no", "imm", "ipi"})
      /\ \A q \in Proc : q # p => a.exec[q] = exec[q]
  <2>1. /\ KInv(a, ended \cup {p}, StartedIn(K)) /\ p \notin ended /\ a.exec[p] = Idle
        /\ Same(a, K, {"now", "tq", "time", "hq", "cb", "no", "imm", "ipi"})
    BY <1>0, <1>1, ExecEnds
  <2>2. \A q \in Proc : q # p => a.exec[q] = exec[q]
    BY <1>0 DEF KType
  <2> QED BY <2>1, <2>2
<1> HIDE DEF a, E
<1>5. a.hq = K.hq /\ a.cb = K.cb /\ a.no = K.no /\ a.imm = K.imm
  BY <1>4 DEF Same
<1>6. Full(a, E)
  BY <1>4, <1>5, StartedSame DEF Full
<1>7. Known(a.cb, a.no, inst)
  BY <1>0, <1>1, <1>5 DEF KInv, Remembered
<1>8. ASSUME inst.hdr \in Alm, NEW q \in Proc
      PROVE  /\ a.exec[q] # Idle => a.exec[q].inst # inst
             /\ a.imm[q] # Idle => a.imm[q] # inst
  BY <1>0, <1>1, <1>4, <1>5, <1>8 DEF KInv, Alone
<1>9. Full(b, E) /\ Same(b, a, {"now", "tq", "time", "hq", "no", "exec", "imm", "ipi"})
  <2> HIDE DEF inst
  <2>1. "STA" \notin {"RUN"}
    OBVIOUS
  <2> QED BY <1>2, <1>6, <1>7, <1>8, <2>1, RunCleared
<1>10. Looked(b)
  BY <1>0, <1>5, <1>9 DEF Looked, Same
<1> HIDE DEF b
<1>11. Full(c, ended) /\ Looked(c)
  <2>1. Full(b, ended \cup {p})
    BY <1>9 DEF E
  <2> QED BY <1>0, <1>2, <1>4, <1>10, <2>1, Executed
<1> HIDE DEF c
<1> QED BY <1>1, <1>3, <1>11, Then

LEMMA OnceReturns ==
  ASSUME TimerInv, NEW p \in Proc, ImmediateReturns(p)
  PROVE  TimerInv'
<1> DEFINE inst == imm[p]
           a == [K EXCEPT !.imm[p] = Idle]
           b == ClearRun(a, inst, {"RUN", "IMM"})
<1>0. /\ KInv(K, ended, StartedIn(K)) /\ Looked(K) /\ K \in KType
      /\ K.imm = imm
  BY NowK
<1>1. imm[p] # Idle /\ ended' = ended
  BY DEF ImmediateReturns
<1>2. inst \in Instances
  BY <1>0, <1>1, Runners
<1>3. Becomes(b)
  <2>1. [ClearRun(K, inst, {"RUN", "IMM"}) EXCEPT !.imm[p] = Idle] = b
    BY <1>0 DEF ClearRun, KType
  <2> HIDE DEF b
  <2> QED BY <2>1 DEF ImmediateReturns
<1>4. /\ KInv(a, ended, StartedIn(K))
      /\ Same(a, K, {"now", "tq", "time", "hq", "cb", "no", "exec", "ipi"})
      /\ a.imm[p] = Idle
      /\ \A q \in Proc : q # p => a.imm[q] = imm[q]
  <2>1. KInv(a, ended, StartedIn(K)) /\ Same(a, K, {"now", "tq", "time", "hq", "cb", "no", "exec", "ipi"})
    BY <1>0, ImmEnds
  <2>2. a.imm[p] = Idle /\ \A q \in Proc : q # p => a.imm[q] = imm[q]
    BY <1>0 DEF KType
  <2> QED BY <2>1, <2>2
<1> HIDE DEF a
<1>5. a.hq = K.hq /\ a.cb = K.cb /\ a.no = K.no /\ a.exec = K.exec
  BY <1>4 DEF Same
<1>6. Full(a, ended)
  BY <1>4, <1>5, StartedSame DEF Full
<1>7. Known(a.cb, a.no, inst)
  BY <1>0, <1>1, <1>5 DEF KInv, Remembered
<1>8. ASSUME inst.hdr \in Alm, NEW q \in Proc
      PROVE  /\ a.exec[q] # Idle => a.exec[q].inst # inst
             /\ a.imm[q] # Idle => a.imm[q] # inst
  BY <1>0, <1>1, <1>4, <1>5, <1>8 DEF KInv, Alone
<1>9. Full(b, ended) /\ Same(b, a, {"now", "tq", "time", "hq", "no", "exec", "imm", "ipi"})
  <2> HIDE DEF inst
  <2>1. "STA" \notin {"RUN", "IMM"}
    OBVIOUS
  <2> QED BY <1>2, <1>6, <1>7, <1>8, <2>1, RunCleared
<1>10. Looked(b)
  BY <1>0, <1>5, <1>9 DEF Looked, Same
<1> HIDE DEF b
<1> QED BY <1>1, <1>3, <1>9, <1>10, Then

(* The task that runs a loop ends; nobody goes on with it.                 *)
LEMMA LoopLeft ==
  ASSUME TimerInv, NEW p \in Proc, TaskEnds(p)
  PROVE  TimerInv'
<1> DEFINE a == [K EXCEPT !.exec[p] = Idle]
<1>0. /\ KInv(K, ended, StartedIn(K)) /\ Looked(K) /\ K.exec = exec
  BY NowK
<1>1. K' = a /\ ended' = ended \cup {p} /\ exec[p] # Idle
  <2>1. /\ exec' = [exec EXCEPT ![p] = Idle] /\ ended' = ended \cup {p} /\ exec[p] # Idle
        /\ UNCHANGED <<current_time, timer_queue, time, handler_queue, cyccb, almcb, hdrno, imm, ipi>>
    BY DEF TaskEnds
  <2>2. K' = [K EXCEPT !.exec = exec']
    <3> DEFINE f == [h \in Handler |-> IF h \in Cyc THEN cyccb[h] ELSE almcb[h]]
               g == [h \in Handler |-> IF h \in Cyc THEN cyccb'[h] ELSE almcb'[h]]
    <3>1. f = g
      BY <2>1
    <3>2. K' = [now |-> current_time', tq |-> timer_queue', time |-> time', hq |-> handler_queue',
                cb |-> g, no |-> hdrno', exec |-> exec', imm |-> imm', ipi |-> ipi']
      BY DEF K
    <3>3. K = [now |-> current_time, tq |-> timer_queue, time |-> time, hq |-> handler_queue,
               cb |-> f, no |-> hdrno, exec |-> exec, imm |-> imm, ipi |-> ipi]
      BY DEF K
    <3> HIDE DEF f, g
    <3> QED BY <2>1, <3>1, <3>2, <3>3
  <2>3. K.exec = exec
    BY <1>0
  <2> QED BY <2>1, <2>2, <2>3
<1>2. KInv(a, ended \cup {p}, StartedIn(K))
      /\ Same(a, K, {"now", "tq", "time", "hq", "cb", "no", "imm", "ipi"})
  BY <1>0, <1>1, ExecEnds
<1> HIDE DEF a
<1>3. Full(a, ended \cup {p}) /\ Looked(a)
  BY <1>0, <1>2, StartedSame DEF Full, Looked, Same
<1> QED BY <1>1, <1>3 DEF TimerInv

-----------------------------------------------------------------------------
(* The calls *)

(* immediate_call_cychdr: of a handler whose event is in no queue.         *)
LEMMA CycAtOnce ==
  ASSUME NEW k, NEW e, NEW S, KInv(k, e, S), Looked(k), NEW c \in Cyc, c \in StartedIn(k),
         S \cup {c} = StartedIn(k), ~Queued(k.tq, k.hq, c),
         NEW p \in Proc, k.imm[p] = Idle
  PROVE  LET r == immediate_call_cychdr(k, p, c)
         IN  Full(r, e) /\ Looked(r)
<1> DEFINE r == immediate_call_cychdr(k, p, c)
           T == S \cup {c}
<1>0. /\ k \in KType /\ c \in Handler /\ c \in Object /\ c \notin Alm /\ k.cb[c] # NOEXS
      /\ e \subseteq Proc
  BY TimerAssumption DEF KInv, Handler, Object, StartedIn
<1>1. CASE k.cb[c].assprc # Idle
  <2> DEFINE x == enqueue_handler(k, Target(k, p, c), c)
  <2>1. r = handler_update(x, p, "TASK")
    BY <1>1 DEF immediate_call_cychdr, distribute
  <2>2. Target(k, p, c) \in Proc
    BY <1>0, <1>1, Block DEF Target
  <2>3. KInv(x, e, S \cup {c}) /\ Same(x, k, {"now", "tq", "time", "cb", "no", "exec", "imm", "ipi"})
    BY <1>0, <2>2, Enqueued
  <2> HIDE DEF x, r
  <2>4. Full(x, e)
    <3>1. StartedIn(x) = S \cup {c}
      BY <2>3 DEF StartedIn, Same
    <3> QED BY <2>3, <3>1 DEF Full
  <2>5. Full(r, e) /\ Looked(r)
    BY <1>0, <2>1, <2>4, Updated
  <2> QED BY <2>5 DEF r
<1>2. CASE k.cb[c].assprc = Idle
  <2> DEFINE tm == cyc_next_time(k, c)
             a == timer_insert_abs(k, c, tm)
             s == a.cb[c].stat \cup {"RUN", "IMM"}
             b == WithStat(a, c, s)
  <2>1. tm \in Int /\ tm > k.now
    BY <1>0, NextTime
  <2>2. r = [a EXCEPT !.cb[c].stat = @ \cup {"RUN", "IMM"}, !.imm[p] = Instance(k, c)]
    BY <1>2 DEF immediate_call_cychdr
  <2> HIDE DEF tm, r
  <2>3. KInv(a, e, S \cup ({c} \cap Handler)) /\ Same(a, k, {"now"}) /\ Same(a, k, Rest)
    BY <1>0, <2>1, Inserted
  <2> HIDE DEF a
  <2>4. /\ KInv(a, e, T) /\ a \in KType
        /\ a.hq = k.hq /\ a.cb = k.cb /\ a.no = k.no /\ a.imm = k.imm
    <3>1. {c} \cap Handler = {c}
      BY <1>0
    <3> QED BY <2>3, <3>1 DEF KInv, Same, Rest
  <2> HIDE DEF T
  <2>5. s \in SUBSET Flags /\ a.cb[c] # NOEXS
    BY <1>0, <2>4, Block DEF Flags
  <2>6. r = [b EXCEPT !.imm[p] = Instance(b, c)]
    BY <2>2, <2>4 DEF KType, WithStat, Instance
  <2> HIDE DEF s
  <2>7. /\ KInv(b, e, T) /\ Same(b, a, {"now", "tq", "time", "hq", "no", "exec", "imm", "ipi"})
        /\ b.cb[c] # NOEXS /\ b.cb[c].stat = s /\ \A x \in Handler \ {c} : b.cb[x] = a.cb[x]
    BY <1>0, <2>4, <2>5, Restated
  <2> HIDE DEF b
  <2>8. KInv(r, e, T) /\ Same(r, b, {"now", "tq", "time", "hq", "cb", "no", "exec", "ipi"})
    <3>1. b.imm[p] = Idle
      BY <2>4, <2>7 DEF Same
    <3> QED BY <1>0, <2>6, <2>7, <3>1, ImmStarts
  <2>9. StartedIn(r) = T
    <3>1. r.cb = b.cb
      BY <2>8 DEF Same
    <3>2. T = StartedIn(k)
      BY DEF T
    <3>3. "STA" \in s
      BY <2>4 DEF s, StartedIn
    <3> QED BY <1>0, <2>4, <2>7, <3>1, <3>2, <3>3 DEF StartedIn
  <2>10. Looked(r)
    BY <2>4, <2>7, <2>8 DEF Looked, Same
  <2> QED BY <2>8, <2>9, <2>10 DEF Full, r
<1> QED BY <1>1, <1>2

LEMMA AlmAtOnce ==
  ASSUME NEW k, NEW e, NEW S, KInv(k, e, S), Looked(k), NEW a \in Alm, k.cb[a] # NOEXS,
         S = StartedIn(k) \ {a}, ~Queued(k.tq, k.hq, a),
         NEW p \in Proc, k.imm[p] = Idle,
         k.cb[a].assprc = Idle => "RUN" \notin k.cb[a].stat
  PROVE  LET r == immediate_call_almhdr(k, p, a)
         IN  Full(r, e) /\ Looked(r)
<1> DEFINE r == immediate_call_almhdr(k, p, a)
           f == Forget(k, a)
<1>0. k \in KType /\ a \in Handler /\ a \in Object /\ e \subseteq Proc
  BY DEF KInv, Handler, Object
<1>1. KInv(f, e, S) /\ Same(f, k, {"now", "tq"}) /\ Same(f, k, Rest)
  BY <1>0, Retimed DEF Forget, Queued
<1>2. r = IF k.cb[a].assprc # Idle
          THEN handler_update(distribute([f EXCEPT !.cb[a].stat = @ \cup {"STA"}], p, a), p, "TASK")
          ELSE [f EXCEPT !.cb[a].stat = (@ \ {"STA"}) \cup {"RUN", "IMM"}, !.imm[p] = Instance(k, a)]
  BY DEF immediate_call_almhdr
<1> HIDE DEF f, r
<1>3. /\ f \in KType /\ f.tq = k.tq /\ f.exec = k.exec
      /\ f.hq = k.hq /\ f.cb = k.cb /\ f.no = k.no /\ f.imm = k.imm
  BY <1>1 DEF KInv, Same, Rest
<1>4. /\ k.cb[a].stat \subseteq Flags /\ k.cb[a].assprc \in Proc \cup {Idle}
      /\ f.cb[a] # NOEXS
  BY <1>0, <1>3, Block
<1>5. \A q \in Proc :
        /\ RunsIn(f, q, a) => "RUN" \in k.cb[a].stat
        /\ RunsAtOnce(f, q, a) => k.cb[a].assprc = Idle /\ "RUN" \in k.cb[a].stat
  BY <1>3 DEF KInv, Placed, RunsIn, RunsAtOnce
<1>6. CASE k.cb[a].assprc # Idle
  <2> DEFINE s == f.cb[a].stat \cup {"STA"}
             b == WithStat(f, a, s)
             x == enqueue_handler(b, Target(b, p, a), a)
  <2>1. r = handler_update(x, p, "TASK")
    BY <1>2, <1>3, <1>6 DEF distribute, WithStat, KType
  <2>2. s \in SUBSET Flags
    BY <1>3, <1>4 DEF Flags
  <2>3. \A q \in Proc : ~RunsAtOnce(f, q, a) /\ (RunsIn(f, q, a) => "RUN" \in s)
    BY <1>3, <1>5, <1>6
  <2>4. "STA" \in s
    OBVIOUS
  <2> HIDE DEF s, x
  <2>5. /\ KInv(b, e, S) /\ Same(b, f, {"now", "tq", "time", "hq", "no", "exec", "imm", "ipi"})
        /\ b.cb[a] # NOEXS /\ b.cb[a].stat = s /\ b.cb[a].assprc = f.cb[a].assprc
        /\ \A y \in Handler \ {a} : b.cb[y] = f.cb[y]
    BY <1>0, <1>1, <1>4, <2>2, <2>3, Restated
  <2> HIDE DEF b
  <2>6. Target(b, p, a) \in Proc /\ Target(b, p, a) = Place(b.cb, a)
    BY <1>3, <1>4, <1>6, <2>5 DEF Target, Place
  <2>7. KInv(x, e, S \cup {a}) /\ Same(x, b, {"now", "tq", "time", "cb", "no", "exec", "imm", "ipi"})
    <3>1. ~Queued(b.tq, b.hq, a)
      BY <1>3, <2>5 DEF Same
    <3> QED BY <1>0, <2>5, <2>6, <3>1, Enqueued DEF x
  <2>8. StartedIn(x) = S \cup {a}
    <3>1. x.cb = b.cb
      BY <2>7 DEF Same
    <3> QED BY <1>0, <1>3, <2>4, <2>5, <3>1 DEF StartedIn
  <2>9. Full(x, e)
    BY <2>7, <2>8 DEF Full
  <2>10. Full(r, e) /\ Looked(r)
    BY <1>0, <2>1, <2>9, Updated
  <2> QED BY <2>10 DEF r
<1>7. CASE k.cb[a].assprc = Idle
  <2> DEFINE s == (f.cb[a].stat \ {"STA"}) \cup {"RUN", "IMM"}
             b == WithStat(f, a, s)
  <2>1. r = [b EXCEPT !.imm[p] = Instance(b, a)]
    BY <1>2, <1>3, <1>7 DEF WithStat, KType, Instance
  <2>2. s \in SUBSET Flags
    BY <1>3, <1>4 DEF Flags
  <2>3. \A q \in Proc : ~RunsAtOnce(f, q, a) /\ ~RunsIn(f, q, a)
    BY <1>3, <1>5, <1>7
  <2>4. "STA" \notin s /\ {"RUN", "IMM"} \subseteq s
    OBVIOUS
  <2> HIDE DEF s
  <2>5. /\ KInv(b, e, S) /\ Same(b, f, {"now", "tq", "time", "hq", "no", "exec", "imm", "ipi"})
        /\ b.cb[a] # NOEXS /\ b.cb[a].stat = s /\ b.cb[a].assprc = f.cb[a].assprc
        /\ \A y \in Handler \ {a} : b.cb[y] = f.cb[y]
    BY <1>0, <1>1, <1>4, <2>2, <2>3, Restated
  <2> HIDE DEF b
  <2>6. KInv(r, e, S) /\ Same(r, b, {"now", "tq", "time", "hq", "cb", "no", "exec", "ipi"})
    <3>1. b.imm[p] = Idle
      BY <1>3, <2>5 DEF Same
    <3>2. /\ b.cb[a].assprc = Idle /\ {"RUN", "IMM"} \subseteq b.cb[a].stat
          /\ "STA" \notin b.cb[a].stat
          /\ \A q \in Proc : ~RunsIn(b, q, a) /\ ~RunsAtOnce(b, q, a)
      BY <1>3, <1>7, <2>3, <2>4, <2>5 DEF RunsIn, RunsAtOnce, Same
    <3> QED BY <1>0, <2>1, <2>5, <3>1, <3>2, ImmStarts
  <2>7. StartedIn(r) = S
    <3>1. r.cb = b.cb
      BY <2>6 DEF Same
    <3> QED BY <1>0, <1>3, <2>4, <2>5, <3>1 DEF StartedIn
  <2>8. Looked(r)
    BY <1>3, <2>5, <2>6 DEF Looked, Same
  <2> QED BY <2>6, <2>7, <2>8 DEF Full, r
<1> QED BY <1>6, <1>7

LEMMA Stopped ==
  ASSUME TimerInv, NEW h \in Handler, Exists(h)
  PROVE  LET r == Stop(K, h)
         IN  /\ Full(r, ended) /\ Looked(r) /\ ~Queued(r.tq, r.hq, h) /\ h \notin StartedIn(r)
             /\ r.cb[h] # NOEXS
<1> DEFINE d == IF Started(h) THEN timer_delete(K, h) ELSE K
           s == d.cb[h].stat \ {"STA"}
           r == Stop(K, h)
           S == StartedIn(K) \ {h}
<1>0. /\ KInv(K, ended, StartedIn(K)) /\ Looked(K) /\ K \in KType /\ K.cb[h] # NOEXS
      /\ (h \in StartedIn(K) <=> Started(h))
  BY NowK DEF Exists
<1>1. /\ KInv(d, ended, S) /\ ~Queued(d.tq, d.hq, h) /\ Looked(d) /\ d \in KType
      /\ d.cb = K.cb /\ d.no = K.no /\ d.exec = K.exec /\ d.imm = K.imm
  <2>1. CASE Started(h)
    BY ZenonT(40), <1>0, <2>1, Deleted DEF Same, KInv
  <2>2. CASE ~Started(h)
    <3>1. S = StartedIn(K) /\ d = K
      BY <1>0, <2>2
    <3>2. ~Queued(K.tq, K.hq, h)
      BY <1>0, <2>2 DEF KInv, QueuedOnce
    <3> HIDE DEF d, S
    <3> QED BY <1>0, <3>1, <3>2
  <2> QED BY <2>1, <2>2
<1>2. r = WithStat(d, h, s)
  BY <1>1 DEF Stop, WithStat, KType
<1> HIDE DEF d, r
<1>3. s \in SUBSET Flags
  BY <1>0, <1>1, Block
<1>4. \A q \in Proc : /\ RunsIn(d, q, h) /\ h \in Alm => "RUN" \in s
                      /\ RunsAtOnce(d, q, h) /\ h \in Alm => {"RUN", "IMM"} \subseteq s
  BY <1>0, <1>1 DEF KInv, Placed, RunsIn, RunsAtOnce
<1>5. "STA" \notin s
  OBVIOUS
<1> HIDE DEF s
<1>6. /\ KInv(r, ended, S) /\ Same(r, d, {"now", "tq", "time", "hq", "no", "exec", "imm", "ipi"})
      /\ r.cb[h] # NOEXS /\ r.cb[h].stat = s
      /\ \A y \in Handler \ {h} : r.cb[y] = d.cb[y]
  <2>1. h \in Alm => \A q \in Proc :
           /\ RunsIn(d, q, h) => "RUN" \in s
           /\ RunsAtOnce(d, q, h) => {"RUN", "IMM"} \subseteq s /\ "STA" \notin s
    BY <1>4, <1>5
  <2>2. d.cb[h] # NOEXS
    BY <1>0, <1>1
  <2> HIDE DEF S
  <2> QED BY <1>1, <1>2, <1>3, <2>1, <2>2, Restated
<1>7. StartedIn(r) = S
  BY <1>0, <1>1, <1>5, <1>6 DEF StartedIn
<1>8. Looked(r) /\ ~Queued(r.tq, r.hq, h)
  BY <1>1, <1>6 DEF Looked, Same
<1> QED BY <1>6, <1>7, <1>8 DEF Full, r

(* The time of an event that is in no queue is forgotten.                  *)
LEMMA Forgotten ==
  ASSUME NEW k, NEW e, Full(k, e), Looked(k), NEW o \in Object, ~Queued(k.tq, k.hq, o)
  PROVE  LET r == Forget(k, o)
         IN  /\ Full(r, e) /\ Looked(r) /\ StartedIn(r) = StartedIn(k)
             /\ Same(r, k, {"tq", "hq", "cb"})
<1> DEFINE r == Forget(k, o)
<1>1. KInv(k, e, StartedIn(k))
  BY FullParts
<1>2. KInv(r, e, StartedIn(k)) /\ Same(r, k, {"now", "tq"}) /\ Same(r, k, Rest)
  BY <1>1, Retimed DEF Forget, Queued
<1> HIDE DEF r
<1>3. r.tq = k.tq /\ r.hq = k.hq /\ r.cb = k.cb
  BY <1>2 DEF Same, Rest
<1> QED BY <1>2, <1>3 DEF Full, Looked, Same, StartedIn, r

LEMMA StopsCyc ==
  ASSUME TimerInv, NEW c \in Cyc, _tk_stp_cyc(c)
  PROVE  TimerInv'
<1> DEFINE r == Stop(K, c)
<1>1. Exists(c) /\ Becomes(r) /\ ended' = ended /\ c \in Handler
  BY DEF _tk_stp_cyc, Handler
<1>2. Full(r, ended) /\ Looked(r)
  BY <1>1, Stopped
<1> HIDE DEF r
<1> QED BY <1>1, <1>2, Then

LEMMA StopsAlm ==
  ASSUME TimerInv, NEW a \in Alm, _tk_stp_alm(a)
  PROVE  TimerInv'
<1> DEFINE s == Stop(K, a)
           r == Forget(s, a)
<1>1. Exists(a) /\ Becomes(r) /\ ended' = ended /\ a \in Handler /\ a \in Object
  BY DEF _tk_stp_alm, Handler, Object
<1>2. Full(s, ended) /\ Looked(s) /\ ~Queued(s.tq, s.hq, a)
  BY <1>1, Stopped
<1> HIDE DEF s
<1>3. Full(r, ended) /\ Looked(r)
  BY <1>1, <1>2, Forgotten
<1> HIDE DEF r
<1> QED BY <1>1, <1>3, Then

LEMMA Deletes ==
  ASSUME TimerInv, NEW h \in Handler, Exists(h), Becomes(Delete(K, h)), ended' = ended
  PROVE  TimerInv'
<1> DEFINE s == Stop(K, h)
           f == Forget(s, h)
           r == Freed(f, h)
<1>1. Becomes(r)
  BY DEF Delete, Freed
<1>2. Full(s, ended) /\ Looked(s) /\ ~Queued(s.tq, s.hq, h) /\ h \notin StartedIn(s)
  BY Stopped
<1> HIDE DEF s
<1>3. Full(f, ended) /\ Looked(f) /\ h \notin StartedIn(f)
  BY <1>2, Forgotten DEF Object
<1> HIDE DEF f
<1>4. /\ KInv(r, ended, StartedIn(f)) /\ r.cb[h] = NOEXS
      /\ Same(r, f, {"now", "tq", "time", "hq", "exec", "imm", "ipi"})
      /\ \A x \in Handler \ {h} : r.cb[x] = f.cb[x]
  BY <1>3, FullParts, FreedBlock
<1> HIDE DEF r
<1>5. StartedIn(r) = StartedIn(f)
  BY <1>3, <1>4 DEF StartedIn
<1>6. Full(r, ended) /\ Looked(r)
  BY <1>3, <1>4, <1>5 DEF Full, Looked, Same
<1> QED BY <1>1, <1>6, Then

(* A control block that is free: nothing of its handler is anywhere.       *)
LEMMA FreeBlock ==
  ASSUME TimerInv, NEW h \in Handler, MayUse(h)
  PROVE  K.cb[h] = NOEXS /\ h \notin StartedIn(K) /\ ~Queued(K.tq, K.hq, h)
<1>1. K.cb[h] = NOEXS
  BY DEF MayUse, InUse, Exists
<1>2. h \notin StartedIn(K)
  BY <1>1 DEF StartedIn
<1>3. ~Queued(K.tq, K.hq, h)
  BY <1>2, NowK DEF KInv, QueuedOnce
<1> QED BY <1>1, <1>2, <1>3

LEMMA CreatesAlm ==
  ASSUME TimerInv, NEW a \in Alm, _tk_cre_alm(a)
  PROVE  TimerInv'
<1>1. PICK assprc \in Assprcs :
        /\ MayUse(a) /\ ended' = ended
        /\ Becomes([K EXCEPT !.cb[a] = [assprc |-> assprc, stat |-> {}]])
  BY DEF _tk_cre_alm
<1> DEFINE b == [assprc |-> assprc, stat |-> {}]
           r == [K EXCEPT !.cb[a] = b]
<1>2. a \in Handler /\ a \notin Cyc /\ b \in AlmCB /\ b.stat = {}
  BY TimerAssumption DEF Handler, AlmCB
<1>3. K.cb[a] = NOEXS /\ a \notin StartedIn(K)
  BY <1>1, <1>2, FreeBlock
<1> HIDE DEF b
<1>4. /\ KInv(r, ended, StartedIn(K)) /\ r.cb[a] = b
      /\ \A x \in Handler \ {a} : r.cb[x] = K.cb[x]
      /\ Same(r, K, {"now", "tq", "time", "hq", "no", "exec", "imm", "ipi"})
  BY <1>2, <1>3, NowK, Created
<1>5. Becomes(r)
  BY <1>1 DEF b
<1> HIDE DEF r
<1>6. StartedIn(r) = StartedIn(K)
  BY <1>2, <1>3, <1>4 DEF StartedIn
<1>7. Full(r, ended) /\ Looked(r)
  BY <1>4, <1>6, NowK DEF Full, Looked, Same
<1> QED BY <1>1, <1>5, <1>7, Then

(* tk_dly_tsk, and the end of a wait. *)
LEMMA TaskNotQueued ==
  ASSUME TimerInv, NEW t \in Task, ~Contains(timer_queue, t)
  PROVE  ~Queued(K.tq, K.hq, t)
<1>1. K.hq \in [Proc -> HandlerQueue] /\ K.tq \in Seq(Object) /\ K.tq = timer_queue
  BY NowK, KFields
<1>2. t \notin Range(K.tq)
  BY <1>1 DEF Contains, Range
<1>3. t \notin Handler
  BY TimerAssumption DEF Handler
<1>4. ASSUME NEW p \in Proc PROVE t \notin Queue(K.hq, p)
  <2>1. K.hq[p].hdrque \in Seq(Handler)
    BY <1>1 DEF HandlerQueue
  <2>2. Range(K.hq[p].hdrque) \subseteq Handler
    BY <2>1 DEF Range
  <2> QED BY <1>3, <2>2 DEF Queue
<1> QED BY <1>2, <1>4 DEF Queued

LEMMA TaskWaits ==
  ASSUME TimerInv, NEW t \in Task, NEW dlytim \in Dlytims, _tk_dly_tsk(t, dlytim)
  PROVE  TimerInv'
<1> DEFINE tm == current_time + dlytim + TIMER_PERIOD
           r == timer_insert_abs(K, t, tm)
<1>1. MayUse(t) /\ Becomes(r) /\ ended' = ended
  BY NowK DEF _tk_dly_tsk, timer_insert_reltim
<1>2. tm \in Int /\ tm > K.now
  <2>1. current_time \in Int /\ K.now = current_time
    BY NowK, KFields
  <2> QED BY <2>1, TimerAssumption
<1> HIDE DEF tm
<1>3. ~Queued(K.tq, K.hq, t)
  BY <1>1, TaskNotQueued DEF MayUse, InUse
<1>4. t \in Object /\ {t} \cap Handler = {}
  BY TimerAssumption DEF Object, Handler
<1>5. /\ KInv(r, ended, StartedIn(K) \cup ({t} \cap Handler))
      /\ Same(r, K, Rest)
  BY <1>2, <1>3, <1>4, NowK, Inserted
<1> HIDE DEF r
<1>6. Full(r, ended) /\ Looked(r)
  <2>1. StartedIn(K) \cup ({t} \cap Handler) = StartedIn(K)
    BY <1>4
  <2>2. r.cb = K.cb /\ r.hq = K.hq
    BY <1>5 DEF Same, Rest
  <2>3. StartedIn(r) = StartedIn(K) /\ Looked(r)
    BY <2>2, NowK DEF StartedIn, Looked
  <2> QED BY <1>5, <2>1, <2>3 DEF Full
<1> QED BY <1>1, <1>6, Then

LEMMA WaitEnds ==
  ASSUME TimerInv, NEW t \in Task, wait_release(t)
  PROVE  TimerInv'
<1> DEFINE d == timer_delete(K, t)
           r == Forget(d, t)
<1>1. Becomes(r) /\ ended' = ended
  BY DEF wait_release
<1>2. t \in Object /\ t \notin StartedIn(K)
  BY TimerAssumption DEF Object, Handler, StartedIn
<1>3. /\ KInv(d, ended, StartedIn(K) \ {t}) /\ ~Queued(d.tq, d.hq, t)
      /\ Same(d, K, {"now", "time", "cb", "no", "exec", "imm", "ipi"}) /\ Looked(d)
  BY NowK, Deleted
<1> HIDE DEF d
<1>4. Full(d, ended)
  <2>1. StartedIn(d) = StartedIn(K)
    BY <1>3 DEF StartedIn, Same
  <2>2. StartedIn(K) \ {t} = StartedIn(K)
    BY <1>2
  <2> QED BY <1>3, <2>1, <2>2 DEF Full
<1>5. Full(r, ended) /\ Looked(r)
  BY <1>2, <1>3, <1>4, Forgotten
<1> HIDE DEF r
<1> QED BY <1>1, <1>5, Then

(* The event of a handler that has STA goes to the timer queue. *)
LEMMA Scheduled ==
  ASSUME NEW k, NEW e, NEW S, KInv(k, e, S), Looked(k), NEW h \in Handler, h \in StartedIn(k),
         S \cup {h} = StartedIn(k), ~Queued(k.tq, k.hq, h), NEW tm \in Int, tm > k.now
  PROVE  LET r == timer_insert_abs(k, h, tm)
         IN  Full(r, e) /\ Looked(r)
<1> DEFINE r == timer_insert_abs(k, h, tm)
<1>1. h \in Object /\ {h} \cap Handler = {h}
  BY DEF Object
<1>2. KInv(r, e, S \cup ({h} \cap Handler)) /\ Same(r, k, Rest)
  BY <1>1, Inserted
<1> HIDE DEF r
<1>3. r.cb = k.cb /\ r.hq = k.hq
  BY <1>2 DEF Same, Rest
<1>4. StartedIn(r) = S \cup {h} /\ Looked(r)
  BY <1>3 DEF StartedIn, Looked
<1> QED BY <1>1, <1>2, <1>4 DEF Full, r

(* tk_sta_cyc and tk_sta_alm: a handler that is stopped gets STA. *)
LEMMA GetsSTA ==
  ASSUME NEW k, NEW e, NEW S, KInv(k, e, S), Looked(k), NEW h \in Handler, k.cb[h] # NOEXS,
         S \cup {h} = StartedIn(k) \cup {h},
         h \in Alm => \A q \in Proc : ~RunsAtOnce(k, q, h)
  PROVE  LET r == [k EXCEPT !.cb[h].stat = @ \cup {"STA"}]
         IN  /\ KInv(r, e, S) /\ Looked(r) /\ h \in StartedIn(r) /\ S \cup {h} = StartedIn(r)
             /\ Same(r, k, {"now", "tq", "time", "hq", "no", "exec", "imm", "ipi"})
             /\ h \in Cyc => r.cb[h].cyctim = k.cb[h].cyctim
<1> DEFINE s == k.cb[h].stat \cup {"STA"}
           r == WithStat(k, h, s)
<1>0. k \in KType
  BY DEF KInv
<1>1. [k EXCEPT !.cb[h].stat = @ \cup {"STA"}] = r
  BY <1>0 DEF WithStat, KType
<1>2. s \in SUBSET Flags
  BY <1>0, Block DEF Flags
<1>3. h \in Alm => \A q \in Proc : ~RunsAtOnce(k, q, h) /\ (RunsIn(k, q, h) => "RUN" \in s)
  BY DEF KInv, Placed, RunsIn
<1>4. "STA" \in s
  OBVIOUS
<1> HIDE DEF s, r
<1>5. /\ KInv(r, e, S) /\ Same(r, k, {"now", "tq", "time", "hq", "no", "exec", "imm", "ipi"})
      /\ r.cb[h] # NOEXS /\ r.cb[h].stat = s
      /\ h \in Cyc => r.cb[h].cyctim = k.cb[h].cyctim
      /\ \A x \in Handler \ {h} : r.cb[x] = k.cb[x]
  BY <1>2, <1>3, Restated DEF r
<1>6. h \in StartedIn(r) /\ StartedIn(r) = S \cup {h}
  BY <1>4, <1>5 DEF StartedIn
<1>7. Looked(r)
  BY <1>5 DEF Looked, Same
<1> QED BY <1>1, <1>5, <1>6, <1>7

LEMMA StartsCyc ==
  ASSUME TimerInv, NEW c \in Cyc, _tk_sta_cyc(c)
  PROVE  TimerInv'
<1> DEFINE s == [K EXCEPT !.cb[c].stat = @ \cup {"STA"}]
           S == StartedIn(K)
           u == IF Started(c) THEN timer_delete(s, c) ELSE s
           tm == current_time + cyccb[c].cyctim + TIMER_PERIOD
           at == IF time[c] <= current_time THEN cyc_next_time(K, c) ELSE time[c]
           r == IF ~cyccb[c].phs THEN timer_insert_reltim(u, c, cyccb[c].cyctim)
                ELSE IF Started(c) THEN s ELSE timer_insert_abs(s, c, at)
<1>1. Exists(c) /\ Becomes(r) /\ ended' = ended
  BY DEF _tk_sta_cyc
<1>2. /\ c \in Handler /\ c \notin Alm /\ c \in Object /\ K.cb[c] # NOEXS /\ K.cb[c] = cyccb[c]
      /\ (c \in S <=> Started(c))
  BY <1>1, NowK, TimerAssumption DEF Handler, Object, Exists
<1>3. KInv(K, ended, S) /\ Looked(K) /\ K \in KType /\ K.now = current_time /\ K.time = time
  BY NowK
<1>4. /\ KInv(s, ended, S) /\ Looked(s) /\ c \in StartedIn(s) /\ S \cup {c} = StartedIn(s)
      /\ Same(s, K, {"now", "tq", "time", "hq", "no", "exec", "imm", "ipi"})
  BY <1>2, <1>3, GetsSTA
<1>5. /\ current_time \in Int /\ time[c] \in Int
      /\ cyccb[c].cyctim \in Nat \ {0}
  <2>1. K.cb[c] \in CycCB
    BY <1>2, <1>3, KFields DEF ControlBlocks
  <2> QED BY <1>2, <1>3, <2>1, KFields DEF CycCB
<1>6. tm \in Int /\ tm > current_time
  BY <1>5, TimerAssumption
<1>7. at \in Int /\ at > current_time
  BY <1>2, <1>3, <1>5, NextTime
<1>8. s.now = current_time /\ s.hq = K.hq /\ s.tq = K.tq
  BY <1>3, <1>4 DEF Same
<1> HIDE DEF s
<1>9. Full(r, ended) /\ Looked(r)
  <2>1. CASE ~cyccb[c].phs
    <3>1. /\ KInv(u, ended, S \ {c}) /\ ~Queued(u.tq, u.hq, c) /\ Looked(u)
          /\ c \in StartedIn(u) /\ (S \ {c}) \cup {c} = StartedIn(u) /\ u.now = current_time
      <4>1. CASE Started(c)
        <5>1. /\ KInv(u, ended, S \ {c}) /\ ~Queued(u.tq, u.hq, c) /\ Looked(u)
              /\ Same(u, s, {"now", "time", "cb", "no", "exec", "imm", "ipi"})
          BY <1>4, <4>1, Deleted
        <5> HIDE DEF u
        <5>2. StartedIn(u) = StartedIn(s) /\ u.now = s.now
          BY <5>1 DEF StartedIn, Same
        <5> QED BY <1>4, <1>8, <5>1, <5>2
      <4>2. CASE ~Started(c)
        <5>1. u = s /\ S \ {c} = S /\ ~Queued(s.tq, s.hq, c)
          BY <1>2, <1>4, <4>2 DEF KInv, QueuedOnce
        <5> HIDE DEF u, S
        <5> QED BY <1>4, <1>8, <5>1
      <4> QED BY <4>1, <4>2
    <3>2. r = timer_insert_abs(u, c, tm)
      BY <2>1, <3>1 DEF timer_insert_reltim
    <3> HIDE DEF u, tm, r
    <3> DEFINE T == S \ {c}
    <3>3. KInv(u, ended, T) /\ T \cup {c} = StartedIn(u)
      BY <3>1
    <3> HIDE DEF T
    <3> QED BY <1>2, <1>6, <3>1, <3>2, <3>3, Scheduled
  <2>2. CASE cyccb[c].phs /\ Started(c)
    <3>1. r = s /\ StartedIn(s) = S
      BY <1>2, <1>4, <2>2
    <3> HIDE DEF r, S
    <3> QED BY <1>4, <3>1 DEF Full
  <2>3. CASE cyccb[c].phs /\ ~Started(c)
    <3>1. r = timer_insert_abs(s, c, at)
      BY <2>3
    <3>2. ~Queued(s.tq, s.hq, c)
      BY <1>2, <1>4, <2>3 DEF KInv, QueuedOnce
    <3> HIDE DEF r, at, S
    <3> QED BY <1>2, <1>4, <1>7, <1>8, <3>1, <3>2, Scheduled
  <2> QED BY <2>1, <2>2, <2>3
<1> HIDE DEF r
<1> QED BY <1>1, <1>9, Then

LEMMA CreatesCyc ==
  ASSUME TimerInv, NEW c \in Cyc, NEW p \in Proc, _tk_cre_cyc(p, c)
  PROVE  TimerInv'
<1>1. PICK kind \in CycKinds :
        LET tm == current_time + kind.cycphs + TIMER_PERIOD
            k == [K EXCEPT !.cb[c] = [assprc |-> kind.assprc, phs |-> kind.phs, cyctim |-> kind.cyctim,
                                      stat |-> IF kind.sta THEN {"STA"} ELSE {}],
                           !.time[c] = tm]
        IN  /\ MayUse(c) /\ ended' = ended
            /\ kind.sta /\ kind.cycphs = 0 => MayCall(p)
            /\ Becomes(IF ~kind.sta THEN k
                       ELSE IF kind.cycphs = 0 THEN immediate_call_cychdr(k, p, c)
                       ELSE timer_insert_abs(k, c, tm))
  BY DEF _tk_cre_cyc
<1> DEFINE tm == current_time + kind.cycphs + TIMER_PERIOD
           b == [assprc |-> kind.assprc, phs |-> kind.phs, cyctim |-> kind.cyctim,
                 stat |-> IF kind.sta THEN {"STA"} ELSE {}]
           a == [K EXCEPT !.cb[c] = b]
           k == [a EXCEPT !.time[c] = tm]
           S == StartedIn(K)
           r == IF ~kind.sta THEN k
                ELSE IF kind.cycphs = 0 THEN immediate_call_cychdr(k, p, c)
                ELSE timer_insert_abs(k, c, tm)
<1>2. MayUse(c) /\ ended' = ended /\ (kind.sta /\ kind.cycphs = 0 => MayCall(p)) /\ Becomes(r)
  <2>1. k = [K EXCEPT !.cb[c] = b, !.time[c] = tm]
    BY NowK DEF KType
  <2> HIDE DEF k
  <2> QED BY <1>1, <2>1
<1>3. /\ kind.sta \in BOOLEAN /\ kind.phs \in BOOLEAN /\ kind.assprc \in Proc \cup {Idle}
      /\ kind.cyctim \in Nat \ {0} /\ kind.cycphs \in Nat
  <2>1. kind \in [sta : BOOLEAN, phs : BOOLEAN, assprc : Proc \cup {Idle},
                  cyctim : Nat \ {0}, cycphs : Nat]
    BY TimerAssumption
  <2> QED BY <2>1
<1>4. /\ c \in Handler /\ c \notin Alm /\ c \in Object /\ b \in CycCB
      /\ ("STA" \in b.stat <=> kind.sta)
  BY <1>3, TimerAssumption DEF Handler, Object, CycCB, Flags
<1>5. KInv(K, ended, S) /\ Looked(K) /\ K \in KType /\ K.now = current_time /\ K.imm = imm
  BY NowK
<1>6. K.cb[c] = NOEXS /\ c \notin S /\ ~Queued(K.tq, K.hq, c)
  BY <1>2, <1>4, FreeBlock
<1>7. tm \in Int /\ tm > current_time
  <2>1. current_time \in Int
    BY <1>5, KFields
  <2> QED BY <1>3, <2>1, TimerAssumption
<1> HIDE DEF b, tm, r
<1>8. /\ KInv(a, ended, S) /\ a.cb[c] = b /\ b # NOEXS
      /\ \A x \in Handler \ {c} : a.cb[x] = K.cb[x]
      /\ Same(a, K, {"now", "tq", "time", "hq", "no", "exec", "imm", "ipi"})
  BY <1>4, <1>5, <1>6, Created
<1> HIDE DEF a
<1>9. a.tq = K.tq /\ a.now = K.now /\ a.imm = K.imm /\ a.hq = K.hq
  BY <1>8 DEF Same
<1>10. /\ KInv(k, ended, S) /\ Same(k, a, {"now", "tq"}) /\ Same(k, a, Rest)
  BY <1>4, <1>6, <1>7, <1>8, <1>9, Retimed DEF Queued
<1> HIDE DEF k
<1>11. k.tq = K.tq /\ k.now = current_time /\ k.imm = imm /\ k.hq = K.hq /\ k.cb = a.cb
  BY <1>5, <1>9, <1>10 DEF Same, Rest
<1>12. Looked(k) /\ ~Queued(k.tq, k.hq, c)
  BY <1>5, <1>6, <1>11 DEF Looked
<1>13. kind.sta => c \in StartedIn(k) /\ S \cup {c} = StartedIn(k)
  BY <1>4, <1>8, <1>11 DEF StartedIn
<1>14. ~kind.sta => StartedIn(k) = S
  BY <1>4, <1>6, <1>8, <1>11 DEF StartedIn
<1> HIDE DEF S
<1>15. Full(r, ended) /\ Looked(r)
  <2>1. CASE ~kind.sta
    <3>1. r = k
      BY <2>1 DEF r
    <3> QED BY <1>10, <1>12, <1>14, <2>1, <3>1 DEF Full
  <2>2. CASE kind.sta /\ kind.cycphs = 0
    <3>1. r = immediate_call_cychdr(k, p, c) /\ k.imm[p] = Idle
      BY <1>2, <1>11, <2>2 DEF r, MayCall
    <3> QED BY <1>10, <1>12, <1>13, <2>2, <3>1, CycAtOnce
  <2>3. CASE kind.sta /\ kind.cycphs # 0
    <3>1. r = timer_insert_abs(k, c, tm)
      BY <2>3 DEF r
    <3> QED BY <1>4, <1>7, <1>10, <1>11, <1>12, <1>13, <2>3, <3>1, Scheduled
  <2> QED BY <1>3, <2>1, <2>2, <2>3
<1> QED BY <1>2, <1>15, Then

LEMMA StartsAlm ==
  ASSUME TimerInv, NEW a \in Alm, NEW p \in Proc, NEW almtim \in Almtims, _tk_sta_alm(p, a, almtim)
  PROVE  TimerInv'
<1> DEFINE k == IF Started(a) THEN timer_delete(K, a) ELSE K
           S == StartedIn(K) \ {a}
           s == [k EXCEPT !.cb[a].stat = @ \cup {"STA"}]
           r == IF almtim = 0 THEN immediate_call_almhdr(k, p, a)
                ELSE timer_insert_reltim(s, a, almtim)
<1>1. /\ Exists(a) /\ ~WouldOverlap(a, almtim) /\ (almtim = 0 => MayCall(p)) /\ ended' = ended
      /\ Becomes(r)
  BY DEF _tk_sta_alm
<1>2. /\ KInv(K, ended, StartedIn(K)) /\ Looked(K) /\ K \in KType /\ K.now = current_time
      /\ K.imm = imm /\ K.cb[a] # NOEXS /\ K.cb[a] = almcb[a] /\ a \in Handler
      /\ (a \in StartedIn(K) <=> Started(a))
  BY <1>1, NowK DEF Handler, Exists
<1>3. /\ KInv(k, ended, S) /\ ~Queued(k.tq, k.hq, a) /\ Looked(k) /\ k.now = K.now
      /\ k.cb = K.cb /\ k.no = K.no /\ k.exec = K.exec /\ k.imm = K.imm
  <2>1. CASE Started(a)
    BY <1>2, <2>1, Deleted DEF Same
  <2>2. CASE ~Started(a)
    <3>1. S = StartedIn(K) /\ k = K
      BY <1>2, <2>2
    <3>2. ~Queued(K.tq, K.hq, a)
      BY <1>2, <2>2 DEF KInv, QueuedOnce
    <3> HIDE DEF k, S
    <3> QED BY <1>2, <3>1, <3>2
  <2> QED BY <2>1, <2>2
<1> HIDE DEF k
<1>4. S = StartedIn(k) \ {a} /\ k.cb[a] # NOEXS
  BY <1>2, <1>3 DEF StartedIn
<1>5. Full(r, ended) /\ Looked(r)
  <2>1. CASE almtim = 0
    <3>1. r = immediate_call_almhdr(k, p, a) /\ k.imm[p] = Idle
      BY <1>1, <1>2, <1>3, <2>1 DEF MayCall
    <3>2. k.cb[a].assprc = Idle => "RUN" \notin k.cb[a].stat
      BY <1>1, <1>2, <1>3, <2>1 DEF WouldOverlap, Stat
    <3> HIDE DEF r, S
    <3> QED BY <1>2, <1>3, <1>4, <3>1, <3>2, AlmAtOnce
  <2>2. CASE almtim # 0
    <3> DEFINE tm == current_time + almtim + TIMER_PERIOD
    <3>1. tm \in Int /\ tm > current_time
      <4>1. current_time \in Int
        BY <1>2, KFields
      <4> QED BY <4>1, TimerAssumption
    <3>2. \A q \in Proc : ~RunsAtOnce(k, q, a)
      BY <1>1, <1>2, <1>3 DEF WouldOverlap, Stat, KInv, Placed, RunsAtOnce
    <3>3. S \cup {a} = StartedIn(k) \cup {a}
      BY <1>4
    <3> HIDE DEF S
    <3>4. /\ KInv(s, ended, S) /\ Looked(s) /\ a \in StartedIn(s) /\ S \cup {a} = StartedIn(s)
          /\ Same(s, k, {"now", "tq", "time", "hq", "no", "exec", "imm", "ipi"})
      BY <1>2, <1>3, <1>4, <3>2, <3>3, GetsSTA
    <3> HIDE DEF s
    <3>5. s.now = current_time /\ ~Queued(s.tq, s.hq, a)
      BY <1>2, <1>3, <3>4 DEF Same
    <3>6. r = timer_insert_abs(s, a, tm)
      BY <2>2, <3>5 DEF timer_insert_reltim
    <3> HIDE DEF r, tm
    <3> QED BY <1>2, <3>1, <3>4, <3>5, <3>6, Scheduled
  <2> QED BY <2>1, <2>2
<1> HIDE DEF r
<1> QED BY <1>1, <1>5, Then

-----------------------------------------------------------------------------
(* The specification *)

LEMMA TimerStart == Init => TimerInv
<1> SUFFICES ASSUME Init PROVE TimerInv
  OBVIOUS
<1> DEFINE cb == [h \in Handler |-> IF h \in Cyc THEN cyccb[h] ELSE almcb[h]]
           S == {}
<1>1. /\ current_time = 0 /\ timer_queue = <<>> /\ time = [o \in Object |-> 0]
      /\ handler_queue = [p \in Proc |-> [upd |-> FALSE, act |-> FALSE, hdrque |-> <<>>]]
      /\ hdrno = [h \in Handler |-> 0]
      /\ exec = [p \in Proc |-> Idle] /\ imm = [p \in Proc |-> Idle] /\ ipi = {} /\ ended = {}
  BY DEF Init
<1>2. /\ K.now = current_time /\ K.tq = timer_queue /\ K.time = time /\ K.hq = handler_queue
      /\ K.cb = cb /\ K.no = hdrno /\ K.exec = exec /\ K.imm = imm /\ K.ipi = ipi
  BY DEF K
<1>3. cb \in ControlBlocks /\ \A h \in Handler : cb[h] = NOEXS
  <2>1. \A h \in Handler : cb[h] = NOEXS
    BY TimerAssumption DEF Init, Handler
  <2> HIDE DEF cb
  <2>2. cb = [h \in Handler |-> NOEXS]
    BY <2>1 DEF cb
  <2>3. cb \in [Handler -> CycCB \cup AlmCB \cup {NOEXS}]
    BY <2>2
  <2> QED BY <2>1, <2>3 DEF ControlBlocks, Handler
<1> HIDE DEF cb
<1>4. K \in KType
  <2>1. handler_queue \in [Proc -> HandlerQueue]
    BY <1>1 DEF HandlerQueue
  <2>2. timer_queue \in Seq(Object) /\ time \in [Object -> Int] /\ hdrno \in [Handler -> Nat]
    BY <1>1
  <2>3. exec \in [Proc -> Executions \cup {Idle}] /\ imm \in [Proc -> Instances \cup {Idle}]
    BY <1>1
  <2> QED BY <1>1, <1>2, <1>3, <2>1, <2>2, <2>3 DEF KType, K, cb
<1>5. StartedIn(K) = {}
  BY <1>2, <1>3 DEF StartedIn
<1>6. Range(timer_queue) = {} /\ \A p \in Proc : Queue(handler_queue, p) = {}
  BY <1>1 DEF Queue, Range
<1>7. QueuedOnce(timer_queue, handler_queue, {})
  <2>1. IsInjective(timer_queue) /\ \A p \in Proc : IsInjective(handler_queue[p].hdrque)
    BY <1>1 DEF IsInjective
  <2> QED BY <1>6, <2>1 DEF QueuedOnce, Queued
<1>8. Timely(timer_queue, time, current_time)
  BY <1>1, <1>6 DEF Timely
<1>9. Served(handler_queue, ipi, exec, ended) /\ Looked(K)
  BY <1>1, <1>2 DEF Served, Looked
<1>10. Alone(exec, imm) /\ Remembered(cb, hdrno, exec, imm)
  BY <1>1 DEF Alone, Remembered
<1>11. Placed(handler_queue, cb, hdrno, exec, imm)
  BY <1>1, <1>6 DEF Placed
<1> QED BY <1>1, <1>2, <1>4, <1>5, <1>7, <1>8, <1>9, <1>10, <1>11 DEF TimerInv, Full, KInv

LEMMA TimerStep == TimerInv /\ [Next]_vars => TimerInv'
<1> SUFFICES ASSUME TimerInv, [Next]_vars PROVE TimerInv'
  OBVIOUS
<1>1. CASE timer_handler
  BY <1>1, TimerTicks
<1>2. ASSUME NEW p \in Proc,
             \/ handler_interrupt(p) \/ HandlerReturns(p) \/ ImmediateReturns(p) \/ TaskEnds(p)
             \/ \E c \in Cyc : _tk_cre_cyc(p, c)
             \/ \E a \in Alm, almtim \in Almtims : _tk_sta_alm(p, a, almtim)
      PROVE  TimerInv'
  BY <1>2, TakesRequest, Returns, OnceReturns, LoopLeft, CreatesCyc, StartsAlm
<1>3. ASSUME NEW c \in Cyc, _tk_sta_cyc(c) \/ _tk_stp_cyc(c) \/ _tk_del_cyc(c)
      PROVE  TimerInv'
  <2>1. CASE _tk_del_cyc(c)
    <3>1. c \in Handler /\ Exists(c) /\ Becomes(Delete(K, c)) /\ ended' = ended
      BY <2>1 DEF _tk_del_cyc, MayDelete, Handler
    <3> QED BY <3>1, Deletes
  <2> QED BY <1>3, <2>1, StartsCyc, StopsCyc
<1>4. ASSUME NEW a \in Alm, _tk_cre_alm(a) \/ _tk_stp_alm(a) \/ _tk_del_alm(a)
      PROVE  TimerInv'
  <2>1. CASE _tk_del_alm(a)
    <3>1. a \in Handler /\ Exists(a) /\ Becomes(Delete(K, a)) /\ ended' = ended
      BY <2>1 DEF _tk_del_alm, MayDelete, Handler
    <3> QED BY <3>1, Deletes
  <2> QED BY <1>4, <2>1, CreatesAlm, StopsAlm
<1>5. ASSUME NEW t \in Task, wait_release(t) \/ \E dlytim \in Dlytims : _tk_dly_tsk(t, dlytim)
      PROVE  TimerInv'
  BY <1>5, TaskWaits, WaitEnds
<1>6. CASE UNCHANGED vars
  <2>1. K' = K /\ ended' = ended
    BY <1>6 DEF K, vars
  <2> QED BY <2>1 DEF TimerInv
<1> QED BY <1>1, <1>2, <1>3, <1>4, <1>5, <1>6 DEF Next

(* How often the handler h is in the queues of the processors. *)
LEMMA CountedInQueues ==
  ASSUME TimerInv, NEW h \in Handler
  PROVE  InHandlerQueues(h) = IF \E p \in Proc : h \in Queue(handler_queue, p) THEN 1 ELSE 0
<1> DEFINE I(p) == {i \in DOMAIN handler_queue[p].hdrque : handler_queue[p].hdrque[i] = h}
           U == UNION {{p} \X I(p) : p \in Proc}
<1>1. QueuedOnce(timer_queue, handler_queue, StartedIn(K))
  BY NowK DEF KInv
<1>2. \A p \in Proc : h \in Queue(handler_queue, p) <=> I(p) # {}
  BY DEF Queue, Range
<1>3. CASE \A p \in Proc : h \notin Queue(handler_queue, p)
  <2>1. U = {}
    BY <1>2, <1>3
  <2> QED BY <1>3, <2>1, FS_EmptySet DEF InHandlerQueues
<1>4. ASSUME NEW p \in Proc, h \in Queue(handler_queue, p) PROVE InHandlerQueues(h) = 1
  <2>1. PICK i : I(p) = {i}
    <3>1. PICK i \in I(p) : TRUE
      BY <1>2, <1>4
    <3>2. IsInjective(handler_queue[p].hdrque)
      BY <1>1 DEF QueuedOnce
    <3>3. \A j \in I(p) : j = i
      BY <3>1, <3>2 DEF IsInjective
    <3> QED BY <3>1, <3>3
  <2>2. \A q \in Proc : q # p => I(q) = {}
    <3>1. \A q \in Proc : p # q => Queue(handler_queue, p) \cap Queue(handler_queue, q) = {}
      BY <1>1 DEF QueuedOnce
    <3> HIDE DEF I
    <3> QED BY <1>2, <1>4, <3>1
  <2> HIDE DEF I
  <2>3. U = {<<p, i>>}
    BY <2>1, <2>2
  <2> QED BY <2>3, FS_Singleton DEF InHandlerQueues, I
<1> QED BY <1>3, <1>4

(* The events, and the alarm handlers that run (timer.c, time_calls.c). *)
LEMMA TimerSafe == TimerInv => EventsQueued /\ AlarmAlone
<1> SUFFICES ASSUME TimerInv PROVE EventsQueued /\ AlarmAlone
  OBVIOUS
<1>1. /\ QueuedOnce(timer_queue, handler_queue, StartedIn(K))
      /\ Timely(timer_queue, time, current_time)
      /\ Served(handler_queue, ipi, exec, ended) /\ Alone(exec, imm)
      /\ \A p \in Proc : ~handler_queue[p].upd
      /\ timer_queue \in Seq(Object) /\ time \in [Object -> Int]
  BY NowK, KFields DEF KInv, Looked
<1>2. ASSUME NEW h \in Handler
      PROVE  InTimerQueue(h) + InHandlerQueues(h) = IF Started(h) THEN 1 ELSE 0
  <2>1. InTimerQueue(h) = IF h \in Range(timer_queue) THEN 1 ELSE 0
    BY <1>1, Counted DEF QueuedOnce, InTimerQueue
  <2>2. InHandlerQueues(h) = IF \E p \in Proc : h \in Queue(handler_queue, p) THEN 1 ELSE 0
    BY CountedInQueues
  <2>3. Started(h) <=> Queued(timer_queue, handler_queue, h)
    BY <1>1, NowK DEF QueuedOnce
  <2>4. ~(h \in Range(timer_queue) /\ \E p \in Proc : h \in Queue(handler_queue, p))
    BY <1>1 DEF QueuedOnce
  <2> QED BY <2>1, <2>2, <2>3, <2>4 DEF Queued
<1>3. \A i \in 1..Len(timer_queue) :
        /\ time[timer_queue[i]] > current_time
        /\ i > 1 => time[timer_queue[i - 1]] <= time[timer_queue[i]]
  <2>1. DOMAIN timer_queue = 1..Len(timer_queue) /\ Len(timer_queue) \in Nat
    BY <1>1
  <2> SUFFICES ASSUME NEW i \in 1..Len(timer_queue)
               PROVE  /\ time[timer_queue[i]] > current_time
                      /\ i > 1 => time[timer_queue[i - 1]] <= time[timer_queue[i]]
    OBVIOUS
  <2>2. time[timer_queue[i]] > current_time
    BY <1>1, <2>1 DEF Timely, Range
  <2>3. i > 1 => i - 1 \in DOMAIN timer_queue /\ i \in DOMAIN timer_queue /\ i - 1 < i
    BY <2>1
  <2> QED BY <1>1, <2>2, <2>3 DEF Timely
<1>4. \A p \in Proc :
        /\ handler_queue[p].hdrque # <<>> => handler_queue[p].act
        /\ handler_queue[p].act = (p \in ipi \/ exec[p] # Idle \/ p \in ended)
  <2> SUFFICES ASSUME NEW p \in Proc
               PROVE  /\ handler_queue[p].hdrque # <<>> => handler_queue[p].act
                      /\ handler_queue[p].act = (p \in ipi \/ exec[p] # Idle \/ p \in ended)
    OBVIOUS
  <2>1. /\ handler_queue[p].hdrque # <<>> => handler_queue[p].act
        /\ handler_queue[p].act <=> p \in ipi \/ exec[p] # Idle \/ p \in ended
    BY <1>1 DEF Served
  <2>2. handler_queue[p].act \in BOOLEAN
    BY NowK, KFields DEF HandlerQueue
  <2> QED BY <2>1, <2>2
<1>5. EventsQueued
  BY <1>2, <1>3, <1>4 DEF EventsQueued
<1>6. AlarmAlone
  BY <1>1 DEF AlarmAlone, Alone
<1> QED BY <1>5, <1>6

-----------------------------------------------------------------------------
(* The phase of cyclic handlers (InPhase) *)

(* What of a record k it is about.                                         *)
Formed(k) ==
  /\ DOMAIN k = {"now", "tq", "time", "hq", "cb", "no", "exec", "imm", "ipi"}
  /\ k.now \in Int /\ k.time \in [Object -> Int]
  /\ DOMAIN k.cb = Handler /\ DOMAIN k.exec = Proc
  /\ \A c \in Cyc : k.cb[c] # NOEXS => k.cb[c] \in CycCB

(* r is k with nothing new for c; it is k after a step that may call c.    *)
Quiet(k, r, c) ==
  /\ Formed(r) /\ r.cb[c] # NOEXS /\ r.cb[c].cyctim = k.cb[c].cyctim
  /\ r.time[c] = k.time[c]
  /\ \A q \in Proc : r.exec[q] = k.exec[q] \/ r.exec[q] = Idle

OnBeat(k, r, c) ==
  /\ \E m \in Int : r.time[c] = k.time[c] + m * k.cb[c].cyctim
  /\ \A q \in Proc : r.exec[q] # k.exec[q] /\ r.exec[q] # Idle /\ r.exec[q].inst.hdr = c =>
       r.time[c] > r.now

(* What InPhase asks of a step for a handler that exists.                  *)
OnTime(c) ==
  /\ cyccb[c].phs => (time'[c] - time[c]) % cyccb[c].cyctim = 0
  /\ \A p \in Proc :
       exec'[p] # exec[p] /\ exec'[p] # Idle /\ exec'[p].inst.hdr = c => time'[c] > current_time'

LEMMA FormedK ==
  ASSUME NEW k \in KType
  PROVE  Formed(k)
<1>1. DOMAIN k = {"now", "tq", "time", "hq", "cb", "no", "exec", "imm", "ipi"}
  BY DEF KType
<1>2. k.cb \in ControlBlocks /\ k.exec \in [Proc -> Executions \cup {Idle}]
      /\ k.now \in Int /\ k.time \in [Object -> Int]
  BY DEF KType
<1> QED BY <1>1, <1>2 DEF Formed, ControlBlocks

(* A multiple of cyctim. *)
LEMMA Multiple ==
  ASSUME NEW d \in Nat \ {0}, NEW m \in Int, NEW t \in Int, NEW s \in Int, s = t + m * d
  PROVE  (s - t) % d = 0
<1>1. (m * d) % d = 0
  OBVIOUS
<1>2. s - t = m * d
  OBVIOUS
<1> QED BY <1>1, <1>2

(* Whatever the steps before, r is what the call computes.                 *)
LEMMA Beats ==
  ASSUME TimerInv, NEW c \in Cyc, Exists(c), NEW k, Quiet(K, k, c), NEW r, OnBeat(k, r, c),
         Becomes(r)
  PROVE  OnTime(c)
<1>1. time' = r.time /\ exec' = r.exec /\ current_time' = r.now
  BY DEF Becomes
<1>2. /\ K.time = time /\ K.exec = exec /\ K.cb[c] = cyccb[c] /\ K.cb[c] # NOEXS
      /\ K.cb[c] \in CycCB /\ time \in [Object -> Int] /\ c \in Object
  BY NowK, FormedK DEF Formed, Exists, Object, Handler
<1>3. PICK m \in Int : r.time[c] = k.time[c] + m * k.cb[c].cyctim
  BY DEF OnBeat
<1>4. k.time[c] = time[c] /\ k.cb[c].cyctim = cyccb[c].cyctim
  BY <1>2 DEF Quiet
<1>5. cyccb[c].cyctim \in Nat \ {0} /\ time[c] \in Int
  BY <1>2 DEF CycCB
<1>6. (time'[c] - time[c]) % cyccb[c].cyctim = 0
  <2> DEFINE d == cyccb[c].cyctim
             t == time[c]
             s == time'[c]
  <2>1. s = t + m * d
    BY <1>1, <1>3, <1>4
  <2> HIDE DEF d, t, s
  <2>2. d \in Nat \ {0} /\ t \in Int
    BY <1>5 DEF d, t
  <2>3. s \in Int
    BY <2>1, <2>2
  <2>4. (s - t) % d = 0
    BY <2>1, <2>2, <2>3, Multiple
  <2> QED BY <2>4 DEF d, t, s
<1>7. ASSUME NEW p \in Proc, exec'[p] # exec[p], exec'[p] # Idle, exec'[p].inst.hdr = c
      PROVE  time'[c] > current_time'
  BY <1>1, <1>2, <1>7 DEF Quiet, OnBeat
<1> QED BY <1>6, <1>7 DEF OnTime

(* cyc_next_time keeps the phase. *)
LEMMA NextInPhase ==
  ASSUME NEW k, Formed(k), NEW c \in Cyc, k.cb[c] # NOEXS
  PROVE  /\ \E m \in Int : cyc_next_time(k, c) = k.time[c] + m * k.cb[c].cyctim
         /\ cyc_next_time(k, c) > k.now
<1> DEFINE d == k.cb[c].cyctim
           t == k.time[c]
           n == k.now
<1>1. d \in Nat \ {0} /\ t \in Int /\ n \in Int
  BY DEF Formed, CycCB, Object, Handler
<1>2. cyc_next_time(k, c) = IF t + d > n THEN t + d ELSE t + ((n - t) \div d + 1) * d
  BY DEF cyc_next_time
<1> HIDE DEF d, t, n
<1>3. CASE t + d > n
  <2>1. cyc_next_time(k, c) = t + 1 * d
    BY <1>1, <1>2, <1>3
  <2> QED BY <1>1, <1>2, <1>3, <2>1 DEF d, t, n
<1>4. CASE ~(t + d > n)
  <2> DEFINE v == n - t
             m == v \div d + 1
             x == m * d
  <2>1. v \in Nat /\ n = t + v
    BY <1>1, <1>4
  <2>2. x > v /\ m \in Int /\ x \in Int
    <3>1. (v \div d + 1) * d > v /\ v \div d \in Int
      <4> HIDE DEF v
      <4> QED BY <1>1, <2>1, DivUp
    <3> QED BY <1>1, <3>1
  <2>3. cyc_next_time(k, c) = t + x
    BY <1>2, <1>4
  <2> HIDE DEF v, x
  <2>4. t + x > n
    BY <1>1, <2>1, <2>2
  <2>5. cyc_next_time(k, c) = t + m * d
    BY <2>3 DEF x
  <2> HIDE DEF m
  <2> QED BY <2>2, <2>3, <2>4, <2>5 DEF d, t, n
<1> QED BY <1>3, <1>4

(* Steps that leave the cyclic handlers as they are. *)
LEMMA Unbeaten ==
  ASSUME NEW k, NEW r, NEW c, Formed(k), k.cb[c] # NOEXS, c \in Cyc,
         r.time[c] = k.time[c], r.exec = k.exec
  PROVE  OnBeat(k, r, c)
<1>1. k.time[c] \in Int /\ k.cb[c].cyctim \in Int
  BY DEF Formed, CycCB, Object, Handler
<1>2. r.time[c] = k.time[c] + 0 * k.cb[c].cyctim
  BY <1>1
<1> QED BY <1>2 DEF OnBeat

(* timer_insert_abs sets one time. *)
LEMMA InsertedFields ==
  ASSUME NEW k, Formed(k), NEW o, NEW tm
  PROVE  LET r == timer_insert_abs(k, o, tm)
         IN  /\ DOMAIN r = DOMAIN k /\ r.time = [k.time EXCEPT ![o] = tm]
             /\ r.now = k.now /\ r.cb = k.cb /\ r.no = k.no /\ r.exec = k.exec
<1> DEFINE i == SelectInSeq(k.tq, LAMBDA x : tm < k.time[x])
           q == IF i = 0 THEN Append(k.tq, o) ELSE InsertAt(k.tq, i, o)
           r == timer_insert_abs(k, o, tm)
<1>1. r = [k EXCEPT !.time[o] = tm, !.tq = q]
  BY DEF timer_insert_abs, Formed
<1> HIDE DEF q, r
<1> QED BY <1>1 DEF Formed, r

LEMMA InsertedTime ==
  ASSUME NEW k, Formed(k), NEW o \in Object, NEW tm \in Int
  PROVE  LET r == timer_insert_abs(k, o, tm)
         IN  /\ Formed(r) /\ r.time[o] = tm /\ \A x \in Object \ {o} : r.time[x] = k.time[x]
             /\ r.now = k.now /\ r.cb = k.cb /\ r.no = k.no /\ r.exec = k.exec
<1> DEFINE nt == [k.time EXCEPT ![o] = tm]
           r == timer_insert_abs(k, o, tm)
<1>2. /\ DOMAIN r = DOMAIN k /\ r.time = nt
      /\ r.now = k.now /\ r.cb = k.cb /\ r.no = k.no /\ r.exec = k.exec
  BY InsertedFields
<1>3. nt \in [Object -> Int] /\ nt[o] = tm /\ \A x \in Object \ {o} : nt[x] = k.time[x]
  BY DEF Formed
<1> HIDE DEF r, nt
<1>4. Formed(r)
  BY <1>2, <1>3 DEF Formed
<1> QED BY <1>2, <1>3, <1>4 DEF r

(* A cyclic handler that is called, from a queue or at once. *)
LEMMA CycBeats ==
  ASSUME NEW k, Formed(k), NEW c \in Cyc, k.cb[c] # NOEXS, NEW p \in Proc, NEW by, NEW x \in Cyc
  PROVE  /\ OnBeat(k, call_cychdr(k, p, by, x), c)
         /\ k.cb[x].assprc = Idle => OnBeat(k, immediate_call_cychdr(k, p, x), c)
<1> DEFINE tm == cyc_next_time(k, x)
           i == timer_insert_abs(k, x, tm)
           r == call_cychdr(k, p, by, x)
           s == immediate_call_cychdr(k, p, x)
<1>1. c \in Object /\ x \in Object
  BY DEF Object, Handler
<1>2. DOMAIN i = DOMAIN k /\ i.now = k.now /\ i.exec = k.exec /\ i.time = [k.time EXCEPT ![x] = tm]
  BY InsertedFields
<1>3. r = [i EXCEPT !.cb[x].stat = @ \cup {"RUN"}, !.exec[p] = [by |-> by, inst |-> Instance(k, x)]]
  BY DEF call_cychdr
<1>4. k.cb[x].assprc = Idle =>
        s = [i EXCEPT !.cb[x].stat = @ \cup {"RUN", "IMM"}, !.imm[p] = Instance(k, x)]
  BY DEF immediate_call_cychdr
<1>5. Instance(k, x).hdr = x
  BY DEF Instance
<1> HIDE DEF i, r, s
<1>6. /\ r.time = i.time /\ r.now = k.now
      /\ \A q \in Proc : r.exec[q] = IF q = p THEN [by |-> by, inst |-> Instance(k, x)] ELSE k.exec[q]
  BY <1>2, <1>3 DEF Formed
<1>7. k.cb[x].assprc = Idle => s.time = i.time /\ s.now = k.now /\ s.exec = k.exec
  BY <1>2, <1>4 DEF Formed
<1>8. \E m \in Int : i.time[c] = k.time[c] + m * k.cb[c].cyctim
  <2>1. CASE x = c
    <3>1. i.time[c] = tm
      BY <1>1, <1>2, <2>1 DEF Formed
    <3> QED BY <2>1, <3>1, NextInPhase
  <2>2. CASE x # c
    <3>1. k.time[c] \in Int /\ k.cb[c].cyctim \in Int
      BY <1>1 DEF Formed, CycCB
    <3>2. i.time[c] = k.time[c]
      BY <1>1, <1>2, <2>2 DEF Formed
    <3>3. i.time[c] = k.time[c] + 0 * k.cb[c].cyctim
      BY <3>1, <3>2
    <3> QED BY <3>3
  <2> QED BY <2>1, <2>2
<1>9. x = c => i.time[c] > k.now
  <2> SUFFICES ASSUME x = c PROVE i.time[c] > k.now
    OBVIOUS
  <2>1. i.time[c] = tm
    BY <1>1, <1>2 DEF Formed
  <2> QED BY <2>1, NextInPhase
<1>10. OnBeat(k, r, c)
  BY <1>5, <1>6, <1>8, <1>9 DEF OnBeat
<1>11. k.cb[x].assprc = Idle => OnBeat(k, s, c)
  BY <1>7, <1>8 DEF OnBeat
<1> QED BY <1>10, <1>11 DEF r, s

(* The loop takes what stands first in its queue, or ends. *)
LEMMA LoopBeats ==
  ASSUME NEW k, Formed(k), NEW c \in Cyc, k.cb[c] # NOEXS, NEW p \in Proc, NEW by
  PROVE  OnBeat(k, handler_execution(k, p, by), c)
<1> DEFINE h == Head(k.hq[p].hdrque)
           q == [k EXCEPT !.hq[p].hdrque = Tail(@)]
           r == handler_execution(k, p, by)
<1>0. c \in Object /\ c \in Handler
  BY DEF Object, Handler
<1>1. /\ Formed(q) /\ q.time = k.time /\ q.exec = k.exec /\ q.cb = k.cb /\ q.now = k.now
  BY DEF Formed
<1>2. CASE k.hq[p].hdrque = <<>>
  <2>1. r = [k EXCEPT !.hq[p].act = FALSE, !.exec[p] = Idle]
    BY <1>2 DEF handler_execution
  <2> HIDE DEF r
  <2>2. r.time = k.time /\ \A x \in Proc : r.exec[x] = k.exec[x] \/ r.exec[x] = Idle
    BY <2>1 DEF Formed
  <2>3. k.time[c] \in Int /\ k.cb[c].cyctim \in Int
    BY <1>0 DEF Formed, CycCB
  <2>4. r.time[c] = k.time[c] + 0 * k.cb[c].cyctim
    BY <2>2, <2>3
  <2> QED BY <2>2, <2>4 DEF OnBeat, r
<1>3. CASE k.hq[p].hdrque # <<>> /\ h \in Cyc
  <2>1. r = call_cychdr(q, p, by, h)
    BY <1>3 DEF handler_execution
  <2> HIDE DEF q, h
  <2>2. OnBeat(q, r, c)
    <3>1. q.cb[c] # NOEXS
      BY <1>1
    <3> HIDE DEF r
    <3> QED BY <1>1, <1>3, <2>1, <3>1, CycBeats
  <2> HIDE DEF r
  <2> QED BY <1>1, <2>2 DEF OnBeat, r
<1>4. CASE k.hq[p].hdrque # <<>> /\ h \notin Cyc
  <2>1. r = call_almhdr(q, p, by, h)
    BY <1>4 DEF handler_execution
  <2>2. Instance(q, h).hdr = h
    BY DEF Instance
  <2> HIDE DEF q, h, r
  <2>3. /\ \A x \in Proc : r.exec[x] = IF x = p THEN [by |-> by, inst |-> Instance(q, h)] ELSE k.exec[x]
        /\ r.time = [k.time EXCEPT ![h] = 0]
    BY <1>1, <2>1 DEF Formed, call_almhdr, Forget
  <2>4. k.time[c] \in Int /\ k.cb[c].cyctim \in Int
    BY <1>0 DEF Formed, CycCB
  <2>5. h # c
    BY <1>4
  <2>6. r.time[c] = k.time[c]
    BY <1>0, <2>3, <2>5 DEF Formed
  <2>7. r.time[c] = k.time[c] + 0 * k.cb[c].cyctim
    BY <2>4, <2>6
  <2>8. \A x \in Proc : r.exec[x] # k.exec[x] => r.exec[x].inst.hdr # c
    BY <2>2, <2>3, <2>5
  <2> QED BY <2>7, <2>8 DEF OnBeat, r
<1> QED BY <1>2, <1>3, <1>4

LEMMA UpdateBeats ==
  ASSUME NEW k, Formed(k), NEW c \in Cyc, k.cb[c] # NOEXS, NEW p \in Proc, NEW by
  PROVE  OnBeat(k, handler_update(k, p, by), c)
<1> DEFINE assprc == check_handler_queue(k)
           g == [q \in Proc |-> [k.hq[q] EXCEPT !.upd = FALSE, !.act = @ \/ q \in assprc]]
           a == [k EXCEPT !.hq = g]
           b == [a EXCEPT !.ipi = @ \cup (assprc \ {p})]
           r == handler_update(k, p, by)
<1>1. r = IF p \in assprc THEN handler_execution(b, p, by) ELSE b
  BY DEF handler_update
<1> HIDE DEF r, g, assprc
<1>2. Formed(b) /\ b.time = k.time /\ b.exec = k.exec /\ b.cb = k.cb /\ b.now = k.now
  BY DEF Formed
<1> HIDE DEF b
<1>3. OnBeat(b, r, c)
  <2>1. CASE p \in assprc
    <3>1. OnBeat(b, handler_execution(b, p, by), c)
      BY <1>2, LoopBeats
    <3> QED BY <1>1, <2>1, <3>1
  <2>2. CASE p \notin assprc
    BY <1>1, <1>2, <2>2, Unbeaten
  <2> QED BY <2>1, <2>2
<1>4. OnBeat(k, r, c)
  BY <1>2, <1>3 DEF OnBeat
<1> QED BY <1>4 DEF r

-----------------------------------------------------------------------------
(* Every action keeps the phase *)

LEMMA Fields ==
  ASSUME TimerInv, NEW c \in Cyc, Exists(c)
  PROVE  /\ Formed(K) /\ K.cb[c] # NOEXS /\ K.cb[c] = cyccb[c] /\ c \in Object /\ c \in Handler
         /\ K.time = time /\ K.exec = exec /\ K.now = current_time
         /\ time \in [Object -> Int] /\ DOMAIN exec = Proc /\ current_time \in Int
         /\ cyccb[c].cyctim \in Nat \ {0} /\ time[c] \in Int
         /\ Quiet(K, K, c)
<1>1. /\ Formed(K) /\ K.cb[c] # NOEXS /\ K.cb[c] = cyccb[c] /\ c \in Object /\ c \in Handler
      /\ K.time = time /\ K.exec = exec /\ K.now = current_time
  BY NowK, FormedK DEF Exists, Object, Handler
<1>2. /\ time \in [Object -> Int] /\ DOMAIN exec = Proc /\ current_time \in Int
      /\ cyccb[c] \in CycCB
  BY <1>1 DEF Formed
<1>3. Quiet(K, K, c)
  BY <1>1 DEF Quiet
<1> QED BY <1>1, <1>2, <1>3 DEF CycCB

LEMMA SameTime ==
  ASSUME TimerInv, NEW c \in Cyc, Exists(c), time'[c] = time[c],
         \A q \in Proc : exec'[q] = exec[q] \/ exec'[q] = Idle
  PROVE  OnTime(c)
<1>1. cyccb[c].cyctim \in Nat \ {0} /\ time[c] \in Int
  BY Fields
<1>2. time'[c] = time[c] + 0 * cyccb[c].cyctim
  BY <1>1
<1>3. (time'[c] - time[c]) % cyccb[c].cyctim = 0
  <2> DEFINE d == cyccb[c].cyctim
             t == time[c]
             s == time'[c]
  <2> HIDE DEF d, t, s
  <2>1. d \in Nat \ {0} /\ t \in Int /\ s = t + 0 * d
    BY <1>1, <1>2 DEF d, t, s
  <2>2. s \in Int
    BY <2>1
  <2>3. (s - t) % d = 0
    BY <2>1, <2>2, Multiple
  <2> QED BY <2>3 DEF d, t, s
<1> QED BY <1>3 DEF OnTime

(* A call that sets the time of another object, and runs nothing. *)
LEMMA OtherTime ==
  ASSUME TimerInv, NEW c \in Cyc, Exists(c), NEW r, Becomes(r), NEW o, o # c,
         r.time = time \/ \E tm : r.time = [time EXCEPT ![o] = tm], r.exec = exec
  PROVE  OnTime(c)
<1>1. time' = r.time /\ exec' = exec /\ time \in [Object -> Int] /\ c \in Object
  BY Fields DEF Becomes
<1>2. time'[c] = time[c]
  BY <1>1
<1> QED BY <1>1, <1>2, SameTime

LEMMA TicksOnTime ==
  ASSUME TimerInv, NEW c \in Cyc, Exists(c), timer_handler
  PROVE  OnTime(c)
<1> DEFINE now == current_time + TIMER_PERIOD
           j == [K EXCEPT !.now = now, !.tq = SubSeq(@, Due(now) + 1, Len(@))]
           due == SubSeq(timer_queue, 1, Due(now))
           k == expire(j, due)
           r == handler_update(k, TimerProc, "INT")
<1>1. Becomes(r)
  BY DEF timer_handler
<1>2. now \in Int /\ TimerProc \in Proc /\ c \notin Task
  BY Fields, TimerAssumption
<1>3. /\ DOMAIN j = DOMAIN K /\ j.now = now /\ j.time = time /\ j.cb = K.cb /\ j.exec = exec
  BY Fields DEF Formed
<1> HIDE DEF j, due, now
<1>4. /\ DOMAIN k = DOMAIN j /\ k.now = now /\ k.cb = j.cb /\ k.exec = j.exec
      /\ k.time = [o \in Object |-> IF o \in Task /\ Contains(due, o) THEN 0 ELSE j.time[o]]
  BY <1>3, Fields DEF expire, Formed
<1> HIDE DEF k
<1>5. k.time \in [Object -> Int] /\ k.time[c] = time[c]
  BY <1>2, <1>3, <1>4, Fields
<1>6. Formed(k)
  BY <1>2, <1>3, <1>4, <1>5, Fields DEF Formed
<1>7. Quiet(K, k, c)
  BY <1>3, <1>4, <1>5, <1>6, Fields DEF Quiet
<1>8. OnBeat(k, r, c)
  BY <1>2, <1>6, <1>7, UpdateBeats DEF Quiet
<1> HIDE DEF r
<1> QED BY <1>1, <1>7, <1>8, Beats

LEMMA RequestOnTime ==
  ASSUME TimerInv, NEW c \in Cyc, Exists(c), NEW p \in Proc, handler_interrupt(p)
  PROVE  OnTime(c)
<1> DEFINE k == [K EXCEPT !.ipi = @ \ {p}]
           r == handler_execution(k, p, "INT")
<1>1. Becomes(r)
  BY DEF handler_interrupt
<1>2. Quiet(K, k, c)
  BY Fields DEF Quiet, Formed
<1> HIDE DEF k
<1>3. OnBeat(k, r, c)
  BY <1>2, LoopBeats DEF Quiet
<1> HIDE DEF r
<1> QED BY <1>1, <1>2, <1>3, Beats

(* ClearRun changes the flags of a control block only. *)
LEMMA ClearRunQuiet ==
  ASSUME TimerInv, NEW c \in Cyc, Exists(c), NEW inst, inst.hdr \in Handler,
         Known(K.cb, K.no, inst), NEW flags
  PROVE  Quiet(K, ClearRun(K, inst, flags), c)
<1> DEFINE h == inst.hdr
           s == K.cb[h].stat \ flags
           r == ClearRun(K, inst, flags)
<1>1. CASE K.no[h] # inst.no
  BY <1>1, Fields DEF ClearRun
<1>2. CASE K.no[h] = inst.no
  <2>1. K.cb[h] # NOEXS
    BY <1>2 DEF Known
  <2>2. r = [K EXCEPT !.cb[h].stat = s]
    BY <1>2, Fields DEF ClearRun, Formed
  <2> HIDE DEF r
  <2>3. /\ DOMAIN r = DOMAIN K /\ r.now = K.now /\ r.time = K.time /\ r.exec = K.exec
        /\ r.cb = [K.cb EXCEPT ![h].stat = s]
    BY <2>2, Fields DEF Formed
  <2>4. DOMAIN r.cb = Handler /\ \A x \in Handler : x # h => r.cb[x] = K.cb[x]
    BY <2>3, Fields DEF Formed
  <2>5. r.cb[h] = [K.cb[h] EXCEPT !.stat = s]
    BY <2>3, Fields DEF Formed
  <2>6. h \in Cyc => r.cb[h] \in CycCB /\ r.cb[h].cyctim = K.cb[h].cyctim
    <3> SUFFICES ASSUME h \in Cyc PROVE r.cb[h] \in CycCB /\ r.cb[h].cyctim = K.cb[h].cyctim
      OBVIOUS
    <3>1. K.cb[h] \in CycCB
      BY <2>1, Fields DEF Formed
    <3> HIDE DEF h
    <3>2. s \in SUBSET Flags
      BY <3>1 DEF CycCB
    <3> HIDE DEF s
    <3> QED BY <2>5, <3>1, <3>2 DEF CycCB
  <2> HIDE DEF h, s
  <2>7. \A x \in Cyc : r.cb[x] # NOEXS => r.cb[x] \in CycCB
    BY <2>4, <2>6, Fields DEF Formed, Handler
  <2>8. Formed(r)
    BY <2>3, <2>4, <2>7, Fields DEF Formed
  <2>9. r.cb[c] # NOEXS /\ r.cb[c].cyctim = K.cb[c].cyctim
    BY <2>4, <2>6, Fields, NoneAssumption
  <2>10. Quiet(K, r, c)
    BY <2>3, <2>8, <2>9 DEF Quiet
  <2> QED BY <2>10 DEF r
<1> QED BY <1>1, <1>2

LEMMA ReturnsOnTime ==
  ASSUME TimerInv, NEW c \in Cyc, Exists(c), NEW p \in Proc, HandlerReturns(p)
  PROVE  OnTime(c)
<1> DEFINE inst == exec[p].inst
           j == ClearRun(K, inst, {"RUN"})
           k == [j EXCEPT !.exec[p] = Idle]
           r == handler_execution(k, p, exec[p].by)
<1>1. Becomes(r) /\ exec[p] # Idle
  BY DEF HandlerReturns
<1>2. inst.hdr \in Handler /\ Known(K.cb, K.no, inst)
  BY <1>1, NowK, Runners DEF KInv, Remembered
<1> HIDE DEF inst
<1>3. Quiet(K, j, c)
  BY <1>2, ClearRunQuiet
<1> HIDE DEF j
<1>4. Formed(k) /\ k.time = j.time /\ k.cb = j.cb /\ k.exec = [j.exec EXCEPT ![p] = Idle]
  BY <1>3 DEF Quiet, Formed
<1> HIDE DEF k
<1>5. \A q \in Proc : k.exec[q] = j.exec[q] \/ k.exec[q] = Idle
  BY <1>3, <1>4 DEF Quiet, Formed
<1>6. Quiet(K, k, c)
  BY <1>3, <1>4, <1>5 DEF Quiet
<1>7. OnBeat(k, r, c)
  BY <1>6, LoopBeats DEF Quiet
<1> HIDE DEF r
<1> QED BY <1>1, <1>6, <1>7, Beats

LEMMA OnceReturnsOnTime ==
  ASSUME TimerInv, NEW c \in Cyc, Exists(c), NEW p \in Proc, ImmediateReturns(p)
  PROVE  OnTime(c)
<1> DEFINE inst == imm[p]
           j == ClearRun(K, inst, {"RUN", "IMM"})
           r == [j EXCEPT !.imm[p] = Idle]
<1>1. Becomes(r)
  BY DEF ImmediateReturns
<1>2. j.time = time /\ j.exec = exec /\ DOMAIN j = DOMAIN K
  BY Fields DEF ClearRun, Formed
<1> HIDE DEF j
<1>3. r.time = time /\ r.exec = exec
  BY <1>2, Fields DEF Formed
<1> HIDE DEF r
<1> QED BY <1>1, <1>3, SameTime DEF Becomes

LEMMA LoopLeftOnTime ==
  ASSUME TimerInv, NEW c \in Cyc, Exists(c), NEW p \in Proc, TaskEnds(p)
  PROVE  OnTime(c)
<1>1. time' = time /\ exec' = [exec EXCEPT ![p] = Idle]
  BY DEF TaskEnds
<1> QED BY <1>1, Fields, SameTime

(* timer_delete, Stop and Forget leave the times of others alone. *)
LEMMA StopFields ==
  ASSUME TimerInv, NEW c \in Cyc, Exists(c), NEW h
  PROVE  /\ LET r == timer_delete(K, h)
            IN  Formed(r) /\ r.time = time /\ r.exec = exec /\ r.cb = K.cb /\ r.now = current_time
         /\ Stop(K, h).time = time /\ Stop(K, h).exec = exec /\ DOMAIN Stop(K, h) = DOMAIN K
<1> DEFINE r == timer_delete(K, h)
<1>1. /\ Formed(r) /\ DOMAIN r = DOMAIN K
      /\ r.time = time /\ r.exec = exec /\ r.cb = K.cb /\ r.now = current_time
  BY Fields DEF timer_delete, Formed
<1> HIDE DEF r
<1>2. Stop(K, h) = [IF Started(h) THEN r ELSE K EXCEPT !.cb[h].stat = @ \ {"STA"}]
  BY DEF Stop, r
<1>3. Stop(K, h).time = time /\ Stop(K, h).exec = exec /\ DOMAIN Stop(K, h) = DOMAIN K
  <2>1. CASE Started(h)
    BY <1>1, <1>2, <2>1, Fields DEF Formed
  <2>2. CASE ~Started(h)
    BY <1>1, <1>2, <2>2, Fields DEF Formed
  <2> QED BY <2>1, <2>2
<1> QED BY <1>1, <1>3 DEF r

LEMMA StopsOnTime ==
  ASSUME TimerInv, NEW c \in Cyc, Exists(c), NEW h \in Handler,
         \/ _tk_stp_cyc(h) \/ (h # c /\ _tk_stp_alm(h))
         \/ (hdrno'[c] = hdrno[c] /\ (_tk_del_cyc(h) \/ _tk_del_alm(h)))
  PROVE  OnTime(c)
<1> DEFINE s == Stop(K, h)
           f == Forget(s, h)
           d == [f EXCEPT !.cb[h] = NOEXS, !.no[h] = @ + 1]
<1>1. s.time = time /\ s.exec = exec /\ DOMAIN s = DOMAIN K
  BY StopFields
<1>2. CASE _tk_stp_cyc(h)
  BY <1>1, <1>2, SameTime DEF _tk_stp_cyc, Becomes
<1>3. f.time = [time EXCEPT ![h] = 0] /\ f.exec = exec /\ DOMAIN f = DOMAIN K
  <2> HIDE DEF s
  <2> QED BY <1>1, Fields DEF Forget, Formed
<1>4. CASE h # c /\ _tk_stp_alm(h)
  <2>1. Becomes(f)
    BY <1>4 DEF _tk_stp_alm
  <2> HIDE DEF f
  <2> QED BY <1>3, <1>4, <2>1, OtherTime
<1>5. CASE hdrno'[c] = hdrno[c] /\ (_tk_del_cyc(h) \/ _tk_del_alm(h))
  <2>1. Becomes(d)
    BY <1>5 DEF _tk_del_cyc, _tk_del_alm, Delete
  <2>2. d.time = f.time /\ d.exec = f.exec /\ d.no = [f.no EXCEPT ![h] = @ + 1]
    <3> HIDE DEF f
    <3> QED BY <1>3, Fields DEF Formed
  <2>3. f.no = hdrno
    <3>1. s.no = hdrno
      BY Fields, NowK DEF Stop, timer_delete, Formed
    <3> HIDE DEF s
    <3> QED BY <1>1, <3>1, Fields DEF Forget, Formed
  <2> HIDE DEF d, f
  <2>4. h # c
    <3> SUFFICES ASSUME h = c PROVE FALSE
      OBVIOUS
    <3>1. hdrno \in [Handler -> Nat]
      BY NowK, KFields
    <3>2. hdrno'[c] = hdrno[c] + 1
      BY <2>1, <2>2, <2>3, <3>1, Fields DEF Becomes
    <3> QED BY <1>5, <3>1, <3>2, Fields
  <2>5. d.time = [time EXCEPT ![h] = 0] /\ d.exec = exec
    BY <1>3, <2>2
  <2> QED BY <2>1, <2>4, <2>5, OtherTime
<1> QED BY <1>2, <1>4, <1>5

LEMMA TasksOnTime ==
  ASSUME TimerInv, NEW c \in Cyc, Exists(c), NEW t \in Task,
         wait_release(t) \/ \E dlytim \in Dlytims : _tk_dly_tsk(t, dlytim)
  PROVE  OnTime(c)
<1>0. t # c
  BY TimerAssumption
<1>1. CASE wait_release(t)
  <2> DEFINE s == timer_delete(K, t)
             f == Forget(s, t)
  <2>1. Formed(s) /\ s.time = time /\ s.exec = exec
    BY StopFields
  <2>2. Becomes(f)
    BY <1>1 DEF wait_release
  <2> HIDE DEF s
  <2>3. f.time = [time EXCEPT ![t] = 0] /\ f.exec = exec
    BY <2>1 DEF Forget, Formed
  <2> HIDE DEF f
  <2> QED BY <1>0, <2>2, <2>3, OtherTime
<1>2. ASSUME NEW dlytim \in Dlytims, _tk_dly_tsk(t, dlytim) PROVE OnTime(c)
  <2> DEFINE tm == K.now + dlytim + TIMER_PERIOD
             r == timer_insert_abs(K, t, tm)
  <2>1. Becomes(r)
    BY <1>2 DEF _tk_dly_tsk, timer_insert_reltim
  <2>2. r.time = [time EXCEPT ![t] = tm] /\ r.exec = exec
    <3> HIDE DEF tm
    <3> QED BY InsertedFields, Fields
  <2> HIDE DEF r
  <2> QED BY <1>0, <2>1, <2>2, OtherTime
<1> QED BY <1>1, <1>2

LEMMA AlmCreatedOnTime ==
  ASSUME TimerInv, NEW c \in Cyc, Exists(c), NEW a \in Alm, _tk_cre_alm(a)
  PROVE  OnTime(c)
<1>1. PICK assprc : Becomes([K EXCEPT !.cb[a] = [assprc |-> assprc, stat |-> {}]])
  BY DEF _tk_cre_alm
<1> DEFINE r == [K EXCEPT !.cb[a] = [assprc |-> assprc, stat |-> {}]]
<1>2. r.time = time /\ r.exec = exec
  BY Fields DEF Formed
<1> QED BY <1>1, <1>2, SameTime DEF Becomes

LEMMA AlmStartedOnTime ==
  ASSUME TimerInv, NEW c \in Cyc, Exists(c), NEW a \in Alm, NEW p \in Proc, NEW almtim \in Almtims,
         _tk_sta_alm(p, a, almtim)
  PROVE  OnTime(c)
<1> DEFINE k == IF Started(a) THEN timer_delete(K, a) ELSE K
<1>0. a # c /\ a \notin Cyc
  BY TimerAssumption
<1>1. Formed(k) /\ k.time = time /\ k.exec = exec /\ k.cb = K.cb /\ k.now = current_time
  BY StopFields, Fields
<1>2. Becomes(IF almtim = 0 THEN immediate_call_almhdr(k, p, a)
              ELSE timer_insert_reltim([k EXCEPT !.cb[a].stat = @ \cup {"STA"}], a, almtim))
  BY DEF _tk_sta_alm
<1> HIDE DEF k
<1>3. CASE almtim # 0
  <2> DEFINE s == [k EXCEPT !.cb[a].stat = @ \cup {"STA"}]
             tm == s.now + almtim + TIMER_PERIOD
             r == timer_insert_abs(s, a, tm)
  <2>1. Becomes(r)
    BY <1>2, <1>3 DEF timer_insert_reltim
  <2>2. Formed(s) /\ s.time = time /\ s.exec = exec
    BY <1>0, <1>1 DEF Formed
  <2> HIDE DEF s
  <2>3. r.time = [time EXCEPT ![a] = tm] /\ r.exec = exec
    <3> HIDE DEF tm
    <3> QED BY <2>2, InsertedFields
  <2> HIDE DEF r
  <2> QED BY <1>0, <2>1, <2>3, OtherTime
<1>4. CASE almtim = 0 /\ k.cb[a].assprc = Idle
  <2> DEFINE r == [Forget(k, a) EXCEPT !.cb[a].stat = (@ \ {"STA"}) \cup {"RUN", "IMM"},
                                       !.imm[p] = Instance(k, a)]
  <2>1. Becomes(r)
    BY <1>2, <1>4 DEF immediate_call_almhdr
  <2>2. r.time = [time EXCEPT ![a] = 0] /\ r.exec = exec
    BY <1>1 DEF Forget, Formed
  <2> HIDE DEF r
  <2> QED BY <1>0, <2>1, <2>2, OtherTime
<1>5. CASE almtim = 0 /\ k.cb[a].assprc # Idle
  <2> DEFINE f == Forget(k, a)
             s == [f EXCEPT !.cb[a].stat = @ \cup {"STA"}]
             d == distribute(s, p, a)
             r == handler_update(d, p, "TASK")
  <2>1. Becomes(r)
    BY <1>2, <1>5 DEF immediate_call_almhdr
  <2>a. Formed(f) /\ f.time[c] = time[c] /\ f.exec = exec /\ f.cb = K.cb
    <3>1. f.time = [time EXCEPT ![a] = 0] /\ DOMAIN f = DOMAIN k /\ f.exec = exec /\ f.cb = K.cb
          /\ f.now = current_time
      BY <1>1 DEF Forget, Formed
    <3> HIDE DEF f
    <3>2. time \in [Object -> Int] /\ c \in Object
      BY Fields
    <3> DEFINE nt == [time EXCEPT ![a] = 0]
    <3>3. nt \in [Object -> Int] /\ nt[c] = time[c]
      <4>1. a \in Object
        BY DEF Object, Handler
      <4> QED BY <1>0, <3>2, <4>1
    <3>4. f.time = nt
      BY <3>1
    <3> HIDE DEF nt
    <3> QED BY <1>1, <3>1, <3>3, <3>4 DEF Formed
  <2> HIDE DEF f
  <2>2. Formed(s) /\ s.time[c] = time[c] /\ s.exec = exec /\ s.cb[c] = K.cb[c]
    BY <1>0, <2>a, Fields DEF Formed
  <2> HIDE DEF s
  <2>3. Formed(d) /\ d.time = s.time /\ d.exec = exec /\ d.cb = s.cb
    BY <2>2 DEF distribute, enqueue_handler, Formed
  <2> HIDE DEF d
  <2>4. Quiet(K, d, c)
    BY <2>2, <2>3, Fields DEF Quiet
  <2>5. OnBeat(d, r, c)
    BY <2>4, UpdateBeats DEF Quiet
  <2> HIDE DEF r
  <2> QED BY <2>1, <2>4, <2>5, Beats
<1> QED BY <1>3, <1>4, <1>5

LEMMA CycCreatedOnTime ==
  ASSUME TimerInv, NEW c \in Cyc, Exists(c), NEW x \in Cyc, NEW p \in Proc, _tk_cre_cyc(p, x)
  PROVE  OnTime(c)
<1>1. PICK kind \in CycKinds :
        LET tm == current_time + kind.cycphs + TIMER_PERIOD
            k == [K EXCEPT !.cb[x] = [assprc |-> kind.assprc, phs |-> kind.phs, cyctim |-> kind.cyctim,
                                      stat |-> IF kind.sta THEN {"STA"} ELSE {}],
                           !.time[x] = tm]
        IN  /\ MayUse(x) /\ ended' = ended
            /\ kind.sta /\ kind.cycphs = 0 => MayCall(p)
            /\ Becomes(IF ~kind.sta THEN k
                       ELSE IF kind.cycphs = 0 THEN immediate_call_cychdr(k, p, x)
                       ELSE timer_insert_abs(k, x, tm))
  BY ZenonT(40) DEF _tk_cre_cyc
<1> DEFINE tm == current_time + kind.cycphs + TIMER_PERIOD
           b == [assprc |-> kind.assprc, phs |-> kind.phs, cyctim |-> kind.cyctim,
                 stat |-> IF kind.sta THEN {"STA"} ELSE {}]
           k == [K EXCEPT !.cb[x] = b, !.time[x] = tm]
<1>2. x # c
  BY <1>1, Fields DEF MayUse, InUse
<1>3. b \in CycCB /\ tm \in Int
  BY Fields, TimerAssumption DEF CycCB, Flags
<1>4. Becomes(IF ~kind.sta THEN k
              ELSE IF kind.cycphs = 0 THEN immediate_call_cychdr(k, p, x)
              ELSE timer_insert_abs(k, x, tm))
  BY <1>1
<1> HIDE DEF b, tm
<1>5. /\ DOMAIN k = DOMAIN K /\ k.now = current_time /\ k.exec = exec
      /\ k.time = [time EXCEPT ![x] = tm] /\ k.cb = [K.cb EXCEPT ![x] = b]
  BY Fields DEF Formed
<1> HIDE DEF k
<1>6. Formed(k) /\ k.time[c] = time[c] /\ k.cb[c] = cyccb[c]
  <2>1. time \in [Object -> Int] /\ c \in Object /\ c \in Handler /\ x \in Handler
    BY Fields DEF Handler
  <2>2. k.time \in [Object -> Int] /\ k.time[c] = time[c]
    BY <1>2, <1>3, <1>5, <2>1
  <2>3. DOMAIN k.cb = Handler /\ \A y \in Handler : k.cb[y] = IF y = x THEN b ELSE K.cb[y]
    BY <1>5, <2>1, Fields DEF Formed
  <2>4. \A y \in Cyc : k.cb[y] # NOEXS => k.cb[y] \in CycCB
    BY <1>3, <2>3, Fields DEF Formed, Handler
  <2> QED BY <1>2, <1>5, <2>1, <2>2, <2>3, <2>4, Fields DEF Formed
<1>7. Quiet(K, k, c)
  BY <1>5, <1>6, Fields DEF Quiet
<1>8. CASE ~kind.sta
  <2>1. Becomes(k)
    BY <1>4, <1>8
  <2> QED BY <1>2, <1>5, <2>1, OtherTime
<1>9. CASE kind.sta /\ kind.cycphs # 0
  <2> DEFINE r == timer_insert_abs(k, x, tm)
  <2>1. Becomes(r)
    BY <1>4, <1>9
  <2>2. r.time = [k.time EXCEPT ![x] = tm] /\ r.exec = k.exec
    BY <1>6, InsertedFields
  <2> HIDE DEF r
  <2>3. time'[c] = time[c] /\ exec' = exec
    BY <1>2, <1>5, <1>6, <2>1, <2>2, Fields DEF Becomes, Formed
  <2> QED BY <2>3, SameTime
<1>10. CASE kind.sta /\ kind.cycphs = 0
  <2> DEFINE r == immediate_call_cychdr(k, p, x)
  <2>1. Becomes(r)
    BY <1>4, <1>10
  <2>2. CASE k.cb[x].assprc = Idle
    <3>1. OnBeat(k, r, c)
      BY <1>7, <2>2, CycBeats DEF Quiet
    <3> HIDE DEF r
    <3> QED BY <1>7, <2>1, <3>1, Beats
  <2>3. CASE k.cb[x].assprc # Idle
    <3> DEFINE d == distribute(k, p, x)
               u == handler_update(d, p, "TASK")
    <3>1. Becomes(u)
      BY <2>1, <2>3 DEF immediate_call_cychdr
    <3>2. Formed(d) /\ d.time = k.time /\ d.exec = k.exec /\ d.cb = k.cb
      BY <1>6 DEF distribute, enqueue_handler, Formed
    <3> HIDE DEF d
    <3>3. Quiet(K, d, c)
      BY <1>7, <3>2 DEF Quiet
    <3>4. OnBeat(d, u, c)
      BY <3>3, UpdateBeats DEF Quiet
    <3> HIDE DEF u
    <3> QED BY <3>1, <3>3, <3>4, Beats
  <2> QED BY <2>2, <2>3
<1> QED BY <1>8, <1>9, <1>10

LEMMA CycStartedOnTime ==
  ASSUME TimerInv, NEW c \in Cyc, Exists(c), NEW x \in Cyc, _tk_sta_cyc(x)
  PROVE  OnTime(c)
<1> DEFINE s == [K EXCEPT !.cb[x].stat = @ \cup {"STA"}]
           d == IF Started(x) THEN timer_delete(s, x) ELSE s
           dn == d.now + cyccb[x].cyctim + TIMER_PERIOD
           tm == IF time[x] <= current_time THEN cyc_next_time(K, x) ELSE time[x]
<1>1. /\ Exists(x)
      /\ Becomes(IF ~cyccb[x].phs THEN timer_insert_abs(d, x, dn)
                 ELSE IF Started(x) THEN s ELSE timer_insert_abs(s, x, tm))
  BY DEF _tk_sta_cyc, timer_insert_reltim
<1>2. Formed(s) /\ s.time = time /\ s.exec = exec
  <2>1. K.cb[x] \in CycCB /\ x \in Handler
    BY <1>1, Fields DEF Formed, Exists, Handler
  <2>2. [K.cb[x] EXCEPT !.stat = @ \cup {"STA"}] \in CycCB
    BY <2>1 DEF CycCB, Flags
  <2> DEFINE b == [K.cb[x] EXCEPT !.stat = @ \cup {"STA"}]
  <2>3. /\ DOMAIN s = DOMAIN K /\ s.now = current_time /\ s.exec = exec /\ s.time = time
        /\ s.cb = [K.cb EXCEPT ![x] = b]
    BY Fields DEF Formed
  <2> HIDE DEF b, s
  <2>4. DOMAIN s.cb = Handler /\ \A y \in Handler : s.cb[y] = IF y = x THEN b ELSE K.cb[y]
    BY <2>1, <2>3, Fields DEF Formed
  <2>5. \A y \in Cyc : s.cb[y] # NOEXS => s.cb[y] \in CycCB
    BY <2>2, <2>4, Fields DEF Formed, Handler, b
  <2> QED BY <2>3, <2>4, <2>5, Fields DEF Formed
<1> HIDE DEF s
<1>3. Formed(d) /\ d.time = time /\ d.exec = exec
  BY <1>2 DEF timer_delete, Formed
<1> HIDE DEF d
<1>4. CASE cyccb[x].phs /\ Started(x)
  BY <1>1, <1>2, <1>4, SameTime DEF Becomes
<1>5. CASE cyccb[x].phs /\ ~Started(x)
  <2> DEFINE r == timer_insert_abs(s, x, tm)
  <2>1. Becomes(r)
    BY <1>1, <1>5
  <2> HIDE DEF tm
  <2>2. r.time = [time EXCEPT ![x] = tm] /\ r.exec = exec
    BY <1>2, InsertedFields
  <2> HIDE DEF r
  <2>3. CASE x # c
    BY <2>1, <2>2, <2>3, OtherTime
  <2>4. CASE x = c
    <3>1. time'[c] = tm /\ exec' = exec
      BY <2>1, <2>2, <2>4, Fields DEF Becomes
    <3>2. CASE tm = time[c]
      BY <3>1, <3>2, SameTime
    <3>3. CASE tm # time[c]
      <4>1. tm = cyc_next_time(K, c)
        BY <2>4, <3>3 DEF tm
      <4>2. PICK m \in Int : tm = time[c] + m * cyccb[c].cyctim
        BY <4>1, Fields, NextInPhase
      <4> DEFINE w == cyccb[c].cyctim
                 t == time[c]
      <4>3. w \in Nat \ {0} /\ t \in Int
        BY Fields
      <4> HIDE DEF w, t
      <4>4. tm = t + m * w
        BY <4>2 DEF w, t
      <4>5. tm \in Int
        BY <4>3, <4>4
      <4>6. (tm - t) % w = 0
        BY <4>3, <4>4, <4>5, Multiple
      <4> QED BY <3>1, <4>6 DEF OnTime, w, t
    <3> QED BY <3>2, <3>3
  <2> QED BY <2>3, <2>4
<1>6. CASE ~cyccb[x].phs
  <2> DEFINE r == timer_insert_abs(d, x, dn)
  <2>1. Becomes(r)
    BY <1>1, <1>6
  <2> HIDE DEF dn
  <2>2. r.time = [time EXCEPT ![x] = dn] /\ r.exec = exec
    BY <1>3, InsertedFields
  <2> HIDE DEF r
  <2>3. CASE x # c
    BY <2>1, <2>2, <2>3, OtherTime
  <2>4. CASE x = c
    BY <1>6, <2>1, <2>2, <2>4 DEF OnTime, Becomes
  <2> QED BY <2>3, <2>4
<1> QED BY <1>4, <1>5, <1>6

(* However late it is served, a cyclic handler keeps its phase             *)
(* (time_calls.c: cyc_next_time, tk_sta_cyc).                              *)
LEMMA PhaseKept ==
  ASSUME TimerInv, [Next]_vars, NEW c \in Cyc, Exists(c), hdrno'[c] = hdrno[c]
  PROVE  OnTime(c)
<1>1. CASE timer_handler
  BY <1>1, TicksOnTime
<1>2. ASSUME NEW p \in Proc,
             \/ handler_interrupt(p) \/ HandlerReturns(p) \/ ImmediateReturns(p) \/ TaskEnds(p)
             \/ \E x \in Cyc : _tk_cre_cyc(p, x)
             \/ \E a \in Alm, almtim \in Almtims : _tk_sta_alm(p, a, almtim)
      PROVE  OnTime(c)
  BY <1>2, RequestOnTime, ReturnsOnTime, OnceReturnsOnTime, LoopLeftOnTime, CycCreatedOnTime,
     AlmStartedOnTime
<1>3. ASSUME NEW x \in Cyc, _tk_sta_cyc(x) \/ _tk_stp_cyc(x) \/ _tk_del_cyc(x)
      PROVE  OnTime(c)
  <2>1. x \in Handler
    BY DEF Handler
  <2> QED BY <1>3, <2>1, CycStartedOnTime, StopsOnTime
<1>4. ASSUME NEW a \in Alm, _tk_cre_alm(a) \/ _tk_stp_alm(a) \/ _tk_del_alm(a)
      PROVE  OnTime(c)
  <2>1. a \in Handler /\ a # c
    BY TimerAssumption DEF Handler
  <2> QED BY <1>4, <2>1, AlmCreatedOnTime, StopsOnTime
<1>5. ASSUME NEW t \in Task, wait_release(t) \/ \E dlytim \in Dlytims : _tk_dly_tsk(t, dlytim)
      PROVE  OnTime(c)
  BY <1>5, TasksOnTime
<1>6. CASE UNCHANGED vars
  BY <1>6, SameTime DEF vars
<1> QED BY <1>1, <1>2, <1>3, <1>4, <1>5, <1>6 DEF Next
=============================================================================
