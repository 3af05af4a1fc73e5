-------------------------- MODULE ReadyQueueProofs --------------------------
(***************************************************************************)
(* The cache top[] of the ready queue, its bitmap and the schedule follow  *)
(* the queues, for every number of tasks, priorities and processors.       *)
(*                                                                         *)
(* The argument separates the order from the queues that represent it.     *)
(* IsTop says of a set S of tasks, an order B of it and an array a that a  *)
(* holds the first num_proc tasks of S; what an insertion and a removal do *)
(* to the array is proved for any S and B.  The order of the queues, Ord,  *)
(* is then shown to be one that the queue operations extend or restrict.   *)
(***************************************************************************)
EXTENDS ReadyQueue, FiniteSetTheorems, TLAPS

LEMMA MinOf ==
  ASSUME NEW n \in Nat, NEW S, S \subseteq 1..n, S # {}
  PROVE  Min(S) \in S /\ \A r \in S : Min(S) <= r
<1> DEFINE Below(k) == {j \in S : j <= k}
           T == {Below(k) : k \in S}
           R == StrictSubsetOrdering(1..n)
<1>1. IsWellFoundedOn(R, SUBSET (1..n))
  <2>1. FiniteSubsetsOf(1..n) = SUBSET (1..n)
    <3>1. IsFiniteSet(1..n)
      BY FS_Interval
    <3> QED BY <3>1, FS_FiniteSubsetsOfFinite
  <2> QED BY <2>1, FS_StrictSubsetOrderingWellFounded
<1>2. T \subseteq SUBSET (1..n) /\ T # {}
  OBVIOUS
<1>3. PICK x \in T : \A y \in T : ~(<<y, x>> \in R)
  <2> HIDE DEF T, R
  <2> QED BY <1>1, <1>2, WFMin
<1>4. PICK k \in S : x = Below(k)
  OBVIOUS
<1>5. ASSUME NEW j \in S, j < k
      PROVE  FALSE
  <2>1. k \in Below(k) /\ k \notin Below(j)
    BY <1>5
  <2>2. Below(j) \subseteq Below(k)
    <3>1. \A i \in S : i <= j => i <= k
      <4>1. S \subseteq Int
        OBVIOUS
      <4> QED BY <4>1, <1>5
    <3> QED BY <3>1
  <2>3. <<Below(j), Below(k)>> \in R
    BY <2>1, <2>2 DEF StrictSubsetOrdering
  <2> QED BY <1>3, <1>4, <2>3
<1>6. \A j \in S : k <= j
  BY <1>5
<1> QED BY <1>6 DEF Min

-----------------------------------------------------------------------------
(* The first tasks of an ordered set *)

(* B orders the tasks of S. *)
Orders(S, B) ==
  /\ \A x, y, z \in S : <<x, y>> \in B /\ <<y, z>> \in B => <<x, z>> \in B
  /\ \A x \in S : <<x, x>> \notin B
  /\ \A x, y \in S : x # y => <<x, y>> \in B \/ <<y, x>> \in B

(* The array a holds the first NProc tasks of S, in the order B. *)
IsTop(S, B, a) ==
  /\ \A n \in Core : a[n] # NoTask => a[n] \in S
  /\ \A m, n \in Core : m < n /\ a[n] # NoTask => a[m] # NoTask /\ <<a[m], a[n]>> \in B
  /\ \A t \in S : t \notin Range(a) => \A n \in Core : a[n] # NoTask /\ <<a[n], t>> \in B

Array == [Core -> Task \cup {NoTask}]

(* v is the task of S after w, NoTask if w is the last. *)
Follows(S, B, w, v) ==
  /\ v # NoTask => v \in S /\ <<w, v>> \in B
  /\ \A x \in S : <<w, x>> \in B => v # NoTask /\ (x = v \/ <<v, x>> \in B)

(* update_top_when_insert: the first entries stay, t is put in, the others *)
(* move down.                                                              *)
LEMMA PutTopIsTop ==
  ASSUME NEW S, S \subseteq Task, NEW t \in Task, t \notin S, NEW B, NEW C,
         Orders(S \cup {t}, C),
         \A x, y \in S : <<x, y>> \in B <=> <<x, y>> \in C,
         NEW a \in Array, IsTop(S, B, a),
         NEW later, \A x \in S : x \in later <=> <<t, x>> \in C
  PROVE  PutTop(a, t, later) \in Array /\ IsTop(S \cup {t}, C, PutTop(a, t, later))
<1> DEFINE K == {k \in Core : a[k] \in later \cup {NoTask}} \cup {NProc + 1}
           n == Min(K)
           b == [k \in Core |-> IF k < n THEN a[k] ELSE IF k = n THEN t ELSE a[k - 1]]
<1>0. NProc \in Nat /\ NoTask \notin Task
  BY ConstAssumption
<1>1. n \in 1..(NProc + 1) /\ n \in K /\ \A k \in K : n <= k
  <2>1. K \subseteq 1..(NProc + 1) /\ K # {}
    BY <1>0 DEF Core
  <2> QED BY <2>1, <1>0, MinOf, NProc + 1 \in Nat
<1>2. PutTop(a, t, later) = b
  BY DEF PutTop
<1>3. \A k \in Core : k < n => a[k] # NoTask /\ a[k] \in S /\ <<a[k], t>> \in C
  <2> SUFFICES ASSUME NEW k \in Core, k < n PROVE a[k] # NoTask /\ a[k] \in S /\ <<a[k], t>> \in C
    OBVIOUS
  <2>1. a[k] \notin later /\ a[k] # NoTask
    <3>1. k \notin K BY <1>1, <1>0 DEF Core
    <3> QED BY <3>1
  <2>2. a[k] \in S BY <2>1 DEF IsTop
  <2> QED BY <2>1, <2>2 DEF Orders
<1>4. \A k \in Core : k >= n /\ a[k] # NoTask => a[k] \in S /\ <<t, a[k]>> \in C
  <2> SUFFICES ASSUME NEW k \in Core, k >= n, a[k] # NoTask PROVE a[k] \in S /\ <<t, a[k]>> \in C
    OBVIOUS
  <2>1. a[k] \in S BY DEF IsTop
  <2>2. n \in Core BY <1>0, <1>1 DEF Core
  <2>3. a[n] # NoTask /\ (n = k \/ <<a[n], a[k]>> \in B)
    <3>1. n = k \/ n < k BY <2>2 DEF Core
    <3> QED BY <3>1, <2>2 DEF IsTop
  <2>4. a[n] \in S /\ a[n] \in later
    <3>1. a[n] \in S BY <2>2, <2>3 DEF IsTop
    <3>2. n # NProc + 1 BY <2>2, <1>0 DEF Core
    <3> QED BY <3>1, <3>2, <1>1, <2>3
  <2>5. <<t, a[n]>> \in C BY <2>4
  <2>6. CASE n = k BY <2>6, <2>5, <2>1
  <2>7. CASE n # k
    <3>1. <<a[n], a[k]>> \in C BY <2>3, <2>7, <2>4, <2>1
    <3> QED BY <3>1, <2>5, <2>4, <2>1 DEF Orders
  <2> QED BY <2>6, <2>7
<1>5. /\ \A k \in Core : k < n => b[k] = a[k]
      /\ \A k \in Core : k > n => b[k] = a[k - 1] /\ k - 1 \in Core /\ k - 1 >= n
      /\ \A k \in Core : k = n => b[k] = t
  <2> HIDE DEF K, n
  <2>1. \A k \in Core : k \in Int /\ n \in Int BY <1>0, <1>1 DEF Core
  <2>2. \A k \in Core : k > n => k - 1 \in Core /\ k - 1 >= n BY <1>0, <1>1 DEF Core
  <2> QED BY <2>1, <2>2
<1>6. b \in Array
  <2> SUFFICES ASSUME NEW k \in Core PROVE b[k] \in Task \cup {NoTask}
    BY DEF Array
  <2>1. k < n \/ k = n \/ k > n BY <1>1 DEF Core
  <2> QED BY <2>1, <1>5 DEF Array
<1> HIDE DEF K, n, b
<1>7. \A k \in Core : b[k] # NoTask => b[k] \in S \cup {t}
  <2> SUFFICES ASSUME NEW k \in Core, b[k] # NoTask PROVE b[k] \in S \cup {t}
    OBVIOUS
  <2>1. k < n \/ k = n \/ k > n BY <1>1 DEF Core
  <2> QED BY <2>1, <1>5 DEF IsTop
<1>8. ASSUME NEW m \in Core, NEW k \in Core, m < k, b[k] # NoTask
      PROVE  b[m] # NoTask /\ <<b[m], b[k]>> \in C
  <2>1. CASE k < n
    <3>1. m < n BY <2>1, <1>8, <1>1 DEF Core
    <3>2. a[m] \in S /\ a[k] \in S /\ a[m] # NoTask BY <3>1, <2>1, <1>3
    <3>3. <<a[m], a[k]>> \in B BY <1>8, <3>2, <2>1, <1>5, <1>3 DEF IsTop
    <3> QED BY <3>1, <2>1, <3>2, <3>3, <1>5
  <2>2. CASE k = n
    BY <2>2, <1>8, <1>5, <1>3
  <2>3. CASE k > n
    <3>1. b[k] = a[k - 1] /\ k - 1 \in Core /\ k - 1 >= n BY <2>3, <1>5
    <3>2. a[k - 1] \in S /\ <<t, a[k - 1]>> \in C BY <3>1, <1>8, <1>4
    <3>3. CASE m < n
      <4>1. m < k - 1 BY <3>1, <3>3, <1>1 DEF Core
      <4>2. <<a[m], a[k - 1]>> \in B /\ a[m] # NoTask BY <4>1, <3>1, <1>8 DEF IsTop
      <4>3. a[m] \in S /\ b[m] = a[m] BY <3>3, <1>3, <1>5
      <4> QED BY <4>2, <4>3, <3>1, <3>2
    <3>4. CASE m = n
      <4>1. b[m] = t BY <3>4, <1>5
      <4> QED BY <4>1, <3>1, <3>2, <1>0
    <3>5. CASE m > n
      <4>1. b[m] = a[m - 1] /\ m - 1 \in Core BY <3>5, <1>5
      <4>2. m - 1 < k - 1 BY <1>8 DEF Core
      <4>3. <<a[m - 1], a[k - 1]>> \in B /\ a[m - 1] # NoTask BY <4>1, <4>2, <3>1, <1>8 DEF IsTop
      <4>4. a[m - 1] \in S BY <4>3, <4>1 DEF IsTop
      <4> QED BY <4>1, <4>3, <4>4, <3>1, <3>2
    <3> QED BY <3>3, <3>4, <3>5, <1>1 DEF Core
  <2> QED BY <2>1, <2>2, <2>3, <1>1 DEF Core
<1>9. ASSUME NEW x \in S \cup {t}, x \notin Range(b)
      PROVE  \A k \in Core : b[k] # NoTask /\ <<b[k], x>> \in C
  <2>0. DOMAIN a = Core /\ DOMAIN b = Core BY <1>6 DEF Array
  <2>1. \A k \in Core : b[k] # x BY <2>0, <1>9 DEF Range
  <2>2. CASE n = NProc + 1
    <3>1. \A k \in Core : b[k] = a[k] /\ k < n BY <2>2, <1>0, <1>5 DEF Core
    <3>2. CASE x = t BY <3>2, <3>1, <1>3
    <3>3. CASE x # t
      <4>1. x \in S /\ x \notin Range(a) BY <3>3, <3>1, <2>1, <2>0 DEF Range
      <4> QED BY <4>1, <3>1, <1>3 DEF IsTop
    <3> QED BY <3>2, <3>3
  <2>3. CASE n # NProc + 1
    <3>1. n \in Core /\ NProc \in Core BY <2>3, <1>1, <1>0 DEF Core
    <3>2. b[n] = t BY <3>1, <1>5
    <3>3. x \in S /\ x # t BY <3>2, <3>1, <2>1
    <3>4. \A k \in Core : k < NProc => a[k] # x
      <4> SUFFICES ASSUME NEW k \in Core, k < NProc, a[k] = x PROVE FALSE
        OBVIOUS
      <4>1. CASE k < n BY <4>1, <1>5, <2>1
      <4>2. CASE k >= n
        <5>1. k + 1 \in Core /\ k + 1 > n /\ (k + 1) - 1 = k BY <4>2, <1>0, <1>1 DEF Core
        <5>2. b[k + 1] = a[k] BY <5>1, <1>5
        <5> QED BY <5>1, <5>2, <2>1
      <4> QED BY <4>1, <4>2, <1>1 DEF Core
    <3>5. \A k \in Core : k < NProc => a[k] # NoTask /\ a[k] \in S /\ <<a[k], x>> \in C
      <4> SUFFICES ASSUME NEW k \in Core, k < NProc PROVE a[k] # NoTask /\ a[k] \in S /\ <<a[k], x>> \in C
        OBVIOUS
      <4>1. a[k] # NoTask /\ <<a[k], x>> \in B
        <5>1. CASE a[NProc] = x
          <6>1. x # NoTask BY <3>3, <1>0
          <6> QED BY <6>1, <5>1, <3>1 DEF IsTop
        <5>2. CASE a[NProc] # x
          <6>1. x \notin Range(a)
            <7>1. \A j \in Core : j = NProc \/ j < NProc BY <1>0 DEF Core
            <7> QED BY <7>1, <5>2, <3>4, <2>0 DEF Range
          <6> QED BY <6>1, <3>3 DEF IsTop
        <5> QED BY <5>1, <5>2
      <4>2. a[k] \in S BY <4>1 DEF IsTop
      <4> QED BY <4>1, <4>2, <3>3
    <3>6. <<t, x>> \in C
      <4>1. CASE n = NProc
        <5>1. CASE a[NProc] = x
          BY <5>1, <4>1, <3>1, <3>3, <1>4, <1>0
        <5>2. CASE a[NProc] # x
          <6>1. x \notin Range(a)
            <7>1. \A j \in Core : j = NProc \/ j < NProc BY <1>0 DEF Core
            <7> QED BY <7>1, <5>2, <3>4, <2>0 DEF Range
          <6>2. a[NProc] # NoTask /\ <<a[NProc], x>> \in B BY <6>1, <3>1, <3>3 DEF IsTop
          <6>3. a[NProc] \in S /\ <<t, a[NProc]>> \in C BY <6>2, <4>1, <3>1, <1>4, <1>0
          <6>4. <<a[NProc], x>> \in C BY <6>2, <6>3, <3>3
          <6> QED BY <6>3, <6>4, <3>3 DEF Orders
        <5> QED BY <5>1, <5>2
      <4>2. CASE n # NProc
        <5>1. n < NProc BY <4>2, <3>1, <1>0 DEF Core
        <5>2. a[n] # NoTask /\ a[n] \in S /\ <<a[n], x>> \in C BY <5>1, <3>1, <3>5
        <5>3. <<t, a[n]>> \in C BY <5>2, <3>1, <1>4, <1>1
        <5> QED BY <5>2, <5>3, <3>3 DEF Orders
      <4> QED BY <4>1, <4>2
    <3> SUFFICES ASSUME NEW k \in Core PROVE b[k] # NoTask /\ <<b[k], x>> \in C
      OBVIOUS
    <3>7. CASE k < n
      <4>1. k < NProc BY <3>7, <3>1, <1>0 DEF Core
      <4> QED BY <4>1, <3>7, <1>5, <3>5
    <3>8. CASE k = n BY <3>8, <3>2, <3>6, <1>0
    <3>9. CASE k > n
      <4>1. b[k] = a[k - 1] /\ k - 1 \in Core BY <3>9, <1>5
      <4>2. k - 1 < NProc BY <1>0 DEF Core
      <4> QED BY <4>1, <4>2, <3>5
    <3> QED BY <3>7, <3>8, <3>9, <1>1 DEF Core
  <2> QED BY <2>2, <2>3
<1>10. IsTop(S \cup {t}, C, b)
  BY <1>7, <1>8, <1>9 DEF IsTop
<1> QED BY <1>2, <1>6, <1>10
(* update_top_when_remove of a task that is not in top[]. *)
LEMMA OutsideIsTop ==
  ASSUME NEW S, NEW t \in S, NEW B, NEW C,
         \A x, y \in S \ {t} : <<x, y>> \in B <=> <<x, y>> \in C,
         NEW a \in Array, IsTop(S, B, a), t \notin Range(a), NoTask \notin S
  PROVE  IsTop(S \ {t}, C, a)
<1>1. \A n \in Core : a[n] # t
  BY DEF Range, Array
<1>2. \A n \in Core : a[n] # NoTask => a[n] \in S \ {t}
  BY <1>1 DEF IsTop
<1>3. \A m, n \in Core : m < n /\ a[n] # NoTask => a[m] # NoTask /\ <<a[m], a[n]>> \in C
  BY <1>2 DEF IsTop
<1>4. \A x \in S \ {t} : x \notin Range(a) => \A n \in Core : a[n] # NoTask /\ <<a[n], x>> \in C
  BY <1>2 DEF IsTop
<1> QED BY <1>2, <1>3, <1>4 DEF IsTop

(* update_top_when_remove of the task in top[n]: the entries behind it move*)
(* up, and the last one becomes the successor of the last but one.         *)
LEMMA ShiftIsTop ==
  ASSUME NEW S, S \subseteq Task, NEW t \in S, NEW B, NEW C,
         Orders(S, B),
         \A x, y \in S \ {t} : <<x, y>> \in B <=> <<x, y>> \in C,
         NEW a \in Array, IsTop(S, B, a), NEW n \in Core, a[n] = t,
         NEW b \in Array,
         \A k \in Core : k < NProc => b[k] = IF k < n THEN a[k] ELSE a[k + 1],
         NProc = 1 => Follows(S, B, t, b[NProc]),
         NProc > 1 => IF b[NProc - 1] = NoTask THEN b[NProc] = NoTask
                      ELSE Follows(S \ {t}, C, b[NProc - 1], b[NProc])
  PROVE  IsTop(S \ {t}, C, b)
<1>0. NProc \in Nat /\ NProc >= 1 /\ NProc \in Core /\ NoTask \notin S
  BY ConstAssumption DEF Core
<1>1. \A k \in Core : a[k] = t => k = n
  <2> SUFFICES ASSUME NEW k \in Core, a[k] = t, k # n PROVE FALSE
    OBVIOUS
  <2>1. k < n \/ n < k BY DEF Core
  <2>2. <<t, t>> \in B BY <2>1, <1>0 DEF IsTop
  <2> QED BY <2>2 DEF Orders
<1>2. Orders(S \ {t}, C)
  BY DEF Orders
<1>3. \A k \in Core : k < NProc /\ k < n => b[k] = a[k]
  OBVIOUS
<1>4. \A k \in Core : k < NProc /\ k >= n => b[k] = a[k + 1] /\ k + 1 \in Core /\ k + 1 > n
  BY <1>0 DEF Core
<1>5. \A k \in Core : k < NProc /\ b[k] # NoTask => b[k] \in S \ {t}
  <2> SUFFICES ASSUME NEW k \in Core, k < NProc, b[k] # NoTask PROVE b[k] \in S \ {t}
    OBVIOUS
  <2>1. CASE k < n
    <3>1. b[k] = a[k] /\ k # n BY <2>1, <1>3 DEF Core
    <3> QED BY <3>1, <1>1 DEF IsTop
  <2>2. CASE k >= n
    <3>1. b[k] = a[k + 1] /\ k + 1 \in Core /\ k + 1 # n BY <2>2, <1>4 DEF Core
    <3> QED BY <3>1, <1>1 DEF IsTop
  <2> QED BY <2>1, <2>2 DEF Core
<1>6. ASSUME NEW m \in Core, NEW k \in Core, m < k, k < NProc, b[k] # NoTask
      PROVE  b[m] # NoTask /\ <<b[m], b[k]>> \in C
  <2>0. m < NProc BY <1>6, <1>0 DEF Core
  <2>1. PICK i \in Core : b[m] = a[i] /\ i = IF m < n THEN m ELSE m + 1
    BY <2>0, <1>0 DEF Core
  <2>2. PICK j \in Core : b[k] = a[j] /\ j = IF k < n THEN k ELSE k + 1
    BY <1>6, <1>0 DEF Core
  <2>3. i < j BY <2>1, <2>2, <1>6 DEF Core
  <2>4. b[m] # NoTask /\ <<b[m], b[k]>> \in B BY <2>1, <2>2, <2>3, <1>6 DEF IsTop
  <2>5. b[m] \in S \ {t} /\ b[k] \in S \ {t} BY <2>4, <1>5, <1>6, <2>0
  <2> QED BY <2>4, <2>5
<1>7. ASSUME b[NProc] # NoTask
      PROVE  /\ b[NProc] \in S \ {t}
             /\ \A m \in Core : m < NProc => b[m] # NoTask /\ <<b[m], b[NProc]>> \in C
  <2>1. CASE NProc = 1
    <3>1. b[NProc] \in S /\ <<t, b[NProc]>> \in B BY <2>1, <1>7 DEF Follows
    <3>2. b[NProc] # t BY <3>1 DEF Orders
    <3>3. \A m \in Core : ~(m < NProc) BY <2>1 DEF Core
    <3> QED BY <3>1, <3>2, <3>3
  <2>2. CASE NProc > 1
    <3>0. PICK l \in Core : l = NProc - 1 /\ l < NProc BY <2>2, <1>0 DEF Core
    <3>1. b[l] # NoTask BY <1>7, <2>2, <3>0
    <3>2. b[NProc] \in S \ {t} /\ <<b[l], b[NProc]>> \in C BY <3>0, <3>1, <1>7, <2>2 DEF Follows
    <3> SUFFICES ASSUME NEW m \in Core, m < NProc PROVE b[m] # NoTask /\ <<b[m], b[NProc]>> \in C
      BY <3>2
    <3>3. CASE m = l BY <3>3, <3>1, <3>2
    <3>4. CASE m # l
      <4>1. m < l BY <3>4, <3>0, <1>0 DEF Core
      <4>2. b[m] # NoTask /\ <<b[m], b[l]>> \in C BY <4>1, <3>0, <3>1, <1>6
      <4>3. b[m] \in S \ {t} /\ b[l] \in S \ {t} BY <4>2, <3>0, <3>1, <1>5
      <4> QED BY <4>2, <4>3, <3>2, <1>2 DEF Orders
    <3> QED BY <3>3, <3>4
  <2> QED BY <2>1, <2>2, <1>0
<1>8. ASSUME NEW x \in S \ {t}, x \notin Range(b)
      PROVE  \A k \in Core : b[k] # NoTask /\ <<b[k], x>> \in C
  <2>1. \A k \in Core : b[k] # x BY <1>8 DEF Range, Array
  <2>2. x \notin Range(a)
    <3> SUFFICES ASSUME NEW j \in Core, a[j] = x PROVE FALSE
      BY DEF Range, Array
    <3>1. j # n OBVIOUS
    <3>2. CASE j < n
      <4>1. j < NProc BY <3>2, <1>0 DEF Core
      <4> QED BY <4>1, <3>2, <1>3, <2>1
    <3>3. CASE j > n
      <4>1. PICK i \in Core : i + 1 = j /\ i < NProc /\ i >= n BY <3>3, <1>0 DEF Core
      <4> QED BY <4>1, <1>4, <2>1
    <3> QED BY <3>1, <3>2, <3>3 DEF Core
  <2>3. \A k \in Core : a[k] # NoTask /\ a[k] \in S /\ <<a[k], x>> \in B
    BY <2>2 DEF IsTop
  <2>4. \A k \in Core : k < NProc => b[k] # NoTask /\ <<b[k], x>> \in C
    <3> SUFFICES ASSUME NEW k \in Core, k < NProc PROVE b[k] # NoTask /\ <<b[k], x>> \in C
      OBVIOUS
    <3>1. PICK i \in Core : b[k] = a[i]
      BY <1>3, <1>4, n \in Core DEF Core
    <3>2. b[k] # NoTask /\ <<b[k], x>> \in B BY <3>1, <2>3
    <3> QED BY <3>2, <1>5
  <2>5. b[NProc] # NoTask /\ <<b[NProc], x>> \in C
    <3>1. CASE NProc = 1
      <4>1. <<t, x>> \in B BY <2>3
      <4>2. b[NProc] # NoTask /\ (x = b[NProc] \/ <<b[NProc], x>> \in B) BY <4>1, <3>1 DEF Follows
      <4>3. <<b[NProc], x>> \in B BY <4>2, <2>1, <1>0
      <4> QED BY <4>2, <4>3, <1>7
    <3>2. CASE NProc > 1
      <4>0. PICK l \in Core : l = NProc - 1 /\ l < NProc BY <3>2, <1>0 DEF Core
      <4>1. b[l] # NoTask /\ <<b[l], x>> \in C BY <4>0, <2>4
      <4>2. b[NProc] # NoTask /\ (x = b[NProc] \/ <<b[NProc], x>> \in C) BY <4>0, <4>1, <3>2 DEF Follows
      <4> QED BY <4>2, <2>1, <1>0
    <3> QED BY <3>1, <3>2, <1>0
  <2>6. \A k \in Core : k < NProc \/ k = NProc BY <1>0 DEF Core
  <2> QED BY <2>4, <2>5, <2>6
<1>9. \A k \in Core : k < NProc \/ k = NProc
  BY <1>0 DEF Core
<1>10. \A k \in Core : b[k] # NoTask => b[k] \in S \ {t}
  BY <1>5, <1>7, <1>9
<1>11. \A m, k \in Core : m < k /\ b[k] # NoTask => b[m] # NoTask /\ <<b[m], b[k]>> \in C
  BY <1>6, <1>7, <1>9
<1> QED BY <1>8, <1>10, <1>11 DEF IsTop
-----------------------------------------------------------------------------
(* The order of one queue *)

(* x is ahead of y in the sequence s. *)
Ahead(s, x, y) == \E i, j \in DOMAIN s : i < j /\ s[i] = x /\ s[j] = y

LEMMA AheadOrders ==
  ASSUME NEW s \in Seq(Task), IsInjective(s)
  PROVE  /\ \A x, y, z : Ahead(s, x, y) /\ Ahead(s, y, z) => Ahead(s, x, z)
         /\ \A x : ~Ahead(s, x, x)
         /\ \A x, y \in Range(s) : x # y => Ahead(s, x, y) \/ Ahead(s, y, x)
<1>0. DOMAIN s \subseteq Int OBVIOUS
<1>1. ASSUME NEW x, NEW y, NEW z, Ahead(s, x, y), Ahead(s, y, z)
      PROVE  Ahead(s, x, z)
  <2>1. PICK i \in DOMAIN s, j \in DOMAIN s : i < j /\ s[i] = x /\ s[j] = y
    BY <1>1 DEF Ahead
  <2>2. PICK k \in DOMAIN s, l \in DOMAIN s : k < l /\ s[k] = y /\ s[l] = z
    BY <1>1 DEF Ahead
  <2>3. j = k BY <2>1, <2>2 DEF IsInjective
  <2>4. i < l BY <2>1, <2>2, <2>3, <1>0
  <2> QED BY <2>1, <2>2, <2>4 DEF Ahead
<1>2. ASSUME NEW x, Ahead(s, x, x) PROVE FALSE
  <2>1. PICK i \in DOMAIN s, j \in DOMAIN s : i < j /\ s[i] = x /\ s[j] = x
    BY <1>2 DEF Ahead
  <2>2. i = j BY <2>1 DEF IsInjective
  <2> QED BY <2>1, <2>2, <1>0
<1>3. ASSUME NEW x \in Range(s), NEW y \in Range(s), x # y
      PROVE  Ahead(s, x, y) \/ Ahead(s, y, x)
  <2>1. PICK i \in DOMAIN s : s[i] = x BY DEF Range
  <2>2. PICK j \in DOMAIN s : s[j] = y BY DEF Range
  <2>3. i < j \/ j < i BY <2>1, <2>2, <1>3, <1>0
  <2> QED BY <2>1, <2>2, <2>3 DEF Ahead
<1> QED BY <1>1, <1>2, <1>3

(* QueRemove keeps the order of the other tasks. *)
LEMMA WithoutLemma ==
  ASSUME NEW s \in Seq(Task), IsInjective(s), NEW t \in Range(s)
  PROVE  /\ Without(s, t) \in Seq(Task)
         /\ IsInjective(Without(s, t))
         /\ Range(Without(s, t)) = Range(s) \ {t}
         /\ \A x, y \in Range(s) \ {t} : Ahead(Without(s, t), x, y) <=> Ahead(s, x, y)
<1> DEFINE n == CHOOSE k \in DOMAIN s : s[k] = t
           w == [k \in 1..(Len(s) - 1) |-> IF k < n THEN s[k] ELSE s[k + 1]]
<1>0. Len(s) \in Nat /\ DOMAIN s = 1..Len(s) /\ (\A i \in 1..Len(s) : s[i] \in Task)
  OBVIOUS
<1>1. n \in 1..Len(s) /\ s[n] = t
  BY <1>0 DEF Range
<1>2. Without(s, t) = w
  BY DEF Without
<1> HIDE DEF n
<1>3. /\ DOMAIN w = 1..(Len(s) - 1)
      /\ \A k \in 1..(Len(s) - 1) : k < n => w[k] = s[k]
      /\ \A k \in 1..(Len(s) - 1) : k >= n => w[k] = s[k + 1]
  BY <1>0, <1>1
<1>4. w \in Seq(Task)
  <2>1. Len(s) - 1 \in Nat BY <1>0, <1>1
  <2>2. \A k \in 1..(Len(s) - 1) : w[k] \in Task BY <1>3, <1>0, <1>1
  <2>3. w \in [1..(Len(s) - 1) -> Task] BY <2>2
  <2> QED BY <2>1, <2>3
<1> HIDE DEF w
<1> DEFINE Up(k) == IF k < n THEN k ELSE k + 1
<1>5. \A k \in DOMAIN w : Up(k) \in DOMAIN s /\ Up(k) # n /\ w[k] = s[Up(k)]
  BY <1>3, <1>0, <1>1
<1>6. \A j \in DOMAIN s : j # n => \E k \in DOMAIN w : Up(k) = j
  <2> SUFFICES ASSUME NEW j \in DOMAIN s, j # n PROVE \E k \in DOMAIN w : Up(k) = j
    OBVIOUS
  <2>1. CASE j < n
    <3>1. j \in DOMAIN w BY <2>1, <1>3, <1>0, <1>1
    <3> QED BY <3>1, <2>1
  <2>2. CASE j > n
    <3>1. j - 1 \in DOMAIN w /\ ~(j - 1 < n) /\ (j - 1) + 1 = j BY <2>2, <1>3, <1>0, <1>1
    <3> QED BY <3>1
  <2> QED BY <2>1, <2>2, <1>0, <1>1
<1>7. \A i, j \in DOMAIN w : (i < j <=> Up(i) < Up(j)) /\ (Up(i) = Up(j) => i = j)
  BY <1>3, <1>0, <1>1
<1>8. \A k \in DOMAIN s : s[k] = t => k = n
  BY <1>0, <1>1 DEF IsInjective
<1> HIDE DEF Up
<1>9. IsInjective(w)
  BY <1>5, <1>7 DEF IsInjective
<1>10. Range(w) = Range(s) \ {t}
  <2>1. \A k \in DOMAIN w : w[k] \in Range(s) \ {t}
    BY <1>5, <1>8 DEF Range
  <2>2. \A j \in DOMAIN s : s[j] # t => s[j] \in Range(w)
    BY <1>5, <1>6, <1>1 DEF Range
  <2> QED BY <2>1, <2>2 DEF Range
<1>11. ASSUME NEW x \in Range(s) \ {t}, NEW y \in Range(s) \ {t}
       PROVE  Ahead(w, x, y) <=> Ahead(s, x, y)
  <2>1. ASSUME Ahead(w, x, y) PROVE Ahead(s, x, y)
    <3>1. PICK i \in DOMAIN w, j \in DOMAIN w : i < j /\ w[i] = x /\ w[j] = y
      BY <2>1 DEF Ahead
    <3>2. Up(i) < Up(j) BY <3>1, <1>7
    <3> QED BY <3>1, <3>2, <1>5 DEF Ahead
  <2>2. ASSUME Ahead(s, x, y) PROVE Ahead(w, x, y)
    <3>1. PICK i \in DOMAIN s, j \in DOMAIN s : i < j /\ s[i] = x /\ s[j] = y
      BY <2>2 DEF Ahead
    <3>2. i # n /\ j # n BY <3>1, <1>1
    <3>3. PICK k \in DOMAIN w : Up(k) = i BY <3>2, <1>6
    <3>4. PICK l \in DOMAIN w : Up(l) = j BY <3>2, <1>6
    <3>5. k < l BY <3>1, <3>3, <3>4, <1>7
    <3>6. w[k] = x /\ w[l] = y BY <3>1, <3>3, <3>4, <1>5
    <3> QED BY <3>5, <3>6 DEF Ahead
  <2> QED BY <2>1, <2>2
<1> QED BY <1>2, <1>4, <1>9, <1>10, <1>11

(* QueInsert at the end of a queue. *)
LEMMA AppendLemma ==
  ASSUME NEW s \in Seq(Task), IsInjective(s), NEW t \in Task, t \notin Range(s)
  PROVE  /\ Append(s, t) \in Seq(Task)
         /\ IsInjective(Append(s, t))
         /\ Range(Append(s, t)) = Range(s) \cup {t}
         /\ \A x, y \in Range(s) : Ahead(Append(s, t), x, y) <=> Ahead(s, x, y)
         /\ \A x \in Range(s) : Ahead(Append(s, t), x, t)
<1> DEFINE w == Append(s, t)
           m == Len(s) + 1
<1>0. /\ Len(s) \in Nat /\ DOMAIN s = 1..Len(s)
      /\ w \in Seq(Task) /\ DOMAIN w = 1..m /\ w[m] = t
      /\ \A i \in 1..Len(s) : w[i] = s[i]
  OBVIOUS
<1> HIDE DEF w
<1>1. \A i \in DOMAIN s : i \in DOMAIN w /\ w[i] = s[i] /\ i < m
  BY <1>0
<1>2. m \in DOMAIN w /\ \A i \in DOMAIN w : i = m \/ i \in DOMAIN s
  BY <1>0
<1>3. \A i \in DOMAIN s : s[i] # t /\ s[i] \in Range(s)
  BY DEF Range
<1> HIDE DEF m
<1>4. IsInjective(w)
  <2> SUFFICES ASSUME NEW i \in DOMAIN w, NEW j \in DOMAIN w, w[i] = w[j] PROVE i = j
    BY DEF IsInjective
  <2> QED BY <1>0, <1>1, <1>2, <1>3 DEF IsInjective
<1>5. Range(w) = Range(s) \cup {t}
  <2>1. \A i \in DOMAIN w : w[i] \in Range(s) \cup {t}
    BY <1>0, <1>1, <1>2, <1>3
  <2>2. t \in Range(w) BY <1>0, <1>2 DEF Range
  <2>3. \A i \in DOMAIN s : s[i] \in Range(w) BY <1>1 DEF Range
  <2> QED BY <2>1, <2>2, <2>3 DEF Range
<1>6. ASSUME NEW x \in Range(s), NEW y \in Range(s)
      PROVE  Ahead(w, x, y) <=> Ahead(s, x, y)
  <2>1. ASSUME Ahead(w, x, y) PROVE Ahead(s, x, y)
    <3>1. PICK i \in DOMAIN w, j \in DOMAIN w : i < j /\ w[i] = x /\ w[j] = y
      BY <2>1 DEF Ahead
    <3>2. i \in DOMAIN s /\ j \in DOMAIN s BY <3>1, <1>0, <1>2
    <3> QED BY <3>1, <3>2, <1>1 DEF Ahead
  <2>2. ASSUME Ahead(s, x, y) PROVE Ahead(w, x, y)
    BY <2>2, <1>1 DEF Ahead
  <2> QED BY <2>1, <2>2
<1>7. ASSUME NEW x \in Range(s) PROVE Ahead(w, x, t)
  <2>1. PICK i \in DOMAIN s : s[i] = x BY DEF Range
  <2> QED BY <2>1, <1>0, <1>1, <1>2 DEF Ahead
<1>8. w \in Seq(Task)
  BY <1>0
<1> QED BY <1>4, <1>5, <1>6, <1>7, <1>8 DEF w

(* QueInsert at the head of a queue. *)
LEMMA PrependLemma ==
  ASSUME NEW s \in Seq(Task), IsInjective(s), NEW t \in Task, t \notin Range(s)
  PROVE  /\ <<t>> \o s \in Seq(Task)
         /\ IsInjective(<<t>> \o s)
         /\ Range(<<t>> \o s) = Range(s) \cup {t}
         /\ \A x, y \in Range(s) : Ahead(<<t>> \o s, x, y) <=> Ahead(s, x, y)
         /\ \A x \in Range(s) : Ahead(<<t>> \o s, t, x)
<1> DEFINE w == <<t>> \o s
<1>0. /\ Len(s) \in Nat /\ DOMAIN s = 1..Len(s)
      /\ w \in Seq(Task) /\ DOMAIN w = 1..(Len(s) + 1) /\ w[1] = t
      /\ \A i \in 1..(Len(s) + 1) : i > 1 => w[i] = s[i - 1]
  OBVIOUS
<1> HIDE DEF w
<1>1. \A i \in DOMAIN s : i + 1 \in DOMAIN w /\ w[i + 1] = s[i] /\ 1 < i + 1
  <2> SUFFICES ASSUME NEW i \in DOMAIN s PROVE i + 1 \in DOMAIN w /\ w[i + 1] = s[i] /\ 1 < i + 1
    OBVIOUS
  <2>1. i + 1 \in 1..(Len(s) + 1) /\ 1 < i + 1 /\ (i + 1) - 1 = i BY <1>0
  <2> QED BY <2>1, <1>0
<1>2. /\ 1 \in DOMAIN w
      /\ \A k \in DOMAIN w : k = 1 \/ (k > 1 /\ k - 1 \in DOMAIN s /\ w[k] = s[k - 1])
  BY <1>0
<1>3. \A i \in DOMAIN s : s[i] # t /\ s[i] \in Range(s)
  BY DEF Range
<1>4. DOMAIN w \subseteq Int
  BY <1>0
<1>5. IsInjective(w)
  <2> SUFFICES ASSUME NEW i \in DOMAIN w, NEW j \in DOMAIN w, w[i] = w[j] PROVE i = j
    BY DEF IsInjective
  <2>1. CASE i = 1 \/ j = 1 BY <2>1, <1>0, <1>2, <1>3
  <2>2. CASE i # 1 /\ j # 1
    <3>1. i - 1 = j - 1 BY <2>2, <1>2 DEF IsInjective
    <3> QED BY <3>1, <1>4
  <2> QED BY <2>1, <2>2
<1>6. Range(w) = Range(s) \cup {t}
  <2>1. \A i \in DOMAIN w : w[i] \in Range(s) \cup {t}
    BY <1>0, <1>2, <1>3
  <2>2. t \in Range(w) BY <1>0, <1>2 DEF Range
  <2>3. \A i \in DOMAIN s : s[i] \in Range(w) BY <1>1 DEF Range
  <2> QED BY <2>1, <2>2, <2>3 DEF Range
<1>7. ASSUME NEW x \in Range(s), NEW y \in Range(s)
      PROVE  Ahead(w, x, y) <=> Ahead(s, x, y)
  <2>1. ASSUME Ahead(w, x, y) PROVE Ahead(s, x, y)
    <3>1. PICK i \in DOMAIN w, j \in DOMAIN w : i < j /\ w[i] = x /\ w[j] = y
      BY <2>1 DEF Ahead
    <3>2. i # 1 /\ j # 1 BY <3>1, <1>0
    <3>3. i - 1 \in DOMAIN s /\ s[i - 1] = x /\ j - 1 \in DOMAIN s /\ s[j - 1] = y
      BY <3>1, <3>2, <1>2
    <3>4. i - 1 < j - 1 BY <3>1, <1>4
    <3> QED BY <3>3, <3>4 DEF Ahead
  <2>2. ASSUME Ahead(s, x, y) PROVE Ahead(w, x, y)
    <3>1. PICK i \in DOMAIN s, j \in DOMAIN s : i < j /\ s[i] = x /\ s[j] = y
      BY <2>2 DEF Ahead
    <3>2. i + 1 < j + 1 BY <3>1, <1>0
    <3> QED BY <3>1, <3>2, <1>1 DEF Ahead
  <2> QED BY <2>1, <2>2
<1>8. ASSUME NEW x \in Range(s) PROVE Ahead(w, t, x)
  <2>1. PICK i \in DOMAIN s : s[i] = x BY DEF Range
  <2> QED BY <2>1, <1>0, <1>1, <1>2 DEF Ahead
<1>9. w \in Seq(Task)
  BY <1>0
<1> QED BY <1>5, <1>6, <1>7, <1>8, <1>9 DEF w
-----------------------------------------------------------------------------
(* The order of all queues *)

Queued(q) == {t \in Task : \E p \in Pri : t \in Range(q[p])}

(* The ready order as a set of pairs. *)
Ord(q, pri) == {z \in Task \X Task : Before(q, pri, z[1], z[2])}

(* The queues hold each task once, at its priority. *)
Queues(q, pri) ==
  /\ q \in [Pri -> Seq(Task)]
  /\ \A p \in Pri : IsInjective(q[p]) /\ \A t \in Range(q[p]) : pri[t] = p

LEMMA InOrd ==
  ASSUME NEW q, NEW pri, NEW x \in Task, NEW y \in Task
  PROVE  <<x, y>> \in Ord(q, pri) <=>
           pri[x] < pri[y] \/ (pri[x] = pri[y] /\ Ahead(q[pri[x]], x, y))
BY DEF Ord, Before, Ahead

LEMMA InQueue ==
  ASSUME NEW q, NEW pri, Queues(q, pri), NEW x \in Queued(q)
  PROVE  x \in Task /\ pri[x] \in Pri /\ x \in Range(q[pri[x]])
BY DEF Queues, Queued

LEMMA QueueElements ==
  ASSUME NEW q, NEW pri, Queues(q, pri), NEW p \in Pri, NEW x \in Range(q[p])
  PROVE  x \in Task /\ x \in Queued(q) /\ pri[x] = p
<1>1. q[p] \in Seq(Task)
  BY DEF Queues
<1>2. x \in Task
  BY <1>1 DEF Range
<1> QED BY <1>2 DEF Queues, Queued

LEMMA OrdOrders ==
  ASSUME NEW pri \in [Task -> Pri], NEW q, Queues(q, pri)
  PROVE  Orders(Queued(q), Ord(q, pri))
<1>0. \A p \in Pri : p \in Int
  BY DEF Pri
<1>1. ASSUME NEW x \in Queued(q), NEW y \in Queued(q), NEW z \in Queued(q),
             <<x, y>> \in Ord(q, pri), <<y, z>> \in Ord(q, pri)
      PROVE  <<x, z>> \in Ord(q, pri)
  <2>1. /\ x \in Task /\ y \in Task /\ z \in Task
        /\ pri[x] \in Pri /\ pri[y] \in Pri /\ pri[z] \in Pri
    BY InQueue
  <2>2. pri[x] < pri[y] \/ (pri[x] = pri[y] /\ Ahead(q[pri[x]], x, y))
    BY <1>1, <2>1, InOrd
  <2>3. pri[y] < pri[z] \/ (pri[y] = pri[z] /\ Ahead(q[pri[y]], y, z))
    BY <1>1, <2>1, InOrd
  <2>4. pri[x] < pri[z] \/ (pri[x] = pri[z] /\ Ahead(q[pri[x]], x, z))
    <3>1. CASE pri[x] < pri[y] \/ pri[y] < pri[z]
      BY <3>1, <2>1, <2>2, <2>3, <1>0
    <3>2. CASE pri[x] = pri[y] /\ Ahead(q[pri[x]], x, y) /\ pri[y] = pri[z] /\ Ahead(q[pri[y]], y, z)
      <4>1. q[pri[x]] \in Seq(Task) /\ IsInjective(q[pri[x]]) BY <2>1 DEF Queues
      <4>2. Ahead(q[pri[x]], y, z) BY <3>2
      <4>3. Ahead(q[pri[x]], x, z) BY <4>1, <4>2, <3>2, AheadOrders
      <4> QED BY <4>3, <3>2
    <3> QED BY <3>1, <3>2, <2>2, <2>3
  <2> QED BY <2>1, <2>4, InOrd
<1>2. ASSUME NEW x \in Queued(q), <<x, x>> \in Ord(q, pri) PROVE FALSE
  <2>1. x \in Task /\ pri[x] \in Pri BY InQueue
  <2>2. q[pri[x]] \in Seq(Task) /\ IsInjective(q[pri[x]]) BY <2>1 DEF Queues
  <2>3. ~Ahead(q[pri[x]], x, x) BY <2>2, AheadOrders
  <2>4. ~(pri[x] < pri[x]) BY <2>1, <1>0
  <2> QED BY <1>2, <2>1, <2>3, <2>4, InOrd
<1>3. ASSUME NEW x \in Queued(q), NEW y \in Queued(q), x # y
      PROVE  <<x, y>> \in Ord(q, pri) \/ <<y, x>> \in Ord(q, pri)
  <2>1. /\ x \in Task /\ pri[x] \in Pri /\ x \in Range(q[pri[x]])
        /\ y \in Task /\ pri[y] \in Pri /\ y \in Range(q[pri[y]])
    BY InQueue
  <2>2. CASE pri[x] # pri[y]
    <3>1. pri[x] < pri[y] \/ pri[y] < pri[x] BY <2>1, <2>2, <1>0
    <3> QED BY <3>1, <2>1, InOrd
  <2>3. CASE pri[x] = pri[y]
    <3>1. q[pri[x]] \in Seq(Task) /\ IsInjective(q[pri[x]]) BY <2>1 DEF Queues
    <3>2. y \in Range(q[pri[x]]) BY <2>1, <2>3
    <3>3. Ahead(q[pri[x]], x, y) \/ Ahead(q[pri[x]], y, x) BY <2>1, <3>1, <3>2, <1>3, AheadOrders
    <3>4. Ahead(q[pri[x]], x, y) \/ Ahead(q[pri[y]], y, x) BY <3>3, <2>3
    <3> QED BY <3>4, <2>1, <2>3, InOrd
  <2> QED BY <2>2, <2>3
<1> QED BY <1>1, <1>2, <1>3 DEF Orders

(* The queue of priority p becomes s, and the order of the tasks that are  *)
(* in both stays.                                                          *)
Replaces(pri, q, p, s, r) ==
  /\ Queues(q, pri)
  /\ p \in Pri
  /\ s \in Seq(Task) /\ IsInjective(s) /\ \A x \in Range(s) : pri[x] = p
  /\ \A x, y \in Range(s) \cap Range(q[p]) : Ahead(s, x, y) <=> Ahead(q[p], x, y)
  /\ r \in [Pri -> Seq(Task)] /\ r[p] = s /\ \A k \in Pri : k # p => r[k] = q[k]

LEMMA OneQueueChanges ==
  ASSUME NEW pri \in [Task -> Pri], NEW q, NEW p, NEW s, NEW r, Replaces(pri, q, p, s, r)
  PROVE  /\ Queues(r, pri)
         /\ Queued(r) = (Queued(q) \ Range(q[p])) \cup Range(s)
         /\ \A x, y \in Queued(r) \cap Queued(q) :
              <<x, y>> \in Ord(q, pri) <=> <<x, y>> \in Ord(r, pri)
<1>1. /\ q \in [Pri -> Seq(Task)] /\ r \in [Pri -> Seq(Task)]
      /\ r[p] = s /\ \A k \in Pri : k # p => r[k] = q[k]
  BY DEF Replaces, Queues
<1>0. /\ Queues(q, pri)
      /\ p \in Pri
      /\ s \in Seq(Task) /\ IsInjective(s) /\ \A x \in Range(s) : pri[x] = p
      /\ \A x, y \in Range(s) \cap Range(q[p]) : Ahead(s, x, y) <=> Ahead(q[p], x, y)
  BY DEF Replaces
<1>2. Queues(r, pri)
  <2>1. ASSUME NEW k \in Pri PROVE IsInjective(r[k]) /\ \A t \in Range(r[k]) : pri[t] = k
    <3>1. CASE k = p BY <3>1, <1>0, <1>1
    <3>2. CASE k # p BY <3>2, <1>0, <1>1 DEF Queues
    <3> QED BY <3>1, <3>2
  <2> QED BY <2>1, <1>0, <1>1 DEF Queues
<1>3. Queued(r) = (Queued(q) \ Range(q[p])) \cup Range(s)
  <2>1. ASSUME NEW x \in Queued(r) PROVE x \in (Queued(q) \ Range(q[p])) \cup Range(s)
    <3>1. x \in Task /\ pri[x] \in Pri /\ x \in Range(r[pri[x]]) BY <1>0, <1>2, InQueue
    <3>2. CASE pri[x] = p BY <3>1, <3>2, <1>0, <1>1
    <3>3. CASE pri[x] # p
      <4>1. x \in Range(q[pri[x]]) BY <3>1, <3>3, <1>0, <1>1
      <4>2. x \in Queued(q) BY <4>1, <3>1, <1>0, QueueElements
      <4>3. x \notin Range(q[p]) BY <3>3, <1>0, QueueElements
      <4> QED BY <4>2, <4>3
    <3> QED BY <3>2, <3>3
  <2>2. ASSUME NEW x \in Queued(q), x \notin Range(q[p]) PROVE x \in Queued(r)
    <3>1. x \in Task /\ pri[x] \in Pri /\ x \in Range(q[pri[x]]) BY <1>0, InQueue
    <3>2. pri[x] # p BY <3>1, <2>2, <1>0
    <3> QED BY <3>1, <3>2, <1>0, <1>1 DEF Queued
  <2>3. ASSUME NEW x \in Range(s) PROVE x \in Queued(r)
    BY <2>3, <1>0, <1>1, <1>2, QueueElements
  <2> QED BY <2>1, <2>2, <2>3
<1>4. ASSUME NEW x \in Queued(r) \cap Queued(q), NEW y \in Queued(r) \cap Queued(q)
      PROVE  <<x, y>> \in Ord(q, pri) <=> <<x, y>> \in Ord(r, pri)
  <2>1. /\ x \in Task /\ pri[x] \in Pri /\ x \in Range(r[pri[x]]) /\ x \in Range(q[pri[x]])
        /\ y \in Task /\ pri[y] \in Pri /\ y \in Range(r[pri[y]]) /\ y \in Range(q[pri[y]])
    BY <1>0, <1>2, InQueue
  <2>2. ASSUME pri[x] = pri[y] PROVE Ahead(q[pri[x]], x, y) <=> Ahead(r[pri[x]], x, y)
    <3>1. CASE pri[x] = p BY <3>1, <2>1, <2>2, <1>0, <1>1
    <3>2. CASE pri[x] # p BY <3>2, <2>1, <1>0, <1>1
    <3> QED BY <3>1, <3>2
  <2>3. <<x, y>> \in Ord(q, pri) <=>
          pri[x] < pri[y] \/ (pri[x] = pri[y] /\ Ahead(q[pri[x]], x, y))
    BY <2>1, InOrd
  <2>4. <<x, y>> \in Ord(r, pri) <=>
          pri[x] < pri[y] \/ (pri[x] = pri[y] /\ Ahead(r[pri[x]], x, y))
    BY <2>1, InOrd
  <2> QED BY <2>2, <2>3, <2>4
<1> QED BY <1>2, <1>3, <1>4

(* A task that is not queued may change its priority. *)
LEMMA PriorityOutside ==
  ASSUME NEW pri \in [Task -> Pri], NEW new \in [Task -> Pri], NEW q, Queues(q, pri),
         \A x \in Queued(q) : new[x] = pri[x]
  PROVE  /\ Queues(q, new)
         /\ \A x, y \in Queued(q) : <<x, y>> \in Ord(q, pri) <=> <<x, y>> \in Ord(q, new)
<1>1. Queues(q, new)
  <2>1. \A p \in Pri : \A t \in Range(q[p]) : new[t] = p BY QueueElements
  <2> QED BY <2>1 DEF Queues
<1>2. ASSUME NEW x \in Queued(q), NEW y \in Queued(q)
      PROVE  <<x, y>> \in Ord(q, pri) <=> <<x, y>> \in Ord(q, new)
  <2>1. x \in Task /\ y \in Task BY DEF Queued
  <2>2. <<x, y>> \in Ord(q, pri) <=>
          pri[x] < pri[y] \/ (pri[x] = pri[y] /\ Ahead(q[pri[x]], x, y))
    BY <2>1, InOrd
  <2>3. <<x, y>> \in Ord(q, new) <=>
          new[x] < new[y] \/ (new[x] = new[y] /\ Ahead(q[new[x]], x, y))
    BY <2>1, InOrd
  <2> QED BY <2>2, <2>3
<1> QED BY <1>1, <1>2
(* get_next_tcb finds the task after u: behind u in its own queue, or at   *)
(* the head of the next queue the bitmap names.  Only the queues of lower  *)
(* priority and their bits need to be exact.                               *)
LEMMA NextFollows ==
  ASSUME NEW pri \in [Task -> Pri], NEW q, Queues(q, pri), NEW u \in Queued(q),
         NEW r, r.bitmap \subseteq Pri,
         \A p \in Pri : p > pri[u] => (p \in r.bitmap <=> q[p] # <<>>) /\ r.que[p] = q[p]
  PROVE  /\ get_next_tcb(r, q, u, pri) \in Task \cup {NoTask}
         /\ Follows(Queued(q), Ord(q, pri), u, get_next_tcb(r, q, u, pri))
<1> DEFINE s == q[pri[u]]
           i == CHOOSE k \in DOMAIN s : s[k] = u
           Lower == {p \in r.bitmap : p > pri[u]}
           v == get_next_tcb(r, q, u, pri)
<1>1. u \in Task /\ pri[u] \in Pri /\ u \in Range(s)
  BY InQueue
<1>2. s \in Seq(Task) /\ IsInjective(s)
  BY <1>1 DEF Queues
<1>3. i \in DOMAIN s /\ s[i] = u
  BY <1>1 DEF Range
<1>4. v = IF i < Len(s) THEN s[i + 1] ELSE IF Lower # {} THEN r.que[Min(Lower)][1] ELSE NoTask
  BY DEF get_next_tcb
<1>5. NoTask \notin Task /\ NPri \in Nat /\ (\A p \in Pri : p \in Int)
  BY ConstAssumption DEF Pri
<1>6. \A x \in Queued(q) : x \in Task /\ pri[x] \in Pri /\ x \in Range(q[pri[x]])
  BY InQueue
<1>7. \A x \in Queued(q) : <<u, x>> \in Ord(q, pri) <=>
        pri[u] < pri[x] \/ (pri[u] = pri[x] /\ Ahead(s, u, x))
  <2> HIDE DEF s
  <2> SUFFICES ASSUME NEW x \in Queued(q)
               PROVE  <<u, x>> \in Ord(q, pri) <=>
                        pri[u] < pri[x] \/ (pri[u] = pri[x] /\ Ahead(s, u, x))
    OBVIOUS
  <2>1. x \in Task BY <1>6
  <2> QED BY <2>1, <1>1, InOrd DEF s
<1>8. DOMAIN s = 1..Len(s) /\ Len(s) \in Nat
  BY <1>2
<1> HIDE DEF i, s, v
<1>9. CASE i < Len(s)
  <2>1. i + 1 \in DOMAIN s /\ v = s[i + 1] BY <1>9, <1>3, <1>4, <1>8
  <2>2. v \in Range(s) BY <2>1 DEF Range
  <2>3. v \in Task /\ v \in Queued(q) /\ pri[v] = pri[u] BY <2>2, <1>1, QueueElements DEF s
  <2>4. i < i + 1 BY <1>3, <1>8
  <2>5. Ahead(s, u, v) BY <2>1, <2>4, <1>3 DEF Ahead
  <2>6. <<u, v>> \in Ord(q, pri) BY <2>3, <2>5, <1>7
  <2>7. ASSUME NEW x \in Queued(q), <<u, x>> \in Ord(q, pri)
        PROVE  x = v \/ <<v, x>> \in Ord(q, pri)
    <3>1. CASE pri[u] < pri[x]
      <4>1. x \in Task BY <1>6
      <4> QED BY <3>1, <4>1, <2>3, InOrd
    <3>2. CASE pri[u] = pri[x] /\ Ahead(s, u, x)
      <4>1. PICK k \in DOMAIN s, j \in DOMAIN s : k < j /\ s[k] = u /\ s[j] = x
        BY <3>2 DEF Ahead
      <4>2. k = i BY <4>1, <1>2, <1>3 DEF IsInjective
      <4>3. j = i + 1 \/ i + 1 < j BY <4>1, <4>2, <1>8
      <4>4. CASE j = i + 1 BY <4>4, <4>1, <2>1
      <4>5. CASE i + 1 < j
        <5>1. Ahead(s, v, x) BY <4>5, <4>1, <2>1 DEF Ahead
        <5>2. Ahead(q[pri[v]], v, x) BY <5>1, <2>3 DEF s
        <5>3. x \in Task BY <1>6
        <5> QED BY <5>2, <5>3, <3>2, <2>3, InOrd
      <4> QED BY <4>3, <4>4, <4>5
    <3> QED BY <2>7, <3>1, <3>2, <1>7
  <2>8. v # NoTask BY <2>3, <1>5
  <2>9. Follows(Queued(q), Ord(q, pri), u, v) BY <2>3, <2>6, <2>7, <2>8 DEF Follows
  <2> QED BY <2>9, <2>3 DEF v
<1>10. CASE ~(i < Len(s))
  <2>1. \A x : ~Ahead(s, u, x)
    <3> SUFFICES ASSUME NEW x, Ahead(s, u, x) PROVE FALSE
      OBVIOUS
    <3>1. PICK k \in DOMAIN s, j \in DOMAIN s : k < j /\ s[k] = u /\ s[j] = x
      BY DEF Ahead
    <3>2. k = i BY <3>1, <1>2, <1>3 DEF IsInjective
    <3> QED BY <3>1, <3>2, <1>8, <1>10
  <2>2. \A x \in Queued(q) : <<u, x>> \in Ord(q, pri) => pri[x] \in Lower
    <3> SUFFICES ASSUME NEW x \in Queued(q), <<u, x>> \in Ord(q, pri) PROVE pri[x] \in Lower
      OBVIOUS
    <3>1. pri[u] < pri[x] BY <1>7, <2>1
    <3>2. pri[x] \in Pri /\ x \in Range(q[pri[x]]) BY <1>6
    <3>3. q[pri[x]] # <<>> BY <3>2 DEF Range
    <3>4. pri[x] > pri[u] BY <3>1, <3>2, <1>1, <1>5
    <3> QED BY <3>2, <3>3, <3>4
  <2>3. CASE Lower = {}
    <3>1. v = NoTask BY <2>3, <1>4, <1>10
    <3>2. Follows(Queued(q), Ord(q, pri), u, v) BY <3>1, <2>2, <2>3 DEF Follows
    <3> QED BY <3>1, <3>2 DEF v
  <2>4. CASE Lower # {}
    <3>0. PICK m : m = Min(Lower) OBVIOUS
    <3>1. m \in Lower /\ \A p \in Lower : m <= p
      <4>1. Lower \subseteq 1..NPri BY DEF Pri
      <4> QED BY <4>1, <3>0, <2>4, <1>5, MinOf
    <3>2. m \in Pri /\ m > pri[u] /\ q[m] # <<>> /\ r.que[m] = q[m] BY <3>1
    <3>3. v = q[m][1] BY <3>0, <3>2, <2>4, <1>4, <1>10
    <3>4. q[m] \in Seq(Task) /\ IsInjective(q[m]) BY <3>2 DEF Queues
    <3>5. 1 \in DOMAIN q[m] /\ DOMAIN q[m] \subseteq Int /\ \A j \in DOMAIN q[m] : 1 <= j
      BY <3>2, <3>4
    <3>6. v \in Range(q[m]) BY <3>3, <3>5 DEF Range
    <3>7. v \in Task /\ v \in Queued(q) /\ pri[v] = m BY <3>2, <3>6, QueueElements
    <3>8. pri[u] < pri[v] BY <3>2, <3>7, <1>1, <1>5
    <3>9. <<u, v>> \in Ord(q, pri) BY <3>7, <3>8, <1>7
    <3>10. ASSUME NEW x \in Queued(q), <<u, x>> \in Ord(q, pri)
           PROVE  x = v \/ <<v, x>> \in Ord(q, pri)
      <4>1. x \in Task /\ pri[x] \in Pri /\ x \in Range(q[pri[x]]) BY <1>6
      <4>2. m = pri[x] \/ m < pri[x]
        <5>1. m <= pri[x] BY <2>2, <3>10, <3>1
        <5> QED BY <5>1, <4>1, <3>2, <1>5
      <4>3. CASE m < pri[x]
        BY <4>3, <4>1, <3>7, InOrd
      <4>4. CASE m = pri[x]
        <5>1. PICK j \in DOMAIN q[m] : q[m][j] = x BY <4>1, <4>4 DEF Range
        <5>2. j = 1 \/ 1 < j BY <5>1, <3>5
        <5>3. CASE j = 1 BY <5>3, <5>1, <3>3
        <5>4. CASE 1 < j
          <6>1. Ahead(q[m], v, x) BY <5>4, <5>1, <3>3, <3>5 DEF Ahead
          <6> QED BY <6>1, <4>1, <4>4, <3>7, InOrd
        <5> QED BY <5>2, <5>3, <5>4
      <4> QED BY <4>2, <4>3, <4>4
    <3>11. v # NoTask BY <3>7, <1>5
    <3>12. Follows(Queued(q), Ord(q, pri), u, v) BY <3>7, <3>9, <3>10, <3>11 DEF Follows
    <3> QED BY <3>7, <3>12 DEF v
  <2> QED BY <2>3, <2>4
<1> QED BY <1>9, <1>10
-----------------------------------------------------------------------------
(* The operations of ready_queue.h keep a good queue good *)

Record == [que : [Pri -> Seq(Task)], bitmap : SUBSET Pri, top : Array]

Good(r, pri) ==
  /\ r \in Record
  /\ Queues(r.que, pri)
  /\ r.bitmap = {p \in Pri : r.que[p] # <<>>}
  /\ IsTop(Queued(r.que), Ord(r.que, pri), r.top)

RdyQue(w, m, a) == [que |-> w, bitmap |-> m, top |-> a]

LEMMA GoodParts ==
  ASSUME NEW pri, NEW w \in [Pri -> Seq(Task)], NEW m \in SUBSET Pri, NEW a \in Array,
         Queues(w, pri), m = {p \in Pri : w[p] # <<>>}, IsTop(Queued(w), Ord(w, pri), a)
  PROVE  Good(RdyQue(w, m, a), pri)
BY DEF Good, Record, RdyQue

(* A queue that t has joined: at the end of the queue of its priority, or  *)
(* at its head.                                                            *)
HasJoined(t, q, w) == Queued(w) = Queued(q) \cup {t}

Joins(pri, r, t, p, e, s, later, w) ==
  /\ Good(r, pri)
  /\ t \in Task /\ t \notin Queued(r.que) /\ p = pri[t] /\ e = r.que[p]
  /\ s \in Seq(Task) /\ IsInjective(s) /\ s # <<>>
  /\ Range(s) = Range(e) \cup {t}
  /\ \A x, y \in Range(e) : Ahead(s, x, y) <=> Ahead(e, x, y)
  /\ \A x \in Task : pri[x] # p => (x \in later <=> pri[x] > p)
  /\ \A x \in Range(e) : x \in later <=> Ahead(s, t, x)
  /\ w \in [Pri -> Seq(Task)] /\ w[p] = s /\ \A k \in Pri : k # p => w[k] = r.que[k]

LEMMA JoinedIsGood ==
  ASSUME NEW pri \in [Task -> Pri], NEW r, NEW t, NEW p, NEW e, NEW s, NEW later, NEW w,
         Joins(pri, r, t, p, e, s, later, w)
  PROVE  /\ Good(RdyQue(w, r.bitmap \cup {p}, PutTop(r.top, t, later)), pri)
         /\ HasJoined(t, r.que, w)
<1> USE DEF Joins
<1>0. PICK q : q = r.que
  OBVIOUS
<1>1. p \in Pri /\ q \in [Pri -> Seq(Task)] /\ Queues(q, pri) /\ r.top \in Array /\ r.bitmap \subseteq Pri
  BY <1>0 DEF Good, Record
<1>2. w \in [Pri -> Seq(Task)] /\ w[p] = s /\ \A k \in Pri : k # p => w[k] = q[k]
  BY <1>0
<1>3. \A x \in Range(s) : pri[x] = p
  BY <1>0, <1>1, QueueElements
<1>4. \A x, y \in Range(s) \cap Range(q[p]) : Ahead(s, x, y) <=> Ahead(q[p], x, y)
  BY <1>0, ZenonT(60)
<1>5. /\ Queues(w, pri)
      /\ Queued(w) = (Queued(q) \ Range(q[p])) \cup Range(s)
      /\ \A x, y \in Queued(w) \cap Queued(q) :
           <<x, y>> \in Ord(q, pri) <=> <<x, y>> \in Ord(w, pri)
  <2>1. Replaces(pri, q, p, s, w) BY <1>1, <1>2, <1>3, <1>4 DEF Replaces
  <2> HIDE DEF Joins
  <2> QED BY <2>1, OneQueueChanges
<1>6. Queued(w) = Queued(q) \cup {t}
  <2>1. Range(q[p]) \subseteq Queued(q) BY <1>1, QueueElements
  <2> QED BY <2>1, <1>0, <1>5
<1>7. \A x \in Queued(q) : x \in later <=> <<t, x>> \in Ord(w, pri)
  <2> SUFFICES ASSUME NEW x \in Queued(q) PROVE x \in later <=> <<t, x>> \in Ord(w, pri)
    OBVIOUS
  <2>1. x \in Task /\ pri[x] \in Pri /\ x \in Range(q[pri[x]]) BY <1>1, InQueue
  <2>2. <<t, x>> \in Ord(w, pri) <=> pri[t] < pri[x] \/ (pri[t] = pri[x] /\ Ahead(w[pri[t]], t, x))
    BY <2>1, InOrd
  <2>3. CASE pri[x] = p
    <3>1. x \in later <=> Ahead(s, t, x) BY <2>1, <2>3, <1>0
    <3>2. ~(pri[t] < pri[x]) BY <2>3, <2>1 DEF Pri
    <3> QED BY <2>2, <2>3, <3>1, <3>2
  <2>4. CASE pri[x] # p
    <3>1. pri[x] > p <=> pri[t] < pri[x] BY <2>1, <1>1 DEF Pri
    <3> QED BY <2>1, <2>2, <2>4, <3>1
  <2> QED BY <2>3, <2>4
<1>8. PutTop(r.top, t, later) \in Array /\ IsTop(Queued(q) \cup {t}, Ord(w, pri), PutTop(r.top, t, later))
  <2>1. Queued(q) \subseteq Task /\ t \notin Queued(q) BY <1>0 DEF Queued
  <2>2. Orders(Queued(q) \cup {t}, Ord(w, pri)) BY <1>5, <1>6, OrdOrders
  <2>3. \A x, y \in Queued(q) : <<x, y>> \in Ord(q, pri) <=> <<x, y>> \in Ord(w, pri) BY <1>5, <1>6
  <2>4. IsTop(Queued(q), Ord(q, pri), r.top) BY <1>0 DEF Good
  <2> QED BY <2>1, <2>2, <2>3, <2>4, <1>1, <1>7, PutTopIsTop
<1>9. r.bitmap \cup {p} = {k \in Pri : w[k] # <<>>}
  <2>1. r.bitmap = {k \in Pri : q[k] # <<>>} BY <1>0 DEF Good
  <2> QED BY <2>1, <1>1, <1>2
<1>10. r.bitmap \cup {p} \in SUBSET Pri
  BY <1>1
<1>11. Good(RdyQue(w, r.bitmap \cup {p}, PutTop(r.top, t, later)), pri)
  BY <1>5, <1>6, <1>8, <1>9, <1>10, GoodParts
<1> QED BY <1>0, <1>6, <1>11 DEF HasJoined

(* ready_queue_insert. *)
LEMMA InsertedIsGood ==
  ASSUME NEW pri \in [Task -> Pri], NEW r, Good(r, pri), NEW t \in Task, t \notin Queued(r.que)
  PROVE  /\ Good(Inserted(r, t, pri), pri)
         /\ HasJoined(t, r.que, Inserted(r, t, pri).que)
<1>0. PICK p, e, s, w, later :
        /\ p = pri[t] /\ e = r.que[p] /\ s = Append(e, t) /\ w = [r.que EXCEPT ![p] = s]
        /\ later = {x \in Task : pri[x] > p}
  OBVIOUS
<1>1. p \in Pri /\ Queues(r.que, pri) /\ r.que \in [Pri -> Seq(Task)]
  BY <1>0 DEF Good, Queues
<1>2. e \in Seq(Task) /\ IsInjective(e)
  BY <1>0, <1>1 DEF Queues
<1>3. t \notin Range(e)
  BY <1>0, <1>1, QueueElements
<1>4. /\ s \in Seq(Task) /\ IsInjective(s) /\ Range(s) = Range(e) \cup {t}
      /\ \A x, y \in Range(e) : Ahead(s, x, y) <=> Ahead(e, x, y)
      /\ \A x \in Range(e) : Ahead(s, x, t)
  BY <1>0, <1>2, <1>3, AppendLemma
<1>5. s # <<>>
  BY <1>0, <1>2
<1>6. \A x \in Range(e) : x \in later <=> Ahead(s, t, x)
  <2>1. \A x \in Range(e) : ~Ahead(s, t, x) BY <1>4, AheadOrders
  <2>2. \A x \in Range(e) : pri[x] = p BY <1>0, <1>1, QueueElements
  <2>3. ~(p > p) BY <1>1 DEF Pri
  <2>4. \A x \in Range(e) : x \notin later BY <2>2, <2>3, <1>0
  <2> QED BY <2>1, <2>4
<1>7. Inserted(r, t, pri) = RdyQue(w, r.bitmap \cup {p}, PutTop(r.top, t, later))
  BY <1>0 DEF Inserted, update_top_when_insert, RdyQue
<1>8. w \in [Pri -> Seq(Task)] /\ w[p] = s /\ \A k \in Pri : k # p => w[k] = r.que[k]
  BY <1>0, <1>1, <1>4
<1>9. \A x \in Task : pri[x] # p => (x \in later <=> pri[x] > p)
  BY <1>0
<1>10. p = pri[t] /\ e = r.que[p]
  BY <1>0
<1>11. /\ Good(RdyQue(w, r.bitmap \cup {p}, PutTop(r.top, t, later)), pri)
       /\ HasJoined(t, r.que, w)
  <2>1. Joins(pri, r, t, p, e, s, later, w) BY <1>4, <1>5, <1>6, <1>8, <1>9, <1>10 DEF Joins
  <2> QED BY <2>1, JoinedIsGood
<1> QED BY <1>7, <1>11 DEF RdyQue

(* ready_queue_insert_top. *)
LEMMA InsertedTopIsGood ==
  ASSUME NEW pri \in [Task -> Pri], NEW r, Good(r, pri), NEW t \in Task, t \notin Queued(r.que),
         NEW w, w = [r.que EXCEPT ![pri[t]] = <<t>> \o @]
  PROVE  /\ Good(RdyQue(w, r.bitmap \cup {pri[t]}, update_top_when_insert_top(r.top, t, pri)), pri)
         /\ HasJoined(t, r.que, w)
<1>0. PICK p, e, s, later :
        /\ p = pri[t] /\ e = r.que[p] /\ s = <<t>> \o e
        /\ later = {x \in Task : pri[x] >= p}
  OBVIOUS
<1>1. p \in Pri /\ Queues(r.que, pri) /\ r.que \in [Pri -> Seq(Task)]
  BY <1>0 DEF Good, Queues
<1>2. e \in Seq(Task) /\ IsInjective(e)
  BY <1>0, <1>1 DEF Queues
<1>3. t \notin Range(e)
  BY <1>0, <1>1, QueueElements
<1>4. /\ s \in Seq(Task) /\ IsInjective(s) /\ Range(s) = Range(e) \cup {t}
      /\ \A x, y \in Range(e) : Ahead(s, x, y) <=> Ahead(e, x, y)
      /\ \A x \in Range(e) : Ahead(s, t, x)
  BY <1>0, <1>2, <1>3, PrependLemma, ZenonT(60)
<1>5. s # <<>>
  BY <1>0, <1>2
<1>6. \A x \in Range(e) : x \in later <=> Ahead(s, t, x)
  <2> SUFFICES ASSUME NEW x \in Range(e) PROVE x \in later /\ Ahead(s, t, x)
    OBVIOUS
  <2>1. x \in Task /\ pri[x] = p BY <1>0, <1>1, QueueElements
  <2>2. p >= p BY <1>1 DEF Pri
  <2>3. x \in later BY <2>1, <2>2, <1>0
  <2> QED BY <2>3, <1>4
<1>7. update_top_when_insert_top(r.top, t, pri) = PutTop(r.top, t, later)
  BY <1>0 DEF update_top_when_insert_top
<1>8. w \in [Pri -> Seq(Task)] /\ w[p] = s /\ \A k \in Pri : k # p => w[k] = r.que[k]
  BY <1>0, <1>1, <1>4
<1>9. \A x \in Task : pri[x] # p => (x \in later <=> pri[x] > p)
  <2>1. \A x \in Task : pri[x] \in Int BY DEF Pri
  <2> QED BY <2>1, <1>0
<1>10. p = pri[t] /\ e = r.que[p]
  BY <1>0
<1>11. /\ Good(RdyQue(w, r.bitmap \cup {p}, PutTop(r.top, t, later)), pri)
       /\ HasJoined(t, r.que, w)
  <2>1. Joins(pri, r, t, p, e, s, later, w) BY <1>4, <1>5, <1>6, <1>8, <1>9, <1>10 DEF Joins
  <2> QED BY <2>1, JoinedIsGood
<1> QED BY <1>0, <1>7, <1>11
HasLeft(t, q, w) == Queued(w) = Queued(q) \ {t}

(* u is r without t, but for top[]. *)
Leaves(pri, r, t, u) ==
  /\ Good(r, pri)
  /\ t \in Queued(r.que)
  /\ u = Unlinked(r, t, pri)

LeavesQueues(pri, r, t, u) ==
  /\ u \in Record /\ u.top = r.top
  /\ Queues(u.que, pri)
  /\ u.bitmap = {p \in Pri : u.que[p] # <<>>}
  /\ \A p \in Pri : p # pri[t] => u.que[p] = r.que[p]
  /\ HasLeft(t, r.que, u.que)
  /\ \A x, y \in Queued(u.que) :
       <<x, y>> \in Ord(r.que, pri) <=> <<x, y>> \in Ord(u.que, pri)

LEMMA UnlinkedQueues ==
  ASSUME NEW pri \in [Task -> Pri], NEW r, NEW t, NEW u, Leaves(pri, r, t, u)
  PROVE  LeavesQueues(pri, r, t, u)
<1>0. Good(r, pri) /\ t \in Queued(r.que) /\ u = Unlinked(r, t, pri)
  BY DEF Leaves
<1>1. PICK p, e, s, q, w :
        /\ p = pri[t] /\ q = r.que /\ e = q[p] /\ s = Without(e, t) /\ w = [q EXCEPT ![p] = s]
  OBVIOUS
<1>2. /\ q \in [Pri -> Seq(Task)] /\ Queues(q, pri) /\ r.top \in Array
      /\ r.bitmap = {k \in Pri : q[k] # <<>>} /\ r \in Record
  BY <1>0, <1>1 DEF Good, Record
<1>3. t \in Task /\ p \in Pri /\ t \in Range(e)
  <2>1. t \in Queued(q) BY <1>0, <1>1
  <2> QED BY <2>1, <1>1, <1>2, InQueue
<1>4. e \in Seq(Task) /\ IsInjective(e)
  BY <1>1, <1>2, <1>3 DEF Queues
<1>5. /\ s \in Seq(Task) /\ IsInjective(s) /\ Range(s) = Range(e) \ {t}
      /\ \A x, y \in Range(e) \ {t} : Ahead(s, x, y) <=> Ahead(e, x, y)
  BY <1>1, <1>3, <1>4, WithoutLemma
<1>6. w \in [Pri -> Seq(Task)] /\ w[p] = s /\ \A k \in Pri : k # p => w[k] = q[k]
  BY <1>1, <1>2, <1>3, <1>5
<1>7. Replaces(pri, q, p, s, w)
  <2>1. \A x \in Range(s) : pri[x] = p BY <1>1, <1>2, <1>3, <1>5, QueueElements
  <2>2. \A x, y \in Range(s) \cap Range(q[p]) : Ahead(s, x, y) <=> Ahead(q[p], x, y)
    BY <1>1, <1>5
  <2> QED BY <2>1, <2>2, <1>2, <1>3, <1>5, <1>6 DEF Replaces
<1>8. /\ Queues(w, pri)
      /\ Queued(w) = (Queued(q) \ Range(q[p])) \cup Range(s)
      /\ \A x, y \in Queued(w) \cap Queued(q) :
           <<x, y>> \in Ord(q, pri) <=> <<x, y>> \in Ord(w, pri)
  BY <1>7, OneQueueChanges
<1>9. Queued(w) = Queued(q) \ {t}
  <2>1. Range(q[p]) \subseteq Queued(q) BY <1>2, <1>3, QueueElements
  <2> QED BY <2>1, <1>1, <1>3, <1>5, <1>8
<1>10. \A x, y \in Queued(w) : <<x, y>> \in Ord(q, pri) <=> <<x, y>> \in Ord(w, pri)
  BY <1>8, <1>9
<1>11. PICK m : m = IF s = <<>> THEN r.bitmap \ {p} ELSE r.bitmap
  OBVIOUS
<1>12. m = {k \in Pri : w[k] # <<>>}
  <2>1. e # <<>> BY <1>3 DEF Range
  <2> QED BY <2>1, <1>1, <1>2, <1>3, <1>6, <1>11
<1>13. u.que = w /\ u.bitmap = m /\ u.top = r.top /\ u \in Record
  <2>1. u = [[r EXCEPT !.que = w] EXCEPT !.bitmap = m]
    BY <1>0, <1>1, <1>6, <1>11 DEF Unlinked
  <2> QED BY <2>1, <1>2, <1>6, <1>12 DEF Record
<1>14. u.que = w /\ r.que = q /\ p = pri[t]
  BY <1>1, <1>13
<1>15. HasLeft(t, r.que, u.que)
  BY <1>9, <1>14 DEF HasLeft
<1>16. u.bitmap = {k \in Pri : u.que[k] # <<>>}
  BY <1>12, <1>13
<1>17. \A k \in Pri : k # pri[t] => u.que[k] = r.que[k]
  BY <1>6, <1>14
<1>18. Queues(u.que, pri)
  BY <1>8, <1>14
<1>19. \A x, y \in Queued(u.que) : <<x, y>> \in Ord(r.que, pri) <=> <<x, y>> \in Ord(u.que, pri)
  BY <1>10, <1>14
<1> QED BY <1>13, <1>15, <1>16, <1>17, <1>18, <1>19 DEF LeavesQueues

(* ready_queue_delete. *)
LEMMA DeletedTop ==
  ASSUME NEW pri \in [Task -> Pri], NEW r, NEW t, NEW u, Leaves(pri, r, t, u),
         NEW b, b = update_top_when_remove(u, r.que, t, pri)
  PROVE  /\ b \in Array /\ IsTop(Queued(u.que), Ord(u.que, pri), b)
         /\ t \notin Range(r.top) => b = r.top
<1>0. PICK q, w, a : q = r.que /\ w = u.que /\ a = r.top
  OBVIOUS
<1>1. /\ Queues(w, pri) /\ u.top = a /\ u.bitmap = {p \in Pri : w[p] # <<>>}
      /\ \A p \in Pri : p # pri[t] => w[p] = q[p]
      /\ Queued(w) = Queued(q) \ {t}
      /\ \A x, y \in Queued(q) \ {t} : <<x, y>> \in Ord(q, pri) <=> <<x, y>> \in Ord(w, pri)
  <2>1. LeavesQueues(pri, r, t, u) BY UnlinkedQueues
  <2>2. Queued(w) = Queued(q) \ {t} BY <2>1, <1>0 DEF LeavesQueues, HasLeft
  <2> QED BY <2>1, <2>2, <1>0 DEF LeavesQueues
<1>2. Queues(q, pri) /\ t \in Queued(q) /\ a \in Array /\ IsTop(Queued(q), Ord(q, pri), a)
  BY <1>0 DEF Leaves, Good, Record
<1>3. NoTask \notin Task /\ NoTask \notin Queued(q) /\ Queued(q) \subseteq Task
      /\ NProc \in Nat /\ NProc >= 1 /\ NProc \in Core
  BY ConstAssumption DEF Queued, Core
<1>4. CASE t \notin Range(a)
  <2>1. b = a BY <1>0, <1>1, <1>4 DEF update_top_when_remove
  <2>2. IsTop(Queued(q) \ {t}, Ord(w, pri), a) BY <1>1, <1>2, <1>3, <1>4, OutsideIsTop
  <2> QED BY <2>1, <2>2, <1>0, <1>1, <1>2
<1>5. CASE t \in Range(a)
  <2>1. PICK n : n = CHOOSE k \in Core : a[k] = t
    OBVIOUS
  <2>2. n \in Core /\ a[n] = t
    <3>1. \E k \in Core : a[k] = t BY <1>2, <1>5 DEF Range, Array
    <3> QED BY <3>1, <2>1
  <2>3. PICK c : c = [k \in Core |-> IF k < n \/ k = NProc THEN a[k] ELSE a[k + 1]]
    OBVIOUS
  <2>4. b = IF NProc = 1 THEN [c EXCEPT ![1] = get_next_tcb(u, q, t, pri)]
            ELSE IF c[NProc - 1] = NoTask THEN c
            ELSE [c EXCEPT ![NProc] = get_next_tcb(u, w, c[NProc - 1], pri)]
    BY <1>0, <1>1, <1>5, <2>1, <2>3 DEF update_top_when_remove
  <2>5. c \in Array
    <3>1. \A k \in Core : ~(k < n \/ k = NProc) => k + 1 \in Core BY <1>3, <2>2 DEF Core
    <3> QED BY <3>1, <1>2, <2>3 DEF Array
  <2>6. \A k \in Core : k < NProc => c[k] = IF k < n THEN a[k] ELSE a[k + 1]
    <3>1. \A k \in Core : k < NProc => k # NProc BY <1>3 DEF Core
    <3> QED BY <3>1, <2>3
  <2>7. CASE NProc = 1
    <3>0. PICK v : v = get_next_tcb(u, q, t, pri) OBVIOUS
    <3>1. pri[t] \in Pri BY <1>2, InQueue
    <3>2. v \in Task \cup {NoTask} /\ Follows(Queued(q), Ord(q, pri), t, v)
      <4>1. \A p \in Pri : p > pri[t] => (p \in u.bitmap <=> q[p] # <<>>) /\ u.que[p] = q[p]
        <5>1. ~(pri[t] > pri[t]) BY <3>1 DEF Pri
        <5> QED BY <5>1, <1>0, <1>1
      <4>2. u.bitmap \subseteq Pri BY <1>1
      <4> QED BY <4>1, <4>2, <3>0, <1>2, NextFollows
    <3>3. b = [c EXCEPT ![1] = v] BY <2>4, <2>7, <3>0
    <3>4. b \in Array BY <3>2, <3>3, <2>5 DEF Array
    <3>5. b[NProc] = v /\ \A k \in Core : ~(k < NProc) BY <3>3, <2>5, <2>7, <1>3 DEF Array, Core
    <3>6. IsTop(Queued(q) \ {t}, Ord(w, pri), b)
      <4>1. Orders(Queued(q), Ord(q, pri)) BY <1>2, OrdOrders
      <4>2. ~(NProc > 1) BY <2>7
      <4>3. Follows(Queued(q), Ord(q, pri), t, b[NProc]) BY <3>2, <3>5
      <4> QED BY <4>1, <4>2, <4>3, <1>1, <1>2, <1>3, <2>2, <3>4, <3>5, ShiftIsTop
    <3> QED BY <3>4, <3>6, <1>0, <1>1, <1>5
  <2>8. CASE NProc # 1
    <3>0. PICK l : l = NProc - 1 OBVIOUS
    <3>1. l \in Core /\ l < NProc /\ NProc > 1 BY <3>0, <2>8, <1>3 DEF Core
    <3>2. /\ b \in Array
          /\ \A k \in Core : k < NProc => b[k] = c[k]
          /\ IF b[l] = NoTask THEN b[NProc] = NoTask
             ELSE Follows(Queued(q) \ {t}, Ord(w, pri), b[l], b[NProc])
      <4>1. CASE c[l] = NoTask
        <5>1. b = c BY <4>1, <2>4, <2>8, <3>0
        <5>2. c[NProc] = a[NProc] BY <2>3, <1>3
        <5>3. a[NProc] = NoTask
          <6>1. CASE l < n
            <7>1. n = NProc BY <6>1, <3>0, <2>2, <1>3 DEF Core
            <7>2. c[l] = a[l] BY <6>1, <3>1, <2>6
            <7>3. t # NoTask BY <1>2, <1>3
            <7> QED BY <7>1, <7>2, <7>3, <4>1, <3>1, <2>2, <1>2 DEF IsTop
          <6>2. CASE ~(l < n)
            <7>1. c[l] = a[l + 1] /\ l + 1 = NProc BY <6>2, <3>0, <3>1, <2>6, <1>3
            <7> QED BY <7>1, <4>1
          <6> QED BY <6>1, <6>2
        <5> QED BY <5>1, <5>2, <5>3, <4>1, <2>5
      <4>2. CASE c[l] # NoTask
        <5>0. PICK v : v = get_next_tcb(u, w, c[l], pri) OBVIOUS
        <5>1. b = [c EXCEPT ![NProc] = v] BY <4>2, <5>0, <2>4, <2>8, <3>0
        <5>2. c[l] \in Queued(q) \ {t}
          <6>1. \A k \in Core : k # n => a[k] # t
            <7> SUFFICES ASSUME NEW k \in Core, k # n, a[k] = t PROVE FALSE
              OBVIOUS
            <7>1. k < n \/ n < k BY <2>2 DEF Core
            <7>2. t # NoTask BY <1>2, <1>3
            <7>3. <<t, t>> \in Ord(q, pri) BY <7>1, <7>2, <2>2, <1>2 DEF IsTop
            <7>4. Orders(Queued(q), Ord(q, pri)) BY <1>2, OrdOrders
            <7> QED BY <7>3, <7>4, <1>2 DEF Orders
          <6>2. CASE l < n
            <7>1. c[l] = a[l] /\ l # n BY <6>2, <3>1, <2>2, <2>6 DEF Core
            <7> QED BY <7>1, <6>1, <4>2, <3>1, <1>2 DEF IsTop
          <6>3. CASE ~(l < n)
            <7>1. c[l] = a[l + 1] /\ l + 1 = NProc /\ l + 1 # n
              BY <6>3, <3>0, <3>1, <2>2, <2>6, <1>3 DEF Core
            <7> QED BY <7>1, <6>1, <4>2, <1>2, <1>3 DEF IsTop
          <6> QED BY <6>2, <6>3
        <5>3. v \in Task \cup {NoTask} /\ Follows(Queued(w), Ord(w, pri), c[l], v)
          <6>1. \A p \in Pri : p > pri[c[l]] => (p \in u.bitmap <=> w[p] # <<>>) /\ u.que[p] = w[p]
            BY <1>0, <1>1
          <6>2. u.bitmap \subseteq Pri BY <1>1
          <6>3. c[l] \in Queued(w) BY <5>2, <1>1
          <6> QED BY <6>1, <6>2, <6>3, <5>0, <1>1, NextFollows
        <5>4. b \in Array BY <5>1, <5>3, <2>5 DEF Array
        <5>5. b[NProc] = v /\ \A k \in Core : k < NProc => b[k] = c[k]
          BY <5>1, <2>5, <1>3 DEF Array
        <5>6. b[l] = c[l] BY <5>5, <3>1
        <5> QED BY <5>3, <5>4, <5>5, <5>6, <4>2, <1>1
      <4> QED BY <4>1, <4>2
    <3>3. \A k \in Core : k < NProc => b[k] = IF k < n THEN a[k] ELSE a[k + 1]
      BY <3>2, <2>6
    <3>4. IsTop(Queued(q) \ {t}, Ord(w, pri), b)
      <4>1. Orders(Queued(q), Ord(q, pri)) BY <1>2, OrdOrders
      <4>2. b \in Array BY <3>2
      <4>3. NProc > 1 => IF b[NProc - 1] = NoTask THEN b[NProc] = NoTask
                         ELSE Follows(Queued(q) \ {t}, Ord(w, pri), b[NProc - 1], b[NProc])
        BY <3>2, <3>0
      <4>4. NProc = 1 => Follows(Queued(q), Ord(q, pri), t, b[NProc]) BY <2>8
      <4> QED BY <4>1, <4>2, <4>3, <4>4, <1>1, <1>2, <1>3, <2>2, <3>3, ShiftIsTop
    <3> QED BY <3>2, <3>4, <1>0, <1>1, <1>5
  <2> QED BY <2>7, <2>8
<1> QED BY <1>4, <1>5
(* Deleted(r, t, pri) is u with the new top[]. *)
LEMMA DeletedIsGood ==
  ASSUME NEW pri \in [Task -> Pri], NEW r, Good(r, pri), NEW t \in Queued(r.que)
  PROVE  /\ Good(Deleted(r, t, pri), pri)
         /\ HasLeft(t, r.que, Deleted(r, t, pri).que)
         /\ t \notin Range(r.top) => Deleted(r, t, pri).top = r.top
         /\ \A p \in Pri : p # pri[t] => Deleted(r, t, pri).que[p] = r.que[p]
<1>1. PICK u : u = Unlinked(r, t, pri)
  OBVIOUS
<1>2. PICK b : b = update_top_when_remove(u, r.que, t, pri)
  OBVIOUS
<1>3. Leaves(pri, r, t, u)
  BY <1>1 DEF Leaves
<1>4. LeavesQueues(pri, r, t, u)
  BY <1>3, UnlinkedQueues
<1>5. /\ b \in Array /\ IsTop(Queued(u.que), Ord(u.que, pri), b)
      /\ t \notin Range(r.top) => b = r.top
  BY <1>2, <1>3, DeletedTop
<1>6. PICK d : d = Deleted(r, t, pri)
  OBVIOUS
<1>7. d.que = u.que /\ d.bitmap = u.bitmap /\ d.top = b /\ d \in Record
  <2>1. d = [u EXCEPT !.top = b] BY <1>1, <1>2, <1>6 DEF Deleted
  <2>2. u \in Record BY <1>4 DEF LeavesQueues
  <2> QED BY <2>1, <2>2, <1>5 DEF Record
<1>8. Good(d, pri)
  BY <1>4, <1>5, <1>7 DEF Good, LeavesQueues
<1>9. HasLeft(t, r.que, d.que)
  BY <1>4, <1>7 DEF LeavesQueues, HasLeft
<1>10. \A p \in Pri : p # pri[t] => d.que[p] = r.que[p]
  BY <1>4, <1>7 DEF LeavesQueues
<1> QED BY <1>5, <1>6, <1>7, <1>8, <1>9, <1>10

(* A good queue stays good when a task outside it changes its priority. *)
LEMMA PriorityIsGood ==
  ASSUME NEW pri \in [Task -> Pri], NEW new \in [Task -> Pri], NEW r, Good(r, pri),
         \A x \in Queued(r.que) : new[x] = pri[x]
  PROVE  Good(r, new)
<1>1. PICK q, a, S : q = r.que /\ a = r.top /\ S = Queued(q)
  OBVIOUS
<1>2. Queues(q, pri) /\ IsTop(S, Ord(q, pri), a) /\ a \in Array /\ \A x \in S : new[x] = pri[x]
  BY <1>1 DEF Good, Record
<1>3. /\ Queues(q, new)
      /\ \A x, y \in S : <<x, y>> \in Ord(q, pri) <=> <<x, y>> \in Ord(q, new)
  BY <1>1, <1>2, PriorityOutside
<1>4. IsTop(S, Ord(q, new), a)
  <2>1. \A n \in Core : a[n] # NoTask => a[n] \in S BY <1>2 DEF IsTop
  <2>2. \A m, n \in Core : m < n /\ a[n] # NoTask => a[m] # NoTask /\ <<a[m], a[n]>> \in Ord(q, new)
    BY <1>2, <1>3, <2>1 DEF IsTop
  <2>3. \A t \in S : t \notin Range(a) => \A n \in Core : a[n] # NoTask /\ <<a[n], t>> \in Ord(q, new)
    BY <1>2, <1>3, <2>1 DEF IsTop
  <2> QED BY <2>1, <2>2, <2>3 DEF IsTop
<1> QED BY <1>1, <1>3, <1>4 DEF Good

(* The task goes behind the others of its priority; if it is not in top[], *)
(* top[] is not touched.                                                   *)
LEMMA MovedLastIsGood ==
  ASSUME NEW pri \in [Task -> Pri], NEW r, Good(r, pri), NEW t \in Queued(r.que)
  PROVE  /\ Good(MovedLast(r, t, pri), pri)
         /\ Queued(MovedLast(r, t, pri).que) = Queued(r.que)
         /\ t \notin Range(r.top) => MovedLast(r, t, pri).top = r.top
<1>1. CASE r.que[pri[t]][Len(r.que[pri[t]])] = t
  BY <1>1 DEF MovedLast
<1>2. CASE r.que[pri[t]][Len(r.que[pri[t]])] # t
  <2>1. PICK d : d = Deleted(r, t, pri)
    OBVIOUS
  <2>2. /\ Good(d, pri) /\ HasLeft(t, r.que, d.que)
        /\ t \notin Range(r.top) => d.top = r.top
    BY <2>1, DeletedIsGood
  <2>3. t \in Task BY DEF Queued
  <2>4. t \notin Queued(d.que) BY <2>2 DEF HasLeft
  <2>5. PICK i : i = Inserted(d, t, pri)
    OBVIOUS
  <2>6. Good(i, pri) /\ HasJoined(t, d.que, i.que)
    BY <2>2, <2>3, <2>4, <2>5, InsertedIsGood
  <2>7. Queued(i.que) = Queued(r.que) BY <2>2, <2>6 DEF HasLeft, HasJoined
  <2>8. MovedLast(r, t, pri) = i BY <1>2, <2>1, <2>5 DEF MovedLast
  <2>9. ASSUME t \notin Range(r.top) PROVE i.top = r.top
    <3>1. PICK a : a = r.top OBVIOUS
    <3>2. i.top = PutTop(a, t, {x \in Task : pri[x] > pri[t]})
      BY <2>2, <2>5, <2>9, <3>1 DEF Inserted, update_top_when_insert
    <3>3. a \in Array /\ IsTop(Queued(r.que), Ord(r.que, pri), a) BY <3>1 DEF Good, Record
    <3>4. \A k \in Core : a[k] # NoTask /\ a[k] \in Task /\ ~(pri[a[k]] > pri[t])
      <4> SUFFICES ASSUME NEW k \in Core PROVE a[k] # NoTask /\ a[k] \in Task /\ ~(pri[a[k]] > pri[t])
        OBVIOUS
      <4>1. a[k] # NoTask /\ <<a[k], t>> \in Ord(r.que, pri) BY <2>9, <3>1, <3>3 DEF IsTop
      <4>2. a[k] \in Task BY <4>1, <3>3 DEF Array
      <4>3. pri[a[k]] < pri[t] \/ pri[a[k]] = pri[t]
        <5>1. PICK q, x : q = r.que /\ x = a[k] OBVIOUS
        <5>2. <<x, t>> \in Ord(q, pri) <=>
                pri[x] < pri[t] \/ (pri[x] = pri[t] /\ Ahead(q[pri[x]], x, t))
          <6>1. x \in Task BY <5>1, <4>2
          <6> QED BY <6>1, <2>3, InOrd
        <5> QED BY <5>1, <5>2, <4>1
      <4>4. pri[a[k]] \in Int /\ pri[t] \in Int BY <4>2, <2>3 DEF Pri
      <4> QED BY <4>1, <4>2, <4>3, <4>4
    <3>5. {k \in Core : a[k] \in {x \in Task : pri[x] > pri[t]} \cup {NoTask}} \cup {NProc + 1} = {NProc + 1}
      <4>1. {k \in Core : a[k] \in {x \in Task : pri[x] > pri[t]} \cup {NoTask}} = {}
        BY <3>4
      <4> QED BY <4>1
    <3>6. NProc \in Nat BY ConstAssumption
    <3>7. Min({NProc + 1}) = NProc + 1
      <4>1. {NProc + 1} \subseteq 1..(NProc + 1) /\ {NProc + 1} # {} /\ NProc + 1 \in Nat BY <3>6
      <4> QED BY <4>1, MinOf
    <3>8. PutTop(a, t, {x \in Task : pri[x] > pri[t]}) = [k \in Core |-> a[k]]
      <4>1. PutTop(a, t, {x \in Task : pri[x] > pri[t]}) =
              [k \in Core |-> IF k < NProc + 1 THEN a[k] ELSE IF k = NProc + 1 THEN t ELSE a[k - 1]]
        BY <3>5, <3>7 DEF PutTop
      <4>2. \A k \in Core : k < NProc + 1 BY <3>6 DEF Core
      <4> QED BY <4>1, <4>2
    <3> QED BY <3>1, <3>2, <3>3, <3>8 DEF Array
  <2> QED BY <2>6, <2>7, <2>8, <2>9
<1> QED BY <1>1, <1>2
-----------------------------------------------------------------------------
(* The inductive invariant *)

(* The queue is good, the lock waiters are outside it, and the schedule and*)
(* the tasks reschedule has still to look at are in it; the latter are not *)
(* in top[], so that a time slice that ends there leaves top[] as it was.  *)
RInv ==
  /\ priority \in [Task -> Pri]
  /\ Good(rq, priority)
  /\ wtskq \in Seq(Task)
  /\ LockWaitersApart
  /\ ScheduleCurrent
  /\ schedtsk \subseteq Queued(que)
  /\ displaced \subseteq Queued(que) \ Range(top)

LEMMA InReady ==
  ASSUME NEW t \in Task
  PROVE  InReadyQueue(t) <=> t \in Queued(que)
BY DEF InReadyQueue, Queued

LEMMA InReadyNext ==
  ASSUME NEW t \in Task
  PROVE  InReadyQueue(t)' <=> t \in Queued(que')
BY DEF InReadyQueue, Queued

LEMMA Becomes ==
  ASSUME NEW r \in Record, Become(r)
  PROVE  rq' = r /\ que' = r.que /\ top' = r.top
BY DEF Become, rq, Record

(* What ready_queue_top chooses is queued. *)
LEMMA TopQueued ==
  ASSUME NEW pri, NEW r, Good(r, pri)
  PROVE  ready_queue_top(r) \subseteq Queued(r.que)
<1>1. PICK a, S, B : a = r.top /\ S = Queued(r.que) /\ B = Ord(r.que, pri)
  OBVIOUS
<1>2. a \in Array /\ IsTop(S, B, a)
  BY <1>1 DEF Good, Record
<1>3. \A x \in Range(a) \ {NoTask} : x \in S
  BY <1>2 DEF IsTop, Range, Array
<1> QED BY <1>1, <1>3 DEF ready_queue_top

(* The wait queue of the lock, and the tasks in it. *)
Waiters(w, k, q) ==
  /\ w \in Seq(Task) /\ IsInjective(w) /\ Range(w) = k /\ k \cap Queued(q) = {}

LEMMA WaitersNow ==
  wtskq \in Seq(Task) => (LockWaitersApart <=> Waiters(wtskq, klockwait, que))
<1> SUFFICES ASSUME wtskq \in Seq(Task)
             PROVE  LockWaitersApart <=> Waiters(wtskq, klockwait, que)
  OBVIOUS
<1>1. Range(wtskq) \subseteq Task
  BY DEF Range
<1>2. Range(wtskq) = klockwait =>
        ((\A t \in klockwait : ~InReadyQueue(t)) <=> klockwait \cap Queued(que) = {})
  BY <1>1, InReady
<1> QED BY <1>2 DEF LockWaitersApart, Waiters

LEMMA WaitersNext ==
  wtskq' \in Seq(Task) => (LockWaitersApart' <=> Waiters(wtskq', klockwait', que'))
<1> SUFFICES ASSUME wtskq' \in Seq(Task)
             PROVE  LockWaitersApart' <=> Waiters(wtskq', klockwait', que')
  OBVIOUS
<1>1. Range(wtskq') \subseteq Task
  BY DEF Range
<1>2. Range(wtskq') = klockwait' =>
        ((\A t \in klockwait' : ~InReadyQueue(t)') <=> klockwait' \cap Queued(que') = {})
  BY <1>1, InReadyNext
<1> QED BY <1>2 DEF LockWaitersApart, Waiters

LEMMA WaiterLeaves ==
  ASSUME NEW w, NEW k, NEW q, Waiters(w, k, q), NEW t \in k
  PROVE  Waiters(Without(w, t), k \ {t}, q) /\ t \in Task /\ t \notin Queued(q)
<1>1. w \in Seq(Task) /\ IsInjective(w) /\ t \in Range(w)
  BY DEF Waiters
<1>2. t \in Task
  BY <1>1 DEF Range
<1> QED BY <1>1, <1>2, WithoutLemma DEF Waiters

LEMMA HeadLeaves ==
  ASSUME NEW w, NEW k, NEW q, Waiters(w, k, q), w # <<>>
  PROVE  /\ Waiters(Tail(w), k \ {Head(w)}, q)
         /\ Head(w) \in Task /\ Head(w) \in k /\ Head(w) \notin Queued(q)
<1>1. w \in Seq(Task) /\ IsInjective(w) /\ Range(w) = k /\ k \cap Queued(q) = {}
  BY DEF Waiters
<1>2. PICK v, t : v = Tail(w) /\ t = Head(w)
  OBVIOUS
<1>3. /\ v \in Seq(Task) /\ t \in Task /\ Len(w) \in Nat /\ Len(w) >= 1
      /\ DOMAIN w = 1..Len(w) /\ DOMAIN v = 1..(Len(w) - 1)
      /\ t = w[1] /\ \A i \in 1..(Len(w) - 1) : v[i] = w[i + 1]
  BY <1>1, <1>2
<1>4. \A i \in DOMAIN v : i + 1 \in DOMAIN w /\ i + 1 # 1 /\ v[i] = w[i + 1]
  BY <1>3
<1>5. \A j \in DOMAIN w : j = 1 \/ \E i \in DOMAIN v : v[i] = w[j]
  <2> SUFFICES ASSUME NEW j \in DOMAIN w, j # 1 PROVE \E i \in DOMAIN v : v[i] = w[j]
    OBVIOUS
  <2>1. j - 1 \in DOMAIN v /\ (j - 1) + 1 = j BY <1>3
  <2> QED BY <2>1, <1>4
<1>6. 1 \in DOMAIN w
  BY <1>3
<1>7. IsInjective(v)
  <2> SUFFICES ASSUME NEW i \in DOMAIN v, NEW j \in DOMAIN v, v[i] = v[j] PROVE i = j
    BY DEF IsInjective
  <2>1. i + 1 = j + 1 BY <1>1, <1>4 DEF IsInjective
  <2> QED BY <2>1, <1>3
<1>8. Range(v) = Range(w) \ {t}
  <2>1. ASSUME NEW i \in DOMAIN v PROVE v[i] \in Range(w) \ {t}
    <3>1. v[i] # w[1] BY <1>1, <1>4, <1>6 DEF IsInjective
    <3> QED BY <3>1, <1>3, <1>4 DEF Range
  <2>2. ASSUME NEW j \in DOMAIN w, w[j] # t PROVE w[j] \in Range(v)
    BY <2>2, <1>3, <1>5 DEF Range
  <2> QED BY <2>1, <2>2 DEF Range
<1>9. t \in Range(w)
  BY <1>3, <1>6 DEF Range
<1> QED BY <1>1, <1>2, <1>3, <1>7, <1>8, <1>9 DEF Waiters

LEMMA InitRInv ==
  Init => RInv
<1> SUFFICES ASSUME Init PROVE RInv
  OBVIOUS
<1> USE DEF Init
<1>1. \A p \in Pri : que[p] = <<>> /\ Range(que[p]) = {}
  BY DEF Range
<1>2. Queued(que) = {}
  BY <1>1 DEF Queued
<1>3. \A n \in Core : top[n] = NoTask
  OBVIOUS
<1>4. IsTop(Queued(que), Ord(que, priority), top)
  BY <1>2, <1>3 DEF IsTop
<1>5. Queues(que, priority)
  <2>1. que \in [Pri -> Seq(Task)] OBVIOUS
  <2>2. \A p \in Pri : IsInjective(que[p]) BY DEF IsInjective
  <2> QED BY <2>1, <2>2, <1>1 DEF Queues
<1>6. top \in Array /\ bitmap \in SUBSET Pri /\ bitmap = {p \in Pri : que[p] # <<>>}
  BY DEF Array
<1>7. Good(rq, priority)
  <2>1. Good(RdyQue(que, bitmap, top), priority)
    <3>1. que \in [Pri -> Seq(Task)] OBVIOUS
    <3> QED BY <3>1, <1>4, <1>5, <1>6, GoodParts
  <2> QED BY <2>1 DEF RdyQue, rq
<1>8. wtskq \in Seq(Task) /\ LockWaitersApart
  BY DEF LockWaitersApart, IsInjective, Range
<1>9. ScheduleCurrent
  <2>1. Range(top) \ {NoTask} = {} BY DEF Range
  <2> QED BY <2>1 DEF ScheduleCurrent, ready_queue_top, rq
<1> QED BY <1>7, <1>8, <1>9 DEF RInv
(* What an action has to show: the record it installs is good, the waiters *)
(* stay apart from its queues, and the schedule follows.                   *)
LEMMA Installed ==
  ASSUME NEW r, Good(r, priority'), Become(r), priority' \in [Task -> Pri],
         Waiters(wtskq', klockwait', r.que),
         ~chg' => schedtsk' = ready_queue_top(r),
         schedtsk' \subseteq Queued(r.que),
         displaced' \subseteq Queued(r.que) \ Range(r.top)
  PROVE  RInv'
<1>1. r \in Record
  BY DEF Good
<1>2. rq' = r /\ que' = r.que /\ top' = r.top
  BY <1>1, Becomes
<1>3. wtskq' \in Seq(Task) /\ LockWaitersApart'
  <2>1. wtskq' \in Seq(Task) BY DEF Waiters
  <2> QED BY <2>1, <1>2, WaitersNext
<1>4. ScheduleCurrent'
  BY <1>2 DEF ScheduleCurrent
<1> QED BY <1>2, <1>3, <1>4 DEF RInv

(* The parts of the invariant, of the record that the queue is now. *)
LEMMA PartsNow ==
  ASSUME RInv
  PROVE  /\ priority \in [Task -> Pri]
         /\ Good(rq, priority)
         /\ Waiters(wtskq, klockwait, rq.que)
         /\ (~chg => schedtsk = ready_queue_top(rq))
         /\ schedtsk \subseteq Queued(rq.que)
         /\ displaced \subseteq Queued(rq.que) \ Range(rq.top)
         /\ \A t \in Task : InReadyQueue(t) <=> t \in Queued(rq.que)
         /\ Become(rq) <=> UNCHANGED <<que, bitmap, top>>
<1>1. rq.que = que /\ rq.top = top /\ rq.bitmap = bitmap
  BY DEF rq
<1> QED BY <1>1, WaitersNow, InReady DEF RInv, ScheduleCurrent, Become

LEMMA NextRInv ==
  ASSUME RInv, [Next]_vars
  PROVE  RInv'
<1>0. PICK r : r = rq
  OBVIOUS
<1>1. /\ priority \in [Task -> Pri] /\ Good(r, priority) /\ Waiters(wtskq, klockwait, r.que)
      /\ (~chg => schedtsk = ready_queue_top(r))
      /\ schedtsk \subseteq Queued(r.que)
      /\ displaced \subseteq Queued(r.que) \ Range(r.top)
      /\ \A t \in Task : InReadyQueue(t) <=> t \in Queued(r.que)
      /\ Become(r) <=> UNCHANGED <<que, bitmap, top>>
  BY <1>0, PartsNow
<1>2. \A x \in ready_queue_top(r) : x \in Queued(r.que)
  BY <1>1, TopQueued
<1>3. ASSUME NEW t \in Task, make_ready(t) PROVE RInv'
  <2>0. PICK i, pri : i = Inserted(r, t, pri) /\ pri = priority
    OBVIOUS
  <2>1. /\ displaced = {} /\ t \notin Queued(r.que) /\ t \notin klockwait
        /\ Become(i) /\ chg' = TRUE
        /\ UNCHANGED <<priority, wtskq, klockwait, schedtsk, displaced>>
    BY <1>0, <1>1, <1>3, <2>0 DEF make_ready
  <2>2. Good(i, pri) /\ HasJoined(t, r.que, i.que)
    BY <1>1, <2>0, <2>1, InsertedIsGood
  <2>3. Waiters(wtskq', klockwait', i.que)
    BY <1>1, <2>1, <2>2 DEF Waiters, HasJoined
  <2>4. schedtsk' \subseteq Queued(i.que) /\ displaced' = {}
    BY <1>1, <2>1, <2>2 DEF HasJoined
  <2> QED BY <1>1, <2>0, <2>1, <2>2, <2>3, <2>4, Installed
<1>4. ASSUME NEW t \in Task, make_non_ready(t) PROVE RInv'
  <2>1. CASE LeaveLock(t) /\ UNCHANGED <<que, bitmap, top, chg, schedtsk>>
    <3>1. /\ displaced' = {} /\ priority' = priority /\ Become(r) /\ chg' = chg /\ schedtsk' = schedtsk
      BY <1>1, <1>4, <2>1 DEF make_non_ready
    <3>2. Waiters(wtskq', klockwait', r.que)
      <4>1. t \in klockwait /\ wtskq' = Without(wtskq, t) /\ klockwait' = klockwait \ {t}
        BY <2>1 DEF LeaveLock
      <4> QED BY <4>1, <1>1, WaiterLeaves
    <3> QED BY <1>1, <3>1, <3>2, Installed
  <2>2. CASE InReadyQueue(t) /\ ~(LeaveLock(t) /\ UNCHANGED <<que, bitmap, top, chg, schedtsk>>)
    <3>0. PICK d, pri : d = Deleted(r, t, pri) /\ pri = priority
      OBVIOUS
    <3>1. /\ t \in Queued(r.que) /\ Become(d)
          /\ IF t \in schedtsk THEN schedtsk' = ready_queue_top(d) /\ chg' = FALSE
                               ELSE schedtsk' = schedtsk /\ chg' = TRUE
          /\ UNCHANGED <<wtskq, klockwait, priority>> /\ displaced' = {}
      BY <1>0, <1>1, <1>4, <2>2, <3>0 DEF make_non_ready
    <3>2. Good(d, pri) /\ HasLeft(t, r.que, d.que)
      BY <1>1, <3>0, <3>1, DeletedIsGood
    <3>3. Waiters(wtskq', klockwait', d.que)
      BY <1>1, <3>1, <3>2 DEF Waiters, HasLeft
    <3>4. schedtsk' \subseteq Queued(d.que)
      <4>1. CASE t \in schedtsk BY <4>1, <3>1, <3>2, TopQueued
      <4>2. CASE t \notin schedtsk BY <4>2, <3>1, <3>2, <1>1 DEF HasLeft
      <4> QED BY <4>1, <4>2
    <3>5. ~chg' => schedtsk' = ready_queue_top(d)
      BY <3>1
    <3> QED BY <1>1, <3>0, <3>1, <3>2, <3>3, <3>4, <3>5, Installed
  <2> QED BY <2>1, <2>2, <1>4 DEF make_non_ready
<1>5. ASSUME NEW t \in Task, NEW p \in Pri, change_task_priority(t, p) PROVE RInv'
  <2>0. PICK pri, new : pri = priority /\ new = [pri EXCEPT ![t] = p]
    OBVIOUS
  <2>1. /\ priority' = new /\ displaced' = {} /\ schedtsk' = schedtsk
        /\ pri \in [Task -> Pri] /\ new \in [Task -> Pri]
        /\ \A x \in Task : x # t => new[x] = pri[x]
    BY <1>1, <1>5, <2>0 DEF change_task_priority
  <2>2. \A x \in Queued(r.que) : x \in Task
    BY DEF Queued
  <2>3. CASE LeaveLock(t) /\ Become(Inserted(rq, t, priority')) /\ chg' = TRUE
    <3>1. t \in klockwait /\ wtskq' = Without(wtskq, t) /\ klockwait' = klockwait \ {t}
      BY <2>3 DEF LeaveLock
    <3>2. Waiters(wtskq', klockwait', r.que) /\ t \notin Queued(r.que)
      BY <1>1, <3>1, WaiterLeaves
    <3>3. Good(r, new) BY <1>1, <2>0, <2>1, <2>2, <3>2, PriorityIsGood
    <3>4. PICK i : i = Inserted(r, t, new) OBVIOUS
    <3>5. Become(i) BY <1>0, <2>1, <2>3, <3>4
    <3>6. Good(i, new) /\ HasJoined(t, r.que, i.que)
      BY <2>1, <3>2, <3>3, <3>4, InsertedIsGood
    <3>7. Waiters(wtskq', klockwait', i.que)
      BY <3>1, <3>2, <3>6 DEF Waiters, HasJoined
    <3>8. schedtsk' \subseteq Queued(i.que) BY <1>1, <2>1, <3>6 DEF HasJoined
    <3> QED BY <2>1, <2>3, <3>5, <3>6, <3>7, <3>8, Installed
  <2>4. CASE /\ InReadyQueue(t) /\ chg' = TRUE /\ UNCHANGED <<wtskq, klockwait>>
             /\ Become(Inserted(Deleted(rq, t, priority), t, priority'))
    <3>0. PICK d, i : d = Deleted(r, t, pri) /\ i = Inserted(d, t, new)
      OBVIOUS
    <3>1. t \in Queued(r.que) BY <1>1, <2>4
    <3>2. Good(d, pri) /\ HasLeft(t, r.que, d.que)
      BY <1>1, <2>0, <3>0, <3>1, DeletedIsGood
    <3>3. t \notin Queued(d.que) /\ \A x \in Queued(d.que) : new[x] = pri[x]
      BY <3>2, <2>1, <2>2 DEF HasLeft
    <3>4. Good(d, new) BY <2>1, <3>2, <3>3, PriorityIsGood
    <3>5. Good(i, new) /\ HasJoined(t, d.que, i.que)
      BY <2>1, <3>0, <3>3, <3>4, InsertedIsGood
    <3>6. Queued(i.que) = Queued(r.que) BY <3>1, <3>2, <3>5 DEF HasLeft, HasJoined
    <3>7. Become(i) BY <1>0, <2>0, <2>1, <2>4, <3>0
    <3>8. Waiters(wtskq', klockwait', i.que) BY <1>1, <2>4, <3>6 DEF Waiters
    <3>9. schedtsk' \subseteq Queued(i.que) BY <1>1, <2>1, <3>6
    <3> QED BY <2>1, <2>4, <3>5, <3>7, <3>8, <3>9, Installed
  <2>5. CASE ~InReadyQueue(t) /\ UNCHANGED <<que, bitmap, top, chg, wtskq, klockwait>>
    <3>1. t \notin Queued(r.que) BY <1>1, <2>5
    <3>2. Good(r, new) BY <1>1, <2>0, <2>1, <2>2, <3>1, PriorityIsGood
    <3>3. Become(r) /\ Waiters(wtskq', klockwait', r.que) /\ chg' = chg
      BY <1>1, <2>5
    <3> QED BY <1>1, <2>1, <3>2, <3>3, Installed
  <2> QED BY <2>3, <2>4, <2>5, <1>5 DEF change_task_priority
<1>6. ASSUME NEW p \in Pri, rotate_ready_queue(p) PROVE RInv'
  <2>0. PICK t, m, pri : t = r.que[p][1] /\ m = MovedLast(r, t, pri) /\ pri = priority
    OBVIOUS
  <2>1. /\ r.que[p] # <<>> /\ Become(m) /\ displaced' = {}
        /\ chg' = (chg \/ Len(r.que[p]) > 1)
        /\ UNCHANGED <<priority, wtskq, klockwait, schedtsk>>
    <3>1. r.que = que BY <1>0 DEF rq
    <3> QED BY <1>0, <1>6, <2>0, <3>1 DEF rotate_ready_queue
  <2>2. Queues(r.que, pri) BY <1>1, <2>0 DEF Good
  <2>3. r.que[p] \in Seq(Task) BY <2>2 DEF Queues
  <2>4. t \in Range(r.que[p]) BY <2>0, <2>1, <2>3 DEF Range
  <2>5. t \in Queued(r.que) /\ pri[t] = p BY <2>2, <2>4, QueueElements
  <2>6. Good(m, pri) /\ Queued(m.que) = Queued(r.que)
    BY <1>1, <2>0, <2>5, MovedLastIsGood
  <2>7. Waiters(wtskq', klockwait', m.que) BY <1>1, <2>1, <2>6 DEF Waiters
  <2>8. ~chg' => schedtsk' = ready_queue_top(m)
    <3> SUFFICES ASSUME ~chg' PROVE schedtsk' = ready_queue_top(m)
      OBVIOUS
    <3>1. ~chg /\ ~(Len(r.que[p]) > 1) BY <2>1
    <3>2. Len(r.que[p]) = 1
      <4>1. PICK e : e = r.que[p] OBVIOUS
      <4>2. e \in Seq(Task) /\ e # <<>> /\ ~(Len(e) > 1) BY <3>1, <4>1, <2>1, <2>3
      <4>3. Len(e) \in Nat /\ Len(e) >= 1
        <5>1. e \in Seq(Task) /\ e # <<>> BY <4>2
        <5> QED BY <5>1
      <4>4. Len(e) = 1
        <5>1. PICK n : n = Len(e) OBVIOUS
        <5>2. n \in Nat /\ n >= 1 /\ ~(n > 1) BY <4>2, <4>3, <5>1
        <5>3. n = 1 BY <5>2
        <5> QED BY <5>1, <5>3
      <4> QED BY <4>1, <4>4
    <3>3. m = r BY <3>2, <2>0, <2>5 DEF MovedLast
    <3> QED BY <3>1, <3>3, <1>1, <2>1
  <2>9. schedtsk' \subseteq Queued(m.que) BY <1>1, <2>1, <2>6
  <2> QED BY <1>1, <2>0, <2>1, <2>6, <2>7, <2>8, <2>9, Installed
<1>7. ASSUME NEW t \in Task, move_last(t) PROVE RInv'
  <2>0. PICK m, pri : m = MovedLast(r, t, pri) /\ pri = priority
    OBVIOUS
  <2>1. /\ t \in Queued(r.que) /\ Become(m) /\ schedtsk' = ready_queue_top(m)
        /\ displaced' \in {{}, schedtsk \ schedtsk'}
        /\ UNCHANGED <<priority, wtskq, klockwait>>
    BY <1>0, <1>1, <1>7, <2>0 DEF move_last
  <2>2. Good(m, pri) /\ Queued(m.que) = Queued(r.que)
    BY <1>1, <2>0, <2>1, MovedLastIsGood
  <2>3. Waiters(wtskq', klockwait', m.que) BY <1>1, <2>1, <2>2 DEF Waiters
  <2>4. schedtsk' \subseteq Queued(m.que) BY <2>1, <2>2, TopQueued
  <2>5. displaced' \subseteq Queued(m.que) \ Range(m.top)
    <3>1. \A x \in schedtsk : x \in Queued(m.que) /\ x # NoTask
      BY <1>1, <2>2, ConstAssumption DEF Queued
    <3>2. schedtsk' = Range(m.top) \ {NoTask} BY <2>1 DEF ready_queue_top
    <3> QED BY <2>1, <3>1, <3>2
  <2> QED BY <1>1, <2>0, <2>1, <2>2, <2>3, <2>4, <2>5, Installed
<1>8. ASSUME NEW t \in Task, LockSVC_wait(t) PROVE RInv'
  <2>0. PICK d, pri : d = Deleted(r, t, pri) /\ pri = priority
    OBVIOUS
  <2>1. /\ t \in Queued(r.que) /\ Become(d) /\ schedtsk' = ready_queue_top(d)
        /\ wtskq' = Append(wtskq, t) /\ klockwait' = klockwait \cup {t}
        /\ priority' = priority /\ displaced' = {}
    BY <1>0, <1>1, <1>8, <2>0 DEF LockSVC_wait
  <2>2. Good(d, pri) /\ HasLeft(t, r.que, d.que)
    BY <1>1, <2>0, <2>1, DeletedIsGood
  <2>3. Waiters(wtskq', klockwait', d.que)
    <3>1. /\ wtskq \in Seq(Task) /\ IsInjective(wtskq) /\ Range(wtskq) = klockwait
          /\ klockwait \cap Queued(r.que) = {}
      BY <1>1 DEF Waiters
    <3>2. t \notin Range(wtskq) BY <3>1, <2>1
    <3>3. /\ wtskq' \in Seq(Task) /\ IsInjective(wtskq') /\ Range(wtskq') = klockwait'
      BY <3>1, <3>2, <2>1, AppendLemma
    <3>4. klockwait' \cap Queued(d.que) = {} BY <3>1, <2>1, <2>2 DEF HasLeft
    <3> QED BY <3>3, <3>4 DEF Waiters
  <2>4. schedtsk' \subseteq Queued(d.que) BY <2>1, <2>2, TopQueued
  <2> QED BY <1>1, <2>0, <2>1, <2>2, <2>3, <2>4, Installed
<1>9. ASSUME NEW t \in Task, time_slice_schedule(t) PROVE RInv'
  <2>1. /\ t \in displaced /\ displaced' = displaced \ {t}
        /\ UNCHANGED <<chg, priority, wtskq, klockwait, schedtsk>>
    BY <1>9 DEF time_slice_schedule
  <2>2. t \in Queued(r.que) /\ t \notin Range(r.top)
    BY <1>1, <2>1
  <2>3. CASE Become(rq)
    BY <1>0, <1>1, <2>1, <2>3, Installed
  <2>4. CASE Become(MovedLast(rq, t, priority))
    <3>0. PICK m, pri : m = MovedLast(r, t, pri) /\ pri = priority
      OBVIOUS
    <3>1. Become(m) BY <1>0, <2>4, <3>0
    <3>2. Good(m, pri) /\ Queued(m.que) = Queued(r.que) /\ m.top = r.top
      BY <1>1, <2>2, <3>0, MovedLastIsGood
    <3>3. Waiters(wtskq', klockwait', m.que) BY <1>1, <2>1, <3>2 DEF Waiters
    <3>4. ~chg' => schedtsk' = ready_queue_top(m)
      BY <1>1, <2>1, <3>2 DEF ready_queue_top
    <3>5. /\ schedtsk' \subseteq Queued(m.que)
          /\ displaced' \subseteq Queued(m.que) \ Range(m.top)
      BY <1>1, <2>1, <3>2
    <3> QED BY <1>1, <2>1, <3>0, <3>1, <3>2, <3>3, <3>4, <3>5, Installed
  <2> QED BY <1>9, <2>3, <2>4 DEF time_slice_schedule
<1>10. ASSUME UnlockSVC_wake PROVE RInv'
  <2>0. PICK t, i, pri : t = Head(wtskq) /\ i = Inserted(r, t, pri) /\ pri = priority
    OBVIOUS
  <2>1. /\ wtskq # <<>> /\ Become(i) /\ schedtsk' = ready_queue_top(i)
        /\ klockwait' = klockwait \ {t} /\ wtskq' = Tail(wtskq)
        /\ priority' = priority /\ displaced' = {}
    BY <1>0, <1>10, <2>0 DEF UnlockSVC_wake
  <2>2. /\ Waiters(wtskq', klockwait', r.que)
        /\ t \in Task /\ t \in klockwait /\ t \notin Queued(r.que)
    BY <1>1, <2>0, <2>1, HeadLeaves
  <2>3. Good(i, pri) /\ HasJoined(t, r.que, i.que)
    BY <1>1, <2>0, <2>2, InsertedIsGood
  <2>4. Waiters(wtskq', klockwait', i.que)
    BY <2>1, <2>2, <2>3 DEF Waiters, HasJoined
  <2>5. schedtsk' \subseteq Queued(i.que) BY <2>1, <2>3, TopQueued
  <2> QED BY <1>1, <2>0, <2>1, <2>3, <2>4, <2>5, Installed
<1>11. ASSUME UnlockOBJ_wake PROVE RInv'
  <2>0. PICK t, pri, w, i :
          /\ t = Head(wtskq) /\ pri = priority /\ w = [r.que EXCEPT ![pri[t]] = <<t>> \o @]
          /\ i = RdyQue(w, r.bitmap \cup {pri[t]}, update_top_when_insert_top(r.top, t, pri))
    OBVIOUS
  <2>1. /\ wtskq # <<>> /\ Become(i) /\ schedtsk' = ready_queue_top(i)
        /\ klockwait' = klockwait \ {t} /\ wtskq' = Tail(wtskq)
        /\ priority' = priority /\ displaced' = {}
    <3>1. r.que = que /\ r.bitmap = bitmap /\ r.top = top BY <1>0 DEF rq
    <3>2. i = [que |-> [que EXCEPT ![priority[t]] = <<t>> \o @],
               bitmap |-> bitmap \cup {priority[t]},
               top |-> update_top_when_insert_top(top, t, priority)]
      BY <2>0, <3>1 DEF RdyQue
    <3> QED BY <1>11, <2>0, <3>2 DEF UnlockOBJ_wake
  <2>2. /\ Waiters(wtskq', klockwait', r.que)
        /\ t \in Task /\ t \in klockwait /\ t \notin Queued(r.que)
    BY <1>1, <2>0, <2>1, HeadLeaves
  <2>3. Good(i, pri) /\ HasJoined(t, r.que, i.que)
    <3>1. HasJoined(t, r.que, w) /\ Good(i, pri)
      BY <1>1, <2>0, <2>2, InsertedTopIsGood
    <3>2. i.que = w BY <2>0 DEF RdyQue
    <3> QED BY <3>1, <3>2
  <2>4. Waiters(wtskq', klockwait', i.que)
    BY <2>1, <2>2, <2>3 DEF Waiters, HasJoined
  <2>5. schedtsk' \subseteq Queued(i.que) BY <2>1, <2>3, TopQueued
  <2> QED BY <1>1, <2>0, <2>1, <2>3, <2>4, <2>5, Installed
<1>12. ASSUME update_schedtsk PROVE RInv'
  <2>1. /\ schedtsk' = ready_queue_top(r) /\ displaced' = schedtsk \ schedtsk'
        /\ UNCHANGED <<priority, wtskq, klockwait>> /\ Become(r)
    BY <1>0, <1>1, <1>12 DEF update_schedtsk
  <2>2. schedtsk' \subseteq Queued(r.que) BY <2>1, <1>2
  <2>3. displaced' \subseteq Queued(r.que) \ Range(r.top)
    <3>1. \A x \in schedtsk : x \in Queued(r.que) /\ x # NoTask
      BY <1>1, ConstAssumption DEF Queued
    <3>2. schedtsk' = Range(r.top) \ {NoTask} BY <2>1 DEF ready_queue_top
    <3> QED BY <2>1, <3>1, <3>2
  <2> QED BY <1>1, <2>1, <2>2, <2>3, Installed
<1>13. CASE UNCHANGED vars
  <2>1. /\ Become(r)
        /\ UNCHANGED <<priority, wtskq, klockwait, chg, schedtsk, displaced>>
    BY <1>1, <1>13 DEF vars
  <2> QED BY <1>1, <2>1, Installed
<1> QED BY <1>3, <1>4, <1>5, <1>6, <1>7, <1>8, <1>9, <1>10, <1>11, <1>12, <1>13 DEF Next

(* The invariant holds in every reachable state. *)
THEOREM QueueInvariance == Spec => []RInv
<1>1. RInv /\ [Next]_vars => RInv'
  BY NextRInv
<1> QED BY InitRInv, <1>1, PTL DEF Spec

(* top[] holds the first num_proc tasks in ready order, whatever sequence  *)
(* of insertions, removals, priority changes and rotations has updated it. *)
THEOREM TopExact == Spec => []TopIsPrefix
<1>1. RInv => TopIsPrefix
  <2> SUFFICES ASSUME RInv PROVE TopIsPrefix
    OBVIOUS
  <2>1. IsTop(Queued(que), Ord(que, priority), top) /\ top \in Array
    BY DEF RInv, Good, rq, Record
  <2>2. \A x, y \in Task : <<x, y>> \in Ord(que, priority) <=> Before(que, priority, x, y)
    BY DEF Ord
  <2>3. \A n \in Core : top[n] # NoTask => top[n] \in Task
    BY <2>1 DEF Array
  <2> QED BY <2>1, <2>2, <2>3, InReady DEF TopIsPrefix, IsTop
<1> QED BY QueueInvariance, <1>1, PTL

(* The bitmap shows the queues in use, and a READY task is in the queue of *)
(* its current priority, once.                                             *)
THEOREM BitmapExact == Spec => []QueuesExact
<1>1. RInv => QueuesExact
  BY DEF RInv, Good, rq, Queues, QueuesExact
<1> QED BY QueueInvariance, <1>1, PTL

(* A task that waits for the extended SVC lock is in that lock's queue and *)
(* never in the ready queue as well.                                       *)
THEOREM OneQueueLink == Spec => []LockWaitersApart
<1>1. RInv => LockWaitersApart
  BY DEF RInv
<1> QED BY QueueInvariance, <1>1, PTL

(* While rq->chg is clear, schedtsk[] is what ready_queue_top chooses.     *)
THEOREM ScheduleFollows == Spec => []ScheduleCurrent
<1>1. RInv => ScheduleCurrent
  BY DEF RInv
<1> QED BY QueueInvariance, <1>1, PTL

=============================================================================
