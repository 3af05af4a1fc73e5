---------------------------- MODULE DeviceProofs ----------------------------
(***************************************************************************)
(* Device management, for every number of tasks, devices and control       *)
(* blocks.  In every state: while a block is opened or closed one task has *)
(* it (BlocksSound), the queues hold the requests that are not free        *)
(* (QueuesSound) and the driver was told what it has to know but for what  *)
(* it is being told (DriversSound).  While a close sees the requests in the*)
(* driver, see unseen: a request says who has it there (RequestsSound), and*)
(* abort_cnt is the number of tasks in the driver (AbortsSound).           *)
(*                                                                         *)
(* A step is taken apart by what it does to the blocks: nothing            *)
(* (KeepsBlock), one is opened or closed (Mine, MovesBlock), or requests   *)
(* enter and leave (Enters, Leaves).                                       *)
(***************************************************************************)
EXTENDS Device, FiniteSetTheorems, SequenceTheorems, TLAPS

LEMMA OneMoves ==
  ASSUME NEW S, IsFiniteSet(S), NEW T, NEW x, T \ {x} = S \ {x}
  PROVE  Cardinality(T) = Cardinality(S) + (IF x \in T THEN 1 ELSE 0)
                                         - (IF x \in S THEN 1 ELSE 0)
<1>1. Cardinality(S) \in Nat
  BY FS_CardinalityType
<1>2. CASE x \in T /\ x \notin S
  <2>1. T = S \cup {x}
    BY <1>2
  <2> QED BY <1>1, <1>2, <2>1, FS_AddElement
<1>3. CASE x \notin T /\ x \in S
  <2>1. T = S \ {x}
    BY <1>3
  <2> QED BY <1>1, <1>3, <2>1, FS_RemoveElement
<1>4. CASE x \in T <=> x \in S
  <2>1. T = S
    BY <1>4
  <2> QED BY <1>1, <1>4, <2>1
<1> QED BY <1>2, <1>3, <1>4

(* An element leaves a queue.                                              *)
LEMMA FirstRemoved ==
  ASSUME NEW S, NEW q \in Seq(S), NEW x, IsInjective(q)
  PROVE  /\ RemoveFirst(q, x) \in Seq(S) /\ IsInjective(RemoveFirst(q, x))
         /\ ToSet(RemoveFirst(q, x)) = ToSet(q) \ {x}
<1> DEFINE r == RemoveFirst(q, x)
           Is(v) == v = x
<1>0. Len(q) \in Nat /\ DOMAIN q = 1..Len(q)
  OBVIOUS
<1>1. CASE x \notin ToSet(q)
  <2>1. r = q
    BY <1>0, <1>1 DEF RemoveFirst, ToSet
  <2> QED BY <1>1, <2>1
<1>2. CASE x \in ToSet(q)
  <2>1. PICK p \in 1..Len(q) : q[p] = x
    BY <1>0, <1>2 DEF ToSet
  <2>2. {i \in 1..Len(q) : q[i] = x} = {p}
    BY <1>0, <2>1 DEF IsInjective
  <2>3. Min({p}) = p
    <3>1. \A y \in {p} : p <= y
      BY <2>1
    <3> QED BY <3>1 DEF Min
  <2>4. SelectInSeq(q, LAMBDA v : v = x) = p
    BY <2>2, <2>3 DEF SelectInSeq
  <2>5. r = SubSeq(q, 1, p - 1) \o SubSeq(q, p + 1, Len(q))
    <3>1. \E i \in 1..Len(q) : q[i] = x
      BY <2>1
    <3> QED BY <2>4, <3>1 DEF RemoveFirst, RemoveAt
  <2> HIDE DEF r
  <2>6. /\ r \in Seq(S) /\ Len(r) = Len(q) - 1
        /\ \A i \in 1..Len(q) - 1 : r[i] = IF i < p THEN q[i] ELSE q[i + 1]
    <3> DEFINE a == SubSeq(q, 1, p - 1)
               b == SubSeq(q, p + 1, Len(q))
    <3>1. a \in Seq(S) /\ Len(a) = p - 1 /\ \A i \in 1..p - 1 : a[i] = q[i]
      BY <1>0, <2>1
    <3>2. b \in Seq(S) /\ Len(b) = Len(q) - p /\ \A i \in 1..Len(q) - p : b[i] = q[p + i]
      <4> DEFINE m == p + 1
                 n == Len(q)
      <4>1. m \in Int /\ n \in Int /\ \A i \in m..n : q[i] \in S
        BY <1>0, <2>1
      <4>2. /\ b \in Seq(S)
            /\ Len(b) = IF m <= n THEN n - m + 1 ELSE 0
            /\ \A i \in 1..n - m + 1 : b[i] = q[m + i - 1]
        <5> HIDE DEF m, n
        <5>1. /\ SubSeq(q, m, n) \in Seq(S)
              /\ Len(SubSeq(q, m, n)) = IF m <= n THEN n - m + 1 ELSE 0
              /\ \A i \in 1..n - m + 1 : SubSeq(q, m, n)[i] = q[m + i - 1]
          BY <4>1, SubSeqProperties
        <5> QED BY <5>1 DEF m, n
      <4>3. \A i \in 1..Len(q) - p : i \in 1..n - m + 1 /\ m + i - 1 = p + i
        BY <1>0, <2>1
      <4>4. Len(b) = Len(q) - p
        <5> HIDE DEF b
        <5>1. CASE p = Len(q)
          BY <1>0, <2>1, <4>2, <5>1
        <5>2. CASE p < Len(q)
          <6>1. m <= n /\ n - m + 1 = Len(q) - p
            BY <1>0, <2>1, <5>2
          <6> QED BY <4>2, <6>1
        <5>3. p = Len(q) \/ p < Len(q)
          <6>1. Len(q) \in Nat /\ p \in 1..Len(q)
            OBVIOUS
          <6> DEFINE k == Len(q)
          <6> HIDE DEF k
          <6>2. k \in Nat /\ p \in 1..k
            BY <6>1 DEF k
          <6>3. p = k \/ p < k
            BY <6>2
          <6> QED BY <6>3 DEF k
        <5> QED BY <5>1, <5>2, <5>3
      <4> QED BY <4>2, <4>3, <4>4
    <3> HIDE DEF a, b
    <3>3. r \in Seq(S) /\ Len(r) = Len(q) - 1
      <4>1. r = a \o b
        BY <2>5 DEF a, b
      <4>2. a \o b \in Seq(S) /\ Len(a \o b) = Len(a) + Len(b)
        BY <3>1, <3>2, ConcatProperties
      <4> QED BY <1>0, <2>1, <3>1, <3>2, <4>1, <4>2
    <3>4. ASSUME NEW i \in 1..Len(q) - 1 PROVE r[i] = IF i < p THEN q[i] ELSE q[i + 1]
      <4>1. r = a \o b
        BY <2>5 DEF a, b
      <4>2. CASE i < p
        <5>1. i \in 1..p - 1
          BY <1>0, <4>2
        <5>2. (a \o b)[i] = a[i]
          BY <3>1, <3>2, <4>2, <5>1
        <5> QED BY <3>1, <4>1, <4>2, <5>1, <5>2
      <4>3. CASE ~(i < p)
        <5> DEFINE k == i - (p - 1)
        <5>1. k \in 1..Len(q) - p /\ p + k = i + 1 /\ i = Len(a) + k
          BY <1>0, <2>1, <3>1, <4>3
        <5>2. (a \o b)[i] = b[k]
          BY <1>0, <2>1, <3>1, <3>2, <4>3
        <5> QED BY <3>2, <4>1, <4>3, <5>1, <5>2
      <4> QED BY <4>2, <4>3
    <3> QED BY <3>3, <3>4
  <2>7. DOMAIN r = 1..Len(q) - 1
    BY <2>6
  <2>8. ASSUME NEW i \in 1..Len(q), i # p PROVE q[i] \in ToSet(r)
    <3>1. CASE i < p
      BY <1>0, <2>1, <2>6, <2>7, <3>1 DEF ToSet
    <3>2. CASE i > p
      <4>1. i - 1 \in 1..Len(q) - 1 /\ ~(i - 1 < p) /\ (i - 1) + 1 = i
        BY <1>0, <2>1, <3>2
      <4>2. r[i - 1] = q[i]
        BY <2>6, <4>1
      <4> QED BY <2>7, <4>1, <4>2 DEF ToSet
    <3> QED BY <2>8, <1>0, <2>1, <3>1, <3>2
  <2>9. ASSUME NEW i \in 1..Len(q) - 1 PROVE \E k \in 1..Len(q) : k # p /\ r[i] = q[k] /\ k = (IF i < p THEN i ELSE i + 1)
    BY <1>0, <2>1, <2>6
  <2>10. ToSet(r) = ToSet(q) \ {x}
    <3>1. \A i \in 1..Len(q) : q[i] = x <=> i = p
      BY <2>2
    <3>2. ToSet(r) \subseteq ToSet(q) \ {x}
      BY <1>0, <2>7, <2>9, <3>1 DEF ToSet
    <3>3. ToSet(q) \ {x} \subseteq ToSet(r)
      <4>1. ASSUME NEW y \in ToSet(q), y # x PROVE y \in ToSet(r)
        <5>1. PICK i \in 1..Len(q) : y = q[i]
          BY <1>0 DEF ToSet
        <5> QED BY <2>1, <2>8, <4>1, <5>1
      <4> QED BY <4>1
    <3> QED BY <3>2, <3>3
  <2>11. IsInjective(r)
    <3>1. ASSUME NEW i \in 1..Len(q) - 1, NEW j \in 1..Len(q) - 1, r[i] = r[j] PROVE i = j
      <4>1. PICK k \in 1..Len(q) : r[i] = q[k] /\ k = (IF i < p THEN i ELSE i + 1)
        BY <2>9
      <4>2. PICK l \in 1..Len(q) : r[j] = q[l] /\ l = (IF j < p THEN j ELSE j + 1)
        BY <2>9
      <4>3. k = l
        BY <1>0, <3>1, <4>1, <4>2 DEF IsInjective
      <4> QED BY <1>0, <2>1, <4>1, <4>2, <4>3
    <3> QED BY <2>7, <3>1 DEF IsInjective
  <2> QED BY <2>6, <2>10, <2>11 DEF r
<1> QED BY <1>1, <1>2

-----------------------------------------------------------------------------
(* The invariant.  A task that opens or closes has the block it is about,  *)
(* and nobody else has.                                                    *)
Holding == {"OPENFN"} \cup Closing
Suspending == {"EVENTS", "SUSPENDED", "RESUMED"}
Stages == [at : {"IDLE", "CLEAN", "SUSPEND"} \cup Holding \cup InFn \cup Suspending,
           opn : Opn \cup {NULL}, reqs : SUBSET Req, fn : 0..1, clean : Groups \cup {NULL}]

DevTypeOK ==
  /\ devcb \in [Dev -> Ddevs \cup {NODEV}]
  /\ opncb \in [Opn -> OpnCB \cup {NODEV}] /\ reqcb \in [Req -> ReqCB \cup {NODEV}]
  /\ stage \in [Tsk -> Stages] /\ drv \in [Unit -> Int]

Has(t, o) == stage[t].at \in Holding /\ stage[t].opn = o
Owner(t) == IF stage[t].clean = NULL THEN Resid[t] ELSE stage[t].clean

BlocksSound ==
  /\ \A t \in Tsk : stage[t].at \in Holding \cup InFn => stage[t].opn \in Opn
  /\ \A t \in Tsk, o \in Opn : Has(t, o) =>
       opncb[o] # NODEV /\ opncb[o].resid = NULL /\ opncb[o].res = Owner(t)
  /\ \A t, u \in Tsk, o \in Opn : Has(t, o) /\ Has(u, o) => t = u
  /\ \A o \in Opn : opncb[o] # NODEV =>
       /\ opncb[o].resid = NULL => \E t \in Tsk : Has(t, o)
       /\ opncb[o].resid # NULL => opncb[o].resid = opncb[o].res
       /\ opncb[o].linked <=> ~\E t \in Tsk : Has(t, o) /\ stage[t].at = "CLOSEFN"
       /\ opncb[o].linked => devcb[opncb[o].dev] # NODEV

(* Who cleans up a group is alone with it. *)
CleanersSound == \A t \in Tsk :
  /\ stage[t].at = "CLEAN" => stage[t].clean # NULL
  /\ stage[t].clean # NULL =>
       /\ stage[t].at \in Closing \cup {"CLEAN"}
       /\ \A x \in Tsk : x # t =>
            (Resid[x] = stage[t].clean => stage[x] = Idle) /\ stage[x].clean # stage[t].clean

(* The requests that are not free are in the queues of their descriptors,  *)
(* which are empty before the first and after the last.                    *)
QueuesSound ==
  /\ \A r \in Req : reqcb[r] # NODEV => opncb[reqcb[r].opn] # NODEV
  /\ \A o \in Opn : opncb[o] # NODEV =>
       /\ IsInjective(opncb[o].requestq)
       /\ ToSet(opncb[o].requestq) = {r \in Req : reqcb[r] # NODEV /\ reqcb[r].opn = o}
  /\ \A t \in Tsk :
       /\ stage[t].reqs # {} <=> stage[t].at \in InFn \cup {"DRAINFN"}
       /\ stage[t].at \in {"EXECFN", "WAITFN", "DRAINFN"} => \A r, q \in stage[t].reqs : r = q
       /\ stage[t].at \in {"OPENFN", "CLOSE", "CLOSEFN"} => opncb[stage[t].opn].requestq = <<>>

(* A request says who has it in the driver; the ones that a close completes*)
(* are nobody's any more.                                                  *)
RequestsSound ==
  /\ \A r \in Req : reqcb[r] # NODEV /\ reqcb[r].tskid # NULL => r \in stage[reqcb[r].tskid].reqs
  /\ \A t \in Tsk : \A r \in stage[t].reqs :
       /\ reqcb[r] # NODEV /\ reqcb[r].opn = stage[t].opn
       /\ reqcb[r].tskid = IF stage[t].at = "DRAINFN" THEN NULL ELSE t

(* abort_cnt is how many tasks have requests of the descriptor in the      *)
(* driver, while a close waits for them or is about to; whose wait is      *)
(* disabled has nothing to wait for.                                       *)
Users(o) == {t \in Tsk : stage[t].at \in InFn /\ stage[t].opn = o}
Aborting == {"TEST", "SYNC"}
Aborted == {"DRAIN", "DRAINFN", "CLOSE", "CLOSEFN"}
BlockAborts(o) ==
  /\ opncb[o].abort_tskid # NULL =>
       /\ Has(opncb[o].abort_tskid, o) /\ stage[opncb[o].abort_tskid].at \in Aborting
       /\ opncb[o].abort_cnt = Cardinality(Users(o))
  /\ IF opncb[o].nwaireq > 0
     THEN \E t \in Tsk : Users(o) = {t} /\ stage[t].at = "WAITANY"
     ELSE opncb[o].nwaireq = 0 /\ \A t \in Users(o) : stage[t].at # "WAITANY"
  /\ \A t \in Users(o) : Resid[t] = opncb[o].res
TaskAborts(t) ==
  /\ stage[t].at \in Aborted \cup {"OPENFN"} => Users(stage[t].opn) = {}
  /\ stage[t].at \in Aborting => opncb[stage[t].opn].abort_tskid = t
  /\ stage[t].at = "SYNC" /\ Users(stage[t].opn) = {} => t \in diswai
  /\ t \in diswai => /\ stage[t].at \in Aborting \cup Aborted /\ stage[t].clean = NULL
                     /\ Users(stage[t].opn) = {}
AbortsSound ==
  /\ \A o \in Opn : opncb[o] # NODEV => BlockAborts(o)
  /\ \A t \in Tsk : TaskAborts(t)
  /\ diswai \subseteq Tsk

(* What a driver has been told, with what it is being told.                *)
On(u) == {o \in Opens(u[1]) : opncb[o].unit = u[2]}
Telling(at, u) == {t \in Tsk : /\ stage[t].at = at /\ stage[t].fn = 1
                               /\ opncb[stage[t].opn].dev = u[1] /\ opncb[stage[t].opn].unit = u[2]}
ToldOf(u) == IF On(u) = {} THEN 0 ELSE IF devcb[u[1]].openreq THEN Cardinality(On(u)) ELSE 1
DriversSound == \A u \in Unit \ refused :
  drv[u] + Cardinality(Telling("OPENFN", u)) - Cardinality(Telling("CLOSEFN", u)) = ToldOf(u)

SuspensionSound ==
  /\ dissus \in [Groups -> 0..MAX_DISSUS]
  /\ DisSusCnt = Cardinality({c \in Groups \X (1..MAX_DISSUS) : c[2] <= dissus[c[1]]})
  /\ DisSusCnt <= MAX_DISSUS
  /\ \A t \in Tsk : reg = t <=> stage[t].at \in Suspending
  /\ dm # NULL => dm \in Tsk /\ stage[dm].at = "SUSPENDED"

(* What holds in every state, and what holds while a close sees the        *)
(* requests that are in the driver.                                        *)
TablesSound ==
  /\ DevTypeOK /\ BlocksSound /\ CleanersSound /\ QueuesSound
  /\ ModesRespected /\ DriversSound /\ SuspensionSound
CallsSound == RequestsSound /\ AbortsSound
DevInv == TablesSound /\ (~unseen => CallsSound)

-----------------------------------------------------------------------------
(* What is known of a task, of a descriptor, of a request.                 *)
LEMMA BlockKnown ==
  ASSUME DevTypeOK, NEW o \in Opn, opncb[o] # NODEV
  PROVE  /\ opncb[o] \in OpnCB /\ opncb[o].dev \in Dev /\ opncb[o].unit \in 0..1
         /\ opncb[o].res \in Groups /\ opncb[o].res # NULL /\ opncb[o].resid \in Groups \cup {NULL}
         /\ opncb[o].requestq \in Seq(Req) /\ opncb[o].linked \in BOOLEAN
         /\ opncb[o].abort_tskid \in Tsk \cup {NULL}
         /\ opncb[o].abort_cnt \in Int /\ opncb[o].nwaireq \in Int /\ opncb[o].waitone \in Int
  BY DevAssumption DEF DevTypeOK, OpnCB

LEMMA RequestKnown ==
  ASSUME DevTypeOK, NEW r \in Req, reqcb[r] # NODEV
  PROVE  reqcb[r] \in ReqCB /\ reqcb[r].opn \in Opn /\ reqcb[r].tskid \in Tsk \cup {NULL}
  BY DEF DevTypeOK, ReqCB

LEMMA TaskKnown ==
  ASSUME DevTypeOK, NEW t \in Tsk
  PROVE  /\ stage[t] \in Stages /\ stage[t].opn \in Opn \cup {NULL} /\ stage[t].reqs \subseteq Req
         /\ stage[t].fn \in 0..1 /\ stage[t].clean \in Groups \cup {NULL}
         /\ Resid[t] \in Groups /\ Resid[t] # NULL /\ t # NULL
  BY DevAssumption DEF DevTypeOK, Stages, Groups

(* A step of one task. *)
Becomes(t, s) == s \in Stages /\ stage'[t] = s /\ \A x \in Tsk : x # t => stage'[x] = stage[x]

LEMMA Becoming ==
  ASSUME DevTypeOK, NEW t \in Tsk, NEW s \in Stages, stage' = [stage EXCEPT ![t] = s]
  PROVE  Becomes(t, s) /\ stage' \in [Tsk -> Stages]
  BY DEF DevTypeOK, Becomes

LEMMA IdleIs ==
  /\ Idle \in Stages /\ Idle.at = "IDLE" /\ Idle.opn = NULL /\ Idle.reqs = {} /\ Idle.clean = NULL
  /\ "IDLE" \notin Holding \cup InFn \cup Suspending
  BY DEF Idle, Doing, Stages, Holding, InFn, Closing, Suspending

(* A group is cleaned up by one task. *)
LEMMA CleanersKept ==
  ASSUME DevTypeOK, CleanersSound, NEW t \in Tsk, NEW s, Becomes(t, s),
         s.at = "CLEAN" => s.clean # NULL,
         s.clean # NULL => s.at \in Closing \cup {"CLEAN"} /\ s.clean = stage[t].clean,
         \/ s = Idle
         \/ stage[t] # Idle
         \/ \A x \in Tsk : stage[x].clean # Resid[t]
  PROVE  CleanersSound'
<1> SUFFICES ASSUME NEW u \in Tsk
             PROVE  /\ stage'[u].at = "CLEAN" => stage'[u].clean # NULL
                    /\ stage'[u].clean # NULL =>
                         /\ stage'[u].at \in Closing \cup {"CLEAN"}
                         /\ \A x \in Tsk : x # u =>
                              (Resid[x] = stage'[u].clean => stage'[x] = Idle) /\ stage'[x].clean # stage'[u].clean
  BY DEF CleanersSound
<1>1. CASE u = t
  <2>1. stage'[u] = s /\ \A x \in Tsk : x # u => stage'[x] = stage[x]
    BY <1>1 DEF Becomes
  <2>2. \A x \in Tsk : x # t /\ stage[t].clean # NULL =>
          (Resid[x] = stage[t].clean => stage[x] = Idle) /\ stage[x].clean # stage[t].clean
    BY DEF CleanersSound
  <2> QED BY <1>1, <2>1, <2>2
<1>2. CASE u # t
  <2>1. stage'[u] = stage[u] /\ stage'[t] = s /\ \A x \in Tsk : x # t => stage'[x] = stage[x]
    BY <1>2 DEF Becomes
  <2>2. /\ stage[u].at = "CLEAN" => stage[u].clean # NULL
        /\ stage[u].clean # NULL =>
             /\ stage[u].at \in Closing \cup {"CLEAN"}
             /\ \A x \in Tsk : x # u =>
                  (Resid[x] = stage[u].clean => stage[x] = Idle) /\ stage[x].clean # stage[u].clean
    BY DEF CleanersSound
  <2>3. stage[u].clean # NULL /\ Resid[t] = stage[u].clean => s = Idle
    BY <1>2, <2>2
  <2>4. stage[u].clean # NULL => s.clean # stage[u].clean
    BY <1>2, <2>2, IdleIs
  <2> QED BY <2>1, <2>2, <2>3, <2>4
<1> QED BY <1>1, <1>2

-----------------------------------------------------------------------------
(* Steps that neither open nor close: the blocks stay as they are, but for *)
(* their requests.                                                         *)
SameBlock(c, b) ==
  /\ c.dev = b.dev /\ c.unit = b.unit /\ c.omode = b.omode
  /\ c.res = b.res /\ c.resid = b.resid /\ c.linked = b.linked
SameBlocks == \A o \in Opn :
  /\ opncb'[o] = NODEV <=> opncb[o] = NODEV
  /\ opncb[o] # NODEV => SameBlock(opncb'[o], opncb[o])

(* A task keeps what it has, and tells the driver nothing. *)
KeepsBlock(t, s) ==
  /\ s.at \in Holding <=> stage[t].at \in Holding
  /\ s.at \in Holding => s.opn = stage[t].opn /\ s.clean = stage[t].clean
  /\ {stage[t].at, s.at} \cap {"OPENFN", "CLOSEFN"} = {}
  /\ s.at \in Holding \cup InFn => s.opn \in Opn

LEMMA HasKept ==
  ASSUME NEW t \in Tsk, NEW s, Becomes(t, s), KeepsBlock(t, s)
  PROVE  \A x \in Tsk, o \in Opn :
           /\ Has(x, o)' <=> Has(x, o)
           /\ Has(x, o) => Owner(x)' = Owner(x) /\ (stage'[x].at = "CLOSEFN" <=> stage[x].at = "CLOSEFN")
<1> SUFFICES ASSUME NEW x \in Tsk, NEW o \in Opn
             PROVE  /\ Has(x, o)' <=> Has(x, o)
                    /\ Has(x, o) => Owner(x)' = Owner(x) /\ (stage'[x].at = "CLOSEFN" <=> stage[x].at = "CLOSEFN")
  OBVIOUS
<1>1. CASE x = t
  BY <1>1 DEF Becomes, KeepsBlock, Has, Owner
<1>2. CASE x # t
  <2>1. stage'[x] = stage[x]
    BY <1>2 DEF Becomes
  <2> QED BY <2>1 DEF Has, Owner
<1> QED BY <1>1, <1>2

LEMMA BlocksKept ==
  ASSUME DevTypeOK, BlocksSound, SameBlocks, devcb' = devcb,
         NEW t \in Tsk, NEW s, Becomes(t, s), KeepsBlock(t, s)
  PROVE  BlocksSound'
<1>1. \A x \in Tsk, o \in Opn :
        /\ Has(x, o)' <=> Has(x, o)
        /\ Has(x, o) => Owner(x)' = Owner(x) /\ (stage'[x].at = "CLOSEFN" <=> stage[x].at = "CLOSEFN")
  BY HasKept
<1>2. \A x \in Tsk : stage'[x].at \in Holding \cup InFn => stage'[x].opn \in Opn
  BY DEF BlocksSound, Becomes, KeepsBlock
<1>3. \A x \in Tsk, o \in Opn : Has(x, o)' =>
        opncb'[o] # NODEV /\ opncb'[o].resid = NULL /\ opncb'[o].res = Owner(x)'
  BY <1>1 DEF BlocksSound, SameBlocks, SameBlock
<1>4. \A x, y \in Tsk, o \in Opn : Has(x, o)' /\ Has(y, o)' => x = y
  BY <1>1 DEF BlocksSound
<1>5. ASSUME NEW o \in Opn, opncb'[o] # NODEV
      PROVE  /\ opncb'[o].resid = NULL => \E x \in Tsk : Has(x, o)'
             /\ opncb'[o].resid # NULL => opncb'[o].resid = opncb'[o].res
             /\ opncb'[o].linked <=> ~\E x \in Tsk : Has(x, o)' /\ stage'[x].at = "CLOSEFN"
             /\ opncb'[o].linked => devcb'[opncb'[o].dev] # NODEV
  <2>1. opncb[o] # NODEV /\ SameBlock(opncb'[o], opncb[o])
    BY <1>5 DEF SameBlocks
  <2>2. /\ opncb[o].resid = NULL => \E x \in Tsk : Has(x, o)
        /\ opncb[o].resid # NULL => opncb[o].resid = opncb[o].res
        /\ opncb[o].linked <=> ~\E x \in Tsk : Has(x, o) /\ stage[x].at = "CLOSEFN"
        /\ opncb[o].linked => devcb[opncb[o].dev] # NODEV
    BY <2>1 DEF BlocksSound
  <2>3. (\E x \in Tsk : Has(x, o)' /\ stage'[x].at = "CLOSEFN") <=> \E x \in Tsk : Has(x, o) /\ stage[x].at = "CLOSEFN"
    BY <1>1
  <2> QED BY <1>1, <2>1, <2>2, <2>3 DEF SameBlock
<1> QED BY <1>2, <1>3, <1>4, <1>5 DEF BlocksSound

LEMMA OpensKept ==
  ASSUME DevTypeOK, SameBlocks
  PROVE  \A d \in Dev : Opens(d)' = Opens(d)
<1> SUFFICES ASSUME NEW d \in Dev, NEW o \in Opn PROVE o \in Opens(d)' <=> o \in Opens(d)
  BY DEF Opens
<1> QED BY DEF Opens, SameBlocks, SameBlock

LEMMA ModesKept == ASSUME DevTypeOK, ModesRespected, SameBlocks PROVE ModesRespected'
<1> SUFFICES ASSUME NEW d \in Dev, NEW o \in Opens(d)', NEW p \in Opens(d)', o # p,
                    SameUnit(opncb'[o].unit, opncb'[p].unit)
             PROVE  ~Conflict(opncb'[o].omode, opncb'[p].omode)
  BY DEF ModesRespected
<1>1. o \in Opens(d) /\ p \in Opens(d) /\ o \in Opn /\ p \in Opn
  BY OpensKept DEF Opens
<1>2. opncb'[o].unit = opncb[o].unit /\ opncb'[p].unit = opncb[p].unit
      /\ opncb'[o].omode = opncb[o].omode /\ opncb'[p].omode = opncb[p].omode
  BY <1>1 DEF SameBlocks, SameBlock, Opens
<1> QED BY <1>1, <1>2 DEF ModesRespected

LEMMA DriversKept ==
  ASSUME DevTypeOK, BlocksSound, DriversSound, SameBlocks, devcb' = devcb, drv' = drv, refused' = refused,
         NEW t \in Tsk, NEW s, Becomes(t, s), KeepsBlock(t, s)
  PROVE  DriversSound'
<1> SUFFICES ASSUME NEW u \in Unit \ refused
             PROVE  drv'[u] + Cardinality(Telling("OPENFN", u)') - Cardinality(Telling("CLOSEFN", u)') = ToldOf(u)'
  BY DEF DriversSound
<1>1. u[1] \in Dev /\ u[2] \in 0..1
  BY DEF Unit
<1>2. On(u)' = On(u)
  <2>1. Opens(u[1])' = Opens(u[1]) /\ Opens(u[1]) \subseteq Opn
    BY <1>1, OpensKept DEF Opens
  <2>2. \A o \in Opens(u[1]) : opncb'[o].unit = opncb[o].unit
    BY <2>1 DEF SameBlocks, SameBlock, Opens
  <2> QED BY <2>1, <2>2 DEF On
<1>3. ASSUME NEW at \in {"OPENFN", "CLOSEFN"} PROVE Telling(at, u)' = Telling(at, u)
  <2> SUFFICES ASSUME NEW x \in Tsk PROVE x \in Telling(at, u)' <=> x \in Telling(at, u)
    BY DEF Telling
  <2>1. CASE x = t
    BY <2>1 DEF Telling, Becomes, KeepsBlock
  <2>2. CASE x # t
    <3>1. stage'[x] = stage[x]
      BY <2>2 DEF Becomes
    <3>2. CASE stage[x].at = at
      <4>1. stage[x].opn \in Opn /\ opncb[stage[x].opn] # NODEV
        BY <3>2 DEF BlocksSound, Has, Holding, Closing
      <4>2. SameBlock(opncb'[stage[x].opn], opncb[stage[x].opn])
        BY <4>1 DEF SameBlocks
      <4> QED BY <3>1, <4>2 DEF Telling, SameBlock
    <3>3. CASE stage[x].at # at
      BY <3>1, <3>3 DEF Telling
    <3> QED BY <3>2, <3>3
  <2> QED BY <2>1, <2>2
<1>4. ToldOf(u)' = ToldOf(u)
  BY <1>2 DEF ToldOf
<1> QED BY <1>3, <1>4 DEF DriversSound

-----------------------------------------------------------------------------
(* Steps that open or close: one task, the block it has.                   *)
Turns(o, c) == opncb'[o] = c /\ \A p \in Opn : p # o => opncb'[p] = opncb[p]
Mine(t, s, o) ==
  /\ stage[t].at \in Holding => stage[t].opn = o
  /\ s.at \in Holding \cup InFn => s.opn = o
  /\ \A x \in Tsk : x # t => ~Has(x, o)

LEMMA HasMoved ==
  ASSUME NEW t \in Tsk, NEW s, Becomes(t, s), NEW o \in Opn, Mine(t, s, o)
  PROVE  /\ \A x \in Tsk, p \in Opn : p # o => (Has(x, p)' <=> Has(x, p)) /\ (Has(x, p) => stage'[x] = stage[x])
         /\ \A x \in Tsk : Has(x, o)' <=> x = t /\ s.at \in Holding
<1>1. \A x \in Tsk : x # t => stage'[x] = stage[x] /\ ~Has(x, o)
  BY DEF Becomes, Mine
<1>2. stage'[t] = s
  BY DEF Becomes
<1>3. ASSUME NEW x \in Tsk, NEW p \in Opn, p # o
      PROVE  (Has(x, p)' <=> Has(x, p)) /\ (Has(x, p) => stage'[x] = stage[x])
  <2>1. CASE x = t
    BY <1>2, <1>3, <2>1 DEF Has, Mine
  <2>2. CASE x # t
    BY <1>1, <2>2 DEF Has
  <2> QED BY <2>1, <2>2
<1>4. ASSUME NEW x \in Tsk PROVE Has(x, o)' <=> x = t /\ s.at \in Holding
  <2>1. CASE x = t
    BY <1>2, <2>1 DEF Has, Mine
  <2>2. CASE x # t
    BY <1>1, <2>2 DEF Has
  <2> QED BY <2>1, <2>2
<1> QED BY <1>3, <1>4

LEMMA BlocksMoved ==
  ASSUME DevTypeOK, BlocksSound, devcb' = devcb, NEW t \in Tsk, NEW s, Becomes(t, s),
         NEW o \in Opn, NEW c, Turns(o, c), Mine(t, s, o),
         s.at \in Holding => c # NODEV /\ c.resid = NULL /\ c.res = IF s.clean = NULL THEN Resid[t] ELSE s.clean,
         c # NODEV => /\ c.resid = NULL => s.at \in Holding
                      /\ c.resid # NULL => c.resid = c.res
                      /\ c.linked <=> s.at # "CLOSEFN"
                      /\ c.linked => devcb[c.dev] # NODEV
  PROVE  BlocksSound'
<1>0. /\ \A x \in Tsk, p \in Opn : p # o => (Has(x, p)' <=> Has(x, p)) /\ (Has(x, p) => stage'[x] = stage[x])
      /\ \A x \in Tsk : Has(x, o)' <=> x = t /\ s.at \in Holding
      /\ stage'[t] = s /\ opncb'[o] = c /\ \A p \in Opn : p # o => opncb'[p] = opncb[p]
  BY HasMoved DEF Becomes, Turns
<1>1. \A x \in Tsk : stage'[x].at \in Holding \cup InFn => stage'[x].opn \in Opn
  BY DEF BlocksSound, Becomes, Mine
<1>2. ASSUME NEW x \in Tsk, NEW p \in Opn, Has(x, p)'
      PROVE  opncb'[p] # NODEV /\ opncb'[p].resid = NULL /\ opncb'[p].res = Owner(x)'
  <2>1. CASE p = o
    BY <1>0, <1>2, <2>1 DEF Owner
  <2>2. CASE p # o
    <3>1. Has(x, p) /\ stage'[x] = stage[x] /\ opncb'[p] = opncb[p]
      BY <1>0, <1>2, <2>2
    <3> QED BY <3>1 DEF BlocksSound, Owner
  <2> QED BY <2>1, <2>2
<1>3. \A x, y \in Tsk, p \in Opn : Has(x, p)' /\ Has(y, p)' => x = y
  BY <1>0 DEF BlocksSound
<1>4. ASSUME NEW p \in Opn, opncb'[p] # NODEV
      PROVE  /\ opncb'[p].resid = NULL => \E x \in Tsk : Has(x, p)'
             /\ opncb'[p].resid # NULL => opncb'[p].resid = opncb'[p].res
             /\ opncb'[p].linked <=> ~\E x \in Tsk : Has(x, p)' /\ stage'[x].at = "CLOSEFN"
             /\ opncb'[p].linked => devcb'[opncb'[p].dev] # NODEV
  <2>1. CASE p = o
    <3>1. "CLOSEFN" \in Holding
      BY DEF Holding, Closing
    <3>2. (\E x \in Tsk : Has(x, p)' /\ stage'[x].at = "CLOSEFN") <=> s.at = "CLOSEFN"
      BY <1>0, <2>1, <3>1
    <3>3. c.resid = NULL => \E x \in Tsk : Has(x, p)'
      BY <1>0, <1>4, <2>1
    <3> QED BY <1>0, <1>4, <2>1, <3>2, <3>3
  <2>2. CASE p # o
    <3>1. opncb'[p] = opncb[p]
      BY <1>0, <2>2
    <3>2. \A x \in Tsk : (Has(x, p)' <=> Has(x, p)) /\ (Has(x, p) => stage'[x] = stage[x])
      BY <1>0, <2>2
    <3>3. /\ opncb[p].resid = NULL => \E x \in Tsk : Has(x, p)
          /\ opncb[p].resid # NULL => opncb[p].resid = opncb[p].res
          /\ opncb[p].linked <=> ~\E x \in Tsk : Has(x, p) /\ stage[x].at = "CLOSEFN"
          /\ opncb[p].linked => devcb[opncb[p].dev] # NODEV
      BY <1>4, <3>1 DEF BlocksSound
    <3> QED BY <3>1, <3>2, <3>3
  <2> QED BY <2>1, <2>2
<1> QED BY <1>1, <1>2, <1>3, <1>4 DEF BlocksSound

LEMMA ModesMoved ==
  ASSUME DevTypeOK, ModesRespected, NEW o \in Opn, NEW c, Turns(o, c),
         c # NODEV /\ c.linked =>
           \/ opncb[o] # NODEV /\ opncb[o].linked /\ c.dev = opncb[o].dev /\ c.unit = opncb[o].unit /\ c.omode = opncb[o].omode
           \/ \A p \in Opens(c.dev) : p # o /\ SameUnit(c.unit, opncb[p].unit) => ~Conflict(c.omode, opncb[p].omode)
  PROVE  ModesRespected'
<1> SUFFICES ASSUME NEW d \in Dev, NEW a \in Opens(d)', NEW b \in Opens(d)', a # b,
                    SameUnit(opncb'[a].unit, opncb'[b].unit)
             PROVE  ~Conflict(opncb'[a].omode, opncb'[b].omode)
  BY DEF ModesRespected
<1>1. /\ a \in Opn /\ opncb'[a] # NODEV /\ opncb'[a].linked /\ opncb'[a].dev = d
      /\ b \in Opn /\ opncb'[b] # NODEV /\ opncb'[b].linked /\ opncb'[b].dev = d
  BY DEF Opens
<1>2. opncb'[o] = c /\ \A p \in Opn : p # o => opncb'[p] = opncb[p]
  BY DEF Turns
<1>3. \A p, q \in Opens(d) : p # q /\ SameUnit(opncb[p].unit, opncb[q].unit) => ~Conflict(opncb[p].omode, opncb[q].omode)
  BY DEF ModesRespected
<1>4. CASE a # o /\ b # o
  <2>1. a \in Opens(d) /\ b \in Opens(d) /\ opncb'[a] = opncb[a] /\ opncb'[b] = opncb[b]
    BY <1>1, <1>2, <1>4 DEF Opens
  <2> QED BY <1>3, <2>1
<1>5. \A m, n : Conflict(m, n) <=> Conflict(n, m)
  BY DEF Conflict, Read, Write, Rexcl, Wexcl
<1>6. \A x, y : SameUnit(x, y) <=> SameUnit(y, x)
  BY DEF SameUnit
<1>7. ASSUME NEW p \in Opn, p # o, opncb'[p] # NODEV, opncb'[p].linked, opncb'[p].dev = d,
             opncb'[o] # NODEV, opncb'[o].linked, opncb'[o].dev = d, SameUnit(opncb'[o].unit, opncb'[p].unit)
      PROVE  ~Conflict(opncb'[o].omode, opncb'[p].omode)
  <2>1. p \in Opens(d) /\ opncb'[p] = opncb[p]
    BY <1>2, <1>7 DEF Opens
  <2>2. CASE opncb[o] # NODEV /\ opncb[o].linked /\ c.dev = opncb[o].dev /\ c.unit = opncb[o].unit /\ c.omode = opncb[o].omode
    <3>1. o \in Opens(d)
      BY <1>2, <1>7, <2>2 DEF Opens
    <3> QED BY <1>2, <1>3, <1>7, <2>1, <2>2, <3>1
  <2>3. CASE \A q \in Opens(c.dev) : q # o /\ SameUnit(c.unit, opncb[q].unit) => ~Conflict(c.omode, opncb[q].omode)
    BY <1>2, <1>7, <2>1, <2>3
  <2> QED BY <1>2, <1>7, <2>2, <2>3
<1>8. CASE a = o
  BY <1>1, <1>7, <1>8
<1>9. CASE b = o
  BY <1>1, <1>5, <1>6, <1>7, <1>9
<1> QED BY <1>4, <1>8, <1>9

-----------------------------------------------------------------------------
(* What the driver is told, in numbers: n of the tasks that tell it, k of  *)
(* the blocks that are open.                                               *)
Of(c, v) == c.dev = v[1] /\ c.unit = v[2]
One(p) == IF p THEN 1 ELSE 0

LEMMA TellersCounted ==
  ASSUME NEW v
  PROVE  /\ \A at : IsFiniteSet(Telling(at, v)) /\ Cardinality(Telling(at, v)) \in Nat
         /\ \A at : IsFiniteSet(Telling(at, v)') /\ Cardinality(Telling(at, v)') \in Nat
         /\ IsFiniteSet(On(v)) /\ Cardinality(On(v)) \in Nat /\ (On(v) = {} <=> Cardinality(On(v)) = 0)
         /\ IsFiniteSet(On(v)') /\ Cardinality(On(v)') \in Nat /\ (On(v)' = {} <=> Cardinality(On(v)') = 0)
<1>1. \A S \in SUBSET Tsk : IsFiniteSet(S) /\ Cardinality(S) \in Nat
  BY DevAssumption, FS_Subset, FS_CardinalityType
<1>2. \A S \in SUBSET Opn : IsFiniteSet(S) /\ Cardinality(S) \in Nat /\ (S = {} <=> Cardinality(S) = 0)
  BY DevAssumption, FS_Subset, FS_CardinalityType, FS_EmptySet
<1>3. On(v) \in SUBSET Opn /\ On(v)' \in SUBSET Opn
  BY DEF On, Opens
<1>4. \A at : Telling(at, v) \in SUBSET Tsk /\ Telling(at, v)' \in SUBSET Tsk
  BY DEF Telling
<1> QED BY <1>1, <1>2, <1>3, <1>4

LEMMA DriverCounts ==
  ASSUME DevTypeOK, BlocksSound, NEW t \in Tsk, NEW s, Becomes(t, s),
         NEW o \in Opn, NEW c, Turns(o, c), Mine(t, s, o), NEW v \in Unit
  PROVE  /\ \A at \in {"OPENFN", "CLOSEFN"} :
              Cardinality(Telling(at, v)') = Cardinality(Telling(at, v))
                + One(s.at = at /\ s.fn = 1 /\ Of(c, v)) - One(stage[t].at = at /\ stage[t].fn = 1 /\ Of(opncb[o], v))
         /\ Cardinality(On(v)') = Cardinality(On(v))
              + One(c # NODEV /\ c.linked /\ Of(c, v)) - One(opncb[o] # NODEV /\ opncb[o].linked /\ Of(opncb[o], v))
<1>0. /\ stage'[t] = s /\ \A x \in Tsk : x # t => stage'[x] = stage[x]
      /\ opncb'[o] = c /\ \A p \in Opn : p # o => opncb'[p] = opncb[p]
  BY DEF Becomes, Turns
<1>1. {"OPENFN", "CLOSEFN"} \subseteq Holding
  BY DEF Holding, Closing
<1>2. ASSUME NEW at \in {"OPENFN", "CLOSEFN"}
      PROVE  Cardinality(Telling(at, v)') = Cardinality(Telling(at, v))
                + One(s.at = at /\ s.fn = 1 /\ Of(c, v)) - One(stage[t].at = at /\ stage[t].fn = 1 /\ Of(opncb[o], v))
  <2>1. Telling(at, v)' \ {t} = Telling(at, v) \ {t}
    <3> SUFFICES ASSUME NEW x \in Tsk, x # t PROVE x \in Telling(at, v)' <=> x \in Telling(at, v)
      BY DEF Telling
    <3>1. stage'[x] = stage[x]
      BY <1>0
    <3>2. CASE stage[x].at = at
      <4>1. stage[x].opn \in Opn /\ stage[x].opn # o
        BY <1>1, <3>2 DEF BlocksSound, Mine, Has
      <4> QED BY <1>0, <3>1, <4>1 DEF Telling
    <3>3. CASE stage[x].at # at
      BY <3>1, <3>3 DEF Telling
    <3> QED BY <3>2, <3>3
  <2>2. t \in Telling(at, v)' <=> s.at = at /\ s.fn = 1 /\ Of(c, v)
    BY <1>0, <1>1 DEF Telling, Mine, Of
  <2>3. t \in Telling(at, v) <=> stage[t].at = at /\ stage[t].fn = 1 /\ Of(opncb[o], v)
    BY <1>1 DEF Telling, Mine, Of
  <2>4. IsFiniteSet(Telling(at, v))
    BY TellersCounted
  <2> DEFINE S == Telling(at, v)
             T == Telling(at, v)'
  <2> HIDE DEF S, T
  <2>5. Cardinality(T) = Cardinality(S) + (IF t \in T THEN 1 ELSE 0) - (IF t \in S THEN 1 ELSE 0)
    BY <2>1, <2>4, OneMoves DEF S, T
  <2> QED BY <2>2, <2>3, <2>5 DEF S, T, One
<1>3. Cardinality(On(v)') = Cardinality(On(v))
        + One(c # NODEV /\ c.linked /\ Of(c, v)) - One(opncb[o] # NODEV /\ opncb[o].linked /\ Of(opncb[o], v))
  <2>1. On(v)' \ {o} = On(v) \ {o}
    <3> SUFFICES ASSUME NEW p \in Opn, p # o PROVE p \in On(v)' <=> p \in On(v)
      BY DEF On, Opens
    <3> QED BY <1>0 DEF On, Opens
  <2>2. o \in On(v)' <=> c # NODEV /\ c.linked /\ Of(c, v)
    BY <1>0 DEF On, Opens, Of
  <2>3. o \in On(v) <=> opncb[o] # NODEV /\ opncb[o].linked /\ Of(opncb[o], v)
    BY DEF On, Opens, Of
  <2>4. IsFiniteSet(On(v))
    BY TellersCounted
  <2> DEFINE S == On(v)
             T == On(v)'
  <2> HIDE DEF S, T
  <2>5. Cardinality(T) = Cardinality(S) + (IF o \in T THEN 1 ELSE 0) - (IF o \in S THEN 1 ELSE 0)
    BY <2>1, <2>4, OneMoves DEF S, T
  <2> QED BY <2>2, <2>3, <2>5 DEF S, T, One
<1> QED BY <1>2, <1>3

(* It suffices to add up. *)
AddsUp(v, c, s, t, b) ==
  \A n, m, k \in Nat :
    /\ On(v) = {} <=> k = 0
    /\ \A x \in On(v) : On(v) = {x} <=> k = 1
    /\ drv[v] + n - m = IF k = 0 THEN 0 ELSE IF devcb[v[1]].openreq THEN k ELSE 1
    => LET l == k + One(c # NODEV /\ c.linked /\ Of(c, v)) - One(b # NODEV /\ b.linked /\ Of(b, v))
       IN  drv'[v] + (n + One(s.at = "OPENFN" /\ s.fn = 1 /\ Of(c, v)) - One(stage[t].at = "OPENFN" /\ stage[t].fn = 1 /\ Of(b, v)))
             - (m + One(s.at = "CLOSEFN" /\ s.fn = 1 /\ Of(c, v)) - One(stage[t].at = "CLOSEFN" /\ stage[t].fn = 1 /\ Of(b, v)))
           = IF l = 0 THEN 0 ELSE IF devcb[v[1]].openreq THEN l ELSE 1

LEMMA DriversMoved ==
  ASSUME DevTypeOK, BlocksSound, DriversSound, devcb' = devcb, refused \subseteq refused', NEW t \in Tsk, NEW s, Becomes(t, s),
         NEW o \in Opn, NEW c, Turns(o, c), Mine(t, s, o), \A v \in Unit \ refused' : AddsUp(v, c, s, t, opncb[o])
  PROVE  DriversSound'
<1> SUFFICES ASSUME NEW v \in Unit \ refused'
             PROVE  drv'[v] + Cardinality(Telling("OPENFN", v)') - Cardinality(Telling("CLOSEFN", v)') = ToldOf(v)'
  BY DEF DriversSound
<1> DEFINE n == Cardinality(Telling("OPENFN", v))
           m == Cardinality(Telling("CLOSEFN", v))
           k == Cardinality(On(v))
           l == Cardinality(On(v)')
<1>1. /\ n \in Nat /\ m \in Nat /\ k \in Nat /\ l \in Nat
      /\ (On(v) = {} <=> k = 0) /\ (On(v)' = {} <=> l = 0)
  BY TellersCounted
<1>2. drv[v] + n - m = IF k = 0 THEN 0 ELSE IF devcb[v[1]].openreq THEN k ELSE 1
  BY <1>1 DEF DriversSound, ToldOf
<1>6. \A x \in On(v) : On(v) = {x} <=> k = 1
  <2>1. IsFiniteSet(On(v))
    BY TellersCounted
  <2>2. k = 1 <=> \E x : On(v) = {x}
    BY <2>1, FS_Singleton
  <2> HIDE DEF k
  <2> QED BY <2>2
<1>3. ToldOf(v)' = IF l = 0 THEN 0 ELSE IF devcb[v[1]].openreq THEN l ELSE 1
  BY <1>1 DEF ToldOf
<1>4. /\ Cardinality(Telling("OPENFN", v)') = n + One(s.at = "OPENFN" /\ s.fn = 1 /\ Of(c, v))
           - One(stage[t].at = "OPENFN" /\ stage[t].fn = 1 /\ Of(opncb[o], v))
      /\ Cardinality(Telling("CLOSEFN", v)') = m + One(s.at = "CLOSEFN" /\ s.fn = 1 /\ Of(c, v))
           - One(stage[t].at = "CLOSEFN" /\ stage[t].fn = 1 /\ Of(opncb[o], v))
      /\ l = k + One(c # NODEV /\ c.linked /\ Of(c, v)) - One(opncb[o] # NODEV /\ opncb[o].linked /\ Of(opncb[o], v))
  BY DriverCounts
<1> HIDE DEF n, m, k, l
<1>5. AddsUp(v, c, s, t, opncb[o])
  OBVIOUS
<1> QED BY <1>1, <1>2, <1>3, <1>4, <1>5, <1>6 DEF AddsUp

-----------------------------------------------------------------------------
(* Requests.  No request is with two tasks.                                *)
LEMMA ReqsApart ==
  ASSUME DevTypeOK, BlocksSound, RequestsSound, NEW t \in Tsk, NEW x \in Tsk, NEW r,
         r \in stage[t].reqs, r \in stage[x].reqs
  PROVE  t = x
<1>1. t # NULL /\ x # NULL
  BY TaskKnown
<1>2. /\ reqcb[r].opn = stage[t].opn /\ reqcb[r].tskid = IF stage[t].at = "DRAINFN" THEN NULL ELSE t
      /\ reqcb[r].opn = stage[x].opn /\ reqcb[r].tskid = IF stage[x].at = "DRAINFN" THEN NULL ELSE x
  BY DEF RequestsSound
<1>3. CASE stage[t].at = "DRAINFN"
  <2>1. stage[x].at = "DRAINFN"
    BY <1>1, <1>2, <1>3
  <2>2. Has(t, stage[t].opn) /\ Has(x, stage[t].opn) /\ stage[t].opn \in Opn
    BY <1>2, <1>3, <2>1 DEF Has, Holding, Closing, BlocksSound
  <2> QED BY <2>2 DEF BlocksSound
<1>4. CASE stage[t].at # "DRAINFN"
  BY <1>1, <1>2, <1>4
<1> QED BY <1>3, <1>4

LEMMA QueueEmpty ==
  ASSUME DevTypeOK, QueuesSound, NEW o \in Opn, opncb[o] # NODEV, opncb[o].requestq = <<>>
  PROVE  \A r \in Req : reqcb[r] # NODEV => reqcb[r].opn # o
<1>1. ToSet(<<>>) = {}
  BY DEF ToSet
<1> QED BY <1>1 DEF QueuesSound

LEMMA EmptyQueue == ASSUME NEW q \in Seq(Req), ToSet(q) = {} PROVE q = <<>>
<1>1. Len(q) \in Nat /\ \A i \in 1..Len(q) : q[i] \in ToSet(q)
  BY DEF ToSet
<1>2. Len(q) = 0
  <2>1. Len(q) > 0 => 1 \in 1..Len(q)
    BY <1>1
  <2> QED BY <1>1, <2>1
<1> QED BY <1>2

SameQueues(t) == \A o \in Opn :
  /\ opncb[o] # NODEV /\ opncb'[o] # NODEV => opncb'[o].requestq = opncb[o].requestq
  /\ opncb[o] # NODEV /\ opncb'[o] = NODEV => opncb[o].requestq = <<>> /\ \A x \in Tsk : x # t => ~Has(x, o)
  /\ opncb[o] = NODEV /\ opncb'[o] # NODEV => opncb'[o].requestq = <<>>

LEMMA QueuesKept ==
  ASSUME DevTypeOK, BlocksSound, QueuesSound, reqcb' = reqcb, NEW t \in Tsk, NEW s, Becomes(t, s),
         s.reqs = {}, s.at \notin InFn \cup {"DRAINFN"}, SameQueues(t),
         s.at \in {"OPENFN", "CLOSE", "CLOSEFN"} => opncb'[s.opn].requestq = <<>>
  PROVE  QueuesSound'
<1>0. stage'[t] = s /\ \A x \in Tsk : x # t => stage'[x] = stage[x]
  BY DEF Becomes
<1>1. ASSUME NEW r \in Req, reqcb[r] # NODEV PROVE opncb'[reqcb[r].opn] # NODEV
  <2>1. reqcb[r].opn \in Opn /\ opncb[reqcb[r].opn] # NODEV
    BY <1>1, RequestKnown DEF QueuesSound
  <2>2. opncb[reqcb[r].opn].requestq # <<>>
    BY <1>1, <2>1, QueueEmpty
  <2> QED BY <2>1, <2>2 DEF SameQueues
<1>2. ASSUME NEW o \in Opn, opncb'[o] # NODEV
      PROVE  /\ IsInjective(opncb'[o].requestq)
             /\ ToSet(opncb'[o].requestq) = {r \in Req : reqcb[r] # NODEV /\ reqcb[r].opn = o}
  <2>1. CASE opncb[o] # NODEV
    BY <1>2, <2>1 DEF SameQueues, QueuesSound
  <2>2. CASE opncb[o] = NODEV
    <3>1. opncb'[o].requestq = <<>>
      BY <1>2, <2>2 DEF SameQueues
    <3>2. IsInjective(<<>>)
      BY DEF IsInjective
    <3>3. ToSet(<<>>) = {}
      BY DEF ToSet
    <3>4. \A r \in Req : reqcb[r] # NODEV => reqcb[r].opn # o
      BY <2>2 DEF QueuesSound
    <3> QED BY <3>1, <3>2, <3>3, <3>4
  <2> QED BY <2>1, <2>2
<1>3. ASSUME NEW x \in Tsk
      PROVE  /\ stage'[x].reqs # {} <=> stage'[x].at \in InFn \cup {"DRAINFN"}
             /\ stage'[x].at \in {"EXECFN", "WAITFN", "DRAINFN"} => \A r, q \in stage'[x].reqs : r = q
             /\ stage'[x].at \in {"OPENFN", "CLOSE", "CLOSEFN"} => opncb'[stage'[x].opn].requestq = <<>>
  <2>1. CASE x = t
    BY <1>0, <2>1
  <2>2. CASE x # t
    <3>1. stage'[x] = stage[x]
      BY <1>0, <2>2
    <3>2. stage[x].at \in {"OPENFN", "CLOSE", "CLOSEFN"} => opncb'[stage[x].opn].requestq = <<>>
      <4> SUFFICES ASSUME stage[x].at \in {"OPENFN", "CLOSE", "CLOSEFN"} PROVE opncb'[stage[x].opn].requestq = <<>>
        OBVIOUS
      <4>1. Has(x, stage[x].opn) /\ stage[x].opn \in Opn
        BY DEF Has, Holding, Closing, BlocksSound
      <4>2. opncb[stage[x].opn] # NODEV /\ opncb[stage[x].opn].requestq = <<>>
        BY <4>1 DEF BlocksSound, QueuesSound
      <4> QED BY <2>2, <4>1, <4>2 DEF SameQueues
    <3> QED BY <3>1, <3>2 DEF QueuesSound
  <2> QED BY <2>1, <2>2
<1> QED BY <1>1, <1>2, <1>3 DEF QueuesSound

LEMMA RequestsKept ==
  ASSUME RequestsSound, reqcb' = reqcb, NEW t \in Tsk, NEW s, Becomes(t, s), stage[t].reqs = {}, s.reqs = {},
         \A r \in Req : reqcb[r] # NODEV => reqcb[r].tskid \in Tsk \cup {NULL}
  PROVE  RequestsSound'
<1>0. stage'[t] = s /\ \A x \in Tsk : x # t => stage'[x] = stage[x]
  BY DEF Becomes
<1>1. ASSUME NEW r \in Req, reqcb[r] # NODEV, reqcb[r].tskid # NULL PROVE r \in stage'[reqcb[r].tskid].reqs
  BY <1>0, <1>1 DEF RequestsSound
<1>2. ASSUME NEW x \in Tsk, NEW r \in stage'[x].reqs
      PROVE  /\ reqcb[r] # NODEV /\ reqcb[r].opn = stage'[x].opn
             /\ reqcb[r].tskid = IF stage'[x].at = "DRAINFN" THEN NULL ELSE x
  <2>1. x # t /\ stage'[x] = stage[x]
    BY <1>0
  <2> QED BY <2>1 DEF RequestsSound
<1> QED BY <1>1, <1>2 DEF RequestsSound

Single(Q) == \A r, q \in Q : r = q

(* A task goes into the driver with the requests Q, new ones or old ones.  *)
Entering(t, s, o, Q) ==
  /\ Becomes(t, s) /\ opncb[o] # NODEV /\ opncb'[o] # NODEV /\ \A p \in Opn : p # o => opncb'[p] = opncb[p]
  /\ Q \subseteq Req /\ Q # {} /\ s.reqs = Q /\ s.opn = o /\ s.at \in InFn \cup {"DRAINFN"}
  /\ s.at = "WAITANY" \/ Single(Q)
  /\ stage[t].reqs = {} /\ \A x \in Tsk : x # t => ~Has(x, o)
  /\ IsInjective(opncb'[o].requestq) /\ ToSet(opncb'[o].requestq) = ToSet(opncb[o].requestq) \cup Q
  /\ \A r \in Req : r \notin Q => reqcb'[r] = reqcb[r]
  /\ \A r \in Q : (reqcb[r] = NODEV \/ reqcb[r].opn = o) /\ reqcb'[r] # NODEV /\ reqcb'[r].opn = o

LEMMA QueuesEntering ==
  ASSUME DevTypeOK, BlocksSound, QueuesSound, NEW t \in Tsk, NEW s, NEW o \in Opn, NEW Q, Entering(t, s, o, Q)
  PROVE  QueuesSound'
<1>0. stage'[t] = s /\ \A x \in Tsk : x # t => stage'[x] = stage[x]
  BY DEF Entering, Becomes
<1>1. ASSUME NEW r \in Req, reqcb'[r] # NODEV PROVE opncb'[reqcb'[r].opn] # NODEV
  <2>1. CASE r \in Q
    BY <2>1 DEF Entering
  <2>2. CASE r \notin Q
    <3>1. reqcb'[r] = reqcb[r] /\ reqcb[r] # NODEV
      BY <1>1, <2>2 DEF Entering
    <3>2. reqcb[r].opn \in Opn /\ opncb[reqcb[r].opn] # NODEV
      BY <3>1, RequestKnown DEF QueuesSound
    <3> QED BY <3>1, <3>2 DEF Entering
  <2> QED BY <2>1, <2>2
<1>2. ASSUME NEW p \in Opn, opncb'[p] # NODEV
      PROVE  /\ IsInjective(opncb'[p].requestq)
             /\ ToSet(opncb'[p].requestq) = {r \in Req : reqcb'[r] # NODEV /\ reqcb'[r].opn = p}
  <2>1. opncb[p] # NODEV
    BY <1>2 DEF Entering
  <2>2. IsInjective(opncb[p].requestq) /\ ToSet(opncb[p].requestq) = {r \in Req : reqcb[r] # NODEV /\ reqcb[r].opn = p}
    BY <2>1 DEF QueuesSound
  <2>3. CASE p = o
    <3>1. \A r \in Req : reqcb'[r] # NODEV /\ reqcb'[r].opn = o <=> r \in Q \/ (reqcb[r] # NODEV /\ reqcb[r].opn = o)
      BY DEF Entering
    <3>2. IsInjective(opncb'[o].requestq) /\ ToSet(opncb'[o].requestq) = ToSet(opncb[o].requestq) \cup Q /\ Q \subseteq Req
      BY DEF Entering
    <3> QED BY <2>2, <2>3, <3>1, <3>2
  <2>4. CASE p # o
    <3>1. \A r \in Req : reqcb'[r] # NODEV /\ reqcb'[r].opn = p <=> reqcb[r] # NODEV /\ reqcb[r].opn = p
      BY <2>4 DEF Entering
    <3>2. opncb'[p] = opncb[p]
      BY <2>4 DEF Entering
    <3> QED BY <2>2, <3>1, <3>2
  <2> QED BY <2>3, <2>4
<1>3. ASSUME NEW x \in Tsk
      PROVE  /\ stage'[x].reqs # {} <=> stage'[x].at \in InFn \cup {"DRAINFN"}
             /\ stage'[x].at \in {"EXECFN", "WAITFN", "DRAINFN"} => \A r, q \in stage'[x].reqs : r = q
             /\ stage'[x].at \in {"OPENFN", "CLOSE", "CLOSEFN"} => opncb'[stage'[x].opn].requestq = <<>>
  <2>1. CASE x = t
    <3>1. s.at \in InFn \cup {"DRAINFN"} /\ s.reqs = Q /\ Q # {} /\ (s.at = "WAITANY" \/ Single(Q))
      BY DEF Entering
    <3>2. s.at \notin {"OPENFN", "CLOSE", "CLOSEFN"} /\ (s.at \in {"EXECFN", "WAITFN", "DRAINFN"} => s.at # "WAITANY")
      BY <3>1 DEF InFn
    <3> QED BY <1>0, <2>1, <3>1, <3>2 DEF Single
  <2>2. CASE x # t
    <3>1. stage'[x] = stage[x] /\ ~Has(x, o)
      BY <1>0, <2>2 DEF Entering
    <3>2. stage[x].at \in {"OPENFN", "CLOSE", "CLOSEFN"} => opncb'[stage[x].opn].requestq = <<>>
      <4>1. stage[x].at \in {"OPENFN", "CLOSE", "CLOSEFN"} => stage[x].opn \in Opn /\ stage[x].opn # o
        BY <3>1 DEF Has, Holding, Closing, BlocksSound
      <4> QED BY <4>1 DEF QueuesSound, Entering
    <3> QED BY <3>1, <3>2 DEF QueuesSound
  <2> QED BY <2>1, <2>2
<1> QED BY <1>1, <1>2, <1>3 DEF QueuesSound

(* Nobody had them there, and now t has.                                   *)
EntersAlone(t, s, Q) ==
  \A r \in Q : /\ reqcb[r] = NODEV \/ reqcb[r].tskid = NULL
               /\ reqcb'[r].tskid = IF s.at = "DRAINFN" THEN NULL ELSE t

LEMMA RequestsEntering ==
  ASSUME DevTypeOK, BlocksSound, RequestsSound, NEW t \in Tsk, NEW s, NEW o \in Opn, NEW Q,
         Entering(t, s, o, Q), EntersAlone(t, s, Q)
  PROVE  RequestsSound'
<1>0. stage'[t] = s /\ s.reqs = Q /\ s.opn = o /\ stage[t].reqs = {} /\ Q \subseteq Req
      /\ \A x \in Tsk : x # t => stage'[x] = stage[x] /\ ~Has(x, o)
  BY DEF Becomes, Entering
<1>4. /\ \A r \in Req : r \notin Q => reqcb'[r] = reqcb[r]
      /\ \A r \in Q : /\ reqcb[r] = NODEV \/ (reqcb[r].opn = o /\ reqcb[r].tskid = NULL)
                      /\ reqcb'[r] # NODEV /\ reqcb'[r].opn = o
                      /\ reqcb'[r].tskid = IF s.at = "DRAINFN" THEN NULL ELSE t
  BY DEF Entering, EntersAlone
<1>1. ASSUME NEW r \in Req, reqcb'[r] # NODEV, reqcb'[r].tskid # NULL PROVE r \in stage'[reqcb'[r].tskid].reqs
  <2>1. CASE r \in Q
    BY <1>0, <1>1, <1>4, <2>1
  <2>2. CASE r \notin Q
    <3>1. reqcb'[r] = reqcb[r] /\ reqcb[r] # NODEV /\ reqcb[r].tskid \in Tsk \cup {NULL}
      BY <1>1, <1>4, <2>2, RequestKnown
    <3>2. r \in stage[reqcb[r].tskid].reqs
      BY <1>1, <3>1 DEF RequestsSound
    <3> QED BY <1>0, <1>1, <3>1, <3>2
  <2> QED BY <2>1, <2>2
<1>3. ASSUME NEW x \in Tsk, NEW r \in stage'[x].reqs
      PROVE  /\ reqcb'[r] # NODEV /\ reqcb'[r].opn = stage'[x].opn
             /\ reqcb'[r].tskid = IF stage'[x].at = "DRAINFN" THEN NULL ELSE x
  <2>1. CASE x = t
    BY <1>0, <1>4, <2>1
  <2>2. CASE x # t
    <3>1. stage'[x] = stage[x] /\ ~Has(x, o)
      BY <1>0, <2>2
    <3>2. r \in Req /\ reqcb[r] # NODEV /\ reqcb[r].opn = stage[x].opn
          /\ reqcb[r].tskid = IF stage[x].at = "DRAINFN" THEN NULL ELSE x
      BY <3>1, TaskKnown DEF RequestsSound
    <3>3. r \notin Q
      <4>1. stage[x].at = "DRAINFN" => stage[x].opn # o
        BY <3>1 DEF Has, Holding, Closing
      <4>2. x # NULL
        BY TaskKnown
      <4> QED BY <1>4, <3>2, <4>1, <4>2
    <3> QED BY <1>4, <3>1, <3>2, <3>3
  <2> QED BY <2>1, <2>2
<1> QED BY <1>1, <1>3 DEF RequestsSound

(* A task leaves the driver; of the requests in gone, none is left.        *)
Leaving(t, s, gone) ==
  /\ Becomes(t, s) /\ s.reqs = {} /\ s.at \notin InFn \cup {"DRAINFN", "OPENFN", "CLOSE", "CLOSEFN"}
  /\ \A p \in Opn :
       /\ opncb'[p] = NODEV <=> opncb[p] = NODEV
       /\ opncb[p] # NODEV => /\ opncb'[p].requestq \in Seq(Req) /\ IsInjective(opncb'[p].requestq)
                              /\ ToSet(opncb'[p].requestq) = ToSet(opncb[p].requestq) \ gone
  /\ \A r \in Req : /\ r \in gone => reqcb'[r] = NODEV
                    /\ r \notin gone => /\ reqcb'[r] = NODEV <=> reqcb[r] = NODEV
                                        /\ reqcb[r] # NODEV => reqcb'[r].opn = reqcb[r].opn

LEMMA QueuesLeaving ==
  ASSUME DevTypeOK, BlocksSound, QueuesSound, NEW t \in Tsk, NEW s, NEW gone, Leaving(t, s, gone)
  PROVE  QueuesSound'
<1>0. stage'[t] = s /\ s.reqs = {} /\ s.at \notin InFn \cup {"DRAINFN", "OPENFN", "CLOSE", "CLOSEFN"}
      /\ \A x \in Tsk : x # t => stage'[x] = stage[x]
  BY DEF Becomes, Leaving
<1>1. ASSUME NEW r \in Req, reqcb'[r] # NODEV PROVE opncb'[reqcb'[r].opn] # NODEV
  <2>1. reqcb[r] # NODEV /\ reqcb'[r].opn = reqcb[r].opn
    BY <1>1 DEF Leaving
  <2>2. reqcb[r].opn \in Opn /\ opncb[reqcb[r].opn] # NODEV
    BY <2>1, RequestKnown DEF QueuesSound
  <2> QED BY <2>1, <2>2 DEF Leaving
<1>2. ASSUME NEW p \in Opn, opncb'[p] # NODEV
      PROVE  /\ IsInjective(opncb'[p].requestq)
             /\ ToSet(opncb'[p].requestq) = {r \in Req : reqcb'[r] # NODEV /\ reqcb'[r].opn = p}
  <2>1. opncb[p] # NODEV
    BY <1>2 DEF Leaving
  <2>2. ToSet(opncb[p].requestq) = {r \in Req : reqcb[r] # NODEV /\ reqcb[r].opn = p}
    BY <2>1 DEF QueuesSound
  <2>3. \A r \in Req : reqcb'[r] # NODEV /\ reqcb'[r].opn = p <=> r \notin gone /\ reqcb[r] # NODEV /\ reqcb[r].opn = p
    BY DEF Leaving
  <2>4. IsInjective(opncb'[p].requestq) /\ ToSet(opncb'[p].requestq) = ToSet(opncb[p].requestq) \ gone
    BY <2>1 DEF Leaving
  <2> QED BY <2>2, <2>3, <2>4
<1>3. ASSUME NEW x \in Tsk
      PROVE  /\ stage'[x].reqs # {} <=> stage'[x].at \in InFn \cup {"DRAINFN"}
             /\ stage'[x].at \in {"EXECFN", "WAITFN", "DRAINFN"} => \A r, q \in stage'[x].reqs : r = q
             /\ stage'[x].at \in {"OPENFN", "CLOSE", "CLOSEFN"} => opncb'[stage'[x].opn].requestq = <<>>
  <2>1. CASE x = t
    BY <1>0, <2>1
  <2>2. CASE x # t
    <3>1. stage'[x] = stage[x]
      BY <1>0, <2>2
    <3>2. stage[x].at \in {"OPENFN", "CLOSE", "CLOSEFN"} => opncb'[stage[x].opn].requestq = <<>>
      <4> SUFFICES ASSUME stage[x].at \in {"OPENFN", "CLOSE", "CLOSEFN"} PROVE opncb'[stage[x].opn].requestq = <<>>
        OBVIOUS
      <4> DEFINE p == stage[x].opn
      <4>1. p \in Opn /\ Has(x, p)
        BY DEF BlocksSound, Has, Holding, Closing
      <4>2. opncb[p] # NODEV /\ opncb[p].requestq = <<>>
        BY <4>1 DEF BlocksSound, QueuesSound
      <4>3. ToSet(opncb[p].requestq) = {}
        BY <4>2 DEF ToSet
      <4> HIDE DEF p
      <4>4. opncb'[p].requestq \in Seq(Req) /\ ToSet(opncb'[p].requestq) = {}
        BY <4>1, <4>2, <4>3 DEF Leaving
      <4>5. opncb'[p].requestq = <<>>
        BY <4>4, EmptyQueue
      <4> QED BY <4>5 DEF p
    <3> QED BY <3>1, <3>2 DEF QueuesSound
  <2> QED BY <2>1, <2>2
<1> QED BY <1>1, <1>2, <1>3 DEF QueuesSound

(* The others stay where they are.                                         *)
LeavesAlone(t, gone) ==
  /\ stage[t].reqs # {} /\ gone \subseteq stage[t].reqs
  /\ \A r \in Req : /\ r \notin stage[t].reqs => reqcb'[r] = reqcb[r]
                    /\ r \in stage[t].reqs \ gone => reqcb'[r].tskid = NULL

LEMMA RequestsLeaving ==
  ASSUME DevTypeOK, BlocksSound, RequestsSound, NEW t \in Tsk, NEW s, NEW gone,
         Leaving(t, s, gone), LeavesAlone(t, gone)
  PROVE  RequestsSound'
<1> DEFINE Q == stage[t].reqs
<1>0. stage'[t] = s /\ s.reqs = {} /\ \A x \in Tsk : x # t => stage'[x] = stage[x]
  BY DEF Becomes, Leaving
<1>1. \A r \in Req : /\ r \notin Q => reqcb'[r] = reqcb[r]
                     /\ r \in Q => reqcb'[r] = NODEV \/ reqcb'[r].tskid = NULL
  BY DEF LeavesAlone, Leaving
<1>2. \A x \in Tsk : x # t => stage[x].reqs \cap Q = {}
  BY ReqsApart
<1>3. ASSUME NEW r \in Req, reqcb'[r] # NODEV, reqcb'[r].tskid # NULL PROVE r \in stage'[reqcb'[r].tskid].reqs
  <2>1. r \notin Q /\ reqcb'[r] = reqcb[r] /\ reqcb[r] # NODEV /\ reqcb[r].tskid \in Tsk \cup {NULL}
    BY <1>1, <1>3, RequestKnown
  <2>2. r \in stage[reqcb[r].tskid].reqs
    BY <1>3, <2>1 DEF RequestsSound
  <2> QED BY <1>0, <1>3, <2>1, <2>2
<1>4. ASSUME NEW x \in Tsk, NEW r \in stage'[x].reqs
      PROVE  /\ reqcb'[r] # NODEV /\ reqcb'[r].opn = stage'[x].opn
             /\ reqcb'[r].tskid = IF stage'[x].at = "DRAINFN" THEN NULL ELSE x
  <2>1. x # t /\ stage'[x] = stage[x]
    BY <1>0
  <2>2. r \in Req /\ r \notin Q /\ reqcb[r] # NODEV /\ reqcb[r].opn = stage[x].opn
        /\ reqcb[r].tskid = IF stage[x].at = "DRAINFN" THEN NULL ELSE x
    BY <1>2, <2>1, TaskKnown DEF RequestsSound
  <2> QED BY <1>1, <2>1, <2>2
<1> QED BY <1>3, <1>4 DEF RequestsSound

-----------------------------------------------------------------------------
(* Aborts.  Who uses the driver has its requests there, of a descriptor    *)
(* that is open.                                                           *)
LEMMA UsersKnown ==
  ASSUME DevTypeOK, BlocksSound, QueuesSound, RequestsSound, NEW o \in Opn
  PROVE  /\ IsFiniteSet(Users(o)) /\ Users(o) \subseteq Tsk
         /\ Users(o) # {} => opncb[o] # NODEV
<1>1. Users(o) \subseteq Tsk
  BY DEF Users
<1>2. ASSUME NEW t \in Users(o) PROVE opncb[o] # NODEV
  <2>1. t \in Tsk /\ stage[t].at \in InFn /\ stage[t].opn = o
    BY <1>2 DEF Users
  <2>2. PICK r \in stage[t].reqs : TRUE
    BY <2>1 DEF QueuesSound
  <2>3. r \in Req /\ reqcb[r] # NODEV /\ reqcb[r].opn = o
    BY <2>1, <2>2, TaskKnown DEF RequestsSound
  <2> QED BY <2>3 DEF QueuesSound
<1> QED BY <1>1, <1>2, DevAssumption, FS_Subset

(* Who is in the driver, and who aborts, is a third.                       *)
LEMMA AtApart ==
  /\ InFn \cap (Aborting \cup Aborted \cup {"OPENFN", "IDLE", "ABORT"}) = {} /\ "WAITANY" \in InFn
  /\ Aborting \cup Aborted \cup {"OPENFN"} \subseteq Holding
  BY DEF InFn, Aborting, Aborted, Holding, Closing

LEMMA AbortsKept ==
  ASSUME DevTypeOK, BlocksSound, QueuesSound, RequestsSound, AbortsSound, NEW t \in Tsk, NEW s, Becomes(t, s),
         stage[t].at \notin InFn, s.at \notin InFn,
         \A o \in Opn : (\E x \in Tsk : x # t /\ Has(x, o)) => opncb'[o] = opncb[o],
         \A o \in Opn : opncb'[o] # NODEV =>
           /\ IF opncb[o] = NODEV THEN opncb'[o].nwaireq = 0
              ELSE opncb'[o].nwaireq = opncb[o].nwaireq /\ opncb'[o].res = opncb[o].res
           /\ \/ opncb'[o].abort_tskid = NULL
              \/ opncb'[o].abort_tskid = t /\ Has(t, o)' /\ s.at \in Aborting
                 /\ opncb'[o].abort_cnt = Cardinality(Users(o))
              \/ opncb[o] # NODEV /\ opncb[o].abort_tskid # t
                 /\ opncb'[o].abort_tskid = opncb[o].abort_tskid /\ opncb'[o].abort_cnt = opncb[o].abort_cnt,
         s.at \in Aborted \cup {"OPENFN"} => Users(s.opn) = {},
         s.at \in Aborting => opncb'[s.opn].abort_tskid = t,
         s.at = "SYNC" /\ Users(s.opn) = {} => t \in diswai',
         \A x : x # t => (x \in diswai' <=> x \in diswai),
         t \in diswai' => s.at \in Aborting \cup Aborted /\ s.clean = NULL /\ Users(s.opn) = {}
  PROVE  AbortsSound'
<1>0. stage'[t] = s /\ \A x \in Tsk : x # t => stage'[x] = stage[x]
  BY DEF Becomes
<1>1. \A o : Users(o)' = Users(o)
  <2>1. \A x \in Tsk : \A o : stage'[x].at \in InFn /\ stage'[x].opn = o <=> stage[x].at \in InFn /\ stage[x].opn = o
    BY <1>0
  <2> QED BY <2>1 DEF Users
<1>2. ASSUME NEW o \in Opn, opncb'[o] # NODEV, opncb'[o].abort_tskid # NULL
      PROVE  /\ Has(opncb[o].abort_tskid, o)' /\ stage'[opncb'[o].abort_tskid].at \in Aborting
             /\ opncb'[o].abort_cnt = Cardinality(Users(o)')
  <2>1. CASE opncb'[o].abort_tskid = t /\ Has(t, o)' /\ s.at \in Aborting
             /\ opncb'[o].abort_cnt = Cardinality(Users(o))
    BY <1>0, <1>1, <2>1
  <2>2. CASE opncb[o] # NODEV /\ opncb[o].abort_tskid # t
             /\ opncb'[o].abort_tskid = opncb[o].abort_tskid /\ opncb'[o].abort_cnt = opncb[o].abort_cnt
    <3> DEFINE x == opncb[o].abort_tskid
    <3>1. x \in Tsk /\ x # t /\ Has(x, o) /\ stage[x].at \in Aborting /\ opncb[o].abort_cnt = Cardinality(Users(o))
      BY <1>2, <2>2, BlockKnown DEF AbortsSound, BlockAborts
    <3> QED BY <1>0, <1>1, <2>2, <3>1 DEF Has
  <2> QED BY <1>2, <2>1, <2>2
<1>3. ASSUME NEW o \in Opn, opncb'[o] # NODEV
      PROVE  /\ IF opncb'[o].nwaireq > 0
                THEN \E x \in Tsk : Users(o)' = {x} /\ stage'[x].at = "WAITANY"
                ELSE opncb'[o].nwaireq = 0 /\ \A x \in Users(o)' : stage'[x].at # "WAITANY"
             /\ \A x \in Users(o)' : Resid[x] = opncb'[o].res
  <2>1. \A x \in Users(o) : stage'[x] = stage[x]
    BY <1>0 DEF Users
  <2>2. CASE opncb[o] = NODEV
    <3>1. Users(o) = {} /\ opncb'[o].nwaireq = 0
      BY <1>3, <2>2, UsersKnown
    <3> QED BY <1>1, <3>1
  <2>3. CASE opncb[o] # NODEV
    <3>1. opncb'[o].nwaireq = opncb[o].nwaireq /\ opncb'[o].res = opncb[o].res
      BY <1>3, <2>3
    <3>2. /\ IF opncb[o].nwaireq > 0
             THEN \E x \in Tsk : Users(o) = {x} /\ stage[x].at = "WAITANY"
             ELSE opncb[o].nwaireq = 0 /\ \A x \in Users(o) : stage[x].at # "WAITANY"
          /\ \A x \in Users(o) : Resid[x] = opncb[o].res
      BY <2>3 DEF AbortsSound, BlockAborts
    <3> QED BY <1>1, <2>1, <3>1, <3>2
  <2> QED BY <2>2, <2>3
<1>4. ASSUME NEW x \in Tsk PROVE TaskAborts(x)'
  <2>1. CASE x = t
    BY <1>0, <1>1, <2>1 DEF TaskAborts
  <2>2. CASE x # t
    <3>1. stage'[x] = stage[x] /\ (x \in diswai' <=> x \in diswai)
      BY <1>0, <2>2
    <3>2. stage[x].at \in Aborting => opncb'[stage[x].opn] = opncb[stage[x].opn]
      <4>1. stage[x].at \in Aborting => stage[x].opn \in Opn /\ Has(x, stage[x].opn)
        BY AtApart DEF BlocksSound, Has
      <4> QED BY <2>2, <4>1
    <3>3. TaskAborts(x)
      BY DEF AbortsSound
    <3> QED BY <1>1, <3>1, <3>2, <3>3 DEF TaskAborts
  <2> QED BY <2>1, <2>2
<1>5. diswai' \subseteq Tsk
  BY DEF AbortsSound
<1>6. \A o \in Opn : opncb'[o] # NODEV => BlockAborts(o)'
  BY <1>2, <1>3 DEF BlockAborts
<1> QED BY <1>4, <1>5, <1>6 DEF AbortsSound

LEMMA AbortsEntered ==
  ASSUME DevTypeOK, BlocksSound, QueuesSound, RequestsSound, AbortsSound, NEW t \in Tsk, NEW s, Becomes(t, s),
         stage[t] = Idle, s.at \in InFn, NEW o \in Opn, s.opn = o, opncb[o] # NODEV, opncb[o].resid # NULL,
         \A p \in Opn : p # o => opncb'[p] = opncb[p],
         opncb'[o].abort_tskid = opncb[o].abort_tskid, diswai' = diswai,
         opncb'[o].res = opncb[o].res, opncb[o].res = Resid[t],
         IF s.at = "WAITANY" THEN opncb'[o].nwaireq > 0 /\ Users(o) = {}
         ELSE opncb[o].nwaireq = 0 /\ opncb'[o].nwaireq = 0
  PROVE  AbortsSound'
<1>0. stage'[t] = s /\ \A x \in Tsk : x # t => stage'[x] = stage[x]
  BY DEF Becomes
<1>1. \A x \in Tsk : ~Has(x, o)
  BY DEF BlocksSound
<1>2. stage[t].at \notin InFn
  BY IdleIs
<1>3. Users(o)' = Users(o) \cup {t} /\ \A p : p # o => Users(p)' = Users(p)
  <2>1. \A x \in Tsk : \A p : stage'[x].at \in InFn /\ stage'[x].opn = p
                           <=> (x = t /\ p = o) \/ (stage[x].at \in InFn /\ stage[x].opn = p)
    BY <1>0, <1>2
  <2> QED BY <2>1 DEF Users
<1>4. opncb'[o].abort_tskid = NULL
  BY <1>1, BlockKnown DEF AbortsSound, BlockAborts
<1>5. ASSUME NEW p \in Opn, opncb'[p] # NODEV
      PROVE  /\ opncb'[p].abort_tskid # NULL =>
                  /\ Has(opncb[p].abort_tskid, p)' /\ stage'[opncb'[p].abort_tskid].at \in Aborting
                  /\ opncb'[p].abort_cnt = Cardinality(Users(p)')
             /\ IF opncb'[p].nwaireq > 0
                THEN \E x \in Tsk : Users(p)' = {x} /\ stage'[x].at = "WAITANY"
                ELSE opncb'[p].nwaireq = 0 /\ \A x \in Users(p)' : stage'[x].at # "WAITANY"
             /\ \A x \in Users(p)' : Resid[x] = opncb'[p].res
  <2>1. CASE p = o
    <3>1. \A x \in Users(o) : stage[x].at \in InFn /\ x # t /\ x \in Tsk
      BY <1>2 DEF Users
    <3>2. /\ opncb[o].nwaireq = 0 => \A x \in Users(o) : stage[x].at # "WAITANY"
          /\ \A x \in Users(o) : Resid[x] = opncb[o].res
      BY DEF AbortsSound, BlockAborts
    <3>3. CASE s.at = "WAITANY"
      BY <1>0, <1>3, <1>4, <2>1, <3>3
    <3>4. CASE s.at # "WAITANY"
      BY <1>0, <1>3, <1>4, <2>1, <3>1, <3>2, <3>4
    <3> QED BY <3>3, <3>4
  <2>2. CASE p # o
    <3>1. opncb'[p] = opncb[p] /\ Users(p)' = Users(p) /\ opncb[p] # NODEV
      BY <1>3, <1>5, <2>2
    <3>2. \A x \in Users(p) : x \in Tsk /\ x # t
      BY <1>2 DEF Users
    <3>3. \A x \in Tsk : Has(x, p) => x # t
      BY IdleIs DEF Has
    <3>4. BlockAborts(p)
      BY <3>1 DEF AbortsSound
    <3>5. opncb[p].abort_tskid \in Tsk \cup {NULL}
      BY <3>1, BlockKnown
    <3>6. opncb[p].abort_tskid # NULL => stage'[opncb[p].abort_tskid] = stage[opncb[p].abort_tskid]
      BY <1>0, <3>3, <3>4, <3>5 DEF BlockAborts
    <3>7. \A x \in Users(p) : stage'[x] = stage[x]
      BY <1>0, <3>2
    <3> QED BY <3>1, <3>4, <3>6, <3>7 DEF Has, BlockAborts
  <2> QED BY <2>1, <2>2
<1>6. ASSUME NEW x \in Tsk PROVE TaskAborts(x)'
  <2>0. TaskAborts(x)
    BY DEF AbortsSound
  <2>1. CASE x = t
    <3>1. s.at \notin Aborted \cup {"OPENFN"} \cup Aborting /\ s.at # "SYNC"
      BY AtApart DEF Aborting
    <3>2. stage[t].at \notin Aborting \cup Aborted
      BY IdleIs, AtApart
    <3>3. t \notin diswai
      BY <2>0, <2>1, <3>2 DEF TaskAborts
    <3> QED BY <1>0, <2>1, <3>1, <3>3 DEF TaskAborts
  <2>2. CASE x # t
    <3>1. stage'[x] = stage[x]
      BY <1>0, <2>2
    <3>2. stage[x].at \in Aborted \cup {"OPENFN"} \cup Aborting => stage[x].opn \in Opn /\ stage[x].opn # o
      BY <1>1, AtApart DEF BlocksSound, Has
    <3>3. stage[x].at = "SYNC" => stage[x].at \in Aborting
      BY DEF Aborting
    <3> QED BY <1>3, <2>0, <3>1, <3>2, <3>3 DEF TaskAborts
  <2> QED BY <2>1, <2>2
<1>7. diswai' \subseteq Tsk
  BY DEF AbortsSound
<1>8. \A p \in Opn : opncb'[p] # NODEV => BlockAborts(p)'
  BY <1>5 DEF BlockAborts
<1> QED BY <1>6, <1>7, <1>8 DEF AbortsSound

LEMMA AbortsLeft ==
  ASSUME DevTypeOK, BlocksSound, CleanersSound, QueuesSound, RequestsSound, AbortsSound,
         NEW t \in Tsk, Becomes(t, Idle),
         stage[t].at \in InFn, NEW o \in Opn, stage[t].opn = o,
         opncb[o] # NODEV, opncb'[o] # NODEV, \A p \in Opn : p # o => opncb'[p] = opncb[p],
         opncb'[o].abort_tskid = opncb[o].abort_tskid, opncb'[o].res = opncb[o].res,
         opncb[o].abort_tskid # NULL => opncb'[o].abort_cnt = opncb[o].abort_cnt - 1,
         opncb'[o].nwaireq = IF stage[t].at = "WAITANY" THEN 0 ELSE opncb[o].nwaireq,
         SyncSignalDM(opncb[o])
  PROVE  AbortsSound'
<1>0. stage'[t] = Idle /\ \A x \in Tsk : x # t => stage'[x] = stage[x]
  BY DEF Becomes
<1>1. Users(o)' = Users(o) \ {t} /\ \A p : p # o => Users(p)' = Users(p)
  <2>1. \A x \in Tsk : \A p : stage'[x].at \in InFn /\ stage'[x].opn = p
                                <=> x # t /\ stage[x].at \in InFn /\ stage[x].opn = p
    BY <1>0, IdleIs
  <2>2. \A p : p # o => t \notin Users(p)
    BY DEF Users
  <2> QED BY <2>1, <2>2 DEF Users
<1>2. /\ t \in Users(o) /\ IsFiniteSet(Users(o)) /\ Users(o) \subseteq Tsk
      /\ Cardinality(Users(o)) \in Nat /\ Cardinality(Users(o)') = Cardinality(Users(o)) - 1
      /\ Cardinality(Users(o)') = 0 <=> Users(o)' = {}
  <2>1. t \in Users(o) /\ IsFiniteSet(Users(o)) /\ Users(o) \subseteq Tsk
    BY UsersKnown DEF Users
  <2> DEFINE U == Users(o)
             V == Users(o)'
  <2>2. V = U \ {t}
    BY <1>1
  <2> HIDE DEF U, V
  <2>3. IsFiniteSet(U) /\ t \in U
    BY <2>1 DEF U
  <2>4. IsFiniteSet(V) /\ Cardinality(V) = Cardinality(U) - 1
    BY <2>2, <2>3, FS_RemoveElement
  <2>5. Cardinality(U) \in Nat
    BY <2>3, FS_CardinalityType
  <2>6. Cardinality(V) = 0 <=> V = {}
    BY <2>4, FS_EmptySet
  <2> QED BY <2>1, <2>4, <2>5, <2>6 DEF U, V
<1> DEFINE a == opncb[o].abort_tskid
<1>3. a # NULL => /\ a \in Tsk /\ a # t /\ stage'[a] = stage[a] /\ Has(a, o) /\ stage[a].opn = o /\ stage[a].clean = NULL
                  /\ stage[a].at \in Aborting /\ opncb[o].abort_cnt = Cardinality(Users(o)) /\ a \notin diswai
  <2> SUFFICES ASSUME a # NULL
               PROVE  /\ a \in Tsk /\ a # t /\ stage'[a] = stage[a] /\ Has(a, o) /\ stage[a].opn = o
                      /\ stage[a].clean = NULL
                      /\ stage[a].at \in Aborting /\ opncb[o].abort_cnt = Cardinality(Users(o)) /\ a \notin diswai
    OBVIOUS
  <2>1. a \in Tsk
    BY BlockKnown
  <2>2. Has(a, o) /\ stage[a].at \in Aborting /\ opncb[o].abort_cnt = Cardinality(Users(o))
        /\ Resid[t] = opncb[o].res
    BY <1>2 DEF AbortsSound, BlockAborts
  <2>3. stage[a].opn = o
    BY <2>2 DEF Has
  <2>4. a # t
    BY <2>2, AtApart
  <2>5. a \notin diswai
    BY <1>2, <2>1, <2>3 DEF AbortsSound, TaskAborts
  <2>6. stage[a].clean = NULL
    <3>1. opncb[o].res = Owner(a)
      BY <2>1, <2>2 DEF BlocksSound
    <3>2. stage[t] # Idle
      BY IdleIs
    <3> QED BY <2>1, <2>2, <2>4, <3>1, <3>2 DEF CleanersSound, Owner
  <2> QED BY <1>0, <2>1, <2>2, <2>3, <2>4, <2>5, <2>6
<1>4. diswai' = IF a # NULL /\ Cardinality(Users(o)) = 1 THEN diswai \cup {a} ELSE diswai
  BY <1>3 DEF SyncSignalDM, Counted
<1>5. ASSUME NEW p \in Opn, opncb'[p] # NODEV
      PROVE  /\ opncb'[p].abort_tskid # NULL =>
                  /\ Has(opncb[p].abort_tskid, p)' /\ stage'[opncb'[p].abort_tskid].at \in Aborting
                  /\ opncb'[p].abort_cnt = Cardinality(Users(p)')
             /\ IF opncb'[p].nwaireq > 0
                THEN \E x \in Tsk : Users(p)' = {x} /\ stage'[x].at = "WAITANY"
                ELSE opncb'[p].nwaireq = 0 /\ \A x \in Users(p)' : stage'[x].at # "WAITANY"
             /\ \A x \in Users(p)' : Resid[x] = opncb'[p].res
  <2>1. CASE p = o
    <3>1. opncb'[o].abort_tskid # NULL =>
                  /\ Has(opncb[o].abort_tskid, o)' /\ stage'[opncb'[o].abort_tskid].at \in Aborting
                  /\ opncb'[o].abort_cnt = Cardinality(Users(o)')
      BY <1>2, <1>3 DEF Has
    <3>2. /\ IF opncb[o].nwaireq > 0
             THEN \E x \in Tsk : Users(o) = {x} /\ stage[x].at = "WAITANY"
             ELSE opncb[o].nwaireq = 0 /\ \A x \in Users(o) : stage[x].at # "WAITANY"
          /\ \A x \in Users(o) : Resid[x] = opncb[o].res
      BY DEF AbortsSound, BlockAborts
    <3>3. opncb'[o].nwaireq = 0 /\ \A x \in Users(o)' : stage'[x].at # "WAITANY"
      <4>1. CASE opncb[o].nwaireq > 0
        <5>1. Users(o) = {t} /\ stage[t].at = "WAITANY"
          BY <1>2, <3>2, <4>1
        <5> QED BY <1>1, <5>1
      <4>2. CASE ~(opncb[o].nwaireq > 0)
        <5>1. opncb[o].nwaireq = 0 /\ stage[t].at # "WAITANY"
          BY <1>2, <3>2, <4>2
        <5>2. \A x \in Users(o)' : x \in Users(o) /\ x \in Tsk /\ x # t
          BY <1>1, <1>2
        <5> QED BY <1>0, <3>2, <4>2, <5>1, <5>2
      <4> QED BY <4>1, <4>2
    <3>4. \A x \in Users(o)' : Resid[x] = opncb'[o].res
      BY <1>1, <3>2
    <3> QED BY <2>1, <3>1, <3>3, <3>4
  <2>2. CASE p # o
    <3>1. opncb'[p] = opncb[p] /\ Users(p)' = Users(p) /\ opncb[p] # NODEV
      BY <1>1, <1>5, <2>2
    <3>2. \A x \in Users(p) : x \in Tsk /\ x # t
      BY <2>2 DEF Users
    <3>3. BlockAborts(p)
      BY <3>1 DEF AbortsSound
    <3>4. opncb[p].abort_tskid \in Tsk \cup {NULL}
      BY <3>1, BlockKnown
    <3>5. opncb[p].abort_tskid # NULL => stage'[opncb[p].abort_tskid] = stage[opncb[p].abort_tskid]
      BY <1>0, <2>2, <3>3, <3>4, AtApart DEF Has, BlockAborts
    <3>6. \A x \in Users(p) : stage'[x] = stage[x]
      BY <1>0, <3>2
    <3> QED BY <3>1, <3>3, <3>5, <3>6 DEF Has, BlockAborts
  <2> QED BY <2>1, <2>2
<1>6. ASSUME NEW x \in Tsk PROVE TaskAborts(x)'
  <2>0. TaskAborts(x)
    BY DEF AbortsSound
  <2>1. CASE x = t
    <3>1. t \notin diswai'
      <4>1. t \notin diswai
        BY <2>0, <2>1, AtApart DEF TaskAborts
      <4> QED BY <1>3, <1>4, <4>1
    <3>2. "IDLE" \notin Aborted \cup {"OPENFN"} \cup Aborting
      BY AtApart, IdleIs
    <3> QED BY <1>0, <2>1, <3>1, <3>2, IdleIs DEF TaskAborts
  <2>2. CASE x # t
    <3>1. stage'[x] = stage[x]
      BY <1>0, <2>2
    <3>0. /\ Users(stage[x].opn) = {} => stage[x].opn # o /\ Users(stage[x].opn)' = {}
          /\ stage[x].opn # o => Users(stage[x].opn)' = Users(stage[x].opn)
      <4>1. stage[x].opn # o => Users(stage[x].opn)' = Users(stage[x].opn)
        BY <1>1, <3>1
      <4> QED BY <1>2, <4>1
    <3>2. stage[x].at \in Aborted \cup {"OPENFN"} => Users(stage[x].opn)' = {}
      BY <2>0, <3>0 DEF TaskAborts
    <3>3. stage[x].at \in Aborting => opncb'[stage[x].opn].abort_tskid = x
      <4>1. stage[x].at \in Aborting => stage[x].opn \in Opn
        BY AtApart DEF BlocksSound
      <4> QED BY <2>0, <4>1 DEF TaskAborts
    <3>4. stage[x].at = "SYNC" /\ Users(stage[x].opn)' = {} => x \in diswai'
      <4> SUFFICES ASSUME stage[x].at = "SYNC", Users(stage[x].opn)' = {}, x \notin diswai PROVE x \in diswai'
        BY <1>4
      <4>1. stage[x].at \in Aborting /\ stage[x].opn = o /\ opncb[o].abort_tskid = x
        BY <2>0, <3>0 DEF TaskAborts, Aborting
      <4>2. a = x /\ a # NULL
        BY <4>1, TaskKnown
      <4>3. Cardinality(Users(o)) = 1
        <5>1. Users(o)' = {}
          BY <3>1, <4>1
        <5> QED BY <1>2, <5>1
      <4> QED BY <1>4, <4>2, <4>3
    <3>5. x \in diswai' => /\ stage[x].at \in Aborting \cup Aborted /\ stage[x].clean = NULL
                           /\ Users(stage[x].opn)' = {}
      <4>1. CASE x \in diswai
        BY <2>0, <3>0, <4>1 DEF TaskAborts
      <4>2. CASE x \notin diswai
        <5> SUFFICES ASSUME x \in diswai'
                     PROVE  /\ stage[x].at \in Aborting \cup Aborted /\ stage[x].clean = NULL
                            /\ Users(stage[x].opn)' = {}
          OBVIOUS
        <5>1. x = a /\ a # NULL /\ Cardinality(Users(o)) = 1
          BY <1>4, <4>2
        <5> QED BY <1>2, <1>3, <5>1
      <4> QED BY <4>1, <4>2
    <3> QED BY <3>1, <3>2, <3>3, <3>4, <3>5 DEF TaskAborts
  <2> QED BY <2>1, <2>2
<1>7. diswai' \subseteq Tsk
  BY <1>3, <1>4 DEF AbortsSound
<1>8. \A p \in Opn : opncb'[p] # NODEV => BlockAborts(p)'
  BY <1>5 DEF BlockAborts
<1> QED BY <1>6, <1>7, <1>8 DEF AbortsSound

(* The count that a close takes.                                           *)
LEMMA InProcessIs ==
  ASSUME DevTypeOK, BlocksSound, QueuesSound, RequestsSound, AbortsSound, NEW o \in Opn, opncb[o] # NODEV
  PROVE  /\ InProcess(o) = Cardinality(Users(o)) /\ InProcess(o) \in Nat
         /\ InProcess(o) = 0 <=> Users(o) = {}
<1>1. IsFiniteSet(Users(o)) /\ Cardinality(Users(o)) \in Nat
  BY UsersKnown, FS_CardinalityType
<1>2. IF opncb[o].nwaireq > 0
      THEN \E x \in Tsk : Users(o) = {x} /\ stage[x].at = "WAITANY"
      ELSE opncb[o].nwaireq = 0 /\ \A x \in Users(o) : stage[x].at # "WAITANY"
  BY DEF AbortsSound, BlockAborts
<1>3. CASE opncb[o].nwaireq > 0
  <2>1. InProcess(o) = 1
    BY <1>3 DEF InProcess
  <2>2. Cardinality(Users(o)) = 1
    BY <1>2, <1>3, FS_Singleton
  <2> QED BY <1>1, <2>1, <2>2, FS_EmptySet
<1>4. CASE ~(opncb[o].nwaireq > 0)
  <2> DEFINE R == {r \in Req : reqcb[r] # NODEV /\ reqcb[r].opn = o /\ reqcb[r].tskid # NULL}
             U == Users(o)
             f == [r \in R |-> reqcb[r].tskid]
  <2>1. InProcess(o) = Cardinality(R)
    BY <1>4 DEF InProcess
  <2>2. \A r \in R : /\ reqcb[r].tskid \in U /\ r \in stage[reqcb[r].tskid].reqs
                     /\ stage[reqcb[r].tskid].at \in {"EXECFN", "WAITFN"}
    <3> SUFFICES ASSUME NEW r \in R
                 PROVE  /\ reqcb[r].tskid \in U /\ r \in stage[reqcb[r].tskid].reqs
                        /\ stage[reqcb[r].tskid].at \in {"EXECFN", "WAITFN"}
      OBVIOUS
    <3>1. reqcb[r].tskid \in Tsk /\ r \in stage[reqcb[r].tskid].reqs
      BY RequestKnown DEF RequestsSound
    <3>2. /\ stage[reqcb[r].tskid].at \in InFn \cup {"DRAINFN"} /\ stage[reqcb[r].tskid].opn = o
          /\ stage[reqcb[r].tskid].at # "DRAINFN"
      BY <3>1 DEF QueuesSound, RequestsSound
    <3>3. reqcb[r].tskid \in U
      BY <3>1, <3>2 DEF Users
    <3>4. stage[reqcb[r].tskid].at # "WAITANY"
      BY <1>2, <1>4, <3>3
    <3> QED BY <3>1, <3>2, <3>3, <3>4 DEF InFn
  <2>3. \A x \in U : \E r \in R : reqcb[r].tskid = x
    <3> SUFFICES ASSUME NEW x \in U PROVE \E r \in R : reqcb[r].tskid = x
      OBVIOUS
    <3>1. x \in Tsk /\ stage[x].at \in InFn /\ stage[x].opn = o
      BY DEF Users
    <3>2. PICK r \in stage[x].reqs : TRUE
      BY <3>1 DEF QueuesSound
    <3>3. r \in Req /\ x # NULL
      BY <3>1, TaskKnown
    <3>4. stage[x].at # "DRAINFN"
      BY <3>1 DEF InFn
    <3>5. reqcb[r] # NODEV /\ reqcb[r].opn = o /\ reqcb[r].tskid = x
      BY <3>1, <3>4 DEF RequestsSound
    <3> QED BY <3>3, <3>5
  <2>4. \A r, q \in R : reqcb[r].tskid = reqcb[q].tskid => r = q
    <3> SUFFICES ASSUME NEW r \in R, NEW q \in R, reqcb[r].tskid = reqcb[q].tskid PROVE r = q
      OBVIOUS
    <3>1. reqcb[r].tskid \in Tsk
      BY RequestKnown
    <3>2. /\ r \in stage[reqcb[r].tskid].reqs /\ q \in stage[reqcb[r].tskid].reqs
          /\ stage[reqcb[r].tskid].at \in {"EXECFN", "WAITFN"}
      BY <2>2
    <3> QED BY <3>1, <3>2 DEF QueuesSound
  <2>5. IsFiniteSet(R)
    BY DevAssumption, FS_Subset
  <2> HIDE DEF R, U
  <2>6. f \in Surjection(R, U)
    BY <2>2, <2>3 DEF Surjection
  <2>7. f \in Injection(R, U)
    BY <2>2, <2>4 DEF Injection, IsInjective
  <2>8. Cardinality(U) = Cardinality(R)
    BY <2>5, <2>6, <2>7, FS_Surjection
  <2>9. Cardinality(U) \in Nat /\ (Cardinality(U) = 0 <=> U = {})
    BY <1>1, FS_EmptySet DEF U
  <2> QED BY <2>1, <2>8, <2>9 DEF U
<1> QED BY <1>3, <1>4

LEMMA InProcessCounts == ASSUME NEW o PROVE InProcess(o) \in Int
<1>1. IsFiniteSet({r \in Req : reqcb[r] # NODEV /\ reqcb[r].opn = o /\ reqcb[r].tskid # NULL})
  BY DevAssumption, FS_Subset
<1> QED BY <1>1, FS_CardinalityType DEF InProcess

-----------------------------------------------------------------------------
(* Suspension: who has disabled it, how often.                             *)
SusPairs(f) == {c \in Groups \X (1..MAX_DISSUS) : c[2] <= f[c[1]]}
Dissus(g, n) == {g} \X (1..n)

LEMMA SusHolderKept ==
  ASSUME NEW t \in Tsk, NEW s, Becomes(t, s), reg' = reg, dm' = dm,
         stage[t].at \notin Suspending, s.at \notin Suspending,
         \A x \in Tsk : reg = x <=> stage[x].at \in Suspending,
         dm # NULL => dm \in Tsk /\ stage[dm].at = "SUSPENDED"
  PROVE  /\ \A x \in Tsk : reg' = x <=> stage'[x].at \in Suspending
         /\ dm' # NULL => dm' \in Tsk /\ stage'[dm'].at = "SUSPENDED"
<1>0. stage'[t] = s /\ \A x \in Tsk : x # t => stage'[x] = stage[x]
  BY DEF Becomes
<1>1. "SUSPENDED" \in Suspending
  BY DEF Suspending
<1>2. ASSUME NEW x \in Tsk PROVE reg' = x <=> stage'[x].at \in Suspending
  <2>1. CASE x = t
    BY <1>0, <2>1
  <2>2. CASE x # t
    BY <1>0, <2>2
  <2> QED BY <2>1, <2>2
<1> QED BY <1>0, <1>1, <1>2

LEMMA SuspensionSame ==
  ASSUME SuspensionSound, NEW t \in Tsk, NEW s, Becomes(t, s), Suspension,
         stage[t].at \notin Suspending, s.at \notin Suspending
  PROVE  SuspensionSound'
<1>1. /\ \A x \in Tsk : reg' = x <=> stage'[x].at \in Suspending
      /\ dm' # NULL => dm' \in Tsk /\ stage'[dm'].at = "SUSPENDED"
  BY SusHolderKept DEF SuspensionSound, Suspension
<1> QED BY <1>1 DEF SuspensionSound, Suspension

LEMMA PairsCounted ==
  ASSUME NEW f \in [Groups -> 0..MAX_DISSUS]
  PROVE  /\ IsFiniteSet(SusPairs(f)) /\ Cardinality(SusPairs(f)) \in Nat
         /\ \A g \in Groups : /\ Dissus(g, f[g]) \subseteq SusPairs(f)
                              /\ IsFiniteSet(Dissus(g, f[g])) /\ Cardinality(Dissus(g, f[g])) = f[g]
                              /\ f[g] <= Cardinality(SusPairs(f))
<1>1. IsFiniteSet(Groups)
  <2> DEFINE h == [x \in Tsk |-> Resid[x]]
  <2>1. h \in Surjection(Tsk, Groups)
    BY DEF Surjection, Groups
  <2> QED BY <2>1, DevAssumption, FS_Surjection
<1>2. MAX_DISSUS \in Nat /\ IsFiniteSet(1..MAX_DISSUS)
  BY DevAssumption, FS_Interval
<1>3. IsFiniteSet(Groups \X (1..MAX_DISSUS))
  BY <1>1, <1>2, FS_Product
<1>4. SusPairs(f) \subseteq Groups \X (1..MAX_DISSUS)
  BY DEF SusPairs
<1>5. IsFiniteSet(SusPairs(f)) /\ Cardinality(SusPairs(f)) \in Nat
  BY <1>3, <1>4, FS_Subset, FS_CardinalityType
<1>6. ASSUME NEW g \in Groups
      PROVE  /\ Dissus(g, f[g]) \subseteq SusPairs(f)
             /\ IsFiniteSet(Dissus(g, f[g])) /\ Cardinality(Dissus(g, f[g])) = f[g]
             /\ f[g] <= Cardinality(SusPairs(f))
  <2>1. f[g] \in Nat /\ f[g] <= MAX_DISSUS
    BY <1>2
  <2>2. Dissus(g, f[g]) \subseteq SusPairs(f)
    <3> SUFFICES ASSUME NEW i \in 1..f[g] PROVE <<g, i>> \in SusPairs(f)
      BY DEF Dissus
    <3> QED BY <1>2, <2>1 DEF SusPairs
  <2> DEFINE n == f[g]
  <2>3. n \in Nat
    BY <2>1
  <2> HIDE DEF n
  <2>4. IsFiniteSet(1..n) /\ Cardinality(1..n) = n
    <3>1. 1 \in Int /\ n \in Int
      BY <2>3
    <3>2. IsFiniteSet(1..n) /\ Cardinality(1..n) = IF 1 > n THEN 0 ELSE n - 1 + 1
      BY <3>1, FS_Interval
    <3> QED BY <2>3, <3>2
  <2>5. IsFiniteSet({g}) /\ Cardinality({g}) = 1
    BY FS_Singleton
  <2>6. IsFiniteSet({g} \X (1..n)) /\ Cardinality({g} \X (1..n)) = Cardinality({g}) * Cardinality(1..n)
    BY <2>4, <2>5, FS_Product
  <2>7. IsFiniteSet(Dissus(g, n)) /\ Cardinality(Dissus(g, n)) = n
    BY <2>3, <2>4, <2>5, <2>6 DEF Dissus
  <2>8. Cardinality(Dissus(g, n)) <= Cardinality(SusPairs(f))
    BY <1>5, <2>2, FS_Subset DEF n
  <2> QED BY <2>2, <2>7, <2>8 DEF n
<1> QED BY <1>5, <1>6

LEMMA PairsMore ==
  ASSUME NEW f \in [Groups -> 0..MAX_DISSUS], NEW g \in Groups, Cardinality(SusPairs(f)) < MAX_DISSUS
  PROVE  LET h == [f EXCEPT ![g] = @ + 1]
         IN  /\ h \in [Groups -> 0..MAX_DISSUS]
             /\ Cardinality(SusPairs(h)) = Cardinality(SusPairs(f)) + 1
<1> DEFINE h == [f EXCEPT ![g] = @ + 1]
           i == f[g] + 1
<1>1. i \in 1..MAX_DISSUS /\ i \in Int /\ f[g] \in Int /\ MAX_DISSUS \in Nat
  BY PairsCounted, DevAssumption
<1>2. h \in [Groups -> 0..MAX_DISSUS]
  BY <1>1
<1>3. SusPairs(h) = SusPairs(f) \cup {<<g, i>>}
  <2> SUFFICES ASSUME NEW a \in Groups, NEW j \in 1..MAX_DISSUS
               PROVE  j <= h[a] <=> j <= f[a] \/ <<a, j>> = <<g, i>>
    BY <1>1 DEF SusPairs
  <2>1. CASE a = g
    <3>1. h[a] = i /\ f[a] = i - 1 /\ j \in Int
      BY <1>1, <2>1
    <3>2. j <= i <=> j <= i - 1 \/ j = i
      BY <1>1, <3>1
    <3> QED BY <2>1, <3>1, <3>2
  <2>2. CASE a # g
    BY <2>2
  <2> QED BY <2>1, <2>2
<1>4. <<g, i>> \notin SusPairs(f)
  BY <1>1 DEF SusPairs
<1> QED BY <1>2, <1>3, <1>4, PairsCounted, FS_AddElement

LEMMA PairsLess ==
  ASSUME NEW f \in [Groups -> 0..MAX_DISSUS], NEW g \in Groups, f[g] > 0
  PROVE  LET h == [f EXCEPT ![g] = @ - 1]
         IN  /\ h \in [Groups -> 0..MAX_DISSUS]
             /\ Cardinality(SusPairs(h)) = Cardinality(SusPairs(f)) - 1
<1> DEFINE h == [f EXCEPT ![g] = @ - 1]
           i == f[g]
<1>1. i \in 1..MAX_DISSUS /\ i \in Int /\ MAX_DISSUS \in Nat
  BY DevAssumption
<1>2. h \in [Groups -> 0..MAX_DISSUS]
  BY <1>1
<1>3. SusPairs(h) = SusPairs(f) \ {<<g, i>>}
  <2> SUFFICES ASSUME NEW a \in Groups, NEW j \in 1..MAX_DISSUS
               PROVE  j <= h[a] <=> j <= f[a] /\ <<a, j>> # <<g, i>>
    BY <1>1 DEF SusPairs
  <2>1. CASE a = g
    <3>1. h[a] = i - 1 /\ f[a] = i /\ j \in Int
      BY <1>1, <2>1
    <3>2. j <= i - 1 <=> j <= i /\ j # i
      BY <1>1, <3>1
    <3> QED BY <2>1, <3>1, <3>2
  <2>2. CASE a # g
    BY <2>2
  <2> QED BY <2>1, <2>2
<1>4. <<g, i>> \in SusPairs(f)
  BY <1>1 DEF SusPairs
<1> QED BY <1>2, <1>3, <1>4, PairsCounted, FS_RemoveElement

LEMMA PairsGone ==
  ASSUME NEW f \in [Groups -> 0..MAX_DISSUS], NEW g \in Groups
  PROVE  LET h == [f EXCEPT ![g] = 0]
         IN  /\ h \in [Groups -> 0..MAX_DISSUS]
             /\ Cardinality(SusPairs(h)) = Cardinality(SusPairs(f)) - f[g]
<1> DEFINE h == [f EXCEPT ![g] = 0]
           i == f[g]
<1>1. i \in 0..MAX_DISSUS /\ i \in Int /\ MAX_DISSUS \in Nat
  BY DevAssumption
<1>2. h \in [Groups -> 0..MAX_DISSUS]
  BY <1>1
<1>3. /\ SusPairs(f) = SusPairs(h) \cup Dissus(g, i)
      /\ SusPairs(h) \cap Dissus(g, i) = {}
  <2>1. ASSUME NEW a \in Groups, NEW j \in 1..MAX_DISSUS
        PROVE  /\ j <= f[a] <=> j <= h[a] \/ <<a, j>> \in Dissus(g, i)
               /\ ~(j <= h[a] /\ <<a, j>> \in Dissus(g, i))
    <3>1. CASE a = g
      BY <1>1, <3>1 DEF Dissus
    <3>2. CASE a # g
      BY <3>2 DEF Dissus
    <3> QED BY <3>1, <3>2
  <2>2. Dissus(g, i) \subseteq Groups \X (1..MAX_DISSUS)
    BY <1>1 DEF Dissus
  <2> QED BY <2>1, <2>2 DEF SusPairs
<1> HIDE DEF h
<1>4. IsFiniteSet(SusPairs(h)) /\ IsFiniteSet(Dissus(g, i)) /\ Cardinality(Dissus(g, i)) = i
      /\ Cardinality(SusPairs(h)) \in Nat
  BY <1>2, PairsCounted
<1>5. Cardinality(SusPairs(h) \cup Dissus(g, i))
        = Cardinality(SusPairs(h)) + Cardinality(Dissus(g, i)) - Cardinality(SusPairs(h) \cap Dissus(g, i))
  BY <1>4, FS_Union
<1>6. Cardinality({}) = 0
  BY FS_EmptySet
<1>7. Cardinality(SusPairs(h)) = Cardinality(SusPairs(f)) - f[g]
  <2>1. Cardinality(SusPairs(f)) = Cardinality(SusPairs(h) \cup Dissus(g, i))
    BY <1>3
  <2>2. Cardinality(SusPairs(h) \cap Dissus(g, i)) = 0
    BY <1>3, <1>6
  <2> QED BY <1>1, <1>4, <1>5, <2>1, <2>2
<1> QED BY <1>2, <1>7 DEF h

-----------------------------------------------------------------------------
(* What a task is at after each kind of step.                              *)
Ats == {"IDLE", "CLEAN", "SUSPEND"} \cup Holding \cup InFn \cup Suspending
NowAt(t, at, o, reqs, fn, clean) ==
  /\ Becomes(t, stage'[t]) /\ stage' \in [Tsk -> Stages]
  /\ stage'[t].at = at /\ stage'[t].opn = o /\ stage'[t].reqs = reqs
  /\ stage'[t].fn = fn /\ stage'[t].clean = clean

LEMMA Nows ==
  ASSUME DevTypeOK, NEW t \in Tsk
  PROVE  /\ \A at \in Ats, o \in Opn \cup {NULL}, reqs \in SUBSET Req, fn \in 0..1, g \in Groups \cup {NULL} :
              SetStage(t, Doing(at, o, reqs, fn, g)) => NowAt(t, at, o, reqs, fn, g)
         /\ \A at \in Ats :
              Goes(t, at) => NowAt(t, at, stage[t].opn, stage[t].reqs, stage[t].fn, stage[t].clean)
         /\ Returns(t) => NowAt(t, "IDLE", NULL, {}, 0, NULL) /\ stage'[t] = Idle
<1> USE DEF Ats
<1>0. stage \in [Tsk -> Stages] /\ stage[t] \in Stages
  BY DEF DevTypeOK
<1>1. ASSUME NEW at \in Ats, NEW o \in Opn \cup {NULL}, NEW reqs \in SUBSET Req, NEW fn \in 0..1,
             NEW g \in Groups \cup {NULL}, SetStage(t, Doing(at, o, reqs, fn, g))
      PROVE  NowAt(t, at, o, reqs, fn, g) /\ stage'[t] = Doing(at, o, reqs, fn, g)
  <2> DEFINE s == Doing(at, o, reqs, fn, g)
  <2>1. s \in Stages
    BY DEF Doing, Stages
  <2>2. Becomes(t, s) /\ stage' \in [Tsk -> Stages]
    BY <1>1, <2>1, Becoming DEF SetStage
  <2>3. stage'[t] = s
    BY <2>2 DEF Becomes
  <2> QED BY <2>2, <2>3 DEF NowAt, Doing
<1>2. ASSUME NEW at \in Ats, Goes(t, at)
      PROVE  NowAt(t, at, stage[t].opn, stage[t].reqs, stage[t].fn, stage[t].clean)
  <2> DEFINE s == Doing(at, stage[t].opn, stage[t].reqs, stage[t].fn, stage[t].clean)
  <2>1. s \in Stages /\ [stage[t] EXCEPT !.at = at] = s
    BY <1>0 DEF Stages, Doing
  <2>2. stage' = [stage EXCEPT ![t] = s]
    BY <1>0, <1>2, <2>1 DEF Goes
  <2> HIDE DEF s
  <2>3. Becomes(t, s) /\ stage' \in [Tsk -> Stages]
    BY <2>1, <2>2, Becoming
  <2>4. stage'[t] = s
    BY <2>3 DEF Becomes
  <2> QED BY <2>3, <2>4 DEF NowAt, s, Doing
<1>3. ASSUME Returns(t) PROVE NowAt(t, "IDLE", NULL, {}, 0, NULL) /\ stage'[t] = Idle
  BY <1>1, <1>3 DEF Returns, Idle
<1> QED BY <1>1, <1>2, <1>3

(* The histories of a call that sees to its requests.                      *)
LEMMA HistSame == UNCHANGED devhist => refused' = refused /\ (~unseen' => ~unseen)
<1> SUFFICES ASSUME UNCHANGED devhist PROVE refused' = refused /\ (~unseen' => ~unseen)
  OBVIOUS
<1>1. unseen' = unseen /\ refused' = refused
  BY DEF devhist
<1> QED BY Zenon, <1>1

(* A task that is in no call, or between two of a cleanup. *)
LEMMA StageOnly ==
  ASSUME DevInv, UNCHANGED <<devcb, opncb, reqcb, diswai, drv>>, refused' = refused, ~unseen' => ~unseen,
         NEW t \in Tsk, NEW s, Becomes(t, s), stage' \in [Tsk -> Stages],
         stage[t].at \notin Holding \cup InFn, s.at \notin Holding \cup InFn, s.reqs = {}
  PROVE  DevTypeOK' /\ BlocksSound' /\ QueuesSound' /\ ModesRespected' /\ DriversSound' /\ (~unseen' => CallsSound')
<1>1. DevTypeOK /\ BlocksSound /\ QueuesSound /\ ModesRespected /\ DriversSound /\ (~unseen' => RequestsSound /\ AbortsSound)
  BY DEF DevInv, TablesSound, CallsSound
<1>2. DevTypeOK'
  BY <1>1 DEF DevTypeOK
<1>3. SameBlocks /\ SameQueues(t)
  BY DEF SameBlocks, SameBlock, SameQueues
<1>4. KeepsBlock(t, s)
  BY DEF KeepsBlock, Holding, Closing
<1>5. BlocksSound' /\ ModesRespected' /\ DriversSound'
  BY <1>1, <1>3, <1>4, BlocksKept, ModesKept, DriversKept
<1>6. stage[t].reqs = {}
  BY <1>1 DEF QueuesSound, Holding, Closing
<1>9. s.at \notin InFn \cup {"DRAINFN", "OPENFN", "CLOSE", "CLOSEFN"}
  BY DEF Holding, Closing
<1>10. QueuesSound'
  BY <1>1, <1>3, <1>9, QueuesKept
<1>7. ASSUME ~unseen' PROVE RequestsSound'
  BY <1>1, <1>6, <1>7, RequestKnown, RequestsKept
<1>8. ASSUME ~unseen' PROVE AbortsSound'
  <2>0. RequestsSound /\ AbortsSound
    BY <1>1, <1>8
  <2>1. /\ s.at \notin Aborted \cup {"OPENFN"} \cup Aborting /\ s.at # "SYNC" /\ s.at \notin InFn
        /\ stage[t].at \notin InFn \cup Aborting \cup Aborted
    BY AtApart DEF Aborting
  <2>2. \A o \in Opn : opncb[o] # NODEV /\ opncb[o].abort_tskid # NULL => opncb[o].abort_tskid # t
    BY <2>0 DEF AbortsSound, BlockAborts, Has
  <2>3. t \notin diswai
    BY <2>0, <2>1 DEF AbortsSound, TaskAborts
  <2> QED BY <1>1, <2>0, <2>1, <2>2, <2>3, AbortsKept
<1> QED BY <1>2, <1>5, <1>7, <1>8, <1>10 DEF CallsSound

-----------------------------------------------------------------------------
(* Suspension and registration, step by step.                              *)
LEMMA Suspend_sus_dev ==
  ASSUME DevInv, NEW t \in Tsk, NEW force, _tk_sus_dev_SUSPEND(t, force)
  PROVE  DevInv'
<1>0. DevTypeOK /\ CleanersSound /\ SuspensionSound
  BY DEF DevInv, TablesSound
<1>1. stage[t] = Idle /\ Suspension /\ UNCHANGED <<devcb, opncb, reqcb, diswai, drv>> /\ refused' = refused /\ (~unseen' => ~unseen)
      /\ SetStage(t, Doing("SUSPEND", NULL, {}, 0, NULL)) /\ \A x \in Tsk : stage[x].clean # Resid[t]
  BY HistSame DEF _tk_sus_dev_SUSPEND, Calls, Does
<1>2. NowAt(t, "SUSPEND", NULL, {}, 0, NULL)
  BY <1>0, <1>1, Nows DEF Ats
<1> DEFINE s == stage'[t]
<1>3. /\ Becomes(t, s) /\ stage' \in [Tsk -> Stages]
      /\ s.at = "SUSPEND" /\ s.opn = NULL /\ s.reqs = {} /\ s.clean = NULL
  BY <1>2 DEF NowAt
<1> HIDE DEF s
<1>4. stage[t].at \notin Holding \cup InFn \cup Suspending /\ s.at \notin Holding \cup InFn \cup Suspending
  BY <1>1, <1>3, IdleIs DEF Holding, InFn, Closing, Suspending
<1>5. DevTypeOK' /\ BlocksSound' /\ QueuesSound' /\ ModesRespected' /\ DriversSound' /\ (~unseen' => CallsSound')
  BY <1>1, <1>3, <1>4, StageOnly
<1>6. CleanersSound'
  BY <1>0, <1>1, <1>3, CleanersKept
<1>7. SuspensionSound'
  BY <1>0, <1>1, <1>3, <1>4, SuspensionSame
<1> QED BY <1>5, <1>6, <1>7 DEF DevInv, TablesSound

(* The count of the group and the sum. *)
LEMMA SuspensionCounted ==
  ASSUME SuspensionSound, NEW h \in [Groups -> 0..MAX_DISSUS], dissus' = h,
         DisSusCnt' = Cardinality(SusPairs(h)), DisSusCnt' <= MAX_DISSUS,
         \A x \in Tsk : reg' = x <=> stage'[x].at \in Suspending,
         dm' # NULL => dm' \in Tsk /\ stage'[dm'].at = "SUSPENDED"
  PROVE  SuspensionSound'
<1>1. SusPairs(h) = {c \in Groups \X (1..MAX_DISSUS) : c[2] <= dissus'[c[1]]}
  BY DEF SusPairs
<1> HIDE DEF SusPairs
<1> QED BY <1>1 DEF SuspensionSound

LEMMA Dissus_sus_dev ==
  ASSUME DevInv, NEW t \in Tsk, _tk_sus_dev_DISSUS(t) \/ _tk_sus_dev_ENASUS(t)
  PROVE  DevInv'
<1>0. DevTypeOK /\ CleanersSound /\ SuspensionSound /\ Resid[t] \in Groups
  BY TaskKnown DEF DevInv, TablesSound
<1>1. stage[t] = Idle /\ UNCHANGED <<devcb, opncb, reqcb, diswai, stage, drv, reg, dm>> /\ refused' = refused /\ (~unseen' => ~unseen)
  BY HistSame DEF _tk_sus_dev_DISSUS, _tk_sus_dev_ENASUS, Calls, Locks
<1>2. Becomes(t, Idle) /\ stage' \in [Tsk -> Stages]
  BY <1>0, <1>1, IdleIs DEF Becomes, DevTypeOK
<1>3. DevTypeOK' /\ BlocksSound' /\ QueuesSound' /\ ModesRespected' /\ DriversSound' /\ (~unseen' => CallsSound')
  BY <1>1, <1>2, IdleIs, StageOnly
<1>4. CleanersSound'
  BY <1>0, <1>1 DEF CleanersSound
<1>5. /\ dissus \in [Groups -> 0..MAX_DISSUS] /\ DisSusCnt = Cardinality(SusPairs(dissus)) /\ DisSusCnt <= MAX_DISSUS
      /\ DisSusCnt \in Nat /\ MAX_DISSUS \in Nat
  BY <1>0, PairsCounted, DevAssumption DEF SuspensionSound, SusPairs
<1>6. /\ \A x \in Tsk : reg' = x <=> stage'[x].at \in Suspending
      /\ dm' # NULL => dm' \in Tsk /\ stage'[dm'].at = "SUSPENDED"
  BY <1>0, <1>1 DEF SuspensionSound
<1>7. CASE _tk_sus_dev_DISSUS(t)
  <2> DEFINE h == [dissus EXCEPT ![Resid[t]] = @ + 1]
  <2>1. dissus' = h /\ DisSusCnt' = DisSusCnt + 1 /\ DisSusCnt < MAX_DISSUS
    BY <1>7 DEF _tk_sus_dev_DISSUS
  <2>2. h \in [Groups -> 0..MAX_DISSUS] /\ Cardinality(SusPairs(h)) = Cardinality(SusPairs(dissus)) + 1
    BY <1>0, <1>5, <2>1, PairsMore
  <2> HIDE DEF h
  <2>3. DisSusCnt' = Cardinality(SusPairs(h)) /\ DisSusCnt' <= MAX_DISSUS
    BY <1>5, <2>1, <2>2
  <2>4. SuspensionSound'
    BY <1>0, <1>6, <2>1, <2>2, <2>3, SuspensionCounted
  <2> QED BY <1>3, <1>4, <2>4 DEF DevInv, TablesSound
<1>8. CASE _tk_sus_dev_ENASUS(t)
  <2> DEFINE h == [dissus EXCEPT ![Resid[t]] = @ - 1]
  <2>1. dissus' = h /\ DisSusCnt' = DisSusCnt - 1 /\ dissus[Resid[t]] > 0
    BY <1>8 DEF _tk_sus_dev_ENASUS
  <2>2. h \in [Groups -> 0..MAX_DISSUS] /\ Cardinality(SusPairs(h)) = Cardinality(SusPairs(dissus)) - 1
    BY <1>0, <1>5, <2>1, PairsLess
  <2> HIDE DEF h
  <2>3. DisSusCnt' = Cardinality(SusPairs(h)) /\ DisSusCnt' <= MAX_DISSUS
    BY <1>5, <2>1, <2>2
  <2>4. SuspensionSound'
    BY <1>0, <1>6, <2>1, <2>2, <2>3, SuspensionCounted
  <2> QED BY <1>3, <1>4, <2>4 DEF DevInv, TablesSound
<1> QED BY <1>7, <1>8

LEMMA Cleanup_devmgr ==
  ASSUME DevInv, NEW t \in Tsk, NEW g \in Groups, devmgr_cleanup(t, g)
  PROVE  DevInv'
<1>0. DevTypeOK /\ CleanersSound /\ SuspensionSound /\ g # NULL
  BY DevAssumption DEF DevInv, TablesSound
<1>1. /\ stage[t] = Idle /\ UNCHANGED <<devcb, opncb, reqcb, diswai, drv, reg, dm>> /\ refused' = refused /\ (~unseen' => ~unseen)
      /\ SetStage(t, Doing("CLEAN", NULL, {}, 0, g))
      /\ \A x \in Tsk : (Resid[x] = g => stage[x] = Idle) /\ stage[x].clean # g /\ stage[x].clean # Resid[t]
  BY HistSame DEF devmgr_cleanup, Calls, Cleans, Locks
<1>2. NowAt(t, "CLEAN", NULL, {}, 0, g)
  BY <1>0, <1>1, Nows DEF Ats
<1> DEFINE s == stage'[t]
<1>3. /\ Becomes(t, s) /\ stage' \in [Tsk -> Stages]
      /\ s.at = "CLEAN" /\ s.opn = NULL /\ s.reqs = {} /\ s.clean = g
  BY <1>2 DEF NowAt
<1>9. stage'[t] = s /\ \A x \in Tsk : x # t => stage'[x] = stage[x]
  BY <1>3 DEF Becomes
<1> HIDE DEF s
<1>4. stage[t].at \notin Holding \cup InFn \cup Suspending /\ s.at \notin Holding \cup InFn \cup Suspending
  BY <1>1, <1>3, IdleIs DEF Holding, InFn, Closing, Suspending
<1>5. DevTypeOK' /\ BlocksSound' /\ QueuesSound' /\ ModesRespected' /\ DriversSound' /\ (~unseen' => CallsSound')
  BY <1>1, <1>3, <1>4, StageOnly
<1>6. CleanersSound'
  <2> SUFFICES ASSUME NEW u \in Tsk
             PROVE  /\ stage'[u].at = "CLEAN" => stage'[u].clean # NULL
                    /\ stage'[u].clean # NULL =>
                         /\ stage'[u].at \in Closing \cup {"CLEAN"}
                         /\ \A x \in Tsk : x # u =>
                              (Resid[x] = stage'[u].clean => stage'[x] = Idle) /\ stage'[x].clean # stage'[u].clean
    BY DEF CleanersSound
  <2>1. CASE u = t
    BY <1>0, <1>1, <1>3, <1>9, <2>1
  <2>2. CASE u # t
    <3>1. stage'[u] = stage[u] /\ stage[u].clean # g /\ stage[u].clean # Resid[t]
      BY <1>1, <1>9, <2>2
    <3>2. /\ stage[u].at = "CLEAN" => stage[u].clean # NULL
          /\ stage[u].clean # NULL =>
               /\ stage[u].at \in Closing \cup {"CLEAN"}
               /\ \A x \in Tsk : x # u =>
                    (Resid[x] = stage[u].clean => stage[x] = Idle) /\ stage[x].clean # stage[u].clean
      BY <1>0 DEF CleanersSound
    <3> QED BY <1>3, <1>9, <3>1, <3>2
  <2> QED BY <2>1, <2>2
<1>7. SuspensionSound'
  <2>1. /\ dissus \in [Groups -> 0..MAX_DISSUS] /\ DisSusCnt = Cardinality(SusPairs(dissus)) /\ DisSusCnt <= MAX_DISSUS
        /\ DisSusCnt \in Nat /\ MAX_DISSUS \in Nat
    BY <1>0, PairsCounted, DevAssumption DEF SuspensionSound, SusPairs
  <2>2. /\ \A x \in Tsk : reg' = x <=> stage'[x].at \in Suspending
        /\ dm' # NULL => dm' \in Tsk /\ stage'[dm'].at = "SUSPENDED"
    BY <1>0, <1>1, <1>3, <1>4, SusHolderKept DEF SuspensionSound
  <2> DEFINE h == [dissus EXCEPT ![g] = 0]
  <2>3. dissus' = h /\ DisSusCnt' = DisSusCnt - dissus[g] /\ dissus[g] \in Nat
    BY <2>1 DEF devmgr_cleanup
  <2>4. h \in [Groups -> 0..MAX_DISSUS] /\ Cardinality(SusPairs(h)) = Cardinality(SusPairs(dissus)) - dissus[g]
    BY <2>1, PairsGone
  <2> HIDE DEF h
  <2>5. DisSusCnt' = Cardinality(SusPairs(h)) /\ DisSusCnt' <= MAX_DISSUS
    BY <2>1, <2>3, <2>4
  <2> QED BY <1>0, <2>2, <2>3, <2>4, <2>5, SuspensionCounted
<1> QED BY <1>5, <1>6, <1>7 DEF DevInv, TablesSound

LEMMA Suspend_do_suspend == ASSUME DevInv, NEW t \in Tsk, do_suspend(t) PROVE DevInv'
<1>0. DevTypeOK /\ BlocksSound /\ CleanersSound /\ QueuesSound /\ SuspensionSound /\ t # NULL
  BY TaskKnown DEF DevInv, TablesSound
<1>1. UNCHANGED <<devcb, opncb, reqcb, diswai, drv, dissus, DisSusCnt>> /\ refused' = refused /\ (~unseen' => ~unseen)
  BY HistSame DEF do_suspend
<1>2. /\ stage[t].at \in {"SUSPEND"} \cup Suspending
      /\ \/ stage[t].at = "SUSPEND" /\ reg = NULL /\ reg' = t /\ dm' = dm /\ Goes(t, "EVENTS")
         \/ stage[t].at = "EVENTS" /\ dm = NULL /\ dm' = t /\ reg' = reg /\ Goes(t, "SUSPENDED")
         \/ stage[t].at = "SUSPENDED" /\ dm' = NULL /\ reg' = reg /\ Goes(t, "RESUMED")
         \/ stage[t].at = "RESUMED" /\ reg' = NULL /\ dm' = dm /\ Returns(t)
  BY DEF do_suspend, Suspending
<1>3. stage[t].at \notin Holding \cup InFn \cup {"CLEAN"}
  BY <1>2 DEF Holding, InFn, Closing, Suspending
<1>4. stage[t].reqs = {} /\ stage[t].clean = NULL
  BY <1>0, <1>3 DEF QueuesSound, CleanersSound, Holding, Closing
<1> DEFINE s == stage'[t]
<1>5. /\ Becomes(t, s) /\ stage' \in [Tsk -> Stages] /\ s.reqs = {} /\ s.clean = NULL
      /\ stage[t].at = "SUSPEND" => s.at = "EVENTS"
      /\ stage[t].at = "EVENTS" => s.at = "SUSPENDED"
      /\ stage[t].at = "SUSPENDED" => s.at = "RESUMED"
      /\ stage[t].at = "RESUMED" => s.at = "IDLE"
  <2>1. {"EVENTS", "SUSPENDED", "RESUMED"} \subseteq Ats
    BY DEF Ats, Suspending
  <2>2. \A at \in Ats : Goes(t, at) => NowAt(t, at, stage[t].opn, {}, stage[t].fn, NULL)
    BY <1>0, <1>4, Nows
  <2>3. Returns(t) => NowAt(t, "IDLE", NULL, {}, 0, NULL)
    BY <1>0, Nows
  <2> QED BY <1>2, <2>1, <2>2, <2>3 DEF NowAt
<1>9. stage'[t] = s /\ \A x \in Tsk : x # t => stage'[x] = stage[x]
  BY <1>5 DEF Becomes
<1> HIDE DEF s
<1>6. s.at \notin Holding \cup InFn \cup {"CLEAN"}
  BY <1>2, <1>5 DEF Holding, InFn, Closing, Suspending
<1>7. DevTypeOK' /\ BlocksSound' /\ QueuesSound' /\ ModesRespected' /\ DriversSound' /\ (~unseen' => CallsSound')
  BY <1>1, <1>3, <1>5, <1>6, StageOnly
<1>8. CleanersSound'
  <2>1. stage[t] # Idle
    BY <1>2, IdleIs DEF Suspending
  <2> QED BY <1>0, <1>5, <1>6, <2>1, CleanersKept
<1>10. /\ \A x \in Tsk : reg = x <=> stage[x].at \in Suspending
       /\ dm # NULL => dm \in Tsk /\ stage[dm].at = "SUSPENDED"
  BY <1>0 DEF SuspensionSound
<1>11. dm # NULL => reg = dm
  BY <1>10 DEF Suspending
<1>12. \A x \in Tsk : reg' = x <=> stage'[x].at \in Suspending
  <2> SUFFICES ASSUME NEW x \in Tsk PROVE reg' = x <=> stage'[x].at \in Suspending
    OBVIOUS
  <2>1. x # NULL
    BY <1>0, TaskKnown
  <2>2. CASE x = t
    BY <1>0, <1>2, <1>5, <1>9, <1>10, <2>2 DEF Suspending
  <2>3. CASE x # t
    <3>1. stage'[x] = stage[x] /\ (reg = x <=> stage[x].at \in Suspending) /\ (reg = t <=> stage[t].at \in Suspending)
      BY <1>9, <1>10, <2>3
    <3> QED BY <1>2, <2>1, <2>3, <3>1 DEF Suspending
  <2> QED BY <2>2, <2>3
<1>13. dm' # NULL => dm' \in Tsk /\ stage'[dm'].at = "SUSPENDED"
  <2>1. CASE stage[t].at \in {"SUSPEND", "RESUMED"}
    <3>1. dm' = dm /\ dm # t
      BY <1>2, <1>10, <2>1, <1>0
    <3> QED BY <1>9, <1>10, <3>1
  <2>2. CASE stage[t].at \in {"EVENTS", "SUSPENDED"}
    BY <1>2, <1>5, <1>9, <2>2
  <2> QED BY <1>2, <2>1, <2>2 DEF Suspending
<1>14. SuspensionSound'
  BY <1>0, <1>1, <1>12, <1>13 DEF SuspensionSound
<1> QED BY <1>7, <1>8, <1>14 DEF DevInv, TablesSound

LEMMA Register_def_dev == ASSUME DevInv, NEW t \in Tsk, NEW d \in Dev, _tk_def_dev(t, d) PROVE DevInv'
<1>0. DevTypeOK /\ BlocksSound /\ DriversSound
  BY DEF DevInv, TablesSound
<1>1. UNCHANGED <<opncb, reqcb, diswai, stage, drv, dissus, DisSusCnt, reg, dm>> /\ refused' = refused /\ (~unseen' => ~unseen)
  BY HistSame DEF _tk_def_dev, Suspension
<1>2. /\ \A e \in Dev : devcb'[e] = (IF e = d THEN devcb'[d] ELSE devcb[e])
      /\ devcb'[d] \in Ddevs \cup {NODEV} /\ devcb' \in [Dev -> Ddevs \cup {NODEV}]
      /\ Opens(d) # {} => devcb'[d] # NODEV /\ devcb'[d].openreq = devcb[d].openreq
  BY <1>0, DevAssumption DEF _tk_def_dev, DevTypeOK
<1>3. DevTypeOK'
  BY <1>0, <1>1, <1>2 DEF DevTypeOK
<1>4. \A o \in Opn : opncb[o] # NODEV => opncb[o].dev \in Dev
  BY <1>0, BlockKnown
<1>5. BlocksSound'
  <2>1. \A o \in Opn : opncb[o] # NODEV /\ opncb[o].linked => devcb'[opncb[o].dev] # NODEV
    <3> SUFFICES ASSUME NEW o \in Opn, opncb[o] # NODEV, opncb[o].linked PROVE devcb'[opncb[o].dev] # NODEV
      OBVIOUS
    <3>1. opncb[o].dev \in Dev /\ devcb[opncb[o].dev] # NODEV
      BY <1>0, <1>4 DEF BlocksSound
    <3>2. opncb[o].dev = d => Opens(d) # {}
      BY DEF Opens
    <3> QED BY <1>2, <3>1, <3>2
  <2>2. \A x, o : (Has(x, o)' <=> Has(x, o)) /\ Owner(x)' = Owner(x)
    BY <1>1 DEF Has, Owner
  <2> QED BY <1>0, <1>1, <2>1, <2>2 DEF BlocksSound
<1>6. CleanersSound' /\ QueuesSound' /\ SuspensionSound'
  BY <1>1 DEF DevInv, TablesSound, CleanersSound, QueuesSound, SuspensionSound
<1>7. ASSUME ~unseen' PROVE RequestsSound' /\ AbortsSound'
  <2>0. RequestsSound /\ AbortsSound
    BY <1>1, <1>7 DEF DevInv, CallsSound
  <2>1. \A o : Users(o)' = Users(o)
    BY <1>1 DEF Users
  <2>3. \A x, o : Has(x, o)' <=> Has(x, o)
    BY <1>1 DEF Has
  <2> QED BY <1>1, <2>0, <2>1, <2>3 DEF RequestsSound, AbortsSound, BlockAborts, TaskAborts
<1>8. \A e : Opens(e)' = Opens(e)
  BY <1>1 DEF Opens
<1>9. ModesRespected'
  BY <1>1, <1>8 DEF DevInv, TablesSound, ModesRespected
<1>10. DriversSound'
  <2> SUFFICES ASSUME NEW u \in Unit \ refused
               PROVE  drv'[u] + Cardinality(Telling("OPENFN", u)') - Cardinality(Telling("CLOSEFN", u)') = ToldOf(u)'
    BY <1>1 DEF DriversSound
  <2>1. On(u)' = On(u) /\ u[1] \in Dev
    BY <1>1, <1>8 DEF On, Unit
  <2>2. \A at : Telling(at, u)' = Telling(at, u)
    BY <1>1 DEF Telling
  <2>3. On(u) # {} => devcb'[u[1]].openreq = devcb[u[1]].openreq
    <3>1. On(u) # {} => Opens(u[1]) # {}
      BY DEF On
    <3> QED BY <1>2, <2>1, <3>1
  <2>4. ToldOf(u)' = ToldOf(u)
    BY <2>1, <2>3 DEF ToldOf
  <2> QED BY <1>0, <1>1, <2>2, <2>4 DEF DriversSound
<1> QED BY <1>3, <1>5, <1>6, <1>7, <1>9, <1>10 DEF DevInv, TablesSound, CallsSound


-----------------------------------------------------------------------------
(* A block with one of its fields changed.                                 *)
SameQueue(c, b) == c.requestq = b.requestq
SameWait(c, b) == c.waitone = b.waitone /\ c.nwaireq = b.nwaireq
SameAbort(c, b) == c.abort_tskid = b.abort_tskid /\ c.abort_cnt = b.abort_cnt
SameKind(c, b) == c.dev = b.dev /\ c.unit = b.unit /\ c.omode = b.omode /\ c.res = b.res

LEMMA BlockFields ==
  ASSUME NEW b \in OpnCB
  PROVE  /\ \A v \in Groups \cup {NULL} : LET c == [b EXCEPT !.resid = v] IN
              /\ c \in OpnCB /\ SameKind(c, b) /\ SameQueue(c, b) /\ SameWait(c, b) /\ SameAbort(c, b)
              /\ c.resid = v /\ c.linked = b.linked
         /\ \A v \in BOOLEAN : LET c == [b EXCEPT !.linked = v] IN
              /\ c \in OpnCB /\ SameKind(c, b) /\ SameQueue(c, b) /\ SameWait(c, b) /\ SameAbort(c, b)
              /\ c.linked = v /\ c.resid = b.resid
         /\ \A v \in Seq(Req) : LET c == [b EXCEPT !.requestq = v] IN
              c \in OpnCB /\ SameBlock(c, b) /\ SameWait(c, b) /\ SameAbort(c, b) /\ c.requestq = v
         /\ \A v \in Int : LET c == [b EXCEPT !.waitone = v] IN
              /\ c \in OpnCB /\ SameBlock(c, b) /\ SameQueue(c, b) /\ SameAbort(c, b)
              /\ c.waitone = v /\ c.nwaireq = b.nwaireq
         /\ \A v \in Int : LET c == [b EXCEPT !.nwaireq = v] IN
              /\ c \in OpnCB /\ SameBlock(c, b) /\ SameQueue(c, b) /\ SameAbort(c, b)
              /\ c.nwaireq = v /\ c.waitone = b.waitone
         /\ \A v \in Tsk \cup {NULL} : LET c == [b EXCEPT !.abort_tskid = v] IN
              /\ c \in OpnCB /\ SameBlock(c, b) /\ SameQueue(c, b) /\ SameWait(c, b)
              /\ c.abort_tskid = v /\ c.abort_cnt = b.abort_cnt
         /\ \A v \in Int : LET c == [b EXCEPT !.abort_cnt = v] IN
              /\ c \in OpnCB /\ SameBlock(c, b) /\ SameQueue(c, b) /\ SameWait(c, b)
              /\ c.abort_cnt = v /\ c.abort_tskid = b.abort_tskid
<1> USE DEF OpnCB, SameKind, SameBlock, SameQueue, SameWait, SameAbort
<1>1. \A v \in Groups \cup {NULL} : LET c == [b EXCEPT !.resid = v] IN
              /\ c \in OpnCB /\ SameKind(c, b) /\ SameQueue(c, b) /\ SameWait(c, b) /\ SameAbort(c, b)
              /\ c.resid = v /\ c.linked = b.linked
  OBVIOUS
<1>2. \A v \in BOOLEAN : LET c == [b EXCEPT !.linked = v] IN
              /\ c \in OpnCB /\ SameKind(c, b) /\ SameQueue(c, b) /\ SameWait(c, b) /\ SameAbort(c, b)
              /\ c.linked = v /\ c.resid = b.resid
  OBVIOUS
<1>3. \A v \in Seq(Req) : LET c == [b EXCEPT !.requestq = v] IN
              c \in OpnCB /\ SameBlock(c, b) /\ SameWait(c, b) /\ SameAbort(c, b) /\ c.requestq = v
  OBVIOUS
<1>4. \A v \in Int : LET c == [b EXCEPT !.waitone = v] IN
              /\ c \in OpnCB /\ SameBlock(c, b) /\ SameQueue(c, b) /\ SameAbort(c, b)
              /\ c.waitone = v /\ c.nwaireq = b.nwaireq
  OBVIOUS
<1>5. \A v \in Int : LET c == [b EXCEPT !.nwaireq = v] IN
              /\ c \in OpnCB /\ SameBlock(c, b) /\ SameQueue(c, b) /\ SameAbort(c, b)
              /\ c.nwaireq = v /\ c.waitone = b.waitone
  OBVIOUS
<1>6. \A v \in Tsk \cup {NULL} : LET c == [b EXCEPT !.abort_tskid = v] IN
              /\ c \in OpnCB /\ SameBlock(c, b) /\ SameQueue(c, b) /\ SameWait(c, b)
              /\ c.abort_tskid = v /\ c.abort_cnt = b.abort_cnt
  OBVIOUS
<1>7. \A v \in Int : LET c == [b EXCEPT !.abort_cnt = v] IN
              /\ c \in OpnCB /\ SameBlock(c, b) /\ SameQueue(c, b) /\ SameWait(c, b)
              /\ c.abort_cnt = v /\ c.abort_tskid = b.abort_tskid
  OBVIOUS
<1> QED BY <1>1, <1>2, <1>3, <1>4, <1>5, <1>6, <1>7

(* The tables with one request less, which need not be there; what is done *)
(* to them besides concerns no queue.                                      *)
BlocksAlike(bs) ==
  /\ bs \in [Opn -> OpnCB \cup {NODEV}]
  /\ \A p \in Opn : /\ bs[p] = NODEV <=> opncb[p] = NODEV
                    /\ opncb[p] # NODEV => SameBlock(bs[p], opncb[p]) /\ SameQueue(bs[p], opncb[p])

Shorter(us, bs, r) ==
  /\ us \in [Opn -> OpnCB \cup {NODEV}]
  /\ \A p \in Opn :
       /\ us[p] = NODEV <=> opncb[p] = NODEV
       /\ opncb[p] # NODEV =>
            /\ SameBlock(us[p], opncb[p]) /\ SameWait(us[p], bs[p]) /\ SameAbort(us[p], bs[p])
            /\ us[p].requestq \in Seq(Req) /\ IsInjective(us[p].requestq)
            /\ ToSet(us[p].requestq) = ToSet(opncb[p].requestq) \ {r}
       /\ reqcb[r] = NODEV \/ reqcb[r].opn # p => us[p] = bs[p]

LEMMA Unqueued ==
  ASSUME DevTypeOK, QueuesSound, NEW bs, BlocksAlike(bs), NEW r \in Req, NEW us, us = Unqueue(bs, r)
  PROVE  Shorter(us, bs, r)
<1> USE DEF Shorter
<1>1. ASSUME NEW p \in Opn, opncb[p] # NODEV, reqcb[r] = NODEV \/ reqcb[r].opn # p
      PROVE  /\ bs[p].requestq \in Seq(Req) /\ IsInjective(bs[p].requestq)
             /\ ToSet(bs[p].requestq) = ToSet(opncb[p].requestq) \ {r}
  <2>1. bs[p].requestq = opncb[p].requestq
    BY <1>1 DEF BlocksAlike, SameQueue
  <2>2. IsInjective(opncb[p].requestq) /\ ToSet(opncb[p].requestq) = {x \in Req : reqcb[x] # NODEV /\ reqcb[x].opn = p}
    BY <1>1 DEF QueuesSound
  <2>3. opncb[p].requestq \in Seq(Req)
    BY <1>1, BlockKnown
  <2>4. r \notin ToSet(opncb[p].requestq)
    BY <1>1, <2>2
  <2> QED BY <2>1, <2>2, <2>3, <2>4
<1>2. ASSUME NEW p \in Opn, opncb[p] # NODEV PROVE SameWait(bs[p], bs[p]) /\ SameAbort(bs[p], bs[p])
  BY DEF SameWait, SameAbort
<1>3. CASE reqcb[r] = NODEV
  <2>1. us = bs
    BY <1>3 DEF Unqueue
  <2> QED BY <1>1, <1>2, <1>3, <2>1 DEF BlocksAlike
<1>4. CASE reqcb[r] # NODEV
  <2> DEFINE k == reqcb[r].opn
             b == bs[k]
             v == RemoveFirst(opncb[k].requestq, r)
             e == [b EXCEPT !.requestq = v]
  <2>1. k \in Opn /\ opncb[k] # NODEV /\ opncb[k].requestq \in Seq(Req) /\ IsInjective(opncb[k].requestq)
    BY <1>4, RequestKnown, BlockKnown DEF QueuesSound
  <2>2. v \in Seq(Req) /\ IsInjective(v) /\ ToSet(v) = ToSet(opncb[k].requestq) \ {r}
    BY <2>1, FirstRemoved
  <2>3. b \in OpnCB /\ b.requestq = opncb[k].requestq /\ SameBlock(b, opncb[k])
    BY <2>1 DEF BlocksAlike, SameQueue
  <2>4. us = [bs EXCEPT ![k] = e]
    BY <1>4, <2>1, <2>3 DEF Unqueue, BlocksAlike
  <2> HIDE DEF v
  <2>5. e \in OpnCB /\ SameBlock(e, b) /\ SameWait(e, b) /\ SameAbort(e, b) /\ e.requestq = v
    BY <2>2, <2>3, BlockFields
  <2> HIDE DEF e, b
  <2>6. us \in [Opn -> OpnCB \cup {NODEV}] /\ us[k] = e /\ e # NODEV /\ \A p \in Opn : p # k => us[p] = bs[p]
    BY <2>1, <2>4, <2>5, DevAssumption DEF BlocksAlike
  <2>7. SameBlock(e, opncb[k])
    BY <2>3, <2>5 DEF SameBlock
  <2> HIDE DEF k
  <2>8. ASSUME NEW p \in Opn, p # k
        PROVE  /\ us[p] = NODEV <=> opncb[p] = NODEV
               /\ opncb[p] # NODEV =>
                    /\ SameBlock(us[p], opncb[p]) /\ SameWait(us[p], bs[p]) /\ SameAbort(us[p], bs[p])
                    /\ us[p].requestq \in Seq(Req) /\ IsInjective(us[p].requestq)
                    /\ ToSet(us[p].requestq) = ToSet(opncb[p].requestq) \ {r}
               /\ us[p] = bs[p]
    BY <1>1, <1>2, <2>6, <2>8 DEF BlocksAlike, k
  <2>9. /\ SameWait(us[k], bs[k]) /\ SameAbort(us[k], bs[k])
    BY <2>5, <2>6 DEF b
  <2> QED BY <1>4, <2>1, <2>2, <2>5, <2>6, <2>7, <2>8, <2>9 DEF k
<1> QED BY <1>3, <1>4

-----------------------------------------------------------------------------
(* A task that has a block and goes on with it. *)
Onward == {"ABORT", "TEST", "SYNC", "DRAIN", "DRAINFN", "CLOSE"}

LEMMA BlockTurns ==
  ASSUME DevTypeOK, NEW o \in Opn, NEW c \in OpnCB \cup {NODEV}, opncb' = [opncb EXCEPT ![o] = c]
  PROVE  Turns(o, c) /\ opncb' \in [Opn -> OpnCB \cup {NODEV}]
  BY DEF DevTypeOK, Turns

LEMMA HoldingStep ==
  ASSUME DevInv, NEW t \in Tsk, NEW s, Becomes(t, s), stage' \in [Tsk -> Stages],
         stage[t].at \in Onward, s.at \in Onward, s.opn = stage[t].opn, s.clean = stage[t].clean,
         SameBlocks, opncb' \in [Opn -> OpnCB \cup {NODEV}], reqcb' \in [Req -> ReqCB \cup {NODEV}],
         UNCHANGED <<devcb, drv, refused>>, Suspension
  PROVE  /\ DevTypeOK' /\ BlocksSound' /\ CleanersSound' /\ ModesRespected' /\ DriversSound' /\ SuspensionSound'
<1>0. DevTypeOK /\ BlocksSound /\ CleanersSound /\ ModesRespected /\ DriversSound /\ SuspensionSound
  BY DEF DevInv, TablesSound
<1>1. DevTypeOK'
  BY <1>0 DEF DevTypeOK
<1>2. Onward \subseteq Closing /\ Onward \subseteq Holding /\ Onward \cap (Suspending \cup {"OPENFN", "CLOSEFN", "CLEAN", "IDLE"}) = {}
  BY DEF Onward, Closing, Holding, Suspending
<1>3. KeepsBlock(t, s)
  BY <1>0, <1>2 DEF KeepsBlock, BlocksSound
<1>4. BlocksSound' /\ ModesRespected' /\ DriversSound'
  BY <1>0, <1>3, BlocksKept, ModesKept, DriversKept
<1>5. CleanersSound'
  BY <1>0, <1>2, IdleIs, CleanersKept
<1>6. SuspensionSound'
  BY <1>0, <1>2, SuspensionSame
<1> QED BY <1>1, <1>4, <1>5, <1>6

LEMMA HoldingAborts ==
  ASSUME DevTypeOK, BlocksSound, QueuesSound, RequestsSound, AbortsSound,
         NEW t \in Tsk, NEW s, Becomes(t, s), NEW o \in Opn, stage[t].opn = o, stage[t].at \in Holding,
         s.opn = o, s.at \in Holding,
         NEW c, Turns(o, c), c.nwaireq = opncb[o].nwaireq, c.res = opncb[o].res,
         \/ c.abort_tskid = NULL
         \/ c.abort_tskid = t /\ s.at \in Aborting /\ c.abort_cnt = Cardinality(Users(o)),
         s.at \in Aborted \cup {"OPENFN"} => Users(o) = {},
         s.at \in Aborting => c.abort_tskid = t,
         s.at = "SYNC" /\ Users(o) = {} => t \in diswai',
         \A x : x # t => (x \in diswai' <=> x \in diswai),
         t \in diswai' => s.at \in Aborting \cup Aborted /\ s.clean = NULL /\ Users(o) = {}
  PROVE  AbortsSound'
<1>1. opncb'[o] = c /\ \A p \in Opn : p # o => opncb'[p] = opncb[p]
  BY DEF Turns
<1>2. Has(t, o) /\ stage'[t] = s /\ opncb[o] # NODEV
  BY DEF Has, Becomes, BlocksSound
<1>3. stage[t].at \notin InFn /\ s.at \notin InFn
  BY DEF Holding, Closing, InFn
<1>4. \A p \in Opn : (\E x \in Tsk : x # t /\ Has(x, p)) => opncb'[p] = opncb[p]
  BY <1>1, <1>2 DEF BlocksSound
<1>5. ASSUME NEW p \in Opn, opncb'[p] # NODEV
      PROVE  /\ IF opncb[p] = NODEV THEN opncb'[p].nwaireq = 0
                ELSE opncb'[p].nwaireq = opncb[p].nwaireq /\ opncb'[p].res = opncb[p].res
             /\ \/ opncb'[p].abort_tskid = NULL
                \/ opncb'[p].abort_tskid = t /\ Has(t, p)' /\ s.at \in Aborting
                   /\ opncb'[p].abort_cnt = Cardinality(Users(p))
                \/ opncb[p] # NODEV /\ opncb[p].abort_tskid # t
                   /\ opncb'[p].abort_tskid = opncb[p].abort_tskid /\ opncb'[p].abort_cnt = opncb[p].abort_cnt
  <2>1. CASE p = o
    BY <1>1, <1>2, <2>1 DEF Has
  <2>2. CASE p # o
    <3>1. opncb'[p] = opncb[p] /\ ~Has(t, p)
      BY <1>1, <2>2 DEF Has
    <3>2. opncb[p].abort_tskid # NULL => Has(opncb[p].abort_tskid, p)
      BY <1>5, <3>1 DEF AbortsSound, BlockAborts
    <3>3. opncb[p].abort_tskid # NULL => opncb[p].abort_tskid # t
      BY <3>1, <3>2
    <3> QED BY <1>5, <3>1, <3>3
  <2> QED BY <2>1, <2>2
<1> QED BY <1>1, <1>3, <1>4, <1>5, AbortsKept

(* The steps of a close, up to the requests that are left. *)
LEMMA Abort_allrequest == ASSUME DevInv, NEW t \in Tsk, abort_allrequest(t) PROVE DevInv'
<1> DEFINE o == stage[t].opn
           n == InProcess(o)
           s == stage'[t]
           c == opncb'[o]
<1>0. DevTypeOK /\ BlocksSound /\ QueuesSound
  BY DEF DevInv, TablesSound
<1>1. stage[t].at = "ABORT" /\ UNCHANGED <<devcb, reqcb, diswai, drv>> /\ Suspension /\ Goes(t, "TEST")
      /\ opncb' = [opncb EXCEPT ![o].abort_tskid = t, ![o].abort_cnt = n] /\ refused' = refused /\ (~unseen' => ~unseen)
  BY HistSame DEF abort_allrequest
<1>2. o \in Opn /\ opncb[o] # NODEV /\ opncb[o] \in OpnCB
  BY <1>0, <1>1, BlockKnown DEF BlocksSound, Has, Holding, Closing
<1>3. n \in Int
  BY InProcessCounts
<1> HIDE DEF n
<1>4. NowAt(t, "TEST", o, stage[t].reqs, stage[t].fn, stage[t].clean)
  BY <1>0, <1>1, Nows DEF Ats, Holding, Closing
<1>5. Becomes(t, s) /\ stage' \in [Tsk -> Stages] /\ s.at = "TEST" /\ s.opn = o /\ s.reqs = stage[t].reqs /\ s.clean = stage[t].clean
  BY <1>4 DEF NowAt
<1>6. /\ c \in OpnCB /\ c.nwaireq = opncb[o].nwaireq /\ c.abort_tskid = t /\ c.abort_cnt = n
      /\ SameBlock(c, opncb[o]) /\ SameQueue(c, opncb[o]) /\ opncb' = [opncb EXCEPT ![o] = c]
  <2> DEFINE b == [opncb[o] EXCEPT !.abort_tskid = t]
             e == [b EXCEPT !.abort_cnt = n]
  <2>1. /\ b \in OpnCB /\ SameBlock(b, opncb[o]) /\ SameQueue(b, opncb[o]) /\ SameWait(b, opncb[o])
        /\ b.abort_tskid = t /\ b.abort_cnt = opncb[o].abort_cnt
    BY <1>2, BlockFields
  <2> HIDE DEF b
  <2>2. /\ e \in OpnCB /\ SameBlock(e, b) /\ SameQueue(e, b) /\ SameWait(e, b)
        /\ e.abort_cnt = n /\ e.abort_tskid = b.abort_tskid
    BY <1>3, <2>1, BlockFields
  <2>3. opncb' = [opncb EXCEPT ![o] = e]
    BY <1>0, <1>1, <1>2 DEF DevTypeOK, b
  <2> HIDE DEF e
  <2>4. c = e
    BY <1>0, <1>2, <2>3 DEF DevTypeOK
  <2> QED BY <2>1, <2>2, <2>3, <2>4 DEF SameBlock, SameQueue, SameWait
<1> HIDE DEF c, s
<1>7. Turns(o, c) /\ opncb' \in [Opn -> OpnCB \cup {NODEV}]
  BY <1>0, <1>2, <1>6, BlockTurns
<1>8. SameBlocks /\ SameQueues(t)
  BY <1>2, <1>6, <1>7, DevAssumption DEF SameBlocks, SameBlock, SameQueues, SameQueue, Turns
<1>9. stage[t].at \in Onward /\ s.at \in Onward /\ s.at \notin InFn \cup {"DRAINFN", "OPENFN", "CLOSE", "CLOSEFN"} /\ Onward \subseteq Holding
  BY <1>1, <1>5 DEF Onward, InFn, Holding, Closing
<1>10. DevTypeOK' /\ BlocksSound' /\ CleanersSound' /\ ModesRespected' /\ DriversSound' /\ SuspensionSound'
  BY <1>0, <1>1, <1>5, <1>7, <1>8, <1>9, HoldingStep DEF DevTypeOK
<1>11. stage[t].reqs = {}
  BY <1>0, <1>1 DEF QueuesSound, InFn
<1>12. QueuesSound'
  BY <1>0, <1>1, <1>5, <1>8, <1>9, <1>11, QueuesKept
<1>13. ASSUME ~unseen' PROVE RequestsSound' /\ AbortsSound'
  <2>0. RequestsSound /\ AbortsSound
    BY <1>1, <1>13 DEF DevInv, CallsSound
  <2>1. RequestsSound'
    BY <1>0, <1>1, <1>5, <1>11, <2>0, RequestKnown, RequestsKept
  <2>2. t \notin diswai
    BY <1>1, <2>0 DEF AbortsSound, TaskAborts, Aborting, Aborted
  <2>3. n = Cardinality(Users(o))
    BY <1>0, <1>2, <2>0, InProcessIs DEF n
  <2>4. /\ stage[t].opn = o /\ stage[t].at \in Holding /\ s.opn = o /\ s.at \in Holding
        /\ c.abort_tskid = t /\ s.at \in Aborting /\ c.abort_cnt = Cardinality(Users(o)) /\ c.res = opncb[o].res
        /\ s.at \notin Aborted \cup {"OPENFN"} /\ s.at # "SYNC"
    BY <1>5, <1>6, <1>9, <2>3 DEF SameBlock, Aborting, Aborted
  <2>5. (\A x : x # t => (x \in diswai' <=> x \in diswai)) /\ t \notin diswai'
    BY <1>1, <2>2
  <2> HIDE DEF o
  <2> QED BY <1>0, <1>2, <1>5, <1>6, <1>7, <2>0, <2>1, <2>4, <2>5, HoldingAborts
<1> QED BY <1>10, <1>12, <1>13 DEF DevInv, TablesSound, CallsSound

(* The wait is over, or there was nothing to wait for.                     *)
LEMMA Abort_Over ==
  ASSUME DevInv, NEW t \in Tsk, stage[t].at \in Aborting, UNCHANGED <<devcb, reqcb, drv>>, Suspension, refused' = refused,
         Goes(t, "DRAIN"), opncb' = Unaborted(stage[t].opn),
         ~unseen' => /\ ~unseen /\ Users(stage[t].opn) = {} /\ \A x : x # t => (x \in diswai' <=> x \in diswai)
                     /\ t \in diswai' => t \in diswai
  PROVE  DevInv'
<1> DEFINE o == stage[t].opn
           s == stage'[t]
           c == opncb'[o]
<1>0. DevTypeOK /\ BlocksSound /\ QueuesSound
  BY DEF DevInv, TablesSound
<1>1. stage[t].at \in Aborting /\ UNCHANGED <<devcb, reqcb, drv>> /\ Suspension
  OBVIOUS
<1>2. o \in Opn /\ opncb[o] # NODEV /\ opncb[o] \in OpnCB /\ Has(t, o)
  BY <1>0, BlockKnown, AtApart DEF BlocksSound, Has
<1>5. opncb' = [opncb EXCEPT ![o].abort_tskid = NULL, ![o].abort_cnt = 0]
  BY DEF Unaborted
<1>6. NowAt(t, "DRAIN", o, stage[t].reqs, stage[t].fn, stage[t].clean)
  BY <1>0, Nows DEF Ats, Holding, Closing
<1>7. Becomes(t, s) /\ stage' \in [Tsk -> Stages] /\ s.at = "DRAIN" /\ s.opn = o /\ s.reqs = stage[t].reqs /\ s.clean = stage[t].clean
  BY <1>6 DEF NowAt
<1>8. /\ c \in OpnCB /\ c.nwaireq = opncb[o].nwaireq /\ c.abort_tskid = NULL
      /\ SameBlock(c, opncb[o]) /\ SameQueue(c, opncb[o]) /\ opncb' = [opncb EXCEPT ![o] = c]
  <2> DEFINE a == opncb[o]
             b == [a EXCEPT !.abort_tskid = NULL]
             e == [b EXCEPT !.abort_cnt = 0]
  <2>0. NULL \in Tsk \cup {NULL} /\ a \in OpnCB /\ 0 \in Int
    BY <1>2
  <2>3. opncb' = [opncb EXCEPT ![o] = e]
    BY <1>0, <1>5, <1>2 DEF DevTypeOK
  <2> HIDE DEF a
  <2>1. /\ b \in OpnCB /\ SameBlock(b, a) /\ SameQueue(b, a) /\ SameWait(b, a) /\ b.abort_tskid = NULL
    BY <2>0, BlockFields
  <2> HIDE DEF b
  <2>2. /\ e \in OpnCB /\ SameBlock(e, b) /\ SameQueue(e, b) /\ SameWait(e, b) /\ e.abort_tskid = b.abort_tskid
    BY <2>0, <2>1, BlockFields
  <2> HIDE DEF e
  <2>4. c = e
    BY <1>0, <1>2, <2>3 DEF DevTypeOK
  <2> QED BY <2>1, <2>2, <2>3, <2>4 DEF SameBlock, SameQueue, SameWait, a
<1> HIDE DEF c, s
<1>9. Turns(o, c) /\ opncb' \in [Opn -> OpnCB \cup {NODEV}]
  BY <1>0, <1>2, <1>8, BlockTurns
<1>10. SameBlocks /\ SameQueues(t)
  BY <1>2, <1>8, <1>9, DevAssumption DEF SameBlocks, SameBlock, SameQueues, SameQueue, Turns
<1>11. /\ stage[t].at \in Onward /\ "DRAIN" \in Onward /\ Onward \subseteq Holding /\ stage[t].at \notin InFn \cup {"DRAINFN"}
       /\ "DRAIN" \notin InFn \cup {"DRAINFN", "OPENFN", "CLOSE", "CLOSEFN"}
  BY DEF Aborting, Onward, InFn, Holding, Closing
<1>12. DevTypeOK' /\ BlocksSound' /\ CleanersSound' /\ ModesRespected' /\ DriversSound' /\ SuspensionSound'
  BY <1>0, <1>7, <1>9, <1>10, <1>11, HoldingStep DEF DevTypeOK
<1>13. stage[t].reqs = {}
  BY <1>0, <1>11 DEF QueuesSound
<1>14. QueuesSound'
  BY <1>0, <1>7, <1>10, <1>11, <1>13, QueuesKept
<1>15. ASSUME ~unseen' PROVE RequestsSound' /\ AbortsSound'
  <2>0. RequestsSound /\ AbortsSound /\ Users(o) = {}
    BY <1>15 DEF DevInv, CallsSound
  <2>1. RequestsSound'
    BY <1>0, <1>7, <1>13, <2>0, RequestKnown, RequestsKept
  <2>2. t \in diswai' => stage[t].clean = NULL
    BY <1>15, <2>0 DEF AbortsSound, TaskAborts
  <2>3. s.at \notin Aborting /\ s.at # "SYNC" /\ s.at \in Aborted /\ c.res = opncb[o].res
    BY <1>7, <1>8 DEF Aborting, Aborted, SameBlock
  <2>4. s.opn = o /\ s.at \in Holding /\ stage[t].opn = o /\ stage[t].at \in Holding
        /\ (t \in diswai' => s.at \in Aborting \cup Aborted /\ s.clean = NULL /\ Users(o) = {})
        /\ \A x : x # t => (x \in diswai' <=> x \in diswai)
    BY <1>7, <1>11, <1>15, <2>0, <2>2, <2>3
  <2> HIDE DEF o
  <2> QED BY <1>0, <1>2, <1>7, <1>8, <1>9, <2>0, <2>1, <2>3, <2>4, HoldingAborts
<1> QED BY <1>12, <1>14, <1>15 DEF DevInv, TablesSound, CallsSound

LEMMA Abort_Test == ASSUME DevInv, NEW t \in Tsk, TestCount(t) PROVE DevInv'
<1> DEFINE o == stage[t].opn
           s == stage'[t]
<1>0. DevTypeOK /\ BlocksSound /\ QueuesSound
  BY DEF DevInv, TablesSound
<1>1. stage[t].at = "TEST" /\ UNCHANGED <<devcb, reqcb, diswai, drv>> /\ Suspension
      /\ refused' = refused /\ (~unseen' => ~unseen)
  BY HistSame DEF TestCount
<1>2. o \in Opn /\ opncb[o] # NODEV /\ Has(t, o) /\ stage[t].at \in Aborting
  BY <1>0, <1>1, AtApart DEF BlocksSound, Has, Aborting
<1>3. ASSUME ~unseen'
      PROVE  /\ RequestsSound /\ AbortsSound /\ TaskAborts(t)
             /\ opncb[o].abort_tskid = t /\ opncb[o].abort_cnt = Cardinality(Users(o))
             /\ Cardinality(Users(o)) \in Nat /\ (Cardinality(Users(o)) = 0 <=> Users(o) = {})
  <2>1. RequestsSound /\ AbortsSound
    BY <1>1, <1>3 DEF DevInv, CallsSound
  <2>2. IsFiniteSet(Users(o))
    BY <1>0, <1>2, <2>1, UsersKnown
  <2>3. Cardinality(Users(o)) \in Nat /\ (Cardinality(Users(o)) = 0 <=> Users(o) = {})
    BY <2>2, FS_CardinalityType, FS_EmptySet
  <2>4. TaskAborts(t) /\ opncb[o].abort_tskid = t /\ t # NULL
    BY <1>0, <1>2, <2>1, TaskKnown DEF AbortsSound, TaskAborts
  <2> QED BY <1>2, <2>1, <2>3, <2>4 DEF AbortsSound, BlockAborts
<1>4. CASE ~(opncb[o].abort_cnt > 0)
  <2>1. Goes(t, "DRAIN") /\ opncb' = Unaborted(o)
    BY <1>4 DEF TestCount
  <2>2. ~unseen' => Users(o) = {}
    BY <1>3, <1>4
  <2> QED BY <1>1, <1>2, <2>1, <2>2, Abort_Over
<1>5. CASE opncb[o].abort_cnt > 0
  <2>1. Goes(t, "SYNC") /\ opncb' = opncb
    BY <1>5 DEF TestCount
  <2>2. NowAt(t, "SYNC", o, stage[t].reqs, stage[t].fn, stage[t].clean)
    BY <1>0, <2>1, Nows DEF Ats, Holding, Closing
  <2>3. Becomes(t, s) /\ stage' \in [Tsk -> Stages] /\ s.at = "SYNC" /\ s.opn = o /\ s.reqs = stage[t].reqs /\ s.clean = stage[t].clean
    BY <2>2 DEF NowAt
  <2> HIDE DEF s
  <2>4. SameBlocks /\ SameQueues(t) /\ Turns(o, opncb[o])
    BY <2>1 DEF SameBlocks, SameBlock, SameQueues, Turns
  <2>5. /\ stage[t].at \in Onward /\ "SYNC" \in Onward /\ Onward \subseteq Holding /\ stage[t].at \notin InFn \cup {"DRAINFN"}
        /\ "SYNC" \notin InFn \cup {"DRAINFN", "OPENFN", "CLOSE", "CLOSEFN"}
    BY <1>1 DEF Onward, InFn, Holding, Closing
  <2>6. DevTypeOK' /\ BlocksSound' /\ CleanersSound' /\ ModesRespected' /\ DriversSound' /\ SuspensionSound'
    BY <1>0, <1>1, <2>1, <2>3, <2>4, <2>5, HoldingStep DEF DevTypeOK
  <2>7. stage[t].reqs = {}
    BY <1>0, <2>5 DEF QueuesSound
  <2>8. QueuesSound'
    BY <1>0, <1>1, <2>3, <2>4, <2>5, <2>7, QueuesKept
  <2>9. ASSUME ~unseen' PROVE RequestsSound' /\ AbortsSound'
    <3>0. RequestsSound /\ AbortsSound /\ TaskAborts(t) /\ Users(o) # {}
      BY <1>3, <1>5, <2>9
    <3>1. RequestsSound'
      BY <1>0, <1>1, <2>3, <2>7, <3>0, RequestKnown, RequestsKept
    <3>2. t \notin diswai
      BY <3>0 DEF TaskAborts
    <3>3. s.at \in Aborting /\ s.at \notin Aborted \cup {"OPENFN"}
      BY <2>3 DEF Aborting, Aborted
    <3>4. /\ stage[t].opn = o /\ stage[t].at \in Holding /\ s.opn = o /\ s.at \in Holding
          /\ opncb[o].abort_tskid = t /\ opncb[o].abort_cnt = Cardinality(Users(o))
          /\ (\A x : x # t => (x \in diswai' <=> x \in diswai)) /\ t \notin diswai'
      BY <1>1, <1>3, <2>3, <2>5, <2>9, <3>2
    <3> HIDE DEF o
    <3> QED BY <1>0, <1>2, <2>3, <2>4, <3>0, <3>1, <3>3, <3>4, HoldingAborts
  <2> QED BY <2>6, <2>8, <2>9 DEF DevInv, TablesSound, CallsSound
<1> QED BY <1>4, <1>5

LEMMA Abort_Wait == ASSUME DevInv, NEW t \in Tsk, SyncWaitDM(t) \/ SyncWaitDM_Released(t) PROVE DevInv'
<1>1. stage[t].at \in Aborting /\ UNCHANGED <<devcb, reqcb, drv>> /\ Suspension /\ refused' = refused
      /\ Goes(t, "DRAIN") /\ opncb' = Unaborted(stage[t].opn) /\ diswai' = diswai \ {t}
  BY DEF SyncWaitDM, SyncWaitDM_Released, Synchronized, Aborting
<1>2. ~unseen' => ~unseen /\ t \in diswai
  <2>1. CASE SyncWaitDM(t)
    <3>1. unseen' = unseen /\ t \in diswai
      BY <2>1 DEF SyncWaitDM
    <3> QED BY Zenon, <3>1
  <2>2. CASE SyncWaitDM_Released(t)
    <3>1. unseen' = TRUE
      BY <2>2 DEF SyncWaitDM_Released
    <3> QED BY Zenon, <3>1
  <2> QED BY <2>1, <2>2
<1>3. ASSUME ~unseen' PROVE Users(stage[t].opn) = {}
  BY <1>2, <1>3 DEF DevInv, CallsSound, AbortsSound, TaskAborts
<1> QED BY <1>1, <1>2, <1>3, Abort_Over

(* Who drains is in no wait of its own.                                    *)
LEMMA Draining ==
  ASSUME DevTypeOK, BlocksSound, RequestsSound, AbortsSound, NEW t \in Tsk, NEW o \in Opn, Has(t, o), stage[t].at \in Aborted
  PROVE  Users(o) = {} /\ opncb[o].abort_tskid = NULL /\ (t \in diswai => stage[t].clean = NULL)
<1>1. stage[t].opn = o /\ opncb[o] # NODEV /\ stage[t].at \notin Aborting
  BY DEF Has, BlocksSound, Aborting, Aborted
<1>2. opncb[o].abort_tskid # NULL =>
        opncb[o].abort_tskid \in Tsk /\ Has(opncb[o].abort_tskid, o) /\ stage[opncb[o].abort_tskid].at \in Aborting
  BY <1>1, BlockKnown DEF AbortsSound, BlockAborts
<1>3. opncb[o].abort_tskid # NULL => opncb[o].abort_tskid = t
  BY <1>2 DEF BlocksSound
<1>4. opncb[o].abort_tskid = NULL
  BY <1>1, <1>2, <1>3
<1> QED BY <1>1, <1>4 DEF AbortsSound, TaskAborts

LEMMA Drain_Next == ASSUME DevInv, NEW t \in Tsk, WaitRemaining(t) PROVE DevInv'
<1> DEFINE o == stage[t].opn
           q == opncb[o].requestq
           s == stage'[t]
<1>0. DevTypeOK /\ BlocksSound /\ QueuesSound
  BY DEF DevInv, TablesSound
<1>1. stage[t].at = "DRAIN" /\ UNCHANGED <<devcb, opncb, reqcb, diswai, drv>> /\ Suspension
      /\ IF q = <<>> THEN Goes(t, "CLOSE") ELSE SetStage(t, Doing("DRAINFN", o, {Head(q)}, 0, stage[t].clean))
  BY DEF WaitRemaining, Drains
<1>13. refused' = refused /\ (~unseen' => ~unseen)
  BY HistSame DEF WaitRemaining
<1>2. o \in Opn /\ opncb[o] # NODEV /\ opncb[o] \in OpnCB /\ Has(t, o) /\ q \in Seq(Req)
  BY <1>0, <1>1, BlockKnown DEF BlocksSound, Has, Holding, Closing
<1>4. q # <<>> => Head(q) \in Req /\ Head(q) \in ToSet(q)
  BY <1>2 DEF ToSet
<1>5. /\ Becomes(t, s) /\ stage' \in [Tsk -> Stages] /\ s.opn = o /\ s.clean = stage[t].clean
      /\ q = <<>> => s.at = "CLOSE" /\ s.reqs = stage[t].reqs
      /\ q # <<>> => s.at = "DRAINFN" /\ s.reqs = {Head(q)}
  <2>1. {"CLOSE", "DRAINFN"} \subseteq Ats
    BY DEF Ats, Holding, Closing
  <2>2. o \in Opn \cup {NULL} /\ stage[t].clean \in Groups \cup {NULL}
    BY <1>0, TaskKnown
  <2>3. q = <<>> => NowAt(t, "CLOSE", o, stage[t].reqs, stage[t].fn, stage[t].clean)
    BY <1>0, <1>1, <2>1, Nows
  <2>4. CASE q # <<>>
    <3>1. {Head(q)} \in SUBSET Req
      BY <1>4, <2>4
    <3>2. NowAt(t, "DRAINFN", o, {Head(q)}, 0, stage[t].clean)
      <4> DEFINE Q == {Head(q)}
                 g == stage[t].clean
      <4>1. SetStage(t, Doing("DRAINFN", o, Q, 0, g)) /\ Q \in SUBSET Req /\ g \in Groups \cup {NULL} /\ 0 \in 0..1
            /\ "DRAINFN" \in Ats
        BY <1>1, <2>1, <2>2, <2>4, <3>1
      <4> HIDE DEF Q, g, o
      <4>2. NowAt(t, "DRAINFN", o, Q, 0, g)
        BY <1>0, <2>2, <4>1, Nows
      <4> QED BY <4>2 DEF Q, g
    <3> QED BY <2>4, <3>2 DEF NowAt
  <2> QED BY <2>3, <2>4 DEF NowAt
<1> HIDE DEF s
<1>6. Turns(o, opncb[o]) /\ opncb' \in [Opn -> OpnCB \cup {NODEV}] /\ SameBlocks /\ SameQueues(t)
  BY <1>0, <1>1 DEF Turns, DevTypeOK, SameBlocks, SameBlock, SameQueues
<1>7. /\ stage[t].at \in Onward /\ s.at \in Onward /\ Onward \subseteq Holding /\ {"CLOSE", "DRAINFN"} \subseteq Onward
      /\ stage[t].at \notin InFn \cup {"DRAINFN"} /\ "CLOSE" \notin InFn \cup {"DRAINFN"} /\ s.at \notin Aborting
      /\ stage[t].at \in Aborted /\ s.at \in Aborted /\ s.at # "SYNC"
  BY <1>1, <1>5 DEF Onward, InFn, Holding, Closing, Aborting, Aborted
<1>8. DevTypeOK' /\ BlocksSound' /\ CleanersSound' /\ ModesRespected' /\ DriversSound' /\ SuspensionSound'
  BY <1>0, <1>1, <1>5, <1>6, <1>7, <1>13, HoldingStep DEF DevTypeOK
<1>9. stage[t].reqs = {}
  BY <1>0, <1>7 DEF QueuesSound
<1>10. QueuesSound' /\ (~unseen' => RequestsSound /\ AbortsSound)
       /\ (~unseen' => RequestsSound')
  <2>0. ~unseen' => RequestsSound /\ AbortsSound
    BY <1>13 DEF DevInv, CallsSound
  <2>1. CASE q = <<>>
    <3>1. QueuesSound'
      BY <1>0, <1>1, <1>5, <1>6, <1>7, <1>9, <2>1, QueuesKept
    <3>2. s.reqs = {}
      BY <1>5, <1>9, <2>1
    <3>3. RequestsSound => RequestsSound'
      BY <1>0, <1>1, <1>5, <1>9, <3>2, RequestKnown, RequestsKept
    <3> QED BY <2>0, <3>1, <3>3
  <2>2. CASE q # <<>>
    <3> DEFINE Q == {Head(q)}
    <3>1. Q \subseteq Req /\ Q # {} /\ Single(Q)
      BY <1>4, <2>2 DEF Single
    <3>2. IsInjective(opncb[o].requestq) /\ ToSet(opncb[o].requestq) = {r \in Req : reqcb[r] # NODEV /\ reqcb[r].opn = o}
      BY <1>0, <1>2 DEF QueuesSound
    <3>3. ToSet(opncb'[o].requestq) = ToSet(opncb[o].requestq) \cup Q
      BY <1>1, <1>4, <2>2
    <3>4. \A r \in Q : r \in Req /\ reqcb[r] # NODEV /\ reqcb[r].opn = o
      BY <1>4, <2>2, <3>2
    <3>5. \A x \in Tsk : x # t => ~Has(x, o)
      BY <1>0, <1>2 DEF BlocksSound
    <3>6. s.reqs = Q /\ s.opn = o /\ s.at = "DRAINFN"
      BY <1>5, <2>2
    <3> HIDE DEF Q
    <3>7. opncb'[o] # NODEV /\ IsInjective(opncb'[o].requestq) /\ \A p \in Opn : p # o => opncb'[p] = opncb[p]
      BY <1>1, <1>2, <3>2
    <3>8. \A r \in Req : r \notin Q => reqcb'[r] = reqcb[r]
      BY <1>1
    <3>9. \A r \in Q : (reqcb[r] = NODEV \/ reqcb[r].opn = o) /\ reqcb'[r] # NODEV /\ reqcb'[r].opn = o
      BY <1>1, <3>4
    <3>10. s.at \in InFn \cup {"DRAINFN"} /\ Becomes(t, s) /\ o \in Opn /\ opncb[o] # NODEV
      BY <1>2, <1>5, <3>6
    <3>11. Entering(t, s, o, Q)
      BY <1>9, <3>1, <3>3, <3>5, <3>6, <3>7, <3>8, <3>9, <3>10 DEF Entering
    <3>12. QueuesSound'
      <4> HIDE DEF o
      <4> QED BY <1>0, <3>10, <3>11, QueuesEntering
    <3>13. ASSUME ~unseen' PROVE RequestsSound'
      <4>1. RequestsSound /\ Users(o) = {}
        BY <1>0, <1>2, <1>7, <2>0, <3>13, Draining
      <4>2. ASSUME NEW r \in Q, reqcb[r].tskid # NULL PROVE FALSE
        <5>1. reqcb[r].tskid \in Tsk /\ r \in stage[reqcb[r].tskid].reqs
          BY <1>0, <3>4, <4>1, <4>2, RequestKnown DEF RequestsSound
        <5>2. stage[reqcb[r].tskid].at \in InFn \cup {"DRAINFN"} /\ stage[reqcb[r].tskid].at # "DRAINFN"
              /\ stage[reqcb[r].tskid].opn = o
          BY <1>0, <3>4, <4>1, <4>2, <5>1 DEF QueuesSound, RequestsSound
        <5>3. reqcb[r].tskid \in Users(o)
          BY <5>1, <5>2 DEF Users
        <5> QED BY <4>1, <5>3
      <4>3. \A r \in Q : reqcb[r].tskid = NULL /\ reqcb'[r] = reqcb[r]
        BY <1>1, <4>2
      <4>4. EntersAlone(t, s, Q)
        BY <3>6, <4>3 DEF EntersAlone
      <4> HIDE DEF o
      <4> QED BY <1>0, <3>10, <3>11, <4>1, <4>4, RequestsEntering
    <3> QED BY <2>0, <3>12, <3>13
  <2> QED BY <2>1, <2>2
<1>11. ASSUME ~unseen' PROVE AbortsSound'
  <2>1. RequestsSound /\ AbortsSound
    BY <1>10, <1>11
  <2>2. Users(o) = {} /\ opncb[o].abort_tskid = NULL /\ (t \in diswai' => stage[t].clean = NULL)
    BY <1>0, <1>1, <1>2, <1>7, <2>1, Draining
  <2>3. s.opn = o /\ s.at \in Holding /\ stage[t].opn = o /\ stage[t].at \in Holding
        /\ (t \in diswai' => s.at \in Aborting \cup Aborted /\ s.clean = NULL /\ Users(o) = {})
        /\ \A x : x # t => (x \in diswai' <=> x \in diswai)
    BY <1>1, <1>5, <1>7, <2>2
  <2> HIDE DEF o
  <2> QED BY <1>0, <1>2, <1>5, <1>6, <1>7, <2>1, <2>2, <2>3, HoldingAborts
<1> QED BY <1>8, <1>10, <1>11 DEF DevInv, TablesSound, CallsSound

LEMMA Drain_Done == ASSUME DevInv, NEW t \in Tsk, WaitRemaining_Done(t) PROVE DevInv'
<1> DEFINE o == stage[t].opn
           s == stage'[t]
           c == opncb'[o]
<1>0. DevTypeOK /\ BlocksSound /\ QueuesSound
  BY DEF DevInv, TablesSound
<1>1. stage[t].at = "DRAINFN" /\ UNCHANGED <<devcb, diswai, drv>> /\ Suspension
      /\ SetStage(t, Doing("DRAIN", o, {}, 0, stage[t].clean)) /\ refused' = refused /\ (~unseen' => ~unseen)
  BY HistSame DEF WaitRemaining_Done, Drains
<1>2. o \in Opn /\ opncb[o] # NODEV /\ opncb[o] \in OpnCB /\ Has(t, o)
  BY <1>0, <1>1, BlockKnown DEF BlocksSound, Has, Holding, Closing
<1>3. PICK r \in stage[t].reqs : delReqCB(r)
  BY DEF WaitRemaining_Done
<1>4. r \in Req /\ stage[t].reqs = {r}
  BY <1>0, <1>1, TaskKnown DEF QueuesSound
<1>5. opncb' = Unqueue(opncb, r) /\ reqcb' = [reqcb EXCEPT ![r] = NODEV]
  BY <1>3 DEF delReqCB, Without
<1>6. BlocksAlike(opncb)
  BY <1>0 DEF BlocksAlike, DevTypeOK, SameBlock, SameQueue
<1>7. NowAt(t, "DRAIN", o, {}, 0, stage[t].clean)
  <2>1. "DRAIN" \in Ats /\ {} \in SUBSET Req /\ 0 \in 0..1 /\ o \in Opn \cup {NULL} /\ stage[t].clean \in Groups \cup {NULL}
    BY <1>0, TaskKnown DEF Ats, Holding, Closing
  <2> QED BY <1>0, <1>1, <2>1, Nows
<1>8. Becomes(t, s) /\ stage' \in [Tsk -> Stages] /\ s.at = "DRAIN" /\ s.opn = o /\ s.reqs = {} /\ s.clean = stage[t].clean
  BY <1>7 DEF NowAt
<1> HIDE DEF s
<1>9. Shorter(opncb', opncb, r)
  <2> DEFINE us == opncb'
  <2>1. us = Unqueue(opncb, r)
    BY <1>5
  <2> HIDE DEF us, o
  <2>2. Shorter(us, opncb, r)
    BY <1>0, <1>4, <1>6, <2>1, Unqueued
  <2> QED BY <2>2 DEF us
<1>12. SameBlocks
  BY <1>9 DEF SameBlocks, Shorter
<1>13. /\ stage[t].at \in Onward /\ "DRAIN" \in Onward /\ Onward \subseteq Holding
       /\ "DRAIN" \notin InFn \cup {"DRAINFN", "OPENFN", "CLOSE", "CLOSEFN"}
  BY <1>1 DEF Onward, InFn, Holding, Closing
<1>14. /\ reqcb' \in [Req -> ReqCB \cup {NODEV}] /\ reqcb'[r] = NODEV
       /\ \A p \in Req : p # r => reqcb'[p] = reqcb[p]
  BY <1>0, <1>4, <1>5 DEF DevTypeOK
<1>15. DevTypeOK' /\ BlocksSound' /\ CleanersSound' /\ ModesRespected' /\ DriversSound' /\ SuspensionSound'
  BY <1>1, <1>8, <1>9, <1>12, <1>13, <1>14, HoldingStep DEF Shorter
<1>16. Leaving(t, s, {r})
  BY <1>8, <1>9, <1>13, <1>14 DEF Leaving, Shorter
<1>17. QueuesSound'
  <2> DEFINE gone == {r}
  <2>1. Leaving(t, s, gone)
    BY <1>16
  <2> HIDE DEF gone
  <2> QED BY <1>0, <2>1, QueuesLeaving
<1>18. ASSUME ~unseen' PROVE RequestsSound' /\ AbortsSound'
  <2>0. RequestsSound /\ AbortsSound /\ reqcb[r] # NODEV /\ reqcb[r].opn = o
    BY <1>1, <1>4, <1>18 DEF DevInv, CallsSound, RequestsSound
  <2>1. RequestsSound'
    <3> DEFINE gone == {r}
    <3>1. Leaving(t, s, gone) /\ LeavesAlone(t, gone)
      BY <1>4, <1>14, <1>16 DEF LeavesAlone
    <3> HIDE DEF gone
    <3> QED BY <1>0, <2>0, <3>1, RequestsLeaving
  <2>2. stage[t].at \in Aborted /\ s.at \in Aborted /\ s.at \notin Aborting /\ s.at # "SYNC"
    BY <1>1, <1>8 DEF Aborted, Aborting
  <2>3. Users(o) = {} /\ opncb[o].abort_tskid = NULL /\ (t \in diswai' => stage[t].clean = NULL)
    BY <1>0, <1>1, <1>2, <2>0, <2>2, Draining
  <2>4. Turns(o, c) /\ c.abort_tskid = NULL /\ c.nwaireq = opncb[o].nwaireq /\ c.res = opncb[o].res
    BY <1>2, <1>9, <2>0, <2>3 DEF Turns, SameAbort, SameWait, SameBlock, Shorter
  <2>5. s.opn = o /\ s.at \in Holding /\ stage[t].opn = o /\ stage[t].at \in Holding
        /\ (t \in diswai' => s.at \in Aborting \cup Aborted /\ s.clean = NULL /\ Users(o) = {})
        /\ \A x : x # t => (x \in diswai' <=> x \in diswai)
    BY <1>1, <1>8, <1>13, <2>2, <2>3
  <2> HIDE DEF o, c
  <2> QED BY <1>0, <1>2, <1>8, <2>0, <2>1, <2>2, <2>3, <2>4, <2>5, HoldingAborts
<1> QED BY <1>15, <1>17, <1>18 DEF DevInv, TablesSound, CallsSound

-----------------------------------------------------------------------------
(* A task goes into the driver and comes back from it.                     *)
LEMMA NoBlockStep ==
  ASSUME DevInv, NEW t \in Tsk, NEW s, Becomes(t, s), stage' \in [Tsk -> Stages],
         stage[t].at \in InFn \cup {"IDLE"}, s.at \in InFn \cup {"IDLE"},
         s.at \in InFn => s.opn \in Opn, s.clean = NULL,
         s = Idle \/ \A x \in Tsk : stage[x].clean # Resid[t],
         SameBlocks, opncb' \in [Opn -> OpnCB \cup {NODEV}], reqcb' \in [Req -> ReqCB \cup {NODEV}],
         UNCHANGED <<devcb, drv, refused>>, Suspension
  PROVE  /\ DevTypeOK' /\ BlocksSound' /\ CleanersSound' /\ ModesRespected' /\ DriversSound' /\ SuspensionSound'
<1>0. DevTypeOK /\ BlocksSound /\ CleanersSound /\ ModesRespected /\ DriversSound /\ SuspensionSound
  BY DEF DevInv, TablesSound
<1>1. DevTypeOK'
  BY <1>0 DEF DevTypeOK
<1>2. (InFn \cup {"IDLE"}) \cap (Suspending \cup Holding \cup {"OPENFN", "CLOSEFN", "CLEAN"}) = {}
  BY DEF InFn, Closing, Holding, Suspending
<1>3. KeepsBlock(t, s)
  BY <1>0, <1>2 DEF KeepsBlock
<1>4. BlocksSound' /\ ModesRespected' /\ DriversSound'
  BY <1>0, <1>3, BlocksKept, ModesKept, DriversKept
<1>5. CleanersSound'
  BY <1>0, <1>2, IdleIs, CleanersKept
<1>6. SuspensionSound'
  BY <1>0, <1>2, SuspensionSame
<1> QED BY <1>1, <1>4, <1>5, <1>6

(* What holds of the requests Q while the close that comes can see them.   *)
Enters(t, o, at, Q, c) ==
  /\ Calls(t) /\ check_devdesc(t, o) /\ at \in InFn /\ Q \subseteq Req /\ Q # {} /\ Does(t, at, o, Q)
  /\ at = "WAITANY" \/ Single(Q)
  /\ c \in OpnCB /\ opncb' = [opncb EXCEPT ![o] = c] /\ SameBlock(c, opncb[o])
  /\ c.abort_tskid = opncb[o].abort_tskid
  /\ IsInjective(c.requestq) /\ ToSet(c.requestq) = ToSet(opncb[o].requestq) \cup Q
  /\ reqcb' \in [Req -> ReqCB \cup {NODEV}]
  /\ \A r \in Req : r \notin Q => reqcb'[r] = reqcb[r]
  /\ \A r \in Q : (reqcb[r] = NODEV \/ reqcb[r].opn = o) /\ reqcb'[r] # NODEV /\ reqcb'[r].opn = o /\ reqcb'[r].tskid = t
  /\ UNCHANGED <<devcb, diswai, drv>> /\ Suspension /\ refused' = refused
EntersSeen(o, at, Q, c) ==
  /\ ~unseen
  /\ IF at = "WAITANY" THEN c.nwaireq > 0 /\ Users(o) = {} ELSE opncb[o].nwaireq = 0 /\ c.nwaireq = 0
  /\ \A r \in Q : reqcb[r] = NODEV \/ reqcb[r].tskid = NULL

LEMMA EntersDriver ==
  ASSUME DevInv, NEW t \in Tsk, NEW o \in Opn, NEW at, NEW Q, NEW c, Enters(t, o, at, Q, c),
         ~unseen' => EntersSeen(o, at, Q, c)
  PROVE  DevInv'
<1> DEFINE s == stage'[t]
<1>0. DevTypeOK /\ BlocksSound /\ QueuesSound
  BY DEF DevInv, TablesSound
<1>1. /\ opncb[o] # NODEV /\ opncb[o].resid # NULL /\ opncb[o] \in OpnCB
      /\ stage[t] = Idle /\ (\A x \in Tsk : stage[x].clean # Resid[t])
      /\ opncb[o].resid = Resid[t] /\ opncb[o].res = Resid[t]
  BY <1>0, TaskKnown, BlockKnown DEF Enters, check_devdesc, Calls, BlocksSound
<1>2. NowAt(t, at, o, Q, 0, NULL)
  <2>1. at \in Ats /\ Q \in SUBSET Req /\ 0 \in 0..1 /\ o \in Opn \cup {NULL} /\ NULL \in Groups \cup {NULL}
        /\ SetStage(t, Doing(at, o, Q, 0, NULL))
    BY DEF Enters, Ats, Does
  <2> QED BY <1>0, <2>1, Nows
<1>3. Becomes(t, s) /\ stage' \in [Tsk -> Stages] /\ s.at = at /\ s.opn = o /\ s.reqs = Q /\ s.clean = NULL /\ at \in InFn
  BY <1>2 DEF NowAt, Enters
<1> HIDE DEF s
<1>4. Turns(o, c) /\ opncb' \in [Opn -> OpnCB \cup {NODEV}] /\ c # NODEV
  BY <1>0, BlockTurns, DevAssumption DEF Enters
<1>5. SameBlocks /\ opncb'[o] = c /\ \A p \in Opn : p # o => opncb'[p] = opncb[p]
  BY <1>1, <1>4 DEF Enters, SameBlocks, SameBlock, Turns
<1>6. stage[t].at = "IDLE" /\ stage[t].reqs = {} /\ at # "DRAINFN"
  BY <1>1, <1>3, IdleIs DEF InFn
<1>7. DevTypeOK' /\ BlocksSound' /\ CleanersSound' /\ ModesRespected' /\ DriversSound' /\ SuspensionSound'
  BY <1>1, <1>3, <1>4, <1>5, <1>6, NoBlockStep DEF Enters
<1>8. Entering(t, s, o, Q)
  <2>1. \A x \in Tsk : x # t => ~Has(x, o)
    BY <1>0, <1>1 DEF BlocksSound
  <2>2. s.at \in InFn \cup {"DRAINFN"} /\ (s.at = "WAITANY" \/ Single(Q)) /\ Q \subseteq Req /\ Q # {}
    BY <1>3 DEF Enters
  <2>3. \A r \in Q : (reqcb[r] = NODEV \/ reqcb[r].opn = o) /\ reqcb'[r] # NODEV /\ reqcb'[r].opn = o
    BY DEF Enters
  <2>4. /\ opncb'[o] # NODEV /\ IsInjective(opncb'[o].requestq)
        /\ ToSet(opncb'[o].requestq) = ToSet(opncb[o].requestq) \cup Q
    BY <1>4, <1>5 DEF Enters
  <2>5. \A r \in Req : r \notin Q => reqcb'[r] = reqcb[r]
    BY DEF Enters
  <2> QED BY <1>1, <1>3, <1>5, <1>6, <2>1, <2>2, <2>3, <2>4, <2>5 DEF Entering
<1>9. QueuesSound'
  BY <1>0, <1>8, QueuesEntering
<1>10. ASSUME ~unseen' PROVE RequestsSound' /\ AbortsSound'
  <2>0. EntersSeen(o, at, Q, c) /\ RequestsSound /\ AbortsSound
    BY <1>10 DEF EntersSeen, DevInv, CallsSound
  <2>1. EntersAlone(t, s, Q)
    BY <1>3, <1>6, <2>0 DEF EntersAlone, EntersSeen, Enters
  <2>2. RequestsSound'
    BY <1>0, <1>8, <2>0, <2>1, RequestsEntering
  <2>3. /\ opncb'[o].abort_tskid = opncb[o].abort_tskid /\ diswai' = diswai /\ opncb'[o].res = opncb[o].res
        /\ opncb[o].res = Resid[t]
        /\ IF s.at = "WAITANY" THEN opncb'[o].nwaireq > 0 /\ Users(o) = {}
           ELSE opncb[o].nwaireq = 0 /\ opncb'[o].nwaireq = 0
    BY <1>1, <1>3, <1>5, <2>0 DEF Enters, EntersSeen, SameBlock
  <2>4. AbortsSound'
    BY <1>0, <1>1, <1>3, <1>5, <2>0, <2>3, AbortsEntered
  <2> QED BY <2>2, <2>4
<1> QED BY <1>7, <1>9, <1>10 DEF DevInv, TablesSound, CallsSound

(* The requests that a call leaves are nobody's.                           *)
LEMMA NotInProcessIs ==
  ASSUME DevTypeOK, NEW qs, NEW rq, rq = NotInProcess(qs)
  PROVE  /\ rq \in [Req -> ReqCB \cup {NODEV}]
         /\ \A r \in Req : /\ rq[r] = NODEV <=> reqcb[r] = NODEV
                           /\ reqcb[r] # NODEV => rq[r].opn = reqcb[r].opn
                           /\ r \notin qs => rq[r] = reqcb[r]
                           /\ r \in qs /\ reqcb[r] # NODEV => rq[r].tskid = NULL
<1>1. rq = [r \in Req |-> IF r \in qs /\ reqcb[r] # NODEV THEN [reqcb[r] EXCEPT !.tskid = NULL] ELSE reqcb[r]]
  BY DEF NotInProcess
<1>2. ASSUME NEW r \in Req, r \in qs, reqcb[r] # NODEV
      PROVE  rq[r] \in ReqCB /\ rq[r] # NODEV /\ rq[r].opn = reqcb[r].opn /\ rq[r].tskid = NULL
  <2> DEFINE k == [reqcb[r] EXCEPT !.tskid = NULL]
  <2>1. k \in ReqCB /\ k.opn = reqcb[r].opn /\ k.tskid = NULL
    BY <1>2, RequestKnown DEF ReqCB
  <2>2. rq[r] = k
    BY <1>1, <1>2
  <2> QED BY <2>1, <2>2, DevAssumption
<1>3. ASSUME NEW r \in Req, ~(r \in qs /\ reqcb[r] # NODEV)
      PROVE  rq[r] = reqcb[r] /\ reqcb[r] \in ReqCB \cup {NODEV}
  BY <1>1, <1>3 DEF DevTypeOK
<1>4. \A r \in Req : rq[r] \in ReqCB \cup {NODEV}
  BY <1>2, <1>3
<1>5. rq \in [Req -> ReqCB \cup {NODEV}]
  <2>1. rq = [r \in Req |-> rq[r]]
    BY <1>1
  <2> QED BY <1>4, <2>1
<1> QED BY <1>2, <1>3, <1>5

LEMMA QueueAppended ==
  ASSUME NEW q \in Seq(Req), NEW r \in Req, IsInjective(q), r \notin ToSet(q)
  PROVE  /\ Append(q, r) \in Seq(Req) /\ IsInjective(Append(q, r))
         /\ ToSet(Append(q, r)) = ToSet(q) \cup {r}
<1> DEFINE n == Len(q)
           a == Append(q, r)
<1>1. /\ n \in Nat /\ a \in Seq(Req) /\ Len(a) = n + 1 /\ a[n + 1] = r /\ \A i \in 1..n : a[i] = q[i]
  OBVIOUS
<1>2. ToSet(q) = {q[i] : i \in 1..n} /\ ToSet(a) = {a[i] : i \in 1..(n + 1)}
  BY <1>1 DEF ToSet
<1>3. \A i, j \in 1..n : q[i] = q[j] => i = j
  BY DEF IsInjective
<1>4. DOMAIN a = 1..(n + 1)
  BY <1>1
<1> HIDE DEF n, a
<1>5. 1..(n + 1) = (1..n) \cup {n + 1}
  BY <1>1
<1>6. \A i \in 1..n : q[i] # r
  BY <1>2
<1>7. ToSet(a) = ToSet(q) \cup {r}
  BY <1>1, <1>2, <1>5
<1>8. \A i, j \in 1..(n + 1) : a[i] = a[j] => i = j
  <2> SUFFICES ASSUME NEW i \in 1..(n + 1), NEW j \in 1..(n + 1), a[i] = a[j] PROVE i = j
    OBVIOUS
  <2>1. i \in 1..n \/ i = n + 1
    BY <1>5
  <2>2. j \in 1..n \/ j = n + 1
    BY <1>5
  <2> QED BY <1>1, <1>3, <1>6, <2>1, <2>2
<1>9. IsInjective(a)
  BY <1>4, <1>8 DEF IsInjective
<1> QED BY <1>1, <1>7, <1>9 DEF a

LEMMA NotifiedIs ==
  ASSUME NEW b \in OpnCB
  PROVE  /\ Notified(b) \in OpnCB /\ SameBlock(Notified(b), b) /\ SameQueue(Notified(b), b) /\ SameWait(Notified(b), b)
         /\ Notified(b).abort_tskid = b.abort_tskid
         /\ b.abort_tskid # NULL => Notified(b).abort_cnt = b.abort_cnt - 1
<1> DEFINE v == b.abort_cnt - 1
           e == [b EXCEPT !.abort_cnt = v]
<1>1. v \in Int
  BY DEF OpnCB
<1> HIDE DEF v
<1>2. /\ e \in OpnCB /\ SameBlock(e, b) /\ SameQueue(e, b) /\ SameWait(e, b)
      /\ e.abort_cnt = v /\ e.abort_tskid = b.abort_tskid
  BY <1>1, BlockFields
<1>3. Notified(b) = IF b.abort_tskid # NULL THEN e ELSE b
  <2>4. b # NODEV
    BY DevAssumption
  <2> QED BY <2>4 DEF Notified, Counted, v
<1> HIDE DEF e
<1>4. SameBlock(b, b) /\ SameQueue(b, b) /\ SameWait(b, b)
  BY DEF SameBlock, SameQueue, SameWait
<1>5. CASE b.abort_tskid # NULL
  BY <1>2, <1>3, <1>5 DEF v
<1>6. CASE b.abort_tskid = NULL
  BY <1>3, <1>4, <1>6
<1> QED BY <1>5, <1>6


(* What a task that leaves the driver did to its descriptor, if it is open.*)
Left(t, bs) ==
  LET o == stage[t].opn IN
  /\ BlocksAlike(bs) /\ \A p \in Opn : p # o => bs[p] = opncb[p]
  /\ opncb[o] # NODEV =>
       /\ bs[o].abort_tskid = opncb[o].abort_tskid
       /\ opncb[o].abort_tskid # NULL => bs[o].abort_cnt = opncb[o].abort_cnt - 1
       /\ bs[o].nwaireq = IF stage[t].at = "WAITANY" THEN 0 ELSE opncb[o].nwaireq
Completes(t, bs, gone) ==
  LET rq == NotInProcess(stage[t].reqs) IN
  \/ gone = {} /\ opncb' = bs /\ reqcb' = rq
  \/ \E r \in stage[t].reqs : gone = {r} /\ opncb' = Unqueue(bs, r) /\ reqcb' = Without(rq, r)

(* The blocks and requests after that.                                     *)
Completed(t, bs, gone) ==
  /\ gone \subseteq stage[t].reqs
  /\ opncb' \in [Opn -> OpnCB \cup {NODEV}] /\ reqcb' \in [Req -> ReqCB \cup {NODEV}]
  /\ \A p \in Opn :
       /\ opncb'[p] = NODEV <=> opncb[p] = NODEV
       /\ opncb[p] # NODEV =>
            /\ SameBlock(opncb'[p], opncb[p]) /\ SameWait(opncb'[p], bs[p]) /\ SameAbort(opncb'[p], bs[p])
            /\ opncb'[p].requestq \in Seq(Req) /\ IsInjective(opncb'[p].requestq)
            /\ ToSet(opncb'[p].requestq) = ToSet(opncb[p].requestq) \ gone
       /\ (\A r \in gone : reqcb[r] = NODEV \/ reqcb[r].opn # p) => opncb'[p] = bs[p]
  /\ \A r \in Req : /\ r \in gone => reqcb'[r] = NODEV
                    /\ r \notin gone => /\ reqcb'[r] = NODEV <=> reqcb[r] = NODEV
                                        /\ reqcb[r] # NODEV => reqcb'[r].opn = reqcb[r].opn
                    /\ r \notin stage[t].reqs => reqcb'[r] = reqcb[r]
                    /\ r \in stage[t].reqs \ gone /\ reqcb[r] # NODEV => reqcb'[r].tskid = NULL

LEMMA CompletesIs ==
  ASSUME DevTypeOK, QueuesSound, NEW t \in Tsk, NEW bs, BlocksAlike(bs), NEW gone, Completes(t, bs, gone)
  PROVE  Completed(t, bs, gone)
<1> DEFINE qs == stage[t].reqs
           rq == NotInProcess(qs)
<1>1. /\ rq \in [Req -> ReqCB \cup {NODEV}]
      /\ \A r \in Req : /\ rq[r] = NODEV <=> reqcb[r] = NODEV
                        /\ reqcb[r] # NODEV => rq[r].opn = reqcb[r].opn
                        /\ r \notin qs => rq[r] = reqcb[r]
                        /\ r \in qs /\ reqcb[r] # NODEV => rq[r].tskid = NULL
  <2> HIDE DEF qs
  <2> QED BY NotInProcessIs
<1>2. qs \subseteq Req
  BY TaskKnown
<1>3. \/ gone = {} /\ opncb' = bs /\ reqcb' = rq
      \/ \E r \in qs : gone = {r} /\ opncb' = Unqueue(bs, r) /\ reqcb' = Without(rq, r)
  BY DEF Completes
<1> HIDE DEF rq, qs
<1>4. CASE gone = {} /\ opncb' = bs /\ reqcb' = rq
  <2>1. \A p \in Opn : opncb[p] # NODEV =>
          /\ SameWait(bs[p], bs[p]) /\ SameAbort(bs[p], bs[p])
          /\ bs[p].requestq = opncb[p].requestq /\ SameBlock(bs[p], opncb[p])
          /\ opncb[p].requestq \in Seq(Req) /\ IsInjective(opncb[p].requestq)
    BY BlockKnown DEF SameWait, SameAbort, BlocksAlike, SameQueue, QueuesSound
  <2>2. \A p \in Opn :
          /\ bs[p] = NODEV <=> opncb[p] = NODEV
          /\ opncb[p] # NODEV =>
               /\ SameBlock(bs[p], opncb[p]) /\ SameWait(bs[p], bs[p]) /\ SameAbort(bs[p], bs[p])
               /\ bs[p].requestq \in Seq(Req) /\ IsInjective(bs[p].requestq)
               /\ ToSet(bs[p].requestq) = ToSet(opncb[p].requestq) \ gone
    BY <1>4, <2>1 DEF BlocksAlike
  <2>3. \A r \in Req : /\ r \in gone => rq[r] = NODEV
                       /\ r \notin gone => /\ rq[r] = NODEV <=> reqcb[r] = NODEV
                                           /\ reqcb[r] # NODEV => rq[r].opn = reqcb[r].opn
                       /\ r \notin qs => rq[r] = reqcb[r]
                       /\ r \in qs \ gone /\ reqcb[r] # NODEV => rq[r].tskid = NULL
    BY <1>1, <1>4
  <2>4. gone \subseteq qs /\ bs \in [Opn -> OpnCB \cup {NODEV}]
    BY <1>4 DEF BlocksAlike
  <2> QED BY <1>1, <1>4, <2>2, <2>3, <2>4 DEF Completed, qs
<1>5. ASSUME NEW r \in qs, gone = {r}, opncb' = Unqueue(bs, r), reqcb' = Without(rq, r) PROVE Completed(t, bs, gone)
  <2> DEFINE us == opncb'
  <2>1. us = Unqueue(bs, r) /\ r \in Req
    BY <1>2, <1>5
  <2> HIDE DEF us
  <2>2. Shorter(us, bs, r)
    BY <2>1, Unqueued
  <2>3. /\ opncb' \in [Opn -> OpnCB \cup {NODEV}]
        /\ \A p \in Opn :
             /\ opncb'[p] = NODEV <=> opncb[p] = NODEV
             /\ opncb[p] # NODEV =>
                  /\ SameBlock(opncb'[p], opncb[p]) /\ SameWait(opncb'[p], bs[p]) /\ SameAbort(opncb'[p], bs[p])
                  /\ opncb'[p].requestq \in Seq(Req) /\ IsInjective(opncb'[p].requestq)
                  /\ ToSet(opncb'[p].requestq) = ToSet(opncb[p].requestq) \ gone
             /\ (\A x \in gone : reqcb[x] = NODEV \/ reqcb[x].opn # p) => opncb'[p] = bs[p]
    BY <1>5, <2>2 DEF us, Shorter
  <2>4. reqcb' = [rq EXCEPT ![r] = NODEV]
    BY <1>5 DEF Without
  <2>5. reqcb' \in [Req -> ReqCB \cup {NODEV}] /\ reqcb'[r] = NODEV /\ \A x \in Req : x # r => reqcb'[x] = rq[x]
    BY <1>1, <2>1, <2>4
  <2>6. \A x \in Req : /\ x \in gone => reqcb'[x] = NODEV
                       /\ x \notin gone => /\ reqcb'[x] = NODEV <=> reqcb[x] = NODEV
                                           /\ reqcb[x] # NODEV => reqcb'[x].opn = reqcb[x].opn
                       /\ x \notin qs => reqcb'[x] = reqcb[x]
                       /\ x \in qs \ gone /\ reqcb[x] # NODEV => reqcb'[x].tskid = NULL
    BY <1>1, <1>5, <2>5
  <2>7. gone \subseteq qs
    BY <1>5
  <2> QED BY <2>3, <2>5, <2>6, <2>7 DEF Completed, qs
<1> QED BY <1>3, <1>4, <1>5

LEMMA LeavesDriver ==
  ASSUME DevInv, NEW t \in Tsk, stage[t].at \in InFn, Returns(t), NEW bs, Left(t, bs), NEW gone, Completes(t, bs, gone),
         SyncSignalDM(opncb[stage[t].opn]), UNCHANGED <<devcb, drv>>, Suspension,
         refused' = refused, ~unseen' => ~unseen
  PROVE  DevInv'
<1> DEFINE o == stage[t].opn
           s == Idle
<1>0. DevTypeOK /\ BlocksSound /\ QueuesSound /\ CleanersSound
  BY DEF DevInv, TablesSound
<1>1. o \in Opn
  BY <1>0 DEF BlocksSound
<1>2. Completed(t, bs, gone)
  <2>1. BlocksAlike(bs)
    BY DEF Left
  <2> QED BY <1>0, <2>1, CompletesIs
<1>3. Becomes(t, s) /\ stage' \in [Tsk -> Stages]
  BY <1>0, Becoming, IdleIs DEF Returns, SetStage, DevTypeOK
<1>4. s.reqs = {} /\ s.clean = NULL /\ s.at = "IDLE"
      /\ s.at \notin InFn \cup {"DRAINFN", "OPENFN", "CLOSE", "CLOSEFN"}
  BY IdleIs DEF InFn
<1>5. DevTypeOK' /\ BlocksSound' /\ CleanersSound' /\ ModesRespected' /\ DriversSound' /\ SuspensionSound'
  <2>1. SameBlocks
    BY <1>2 DEF Completed, SameBlocks
  <2>2. opncb' \in [Opn -> OpnCB \cup {NODEV}] /\ reqcb' \in [Req -> ReqCB \cup {NODEV}]
    BY <1>2 DEF Completed
  <2>3. stage[t].at \in InFn \cup {"IDLE"} /\ s.at \in InFn \cup {"IDLE"} /\ s.at \notin InFn
    BY <1>4
  <2> QED BY <1>3, <1>4, <2>1, <2>2, <2>3, NoBlockStep
<1>6. Leaving(t, s, gone)
  <2> HIDE DEF s
  <2> QED BY <1>2, <1>3, <1>4 DEF Leaving, Completed
<1>7. QueuesSound'
  <2> HIDE DEF s
  <2> QED BY <1>0, <1>6, QueuesLeaving
<1>8. ASSUME ~unseen' PROVE RequestsSound' /\ AbortsSound'
  <2>0. RequestsSound /\ AbortsSound
    BY <1>8 DEF DevInv, CallsSound
  <2>1. stage[t].reqs # {} /\ \A r \in stage[t].reqs : r \in Req /\ reqcb[r] # NODEV /\ reqcb[r].opn = o
    BY <1>0, <2>0, TaskKnown DEF QueuesSound, RequestsSound
  <2>2. RequestsSound'
    <3>1. LeavesAlone(t, gone)
      BY <1>2, <2>1 DEF LeavesAlone, Completed
    <3> HIDE DEF s
    <3> QED BY <1>0, <1>6, <2>0, <3>1, RequestsLeaving
  <2>3. opncb[o] # NODEV /\ opncb'[o] # NODEV
    <3>1. opncb[o] # NODEV
      BY <2>1, <1>0 DEF QueuesSound
    <3> QED BY <1>1, <1>2, <3>1 DEF Completed
  <2>4. \A p \in Opn : p # o => opncb'[p] = opncb[p]
    <3>1. \A r \in gone : reqcb[r].opn = o
      BY <1>2, <2>1 DEF Completed
    <3>2. \A p \in Opn : p # o => opncb'[p] = bs[p]
      BY <1>2, <3>1 DEF Completed
    <3>3. \A p \in Opn : p # o => bs[p] = opncb[p]
      BY DEF Left
    <3> QED BY <3>2, <3>3
  <2>5. /\ opncb'[o].abort_tskid = opncb[o].abort_tskid /\ opncb'[o].res = opncb[o].res
        /\ opncb[o].abort_tskid # NULL => opncb'[o].abort_cnt = opncb[o].abort_cnt - 1
        /\ opncb'[o].nwaireq = IF stage[t].at = "WAITANY" THEN 0 ELSE opncb[o].nwaireq
    <3>1. SameBlock(opncb'[o], opncb[o]) /\ SameWait(opncb'[o], bs[o]) /\ SameAbort(opncb'[o], bs[o])
      BY <1>1, <1>2, <2>3 DEF Completed
    <3> QED BY <2>3, <3>1 DEF SameBlock, SameWait, SameAbort, Left
  <2>6. AbortsSound'
    BY <1>0, <1>1, <1>3, <2>0, <2>3, <2>4, <2>5, AbortsLeft
  <2> QED BY <2>2, <2>6
<1> QED BY <1>5, <1>7, <1>8 DEF DevInv, TablesSound, CallsSound

LEMMA Request_EXEC ==
  ASSUME DevInv, NEW t \in Tsk, NEW o \in Opn, NEW cmd, request(t, o, cmd)
  PROVE  DevInv'
<1> DEFINE r == CHOOSE x \in Req : reqcb[x] = NODEV
           c == opncb'[o]
           v == Append(opncb[o].requestq, r)
           k == [opn |-> o, tskid |-> t]
<1>0. DevTypeOK /\ QueuesSound
  BY DEF DevInv, TablesSound
<1>1. /\ Calls(t) /\ check_devdesc(t, o) /\ Does(t, "EXECFN", o, {r})
      /\ reqcb' = [reqcb EXCEPT ![r] = k] /\ opncb' = [opncb EXCEPT ![o].requestq = v]
      /\ UNCHANGED <<devcb, diswai, drv>> /\ Suspension /\ \E x \in Req : reqcb[x] = NODEV
      /\ refused' = refused
  BY <1>0 DEF request, newReqCB, DevTypeOK
<1>16. ~unseen' => ~unseen /\ ~Meets(o, {})
  <2>1. unseen' = (unseen \/ Meets(o, {}))
    BY DEF request
  <2> QED BY <2>1, Zenon
<1>2. r \in Req /\ reqcb[r] = NODEV
  BY <1>1
<1> HIDE DEF r
<1>3. opncb[o] # NODEV /\ opncb[o] \in OpnCB /\ opncb[o].requestq \in Seq(Req)
  BY <1>0, <1>1, BlockKnown DEF check_devdesc
<1>4. IsInjective(opncb[o].requestq) /\ r \notin ToSet(opncb[o].requestq)
  BY <1>0, <1>2, <1>3 DEF QueuesSound
<1>5. v \in Seq(Req) /\ IsInjective(v) /\ ToSet(v) = ToSet(opncb[o].requestq) \cup {r}
  BY <1>2, <1>3, <1>4, QueueAppended
<1> HIDE DEF v
<1>6. /\ c \in OpnCB /\ opncb' = [opncb EXCEPT ![o] = c] /\ SameBlock(c, opncb[o]) /\ c.requestq = v
      /\ c.abort_tskid = opncb[o].abort_tskid /\ c.nwaireq = opncb[o].nwaireq
  <2> DEFINE b == opncb[o]
             e == [b EXCEPT !.requestq = v]
  <2>1. opncb' = [opncb EXCEPT ![o] = e]
    BY <1>0, <1>1 DEF DevTypeOK
  <2>2. /\ e \in OpnCB /\ SameBlock(e, b) /\ SameWait(e, b) /\ SameAbort(e, b) /\ e.requestq = v
    BY <1>3, <1>5, BlockFields
  <2> HIDE DEF e
  <2>3. c = e
    BY <1>0, <2>1 DEF DevTypeOK
  <2> QED BY <2>1, <2>2, <2>3 DEF SameWait, SameAbort
<1> HIDE DEF c
<1>7. k \in ReqCB /\ k # NODEV /\ k.opn = o /\ k.tskid = t
  BY DevAssumption DEF ReqCB
<1> HIDE DEF k
<1>8. /\ reqcb' \in [Req -> ReqCB \cup {NODEV}] /\ reqcb'[r] = k /\ \A x \in Req : x # r => reqcb'[x] = reqcb[x]
  BY <1>0, <1>1, <1>2, <1>7 DEF DevTypeOK
<1> DEFINE Q == {r}
<1>9. Q \subseteq Req /\ Q # {} /\ Single(Q)
  BY <1>2 DEF Single
<1>10. \A x \in Req : x \notin Q => reqcb'[x] = reqcb[x]
  BY <1>8
<1>11. \A x \in Q : /\ reqcb[x] = NODEV
                    /\ reqcb'[x] # NODEV /\ reqcb'[x].opn = o /\ reqcb'[x].tskid = t
  BY <1>2, <1>7, <1>8
<1>12. Does(t, "EXECFN", o, Q) /\ IsInjective(c.requestq) /\ ToSet(c.requestq) = ToSet(opncb[o].requestq) \cup Q
  BY <1>1, <1>5, <1>6
<1>13. "EXECFN" \in InFn /\ "EXECFN" # "WAITANY"
  BY DEF InFn
<1> HIDE DEF Q
<1>15. Enters(t, o, "EXECFN", Q, c)
  BY <1>1, <1>6, <1>8, <1>9, <1>10, <1>11, <1>12, <1>13 DEF Enters
<1>17. ASSUME ~unseen' PROVE EntersSeen(o, "EXECFN", Q, c)
  <2>1. ~unseen /\ ~(opncb[o].nwaireq > 0)
    BY <1>16, <1>17 DEF Meets
  <2>2. opncb[o].nwaireq = 0
    BY <1>3, <2>1 DEF DevInv, CallsSound, AbortsSound, BlockAborts
  <2> QED BY <1>6, <1>11, <1>13, <2>1, <2>2 DEF EntersSeen
<1> QED BY <1>15, <1>17, EntersDriver

LEMMA Wait_WAIT == ASSUME DevInv, NEW t \in Tsk, NEW o \in Opn, NEW r \in Req, _tk_wai_dev(t, o, r) PROVE DevInv'
<1> DEFINE c == opncb'[o]
           v == opncb[o].waitone + 1
<1>0. DevTypeOK /\ QueuesSound
  BY DEF DevInv, TablesSound
<1>1. /\ Calls(t) /\ check_devdesc(t, o) /\ ~(opncb[o].nwaireq > 0) /\ Does(t, "WAITFN", o, {r})
      /\ reqcb[r] # NODEV /\ reqcb[r].opn = o /\ reqcb[r].tskid = NULL
      /\ reqcb' = [reqcb EXCEPT ![r].tskid = t] /\ opncb' = [opncb EXCEPT ![o].waitone = v]
      /\ UNCHANGED <<devcb, diswai, drv>> /\ Suspension /\ refused' = refused /\ (~unseen' => ~unseen)
  BY <1>0, HistSame DEF _tk_wai_dev, DevTypeOK
<1>3. opncb[o] # NODEV /\ opncb[o] \in OpnCB /\ v \in Int
  BY <1>0, <1>1, BlockKnown DEF check_devdesc
<1> HIDE DEF v
<1>4. IsInjective(opncb[o].requestq) /\ r \in ToSet(opncb[o].requestq)
  BY <1>0, <1>1, <1>3 DEF QueuesSound
<1>6. /\ c \in OpnCB /\ opncb' = [opncb EXCEPT ![o] = c] /\ SameBlock(c, opncb[o]) /\ c.requestq = opncb[o].requestq
      /\ c.abort_tskid = opncb[o].abort_tskid /\ c.nwaireq = opncb[o].nwaireq
  <2> DEFINE b == opncb[o]
             e == [b EXCEPT !.waitone = v]
  <2>1. opncb' = [opncb EXCEPT ![o] = e]
    BY <1>0, <1>1 DEF DevTypeOK
  <2>2. /\ e \in OpnCB /\ SameBlock(e, b) /\ SameQueue(e, b) /\ SameAbort(e, b) /\ e.nwaireq = b.nwaireq
    BY <1>3, BlockFields
  <2> HIDE DEF e
  <2>3. c = e
    BY <1>0, <2>1 DEF DevTypeOK
  <2> QED BY <2>1, <2>2, <2>3 DEF SameQueue, SameAbort
<1> HIDE DEF c
<1>7. /\ reqcb' \in [Req -> ReqCB \cup {NODEV}] /\ reqcb'[r] \in ReqCB /\ reqcb'[r].opn = o /\ reqcb'[r].tskid = t
      /\ \A x \in Req : x # r => reqcb'[x] = reqcb[x]
  <2> DEFINE k == [reqcb[r] EXCEPT !.tskid = t]
  <2>1. k \in ReqCB /\ k.opn = o /\ k.tskid = t
    BY <1>0, <1>1, RequestKnown DEF ReqCB
  <2>2. reqcb' = [reqcb EXCEPT ![r] = k]
    BY <1>0, <1>1 DEF DevTypeOK
  <2> HIDE DEF k
  <2> QED BY <1>0, <2>1, <2>2 DEF DevTypeOK
<1> DEFINE Q == {r}
<1>9. Q \subseteq Req /\ Q # {} /\ Single(Q)
  BY DEF Single
<1>10. \A x \in Req : x \notin Q => reqcb'[x] = reqcb[x]
  BY <1>7
<1>11. \A x \in Q : /\ reqcb[x] = NODEV \/ (reqcb[x].opn = o /\ reqcb[x].tskid = NULL)
                    /\ reqcb'[x] # NODEV /\ reqcb'[x].opn = o /\ reqcb'[x].tskid = t
  BY <1>1, <1>7, DevAssumption
<1>12. Does(t, "WAITFN", o, Q) /\ IsInjective(c.requestq) /\ ToSet(c.requestq) = ToSet(opncb[o].requestq) \cup Q
  BY <1>1, <1>4, <1>6
<1>13. "WAITFN" \in InFn /\ "WAITFN" # "WAITANY"
  BY DEF InFn
<1> HIDE DEF Q
<1>15. Enters(t, o, "WAITFN", Q, c)
  BY <1>1, <1>6, <1>7, <1>9, <1>10, <1>11, <1>12, <1>13 DEF Enters
<1>17. ASSUME ~unseen' PROVE EntersSeen(o, "WAITFN", Q, c)
  <2>1. ~unseen
    BY <1>1, <1>17
  <2>2. opncb[o].nwaireq = 0
    BY <1>1, <1>3, <2>1 DEF DevInv, CallsSound, AbortsSound, BlockAborts
  <2> QED BY <1>6, <1>11, <1>13, <2>1, <2>2 DEF EntersSeen
<1> QED BY <1>15, <1>17, EntersDriver

LEMMA Wait_ANY == ASSUME DevInv, NEW t \in Tsk, NEW o \in Opn, _tk_wai_dev_Any(t, o) PROVE DevInv'
<1> DEFINE c == opncb'[o]
           q == opncb[o].requestq
           v == Len(q)
           Q == ToSet(q)
<1>0. DevTypeOK /\ QueuesSound
  BY DEF DevInv, TablesSound
<1>1. /\ Calls(t) /\ check_devdesc(t, o) /\ q # <<>> /\ Does(t, "WAITANY", o, Q)
      /\ reqcb' = [r \in Req |-> IF r \in Q THEN [reqcb[r] EXCEPT !.tskid = t] ELSE reqcb[r]]
      /\ opncb' = [opncb EXCEPT ![o].nwaireq = v]
      /\ UNCHANGED <<devcb, diswai, drv>> /\ Suspension /\ refused' = refused
  BY DEF _tk_wai_dev_Any
<1>16. ~unseen' => ~unseen /\ ~Meets(o, Q)
  <2>1. unseen' = (unseen \/ Meets(o, Q))
    BY DEF _tk_wai_dev_Any
  <2> QED BY <2>1, Zenon
<1>3. opncb[o] # NODEV /\ opncb[o] \in OpnCB /\ q \in Seq(Req)
  BY <1>0, <1>1, BlockKnown DEF check_devdesc
<1>2. v \in Int /\ v > 0 /\ Q # {} /\ Q \subseteq Req
  <2>1. v \in Nat /\ v # 0
    BY <1>1, <1>3
  <2>2. Q # {}
    <3>1. 1 \in DOMAIN q
      BY <1>1, <1>3, <2>1
    <3> QED BY <3>1 DEF ToSet
  <2>3. Q \subseteq Req
    BY <1>3 DEF ToSet
  <2> QED BY <2>1, <2>2, <2>3
<1>4. IsInjective(q) /\ Q = {r \in Req : reqcb[r] # NODEV /\ reqcb[r].opn = o}
  BY <1>0, <1>3 DEF QueuesSound
<1> HIDE DEF v, Q
<1>6. /\ c \in OpnCB /\ opncb' = [opncb EXCEPT ![o] = c] /\ SameBlock(c, opncb[o]) /\ c.requestq = q
      /\ c.abort_tskid = opncb[o].abort_tskid /\ c.nwaireq = v
  <2> DEFINE b == opncb[o]
             e == [b EXCEPT !.nwaireq = v]
  <2>1. opncb' = [opncb EXCEPT ![o] = e]
    BY <1>0, <1>1 DEF DevTypeOK
  <2>2. /\ e \in OpnCB /\ SameBlock(e, b) /\ SameQueue(e, b) /\ SameAbort(e, b) /\ e.nwaireq = v
    BY <1>2, <1>3, BlockFields
  <2> HIDE DEF e
  <2>3. c = e
    BY <1>0, <2>1 DEF DevTypeOK
  <2> QED BY <2>1, <2>2, <2>3 DEF SameQueue, SameAbort
<1> HIDE DEF c
<1>7. \A r \in Q : reqcb'[r] \in ReqCB /\ reqcb'[r].opn = o /\ reqcb'[r].tskid = t
  <2> SUFFICES ASSUME NEW r \in Q PROVE reqcb'[r] \in ReqCB /\ reqcb'[r].opn = o /\ reqcb'[r].tskid = t
    OBVIOUS
  <2> DEFINE k == [reqcb[r] EXCEPT !.tskid = t]
  <2>1. k \in ReqCB /\ k.opn = o /\ k.tskid = t
    BY <1>0, <1>4, RequestKnown DEF ReqCB
  <2>2. reqcb'[r] = k
    BY <1>1, <1>2
  <2> QED BY <2>1, <2>2
<1>8. /\ \A r \in Req : r \notin Q => reqcb'[r] = reqcb[r]
      /\ reqcb' \in [Req -> ReqCB \cup {NODEV}]
  <2>1. \A r \in Req : r \notin Q => reqcb'[r] = reqcb[r] /\ reqcb[r] \in ReqCB \cup {NODEV}
    BY <1>0, <1>1 DEF DevTypeOK
  <2>2. DOMAIN reqcb' = Req /\ reqcb' = [r \in Req |-> reqcb'[r]]
    BY <1>1
  <2>3. \A r \in Req : reqcb'[r] \in ReqCB \cup {NODEV}
    BY <1>7, <2>1
  <2> QED BY <2>1, <2>2, <2>3
<1>11. \A x \in Q : reqcb[x].opn = o /\ reqcb'[x] # NODEV /\ reqcb'[x].opn = o /\ reqcb'[x].tskid = t
  BY <1>4, <1>7, DevAssumption
<1>12. IsInjective(c.requestq) /\ ToSet(c.requestq) = ToSet(opncb[o].requestq) \cup Q
  BY <1>4, <1>6 DEF Q
<1>13. "WAITANY" \in InFn
  BY DEF InFn
<1>14. c.nwaireq > 0
  BY <1>2, <1>6
<1>15. Enters(t, o, "WAITANY", Q, c)
  BY <1>1, <1>2, <1>6, <1>8, <1>11, <1>12, <1>13 DEF Enters
<1>17. ASSUME ~unseen' PROVE EntersSeen(o, "WAITANY", Q, c)
  <2>0. ~unseen /\ RequestsSound /\ \A r \in Q : reqcb[r].tskid = NULL
    BY <1>16, <1>17 DEF DevInv, CallsSound, Meets
  <2>1. Users(o) = {}
    <3> SUFFICES ASSUME NEW x \in Users(o) PROVE FALSE
      OBVIOUS
    <3>1. x \in Tsk /\ stage[x].at \in InFn /\ stage[x].opn = o /\ x # NULL
      BY <1>0, TaskKnown DEF Users
    <3>2. PICK r \in stage[x].reqs : TRUE
      BY <1>0, <3>1 DEF QueuesSound
    <3>3. r \in Req /\ reqcb[r] # NODEV /\ reqcb[r].opn = o /\ reqcb[r].tskid = x
      BY <1>0, <2>0, <3>1, <3>2, TaskKnown DEF RequestsSound, InFn
    <3> QED BY <1>4, <2>0, <3>1, <3>3
  <2> QED BY <1>14, <2>0, <2>1 DEF EntersSeen
<1> QED BY <1>15, <1>17, EntersDriver

LEMMA Request_Done == ASSUME DevInv, NEW t \in Tsk, request_Done(t) PROVE DevInv'
<1> DEFINE o == stage[t].opn
           qs == stage[t].reqs
           b == opncb[o]
           n == Notified(b)
           on == [opncb EXCEPT ![o] = Notified(@)]
<1>0. DevTypeOK /\ BlocksSound /\ QueuesSound
  BY DEF DevInv, TablesSound
<1>1. /\ stage[t].at = "EXECFN" /\ SyncSignalDM(b) /\ Returns(t) /\ UNCHANGED <<devcb, drv>> /\ Suspension
      /\ refused' = refused /\ (~unseen' => ~unseen)
      /\ stage[t].at \in InFn /\ o \in Opn /\ opncb \in [Opn -> OpnCB \cup {NODEV}]
  BY <1>0, HistSame DEF request_Done, InFn, BlocksSound, DevTypeOK
<1>2. PICK gone : Completes(t, on, gone)
  BY DEF request_Done, Completes
<1>3. /\ b = NODEV => n = NODEV
      /\ b # NODEV => /\ n \in OpnCB /\ n # NODEV /\ SameBlock(n, b) /\ SameQueue(n, b) /\ SameWait(n, b)
                      /\ n.abort_tskid = b.abort_tskid
                      /\ b.abort_tskid # NULL => n.abort_cnt = b.abort_cnt - 1
  <2>1. b = NODEV => n = NODEV
    BY DEF Notified, Counted
  <2>2. b # NODEV => b \in OpnCB
    BY <1>0, <1>1, BlockKnown
  <2> HIDE DEF b
  <2> QED BY <2>1, <2>2, NotifiedIs, DevAssumption
<1>4. on = [opncb EXCEPT ![o] = n]
  OBVIOUS
<1> HIDE DEF n
<1>5. Left(t, on)
  <2>1. \A p \in Opn : on[p] = IF p = o THEN n ELSE opncb[p]
    BY <1>1, <1>4
  <2>2. on \in [Opn -> OpnCB \cup {NODEV}]
    BY <1>1, <1>3, <1>4
  <2>3. \A p \in Opn : opncb[p] # NODEV => SameBlock(opncb[p], opncb[p]) /\ SameQueue(opncb[p], opncb[p])
    BY DEF SameBlock, SameQueue
  <2> HIDE DEF on
  <2>4. BlocksAlike(on)
    BY <1>3, <2>1, <2>2, <2>3 DEF BlocksAlike
  <2> QED BY <1>1, <1>3, <2>1, <2>4 DEF Left, SameWait
<1> HIDE DEF on
<1> QED BY <1>1, <1>2, <1>5, LeavesDriver

LEMMA Wait_Done == ASSUME DevInv, NEW t \in Tsk, _tk_wai_dev_Done(t) PROVE DevInv'
<1> DEFINE o == stage[t].opn
           qs == stage[t].reqs
           b == opncb[o]
           n == Notified(b)
           m == IF stage[t].at = "WAITANY" THEN [n EXCEPT !.nwaireq = 0] ELSE [n EXCEPT !.waitone = @ - 1]
           on == IF b = NODEV THEN opncb ELSE [opncb EXCEPT ![o] = m]
<1>0. DevTypeOK /\ BlocksSound /\ QueuesSound
  BY DEF DevInv, TablesSound
<1>1. /\ stage[t].at \in {"WAITFN", "WAITANY"} /\ SyncSignalDM(b) /\ Returns(t) /\ UNCHANGED <<devcb, drv>> /\ Suspension
      /\ refused' = refused /\ (~unseen' => ~unseen)
      /\ stage[t].at \in InFn /\ o \in Opn /\ opncb \in [Opn -> OpnCB \cup {NODEV}]
  BY <1>0, HistSame DEF _tk_wai_dev_Done, InFn, BlocksSound, DevTypeOK
<1>2. PICK gone : Completes(t, on, gone)
  <2>1. \/ opncb' = on /\ reqcb' = NotInProcess(qs)
        \/ \E r \in qs : opncb' = Unqueue(on, r) /\ reqcb' = Without(NotInProcess(qs), r)
    BY ZenonT(30) DEF _tk_wai_dev_Done
  <2> HIDE DEF on
  <2> QED BY <2>1 DEF Completes
<1>3. b # NODEV => /\ m \in OpnCB /\ m # NODEV /\ SameBlock(m, b) /\ SameQueue(m, b)
                   /\ m.abort_tskid = b.abort_tskid
                   /\ b.abort_tskid # NULL => m.abort_cnt = b.abort_cnt - 1
                   /\ m.nwaireq = IF stage[t].at = "WAITANY" THEN 0 ELSE b.nwaireq
  <2> SUFFICES ASSUME b # NODEV
               PROVE  /\ m \in OpnCB /\ m # NODEV /\ SameBlock(m, b) /\ SameQueue(m, b)
                      /\ m.abort_tskid = b.abort_tskid
                      /\ b.abort_tskid # NULL => m.abort_cnt = b.abort_cnt - 1
                      /\ m.nwaireq = IF stage[t].at = "WAITANY" THEN 0 ELSE b.nwaireq
    OBVIOUS
  <2>1. b \in OpnCB
    BY <1>0, <1>1, BlockKnown
  <2>2. /\ n \in OpnCB /\ SameBlock(n, b) /\ SameQueue(n, b) /\ SameWait(n, b)
        /\ n.abort_tskid = b.abort_tskid
        /\ b.abort_tskid # NULL => n.abort_cnt = b.abort_cnt - 1
    BY <2>1, NotifiedIs
  <2> HIDE DEF n
  <2>3. /\ m \in OpnCB /\ SameBlock(m, n) /\ SameQueue(m, n) /\ SameAbort(m, n)
        /\ m.nwaireq = IF stage[t].at = "WAITANY" THEN 0 ELSE n.nwaireq
    <3> DEFINE w == n.waitone - 1
    <3>1. w \in Int /\ 0 \in Int
      BY <2>2 DEF OpnCB
    <3>2. m = IF stage[t].at = "WAITANY" THEN [n EXCEPT !.nwaireq = 0] ELSE [n EXCEPT !.waitone = w]
      OBVIOUS
    <3> HIDE DEF w, m
    <3>3. CASE stage[t].at = "WAITANY"
      BY <2>2, <3>1, <3>2, <3>3, BlockFields
    <3>4. CASE stage[t].at # "WAITANY"
      BY <2>2, <3>1, <3>2, <3>4, BlockFields
    <3> QED BY <3>3, <3>4
  <2> HIDE DEF m
  <2> QED BY <2>2, <2>3, DevAssumption DEF SameBlock, SameQueue, SameAbort, SameWait
<1> HIDE DEF m
<1>5. Left(t, on)
  <2>1. \A p \in Opn : on[p] = IF p = o /\ b # NODEV THEN m ELSE opncb[p]
    BY <1>1
  <2>2. on \in [Opn -> OpnCB \cup {NODEV}]
    BY <1>1, <1>3
  <2>3. \A p \in Opn : opncb[p] # NODEV => SameBlock(opncb[p], opncb[p]) /\ SameQueue(opncb[p], opncb[p])
    BY DEF SameBlock, SameQueue
  <2> HIDE DEF on
  <2>4. BlocksAlike(on)
    BY <1>3, <2>1, <2>2, <2>3 DEF BlocksAlike
  <2> QED BY <1>1, <1>3, <2>1, <2>4 DEF Left
<1> HIDE DEF on
<1> QED BY <1>1, <1>2, <1>5, LeavesDriver
-----------------------------------------------------------------------------
(* A block is opened or closed.                                            *)
MovesBlock(t, s, o, c) ==
  /\ Becomes(t, s) /\ stage' \in [Tsk -> Stages] /\ Mine(t, s, o)
  /\ c \in OpnCB \cup {NODEV} /\ Turns(o, c) /\ opncb' \in [Opn -> OpnCB \cup {NODEV}]
  /\ stage[t].reqs = {} /\ s.reqs = {}
  /\ ({stage[t].at} \cap (InFn \cup Suspending \cup {"SYNC", "TEST"})) = {}
  /\ ({s.at} \cap (InFn \cup Suspending \cup {"SYNC", "TEST", "DRAINFN"})) = {}
  /\ s.at \in Holding => c # NODEV /\ c.resid = NULL /\ c.res = IF s.clean = NULL THEN Resid[t] ELSE s.clean
  /\ c # NODEV => /\ c.resid = NULL => s.at \in Holding
                  /\ c.resid # NULL => c.resid = c.res
                  /\ c.linked <=> s.at # "CLOSEFN"
                  /\ c.linked => devcb[c.dev] # NODEV
  /\ s.at = "CLEAN" => s.clean # NULL
  /\ s.clean # NULL => s.at \in Closing \cup {"CLEAN"} /\ s.clean = stage[t].clean
  /\ s = Idle \/ stage[t] # Idle \/ \A x \in Tsk : stage[x].clean # Resid[t]
  /\ c # NODEV /\ c.linked =>
       \/ opncb[o] # NODEV /\ opncb[o].linked /\ c.dev = opncb[o].dev /\ c.unit = opncb[o].unit /\ c.omode = opncb[o].omode
       \/ \A p \in Opens(c.dev) : p # o /\ SameUnit(c.unit, opncb[p].unit) => ~Conflict(c.omode, opncb[p].omode)
  /\ drv' \in [Unit -> Int] /\ \A v \in Unit \ refused' : AddsUp(v, c, s, t, opncb[o])
  /\ opncb[o] # NODEV /\ c # NODEV =>
       c.res = opncb[o].res /\ c.requestq = opncb[o].requestq /\ c.nwaireq = opncb[o].nwaireq /\ c.abort_tskid = opncb[o].abort_tskid
  /\ opncb[o] # NODEV /\ c = NODEV => opncb[o].requestq = <<>>
  /\ opncb[o] = NODEV /\ c # NODEV => c.requestq = <<>> /\ c.nwaireq = 0 /\ c.abort_tskid = NULL
  /\ s.at \in {"OPENFN", "CLOSE", "CLOSEFN"} => c.requestq = <<>>
  /\ UNCHANGED <<devcb, reqcb>> /\ Suspension /\ refused \subseteq refused'
MovesSeen(t, s, o) ==
  /\ ~unseen
  /\ s.at \in Aborted \cup {"OPENFN"} => Users(o) = {}
  /\ \A x : x # t => (x \in diswai' <=> x \in diswai)
  /\ t \in diswai' => s.at \in Aborted /\ s.clean = NULL

LEMMA BlockMoves ==
  ASSUME DevInv, NEW t \in Tsk, NEW s, NEW o \in Opn, NEW c, MovesBlock(t, s, o, c),
         ~unseen' => MovesSeen(t, s, o)
  PROVE  DevInv'
<1>0. DevTypeOK /\ BlocksSound /\ CleanersSound /\ QueuesSound /\ ModesRespected /\ DriversSound /\ SuspensionSound
  BY DEF DevInv, TablesSound
<1>1. /\ Becomes(t, s) /\ stage' \in [Tsk -> Stages] /\ Mine(t, s, o)
      /\ Turns(o, c) /\ opncb' \in [Opn -> OpnCB \cup {NODEV}]
      /\ stage[t].reqs = {} /\ s.reqs = {} /\ UNCHANGED <<devcb, reqcb>> /\ Suspension
      /\ refused \subseteq refused' /\ drv' \in [Unit -> Int] /\ \A v \in Unit \ refused' : AddsUp(v, c, s, t, opncb[o])
  BY DEF MovesBlock
<1>2. /\ stage[t].at \notin InFn \cup Suspending \cup {"SYNC", "TEST"}
      /\ s.at \notin InFn \cup Suspending \cup {"SYNC", "TEST", "DRAINFN"}
  BY DEF MovesBlock
<1>3. opncb'[o] = c /\ \A p \in Opn : p # o => opncb'[p] = opncb[p]
  BY <1>1 DEF Turns
<1>4. s.at \in Holding => s.opn = o
  BY <1>1 DEF Mine
<1>5. \A x \in Tsk : x # t => ~Has(x, o)
  BY <1>1 DEF Mine
<1>6. DevTypeOK'
  BY <1>0, <1>1 DEF DevTypeOK
<1>7. BlocksSound'
  BY <1>0, <1>1, BlocksMoved DEF MovesBlock
<1>8. CleanersSound'
  BY <1>0, <1>1, CleanersKept DEF MovesBlock
<1>9. ModesRespected'
  BY <1>0, <1>1, ModesMoved DEF MovesBlock
<1>10. DriversSound'
  BY <1>0, <1>1, DriversMoved
<1>11. SuspensionSound'
  BY <1>0, <1>1, <1>2, SuspensionSame
<1>12. QueuesSound'
  <2>1. SameQueues(t)
    BY <1>3, <1>5 DEF SameQueues, MovesBlock
  <2>2. s.at \in {"OPENFN", "CLOSE", "CLOSEFN"} => opncb'[s.opn].requestq = <<>>
    BY <1>3, <1>4 DEF MovesBlock, Holding, Closing
  <2> QED BY <1>0, <1>1, <1>2, <2>1, <2>2, QueuesKept
<1>13. ASSUME ~unseen' PROVE RequestsSound' /\ AbortsSound'
  <2>0. RequestsSound /\ AbortsSound /\ MovesSeen(t, s, o)
    BY <1>13 DEF DevInv, CallsSound, MovesSeen
  <2>1. RequestsSound'
    <3>1. reqcb' = reqcb /\ \A r \in Req : reqcb[r] # NODEV => reqcb[r].tskid \in Tsk \cup {NULL}
      BY <1>0, <1>1, RequestKnown
    <3> QED BY <1>1, <2>0, <3>1, RequestsKept
  <2>2. \A p \in Opn : (\E x \in Tsk : x # t /\ Has(x, p)) => opncb'[p] = opncb[p]
    BY <1>3, <1>5
  <2>3. \A p \in Opn : opncb[p] # NODEV => opncb[p].abort_tskid # t
    <3> SUFFICES ASSUME NEW p \in Opn, opncb[p] # NODEV, opncb[p].abort_tskid = t PROVE FALSE
      OBVIOUS
    <3>1. t # NULL
      BY <1>0, TaskKnown
    <3>2. stage[t].at \in {"SYNC", "TEST"}
      BY <2>0, <3>1 DEF AbortsSound, BlockAborts, Aborting
    <3> QED BY <1>2, <3>2
  <2>4. opncb[o] # NODEV => opncb[o].abort_tskid = NULL
    <3>1. opncb[o] # NODEV /\ opncb[o].abort_tskid # NULL =>
            opncb[o].abort_tskid \in Tsk /\ Has(opncb[o].abort_tskid, o)
      BY <1>0, <2>0, BlockKnown DEF AbortsSound, BlockAborts
    <3> QED BY <1>5, <2>3, <3>1
  <2>5. ASSUME NEW p \in Opn, opncb'[p] # NODEV
        PROVE  /\ IF opncb[p] = NODEV THEN opncb'[p].nwaireq = 0
                  ELSE opncb'[p].nwaireq = opncb[p].nwaireq /\ opncb'[p].res = opncb[p].res
               /\ \/ opncb'[p].abort_tskid = NULL
                  \/ opncb[p] # NODEV /\ opncb[p].abort_tskid # t
                     /\ opncb'[p].abort_tskid = opncb[p].abort_tskid /\ opncb'[p].abort_cnt = opncb[p].abort_cnt
    <3>1. CASE p = o
      BY <1>3, <2>4, <2>5, <3>1 DEF MovesBlock
    <3>2. CASE p # o
      BY <1>3, <2>3, <2>5, <3>2
    <3> QED BY <3>1, <3>2
  <2>6. /\ s.at \in Aborted \cup {"OPENFN"} => Users(s.opn) = {}
        /\ t \in diswai' => s.at \in Aborting \cup Aborted /\ s.clean = NULL /\ Users(s.opn) = {}
        /\ \A x : x # t => (x \in diswai' <=> x \in diswai)
    <3>1. s.at \in Aborted \cup {"OPENFN"} => s.opn = o
      BY <1>4, AtApart
    <3> QED BY <2>0, <3>1 DEF MovesSeen
  <2>7. s.at \notin Aborting /\ s.at # "SYNC" /\ s.at \notin InFn /\ stage[t].at \notin InFn
    BY <1>2 DEF Aborting
  <2> HIDE DEF MovesBlock
  <2>8. AbortsSound'
    BY <1>0, <1>1, <2>0, <2>2, <2>5, <2>6, <2>7, AbortsKept
  <2> QED BY <2>1, <2>8
<1> QED BY <1>6, <1>7, <1>8, <1>9, <1>10, <1>11, <1>12, <1>13 DEF DevInv, TablesSound, CallsSound

LEMMA ResidChanged ==
  ASSUME NEW b \in OpnCB, NEW v \in Groups \cup {NULL}
  PROVE  LET c == [b EXCEPT !.resid = v] IN
         /\ c \in OpnCB /\ SameKind(c, b) /\ SameQueue(c, b) /\ SameWait(c, b) /\ SameAbort(c, b)
         /\ c.resid = v /\ c.linked = b.linked
  BY BlockFields

(* What is known of the block a task has. *)
LEMMA Held ==
  ASSUME DevInv, NEW t \in Tsk, stage[t].at \in Holding
  PROVE  LET o == stage[t].opn IN
         /\ o \in Opn /\ opncb[o] # NODEV /\ opncb[o] \in OpnCB /\ Has(t, o) /\ opncb[o].resid = NULL
         /\ opncb[o].res = Owner(t) /\ \A x \in Tsk : x # t => ~Has(x, o)
         /\ stage[t].at # "CLOSEFN" <=> opncb[o].linked
         /\ opncb[o].linked => devcb[opncb[o].dev] # NODEV
         /\ stage[t].at # "DRAINFN" => stage[t].reqs = {}
<1> DEFINE o == stage[t].opn
<1>0. DevTypeOK /\ BlocksSound /\ QueuesSound
  BY DEF DevInv, TablesSound
<1>1. o \in Opn /\ Has(t, o)
  BY <1>0 DEF BlocksSound, Has
<1>2. opncb[o] # NODEV /\ opncb[o].resid = NULL /\ opncb[o].res = Owner(t) /\ \A x \in Tsk : x # t => ~Has(x, o)
  BY <1>0, <1>1 DEF BlocksSound
<1>3. opncb[o] \in OpnCB /\ opncb[o].linked \in BOOLEAN
  BY <1>0, <1>1, <1>2, BlockKnown
<1>4. stage[t].at # "CLOSEFN" <=> opncb[o].linked
  <2>1. opncb[o].linked <=> ~\E x \in Tsk : Has(x, o) /\ stage[x].at = "CLOSEFN"
    BY <1>0, <1>1, <1>2 DEF BlocksSound
  <2> QED BY <1>1, <1>2, <2>1
<1>5. opncb[o].linked => devcb[opncb[o].dev] # NODEV
  BY <1>0, <1>1, <1>2 DEF BlocksSound
<1>6. stage[t].at # "DRAINFN" => stage[t].reqs = {}
  <2>1. stage[t].at \notin InFn
    BY DEF Holding, Closing, InFn
  <2> QED BY <1>0, <2>1 DEF QueuesSound
<1> QED BY <1>1, <1>2, <1>3, <1>4, <1>5, <1>6

(* A step that does not tell the driver, of a block that stays open. *)
LEMMA AddsNothing ==
  ASSUME NEW v, NEW c, NEW s, NEW t, NEW b, drv' = drv, c # NODEV, b # NODEV, c.linked <=> b.linked,
         c.dev = b.dev, c.unit = b.unit, s.at \notin {"OPENFN", "CLOSEFN"}, stage[t].at \notin {"OPENFN", "CLOSEFN"}
  PROVE  AddsUp(v, c, s, t, b)
  BY DEF AddsUp, One, Of

LEMMA Close_cls_dev == ASSUME DevInv, NEW t \in Tsk, NEW o \in Opn, _tk_cls_dev(t, o) PROVE DevInv'
<1> DEFINE s == stage'[t]
           b == opncb[o]
           c == [b EXCEPT !.resid = NULL]
<1>0. DevTypeOK /\ BlocksSound /\ QueuesSound /\ ModesRespected
  BY DEF DevInv, TablesSound
<1>1. /\ stage[t] = Idle /\ \A x \in Tsk : stage[x].clean # Resid[t]
      /\ b # NODEV /\ b.resid = Resid[t] /\ opncb' = [opncb EXCEPT ![o] = c]
      /\ SetStage(t, Doing("ABORT", o, {}, 0, NULL)) /\ UNCHANGED <<devcb, reqcb, diswai, drv>> /\ Suspension
      /\ refused' = refused /\ (~unseen' => ~unseen)
  BY <1>0, HistSame DEF _tk_cls_dev, Calls, check_devdesc, Does, DevTypeOK
<1>2. b \in OpnCB /\ Resid[t] # NULL /\ NULL \in Groups \cup {NULL}
  BY <1>0, <1>1, TaskKnown, BlockKnown
<1>3. /\ b.res = Resid[t] /\ \A x \in Tsk : ~Has(x, o)
      /\ b.linked /\ devcb[b.dev] # NODEV
  <2>1. \A x \in Tsk : ~Has(x, o)
    BY <1>0, <1>1, <1>2 DEF BlocksSound
  <2> QED BY <1>0, <1>1, <1>2, <2>1 DEF BlocksSound
<1>4. /\ c \in OpnCB /\ SameKind(c, b) /\ SameQueue(c, b) /\ SameWait(c, b) /\ SameAbort(c, b)
      /\ c.resid = NULL /\ c.linked = b.linked
  <2> HIDE DEF b
  <2> QED BY <1>2, ResidChanged
<1> HIDE DEF c
<1>5. /\ c.dev = b.dev /\ c.unit = b.unit /\ c.omode = b.omode /\ c.res = Resid[t] /\ c.resid = NULL /\ c.linked
      /\ c.requestq = b.requestq /\ c.nwaireq = b.nwaireq /\ c.abort_tskid = b.abort_tskid /\ c # NODEV
  BY <1>3, <1>4, DevAssumption DEF SameKind, SameQueue, SameWait, SameAbort
<1>6. NowAt(t, "ABORT", o, {}, 0, NULL)
  <2>1. "ABORT" \in Ats /\ {} \in SUBSET Req /\ 0 \in 0..1 /\ o \in Opn \cup {NULL}
    BY DEF Ats, Holding, Closing
  <2> QED BY <1>0, <1>1, <1>2, <2>1, Nows
<1>7. Becomes(t, s) /\ stage' \in [Tsk -> Stages] /\ s.at = "ABORT" /\ s.opn = o /\ s.reqs = {} /\ s.clean = NULL
  BY <1>6 DEF NowAt
<1> HIDE DEF s
<1>8. Turns(o, c) /\ opncb' \in [Opn -> OpnCB \cup {NODEV}]
  BY <1>0, <1>1, <1>4, BlockTurns
<1>9. stage[t].at = "IDLE" /\ stage[t].reqs = {}
  BY <1>1, IdleIs
<1>10. "IDLE" \notin InFn \cup Suspending \cup Holding \cup {"SYNC", "TEST"}
       /\ "ABORT" \notin InFn \cup Suspending \cup Aborted \cup {"SYNC", "TEST", "DRAINFN", "CLOSE", "CLOSEFN", "OPENFN", "CLEAN"}
       /\ "ABORT" \in Holding
  BY DEF InFn, Suspending, Holding, Closing, Aborted
<1>11. Mine(t, s, o)
  BY <1>3, <1>7, <1>9, <1>10 DEF Mine
<1>12. drv' \in [Unit -> Int] /\ \A v \in Unit \ refused' : AddsUp(v, c, s, t, b)
  BY <1>0, <1>1, <1>3, <1>5, <1>7, <1>9, AddsNothing DEF DevTypeOK
<1>13. MovesBlock(t, s, o, c)
  BY <1>1, <1>3, <1>4, <1>5, <1>7, <1>8, <1>9, <1>10, <1>11, <1>12 DEF MovesBlock
<1>14. ASSUME ~unseen' PROVE MovesSeen(t, s, o)
  <2>1. ~unseen /\ TaskAborts(t)
    BY <1>1, <1>14 DEF DevInv, CallsSound, AbortsSound
  <2>2. t \notin diswai
    BY <1>9, <2>1 DEF TaskAborts, Aborting, Aborted
  <2> QED BY <1>1, <1>7, <1>10, <2>1, <2>2 DEF MovesSeen
<1> QED BY <1>13, <1>14, BlockMoves

LEMMA Close_cleanup_Next == ASSUME DevInv, NEW t \in Tsk, devmgr_cleanup_Next(t) PROVE DevInv'
<1> DEFINE q == {o \in Opn : opncb[o] # NODEV /\ opncb[o].linked /\ opncb[o].res = stage[t].clean}
           g == stage[t].clean
           s == stage'[t]
<1>0. DevTypeOK /\ BlocksSound /\ QueuesSound /\ CleanersSound /\ SuspensionSound
  BY DEF DevInv, TablesSound
<1>1. stage[t].at = "CLEAN" /\ UNCHANGED <<devcb, reqcb, diswai, drv>> /\ Suspension /\ g # NULL /\ g \in Groups
      /\ refused' = refused /\ (~unseen' => ~unseen)
  BY <1>0, HistSame, TaskKnown DEF devmgr_cleanup_Next, CleanersSound
<1>2. "CLEAN" \notin InFn \cup Suspending \cup Holding \cup {"SYNC", "TEST", "DRAINFN"} /\ stage[t] # Idle
  BY <1>1, IdleIs DEF InFn, Suspending, Holding, Closing
<1>3. stage[t].reqs = {}
  BY <1>0, <1>1, <1>2 DEF QueuesSound
<1>4. CASE q = {}
  <2>1. Returns(t) /\ UNCHANGED opncb
    BY <1>4 DEF devmgr_cleanup_Next
  <2>2. Becomes(t, Idle) /\ stage' \in [Tsk -> Stages]
    <3>1. NowAt(t, "IDLE", NULL, {}, 0, NULL) /\ stage'[t] = Idle
      BY <1>0, <2>1, Nows
    <3> QED BY <3>1 DEF NowAt
  <2>3. DevTypeOK' /\ BlocksSound' /\ QueuesSound' /\ ModesRespected' /\ DriversSound' /\ (~unseen' => CallsSound')
    BY <1>1, <1>2, <2>1, <2>2, IdleIs, StageOnly
  <2>4. CleanersSound'
    BY <1>0, <2>2, IdleIs, CleanersKept
  <2>5. SuspensionSound'
    BY <1>0, <1>1, <1>2, <2>2, IdleIs, SuspensionSame
  <2> QED BY <2>3, <2>4, <2>5 DEF DevInv, TablesSound
<1>5. CASE q # {}
  <2> DEFINE o == CHOOSE x \in q : TRUE
             b == opncb[o]
             c == [b EXCEPT !.resid = NULL]
  <2>1. /\ o \in q /\ opncb' = [opncb EXCEPT ![o] = c] /\ SetStage(t, Doing("ABORT", o, {}, 0, g))
    BY <1>0, <1>5 DEF devmgr_cleanup_Next, Cleans, DevTypeOK
  <2> HIDE DEF o
  <2>2. o \in Opn /\ b # NODEV /\ b.linked /\ b.res = g /\ b \in OpnCB /\ devcb[b.dev] # NODEV /\ NULL \in Groups \cup {NULL}
    BY <1>0, <2>1, BlockKnown DEF BlocksSound
  <2>3. \A x \in Tsk : ~Has(x, o)
    <3> SUFFICES ASSUME NEW x \in Tsk, Has(x, o) PROVE FALSE
      OBVIOUS
    <3>1. stage[x].at \in Holding /\ Owner(x) = g
      BY <1>0, <2>2 DEF Has, BlocksSound
    <3>2. x # t
      BY <1>1, <1>2, <3>1
    <3>3. (Resid[x] = g => stage[x] = Idle) /\ stage[x].clean # g
      BY <1>0, <1>1, <3>2 DEF CleanersSound
    <3> QED BY <3>1, <3>3, IdleIs DEF Owner
  <2>4. /\ c \in OpnCB /\ SameKind(c, b) /\ SameQueue(c, b) /\ SameWait(c, b) /\ SameAbort(c, b)
        /\ c.resid = NULL /\ c.linked = b.linked
    <3>1. b \in OpnCB /\ NULL \in Groups \cup {NULL}
      BY <2>2
    <3> HIDE DEF b, g, s, q
    <3> QED BY <3>1, ResidChanged
  <2> HIDE DEF c
  <2>5. /\ c.dev = b.dev /\ c.unit = b.unit /\ c.omode = b.omode /\ c.res = g /\ c.resid = NULL /\ c.linked
        /\ c.requestq = b.requestq /\ c.nwaireq = b.nwaireq /\ c.abort_tskid = b.abort_tskid /\ c # NODEV
    BY <2>2, <2>4, DevAssumption DEF SameKind, SameQueue, SameWait, SameAbort
  <2>6. NowAt(t, "ABORT", o, {}, 0, g)
    <3>1. "ABORT" \in Ats /\ {} \in SUBSET Req /\ 0 \in 0..1 /\ o \in Opn \cup {NULL} /\ g \in Groups \cup {NULL}
      BY <1>1, <2>2 DEF Ats, Holding, Closing
    <3> HIDE DEF g
    <3> QED BY <1>0, <2>1, <3>1, Nows
  <2>7. Becomes(t, s) /\ stage' \in [Tsk -> Stages] /\ s.at = "ABORT" /\ s.opn = o /\ s.reqs = {} /\ s.clean = g
    BY <2>6 DEF NowAt
  <2> HIDE DEF s
  <2>8. Turns(o, c) /\ opncb' \in [Opn -> OpnCB \cup {NODEV}]
    BY <1>0, <2>1, <2>2, <2>4, BlockTurns
  <2>9. "ABORT" \notin InFn \cup Suspending \cup Aborted \cup {"SYNC", "TEST", "DRAINFN", "CLOSE", "CLOSEFN", "OPENFN", "CLEAN"}
        /\ "ABORT" \in Closing /\ "ABORT" \in Holding
    BY DEF InFn, Suspending, Holding, Closing, Aborted
  <2>10. Mine(t, s, o)
    BY <1>1, <1>2, <2>3, <2>7, <2>9 DEF Mine
  <2>11. drv' \in [Unit -> Int] /\ \A v \in Unit \ refused' : AddsUp(v, c, s, t, b)
    BY <1>0, <1>1, <2>2, <2>5, <2>7, AddsNothing DEF DevTypeOK
  <2>12. MovesBlock(t, s, o, c)
    BY <1>1, <1>2, <1>3, <2>2, <2>4, <2>5, <2>7, <2>8, <2>9, <2>10, <2>11 DEF MovesBlock
  <2>13. ASSUME ~unseen' PROVE MovesSeen(t, s, o)
    <3>1. ~unseen /\ TaskAborts(t)
      BY <1>1, <2>13 DEF DevInv, CallsSound, AbortsSound
    <3>2. t \notin diswai
      BY <1>1, <1>2, <3>1, AtApart DEF TaskAborts
    <3> QED BY <1>1, <2>7, <2>9, <3>1, <3>2 DEF MovesSeen
  <2> QED BY <2>2, <2>12, <2>13, BlockMoves
<1> QED BY <1>4, <1>5

LEMMA Open_opn_dev ==
  ASSUME DevInv, NEW t \in Tsk, NEW d \in Dev, NEW u \in 0..1, NEW m \in Omodes, _tk_opn_dev(t, d, u, m)
  PROVE  DevInv'
<1> DEFINE o == CHOOSE x \in Opn : opncb[x] = NODEV
           fn == IF ~chkopen(d, u) \/ devcb[d].openreq THEN 1 ELSE 0
           s == stage'[t]
           c == newOpnCB(d, u, m, Resid[t])
<1>0. DevTypeOK /\ BlocksSound /\ QueuesSound /\ Resid[t] \in Groups /\ Resid[t] # NULL
  BY TaskKnown DEF DevInv, TablesSound
<1>1. /\ stage[t] = Idle /\ \A x \in Tsk : stage[x].clean # Resid[t]
      /\ devcb[d] # NODEV /\ chkopenmode(d, u, m)
      /\ opncb' = [opncb EXCEPT ![o] = c] /\ o \in Opn /\ opncb[o] = NODEV
      /\ SetStage(t, Doing("OPENFN", o, {}, fn, NULL)) /\ UNCHANGED <<devcb, reqcb, diswai, drv>> /\ Suspension
      /\ UNCHANGED devhist
  <2>1. stage[t] = Idle /\ (\E x \in Opn : opncb[x] = NODEV) /\ stage[t].clean = NULL
    BY IdleIs DEF _tk_opn_dev, Calls
  <2>2. o \in Opn /\ opncb[o] = NODEV
    BY <2>1
  <2> HIDE DEF o
  <2>3. fn = IF ~chkopen(d, u) \/ devcb[d].openreq THEN 1 ELSE 0
    OBVIOUS
  <2> HIDE DEF fn, c
  <2> QED BY <2>1, <2>2, <2>3 DEF _tk_opn_dev, Calls, searchDevCB, _tk_lst_dev, Drives, o, fn, c
<1> HIDE DEF o
<1>2. /\ c.dev = d /\ c.unit = u /\ c.omode = m /\ c.res = Resid[t] /\ c.resid = NULL /\ c.linked
      /\ c.requestq = <<>> /\ c.nwaireq = 0 /\ c.abort_tskid = NULL
  BY DEF newOpnCB
<1>3. c \in OpnCB /\ c # NODEV
  <2>1. <<>> \in Seq(Req) /\ 0 \in Int
    OBVIOUS
  <2>2. c \in OpnCB
    BY <1>0, <2>1 DEF newOpnCB, OpnCB
  <2> QED BY <2>2, DevAssumption
<1> HIDE DEF c
<1>4. fn \in 0..1 /\ (fn = 1 <=> ~chkopen(d, u) \/ devcb[d].openreq) /\ (fn = 0 <=> ~(fn = 1))
  OBVIOUS
<1> HIDE DEF fn
<1>5. NowAt(t, "OPENFN", o, {}, fn, NULL)
  <2>1. "OPENFN" \in Ats /\ {} \in SUBSET Req /\ o \in Opn \cup {NULL} /\ NULL \in Groups \cup {NULL}
    BY <1>1 DEF Ats, Holding
  <2> QED BY <1>0, <1>1, <1>4, <2>1, Nows
<1>6. Becomes(t, s) /\ stage' \in [Tsk -> Stages] /\ s.at = "OPENFN" /\ s.opn = o /\ s.reqs = {} /\ s.fn = fn /\ s.clean = NULL
  BY <1>5 DEF NowAt
<1> HIDE DEF s
<1>7. Turns(o, c) /\ opncb' \in [Opn -> OpnCB \cup {NODEV}]
  BY <1>0, <1>1, <1>3, BlockTurns
<1>8. stage[t].at = "IDLE" /\ stage[t].reqs = {}
  BY <1>1, IdleIs
<1>9. "IDLE" \notin InFn \cup Suspending \cup Holding \cup {"SYNC", "TEST", "OPENFN", "CLOSEFN"}
      /\ "OPENFN" \notin InFn \cup Suspending \cup {"SYNC", "TEST", "DRAINFN", "CLOSEFN", "CLEAN"}
      /\ "OPENFN" \in Holding
  BY DEF InFn, Suspending, Holding, Closing
<1>10. Mine(t, s, o)
  <2>1. \A x \in Tsk : ~Has(x, o)
    BY <1>0, <1>1 DEF BlocksSound
  <2> QED BY <1>6, <1>8, <1>9, <2>1 DEF Mine
<1>11. ASSUME NEW v \in Unit PROVE AddsUp(v, c, s, t, opncb[o])
  <2>1. Of(c, v) <=> v[1] = d /\ v[2] = u
    BY <1>2 DEF Of
  <2>2. v[1] = d /\ v[2] = u => (chkopen(d, u) <=> On(v) # {})
    BY DEF chkopen, On
  <2>3. v[1] = d /\ v[2] = u => (fn = 1 <=> On(v) = {} \/ devcb[v[1]].openreq)
    BY <1>4, <2>2
  <2> SUFFICES ASSUME NEW n \in Nat, NEW j \in Nat, NEW k \in Nat, On(v) = {} <=> k = 0,
                      drv[v] + n - j = IF k = 0 THEN 0 ELSE IF devcb[v[1]].openreq THEN k ELSE 1
               PROVE  LET l == k + One(c # NODEV /\ c.linked /\ Of(c, v)) - One(opncb[o] # NODEV /\ opncb[o].linked /\ Of(opncb[o], v))
                      IN  drv'[v] + (n + One(s.at = "OPENFN" /\ s.fn = 1 /\ Of(c, v)) - One(stage[t].at = "OPENFN" /\ stage[t].fn = 1 /\ Of(opncb[o], v)))
                            - (j + One(s.at = "CLOSEFN" /\ s.fn = 1 /\ Of(c, v)) - One(stage[t].at = "CLOSEFN" /\ stage[t].fn = 1 /\ Of(opncb[o], v)))
                          = IF l = 0 THEN 0 ELSE IF devcb[v[1]].openreq THEN l ELSE 1
    BY DEF AddsUp
  <2>4. /\ One(c # NODEV /\ c.linked /\ Of(c, v)) = One(Of(c, v))
        /\ One(opncb[o] # NODEV /\ opncb[o].linked /\ Of(opncb[o], v)) = 0
        /\ One(s.at = "OPENFN" /\ s.fn = 1 /\ Of(c, v)) = One(fn = 1 /\ Of(c, v))
        /\ One(stage[t].at = "OPENFN" /\ stage[t].fn = 1 /\ Of(opncb[o], v)) = 0
        /\ One(s.at = "CLOSEFN" /\ s.fn = 1 /\ Of(c, v)) = 0
        /\ One(stage[t].at = "CLOSEFN" /\ stage[t].fn = 1 /\ Of(opncb[o], v)) = 0
    BY <1>1, <1>2, <1>3, <1>6, <1>8 DEF One
  <2>5. drv'[v] = drv[v] /\ drv[v] \in Int
    BY <1>0, <1>1 DEF DevTypeOK
  <2>6. CASE Of(c, v)
    <3>1. One(Of(c, v)) = 1 /\ One(fn = 1 /\ Of(c, v)) = One(fn = 1)
      BY <2>6 DEF One
    <3>2. One(fn = 1) = IF k = 0 \/ devcb[v[1]].openreq THEN 1 ELSE 0
      BY <2>1, <2>3, <2>6 DEF One
    <3> QED BY <2>4, <2>5, <3>1, <3>2
  <2>7. CASE ~Of(c, v)
    <3>1. One(Of(c, v)) = 0 /\ One(fn = 1 /\ Of(c, v)) = 0
      BY <2>7 DEF One
    <3> QED BY <2>4, <2>5, <3>1
  <2> QED BY <2>6, <2>7
<1>12. refused' = refused /\ (~unseen' => ~unseen)
  BY <1>1, HistSame
<1>13. \A p \in Opens(c.dev) : p # o /\ SameUnit(c.unit, opncb[p].unit) => ~Conflict(c.omode, opncb[p].omode)
  BY <1>1, <1>2 DEF chkopenmode
<1>14. drv' \in [Unit -> Int] /\ \A v \in Unit \ refused' : AddsUp(v, c, s, t, opncb[o])
  BY <1>0, <1>1, <1>11 DEF DevTypeOK
<1>15. MovesBlock(t, s, o, c)
  BY <1>0, <1>1, <1>2, <1>3, <1>6, <1>7, <1>8, <1>9, <1>10, <1>12, <1>13, <1>14 DEF MovesBlock
<1>16. ASSUME ~unseen' PROVE MovesSeen(t, s, o)
  <2>1. ~unseen /\ RequestsSound /\ TaskAborts(t)
    BY <1>12, <1>16 DEF DevInv, CallsSound, AbortsSound
  <2>2. t \notin diswai
    BY <1>8, <2>1 DEF TaskAborts, Aborting, Aborted
  <2>3. Users(o) = {}
    BY <1>0, <1>1, <2>1, UsersKnown
  <2> QED BY <1>1, <2>1, <2>2, <2>3 DEF MovesSeen
<1> QED BY <1>1, <1>15, <1>16, BlockMoves

(* The driver counts: what it says of one unit. *)
LEMMA DrvCounts ==
  ASSUME DevTypeOK, NEW b \in OpnCB, NEW k \in Int, TellsDriver(<<b.dev, b.unit>>, k)
  PROVE  drv' \in [Unit -> Int] /\ \A v \in Unit \ refused : drv'[v] = IF Of(b, v) THEN drv[v] + k ELSE drv[v]
<1> DEFINE u == <<b.dev, b.unit>>
<1>1. drv \in [Unit -> Int] /\ u \in Unit /\ drv' = IF u \in refused THEN drv ELSE [drv EXCEPT ![u] = @ + k]
  BY DEF DevTypeOK, OpnCB, Unit, TellsDriver
<1>2. \A v \in Unit : v = u <=> Of(b, v)
  <2> SUFFICES ASSUME NEW v \in Unit PROVE v = u <=> Of(b, v)
    OBVIOUS
  <2>1. v = <<v[1], v[2]>>
    BY DEF Unit
  <2> QED BY <2>1 DEF Of
<1> HIDE DEF u
<1>3. CASE u \in refused
  BY <1>1, <1>2, <1>3
<1>4. CASE u \notin refused
  BY <1>1, <1>2, <1>4
<1> QED BY <1>3, <1>4

(* The driver has done what it was told: open. *)
LEMMA Open_Done == ASSUME DevInv, NEW t \in Tsk, _tk_opn_dev_Done(t) PROVE DevInv'
<1> DEFINE o == stage[t].opn
           b == opncb[o]
           fn == stage[t].fn
<1>0. DevTypeOK /\ BlocksSound /\ QueuesSound /\ CleanersSound /\ Resid[t] \in Groups /\ Resid[t] # NULL /\ fn \in 0..1
  BY TaskKnown DEF DevInv, TablesSound
<1>1. stage[t].at = "OPENFN" /\ Returns(t) /\ UNCHANGED <<devcb, reqcb, diswai>> /\ Suspension
      /\ "OPENFN" \in Holding
      /\ "OPENFN" \notin InFn \cup Suspending \cup Closing \cup {"SYNC", "TEST", "CLOSEFN", "CLEAN", "DRAINFN"}
  BY DEF _tk_opn_dev_Done, Holding, InFn, Suspending, Closing
<1>2. /\ o \in Opn /\ b # NODEV /\ b \in OpnCB /\ b.resid = NULL
      /\ b.res = Owner(t) /\ \A x \in Tsk : x # t => ~Has(x, o)
      /\ b.linked /\ devcb[b.dev] # NODEV /\ stage[t].reqs = {}
  BY <1>1, Held
<1>3. b.res = Resid[t]
  <2>1. stage[t].clean = NULL
    BY <1>0, <1>1 DEF CleanersSound
  <2> QED BY <1>2, <2>1 DEF Owner
<1>4. Becomes(t, Idle) /\ stage' \in [Tsk -> Stages]
  <2>1. NowAt(t, "IDLE", NULL, {}, 0, NULL) /\ stage'[t] = Idle
    BY <1>0, <1>1, Nows
  <2> QED BY <2>1 DEF NowAt
<1>5. Idle.at \notin InFn \cup Suspending \cup Holding \cup Aborted
                    \cup {"SYNC", "TEST", "DRAINFN", "OPENFN", "CLOSE", "CLOSEFN", "CLEAN"}
      /\ Idle.reqs = {} /\ Idle.clean = NULL
  BY IdleIs DEF Holding, Closing, Aborted
<1>6. Mine(t, Idle, o)
  BY <1>2, <1>5 DEF Mine
<1>9. b.requestq = <<>>
  BY <1>0, <1>1 DEF QueuesSound
<1>14. unseen' = unseen /\ refused \subseteq refused'
  BY DEF _tk_opn_dev_Done
<1>15. ASSUME ~unseen' PROVE MovesSeen(t, Idle, o)
  <2>1. ~unseen
    BY <1>14, <1>15, Zenon
  <2>2. TaskAborts(t)
    BY <2>1 DEF DevInv, CallsSound, AbortsSound
  <2>3. t \notin diswai
    BY <1>1, <2>2 DEF TaskAborts, Aborting, Aborted, Closing
  <2> QED BY <1>1, <1>5, <2>1, <2>3 DEF MovesSeen
<1> HIDE DEF o, fn
<1>10. CASE opncb' = [opncb EXCEPT ![o].resid = Resid[t]] /\ TellsDriver(<<b.dev, b.unit>>, fn) /\ refused' = refused
  <2> DEFINE c == [b EXCEPT !.resid = Resid[t]]
  <2>1. /\ c \in OpnCB /\ SameKind(c, b) /\ SameQueue(c, b) /\ SameWait(c, b) /\ SameAbort(c, b)
        /\ c.resid = Resid[t] /\ c.linked = b.linked
    <3>1. b \in OpnCB /\ Resid[t] \in Groups \cup {NULL}
      BY <1>0, <1>2
    <3> HIDE DEF b
    <3> QED BY <3>1, ResidChanged
  <2>2. opncb' = [opncb EXCEPT ![o] = c]
    BY <1>0, <1>10 DEF DevTypeOK
  <2> HIDE DEF c
  <2>3. /\ c.dev = b.dev /\ c.unit = b.unit /\ c.omode = b.omode /\ c.res = Resid[t] /\ c.resid # NULL /\ c.linked
        /\ c.requestq = b.requestq /\ c.nwaireq = b.nwaireq /\ c.abort_tskid = b.abort_tskid /\ c # NODEV
    BY <1>0, <1>2, <1>3, <2>1, DevAssumption DEF SameKind, SameQueue, SameWait, SameAbort
  <2>4. Turns(o, c) /\ opncb' \in [Opn -> OpnCB \cup {NODEV}]
    BY <1>0, <1>2, <2>1, <2>2, BlockTurns
  <2>5. drv' \in [Unit -> Int] /\ \A v \in Unit \ refused' : drv'[v] = IF Of(b, v) THEN drv[v] + fn ELSE drv[v]
    <3>1. fn \in Int /\ TellsDriver(<<b.dev, b.unit>>, fn) /\ refused' = refused
      BY <1>0, <1>10
    <3> HIDE DEF b
    <3> QED BY <1>0, <1>2, <3>1, DrvCounts
  <2>6. ASSUME NEW v \in Unit \ refused' PROVE AddsUp(v, c, Idle, t, b)
    <3>1. /\ (Of(c, v) <=> Of(b, v)) /\ drv[v] \in Int
          /\ drv'[v] = drv[v] + One(fn = 1 /\ Of(b, v))
      BY <1>0, <2>3, <2>5 DEF Of, One, DevTypeOK
    <3>2. One(c # NODEV /\ c.linked /\ Of(c, v)) = One(b # NODEV /\ b.linked /\ Of(b, v))
          /\ One(b # NODEV /\ b.linked /\ Of(b, v)) \in 0..1 /\ One(fn = 1 /\ Of(b, v)) \in 0..1
      BY <1>2, <2>3, <3>1 DEF One
    <3>3. /\ One(Idle.at = "OPENFN" /\ Idle.fn = 1 /\ Of(c, v)) = 0
          /\ One(Idle.at = "CLOSEFN" /\ Idle.fn = 1 /\ Of(c, v)) = 0
          /\ One(stage[t].at = "OPENFN" /\ stage[t].fn = 1 /\ Of(b, v)) = One(fn = 1 /\ Of(b, v))
          /\ One(stage[t].at = "CLOSEFN" /\ stage[t].fn = 1 /\ Of(b, v)) = 0
      BY <1>1, <1>5 DEF One, fn
    <3> DEFINE e == One(b # NODEV /\ b.linked /\ Of(b, v))
               f == One(fn = 1 /\ Of(b, v))
    <3>4. /\ drv'[v] = drv[v] + f /\ drv[v] \in Int /\ e \in Int /\ f \in Int
          /\ One(c # NODEV /\ c.linked /\ Of(c, v)) = e
          /\ One(stage[t].at = "OPENFN" /\ stage[t].fn = 1 /\ Of(b, v)) = f
      BY <3>1, <3>2, <3>3
    <3> SUFFICES ASSUME NEW n \in Nat, NEW m \in Nat, NEW k \in Nat,
                        drv[v] + n - m = IF k = 0 THEN 0 ELSE IF devcb[v[1]].openreq THEN k ELSE 1
                 PROVE  LET l == k + e - e
                        IN  drv'[v] + (n + 0 - f) - (m + 0 - 0) = IF l = 0 THEN 0 ELSE IF devcb[v[1]].openreq THEN l ELSE 1
      <4> HIDE DEF f
      <4> QED BY <3>3, <3>4 DEF AddsUp, e
    <3> HIDE DEF b, e, f
    <3>5. k + e - e = k /\ drv'[v] + (n + 0 - f) - (m + 0 - 0) = drv[v] + n - m
      BY <3>4
    <3> QED BY <3>5
  <2>7. MovesBlock(t, Idle, o, c)
    BY <1>1, <1>2, <1>3, <1>4, <1>5, <1>6, <1>14, <2>1, <2>3, <2>4, <2>5, <2>6 DEF MovesBlock
  <2> QED BY <1>2, <1>15, <2>7, BlockMoves
<1>11. CASE fn = 1 /\ opncb' = delOpnCB(o) /\ drv' = drv
            /\ refused' = refused \cup (IF Relied(o) THEN {<<b.dev, b.unit>>} ELSE {})
  <2>1. Turns(o, NODEV) /\ opncb' \in [Opn -> OpnCB \cup {NODEV}]
    BY <1>0, <1>2, <1>11, BlockTurns DEF delOpnCB
  <2>2. ASSUME NEW v \in Unit \ refused' PROVE AddsUp(v, NODEV, Idle, t, b)
    <3>0. /\ One(NODEV # NODEV /\ NODEV.linked /\ Of(NODEV, v)) = 0
          /\ One(Idle.at = "OPENFN" /\ Idle.fn = 1 /\ Of(NODEV, v)) = 0
          /\ One(Idle.at = "CLOSEFN" /\ Idle.fn = 1 /\ Of(NODEV, v)) = 0
          /\ One(stage[t].at = "OPENFN" /\ stage[t].fn = 1 /\ Of(b, v)) = One(Of(b, v))
          /\ One(stage[t].at = "CLOSEFN" /\ stage[t].fn = 1 /\ Of(b, v)) = 0
          /\ One(b # NODEV /\ b.linked /\ Of(b, v)) = One(Of(b, v))
      BY <1>1, <1>2, <1>5, <1>11 DEF One, fn
    <3>1. drv'[v] = drv[v] /\ drv[v] \in Int
      BY <1>0, <1>11 DEF DevTypeOK
    <3>2. CASE Of(b, v)
      <4>1. o \in On(v)
        BY <1>2, <3>2 DEF On, Opens, Of
      <4>2. On(v) = {o} \/ devcb[v[1]].openreq
        <5>1. v = <<b.dev, b.unit>>
          <6>1. v = <<v[1], v[2]>>
            BY DEF Unit
          <6> QED BY <3>2, <6>1 DEF Of
        <5>2. ~Relied(o)
          BY <1>11, <5>1
        <5>3. devcb[b.dev].openreq \/ \A x \in Opens(b.dev) \ {o} : opncb[x].unit # b.unit
          BY <5>2 DEF Relied
        <5>4. ASSUME \A x \in Opens(b.dev) \ {o} : opncb[x].unit # b.unit PROVE On(v) = {o}
          <6>1. \A x \in On(v) : x = o
            BY <3>2, <5>4 DEF On, Of
          <6> QED BY <4>1, <6>1
        <5> QED BY <3>2, <5>3, <5>4 DEF Of
      <4>3. One(Of(b, v)) = 1
        BY <3>2 DEF One
      <4> HIDE DEF b
      <4> QED BY <3>0, <3>1, <4>1, <4>2, <4>3 DEF AddsUp
    <3>3. CASE ~Of(b, v)
      <4>1. One(Of(b, v)) = 0
        BY <3>3 DEF One
      <4> HIDE DEF b
      <4> QED BY <3>0, <3>1, <4>1 DEF AddsUp
    <3> QED BY <3>2, <3>3
  <2>3. drv' \in [Unit -> Int]
    BY <1>0, <1>11 DEF DevTypeOK
  <2>4. MovesBlock(t, Idle, o, NODEV)
    BY <1>1, <1>2, <1>4, <1>5, <1>6, <1>9, <1>14, <2>1, <2>2, <2>3 DEF MovesBlock
  <2> QED BY <1>2, <1>15, <2>4, BlockMoves
<1>12. \/ opncb' = [opncb EXCEPT ![o].resid = Resid[t]] /\ TellsDriver(<<b.dev, b.unit>>, fn) /\ refused' = refused
       \/ /\ fn = 1 /\ opncb' = delOpnCB(o) /\ drv' = drv
          /\ refused' = refused \cup (IF Relied(o) THEN {<<b.dev, b.unit>>} ELSE {})
  BY DEF _tk_opn_dev_Done, o, fn
<1> QED BY <1>10, <1>11, <1>12

(* A close leaves the queues and tells the driver, if it has to know. *)
LEMMA Close_device == ASSUME DevInv, NEW t \in Tsk, close_device(t) PROVE DevInv'
<1> DEFINE o == stage[t].opn
           b == opncb[o]
           c == [b EXCEPT !.linked = FALSE]
           others == {x \in Opens(b.dev) \ {o} : opncb[x].unit = b.unit}
           fn == IF others = {} \/ devcb[b.dev].openreq THEN 1 ELSE 0
           g == stage[t].clean
           s == stage'[t]
<1>0. DevTypeOK /\ BlocksSound /\ QueuesSound /\ CleanersSound /\ g \in Groups \cup {NULL}
  BY TaskKnown DEF DevInv, TablesSound
<1>1. stage[t].at = "CLOSE" /\ UNCHANGED <<devcb, reqcb, diswai, drv>> /\ Suspension
      /\ refused' = refused /\ (~unseen' => ~unseen)
      /\ "CLOSE" \in Holding /\ stage[t] # Idle
      /\ "CLOSE" \notin InFn \cup Suspending \cup {"SYNC", "TEST", "OPENFN", "CLOSEFN", "CLEAN", "DRAINFN"}
  BY IdleIs, HistSame DEF close_device, Holding, InFn, Suspending, Closing
<1>2. /\ o \in Opn /\ b # NODEV /\ b \in OpnCB /\ b.resid = NULL
      /\ b.res = Owner(t) /\ \A x \in Tsk : x # t => ~Has(x, o)
      /\ b.linked /\ devcb[b.dev] # NODEV /\ stage[t].reqs = {}
  BY <1>1, Held
<1>3. opncb' = [opncb EXCEPT ![o] = c] /\ SetStage(t, Doing("CLOSEFN", o, {}, fn, g))
  <2>1. others = {} <=> ~\E x \in Opens(b.dev) \ {o} : opncb[x].unit = b.unit
    OBVIOUS
  <2>2. fn = IF ~(\E x \in Opens(b.dev) \ {o} : opncb[x].unit = b.unit) \/ devcb[b.dev].openreq THEN 1 ELSE 0
    BY <2>1
  <2> HIDE DEF fn, others
  <2>3. SetStage(t, Doing("CLOSEFN", o, {}, fn, g))
    BY <2>2 DEF close_device, Drives
  <2>4. opncb' = [opncb EXCEPT ![o] = c]
    BY <1>0 DEF close_device, DevTypeOK
  <2> QED BY <2>3, <2>4
<1>4. /\ c \in OpnCB /\ SameKind(c, b) /\ SameQueue(c, b) /\ SameWait(c, b) /\ SameAbort(c, b)
      /\ c.linked = FALSE /\ c.resid = b.resid
  <2>1. b \in OpnCB
    BY <1>2
  <2> HIDE DEF b
  <2> QED BY <2>1, BlockFields
<1> HIDE DEF c
<1>5. /\ c.dev = b.dev /\ c.unit = b.unit /\ c.omode = b.omode /\ c.res = Owner(t) /\ c.resid = NULL /\ ~c.linked
      /\ c.requestq = b.requestq /\ c.nwaireq = b.nwaireq /\ c.abort_tskid = b.abort_tskid /\ c # NODEV
  BY <1>2, <1>4, DevAssumption DEF SameKind, SameQueue, SameWait, SameAbort
<1>6. fn \in 0..1 /\ (fn = 1 <=> others = {} \/ devcb[b.dev].openreq)
  OBVIOUS
<1> HIDE DEF fn
<1>7. NowAt(t, "CLOSEFN", o, {}, fn, g)
  <2>1. "CLOSEFN" \in Ats /\ {} \in SUBSET Req /\ o \in Opn \cup {NULL}
    BY <1>2 DEF Ats, Holding, Closing
  <2> HIDE DEF o, g
  <2> QED BY <1>0, <1>3, <1>6, <2>1, Nows
<1>8. Becomes(t, s) /\ stage' \in [Tsk -> Stages] /\ s.at = "CLOSEFN" /\ s.opn = o /\ s.reqs = {} /\ s.fn = fn /\ s.clean = g
  BY <1>7 DEF NowAt
<1> HIDE DEF s
<1>9. Turns(o, c) /\ opncb' \in [Opn -> OpnCB \cup {NODEV}]
  BY <1>0, <1>2, <1>3, <1>4, BlockTurns
<1>10. "CLOSEFN" \notin InFn \cup Suspending \cup {"SYNC", "TEST", "DRAINFN", "OPENFN", "CLEAN"}
       /\ "CLOSEFN" \in Holding /\ "CLOSEFN" \in Closing
  BY DEF InFn, Suspending, Holding, Closing
<1>11. Mine(t, s, o)
  BY <1>2, <1>8 DEF Mine
<1>12. ASSUME ~unseen' PROVE MovesSeen(t, s, o)
  <2>1. ~unseen /\ RequestsSound /\ AbortsSound
    BY <1>1, <1>12 DEF DevInv, CallsSound
  <2>2. stage[t].at \in Aborted /\ "CLOSEFN" \in Aborted /\ Has(t, o)
    BY <1>1 DEF Aborted, Has
  <2>3. Users(o) = {} /\ (t \in diswai => g = NULL)
    BY <1>0, <1>2, <2>1, <2>2, Draining
  <2> QED BY <1>1, <1>8, <2>1, <2>2, <2>3 DEF MovesSeen
<1>13. b.requestq = <<>>
  BY <1>0, <1>1 DEF QueuesSound
<1>14. ASSUME NEW v \in Unit PROVE AddsUp(v, c, s, t, b)
  <2>1. /\ Of(c, v) <=> Of(b, v)
        /\ drv'[v] = drv[v] /\ drv[v] \in Int
    BY <1>0, <1>1, <1>5 DEF Of, DevTypeOK
  <2>2. /\ One(c # NODEV /\ c.linked /\ Of(c, v)) = 0 /\ One(b # NODEV /\ b.linked /\ Of(b, v)) = One(Of(b, v))
        /\ One(s.at = "OPENFN" /\ s.fn = 1 /\ Of(c, v)) = 0
        /\ One(stage[t].at = "OPENFN" /\ stage[t].fn = 1 /\ Of(b, v)) = 0
        /\ One(s.at = "CLOSEFN" /\ s.fn = 1 /\ Of(c, v)) = One(fn = 1 /\ Of(b, v))
        /\ One(stage[t].at = "CLOSEFN" /\ stage[t].fn = 1 /\ Of(b, v)) = 0
    BY <1>1, <1>2, <1>5, <1>8, <2>1 DEF One
  <2>3. CASE Of(b, v)
    <3>1. o \in On(v) /\ (others = {} <=> On(v) = {o}) /\ v[1] = b.dev
      <4>1. v[1] = b.dev /\ v[2] = b.unit
        BY <2>3 DEF Of
      <4>2. o \in On(v)
        BY <1>2, <4>1 DEF On, Opens
      <4>3. others = On(v) \ {o}
        BY <4>1 DEF On
      <4> QED BY <4>1, <4>2, <4>3
    <3>2. One(Of(b, v)) = 1 /\ One(fn = 1 /\ Of(b, v)) = IF On(v) = {o} \/ devcb[v[1]].openreq THEN 1 ELSE 0
      BY <1>6, <2>3, <3>1 DEF One
    <3> HIDE DEF o, b
    <3> QED BY <2>1, <2>2, <3>1, <3>2 DEF AddsUp
  <2>4. CASE ~Of(b, v)
    <3>1. One(Of(b, v)) = 0 /\ One(fn = 1 /\ Of(b, v)) = 0
      BY <2>4 DEF One
    <3> HIDE DEF b
    <3> QED BY <2>1, <2>2, <3>1 DEF AddsUp
  <2> QED BY <2>3, <2>4
<1>15. drv' \in [Unit -> Int]
  BY <1>0, <1>1 DEF DevTypeOK
<1>16. g # NULL => "CLOSEFN" \in Closing \cup {"CLEAN"}
  BY <1>10
<1>17. Owner(t) = IF s.clean = NULL THEN Resid[t] ELSE s.clean
  BY <1>8 DEF Owner
<1>18. MovesBlock(t, s, o, c)
  BY <1>1, <1>2, <1>4, <1>5, <1>8, <1>9, <1>10, <1>11, <1>13, <1>14, <1>15, <1>17 DEF MovesBlock
<1> QED BY <1>2, <1>12, <1>18, BlockMoves

LEMMA Close_device_Done == ASSUME DevInv, NEW t \in Tsk, close_device_Done(t) PROVE DevInv'
<1> DEFINE o == stage[t].opn
           b == opncb[o]
           fn == stage[t].fn
           k == 0 - fn
           g == stage[t].clean
           s == stage'[t]
<1>0. DevTypeOK /\ BlocksSound /\ QueuesSound /\ CleanersSound /\ g \in Groups \cup {NULL} /\ fn \in 0..1
  BY TaskKnown DEF DevInv, TablesSound
<1>1. stage[t].at = "CLOSEFN" /\ UNCHANGED <<devcb, reqcb>> /\ Suspension
      /\ refused' = refused /\ (~unseen' => ~unseen)
      /\ "CLOSEFN" \in Holding /\ stage[t] # Idle
      /\ "CLOSEFN" \notin InFn \cup Suspending \cup {"SYNC", "TEST", "OPENFN", "CLEAN", "DRAINFN"}
      /\ opncb' = [opncb EXCEPT ![o] = NODEV]
      /\ IF g = NULL THEN Returns(t) /\ diswai' = diswai \ {t}
         ELSE SetStage(t, Doing("CLEAN", NULL, {}, 0, g)) /\ diswai' = diswai
  BY IdleIs, HistSame DEF close_device_Done, Leaves_svc, Holding, InFn, Suspending, Closing, delOpnCB, Cleans
<1>2. /\ o \in Opn /\ b # NODEV /\ b \in OpnCB /\ \A x \in Tsk : x # t => ~Has(x, o)
      /\ ~b.linked /\ stage[t].reqs = {}
  BY <1>1, Held
<1>4. drv' \in [Unit -> Int] /\ \A v \in Unit \ refused' : drv'[v] = IF Of(b, v) THEN drv[v] + k ELSE drv[v]
  <2>1. k \in Int /\ -fn = k
    BY <1>0
  <2>2. TellsDriver(<<b.dev, b.unit>>, -fn)
    BY DEF close_device_Done
  <2> HIDE DEF k, fn, b
  <2>3. TellsDriver(<<b.dev, b.unit>>, k)
    BY <2>1, <2>2
  <2> QED BY <1>0, <1>1, <1>2, <2>1, <2>3, DrvCounts
<1>5. /\ Becomes(t, s) /\ stage' \in [Tsk -> Stages] /\ s.reqs = {} /\ s.clean = g
      /\ s.at = IF g = NULL THEN "IDLE" ELSE "CLEAN"
  <2>1. CASE g = NULL
    <3>1. NowAt(t, "IDLE", NULL, {}, 0, NULL)
      BY <1>0, <1>1, <2>1, Nows
    <3> QED BY <2>1, <3>1 DEF NowAt
  <2>2. CASE g # NULL
    <3>1. SetStage(t, Doing("CLEAN", NULL, {}, 0, g)) /\ "CLEAN" \in Ats /\ NULL \in Opn \cup {NULL} /\ {} \in SUBSET Req
          /\ 0 \in 0..1 /\ g \in Groups \cup {NULL}
      BY <1>0, <1>1, <2>2 DEF Ats
    <3>2. NowAt(t, "CLEAN", NULL, {}, 0, g)
      <4> HIDE DEF g
      <4> QED BY <1>0, <3>1, Nows
    <3> QED BY <2>2, <3>2 DEF NowAt
  <2> QED BY <2>1, <2>2
<1> HIDE DEF s
<1>6. s.at \notin InFn \cup Suspending \cup Holding \cup Aborted
                  \cup {"SYNC", "TEST", "DRAINFN", "OPENFN", "CLOSE", "CLOSEFN"}
  BY <1>5 DEF InFn, Suspending, Holding, Closing, Aborted
<1>7. Turns(o, NODEV) /\ opncb' \in [Opn -> OpnCB \cup {NODEV}]
  BY <1>0, <1>1, <1>2, BlockTurns
<1>8. Mine(t, s, o)
  BY <1>2, <1>6 DEF Mine
<1>9. b.requestq = <<>>
  BY <1>0, <1>1 DEF QueuesSound
<1>10. ASSUME NEW v \in Unit \ refused' PROVE AddsUp(v, NODEV, s, t, b)
  <2> DEFINE e == IF Of(b, v) THEN fn ELSE 0
  <2>1. /\ One(NODEV # NODEV /\ NODEV.linked /\ Of(NODEV, v)) = 0 /\ One(b # NODEV /\ b.linked /\ Of(b, v)) = 0
        /\ One(s.at = "OPENFN" /\ s.fn = 1 /\ Of(NODEV, v)) = 0
        /\ One(stage[t].at = "OPENFN" /\ stage[t].fn = 1 /\ Of(b, v)) = 0
        /\ One(s.at = "CLOSEFN" /\ s.fn = 1 /\ Of(NODEV, v)) = 0
        /\ One(stage[t].at = "CLOSEFN" /\ stage[t].fn = 1 /\ Of(b, v)) = e
    BY <1>0, <1>1, <1>2, <1>6 DEF One
  <2>2. drv'[v] = drv[v] - e /\ drv[v] \in Int /\ e \in Int
    BY <1>0, <1>4 DEF DevTypeOK
  <2> HIDE DEF b, fn, e
  <2> QED BY <2>1, <2>2 DEF AddsUp
<1>11. g # NULL => s.at \in Closing \cup {"CLEAN"}
  BY <1>5
<1>12. s.at = "CLEAN" => s.clean # NULL
  BY <1>5
<1>13. MovesBlock(t, s, o, NODEV)
  BY <1>1, <1>2, <1>4, <1>5, <1>6, <1>7, <1>8, <1>9, <1>10, <1>11, <1>12 DEF MovesBlock
<1>14. ASSUME ~unseen' PROVE MovesSeen(t, s, o)
  <2>1. ~unseen /\ RequestsSound /\ AbortsSound
    BY <1>1, <1>14 DEF DevInv, CallsSound
  <2>2. stage[t].at \in Aborted /\ Has(t, o)
    BY <1>1 DEF Aborted, Has
  <2>3. t \in diswai => g = NULL
    BY <1>0, <1>2, <2>1, <2>2, Draining
  <2>4. t \notin diswai' /\ \A x : x # t => (x \in diswai' <=> x \in diswai)
    BY <1>1, <2>3
  <2> QED BY <1>6, <2>1, <2>4 DEF MovesSeen
<1> QED BY <1>2, <1>13, <1>14, BlockMoves

-----------------------------------------------------------------------------
LEMMA DevInitInv == DevInit => DevInv
<1> SUFFICES ASSUME DevInit PROVE DevInv
  OBVIOUS
<1>1. \A t \in Tsk : stage[t] = Idle
  BY DEF DevInit
<1>2. /\ \A o \in Opn : opncb[o] = NODEV
      /\ \A r \in Req : reqcb[r] = NODEV
      /\ \A u \in Unit : drv[u] = 0
      /\ devcb \in [Dev -> Ddevs \cup {NODEV}] /\ opncb \in [Opn -> OpnCB \cup {NODEV}]
      /\ reqcb \in [Req -> ReqCB \cup {NODEV}] /\ stage \in [Tsk -> Stages] /\ drv \in [Unit -> Int]
  BY IdleIs DEF DevInit
<1>3. \A t \in Tsk : stage[t].at \notin Holding \cup InFn \cup Suspending /\ stage[t].at = "IDLE" /\ stage[t].clean = NULL /\ stage[t].reqs = {}
  BY <1>1, IdleIs
<1>4. \A t \in Tsk : stage[t].at \notin InFn \cup {"DRAINFN", "OPENFN", "CLOSE", "CLOSEFN", "SYNC", "TEST", "CLEAN", "EXECFN", "WAITFN"} \cup Aborted
  BY <1>3 DEF Holding, Closing, InFn, Aborted
<1>5. DevTypeOK
  BY <1>2 DEF DevTypeOK
<1>6. BlocksSound
  BY <1>2, <1>3 DEF BlocksSound, Has
<1>7. CleanersSound
  BY <1>3 DEF CleanersSound
<1>8. QueuesSound
  BY <1>2, <1>3, <1>4 DEF QueuesSound
<1>9. CallsSound
  <2>1. RequestsSound
    BY <1>2, <1>3 DEF RequestsSound
  <2>2. \A t \in Tsk : TaskAborts(t)
    BY <1>4 DEF TaskAborts, Aborting, DevInit
  <2>3. AbortsSound
    BY <1>2, <2>2 DEF AbortsSound, DevInit
  <2> QED BY <2>1, <2>3 DEF CallsSound
<1>10. ModesRespected
  BY <1>2 DEF ModesRespected, Opens
<1>11. DriversSound
  <2> SUFFICES ASSUME NEW u \in Unit \ refused
               PROVE  drv[u] + Cardinality(Telling("OPENFN", u)) - Cardinality(Telling("CLOSEFN", u)) = ToldOf(u)
    BY DEF DriversSound
  <2>1. Telling("OPENFN", u) = {} /\ Telling("CLOSEFN", u) = {} /\ On(u) = {}
    BY <1>2, <1>4 DEF Telling, On, Opens
  <2>2. Cardinality(Telling("OPENFN", u)) = 0 /\ Cardinality(Telling("CLOSEFN", u)) = 0
    BY <2>1, FS_EmptySet
  <2>3. drv[u] = 0 /\ ToldOf(u) = 0
    BY <1>2, <2>1 DEF ToldOf
  <2> QED BY <2>2, <2>3
<1>12. SuspensionSound
  <2> DEFINE f == [g \in Groups |-> 0]
  <2>1. f \in [Groups -> 0..MAX_DISSUS] /\ dissus = f /\ DisSusCnt = 0 /\ reg = NULL /\ dm = NULL /\ MAX_DISSUS \in Nat
    BY DevAssumption DEF DevInit
  <2>2. SusPairs(f) = {}
    <3> SUFFICES ASSUME NEW g \in Groups, NEW j \in 1..MAX_DISSUS, j <= f[g] PROVE FALSE
      BY DEF SusPairs
    <3> QED OBVIOUS
  <2>3. Cardinality(SusPairs(f)) = 0
    BY <2>2, FS_EmptySet
  <2>4. {c \in Groups \X (1..MAX_DISSUS) : c[2] <= dissus[c[1]]} = SusPairs(f)
    BY <2>1 DEF SusPairs
  <2> HIDE DEF f
  <2>5. \A t \in Tsk : reg = t <=> stage[t].at \in Suspending
    BY <1>3, <2>1, DevAssumption
  <2> QED BY <2>1, <2>3, <2>4, <2>5 DEF SuspensionSound
<1> QED BY <1>5, <1>6, <1>7, <1>8, <1>9, <1>10, <1>11, <1>12 DEF DevInv, TablesSound

LEMMA DevNextInv == ASSUME DevInv, [DevNext]_devvars PROVE DevInv'
<1>1. CASE UNCHANGED devvars
  <2>0. /\ UNCHANGED <<devcb, opncb, reqcb, dissus, DisSusCnt, reg, dm, diswai, stage, drv>>
        /\ refused' = refused /\ (~unseen' => ~unseen)
    BY <1>1, HistSame DEF devvars
  <2>1. DevTypeOK' /\ BlocksSound' /\ CleanersSound'
    BY <2>0 DEF DevInv, TablesSound, DevTypeOK, BlocksSound, CleanersSound, Has, Owner
  <2>2. QueuesSound'
    BY <2>0 DEF DevInv, TablesSound, QueuesSound
  <2>3. ASSUME ~unseen' PROVE CallsSound'
    <3>1. RequestsSound /\ AbortsSound
      BY <2>0, <2>3 DEF DevInv, CallsSound
    <3>2. RequestsSound'
      BY <2>0, <3>1 DEF RequestsSound
    <3>3. AbortsSound'
      BY <2>0, <3>1 DEF AbortsSound, BlockAborts, TaskAborts, Users, Has
    <3> QED BY <3>2, <3>3 DEF CallsSound
  <2>4. ModesRespected'
    BY <2>0 DEF DevInv, TablesSound, ModesRespected, Opens
  <2>5. DriversSound'
    BY <2>0 DEF DevInv, TablesSound, DriversSound, Telling, ToldOf, On, Opens
  <2>6. SuspensionSound'
    BY <2>0 DEF DevInv, TablesSound, SuspensionSound
  <2> QED BY <2>1, <2>2, <2>3, <2>4, <2>5, <2>6 DEF DevInv, TablesSound
<1>2. ASSUME NEW t \in Tsk, NEW d \in Dev, _tk_def_dev(t, d) PROVE DevInv'
  BY <1>2, Register_def_dev
<1>3. ASSUME NEW t \in Tsk, NEW d \in Dev, NEW u \in 0..1, NEW m \in Omodes, _tk_opn_dev(t, d, u, m) PROVE DevInv'
  BY <1>3, Open_opn_dev
<1>4. ASSUME NEW t \in Tsk, NEW o \in Opn, _tk_rea_dev(t, o) \/ _tk_wri_dev(t, o) PROVE DevInv'
  BY <1>4, Request_EXEC DEF _tk_rea_dev, _tk_wri_dev
<1>5. ASSUME NEW t \in Tsk, NEW o \in Opn, NEW r \in Req, _tk_wai_dev(t, o, r) PROVE DevInv'
  BY <1>5, Wait_WAIT
<1>6. ASSUME NEW t \in Tsk, NEW o \in Opn, _tk_wai_dev_Any(t, o) PROVE DevInv'
  BY <1>6, Wait_ANY
<1>7. ASSUME NEW t \in Tsk, NEW o \in Opn, _tk_cls_dev(t, o) PROVE DevInv'
  BY <1>7, Close_cls_dev
<1>8. ASSUME NEW t \in Tsk, NEW g \in Groups, devmgr_cleanup(t, g) PROVE DevInv'
  BY <1>8, Cleanup_devmgr
<1>9. ASSUME NEW t \in Tsk, NEW force \in BOOLEAN, _tk_sus_dev_SUSPEND(t, force) PROVE DevInv'
  BY <1>9, Suspend_sus_dev
<1>10. ASSUME NEW t \in Tsk, \/ _tk_opn_dev_Done(t) \/ request_Done(t) \/ _tk_wai_dev_Done(t)
                             \/ abort_allrequest(t) \/ TestCount(t) \/ SyncWaitDM(t) \/ SyncWaitDM_Released(t)
       PROVE  DevInv'
  BY <1>10, Open_Done, Request_Done, Wait_Done, Abort_allrequest, Abort_Test, Abort_Wait
<1>11. ASSUME NEW t \in Tsk, \/ WaitRemaining(t) \/ WaitRemaining_Done(t)
                             \/ close_device(t) \/ close_device_Done(t) \/ devmgr_cleanup_Next(t)
       PROVE  DevInv'
  BY <1>11, Drain_Next, Drain_Done, Close_device, Close_device_Done, Close_cleanup_Next
<1>12. ASSUME NEW t \in Tsk, _tk_sus_dev_DISSUS(t) \/ _tk_sus_dev_ENASUS(t) \/ do_suspend(t) PROVE DevInv'
  BY <1>12, Dissus_sus_dev, Suspend_do_suspend
<1> QED BY <1>1, <1>2, <1>3, <1>4, <1>5, <1>6, <1>7, <1>8, <1>9, <1>10, <1>11, <1>12 DEF DevNext

LEMMA DevInvSafe == DevInv => DevicesConsistent
<1> SUFFICES ASSUME DevInv PROVE DevicesConsistent
  OBVIOUS
<1>0. DevTypeOK /\ BlocksSound /\ QueuesSound /\ ModesRespected /\ DriversSound /\ SuspensionSound
  BY DEF DevInv, TablesSound
<1>1. OpensExact
  <2> SUFFICES ASSUME NEW o \in Opn
               PROVE  LET with == {t \in At({"OPENFN"} \cup Closing) : stage[t].opn = o} IN
                      IF opncb[o] = NODEV THEN with = {}
                      ELSE /\ Cardinality(with) = (IF opncb[o].resid = NULL THEN 1 ELSE 0)
                           /\ opncb[o].linked <=> (with \cap At({"CLOSEFN"}) = {})
                           /\ devcb[opncb[o].dev] = NODEV => ~opncb[o].linked
    BY DEF OpensExact
  <2> DEFINE with == {t \in At({"OPENFN"} \cup Closing) : stage[t].opn = o}
  <2>1. \A t : t \in with <=> t \in Tsk /\ Has(t, o)
    BY DEF At, Has, Holding
  <2>2. \A t : t \in At({"CLOSEFN"}) <=> t \in Tsk /\ stage[t].at = "CLOSEFN"
    BY DEF At
  <2> HIDE DEF with
  <2>3. CASE opncb[o] = NODEV
    <3>1. with = {}
      BY <1>0, <2>1, <2>3 DEF BlocksSound
    <3> QED BY <2>3, <3>1 DEF with
  <2>4. CASE opncb[o] # NODEV
    <3>1. opncb[o].linked <=> (with \cap At({"CLOSEFN"}) = {})
      BY <1>0, <2>1, <2>2, <2>4 DEF BlocksSound
    <3>2. devcb[opncb[o].dev] = NODEV => ~opncb[o].linked
      BY <1>0, <2>4 DEF BlocksSound
    <3>3. opncb[o].resid = NULL => Cardinality(with) = 1
      <4> SUFFICES ASSUME opncb[o].resid = NULL PROVE Cardinality(with) = 1
        OBVIOUS
      <4>1. PICK t \in Tsk : Has(t, o)
        BY <1>0, <2>4 DEF BlocksSound
      <4>2. with = {t}
        BY <1>0, <2>1, <4>1 DEF BlocksSound
      <4> QED BY <4>2, FS_Singleton
    <3>4. opncb[o].resid # NULL => Cardinality(with) = 0
      <4> SUFFICES ASSUME opncb[o].resid # NULL PROVE Cardinality(with) = 0
        OBVIOUS
      <4>1. with = {}
        BY <1>0, <2>1 DEF BlocksSound
      <4> QED BY <4>1, FS_EmptySet
    <3> QED BY <2>4, <3>1, <3>2, <3>3, <3>4 DEF with
  <2> QED BY <2>3, <2>4
<1>2. RequestsExact
  <2>1. \A r \in Req : reqcb[r] # NODEV => \E o \in Opn : o = reqcb[r].opn /\ opncb[o] # NODEV
    BY <1>0, RequestKnown DEF QueuesSound
  <2> QED BY <1>0, <2>1 DEF RequestsExact, QueuesSound
<1>3. ASSUME ~unseen PROVE RequestsOnce /\ AbortCompleted /\ AbortSignalled
  <2>0. RequestsSound /\ AbortsSound
    BY <1>3 DEF DevInv, CallsSound
  <2>1. RequestsOnce
    <3>1. ASSUME NEW r \in Req PROVE Cardinality({t \in Tsk : r \in stage[t].reqs}) <= 1
      <4> DEFINE S == {t \in Tsk : r \in stage[t].reqs}
      <4>1. \A t, x \in S : t = x
        BY <1>0, <2>0, ReqsApart
      <4> HIDE DEF S
      <4>2. CASE S = {}
        BY <4>2, FS_EmptySet DEF S
      <4>3. CASE S # {}
        <5>1. PICK t : t \in S
          BY <4>3
        <5>2. S = {t}
          BY <4>1, <5>1
        <5>3. Cardinality(S) = 1
          BY <5>2, FS_Singleton
        <5> QED BY <5>3 DEF S
      <4> QED BY <4>2, <4>3
    <3> QED BY <2>0, <3>1 DEF RequestsOnce, RequestsSound
  <2>2. AbortCompleted
    <3> SUFFICES ASSUME NEW t \in At({"DRAIN", "DRAINFN", "CLOSE", "CLOSEFN"}), NEW x \in At(InFn),
                        stage[x].opn = stage[t].opn
                 PROVE  FALSE
      BY DEF AbortCompleted
    <3>1. x \in Users(stage[t].opn)
      BY DEF At, Users
    <3>2. Users(stage[t].opn) = {}
      BY <2>0 DEF At, AbortsSound, TaskAborts, Aborted
    <3> QED BY <3>1, <3>2
  <2>3. AbortSignalled
    <3>1. ASSUME NEW t \in At({"SYNC"}) PROVE InProcess(stage[t].opn) = 0 <=> t \in diswai
      <4>1. t \in Tsk /\ stage[t].at = "SYNC" /\ "SYNC" \in Holding
        BY <3>1 DEF At, Holding, Closing
      <4>2. stage[t].opn \in Opn /\ opncb[stage[t].opn] # NODEV
        BY <1>0, <4>1 DEF BlocksSound, Has
      <4>3. TaskAborts(t)
        BY <2>0, <4>1 DEF AbortsSound
      <4> QED BY <1>0, <2>0, <4>1, <4>2, <4>3, InProcessIs DEF TaskAborts
    <3>2. \A o \in Opn : opncb[o] # NODEV /\ opncb[o].abort_tskid # NULL => opncb[o].abort_cnt = InProcess(o)
      BY <1>0, <2>0, InProcessIs DEF AbortsSound, BlockAborts
    <3>3. diswai \subseteq At(Closing \ {"ABORT"})
      <4>1. ASSUME NEW t \in diswai PROVE t \in At(Closing \ {"ABORT"})
        <5>1. t \in Tsk /\ TaskAborts(t)
          BY <2>0 DEF AbortsSound
        <5> QED BY <4>1, <5>1 DEF TaskAborts, At, Closing, Aborting, Aborted
      <4> QED BY <4>1
    <3> QED BY <3>1, <3>2, <3>3 DEF AbortSignalled
  <2> QED BY <2>1, <2>2, <2>3
<1>5. DriverInformed
  <2> SUFFICES ASSUME NEW u \in Unit \ refused,
                      {t \in At({"OPENFN", "CLOSEFN"}) :
                         opncb[stage[t].opn].dev = u[1] /\ opncb[stage[t].opn].unit = u[2]} = {}
               PROVE  drv[u] > 0 <=> {o \in Opens(u[1]) : opncb[o].unit = u[2]} # {}
    BY DEF DriverInformed
  <2>1. Telling("OPENFN", u) = {} /\ Telling("CLOSEFN", u) = {}
    BY DEF Telling, At
  <2>2. drv[u] = ToldOf(u)
    <3>1. drv[u] \in Int
      BY <1>0 DEF DevTypeOK
    <3>2. drv[u] + 0 - 0 = ToldOf(u)
      BY <1>0, <2>1, FS_EmptySet DEF DriversSound
    <3> QED BY <3>1, <3>2
  <2>3. Cardinality(On(u)) \in Nat /\ (On(u) = {} <=> Cardinality(On(u)) = 0)
    BY TellersCounted
  <2>4. ToldOf(u) > 0 <=> On(u) # {}
    BY <2>3 DEF ToldOf
  <2> QED BY <2>2, <2>4 DEF On
<1>6. SuspensionExact
  BY <1>0 DEF SuspensionSound, SuspensionExact, Suspending
<1> QED BY <1>0, <1>1, <1>2, <1>3, <1>5, <1>6 DEF DevicesConsistent
=============================================================================
