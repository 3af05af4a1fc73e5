---------------------------- MODULE SystemProofs ----------------------------
(***************************************************************************)
(* The services of System, for every number of tasks, processors, vectors. *)
(*                                                                         *)
(* FastLock: FastLockHandedOn is inductive, with types.  FastMLock: a task *)
(* that unlocks looks at the counter of waiting tasks, so the invariant    *)
(* must say whom it counts (WaiCounts).  Spin locks: an exclusive store by *)
(* a load of its own level succeeds only while the value is the one that   *)
(* was loaded (SeenIsValue).                                               *)
(* Interrupts: what a call has written so far and what it read before it   *)
(* writes, call by call and step by step (IntInv).                         *)
(* Task exceptions: what the flags and execssid of a task say of the stack *)
(* of calls it is in, what each extended SVC saved of those below it, whom *)
(* a lock of an SVC waits for, and who may run a break function (TexInv).  *)
(***************************************************************************)
EXTENDS System, DeviceProofs

Where == {"OUT", "WAISEM", "SLEEP", "IN", "SIGSEM", "BTS", "WAIFLG", "MSLEEP",
          "FAILED", "LOCKED", "MIN", "WAKE", "SETFLG"}

LockTypeOK ==
  /\ cnt \in Int /\ semcnt \in {0, 1} /\ wai \in Int
  /\ flg \subseteq LockNos /\ flgptn \subseteq LockNos
  /\ doing \in [Locker -> [at : Where, no : LockNos \cup {0}]]
  /\ \A t \in Locker : doing[t].at \in {"LOCKED", "MIN", "WAKE", "BTS", "WAIFLG", "MSLEEP", "SETFLG"}
       => doing[t].no \in LockNos

MWaiting == {"BTS", "WAIFLG", "MSLEEP", "FAILED", "LOCKED"}

(* INC and DEC: the counter of the multi-lock counts the tasks inside      *)
(* MLockTmo.                                                               *)
WaiCounts == wai = Cardinality(CallersAt(MWaiting))

LockInv == LockTypeOK /\ FastLockHandedOn /\ WaiCounts /\ MultiLockHandedOn

LEMMA CallersFinite ==
  /\ \A steps : IsFiniteSet(CallersAt(steps)) /\ Cardinality(CallersAt(steps)) \in Nat
  /\ \A steps, no : IsFiniteSet(With(steps, no)) /\ Cardinality(With(steps, no)) \in Nat
<1>1. \A S \in SUBSET Locker : IsFiniteSet(S) /\ Cardinality(S) \in Nat
  BY LockAssumption, FS_Subset, FS_CardinalityType
<1> QED BY <1>1 DEF CallersAt, With

LEMMA OneReplaces ==
  ASSUME NEW S, IsFiniteSet(S), NEW x \in S, NEW y, y \notin S
  PROVE  Cardinality((S \ {x}) \cup {y}) = Cardinality(S)
<1>1. IsFiniteSet(S \ {x}) /\ Cardinality(S \ {x}) = Cardinality(S) - 1
  BY FS_RemoveElement
<1>2. Cardinality((S \ {x}) \cup {y}) = Cardinality(S \ {x}) + 1
  BY <1>1, FS_AddElement
<1> QED BY <1>1, <1>2, FS_CardinalityType

(* How many tasks there are in some steps, when one task moves. *)
LEMMA CallersMove ==
  ASSUME NEW t \in Locker, \A u \in Locker \ {t} : doing'[u] = doing[u], NEW steps
  PROVE  Cardinality(CallersAt(steps)') = Cardinality(CallersAt(steps))
           + (IF doing'[t].at \in steps THEN 1 ELSE 0)
           - (IF doing[t].at \in steps THEN 1 ELSE 0)
<1>1. CallersAt(steps)' \ {t} = CallersAt(steps) \ {t}
  BY DEF CallersAt
<1>2. /\ t \in CallersAt(steps) <=> doing[t].at \in steps
      /\ t \in CallersAt(steps)' <=> doing'[t].at \in steps
  BY DEF CallersAt
<1> QED BY <1>1, <1>2, CallersFinite, OneMoves

LEMMA OwnersMove ==
  ASSUME NEW t \in Locker, \A u \in Locker \ {t} : doing'[u] = doing[u],
         NEW steps, NEW no
  PROVE  Cardinality(With(steps, no)') = Cardinality(With(steps, no))
           + (IF doing'[t].at \in steps /\ doing'[t].no = no THEN 1 ELSE 0)
           - (IF doing[t].at \in steps /\ doing[t].no = no THEN 1 ELSE 0)
<1>1. With(steps, no)' \ {t} = With(steps, no) \ {t}
  BY DEF CallersAt, With
<1>2. /\ t \in With(steps, no) <=> doing[t].at \in steps /\ doing[t].no = no
      /\ t \in With(steps, no)' <=> doing'[t].at \in steps /\ doing'[t].no = no
  BY DEF CallersAt, With
<1> QED BY <1>1, <1>2, CallersFinite, OneMoves

LEMMA LockInitInv == LockInit => LockInv
<1> SUFFICES ASSUME LockInit PROVE LockInv
  OBVIOUS
<1>1. LockTypeOK
  BY DEF LockInit, LockTypeOK, Out, Where
<1>2. \A steps : "OUT" \notin steps => CallersAt(steps) = {}
  BY DEF LockInit, CallersAt, Out
<1>3. FastLockHandedOn /\ WaiCounts
  BY <1>2, FS_EmptySet DEF LockInit, FastLockHandedOn, Copies, WaiCounts, MWaiting
<1>4. \A no : With({"LOCKED", "MIN"}, no) = {}
  BY <1>2 DEF With
<1>5. MultiLockHandedOn
  BY <1>4, FS_EmptySet DEF LockInit, MultiLockHandedOn, Owned, NotStranded, Asleep, Out
<1> QED BY <1>1, <1>3, <1>5 DEF LockInv

LEMMA LockTypeStep == LockTypeOK /\ [LockNext]_lockvars => LockTypeOK'
<1> SUFFICES ASSUME LockTypeOK, [LockNext]_lockvars PROVE LockTypeOK'
  OBVIOUS
<1> USE DEF LockTypeOK, Where, Out, Step
<1>1. ASSUME NEW t \in Locker, Lock(t) PROVE LockTypeOK'
  BY <1>1 DEF Lock
<1>2. ASSUME NEW t \in Locker, tk_wai_sem(t) \/ tk_rel_wai(t) PROVE LockTypeOK'
  BY <1>2 DEF tk_wai_sem, tk_rel_wai
<1>3. ASSUME NEW t \in Locker, Unlock(t) PROVE LockTypeOK'
  BY <1>3 DEF Unlock
<1>4. ASSUME NEW t \in Locker, tk_sig_sem(t) PROVE LockTypeOK'
  <2>1. CASE CallersAt({"SLEEP"}) = {}
    BY <1>4, <2>1 DEF tk_sig_sem
  <2>2. CASE CallersAt({"SLEEP"}) # {}
    BY <1>4, <2>2, SMTT(40) DEF tk_sig_sem, CallersAt
  <2> QED BY <2>1, <2>2
<1>5. ASSUME NEW t \in Locker, NEW no \in LockNos, MLockTmo(t, no) PROVE LockTypeOK'
  BY <1>5 DEF MLockTmo
<1>6. ASSUME NEW t \in Locker, BTS(t) PROVE LockTypeOK'
  BY <1>6 DEF BTS
<1>7. ASSUME NEW t \in Locker, tk_wai_flg(t) PROVE LockTypeOK'
  BY <1>7 DEF tk_wai_flg
<1>8. ASSUME NEW t \in Locker, Timeout(t) PROVE LockTypeOK'
  BY <1>8 DEF Timeout
<1>9. ASSUME NEW t \in Locker, MLockTmo_Dec(t) PROVE LockTypeOK'
  BY <1>9 DEF MLockTmo_Dec
<1>10. ASSUME NEW t \in Locker, MUnlock(t) PROVE LockTypeOK'
  BY <1>10 DEF MUnlock
<1>11. ASSUME NEW t \in Locker, MUnlock_Wake(t) PROVE LockTypeOK'
  BY <1>11 DEF MUnlock_Wake
<1>12. ASSUME NEW t \in Locker, tk_set_flg(t) PROVE LockTypeOK'
  <2>1. CASE With({"MSLEEP"}, doing[t].no) = {}
    BY <1>12, <2>1 DEF tk_set_flg
  <2>2. CASE With({"MSLEEP"}, doing[t].no) # {}
    BY <1>12, <2>2 DEF tk_set_flg, With, CallersAt
  <2> QED BY <2>1, <2>2
<1>13. CASE UNCHANGED lockvars
  BY <1>13 DEF lockvars
<1> QED BY <1>1, <1>2, <1>3, <1>4, <1>5, <1>6, <1>7, <1>8, <1>9, <1>10, <1>11, <1>12, <1>13
        DEF LockNext

(* The two sets that FastLockHandedOn counts, when t alone moves. *)
LEMMA FastCounts ==
  ASSUME NEW t \in Locker, \A u \in Locker \ {t} : doing'[u] = doing[u],
         NEW from, NEW to, doing[t].at = from, doing'[t].at = to
  PROVE  /\ Cardinality(CallersAt({"IN", "SIGSEM"})') = Cardinality(CallersAt({"IN", "SIGSEM"}))
              + (IF to \in {"IN", "SIGSEM"} THEN 1 ELSE 0)
              - (IF from \in {"IN", "SIGSEM"} THEN 1 ELSE 0)
         /\ Cardinality(CallersAt({"WAISEM", "SLEEP", "IN"})') = Cardinality(CallersAt({"WAISEM", "SLEEP", "IN"}))
              + (IF to \in {"WAISEM", "SLEEP", "IN"} THEN 1 ELSE 0)
              - (IF from \in {"WAISEM", "SLEEP", "IN"} THEN 1 ELSE 0)
         /\ Cardinality(CallersAt({"IN", "SIGSEM"})) \in Nat
         /\ Cardinality(CallersAt({"WAISEM", "SLEEP", "IN"})) \in Nat
         /\ from \in {"IN", "SIGSEM"} => Cardinality(CallersAt({"IN", "SIGSEM"})) > 0
<1>1. Cardinality(CallersAt({"IN", "SIGSEM"})') = Cardinality(CallersAt({"IN", "SIGSEM"}))
        + (IF to \in {"IN", "SIGSEM"} THEN 1 ELSE 0)
        - (IF from \in {"IN", "SIGSEM"} THEN 1 ELSE 0)
  BY CallersMove
<1>2. Cardinality(CallersAt({"WAISEM", "SLEEP", "IN"})') = Cardinality(CallersAt({"WAISEM", "SLEEP", "IN"}))
        + (IF to \in {"WAISEM", "SLEEP", "IN"} THEN 1 ELSE 0)
        - (IF from \in {"WAISEM", "SLEEP", "IN"} THEN 1 ELSE 0)
  BY CallersMove
<1>3. ASSUME from \in {"IN", "SIGSEM"}
      PROVE  Cardinality(CallersAt({"IN", "SIGSEM"})) > 0
  <2>1. t \in CallersAt({"IN", "SIGSEM"})
    BY <1>3 DEF CallersAt
  <2> QED BY <2>1, CallersFinite, FS_EmptySet
<1> QED BY <1>1, <1>2, <1>3, CallersFinite

(* A call of the multi-lock leaves the fast lock alone. *)
LEMMA FastUntouched ==
  ASSUME FastLockHandedOn, UNCHANGED <<cnt, semcnt, released>>,
         \A u \in Locker : \A at \in {"IN", "SIGSEM", "WAISEM", "SLEEP"} :
           doing'[u].at = at <=> doing[u].at = at
  PROVE  FastLockHandedOn'
<1>1. /\ CallersAt({"IN", "SIGSEM"})' = CallersAt({"IN", "SIGSEM"})
      /\ CallersAt({"WAISEM", "SLEEP", "IN"})' = CallersAt({"WAISEM", "SLEEP", "IN"})
  BY DEF CallersAt
<1> QED BY <1>1 DEF FastLockHandedOn, Copies

LEMMA FastLockStep == LockInv /\ [LockNext]_lockvars => FastLockHandedOn'
<1> SUFFICES ASSUME LockTypeOK, FastLockHandedOn, [LockNext]_lockvars PROVE FastLockHandedOn'
  BY DEF LockInv
<1>1. ASSUME NEW t \in Locker, Lock(t) PROVE FastLockHandedOn'
  <2>1. /\ \A u \in Locker \ {t} : doing'[u] = doing[u]
        /\ doing[t].at = "OUT" /\ doing'[t].at = IF cnt + 1 > 0 THEN "WAISEM" ELSE "IN"
    BY <1>1 DEF Lock, Step, LockTypeOK
  <2> QED BY <1>1, <2>1, FastCounts DEF Lock, FastLockHandedOn, Copies, LockTypeOK
<1>2. ASSUME NEW t \in Locker, tk_wai_sem(t) PROVE FastLockHandedOn'
  <2>1. /\ \A u \in Locker \ {t} : doing'[u] = doing[u]
        /\ doing[t].at = "WAISEM" /\ doing'[t].at = IF semcnt > 0 THEN "IN" ELSE "SLEEP"
    BY <1>2 DEF tk_wai_sem, Step, LockTypeOK
  <2> QED BY <1>2, <2>1, FastCounts DEF tk_wai_sem, FastLockHandedOn, Copies, LockTypeOK
<1>3. ASSUME NEW t \in Locker, Unlock(t) PROVE FastLockHandedOn'
  <2>1. /\ \A u \in Locker \ {t} : doing'[u] = doing[u]
        /\ doing[t].at = "IN" /\ doing'[t].at = IF cnt > 0 THEN "SIGSEM" ELSE "OUT"
    BY <1>3 DEF Unlock, Step, LockTypeOK
  <2> QED BY <1>3, <2>1, FastCounts DEF Unlock, FastLockHandedOn, Copies, LockTypeOK
<1>4. ASSUME NEW t \in Locker, tk_sig_sem(t) PROVE FastLockHandedOn'
  <2>1. CASE CallersAt({"SLEEP"}) = {}
    <3>1. /\ \A u \in Locker \ {t} : doing'[u] = doing[u]
          /\ doing[t].at = "SIGSEM" /\ doing'[t].at = "OUT"
      BY <1>4, <2>1 DEF tk_sig_sem, Out, LockTypeOK
    <3>2. /\ Cardinality(CallersAt({"IN", "SIGSEM"})') = Cardinality(CallersAt({"IN", "SIGSEM"})) - 1
          /\ Cardinality(CallersAt({"WAISEM", "SLEEP", "IN"})') = Cardinality(CallersAt({"WAISEM", "SLEEP", "IN"}))
          /\ Cardinality(CallersAt({"IN", "SIGSEM"})) > 0
      BY <3>1, FastCounts, CallersFinite
    <3>3. semcnt' = 1 /\ cnt' = cnt /\ released' = released
      BY <1>4, <2>1 DEF tk_sig_sem, LockTypeOK
    <3>4. ~released => semcnt = 0 /\ cnt >= 0
      BY <3>2, CallersFinite DEF FastLockHandedOn, Copies, LockTypeOK
    <3> QED BY <3>2, <3>3, <3>4, CallersFinite DEF FastLockHandedOn, Copies, LockTypeOK
  <2>2. CASE CallersAt({"SLEEP"}) # {}
    <3>1. PICK w \in CallersAt({"SLEEP"}) : doing' = [doing EXCEPT ![t] = Out, ![w].at = "IN"]
      BY <1>4, <2>2 DEF tk_sig_sem
    <3>2. /\ w \in Locker /\ w # t /\ doing[t].at = "SIGSEM" /\ doing[w].at = "SLEEP"
          /\ doing'[t].at = "OUT" /\ doing'[w].at = "IN"
          /\ \A u \in Locker \ {t, w} : doing'[u] = doing[u]
      BY <1>4, <3>1 DEF tk_sig_sem, CallersAt, Out, LockTypeOK
    <3>3. CallersAt({"WAISEM", "SLEEP", "IN"})' = CallersAt({"WAISEM", "SLEEP", "IN"})
      BY <3>2 DEF CallersAt
    <3>4. /\ t \in CallersAt({"IN", "SIGSEM"}) /\ w \notin CallersAt({"IN", "SIGSEM"})
          /\ CallersAt({"IN", "SIGSEM"})' = (CallersAt({"IN", "SIGSEM"}) \ {t}) \cup {w}
      BY <3>2 DEF CallersAt
    <3>5. Cardinality(CallersAt({"IN", "SIGSEM"})') = Cardinality(CallersAt({"IN", "SIGSEM"}))
      BY <3>4, CallersFinite, OneReplaces
    <3> QED BY <1>4, <2>2, <3>3, <3>5 DEF tk_sig_sem, FastLockHandedOn, Copies
  <2> QED BY <2>1, <2>2
<1>5. ASSUME NEW t \in Locker, NEW no \in LockNos, MLockTmo(t, no) PROVE FastLockHandedOn'
  BY <1>5, FastUntouched DEF MLockTmo, LockTypeOK
<1>6. ASSUME NEW t \in Locker, BTS(t) PROVE FastLockHandedOn'
  BY <1>6, FastUntouched DEF BTS, Step, LockTypeOK
<1>7. ASSUME NEW t \in Locker, tk_wai_flg(t) PROVE FastLockHandedOn'
  BY <1>7, FastUntouched DEF tk_wai_flg, Step, LockTypeOK
<1>8. ASSUME NEW t \in Locker, Timeout(t) PROVE FastLockHandedOn'
  BY <1>8, FastUntouched DEF Timeout, Step, LockTypeOK
<1>9. ASSUME NEW t \in Locker, MLockTmo_Dec(t) PROVE FastLockHandedOn'
  BY <1>9, FastUntouched DEF MLockTmo_Dec, Step, Out, LockTypeOK
<1>10. ASSUME NEW t \in Locker, MUnlock(t) PROVE FastLockHandedOn'
  BY <1>10, FastUntouched DEF MUnlock, Step, LockTypeOK
<1>11. ASSUME NEW t \in Locker, MUnlock_Wake(t) PROVE FastLockHandedOn'
  BY <1>11, FastUntouched DEF MUnlock_Wake, Step, Out, LockTypeOK
<1>12. ASSUME NEW t \in Locker, tk_set_flg(t) PROVE FastLockHandedOn'
  <2>1. CASE With({"MSLEEP"}, doing[t].no) = {}
    BY <1>12, <2>1, FastUntouched DEF tk_set_flg, Out, LockTypeOK
  <2>2. CASE With({"MSLEEP"}, doing[t].no) # {}
    <3>1. PICK w \in With({"MSLEEP"}, doing[t].no) : doing' = [doing EXCEPT ![t] = Out, ![w].at = "BTS"]
      BY <1>12, <2>2 DEF tk_set_flg
    <3>2. \A u \in Locker : \A at \in {"IN", "SIGSEM", "WAISEM", "SLEEP"} :
            doing'[u].at = at <=> doing[u].at = at
      BY <1>12, <3>1 DEF tk_set_flg, With, CallersAt, Out, LockTypeOK
    <3> QED BY <1>12, <3>2, FastUntouched DEF tk_set_flg
  <2> QED BY <2>1, <2>2
<1>13. ASSUME NEW t \in Locker, tk_rel_wai(t) PROVE FastLockHandedOn'
  <2>1. /\ \A u \in Locker \ {t} : doing'[u] = doing[u]
        /\ doing[t].at = "SLEEP" /\ doing'[t].at = "IN"
    BY <1>13 DEF tk_rel_wai, Step, LockTypeOK
  <2> QED BY <1>13, <2>1, FastCounts DEF tk_rel_wai, FastLockHandedOn, Copies, LockTypeOK
<1>14. CASE UNCHANGED lockvars
  BY <1>14, FastUntouched DEF lockvars
<1> QED BY <1>1, <1>2, <1>3, <1>4, <1>5, <1>6, <1>7, <1>8, <1>9, <1>10, <1>11, <1>12, <1>13, <1>14
        DEF LockNext

(* INC comes before the wait and DEC after it, so every step in between    *)
(* keeps the count.                                                        *)
LEMMA WaiStep == LockInv /\ [LockNext]_lockvars => WaiCounts'
<1> SUFFICES ASSUME LockTypeOK, WaiCounts, [LockNext]_lockvars PROVE WaiCounts'
  BY DEF LockInv
<1>1. ASSUME wai' = wai,
             \A u \in Locker : doing'[u].at \in MWaiting <=> doing[u].at \in MWaiting
      PROVE  WaiCounts'
  <2>1. CallersAt(MWaiting)' = CallersAt(MWaiting)
    BY <1>1 DEF CallersAt
  <2> QED BY <1>1, <2>1 DEF WaiCounts
<1>2. ASSUME NEW t \in Locker, NEW no \in LockNos, MLockTmo(t, no) PROVE WaiCounts'
  <2>1. /\ \A u \in Locker \ {t} : doing'[u] = doing[u]
        /\ doing[t].at \notin MWaiting /\ doing'[t].at \in MWaiting
    BY <1>2 DEF MLockTmo, LockTypeOK, MWaiting
  <2>2. Cardinality(CallersAt(MWaiting)') = Cardinality(CallersAt(MWaiting)) + 1
    BY <2>1, CallersMove, CallersFinite
  <2> QED BY <1>2, <2>2 DEF MLockTmo, WaiCounts
<1>3. ASSUME NEW t \in Locker, MLockTmo_Dec(t) PROVE WaiCounts'
  <2>1. /\ \A u \in Locker \ {t} : doing'[u] = doing[u]
        /\ doing[t].at \in MWaiting /\ doing'[t].at \notin MWaiting
    BY <1>3 DEF MLockTmo_Dec, Step, Out, LockTypeOK, MWaiting
  <2>2. Cardinality(CallersAt(MWaiting)') = Cardinality(CallersAt(MWaiting)) - 1
    BY <2>1, CallersMove, CallersFinite
  <2> QED BY <1>3, <2>2 DEF MLockTmo_Dec, WaiCounts
<1> USE DEF LockTypeOK, MWaiting, Step, Out
<1>4. ASSUME NEW t \in Locker, Lock(t) \/ tk_wai_sem(t) \/ tk_rel_wai(t) \/ Unlock(t)
      PROVE  WaiCounts'
  BY <1>1, <1>4 DEF Lock, tk_wai_sem, tk_rel_wai, Unlock
<1>5. ASSUME NEW t \in Locker, tk_sig_sem(t) PROVE WaiCounts'
  <2>1. CASE CallersAt({"SLEEP"}) = {}
    BY <1>1, <1>5, <2>1 DEF tk_sig_sem
  <2>2. CASE CallersAt({"SLEEP"}) # {}
    BY <1>1, <1>5, <2>2 DEF tk_sig_sem, CallersAt
  <2> QED BY <2>1, <2>2
<1>6. ASSUME NEW t \in Locker, BTS(t) \/ tk_wai_flg(t) \/ Timeout(t) PROVE WaiCounts'
  BY <1>1, <1>6 DEF BTS, tk_wai_flg, Timeout
<1>7. ASSUME NEW t \in Locker, MUnlock(t) \/ MUnlock_Wake(t) PROVE WaiCounts'
  BY <1>1, <1>7 DEF MUnlock, MUnlock_Wake
<1>8. ASSUME NEW t \in Locker, tk_set_flg(t) PROVE WaiCounts'
  <2>1. CASE With({"MSLEEP"}, doing[t].no) = {}
    BY <1>1, <1>8, <2>1 DEF tk_set_flg
  <2>2. CASE With({"MSLEEP"}, doing[t].no) # {}
    BY <1>1, <1>8, <2>2 DEF tk_set_flg, With, CallersAt
  <2> QED BY <2>1, <2>2
<1>9. CASE UNCHANGED lockvars
  BY <1>1, <1>9 DEF lockvars
<1> QED BY <1>2, <1>3, <1>4, <1>5, <1>6, <1>7, <1>8, <1>9 DEF LockNext

(* A number changes hands together with its bit in flg. *)
LEMMA OwnedStep ==
  ASSUME LockTypeOK, NEW t \in Locker, \A u \in Locker \ {t} : doing'[u] = doing[u],
         NEW no, Owned(no),
         \/ /\ no \in flg' <=> no \in flg
            /\ doing[t].no # no \/ doing[t].at \notin {"LOCKED", "MIN"}
            /\ doing'[t].no # no \/ doing'[t].at \notin {"LOCKED", "MIN"}
         \/ /\ no \in flg' <=> no \in flg
            /\ doing[t].at \in {"LOCKED", "MIN"} /\ doing[t].no = no
            /\ doing'[t].at \in {"LOCKED", "MIN"} /\ doing'[t].no = no
         \/ /\ no \notin flg /\ no \in flg'
            /\ doing[t].at \notin {"LOCKED", "MIN"}
            /\ doing'[t].at \in {"LOCKED", "MIN"} /\ doing'[t].no = no
         \/ /\ no \in flg /\ no \notin flg'
            /\ doing[t].at \in {"LOCKED", "MIN"} /\ doing[t].no = no
            /\ doing'[t].at \notin {"LOCKED", "MIN"}
  PROVE  Owned(no)'
<1>1. Cardinality(With({"LOCKED", "MIN"}, no)') = Cardinality(With({"LOCKED", "MIN"}, no))
        + (IF doing'[t].at \in {"LOCKED", "MIN"} /\ doing'[t].no = no THEN 1 ELSE 0)
        - (IF doing[t].at \in {"LOCKED", "MIN"} /\ doing[t].no = no THEN 1 ELSE 0)
  BY OwnersMove
<1> QED BY <1>1, CallersFinite DEF Owned


LEMMA MultiUntouched ==
  ASSUME LockTypeOK, MultiLockHandedOn, UNCHANGED <<flg, flgptn>>,
         \A u \in Locker :
           doing'[u] = doing[u]
             \/ {doing[u].at, doing'[u].at} \subseteq {"OUT", "WAISEM", "SLEEP", "IN", "SIGSEM"}
  PROVE  MultiLockHandedOn'
<1> SUFFICES ASSUME NEW no \in LockNos PROVE Owned(no)' /\ NotStranded(no)'
  BY DEF MultiLockHandedOn
<1>1. With({"LOCKED", "MIN"}, no)' = With({"LOCKED", "MIN"}, no)
  BY DEF With, CallersAt
<1>2. Owned(no)'
  BY <1>1 DEF MultiLockHandedOn, Owned
<1>3. Awake(no)' <=> Awake(no)
  BY DEF Awake
<1>4. \A u \in Locker : Asleep(u, no)' <=> Asleep(u, no)
  BY DEF Asleep
<1> QED BY <1>2, <1>3, <1>4 DEF MultiLockHandedOn, NotStranded

LEMMA MultiLockStep == LockInv /\ [LockNext]_lockvars => MultiLockHandedOn'
<1> SUFFICES ASSUME LockTypeOK, MultiLockHandedOn, WaiCounts, [LockNext]_lockvars
             PROVE  MultiLockHandedOn'
  BY DEF LockInv
<1>1. ASSUME NEW t \in Locker, Lock(t) \/ tk_wai_sem(t) \/ tk_rel_wai(t) \/ Unlock(t)
      PROVE  MultiLockHandedOn'
  BY <1>1, MultiUntouched DEF Lock, tk_wai_sem, tk_rel_wai, Unlock, Step, LockTypeOK
<1>2. ASSUME NEW t \in Locker, tk_sig_sem(t) PROVE MultiLockHandedOn'
  <2>1. CASE CallersAt({"SLEEP"}) = {}
    BY <1>2, <2>1, MultiUntouched DEF tk_sig_sem, Out, LockTypeOK
  <2>2. CASE CallersAt({"SLEEP"}) # {}
    <3>1. PICK w \in CallersAt({"SLEEP"}) : doing' = [doing EXCEPT ![t] = Out, ![w].at = "IN"]
      BY <1>2, <2>2 DEF tk_sig_sem
    <3> QED BY <1>2, <3>1, MultiUntouched DEF tk_sig_sem, CallersAt, Out, LockTypeOK
  <2> QED BY <2>1, <2>2
<1> USE DEF LockTypeOK, MultiLockHandedOn, Step, Out
<1>3. ASSUME NEW t \in Locker, NEW n \in LockNos, MLockTmo(t, n),
             NEW no \in LockNos
      PROVE  Owned(no)' /\ NotStranded(no)'
  <2>1. Owned(no)'
    BY <1>3, OwnedStep DEF MLockTmo
  <2> QED BY <1>3, <2>1 DEF MLockTmo, NotStranded, Awake, Asleep
<1>4. ASSUME NEW t \in Locker, BTS(t), NEW no \in LockNos
      PROVE  Owned(no)' /\ NotStranded(no)'
  <2>1. Owned(no)'
    BY <1>4, OwnedStep DEF BTS
  <2> QED BY <1>4, <2>1 DEF BTS, NotStranded, Awake, Asleep
<1>5. ASSUME NEW t \in Locker, tk_wai_flg(t), NEW no \in LockNos
      PROVE  Owned(no)' /\ NotStranded(no)'
  <2>1. Owned(no)'
    BY <1>5, OwnedStep DEF tk_wai_flg
  <2> QED BY <1>5, <2>1 DEF tk_wai_flg, NotStranded, Awake, Asleep
<1>6. ASSUME NEW t \in Locker, Timeout(t), NEW no \in LockNos
      PROVE  Owned(no)' /\ NotStranded(no)'
  <2>1. Owned(no)'
    BY <1>6, OwnedStep DEF Timeout
  <2> QED BY <1>6, <2>1 DEF Timeout, NotStranded, Awake, Asleep
<1>7. ASSUME NEW t \in Locker, MLockTmo_Dec(t), NEW no \in LockNos
      PROVE  Owned(no)' /\ NotStranded(no)'
  <2>1. Owned(no)'
    BY <1>7, OwnedStep DEF MLockTmo_Dec
  <2> QED BY <1>7, <2>1 DEF MLockTmo_Dec, NotStranded, Awake, Asleep
<1>8. ASSUME NEW t \in Locker, MUnlock(t), NEW no \in LockNos
      PROVE  Owned(no)' /\ NotStranded(no)'
  <2>1. no \in flg \/ doing[t].no # no
    <3>1. CASE doing[t].no = no
      <4>1. t \in With({"LOCKED", "MIN"}, no)
        BY <1>8, <3>1 DEF MUnlock, With, CallersAt
      <4> QED BY <4>1, CallersFinite, FS_EmptySet DEF Owned
    <3> QED BY <3>1
  <2>2. Owned(no)'
    BY <1>8, <2>1, OwnedStep DEF MUnlock
  <2> QED BY <1>8, <2>2 DEF MUnlock, NotStranded, Awake, Asleep
<1>9. ASSUME NEW t \in Locker, MUnlock_Wake(t), NEW no \in LockNos
      PROVE  Owned(no)' /\ NotStranded(no)'
  <2>1. Owned(no)'
    BY <1>9, OwnedStep DEF MUnlock_Wake
  <2>2. NoneWaits => \A u \in Locker : ~Asleep(u, no)
    <3>1. NoneWaits => CallersAt(MWaiting) = {}
      BY CallersFinite, FS_EmptySet DEF NoneWaits, WaiCounts
    <3> QED BY <3>1 DEF CallersAt, MWaiting, Asleep
  <2> QED BY <1>9, <2>1, <2>2 DEF MUnlock_Wake, NotStranded, Awake, Asleep
<1>10. ASSUME NEW t \in Locker, tk_set_flg(t), NEW no \in LockNos
       PROVE  Owned(no)' /\ NotStranded(no)'
  <2>1. CASE With({"MSLEEP"}, doing[t].no) = {}
    <3>1. Owned(no)'
      BY <1>10, <2>1, OwnedStep DEF tk_set_flg
    <3>2. \A u \in Locker : ~(doing[u].at = "MSLEEP" /\ doing[u].no = doing[t].no)
      BY <2>1 DEF With, CallersAt
    <3> QED BY <1>10, <2>1, <3>1, <3>2 DEF tk_set_flg, NotStranded, Awake, Asleep
  <2>2. CASE With({"MSLEEP"}, doing[t].no) # {}
    <3>1. PICK w \in With({"MSLEEP"}, doing[t].no) : doing' = [doing EXCEPT ![t] = Out, ![w].at = "BTS"]
      BY <1>10, <2>2 DEF tk_set_flg
    <3>2. /\ w \in Locker /\ w # t /\ doing[w].at = "MSLEEP" /\ doing[w].no = doing[t].no
          /\ doing[t].at = "SETFLG" /\ doing'[t].at = "OUT"
          /\ doing'[w].at = "BTS" /\ doing'[w].no = doing[w].no
          /\ \A u \in Locker \ {t, w} : doing'[u] = doing[u]
          /\ UNCHANGED <<flg, flgptn>>
      BY <1>10, <3>1 DEF tk_set_flg, With, CallersAt
    <3>3. With({"LOCKED", "MIN"}, no)' = With({"LOCKED", "MIN"}, no)
      BY <3>2 DEF With, CallersAt
    <3>4. Owned(no)'
      BY <3>2, <3>3 DEF Owned
    <3> QED BY <3>2, <3>4 DEF NotStranded, Awake, Asleep
  <2> QED BY <2>1, <2>2
<1>11. CASE UNCHANGED lockvars
  BY <1>11, MultiUntouched DEF lockvars
<1> QED BY <1>1, <1>2, <1>3, <1>4, <1>5, <1>6, <1>7, <1>8, <1>9, <1>10, <1>11 DEF LockNext

(* The libraries' locks are handed on for every number of tasks: a fast    *)
(* lock counts its holders and its waiters exactly, it is never lost, and  *)
(* it is there once as long as no wait for it was released; a bit of a     *)
(* multi-lock has one owner, and no waiter is left without a wake-up on    *)
(* its way (fastlock.c, fastmlock.c).                                      *)
THEOREM UserLocks == LockSpec => []UserLocksHandedOn
<1>1. LockInv /\ [LockNext]_lockvars => LockInv'
  BY LockTypeStep, FastLockStep, WaiStep, MultiLockStep DEF LockInv
<1>2. LockInv => UserLocksHandedOn
  BY DEF LockInv, UserLocksHandedOn
<1> QED BY LockInitInv, <1>1, <1>2, PTL DEF LockSpec

-----------------------------------------------------------------------------
(* Spin locks *)

Ops == {"SPIN", "READ", "WRITE"}
Frame == [at : {"IDLE", "LDREX", "STREX", "HOLD", "ADD", "ADDEX"}, op : Ops,
          try : BOOLEAN, seen : Int, di : BOOLEAN]
Tags == [lock : {"SP", "RW"}, level : Levels]

SpinTypeOK ==
  /\ value \in [{"SP", "RW"} -> Int]
  /\ monitor \in [Cpu -> Tags \cup {NoLock}]
  /\ level \in [Cpu -> Levels]
  /\ running \in [Cpu -> [Levels -> Frame]]
  /\ \A p \in Cpu, l \in Levels :
       /\ running[p][l].at \in {"ADD", "ADDEX"} => running[p][l].op = "READ"
       /\ l > level[p] => running[p][l].at = "IDLE"

(* A monitor that is set says that nobody has stored since the load of the *)
(* level that it names.                                                    *)
Fresh(p, l) ==
  LET r == running[p][l] IN
  /\ r.at = "STREX" /\ Tagged(p, LockOf(r.op)) /\ monitor[p].level = l =>
       r.seen = value[LockOf(r.op)] /\ ~Busy(r.op, r.seen)
  /\ r.at = "ADDEX" /\ Tagged(p, "RW") /\ monitor[p].level = l => r.seen = value["RW"]

(* What runs over that level has loaded nothing since, so it holds nothing *)
(* and does not store; and a task's monitor is its own.                    *)
OverLoad(p, l) ==
  monitor[p] # NoLock /\ monitor[p].level < l => running[p][l].at \in {"IDLE", "LDREX"}

SeenIsValue == \A p \in Cpu :
  /\ \A l \in Levels : Fresh(p, l) /\ OverLoad(p, l)
  /\ level[p] = 1 /\ monitor[p] # NoLock => monitor[p].level = 1

SpinInv == SpinTypeOK /\ SeenIsValue /\ SpinLocksExclusive

LEMMA HoldersFinite ==
  /\ \A op : IsFiniteSet(HoldersOf(op)) /\ Cardinality(HoldersOf(op)) \in Nat
  /\ \A op : HoldersOf(op) = {} <=> Cardinality(HoldersOf(op)) = 0
  /\ \A op : HoldersOf(op)' = {} <=> Cardinality(HoldersOf(op)') = 0
<1>1. IsFiniteSet(Cpu \X Levels)
  <2>1. IsFiniteSet(Levels)
    BY SpinAssumption, FS_Interval DEF Levels
  <2> QED BY <2>1, SpinAssumption, FS_Product
<1>2. \A S \in SUBSET (Cpu \X Levels) : IsFiniteSet(S) /\ Cardinality(S) \in Nat
  BY <1>1, FS_Subset, FS_CardinalityType
<1>3. \A op : HoldersOf(op) \in SUBSET (Cpu \X Levels) /\ HoldersOf(op)' \in SUBSET (Cpu \X Levels)
  BY DEF HoldersOf
<1> QED BY <1>2, <1>3, FS_EmptySet

(* One processor takes a step on its level. *)
LEMMA HoldersMove ==
  ASSUME SpinTypeOK, NEW p \in Cpu, NEW r,
         running' = [running EXCEPT ![p][level[p]] = r], NEW op
  PROVE  Cardinality(HoldersOf(op)') = Cardinality(HoldersOf(op))
           + (IF Holds(r, op) THEN 1 ELSE 0) - (IF Holds(Innermost(p), op) THEN 1 ELSE 0)
<1> DEFINE f == <<p, level[p]>>
<1>1. HoldersOf(op)' \ {f} = HoldersOf(op) \ {f}
  BY DEF SpinTypeOK, HoldersOf
<1>2. f \in HoldersOf(op) <=> Holds(Innermost(p), op)
  BY DEF SpinTypeOK, HoldersOf, Innermost
<1>3. f \in HoldersOf(op)' <=> Holds(r, op)
  BY DEF SpinTypeOK, HoldersOf
<1> QED BY <1>1, <1>2, <1>3, HoldersFinite, OneMoves

LEMMA SpinInitInv == SpinInit => SpinInv
<1> SUFFICES ASSUME SpinInit PROVE SpinInv
  OBVIOUS
<1>1. SpinTypeOK
  BY SpinAssumption DEF SpinInit, SpinTypeOK, Started, Frame, Ops, Levels
<1>2. SeenIsValue
  <2>1. \A p \in Cpu : monitor[p] = NoLock
    BY DEF SpinInit
  <2> QED BY <2>1 DEF SeenIsValue, Fresh, OverLoad, Tagged
<1>3. \A op : HoldersOf(op) = {}
  <2>1. \A p \in Cpu, l \in Levels : running[p][l].at = "IDLE"
    BY DEF SpinInit, Started
  <2> QED BY <2>1 DEF HoldersOf, Holds
<1>4. SpinLocksExclusive
  <2>1. \A op : Cardinality(HoldersOf(op)) = 0
    BY <1>3, FS_EmptySet
  <2>2. value["SP"] = 0 /\ value["RW"] = 0
    BY DEF SpinInit
  <2> QED BY <1>3, <2>1, <2>2 DEF SpinLocksExclusive
<1> QED BY <1>1, <1>2, <1>4 DEF SpinInv


(* What Now does, and what keeps the types. *)
LEMMA NowFacts ==
  ASSUME SpinTypeOK, NEW p \in Cpu, NEW r \in Frame, Now(p, r)
  PROVE  /\ running' \in [Cpu -> [Levels -> Frame]] /\ level' = level
         /\ \A q \in Cpu, l \in Levels :
              running'[q][l] = IF q = p /\ l = level[p] THEN r ELSE running[q][l]
  BY DEF SpinTypeOK, Now

LEMMA NowTypes ==
  ASSUME SpinTypeOK, NEW p \in Cpu, NEW r \in Frame, Now(p, r),
         r.at \in {"ADD", "ADDEX"} => r.op = "READ",
         value' \in [{"SP", "RW"} -> Int], monitor' \in [Cpu -> Tags \cup {NoLock}]
  PROVE  SpinTypeOK'
<1>1. /\ running' \in [Cpu -> [Levels -> Frame]] /\ level' = level
      /\ \A q \in Cpu, l \in Levels :
           running'[q][l] = IF q = p /\ l = level[p] THEN r ELSE running[q][l]
  BY NowFacts
<1>2. \A q \in Cpu, l \in Levels : running'[q][l].at \in {"ADD", "ADDEX"} => running'[q][l].op = "READ"
  <2> SUFFICES ASSUME NEW q \in Cpu, NEW l \in Levels
               PROVE  running'[q][l].at \in {"ADD", "ADDEX"} => running'[q][l].op = "READ"
    OBVIOUS
  <2>1. CASE q = p /\ l = level[p]
    <3>1. running'[q][l] = r
      BY <1>1, <2>1
    <3> QED BY <3>1
  <2>2. CASE ~(q = p /\ l = level[p])
    <3>1. running'[q][l] = running[q][l]
      BY <1>1, <2>2
    <3>2. running[q][l].at \in {"ADD", "ADDEX"} => running[q][l].op = "READ"
      BY DEF SpinTypeOK
    <3> QED BY <3>1, <3>2
  <2> QED BY <2>1, <2>2
<1>3. \A q \in Cpu, l \in Levels : l > level'[q] => running'[q][l].at = "IDLE"
  BY <1>1 DEF SpinTypeOK, Levels
<1> QED BY <1>1, <1>2, <1>3 DEF SpinTypeOK

LEMMA FrameFields ==
  ASSUME SpinTypeOK, NEW p \in Cpu
  PROVE  /\ Innermost(p) \in Frame
         /\ Innermost(p).at \in {"ADD", "ADDEX"} => Innermost(p).op = "READ"
         /\ Started \in Frame
         /\ LockOf(Innermost(p).op) \in {"SP", "RW"}
  BY DEF SpinTypeOK, Innermost, Started, Frame, Ops, LockOf

(* Loads and stores keep the types, and what a store does to each monitor. *)
LEMMA LoadTypes ==
  ASSUME SpinTypeOK, NEW p \in Cpu, NEW lock \in {"SP", "RW"}, Loads(p, lock)
  PROVE  /\ monitor' \in [Cpu -> Tags \cup {NoLock}]
         /\ monitor'[p] = [lock |-> lock, level |-> level[p]]
         /\ \A c \in Cpu \ {p} : monitor'[c] = monitor[c]
<1>1. [lock |-> lock, level |-> level[p]] \in Tags
  BY DEF Tags, SpinTypeOK
<1> QED BY <1>1 DEF Loads, SpinTypeOK

LEMMA ClearedTypes ==
  ASSUME SpinTypeOK, NEW lock, NEW own
  PROVE  Cleared(lock, own) \in [Cpu -> Tags \cup {NoLock}]
  BY DEF Cleared, SpinTypeOK

LEMMA StoreTypes ==
  ASSUME SpinTypeOK, NEW p \in Cpu, NEW lock \in {"SP", "RW"}, NEW v \in Int, Stores(p, lock, v)
  PROVE  value' \in [{"SP", "RW"} -> Int] /\ monitor' \in [Cpu -> Tags \cup {NoLock}]
  BY ClearedTypes DEF Stores, SpinTypeOK

LEMMA StrexFrames ==
  ASSUME SpinTypeOK, NEW p \in Cpu, Strex(p)
  PROVE  LET q == Innermost(p)
             lock == LockOf(q.op)
         IN  \E r \in Frame :
               /\ Now(p, r) /\ q.at = "STREX"
               /\ \/ /\ r.at = "HOLD" /\ r.op = q.op
                     /\ Tagged(p, lock) /\ Stores(p, lock, New(q.op, q.seen))
                  \/ r.at \in {"LDREX", "IDLE"} /\ NoStore
<1> DEFINE q == Innermost(p)
           lock == LockOf(q.op)
           r == [q EXCEPT !.at = "HOLD", !.try = FALSE, !.seen = 0]
           s == [q EXCEPT !.at = "LDREX", !.seen = 0]
           r0(n) == [q EXCEPT !.at = "HOLD", !.try = FALSE, !.seen = n]
           s0(n) == [q EXCEPT !.at = "LDREX", !.seen = n]
<1>1. PICK n \in Int : n = 0
  OBVIOUS
<1>2. /\ r0(n) \in Frame /\ r0(n).at = "HOLD" /\ r0(n).op = q.op
      /\ s0(n) \in Frame /\ s0(n).at = "LDREX"
  BY FrameFields DEF Frame
<1>3. r = r0(n) /\ s = s0(n)
  BY <1>1, Zenon
<1>4. /\ q.at = "STREX"
      /\ \/ Now(p, r) /\ Tagged(p, lock) /\ Stores(p, lock, New(q.op, q.seen))
         \/ (Now(p, Started) \/ Now(p, s)) /\ NoStore
  BY DEF Strex
<1> HIDE DEF r, s, r0, s0, q
<1> QED BY <1>2, <1>3, <1>4, FrameFields DEF Started, q

LEMMA ReadUnlockFrames ==
  ASSUME SpinTypeOK, NEW p \in Cpu, IReadUnlock(p)
  PROVE  LET q == Innermost(p)
         IN  \E r \in Frame :
               /\ Now(p, r) /\ q.op = "READ" /\ q.at \in {"ADD", "ADDEX"}
               /\ \/ /\ r.at = "ADDEX" /\ r.op = "READ" /\ r.seen = value["RW"]
                     /\ Loads(p, "RW") /\ UNCHANGED value
                  \/ /\ r.at = "IDLE" /\ q.at = "ADDEX" /\ Tagged(p, "RW")
                     /\ Stores(p, "RW", q.seen + 1)
                  \/ r.at = "ADD" /\ r.op = "READ" /\ NoStore
<1> DEFINE q == Innermost(p)
           r == [q EXCEPT !.at = "ADDEX", !.seen = value["RW"]]
           s == [q EXCEPT !.at = "ADD", !.seen = 0]
           s0(n) == [q EXCEPT !.at = "ADD", !.seen = n]
<1>1. PICK n \in Int : n = 0
  OBVIOUS
<1>2. r \in Frame /\ r.at = "ADDEX" /\ r.op = q.op /\ r.seen = value["RW"]
  BY FrameFields DEF Frame, SpinTypeOK
<1>3. s0(n) \in Frame /\ s0(n).at = "ADD" /\ s0(n).op = q.op
  BY FrameFields DEF Frame
<1>4. s = s0(n)
  BY <1>1, Zenon
<1>5. q.at \in {"ADD", "ADDEX"}
  BY DEF IReadUnlock
<1>6. \/ Now(p, r) /\ Loads(p, "RW") /\ UNCHANGED value
      \/ Now(p, Started) /\ q.at = "ADDEX" /\ Tagged(p, "RW") /\ Stores(p, "RW", q.seen + 1)
      \/ Now(p, s) /\ NoStore
  BY DEF IReadUnlock
<1> HIDE DEF r, s, s0, q
<1> QED BY <1>2, <1>3, <1>4, <1>5, <1>6, FrameFields DEF Started, q

LEMMA SpinTypeStep == SpinTypeOK /\ [SpinNext]_spinvars => SpinTypeOK'
<1> SUFFICES ASSUME SpinTypeOK, [SpinNext]_spinvars PROVE SpinTypeOK'
  OBVIOUS
<1>1. ASSUME NEW p \in Cpu, NEW op \in Ops, NEW try \in BOOLEAN, NEW di \in BOOLEAN,
             Acquire(p, op, try, di)
      PROVE  SpinTypeOK'
  <2> DEFINE r == [Innermost(p) EXCEPT !.at = "LDREX", !.op = op, !.try = try, !.di = di]
  <2>1. r \in Frame /\ r.at = "LDREX"
    BY FrameFields DEF Frame
  <2>2. Now(p, r) /\ UNCHANGED <<value, monitor>>
    BY <1>1 DEF Acquire, NoStore
  <2> HIDE DEF r
  <2> QED BY <2>1, <2>2, NowTypes DEF SpinTypeOK
<1>2. ASSUME NEW p \in Cpu, Ldrex(p) PROVE SpinTypeOK'
  <2> DEFINE lock == LockOf(Innermost(p).op)
             r == [Innermost(p) EXCEPT !.at = "STREX", !.seen = value[lock]]
  <2>1. lock \in {"SP", "RW"} /\ r \in Frame /\ r.at = "STREX"
    BY FrameFields DEF Frame, SpinTypeOK
  <2>2. monitor' \in [Cpu -> Tags \cup {NoLock}] /\ value' \in [{"SP", "RW"} -> Int]
    BY <1>2, <2>1, LoadTypes DEF Ldrex, SpinTypeOK
  <2>3. Now(p, r) \/ Now(p, Started) \/ UNCHANGED <<level, running>>
    BY <1>2 DEF Ldrex
  <2>4. CASE UNCHANGED <<level, running>>
    BY <2>2, <2>4 DEF SpinTypeOK
  <2> HIDE DEF r
  <2> QED BY <2>1, <2>2, <2>3, <2>4, FrameFields, NowTypes DEF Started
<1>3. ASSUME NEW p \in Cpu, Strex(p) PROVE SpinTypeOK'
  <2> DEFINE q == Innermost(p)
             lock == LockOf(q.op)
  <2>1. PICK r \in Frame : /\ Now(p, r) /\ r.at \in {"HOLD", "LDREX", "IDLE"}
                           /\ \/ Stores(p, lock, New(q.op, q.seen))
                              \/ UNCHANGED <<value, monitor>>
    BY <1>3, StrexFrames DEF NoStore
  <2>2. lock \in {"SP", "RW"} /\ New(q.op, q.seen) \in Int
    BY FrameFields DEF Frame, New
  <2>3. monitor' \in [Cpu -> Tags \cup {NoLock}] /\ value' \in [{"SP", "RW"} -> Int]
    BY <2>1, <2>2, StoreTypes DEF SpinTypeOK
  <2> QED BY <2>1, <2>3, NowTypes
<1>4. ASSUME NEW p \in Cpu, ISpinUnlock(p) PROVE SpinTypeOK'
  <2> DEFINE q == Innermost(p)
             r == [q EXCEPT !.at = "ADD"]
             lock == LockOf(q.op)
  <2>1. r \in Frame /\ r.at = "ADD" /\ r.op = q.op /\ lock \in {"SP", "RW"}
    BY FrameFields DEF Frame
  <2>2. \/ q.op = "READ" /\ Now(p, r) /\ UNCHANGED <<value, monitor>>
        \/ /\ Now(p, Started) /\ value' = [value EXCEPT ![lock] = 0]
           /\ monitor' = [Cleared(lock, {}) EXCEPT ![p] = monitor[p]]
    BY <1>4 DEF ISpinUnlock, NoStore
  <2>3. monitor' \in [Cpu -> Tags \cup {NoLock}] /\ value' \in [{"SP", "RW"} -> Int]
    BY <2>1, <2>2, ClearedTypes DEF SpinTypeOK
  <2> HIDE DEF r, q
  <2> QED BY <2>1, <2>2, <2>3, FrameFields, NowTypes DEF Started
<1>5. ASSUME NEW p \in Cpu, IReadUnlock(p) PROVE SpinTypeOK'
  <2> DEFINE q == Innermost(p)
  <2>1. PICK r \in Frame :
          /\ Now(p, r) /\ r.at \in {"ADD", "ADDEX", "IDLE"}
          /\ r.at \in {"ADD", "ADDEX"} => r.op = "READ"
          /\ \/ Loads(p, "RW") /\ UNCHANGED value
             \/ Stores(p, "RW", q.seen + 1)
             \/ UNCHANGED <<value, monitor>>
    BY <1>5, ReadUnlockFrames DEF NoStore
  <2>2. q.seen + 1 \in Int
    BY FrameFields DEF Frame
  <2>3. monitor' \in [Cpu -> Tags \cup {NoLock}] /\ value' \in [{"SP", "RW"} -> Int]
    BY <2>1, <2>2, LoadTypes, StoreTypes DEF SpinTypeOK
  <2> QED BY <2>1, <2>3, NowTypes
<1>6. ASSUME NEW p \in Cpu, Interrupt(p) PROVE SpinTypeOK'
  <2>1. level' = [level EXCEPT ![p] = @ + 1] /\ level[p] < Depth /\ UNCHANGED <<value, monitor, running>>
    BY <1>6 DEF Interrupt, NoStore
  <2> QED BY <2>1, SpinAssumption DEF SpinTypeOK, Levels
<1>7. ASSUME NEW p \in Cpu, Return(p) PROVE SpinTypeOK'
  <2>1. /\ level' = [level EXCEPT ![p] = @ - 1] /\ level[p] > 1 /\ running[p][level[p]].at = "IDLE"
        /\ monitor' \in [Cpu -> Tags \cup {NoLock}] /\ UNCHANGED <<value, running>>
    BY <1>7 DEF Return, chk_dsp, SpinTypeOK, Innermost
  <2> QED BY <2>1, SpinAssumption DEF SpinTypeOK, Levels
<1>8. CASE UNCHANGED spinvars
  BY <1>8 DEF spinvars, SpinTypeOK
<1> QED BY <1>1, <1>2, <1>3, <1>4, <1>5, <1>6, <1>7, <1>8
        DEF SpinNext, ISpinLock, IReadLock, IWriteLock, Ops


(* The monitor of c is clear, or it is what it was, with the same value.   *)
Undisturbed(c) ==
  \/ monitor'[c] = NoLock
  \/ monitor'[c] = monitor[c] /\ \A lock \in {"SP", "RW"} : Tagged(c, lock) => value'[lock] = value[lock]

LEMMA StoreClears ==
  ASSUME SpinTypeOK, NEW lock \in {"SP", "RW"}, NEW v,
         value' = [value EXCEPT ![lock] = v], NEW c \in Cpu,
         monitor'[c] = IF Tagged(c, lock) THEN NoLock ELSE monitor[c]
  PROVE  Undisturbed(c)
<1>1. CASE Tagged(c, lock)
  BY <1>1 DEF Undisturbed
<1>2. CASE ~Tagged(c, lock)
  BY <1>2 DEF SpinTypeOK, Undisturbed, Tagged
<1> QED BY <1>1, <1>2

LEMMA StoresOthers ==
  ASSUME SpinTypeOK, NEW p \in Cpu, NEW lock \in {"SP", "RW"}, NEW v, Stores(p, lock, v)
  PROVE  monitor'[p] = NoLock /\ \A c \in Cpu \ {p} : Undisturbed(c)
<1>1. monitor'[p] = NoLock
  BY DEF Stores, Cleared
<1>2. ASSUME NEW c \in Cpu \ {p} PROVE Undisturbed(c)
  <2>1. value' = [value EXCEPT ![lock] = v]
    BY DEF Stores
  <2>2. monitor'[c] = IF Tagged(c, lock) THEN NoLock ELSE monitor[c]
    BY DEF Stores, Cleared
  <2> QED BY <2>1, <2>2, StoreClears
<1> QED BY <1>1, <1>2

(* What SeenIsValue says of one processor.                                 *)
Seen(c) ==
  /\ \A l \in Levels : Fresh(c, l) /\ OverLoad(c, l)
  /\ level[c] = 1 /\ monitor[c] # NoLock => monitor[c].level = 1

LEMMA SeenUndisturbed ==
  ASSUME SpinTypeOK, NEW c \in Cpu, Seen(c), Undisturbed(c), level'[c] = level[c],
         \A l \in Levels : running'[c][l] = running[c][l]
  PROVE  Seen(c)'
<1>1. CASE monitor'[c] = NoLock
  BY <1>1 DEF Seen, Fresh, OverLoad, Tagged
<1>2. CASE /\ monitor'[c] = monitor[c]
           /\ \A lock \in {"SP", "RW"} : Tagged(c, lock) => value'[lock] = value[lock]
  <2>1. \A l \in Levels : Fresh(c, l)'
    <3> TAKE l \in Levels
    <3>1. LockOf(running[c][l].op) \in {"SP", "RW"} /\ (\A lock : Tagged(c, lock)' <=> Tagged(c, lock))
      BY <1>2 DEF LockOf, Tagged
    <3> QED BY <1>2, <3>1 DEF Seen, Fresh
  <2> QED BY <1>2, <2>1 DEF Seen, OverLoad
<1> QED BY <1>1, <1>2 DEF Undisturbed

(* A step of p leaves the monitors of the others clear or what they were,  *)
(* with the same value; its own it leaves alone while it has loaded        *)
(* nothing, or after it has acquired, or it clears or sets it.             *)
LEMMA SeenByNow ==
  ASSUME SpinTypeOK, SeenIsValue, NEW p \in Cpu, NEW r \in Frame, Now(p, r),
         \A c \in Cpu \ {p} : Undisturbed(c),
         \/ monitor'[p] = NoLock
         \/ UNCHANGED <<value, monitor>> /\ r.at \in {"IDLE", "LDREX"}
         \/ /\ monitor'[p] = monitor[p]
            /\ Innermost(p).at \notin {"IDLE", "LDREX"} /\ r.at \notin {"STREX", "ADDEX"}
         \/ /\ monitor'[p].level = level[p]
            /\ r.at = "STREX" => r.seen = value'[LockOf(r.op)] /\ ~Busy(r.op, r.seen)
            /\ r.at = "ADDEX" => r.seen = value'["RW"]
  PROVE  SeenIsValue'
<1>1. /\ level' = level
      /\ \A q \in Cpu, l \in Levels :
           running'[q][l] = IF q = p /\ l = level[p] THEN r ELSE running[q][l]
  BY NowFacts
<1>2. \A c \in Cpu \ {p} : Seen(c)'
  <2> TAKE c \in Cpu \ {p}
  <2>1. Seen(c) /\ Undisturbed(c)
    BY DEF SeenIsValue, Seen
  <2>2. level'[c] = level[c] /\ \A l \in Levels : running'[c][l] = running[c][l]
    BY <1>1
  <2> QED BY <2>1, <2>2, SeenUndisturbed
<1>3. /\ level[p] \in Levels /\ \A l \in Levels : l > level[p] => running'[p][l].at = "IDLE"
      /\ running'[p][level[p]] = r
      /\ Innermost(p) = running[p][level[p]]
  BY <1>1 DEF SpinTypeOK, Levels, Innermost
<1>4. Seen(p)'
  <2>1. CASE monitor'[p] = NoLock
    BY <2>1 DEF Seen, Fresh, OverLoad, Tagged
  <2>2. CASE UNCHANGED <<value, monitor>> /\ r.at \in {"IDLE", "LDREX"}
    <3>1. \A l \in Levels : Fresh(p, l)' /\ OverLoad(p, l)'
      BY <1>1, <1>3, <2>2 DEF SeenIsValue, Fresh, OverLoad, Tagged
    <3> QED BY <1>1, <2>2, <3>1 DEF SeenIsValue, Seen
  <2>3. CASE /\ monitor'[p] = monitor[p]
             /\ Innermost(p).at \notin {"IDLE", "LDREX"} /\ r.at \notin {"STREX", "ADDEX"}
    <3>1. monitor[p] # NoLock => monitor[p].level >= level[p] /\ monitor[p].level \in Levels
      BY <1>3, <2>3 DEF SeenIsValue, OverLoad, SpinTypeOK, Tags, Levels
    <3>2. \A l \in Levels : Fresh(p, l)' /\ OverLoad(p, l)'
      <4> TAKE l \in Levels
      <4>1. CASE l < level[p]
        BY <2>3, <3>1, <1>3, <4>1 DEF Fresh, OverLoad, Tagged, Levels
      <4>2. CASE l = level[p]
        BY <2>3, <3>1, <1>3, <4>2 DEF Fresh, OverLoad, Levels
      <4>3. CASE l > level[p]
        BY <1>3, <4>3 DEF Fresh, OverLoad
      <4> QED BY <1>3, <4>1, <4>2, <4>3 DEF Levels
    <3> QED BY <1>1, <2>3, <3>2 DEF SeenIsValue, Seen
  <2>4. CASE /\ monitor'[p].level = level[p]
             /\ r.at = "STREX" => r.seen = value'[LockOf(r.op)] /\ ~Busy(r.op, r.seen)
             /\ r.at = "ADDEX" => r.seen = value'["RW"]
    <3>1. \A l \in Levels : Fresh(p, l)' /\ OverLoad(p, l)'
      BY <1>3, <2>4 DEF Fresh, OverLoad, Levels
    <3> QED BY <1>1, <2>4, <3>1 DEF Seen
  <2> QED BY <2>1, <2>2, <2>3, <2>4
<1> QED BY <1>2, <1>4 DEF SeenIsValue, Seen

LEMMA SeenStep == SpinInv /\ [SpinNext]_spinvars => SeenIsValue'
<1> SUFFICES ASSUME SpinTypeOK, SeenIsValue, [SpinNext]_spinvars PROVE SeenIsValue'
  BY DEF SpinInv
<1>1. ASSUME NEW p \in Cpu, NEW op \in Ops, NEW try \in BOOLEAN, NEW di \in BOOLEAN,
             Acquire(p, op, try, di)
      PROVE  SeenIsValue'
  <2> DEFINE r == [Innermost(p) EXCEPT !.at = "LDREX", !.op = op, !.try = try, !.di = di]
  <2>1. r \in Frame /\ r.at = "LDREX"
    BY FrameFields DEF Frame
  <2>2. Now(p, r) /\ UNCHANGED <<value, monitor>>
    BY <1>1 DEF Acquire, NoStore
  <2>3. \A c \in Cpu : Undisturbed(c)
    BY <2>2 DEF Undisturbed
  <2> HIDE DEF r
  <2> QED BY <2>1, <2>2, <2>3, SeenByNow
<1>2. ASSUME NEW p \in Cpu, Ldrex(p) PROVE SeenIsValue'
  <2> DEFINE q == Innermost(p)
             lock == LockOf(q.op)
             r == [q EXCEPT !.at = "STREX", !.seen = value[lock]]
  <2>1. /\ lock \in {"SP", "RW"} /\ r \in Frame /\ r.at = "STREX" /\ r.op = q.op
        /\ r.seen = value[lock]
    BY FrameFields DEF Frame, SpinTypeOK
  <2>2. /\ Loads(p, lock) /\ UNCHANGED value
        /\ \/ Now(p, r) /\ ~Busy(q.op, value[lock])
           \/ Now(p, Started)
           \/ UNCHANGED <<level, running>> /\ q.at = "LDREX"
    BY <1>2 DEF Ldrex
  <2>3. /\ monitor'[p].level = level[p]
        /\ \A c \in Cpu \ {p} : Undisturbed(c)
    <3>1. /\ monitor'[p] = [lock |-> lock, level |-> level[p]]
          /\ \A c \in Cpu \ {p} : monitor'[c] = monitor[c]
      BY <2>1, <2>2, LoadTypes
    <3> QED BY <2>2, <3>1 DEF Undisturbed
  <2>4. CASE Now(p, r) /\ ~Busy(q.op, value[lock])
    <3>1. r.seen = value'[LockOf(r.op)] /\ ~Busy(r.op, r.seen)
      BY <2>1, <2>2, <2>4
    <3> HIDE DEF r, q
    <3> QED BY <2>1, <2>3, <2>4, <3>1, SeenByNow
  <2>5. CASE Now(p, Started)
    BY <2>2, <2>3, <2>5, FrameFields, SeenByNow DEF Started
  <2>6. CASE UNCHANGED <<level, running>> /\ q.at = "LDREX"
    <3>1. q \in Frame /\ Now(p, q)
      BY <2>6, FrameFields DEF SpinTypeOK, Innermost, Now
    <3> HIDE DEF q, lock, r
    <3> QED BY <2>3, <2>6, <3>1, SeenByNow
  <2> QED BY <2>2, <2>4, <2>5, <2>6
<1>3. ASSUME NEW p \in Cpu, Strex(p) PROVE SeenIsValue'
  <2> DEFINE q == Innermost(p)
             lock == LockOf(q.op)
  <2>1. PICK r \in Frame : /\ Now(p, r)
                           /\ \/ Stores(p, lock, New(q.op, q.seen))
                              \/ UNCHANGED <<value, monitor>> /\ r.at \in {"LDREX", "IDLE"}
    BY <1>3, StrexFrames DEF NoStore
  <2>2. \A c \in Cpu \ {p} : Undisturbed(c)
    BY <2>1, FrameFields, StoresOthers DEF Undisturbed
  <2>3. monitor'[p] = NoLock \/ (UNCHANGED <<value, monitor>> /\ r.at \in {"IDLE", "LDREX"})
    BY <2>1, FrameFields, StoresOthers
  <2> HIDE DEF q, lock
  <2> QED BY <2>1, <2>2, <2>3, SeenByNow
<1>4. ASSUME NEW p \in Cpu, ISpinUnlock(p) PROVE SeenIsValue'
  <2> DEFINE q == Innermost(p)
             lock == LockOf(q.op)
             r == [q EXCEPT !.at = "ADD"]
  <2>1. r \in Frame /\ r.at = "ADD" /\ lock \in {"SP", "RW"}
    BY FrameFields DEF Frame
  <2>2. /\ q.at = "HOLD"
        /\ \/ Now(p, r) /\ UNCHANGED <<value, monitor>>
           \/ /\ Now(p, Started) /\ value' = [value EXCEPT ![lock] = 0]
              /\ monitor' = [Cleared(lock, {}) EXCEPT ![p] = monitor[p]]
    BY <1>4 DEF ISpinUnlock, NoStore
  <2>3. ASSUME NEW c \in Cpu \ {p} PROVE Undisturbed(c)
    <3>1. CASE UNCHANGED <<value, monitor>>
      BY <3>1 DEF Undisturbed
    <3>2. CASE ~UNCHANGED <<value, monitor>>
      <4>1. value' = [value EXCEPT ![lock] = 0]
        BY <2>2, <3>2
      <4>2. monitor'[c] = IF Tagged(c, lock) THEN NoLock ELSE monitor[c]
        BY <2>2, <3>2 DEF Cleared
      <4> QED BY <2>1, <4>1, <4>2, StoreClears
    <3> QED BY <3>1, <3>2
  <2>4. monitor'[p] = monitor[p]
    <3>1. Cleared(lock, {}) \in [Cpu -> Tags \cup {NoLock}]
      BY ClearedTypes
    <3> QED BY <2>2, <3>1
  <2>5. Started \in Frame /\ Started.at = "IDLE"
    BY FrameFields DEF Started
  <2> HIDE DEF r, q
  <2> QED BY <2>1, <2>2, <2>3, <2>4, <2>5, SeenByNow DEF q
<1>5. ASSUME NEW p \in Cpu, IReadUnlock(p) PROVE SeenIsValue'
  <2> DEFINE q == Innermost(p)
  <2>1. PICK r \in Frame :
          /\ Now(p, r) /\ q.at \in {"ADD", "ADDEX"}
          /\ \/ /\ r.at = "ADDEX" /\ r.seen = value["RW"] /\ UNCHANGED value
                /\ Loads(p, "RW")
             \/ r.at = "IDLE" /\ Stores(p, "RW", q.seen + 1)
             \/ r.at = "ADD" /\ UNCHANGED <<value, monitor>>
    BY <1>5, ReadUnlockFrames DEF NoStore
  <2>2. CASE /\ r.at = "ADDEX" /\ r.seen = value["RW"] /\ UNCHANGED value
             /\ Loads(p, "RW")
    <3>1. /\ monitor'[p] = [lock |-> "RW", level |-> level[p]]
          /\ \A c \in Cpu \ {p} : monitor'[c] = monitor[c]
      BY <2>2, LoadTypes
    <3>2. monitor'[p].level = level[p] /\ \A c \in Cpu \ {p} : Undisturbed(c)
      BY <2>2, <3>1 DEF Undisturbed
    <3> QED BY <2>1, <2>2, <3>2, SeenByNow
  <2>3. CASE Stores(p, "RW", q.seen + 1)
    BY <2>1, <2>3, StoresOthers, SeenByNow
  <2>4. CASE r.at = "ADD" /\ UNCHANGED <<value, monitor>>
    <3>1. \A c \in Cpu \ {p} : Undisturbed(c)
      BY <2>4 DEF Undisturbed
    <3> QED BY <2>1, <2>4, <3>1, SeenByNow
  <2> QED BY <2>1, <2>2, <2>3, <2>4
<1>6. ASSUME NEW p \in Cpu, Interrupt(p) PROVE SeenIsValue'
  <2>1. /\ level' = [level EXCEPT ![p] = @ + 1] /\ UNCHANGED <<value, monitor, running>>
        /\ level[p] + 1 # 1
    BY <1>6 DEF Interrupt, NoStore, SpinTypeOK, Levels
  <2> QED BY <2>1 DEF SeenIsValue, Fresh, OverLoad, Tagged, SpinTypeOK
<1>7. ASSUME NEW p \in Cpu, Return(p) PROVE SeenIsValue'
  <2>1. /\ UNCHANGED <<value, running>> /\ level' = [level EXCEPT ![p] = @ - 1] /\ level[p] > 1
        /\ monitor'[p] = NoLock \/ (level[p] - 1 # 1 /\ monitor'[p] = monitor[p])
        /\ \A c \in Cpu \ {p} : monitor'[c] = monitor[c] /\ level'[c] = level[c]
    BY <1>7 DEF Return, chk_dsp, isTaskIndependent, SpinTypeOK, Levels
  <2>2. \A c \in Cpu : \A l \in Levels : Fresh(c, l)' /\ OverLoad(c, l)'
    BY <2>1 DEF SeenIsValue, Fresh, OverLoad, Tagged
  <2>3. \A c \in Cpu : level'[c] = 1 /\ monitor'[c] # NoLock => monitor'[c].level = 1
    BY <2>1 DEF SeenIsValue, SpinTypeOK
  <2> QED BY <2>2, <2>3 DEF SeenIsValue
<1>8. CASE UNCHANGED spinvars
  BY <1>8 DEF spinvars, SeenIsValue, Fresh, OverLoad, Tagged
<1> QED BY <1>1, <1>2, <1>3, <1>4, <1>5, <1>6, <1>7, <1>8
        DEF SpinNext, ISpinLock, IReadLock, IWriteLock, Ops


(* SpinLocksExclusive in numbers: S holds the spin lock, R reads, W writes. *)
Exclusive(sp, rw, S, R, W) ==
  /\ sp = S /\ rw = W - R /\ (W = 0 \/ R = 0) /\ sp <= 1 /\ rw <= 1

LEMMA ExclusiveNumbers ==
  /\ SpinLocksExclusive <=>
       (~crossed =>
        Exclusive(value["SP"], value["RW"], Cardinality(HoldersOf("SPIN")),
                  Cardinality(HoldersOf("READ")), Cardinality(HoldersOf("WRITE"))))
  /\ SpinLocksExclusive' <=>
       (~crossed' =>
        Exclusive(value'["SP"], value'["RW"], Cardinality(HoldersOf("SPIN")'),
                  Cardinality(HoldersOf("READ")'), Cardinality(HoldersOf("WRITE")')))
  BY HoldersFinite DEF SpinLocksExclusive, Exclusive

(* How a step of p from the frame q to the frame r changes the numbers. *)
LEMMA ExclusiveByNow ==
  ASSUME SpinTypeOK, SpinLocksExclusive, ~crossed, NEW p \in Cpu, NEW r \in Frame, Now(p, r),
         NEW sp, NEW rw, sp = value'["SP"], rw = value'["RW"],
         \A S, R, W \in Nat :
           LET N(x, op) == x + (IF Holds(r, op) THEN 1 ELSE 0)
                             - (IF Holds(Innermost(p), op) THEN 1 ELSE 0)
           IN  /\ Exclusive(value["SP"], value["RW"], S, R, W)
               /\ Holds(Innermost(p), "SPIN") => S > 0
               /\ Holds(Innermost(p), "READ") => R > 0
               /\ Holds(Innermost(p), "WRITE") => W > 0
               => Exclusive(sp, rw, N(S, "SPIN"), N(R, "READ"), N(W, "WRITE"))
  PROVE  SpinLocksExclusive'
<1> DEFINE S == Cardinality(HoldersOf("SPIN"))
           R == Cardinality(HoldersOf("READ"))
           W == Cardinality(HoldersOf("WRITE"))
<1>1. /\ Cardinality(HoldersOf("SPIN")') = S + (IF Holds(r, "SPIN") THEN 1 ELSE 0)
                                              - (IF Holds(Innermost(p), "SPIN") THEN 1 ELSE 0)
      /\ Cardinality(HoldersOf("READ")') = R + (IF Holds(r, "READ") THEN 1 ELSE 0)
                                              - (IF Holds(Innermost(p), "READ") THEN 1 ELSE 0)
      /\ Cardinality(HoldersOf("WRITE")') = W + (IF Holds(r, "WRITE") THEN 1 ELSE 0)
                                               - (IF Holds(Innermost(p), "WRITE") THEN 1 ELSE 0)
  BY HoldersMove DEF Now
<1>2. \A op : Holds(Innermost(p), op) => HoldersOf(op) # {}
  <2> SUFFICES ASSUME NEW op, Holds(Innermost(p), op) PROVE <<p, level[p]>> \in HoldersOf(op)
    OBVIOUS
  <2> QED BY DEF HoldersOf, Innermost, SpinTypeOK
<1>3. S \in Nat /\ R \in Nat /\ W \in Nat
  BY HoldersFinite
<1>4. /\ Holds(Innermost(p), "SPIN") => S > 0
      /\ Holds(Innermost(p), "READ") => R > 0
      /\ Holds(Innermost(p), "WRITE") => W > 0
  BY <1>2, <1>3, HoldersFinite
<1>5. Exclusive(value["SP"], value["RW"], S, R, W)
  BY ExclusiveNumbers
<1> HIDE DEF S, R, W
<1> QED BY <1>1, <1>3, <1>4, <1>5, ExclusiveNumbers DEF S, R, W

(* Nothing changes hands, and no lock its value. *)
LEMMA ExclusiveKept ==
  ASSUME SpinTypeOK, SpinLocksExclusive, ~crossed, NEW p \in Cpu, NEW r \in Frame, Now(p, r),
         UNCHANGED value,
         \A op \in Ops : Holds(r, op) <=> Holds(Innermost(p), op)
  PROVE  SpinLocksExclusive'
<1>1. \A op \in {"SPIN", "READ", "WRITE"} : Holds(r, op) <=> Holds(Innermost(p), op)
  BY DEF Ops
<1>2. \A op \in {"SPIN", "READ", "WRITE"}, x \in Nat :
        x + (IF Holds(r, op) THEN 1 ELSE 0) - (IF Holds(Innermost(p), op) THEN 1 ELSE 0) = x
  BY <1>1
<1>3. value'["SP"] = value["SP"] /\ value'["RW"] = value["RW"]
  OBVIOUS
<1> QED BY <1>2, <1>3, ExclusiveByNow

(* A store that does not cross goes by the load of its own level.          *)
LEMMA OwnLoad ==
  ASSUME SpinTypeOK, SeenIsValue, NEW p \in Cpu, NEW lock \in {"SP", "RW"}, Tagged(p, lock),
         NEW v, Stores(p, lock, v), ~crossed'
  PROVE  monitor[p].level = level[p]
<1>1. level[p] > 1 => monitor[p].level = level[p]
  BY Zenon DEF Stores
<1>2. level[p] = 1 => monitor[p].level = 1
  BY DEF SeenIsValue, Tagged
<1> QED BY <1>1, <1>2 DEF SpinTypeOK, Levels

LEMMA ExclusiveStep == SpinInv /\ [SpinNext]_spinvars => SpinLocksExclusive'
<1> SUFFICES ASSUME SpinTypeOK, SeenIsValue, SpinLocksExclusive, [SpinNext]_spinvars, ~crossed'
             PROVE  SpinLocksExclusive'
  BY DEF SpinInv, SpinLocksExclusive
<1>1. ASSUME NEW p \in Cpu, NEW op \in Ops, NEW try \in BOOLEAN, NEW di \in BOOLEAN,
             Acquire(p, op, try, di)
      PROVE  SpinLocksExclusive'
  <2> DEFINE r == [Innermost(p) EXCEPT !.at = "LDREX", !.op = op, !.try = try, !.di = di]
  <2>1. r \in Frame /\ r.at = "LDREX"
    BY FrameFields DEF Frame
  <2>2. Now(p, r) /\ UNCHANGED value /\ Innermost(p).at = "IDLE" /\ ~crossed
    BY <1>1 DEF Acquire, NoStore
  <2> HIDE DEF r
  <2> QED BY <2>1, <2>2, ExclusiveKept DEF Holds
<1>2. ASSUME NEW p \in Cpu, Ldrex(p) PROVE SpinLocksExclusive'
  <2> DEFINE q == Innermost(p)
             r == [q EXCEPT !.at = "STREX", !.seen = value[LockOf(q.op)]]
  <2>1. r \in Frame /\ r.at = "STREX"
    BY FrameFields DEF Frame, SpinTypeOK
  <2>2. /\ UNCHANGED <<value, crossed>> /\ q.at = "LDREX"
        /\ Now(p, r) \/ Now(p, Started) \/ UNCHANGED <<level, running>>
    BY <1>2 DEF Ldrex, Loads
  <2>3. CASE UNCHANGED <<level, running>>
    BY <2>2, <2>3 DEF SpinLocksExclusive, HoldersOf, Holds
  <2> HIDE DEF r
  <2> QED BY <2>1, <2>2, <2>3, FrameFields, ExclusiveKept DEF Holds, Started
<1>3. ASSUME NEW p \in Cpu, Strex(p) PROVE SpinLocksExclusive'
  <2> DEFINE q == Innermost(p)
             lock == LockOf(q.op)
  <2>1. PICK r \in Frame :
          /\ Now(p, r) /\ q.at = "STREX"
          /\ \/ /\ r.at = "HOLD" /\ r.op = q.op
                /\ Tagged(p, lock) /\ Stores(p, lock, New(q.op, q.seen))
             \/ r.at \in {"LDREX", "IDLE"} /\ NoStore
    BY <1>3, StrexFrames
  <2>2. CASE r.at \in {"LDREX", "IDLE"} /\ NoStore
    BY <2>1, <2>2, ExclusiveKept DEF Holds, NoStore
  <2>3. CASE /\ r.at = "HOLD" /\ r.op = q.op
             /\ Tagged(p, lock) /\ Stores(p, lock, New(q.op, q.seen))
    <3>0. lock \in {"SP", "RW"} /\ ~crossed /\ value' = [value EXCEPT ![lock] = New(q.op, q.seen)]
      BY <2>3, FrameFields DEF Stores
    <3>1. ~Busy(q.op, value[lock]) /\ value' = [value EXCEPT ![lock] = New(q.op, value[lock])]
      <4>1. monitor[p].level = level[p] /\ level[p] \in Levels /\ q = running[p][level[p]]
        BY <2>3, <3>0, OwnLoad DEF SpinTypeOK, Innermost
      <4>2. Fresh(p, level[p])
        BY <4>1 DEF SeenIsValue
      <4> QED BY <2>1, <2>3, <3>0, <4>1, <4>2 DEF Fresh
    <3>2. q.op \in Ops /\ value["SP"] \in Int /\ value["RW"] \in Int
      BY FrameFields DEF Frame, SpinTypeOK
    <3>3. CASE q.op = "SPIN"
      <4>1. value["SP"] # 1 /\ value'["SP"] = 1 /\ value'["RW"] = value["RW"]
        BY <3>1, <3>3 DEF Busy, New, LockOf, SpinTypeOK
      <4> QED BY <2>1, <2>3, <3>0, <3>2, <3>3, <4>1, ExclusiveByNow DEF Holds, Exclusive
    <3>4. CASE q.op = "READ"
      <4>1. value["RW"] <= 0 /\ value'["RW"] = value["RW"] - 1 /\ value'["SP"] = value["SP"]
        BY <3>1, <3>2, <3>4 DEF Busy, New, LockOf, SpinTypeOK
      <4> QED BY <2>1, <2>3, <3>0, <3>2, <3>4, <4>1, ExclusiveByNow DEF Holds, Exclusive
    <3>5. CASE q.op = "WRITE"
      <4>1. value["RW"] = 0 /\ value'["RW"] = 1 /\ value'["SP"] = value["SP"]
        BY <3>1, <3>5 DEF Busy, New, LockOf, SpinTypeOK
      <4> QED BY <2>1, <2>3, <3>0, <3>2, <3>5, <4>1, ExclusiveByNow DEF Holds, Exclusive
    <3> QED BY <3>2, <3>3, <3>4, <3>5 DEF Ops
  <2> QED BY <2>1, <2>2, <2>3
<1>4. ASSUME NEW p \in Cpu, ISpinUnlock(p) PROVE SpinLocksExclusive'
  <2> DEFINE q == Innermost(p)
             r == [q EXCEPT !.at = "ADD"]
  <2>1. r \in Frame /\ r.at = "ADD" /\ r.op = q.op /\ q.op \in Ops
    BY FrameFields DEF Frame
  <2>2. /\ q.at = "HOLD" /\ ~crossed
        /\ \/ Now(p, r) /\ UNCHANGED value
           \/ /\ q.op # "READ"
              /\ Now(p, Started) /\ value' = [value EXCEPT ![LockOf(q.op)] = 0]
    BY <1>4 DEF ISpinUnlock, NoStore
  <2>3. CASE Now(p, r) /\ UNCHANGED value
    <3> HIDE DEF r
    <3> QED BY <2>1, <2>2, <2>3, ExclusiveKept DEF Holds
  <2>4. CASE /\ q.op # "READ"
             /\ Now(p, Started) /\ value' = [value EXCEPT ![LockOf(q.op)] = 0]
    <3>1. CASE q.op = "SPIN"
      <4>1. value'["SP"] = 0 /\ value'["RW"] = value["RW"]
        BY <2>4, <3>1 DEF LockOf, SpinTypeOK
      <4>2. value["RW"] \in Int /\ Started \in Frame /\ Started.at = "IDLE"
        BY FrameFields DEF SpinTypeOK, Started
      <4>3. Holds(q, "SPIN") /\ ~Holds(q, "READ") /\ ~Holds(q, "WRITE")
        BY <2>2, <3>1 DEF Holds
      <4>4. \A op \in Ops : ~Holds(Started, op)
        BY <4>2 DEF Holds
      <4> QED BY <2>2, <2>4, <4>1, <4>2, <4>3, <4>4, ExclusiveByNow DEF Exclusive, Ops
    <3>2. CASE q.op = "WRITE"
      <4>1. value'["RW"] = 0 /\ value'["SP"] = value["SP"]
        BY <2>4, <3>2 DEF LockOf, SpinTypeOK
      <4>2. value["RW"] \in Int /\ Started \in Frame /\ Started.at = "IDLE"
        BY FrameFields DEF SpinTypeOK, Started
      <4>3. Holds(q, "WRITE") /\ ~Holds(q, "READ") /\ ~Holds(q, "SPIN")
        BY <2>2, <3>2 DEF Holds
      <4>4. \A op \in Ops : ~Holds(Started, op)
        BY <4>2 DEF Holds
      <4> QED BY <2>2, <2>4, <4>1, <4>2, <4>3, <4>4, ExclusiveByNow DEF Exclusive, Ops
    <3> QED BY <2>1, <2>4, <3>1, <3>2 DEF Ops
  <2> QED BY <2>2, <2>3, <2>4
<1>5. ASSUME NEW p \in Cpu, IReadUnlock(p) PROVE SpinLocksExclusive'
  <2> DEFINE q == Innermost(p)
  <2>1. PICK r \in Frame :
          /\ Now(p, r) /\ q.op = "READ" /\ q.at \in {"ADD", "ADDEX"}
          /\ \/ r.at \in {"ADD", "ADDEX"} /\ r.op = "READ" /\ UNCHANGED <<value, crossed>>
             \/ /\ r.at = "IDLE" /\ q.at = "ADDEX" /\ Tagged(p, "RW")
                /\ Stores(p, "RW", q.seen + 1)
    BY <1>5, ReadUnlockFrames DEF Loads, NoStore
  <2>2. CASE r.at \in {"ADD", "ADDEX"} /\ r.op = "READ" /\ UNCHANGED <<value, crossed>>
    BY <2>1, <2>2, ExclusiveKept DEF Holds
  <2>3. CASE /\ r.at = "IDLE" /\ q.at = "ADDEX" /\ Tagged(p, "RW")
             /\ Stores(p, "RW", q.seen + 1)
    <3>1. monitor[p].level = level[p] /\ level[p] \in Levels /\ q = running[p][level[p]]
      BY <2>3, OwnLoad DEF SpinTypeOK, Innermost
    <3>2. Fresh(p, level[p]) /\ ~crossed
      BY <2>3, <3>1 DEF SeenIsValue, Stores
    <3>3. value'["RW"] = value["RW"] + 1 /\ value'["SP"] = value["SP"] /\ value["RW"] \in Int
      BY <2>3, <3>1, <3>2 DEF Fresh, Stores, SpinTypeOK
    <3> QED BY <2>1, <2>3, <3>2, <3>3, ExclusiveByNow DEF Holds, Exclusive
  <2> QED BY <2>1, <2>2, <2>3
<1>6. CASE UNCHANGED <<value, running, crossed>>
  BY <1>6 DEF SpinLocksExclusive, HoldersOf, Holds
<1> QED BY <1>1, <1>2, <1>3, <1>4, <1>5, <1>6
        DEF SpinNext, ISpinLock, IReadLock, IWriteLock, Ops, Interrupt, NoStore, Return, spinvars

(* Spin and read/write locks exclude, for every number of processors and   *)
(* however deep handlers nest, until the exclusive store of a handler      *)
(* succeeds by the load of another that ran over it and left the monitor   *)
(* set: up to then nothing that comes between a load and its store is lost *)
(* (ispinlock.c, ireadwritelock.c, _spinlock.S, _readwritelock.S,          *)
(* cpu_support_c.c).                                                       *)
THEOREM SpinLocks == SpinSpec => []SpinLocksExclusive
<1>1. SpinInv /\ [SpinNext]_spinvars => SpinInv'
  BY SpinTypeStep, SeenStep, ExclusiveStep DEF SpinInv
<1>2. SpinInv => SpinLocksExclusive
  BY DEF SpinInv
<1> QED BY SpinInitInv, <1>1, <1>2, PTL DEF SpinSpec

-----------------------------------------------------------------------------
(* Interrupts, for every number of processors and vectors, every set of    *)
(* handlers, and also if a handler is cleared while its interrupt may come.*)

Inthdrs == Hll \cup Asm \cup {Startup, NoInthdr}
IntLevels == {Lowest} \cup UNION {Driver[v].levels \cup Driver[v].modes : v \in Vec}
Words == [cputrg : [Vec -> SUBSET IntCpu], pri : [Vec -> IntLevels], config : [Vec -> IntLevels]]
Irqs == [v : Vec, at : {"vector", "startup", "in"}, h : Inthdrs, may : SUBSET Inthdrs]

Targeting == {"def", "undef"}

IsOp(o) ==
  /\ o.v \in Vec /\ o.do \in {"def", "undef", "mode", "enable"}
  /\ IF o.do \in Targeting THEN o.h \in Hll \cup Asm \cup {NoInthdr} /\ o.to \subseteq IntCpu
     ELSE o.x \in IntLevels
  /\ o.do = "def" => o.h # NoInthdr
  /\ o.do = "undef" => o.h = NoInthdr

IntTypeOK ==
  /\ intvec \in [Vec -> Inthdrs] /\ hll_inthdr \in [Vec -> Inthdrs]
  /\ regs \in Words /\ want \in Words /\ word \in [IntCpu -> Words]
  /\ cur \in [Vec -> SUBSET Inthdrs] /\ pend \subseteq Vec
  /\ intat \in [IntCpu -> 0..6]
  /\ DOMAIN intop = IntCpu /\ DOMAIN irq = IntCpu
  /\ intlock \in IntCpu \cup {"nobody"}
  /\ \A c \in IntCpu :
       /\ intop[c] # NoOp => IsOp(intop[c]) /\ intat[c] \in 1..Len(Steps(intop[c]))
       /\ irq[c] # NoIrq => irq[c] \in Irqs

(* One call at a time about a vector, by its driver.                       *)
OneCall == \A c, d \in IntCpu :
  intop[c] # NoOp /\ intop[d] # NoOp /\ intop[c].v = intop[d].v => c = d

(* Who is past BEGIN_CRITICAL_SECTION has the lock.                        *)
HoldsLock == \A c \in IntCpu :
  intlock = c <=> intop[c] # NoOp /\ intop[c].do \in Targeting /\ intat[c] > 1

(* What a vector leads to is one of its handlers, and so it is on the way. *)
VectorsSound ==
  /\ \A v \in Vec : IF intvec[v] = Startup THEN hll_inthdr[v] \in cur[v] ELSE intvec[v] \in cur[v]
  /\ \A c \in IntCpu : irq[c] # NoIrq =>
       /\ cur[irq[c].v] \subseteq irq[c].may
       /\ irq[c].at = "startup" => hll_inthdr[irq[c].v] \in irq[c].may
       /\ irq[c].at = "in" => irq[c].h \in irq[c].may

(* How far a call has come.                                                *)
DefineSound == \A c \in IntCpu : intop[c] # NoOp =>
  LET o == intop[c] IN
  /\ o.do \in Targeting /\ intat[c] > 1 => o.h \in cur[o.v]
  /\ o.do = "def" =>
       /\ intat[c] > 2 /\ o.h \notin Asm => hll_inthdr[o.v] = o.h
       /\ intat[c] > 3 => intvec[o.v] = IF o.h \in Hll THEN Startup ELSE o.h
  /\ o.do = "undef" /\ intat[c] > 4 => intvec[o.v] = NoInthdr

(* The word of targets that was loaded is the one that is there, since the *)
(* lock is held from load to store.                                        *)
TargetSound ==
  /\ \A c \in IntCpu : intop[c] # NoOp =>
       LET o == intop[c] IN
       /\ (o.do = "def" /\ intat[c] = 5) \/ (o.do = "undef" /\ intat[c] = 3)
            => word[c].cputrg = regs.cputrg
       /\ (o.do = "def" /\ intat[c] > 5) \/ (o.do = "undef" /\ intat[c] > 3)
            => regs.cputrg[o.v] = o.to
  /\ \A v \in Vec :
       (\A c \in IntCpu : intop[c] # NoOp /\ intop[c].v = v => intop[c].do \notin Targeting)
         => regs.cputrg[v] = want.cputrg[v]

IntInv ==
  /\ IntTypeOK /\ OneCall /\ HoldsLock /\ VectorsSound /\ DefineSound /\ TargetSound

LEMMA IntInitInv == IntInit => IntInv
<1> SUFFICES ASSUME IntInit PROVE IntInv
  OBVIOUS
<1>1. resetSystem \in Words
  BY DEF resetSystem, Words, IntLevels
<1>2. IntTypeOK
  BY <1>1 DEF IntInit, IntTypeOK, Inthdrs
<1>3. OneCall /\ HoldsLock /\ DefineSound
  BY IntAssumption DEF IntInit, OneCall, HoldsLock, DefineSound
<1>4. VectorsSound
  BY DEF IntInit, VectorsSound, Startup, NoInthdr
<1>5. TargetSound
  BY DEF IntInit, TargetSound
<1> QED BY <1>2, <1>3, <1>4, <1>5 DEF IntInv

(* Where a call is when it takes a step.                                   *)
LEMMA StepAt ==
  ASSUME IntTypeOK, NEW c \in IntCpu, NEW s, AtStep(c, s)
  PROVE  /\ intop[c] # NoOp /\ IsOp(intop[c])
         /\ s = "lock" => intop[c].do \in Targeting /\ intat[c] = 1
         /\ s = "hll" => \/ intop[c].do = "def" /\ intat[c] = 2
                         \/ intop[c].do = "undef" /\ intat[c] = 5
         /\ s = "vec" => \/ intop[c].do = "def" /\ intat[c] = 3
                         \/ intop[c].do = "undef" /\ intat[c] = 4
         /\ s = "load" => \/ intop[c].do = "def" /\ intat[c] = 4
                          \/ intop[c].do = "undef" /\ intat[c] = 2
                          \/ intop[c].do \in {"mode", "enable"} /\ intat[c] = 1
         /\ s = "store" => \/ intop[c].do = "def" /\ intat[c] = 5
                           \/ intop[c].do = "undef" /\ intat[c] = 3
                           \/ intop[c].do \in {"mode", "enable"} /\ intat[c] = 2
         /\ s = "enbset" => intop[c].do = "enable" /\ intat[c] = 3
         /\ s = "unlock" => intop[c].do \in Targeting /\ intat[c] = 6
         /\ Len(Steps(intop[c])) = IF intop[c].do \in Targeting THEN 6
                                   ELSE IF intop[c].do = "mode" THEN 2 ELSE 3
<1> DEFINE o == intop[c]
<1>1. o # NoOp /\ IsOp(o) /\ intat[c] \in 1..Len(Steps(o)) /\ Steps(o)[intat[c]] = s
  BY DEF AtStep, IntTypeOK
<1>2. o.do \in {"def", "undef", "mode", "enable"}
  BY <1>1 DEF IsOp
<1>3. CASE o.do = "def"
  <2>1. Steps(o) = <<"lock", "hll", "vec", "load", "store", "unlock">>
    BY <1>3 DEF Steps, def_int
  <2>2. Len(Steps(o)) = 6 /\ intat[c] \in 1..6
    BY <2>1, <1>1
  <2> QED BY <1>1, <1>3, <2>1, <2>2 DEF Targeting
<1>4. CASE o.do = "undef"
  <2>1. Steps(o) = <<"lock", "load", "store", "vec", "hll", "unlock">>
    BY <1>4 DEF Steps, undef_int
  <2>2. Len(Steps(o)) = 6 /\ intat[c] \in 1..6
    BY <2>1, <1>1
  <2> QED BY <1>1, <1>4, <2>1, <2>2 DEF Targeting
<1>5. CASE o.do = "mode"
  <2>1. Steps(o) = <<"load", "store">>
    BY <1>5 DEF Steps, SetIntMode
  <2>2. Len(Steps(o)) = 2 /\ intat[c] \in 1..2
    BY <2>1, <1>1
  <2> QED BY <1>1, <1>5, <2>1, <2>2 DEF Targeting
<1>6. CASE o.do = "enable"
  <2>1. Steps(o) = <<"load", "store", "enbset">>
    BY <1>6 DEF Steps, EnableInt
  <2>2. Len(Steps(o)) = 3 /\ intat[c] \in 1..3
    BY <2>1, <1>1
  <2> QED BY <1>1, <1>6, <2>1, <2>2 DEF Targeting
<1> QED BY <1>2, <1>3, <1>4, <1>5, <1>6

(* What a call leaves when it goes on from its step s, or returns.         *)
LEMMA AfterStep ==
  ASSUME IntTypeOK, NEW c \in IntCpu, NEW s, AtStep(c, s), GoesOn(c)
  PROVE  /\ \A d \in IntCpu : d # c => intop'[d] = intop[d] /\ intat'[d] = intat[d]
         /\ DOMAIN intop' = IntCpu /\ intat' \in [IntCpu -> 0..6]
         /\ \/ intop'[c] = NoOp /\ intat[c] = Len(Steps(intop[c])) /\ intat'[c] = 0
            \/ /\ intop'[c] = intop[c] /\ intat[c] < Len(Steps(intop[c]))
               /\ intat'[c] = intat[c] + 1 /\ want' = want
         /\ intop'[c] # NoOp => intat'[c] \in 1..Len(Steps(intop[c]))
<1> DEFINE o == intop[c]
<1>1. o # NoOp /\ IsOp(o) /\ Len(Steps(o)) \in 2..6
  <2>1. o # NoOp /\ IsOp(o) /\ Len(Steps(o)) = IF o.do \in Targeting THEN 6
                                              ELSE IF o.do = "mode" THEN 2 ELSE 3
    BY StepAt
  <2> QED BY <2>1
<1>2. DOMAIN intop = IntCpu /\ intat \in [IntCpu -> 0..6] /\ intat[c] \in 1..Len(Steps(o))
  BY <1>1 DEF IntTypeOK
<1>3. CASE intat[c] < Len(Steps(o))
  <2>1. intat' = [intat EXCEPT ![c] = intat[c] + 1] /\ intop' = intop /\ want' = want
    BY <1>3 DEF GoesOn
  <2>2. intat[c] + 1 \in 1..Len(Steps(o)) /\ intat[c] + 1 \in 0..6
    <3> DEFINE n == Len(Steps(o))
               i == intat[c]
    <3>1. n \in 2..6 /\ i \in 0..6 /\ i < n
      BY <1>1, <1>2, <1>3
    <3> HIDE DEF n, i
    <3>2. i + 1 \in 1..n /\ i + 1 \in 0..6
      BY <3>1
    <3> QED BY <3>2 DEF n, i
  <2>3. intat' \in [IntCpu -> 0..6]
    BY <2>1, <2>2, <1>2
  <2> QED BY <1>2, <1>3, <2>1, <2>2, <2>3
<1>4. CASE ~(intat[c] < Len(Steps(o)))
  <2>1. intat' = [intat EXCEPT ![c] = 0] /\ intop' = [intop EXCEPT ![c] = NoOp]
    BY <1>4 DEF GoesOn
  <2>2. intat[c] = Len(Steps(o))
    BY <1>1, <1>2, <1>4
  <2>3. intat' \in [IntCpu -> 0..6]
    BY <2>1, <1>2
  <2> QED BY <1>2, <2>1, <2>2, <2>3
<1> QED BY <1>3, <1>4

(* What the completed calls asked for.                                     *)
LEMMA AfterWant ==
  ASSUME IntTypeOK, NEW c \in IntCpu, NEW s, AtStep(c, s), GoesOn(c)
  PROVE  /\ want' \in Words
         /\ s # "unlock" => want'.cputrg = want.cputrg
         /\ s = "unlock" => want'.cputrg = [want.cputrg EXCEPT ![intop[c].v] = intop[c].to]
<1> DEFINE o == intop[c]
<1>1. o # NoOp /\ IsOp(o)
  BY StepAt
<1>2. o.do = "mode" \/ o.do = "enable" \/ o.do \in Targeting
  BY <1>1 DEF IsOp, Targeting
<1>w. want \in Words /\ o.v \in Vec
  BY <1>1 DEF IntTypeOK, IsOp
<1>3. CASE intat[c] < Len(Steps(o))
  <2>1. want' = want
    BY <1>3 DEF GoesOn
  <2>2. s # "unlock"
    BY <1>3, StepAt DEF Targeting
  <2> QED BY <1>w, <2>1, <2>2
<1>4. CASE ~(intat[c] < Len(Steps(o)))
  <2>1. want' = [want EXCEPT ![KindOf(o)][o.v] = Field(o)]
    BY <1>4 DEF GoesOn
  <2>2. CASE o.do = "mode"
    <3>1. KindOf(o) = "config" /\ Field(o) = o.x /\ o.x \in IntLevels /\ s # "unlock"
      BY <1>1, <2>2, StepAt DEF KindOf, Field, IsOp, Targeting
    <3>2. want' = [want EXCEPT !.config = [@ EXCEPT ![o.v] = o.x]]
      BY <2>1, <3>1
    <3> QED BY <1>w, <3>1, <3>2 DEF Words
  <2>3. CASE o.do = "enable"
    <3>1. KindOf(o) = "pri" /\ Field(o) = o.x /\ o.x \in IntLevels /\ s # "unlock"
      BY <1>1, <2>3, StepAt DEF KindOf, Field, IsOp, Targeting
    <3>2. want' = [want EXCEPT !.pri = [@ EXCEPT ![o.v] = o.x]]
      BY <2>1, <3>1
    <3> QED BY <1>w, <3>1, <3>2 DEF Words
  <2>4. CASE o.do \in Targeting
    <3>1. KindOf(o) = "cputrg" /\ Field(o) = o.to /\ o.to \in SUBSET IntCpu
      BY <1>1, <2>4 DEF KindOf, Field, IsOp, Targeting
    <3>2. s = "unlock"
      <4>1. intat[c] = 6
        BY <2>4, <1>4, <1>1, StepAt DEF IntTypeOK
      <4> QED BY <4>1, <2>4 DEF AtStep, Steps, def_int, undef_int, Targeting
    <3>3. want' = [want EXCEPT !.cputrg = [@ EXCEPT ![o.v] = o.to]]
      BY <2>1, <3>1
    <3> QED BY <1>w, <3>1, <3>2, <3>3 DEF Words
  <2> QED BY <1>2, <2>2, <2>3, <2>4
<1> QED BY <1>3, <1>4

(* The conjuncts about calls that hold whatever a call does but to begin,  *)
(* take the lock or return it.                                             *)
LEMMA CallsAfter ==
  ASSUME IntTypeOK, OneCall, NEW c \in IntCpu, NEW s, AtStep(c, s), GoesOn(c)
  PROVE  /\ OneCall'
         /\ \A d \in IntCpu : intop'[d] # NoOp =>
              intop'[d] = intop[d] /\ IsOp(intop'[d]) /\ intat'[d] \in 1..Len(Steps(intop'[d]))
<1>1. \A d \in IntCpu : d # c => intop'[d] = intop[d] /\ intat'[d] = intat[d]
  BY AfterStep
<1>2. intop'[c] # NoOp => intop'[c] = intop[c] /\ intat'[c] \in 1..Len(Steps(intop[c]))
  BY AfterStep
<1>3. OneCall'
  BY <1>1, <1>2 DEF OneCall
<1> QED BY <1>1, <1>2, <1>3 DEF IntTypeOK

LEMMA HoldsLockKept ==
  ASSUME IntTypeOK, HoldsLock, NEW c \in IntCpu, NEW s, AtStep(c, s), GoesOn(c),
         s \notin {"lock", "unlock"}, intlock' = intlock
  PROVE  HoldsLock'
<1> DEFINE o == intop[c]
<1>1. \A d \in IntCpu : d # c => intop'[d] = intop[d] /\ intat'[d] = intat[d]
  BY AfterStep
<1>2. o # NoOp /\ IsOp(o) /\ intat[c] \in 1..6 /\ intat[c] \in Nat
  BY StepAt DEF IntTypeOK
<1>3. CASE o.do \in Targeting
  <2>1. intat[c] # 1 /\ intat[c] # 6 /\ Len(Steps(o)) = 6
    BY <1>2, <1>3, StepAt DEF AtStep, Steps, def_int, undef_int, Targeting
  <2>2. intop'[c] = o /\ intat'[c] = intat[c] + 1
    BY <2>1, AfterStep
  <2> QED BY <1>1, <1>2, <1>3, <2>1, <2>2 DEF HoldsLock
<1>4. CASE o.do \notin Targeting
  <2>1. intop'[c] # NoOp => intop'[c] = o
    BY AfterStep
  <2> QED BY <1>1, <1>4, <2>1 DEF HoldsLock
<1> QED BY <1>3, <1>4

LEMMA BeginKeeps == ASSUME IntInv, NEW c \in IntCpu, Begin(c) PROVE IntInv'
<1> USE DEF IntInv
<1>1. PICK v \in Vec : \E o \in IntOps(v) :
          /\ ~InCall(v)
          /\ intop' = [intop EXCEPT ![c] = o] /\ intat' = [intat EXCEPT ![c] = 1]
  BY DEF Begin
<1>2. PICK o \in IntOps(v) :
          /\ ~InCall(v)
          /\ intop' = [intop EXCEPT ![c] = o] /\ intat' = [intat EXCEPT ![c] = 1]
  BY <1>1
<1>3. IsOp(o) /\ o.v = v
  BY IntAssumption DEF IntOps, IsOp, Targeting, IntLevels, SetIntAssprc, ClrIntAssprc, NoInthdr
<1>4. /\ UNCHANGED <<intvec, hll_inthdr, regs, enb, pend, word, intlock, irq, want, cur>>
      /\ intop[c] = NoOp
  BY DEF Begin
<1>5. \A d \in IntCpu : intop[d] # NoOp => intop[d].v # v
  BY <1>2 DEF InCall
<1>6. /\ \A d \in IntCpu : d # c => intop'[d] = intop[d] /\ intat'[d] = intat[d]
      /\ intop'[c] = o /\ intat'[c] = 1
      /\ DOMAIN intop' = IntCpu /\ intat' \in [IntCpu -> 0..6]
  BY <1>2 DEF IntTypeOK
<1>7. IntTypeOK'
  <2>1. o.do \in {"def", "undef", "mode", "enable"}
    BY <1>3 DEF IsOp
  <2>2. 1 \in 1..Len(Steps(o))
    BY <2>1 DEF Steps, def_int, undef_int, SetIntMode, EnableInt
  <2> QED BY <1>3, <1>4, <1>6, <2>2 DEF IntTypeOK
<1>8. OneCall'
  BY <1>3, <1>5, <1>6 DEF OneCall
<1>9. HoldsLock'
  BY <1>4, <1>6 DEF HoldsLock
<1>10. VectorsSound'
  BY <1>4 DEF VectorsSound
<1>11. DefineSound'
  BY <1>4, <1>6 DEF DefineSound
<1>12. TargetSound'
  <2>1. \A d \in IntCpu : intop'[d] # NoOp =>
          /\ (intop'[d].do = "def" /\ intat'[d] = 5) \/ (intop'[d].do = "undef" /\ intat'[d] = 3)
               => word'[d].cputrg = regs'.cputrg
          /\ (intop'[d].do = "def" /\ intat'[d] > 5) \/ (intop'[d].do = "undef" /\ intat'[d] > 3)
               => regs'.cputrg[intop'[d].v] = intop'[d].to
    BY <1>4, <1>6 DEF TargetSound
  <2>2. ASSUME NEW w \in Vec,
               \A d \in IntCpu : intop'[d] # NoOp /\ intop'[d].v = w => intop'[d].do \notin Targeting
        PROVE  regs'.cputrg[w] = want'.cputrg[w]
    <3>1. \A d \in IntCpu : intop[d] # NoOp /\ intop[d].v = w => intop[d].do \notin Targeting
      BY <2>2, <1>4, <1>6
    <3> QED BY <3>1, <1>4 DEF TargetSound
  <2> QED BY <2>1, <2>2 DEF TargetSound
<1> QED BY <1>7, <1>8, <1>9, <1>10, <1>11, <1>12

(* TargetSound of a step that changes neither the targets nor the words    *)
(* the others have loaded.                                                 *)
LEMMA TargetKeeps ==
  ASSUME IntInv, NEW c \in IntCpu, NEW s, AtStep(c, s), GoesOn(c),
         s \notin {"load", "store", "unlock"}, regs' = regs, word' = word
  PROVE  TargetSound'
<1> USE DEF IntInv
<1> DEFINE o == intop[c]
<1>1. \A d \in IntCpu : d # c => intop'[d] = intop[d] /\ intat'[d] = intat[d]
  BY AfterStep
<1>2. /\ o # NoOp /\ IsOp(o)
      /\ intop'[c] # NoOp => intop'[c] = o /\ intat'[c] = intat[c] + 1
  BY AfterStep, StepAt
<1>3. o.do = "def" => intat[c] \notin {4, 5}
  BY StepAt DEF AtStep, Steps, def_int
<1>4. o.do = "undef" => intat[c] \notin {2, 3}
  BY StepAt DEF AtStep, Steps, undef_int
<1>5. intat[c] \in 0..6
  BY DEF IntTypeOK
<1>6. intop'[c] # NoOp =>
        /\ (o.do = "def" /\ intat'[c] = 5) \/ (o.do = "undef" /\ intat'[c] = 3)
             => word[c].cputrg = regs.cputrg
        /\ (o.do = "def" /\ intat'[c] > 5) \/ (o.do = "undef" /\ intat'[c] > 3)
             => regs.cputrg[o.v] = o.to
  BY <1>2, <1>3, <1>4, <1>5 DEF TargetSound
<1>7. \A d \in IntCpu : intop'[d] # NoOp =>
        /\ (intop'[d].do = "def" /\ intat'[d] = 5) \/ (intop'[d].do = "undef" /\ intat'[d] = 3)
             => word'[d].cputrg = regs'.cputrg
        /\ (intop'[d].do = "def" /\ intat'[d] > 5) \/ (intop'[d].do = "undef" /\ intat'[d] > 3)
             => regs'.cputrg[intop'[d].v] = intop'[d].to
  BY <1>1, <1>2, <1>6 DEF TargetSound
<1>8. ASSUME NEW w \in Vec,
             \A d \in IntCpu : intop'[d] # NoOp /\ intop'[d].v = w => intop'[d].do \notin Targeting
      PROVE  regs'.cputrg[w] = want'.cputrg[w]
  <2>1. want'.cputrg = want.cputrg
    BY AfterWant
  <2>2. o.do \in Targeting => intop'[c] = o
    <3>1. o.do \in Targeting => Len(Steps(o)) = 6 /\ intat[c] # 6
      BY StepAt DEF AtStep, Steps, def_int, undef_int, Targeting
    <3> QED BY <3>1, AfterStep
  <2>3. \A d \in IntCpu : intop[d] # NoOp /\ intop[d].v = w => intop[d].do \notin Targeting
    BY <1>1, <1>2, <1>8, <2>2
  <2> QED BY <2>1, <2>3 DEF TargetSound
<1> QED BY <1>7, <1>8 DEF TargetSound

(* What the others have defined stays, if only this vector is touched.     *)
LEMMA OthersDefine ==
  ASSUME IntInv, NEW c \in IntCpu, NEW s, AtStep(c, s), GoesOn(c),
         \A w \in Vec : w # intop[c].v =>
            intvec'[w] = intvec[w] /\ hll_inthdr'[w] = hll_inthdr[w] /\ cur'[w] = cur[w],
         NEW d \in IntCpu, d # c, intop'[d] # NoOp
  PROVE  LET o == intop'[d] IN
         /\ o.do \in Targeting /\ intat'[d] > 1 => o.h \in cur'[o.v]
         /\ o.do = "def" =>
              /\ intat'[d] > 2 /\ o.h \notin Asm => hll_inthdr'[o.v] = o.h
              /\ intat'[d] > 3 => intvec'[o.v] = IF o.h \in Hll THEN Startup ELSE o.h
         /\ o.do = "undef" /\ intat'[d] > 4 => intvec'[o.v] = NoInthdr
<1> USE DEF IntInv
<1>1. intop'[d] = intop[d] /\ intat'[d] = intat[d]
  BY AfterStep
<1>2. intop[d].v # intop[c].v /\ intop[d].v \in Vec
  BY <1>1, StepAt DEF OneCall, IntTypeOK, IsOp
<1> QED BY <1>1, <1>2 DEF DefineSound

LEMMA IrqAdds ==
  ASSUME NEW i \in Irqs, NEW h \in Inthdrs
  PROVE  /\ [i EXCEPT !.may = @ \cup {h}] \in Irqs
         /\ [i EXCEPT !.may = @ \cup {h}].v = i.v /\ [i EXCEPT !.may = @ \cup {h}].h = i.h
         /\ [i EXCEPT !.may = @ \cup {h}].at = i.at
         /\ [i EXCEPT !.may = @ \cup {h}].may = i.may \cup {h}
BY DEF Irqs

LEMMA LockKeeps == ASSUME IntInv, NEW c \in IntCpu, BEGIN_CRITICAL_SECTION(c) PROVE IntInv'
<1> USE DEF IntInv
<1> DEFINE o == intop[c]
           v == intop[c].v
           h == intop[c].h
           Adds(i) == [i EXCEPT !.may = @ \cup {h}]
<1>1. /\ AtStep(c, "lock") /\ GoesOn(c) /\ intlock = "nobody" /\ intlock' = c
      /\ UNCHANGED <<intvec, hll_inthdr, regs, enb, pend, word>>
      /\ cur' = [cur EXCEPT ![v] = @ \cup {h}]
      /\ irq' = [d \in IntCpu |-> IF irq[d] # NoIrq /\ irq[d].v = v THEN Adds(irq[d]) ELSE irq[d]]
  BY DEF BEGIN_CRITICAL_SECTION
<1>2. o # NoOp /\ IsOp(o) /\ o.do \in Targeting /\ intat[c] = 1 /\ Len(Steps(o)) = 6
  BY <1>1, StepAt
<1>3. v \in Vec /\ h \in Inthdrs
  BY <1>2 DEF IsOp, Inthdrs
<1>4. intop'[c] = o /\ intat'[c] = 2 /\ want' = want
  <2>1. intat[c] # Len(Steps(o))
    BY <1>2
  <2> QED BY <1>1, <1>2, <2>1, AfterStep
<1>5. \A d \in IntCpu : d # c => intop'[d] = intop[d] /\ intat'[d] = intat[d]
  BY <1>1, AfterStep
<1>6. cur' \in [Vec -> SUBSET Inthdrs] /\ \A w \in Vec : cur[w] \subseteq cur'[w] /\ (w # v => cur'[w] = cur[w])
  BY <1>1, <1>3 DEF IntTypeOK
<1>7. h \in cur'[v] /\ cur'[v] = cur[v] \cup {h}
  BY <1>1, <1>3 DEF IntTypeOK
<1>8. ASSUME NEW d \in IntCpu, irq'[d] # NoIrq
      PROVE  irq'[d] \in Irqs /\ irq[d] \in Irqs /\ irq[d] # NoIrq /\ irq'[d].v = irq[d].v /\ irq'[d].at = irq[d].at
             /\ irq'[d].h = irq[d].h /\ irq'[d].may = IF irq[d].v = v THEN irq[d].may \cup {h} ELSE irq[d].may
  <2>1. irq[d] # NoIrq
    BY <1>1, <1>8
  <2>2. irq[d] \in Irqs
    BY <2>1 DEF IntTypeOK
  <2>3. CASE irq[d].v = v
    <3>1. irq'[d] = Adds(irq[d])
      BY <1>1, <2>1, <2>3
    <3> QED BY <1>3, <2>1, <2>2, <2>3, <3>1, IrqAdds
  <2>4. CASE irq[d].v # v
    <3>1. irq'[d] = irq[d]
      BY <1>1, <2>1, <2>4
    <3> QED BY <2>1, <2>2, <2>4, <3>1
  <2> QED BY <2>3, <2>4
<1>9. IntTypeOK'
  <2>1. DOMAIN irq' = IntCpu
    BY <1>1
  <2>2. DOMAIN intop' = IntCpu /\ intat' \in [IntCpu -> 0..6]
    BY <1>1, AfterStep
  <2>3. \A d \in IntCpu : intop'[d] # NoOp => IsOp(intop'[d]) /\ intat'[d] \in 1..Len(Steps(intop'[d]))
    BY <1>1, CallsAfter
  <2> QED BY <1>1, <1>4, <1>6, <1>8, <2>1, <2>2, <2>3 DEF IntTypeOK
<1>10. OneCall'
  BY <1>1, CallsAfter
<1>11. HoldsLock'
  BY <1>1, <1>2, <1>4, <1>5, IntAssumption DEF HoldsLock
<1>12. VectorsSound'
  <2>1. \A w \in Vec : IF intvec'[w] = Startup THEN hll_inthdr'[w] \in cur'[w] ELSE intvec'[w] \in cur'[w]
    BY <1>1, <1>6 DEF VectorsSound
  <2>2. ASSUME NEW d \in IntCpu, irq'[d] # NoIrq
        PROVE  /\ cur'[irq'[d].v] \subseteq irq'[d].may
               /\ irq'[d].at = "startup" => hll_inthdr'[irq'[d].v] \in irq'[d].may
               /\ irq'[d].at = "in" => irq'[d].h \in irq'[d].may
    <3>1. irq[d] # NoIrq /\ irq[d].v \in Vec
      BY <1>8, <2>2 DEF Irqs
    <3>2. /\ cur[irq[d].v] \subseteq irq[d].may
          /\ irq[d].at = "startup" => hll_inthdr[irq[d].v] \in irq[d].may
          /\ irq[d].at = "in" => irq[d].h \in irq[d].may
      BY <3>1 DEF VectorsSound
    <3>3. hll_inthdr' = hll_inthdr
      BY <1>1
    <3>4. /\ irq'[d].v = irq[d].v /\ irq'[d].at = irq[d].at /\ irq'[d].h = irq[d].h
          /\ irq'[d].may = IF irq[d].v = v THEN irq[d].may \cup {h} ELSE irq[d].may
      BY <1>8, <2>2
    <3>5. CASE irq[d].v = v
      BY <1>7, <3>2, <3>3, <3>4, <3>5
    <3>6. CASE irq[d].v # v
      BY <1>6, <3>1, <3>2, <3>3, <3>4, <3>6
    <3> QED BY <3>5, <3>6
  <2> QED BY <2>1, <2>2 DEF VectorsSound
<1>13. DefineSound'
  <2>1. \A w \in Vec : w # v => intvec'[w] = intvec[w] /\ hll_inthdr'[w] = hll_inthdr[w] /\ cur'[w] = cur[w]
    BY <1>1, <1>6
  <2>2. ASSUME NEW d \in IntCpu, intop'[d] # NoOp, d # c
        PROVE  LET x == intop'[d] IN
               /\ x.do \in Targeting /\ intat'[d] > 1 => x.h \in cur'[x.v]
               /\ x.do = "def" =>
                    /\ intat'[d] > 2 /\ x.h \notin Asm => hll_inthdr'[x.v] = x.h
                    /\ intat'[d] > 3 => intvec'[x.v] = IF x.h \in Hll THEN Startup ELSE x.h
               /\ x.do = "undef" /\ intat'[d] > 4 => intvec'[x.v] = NoInthdr
    BY <1>1, <2>1, <2>2, OthersDefine
  <2> QED BY <1>4, <1>7, <2>2 DEF DefineSound
<1>14. TargetSound'
  BY <1>1, TargetKeeps
<1> QED BY <1>9, <1>10, <1>11, <1>12, <1>13, <1>14

LEMMA HllKeeps == ASSUME IntInv, NEW c \in IntCpu, DefineHll(c) PROVE IntInv'
<1> USE DEF IntInv
<1> DEFINE o == intop[c]
           v == intop[c].v
           h == intop[c].h
<1>1. /\ AtStep(c, "hll") /\ GoesOn(c)
      /\ UNCHANGED <<intvec, regs, enb, pend, word, intlock, irq, cur>>
      /\ hll_inthdr' = IF h \in Asm THEN hll_inthdr ELSE [hll_inthdr EXCEPT ![v] = h]
  BY DEF DefineHll
<1>2. o # NoOp /\ IsOp(o) /\ o.do \in Targeting /\ intat[c] \in {2, 5} /\ Len(Steps(o)) = 6
      /\ (o.do = "def" => intat[c] = 2) /\ (o.do = "undef" => intat[c] = 5)
  BY <1>1, StepAt DEF Targeting
<1>3. v \in Vec /\ h \in Inthdrs /\ h \in cur[v]
  BY <1>2 DEF IsOp, Inthdrs, DefineSound
<1>4. intop'[c] = o /\ intat'[c] = intat[c] + 1 /\ want' = want
  <2>1. intat[c] # Len(Steps(o))
    BY <1>2
  <2> QED BY <1>1, <1>2, <2>1, AfterStep
<1>5. hll_inthdr' \in [Vec -> Inthdrs]
  BY <1>1, <1>3 DEF IntTypeOK
<1>6. /\ \A w \in Vec : w # v => hll_inthdr'[w] = hll_inthdr[w]
      /\ hll_inthdr'[v] = IF h \in Asm THEN hll_inthdr[v] ELSE h
  BY <1>1, <1>3 DEF IntTypeOK
<1>9. IntTypeOK'
  <2>2. DOMAIN intop' = IntCpu /\ intat' \in [IntCpu -> 0..6]
    BY <1>1, AfterStep
  <2>3. \A d \in IntCpu : intop'[d] # NoOp => IsOp(intop'[d]) /\ intat'[d] \in 1..Len(Steps(intop'[d]))
    BY <1>1, CallsAfter
  <2> QED BY <1>1, <1>4, <1>5, <2>2, <2>3 DEF IntTypeOK
<1>10. OneCall'
  BY <1>1, CallsAfter
<1>11. HoldsLock'
  BY <1>1, HoldsLockKept
<1>12. VectorsSound'
  <2>1. \A w \in Vec : IF intvec'[w] = Startup THEN hll_inthdr'[w] \in cur'[w] ELSE intvec'[w] \in cur'[w]
    BY <1>1, <1>3, <1>6 DEF VectorsSound
  <2>2. ASSUME NEW d \in IntCpu, irq'[d] # NoIrq
        PROVE  /\ cur'[irq'[d].v] \subseteq irq'[d].may
               /\ irq'[d].at = "startup" => hll_inthdr'[irq'[d].v] \in irq'[d].may
               /\ irq'[d].at = "in" => irq'[d].h \in irq'[d].may
    <3>1. irq'[d] = irq[d] /\ irq[d].v \in Vec /\ cur' = cur
      BY <1>1, <2>2 DEF IntTypeOK, Irqs
    <3> QED BY <1>3, <1>6, <2>2, <3>1 DEF VectorsSound
  <2> QED BY <2>1, <2>2 DEF VectorsSound
<1>13. DefineSound'
  <2>1. \A w \in Vec : w # v => intvec'[w] = intvec[w] /\ hll_inthdr'[w] = hll_inthdr[w] /\ cur'[w] = cur[w]
    BY <1>1, <1>6
  <2>2. ASSUME NEW d \in IntCpu, intop'[d] # NoOp, d # c
        PROVE  LET x == intop'[d] IN
               /\ x.do \in Targeting /\ intat'[d] > 1 => x.h \in cur'[x.v]
               /\ x.do = "def" =>
                    /\ intat'[d] > 2 /\ x.h \notin Asm => hll_inthdr'[x.v] = x.h
                    /\ intat'[d] > 3 => intvec'[x.v] = IF x.h \in Hll THEN Startup ELSE x.h
               /\ x.do = "undef" /\ intat'[d] > 4 => intvec'[x.v] = NoInthdr
    BY <1>1, <2>1, <2>2, OthersDefine
  <2>3. LET x == intop'[c] IN
               /\ x.do \in Targeting /\ intat'[c] > 1 => x.h \in cur'[x.v]
               /\ x.do = "def" =>
                    /\ intat'[c] > 2 /\ x.h \notin Asm => hll_inthdr'[x.v] = x.h
                    /\ intat'[c] > 3 => intvec'[x.v] = IF x.h \in Hll THEN Startup ELSE x.h
               /\ x.do = "undef" /\ intat'[c] > 4 => intvec'[x.v] = NoInthdr
    BY <1>1, <1>2, <1>3, <1>4, <1>6 DEF DefineSound
  <2> QED BY <2>2, <2>3 DEF DefineSound
<1>14. TargetSound'
  BY <1>1, TargetKeeps
<1> QED BY <1>9, <1>10, <1>11, <1>12, <1>13, <1>14

LEMMA VecKeeps == ASSUME IntInv, NEW c \in IntCpu, define_inthdr(c) PROVE IntInv'
<1> USE DEF IntInv
<1> DEFINE o == intop[c]
           v == intop[c].v
           h == intop[c].h
           entry == IF h \in Hll THEN Startup ELSE h
<1>1. /\ AtStep(c, "vec") /\ GoesOn(c)
      /\ UNCHANGED <<hll_inthdr, regs, enb, pend, word, intlock, irq, cur>>
      /\ intvec' = [intvec EXCEPT ![v] = entry]
  BY DEF define_inthdr
<1>2. o # NoOp /\ IsOp(o) /\ o.do \in Targeting /\ intat[c] \in {3, 4} /\ Len(Steps(o)) = 6
      /\ (o.do = "def" => intat[c] = 3) /\ (o.do = "undef" => intat[c] = 4)
  BY <1>1, StepAt DEF Targeting
<1>3. v \in Vec /\ h \in Inthdrs /\ h \in cur[v] /\ entry \in Inthdrs
  BY <1>2 DEF IsOp, Inthdrs, DefineSound
<1>4. intop'[c] = o /\ intat'[c] = intat[c] + 1 /\ want' = want
  <2>1. intat[c] # Len(Steps(o))
    BY <1>2
  <2> QED BY <1>1, <1>2, <2>1, AfterStep
<1>5. intvec' \in [Vec -> Inthdrs]
  BY <1>1, <1>3 DEF IntTypeOK
<1>6. intvec'[v] = entry /\ \A w \in Vec : w # v => intvec'[w] = intvec[w]
  BY <1>1, <1>3 DEF IntTypeOK
<1>7. IntTypeOK'
  <2>2. DOMAIN intop' = IntCpu /\ intat' \in [IntCpu -> 0..6]
    BY <1>1, AfterStep
  <2>3. \A d \in IntCpu : intop'[d] # NoOp => IsOp(intop'[d]) /\ intat'[d] \in 1..Len(Steps(intop'[d]))
    BY <1>1, CallsAfter
  <2> QED BY <1>1, <1>4, <1>5, <2>2, <2>3 DEF IntTypeOK
<1>8. OneCall'
  BY <1>1, CallsAfter
<1>9. HoldsLock'
  BY <1>1, HoldsLockKept
<1>10. VectorsSound'
  <2>1. o.do = "def" => (h \in Hll => hll_inthdr[v] = h)
    BY <1>2, IntAssumption DEF DefineSound
  <2>2. o.do = "undef" => entry = NoInthdr /\ h = NoInthdr
    BY <1>2, IntAssumption DEF IsOp
  <2>3. entry = Startup => h \in Hll /\ o.do = "def"
    BY <1>2, <2>2, IntAssumption DEF IsOp, Targeting, Startup, NoInthdr
  <2>4. IF intvec'[v] = Startup THEN hll_inthdr'[v] \in cur'[v] ELSE intvec'[v] \in cur'[v]
    BY <1>1, <1>3, <1>6, <2>1, <2>3
  <2>5. \A w \in Vec : IF intvec'[w] = Startup THEN hll_inthdr'[w] \in cur'[w] ELSE intvec'[w] \in cur'[w]
    BY <1>1, <1>6, <2>4 DEF VectorsSound
  <2> QED BY <1>1, <2>5 DEF VectorsSound
<1>11. DefineSound'
  <2>1. \A w \in Vec : w # v => intvec'[w] = intvec[w] /\ hll_inthdr'[w] = hll_inthdr[w] /\ cur'[w] = cur[w]
    BY <1>1, <1>6
  <2>2. ASSUME NEW d \in IntCpu, intop'[d] # NoOp, d # c
        PROVE  LET x == intop'[d] IN
               /\ x.do \in Targeting /\ intat'[d] > 1 => x.h \in cur'[x.v]
               /\ x.do = "def" =>
                    /\ intat'[d] > 2 /\ x.h \notin Asm => hll_inthdr'[x.v] = x.h
                    /\ intat'[d] > 3 => intvec'[x.v] = IF x.h \in Hll THEN Startup ELSE x.h
               /\ x.do = "undef" /\ intat'[d] > 4 => intvec'[x.v] = NoInthdr
    BY <1>1, <2>1, <2>2, OthersDefine
  <2>3. o.do = "undef" => entry = NoInthdr
    BY <1>2, IntAssumption DEF IsOp
  <2>4. LET x == intop'[c] IN
               /\ x.do \in Targeting /\ intat'[c] > 1 => x.h \in cur'[x.v]
               /\ x.do = "def" =>
                    /\ intat'[c] > 2 /\ x.h \notin Asm => hll_inthdr'[x.v] = x.h
                    /\ intat'[c] > 3 => intvec'[x.v] = IF x.h \in Hll THEN Startup ELSE x.h
               /\ x.do = "undef" /\ intat'[c] > 4 => intvec'[x.v] = NoInthdr
    BY <1>1, <1>2, <1>3, <1>4, <1>6, <2>3 DEF DefineSound
  <2> QED BY <2>2, <2>4 DEF DefineSound
<1>12. TargetSound'
  BY <1>1, TargetKeeps
<1> QED BY <1>7, <1>8, <1>9, <1>10, <1>11, <1>12

(* A step that leaves the handlers alone.                                  *)
LEMMA HandlersKeep ==
  ASSUME IntInv, NEW c \in IntCpu, NEW s, AtStep(c, s), GoesOn(c),
         s \notin {"lock", "hll", "vec", "unlock"},
         UNCHANGED <<intvec, hll_inthdr, cur, irq, intlock>>
  PROVE  OneCall' /\ HoldsLock' /\ VectorsSound' /\ DefineSound'
<1> USE DEF IntInv
<1> DEFINE o == intop[c]
<1>1. OneCall' /\ HoldsLock' /\ VectorsSound'
  BY CallsAfter, HoldsLockKept DEF VectorsSound
<1>2. ASSUME NEW d \in IntCpu, intop'[d] # NoOp, d # c
        PROVE  LET x == intop'[d] IN
               /\ x.do \in Targeting /\ intat'[d] > 1 => x.h \in cur'[x.v]
               /\ x.do = "def" =>
                    /\ intat'[d] > 2 /\ x.h \notin Asm => hll_inthdr'[x.v] = x.h
                    /\ intat'[d] > 3 => intvec'[x.v] = IF x.h \in Hll THEN Startup ELSE x.h
               /\ x.do = "undef" /\ intat'[d] > 4 => intvec'[x.v] = NoInthdr
  BY <1>2, OthersDefine
<1>3. ASSUME intop'[c] # NoOp
        PROVE  LET x == intop'[c] IN
               /\ x.do \in Targeting /\ intat'[c] > 1 => x.h \in cur'[x.v]
               /\ x.do = "def" =>
                    /\ intat'[c] > 2 /\ x.h \notin Asm => hll_inthdr'[x.v] = x.h
                    /\ intat'[c] > 3 => intvec'[x.v] = IF x.h \in Hll THEN Startup ELSE x.h
               /\ x.do = "undef" /\ intat'[c] > 4 => intvec'[x.v] = NoInthdr
  <2>1. intop'[c] = o /\ intat'[c] = intat[c] + 1 /\ o # NoOp /\ intat[c] \in 0..6
    BY <1>3, AfterStep, StepAt DEF IntTypeOK
  <2>2. (o.do = "def" => intat[c] > 3) /\ (o.do = "undef" => intat[c] \in {2, 3})
    <3>1. o # NoOp /\ (o.do \in Targeting => Len(Steps(o)) = 6)
      BY StepAt
    <3>2. o.do \in Targeting => intat[c] \in 1..6
      BY <3>1 DEF IntTypeOK
    <3> QED BY <3>1, <3>2 DEF AtStep, Steps, def_int, undef_int, Targeting
  <2> QED BY <2>1, <2>2 DEF DefineSound, Targeting
<1> QED BY <1>1, <1>2, <1>3 DEF DefineSound

LEMMA LoadKeeps == ASSUME IntInv, NEW c \in IntCpu, Load(c) PROVE IntInv'
<1> USE DEF IntInv
<1> DEFINE o == intop[c]
           k == KindOf(intop[c])
<1>1. /\ AtStep(c, "load") /\ GoesOn(c)
      /\ UNCHANGED <<intvec, hll_inthdr, regs, enb, pend, intlock, irq, cur>>
      /\ word' = [word EXCEPT ![c] = [resetSystem EXCEPT ![k] = regs[k]]]
  BY DEF Load
<1>2. o # NoOp /\ IsOp(o) /\ intat[c] \in 0..6
  BY <1>1, StepAt DEF IntTypeOK
<1>3. k = "cputrg" \/ k = "pri" \/ k = "config"
  BY DEF KindOf
<1>4. resetSystem \in Words /\ regs \in Words
  BY DEF resetSystem, Words, IntLevels, IntTypeOK
<1>5. [resetSystem EXCEPT ![k] = regs[k]] \in Words
  BY <1>3, <1>4 DEF Words
<1>6. k = "cputrg" => [resetSystem EXCEPT ![k] = regs[k]].cputrg = regs.cputrg
  BY <1>4 DEF Words
<1>7. word' \in [IntCpu -> Words] /\ \A d \in IntCpu : d # c => word'[d] = word[d]
  BY <1>1, <1>5 DEF IntTypeOK
<1>8. word'[c] = [resetSystem EXCEPT ![k] = regs[k]]
  BY <1>1 DEF IntTypeOK
<1>9. IntTypeOK'
  <2>1. want' \in Words
    BY <1>1, AfterWant
  <2>2. DOMAIN intop' = IntCpu /\ intat' \in [IntCpu -> 0..6]
    BY <1>1, AfterStep
  <2>3. \A d \in IntCpu : intop'[d] # NoOp => IsOp(intop'[d]) /\ intat'[d] \in 1..Len(Steps(intop'[d]))
    BY <1>1, CallsAfter
  <2> QED BY <1>1, <1>7, <2>1, <2>2, <2>3 DEF IntTypeOK
<1>10. OneCall' /\ HoldsLock' /\ VectorsSound' /\ DefineSound'
  BY <1>1, HandlersKeep
<1>11. TargetSound'
  <2>1. \A d \in IntCpu : d # c => intop'[d] = intop[d] /\ intat'[d] = intat[d]
    BY <1>1, AfterStep
  <2>2. intop'[c] = o /\ intat'[c] = intat[c] + 1 /\ want' = want
    <3>1. intat[c] # Len(Steps(o))
      BY <1>1, StepAt DEF Targeting
    <3> QED BY <1>1, <3>1, AfterStep
  <2>3. o.do \in Targeting => word'[c].cputrg = regs.cputrg /\ (o.do = "def" => intat[c] = 4)
                              /\ (o.do = "undef" => intat[c] = 2)
    <3>1. o.do \in Targeting => k = "cputrg"
      BY DEF KindOf, Targeting
    <3> QED BY <1>1, <1>6, <1>8, <3>1, StepAt DEF Targeting
  <2>4. \A d \in IntCpu : intop'[d] # NoOp =>
          /\ (intop'[d].do = "def" /\ intat'[d] = 5) \/ (intop'[d].do = "undef" /\ intat'[d] = 3)
               => word'[d].cputrg = regs'.cputrg
          /\ (intop'[d].do = "def" /\ intat'[d] > 5) \/ (intop'[d].do = "undef" /\ intat'[d] > 3)
               => regs'.cputrg[intop'[d].v] = intop'[d].to
    <3>1. ASSUME NEW d \in IntCpu, d # c, intop'[d] # NoOp
          PROVE  /\ (intop'[d].do = "def" /\ intat'[d] = 5) \/ (intop'[d].do = "undef" /\ intat'[d] = 3)
                      => word'[d].cputrg = regs'.cputrg
                 /\ (intop'[d].do = "def" /\ intat'[d] > 5) \/ (intop'[d].do = "undef" /\ intat'[d] > 3)
                      => regs'.cputrg[intop'[d].v] = intop'[d].to
      BY <1>1, <1>7, <2>1, <3>1 DEF TargetSound
    <3>2. /\ (o.do = "def" /\ intat'[c] = 5) \/ (o.do = "undef" /\ intat'[c] = 3)
                      => word'[c].cputrg = regs'.cputrg
          /\ ~((o.do = "def" /\ intat'[c] > 5) \/ (o.do = "undef" /\ intat'[c] > 3))
      BY <1>1, <2>2, <2>3 DEF Targeting
    <3> QED BY <2>2, <3>1, <3>2
  <2>5. ASSUME NEW w \in Vec,
               \A d \in IntCpu : intop'[d] # NoOp /\ intop'[d].v = w => intop'[d].do \notin Targeting
        PROVE  regs'.cputrg[w] = want'.cputrg[w]
    BY <1>1, <2>1, <2>2, <2>5 DEF TargetSound
  <2> QED BY <2>4, <2>5 DEF TargetSound
<1> QED BY <1>9, <1>10, <1>11

\* Only the step that lets go of the lock may change the targets asked for.
LEMMA KeptTarget ==
  ASSUME IntTypeOK, NEW c \in IntCpu, AtStep(c, "store"), GoesOn(c)
  PROVE  want'.cputrg = want.cputrg
<1> DEFINE o == intop[c]
<1>1. o # NoOp /\ IsOp(o) /\ want \in Words
  BY StepAt DEF IntTypeOK
<1>2. CASE intat[c] < Len(Steps(o))
  BY <1>2 DEF GoesOn
<1>3. CASE ~(intat[c] < Len(Steps(o)))
  <2>1. want' = [want EXCEPT ![KindOf(o)][o.v] = Field(o)]
    BY <1>3 DEF GoesOn
  <2>2. CASE o.do = "mode"
    <3>1. KindOf(o) = "config"
      BY <2>2 DEF KindOf
    <3> QED BY <1>1, <2>1, <3>1 DEF Words
  <2>3. CASE o.do = "enable"
    <3>1. KindOf(o) = "pri"
      BY <2>3 DEF KindOf
    <3> QED BY <1>1, <2>1, <3>1 DEF Words
  <2>4. o.do \notin Targeting
    <3>1. ASSUME o.do \in Targeting PROVE intat[c] = 6
      BY <3>1, <1>3, <1>1, StepAt DEF IntTypeOK
    <3> QED BY <3>1 DEF AtStep, Steps, def_int, undef_int, Targeting
  <2> QED BY <1>1, <2>2, <2>3, <2>4 DEF IsOp, Targeting
<1> QED BY <1>2, <1>3


LEMMA StoreKeeps == ASSUME IntInv, NEW c \in IntCpu, Store(c) PROVE IntInv'
<1> USE DEF IntInv
<1> DEFINE o == intop[c]
           k == KindOf(intop[c])
           new == [word[c][k] EXCEPT ![o.v] = Field(o)]
<1>1. /\ AtStep(c, "store") /\ GoesOn(c)
      /\ UNCHANGED <<intvec, hll_inthdr, enb, pend, intlock, irq, cur>>
      /\ regs' = [regs EXCEPT ![k] = new]
      /\ word' = [word EXCEPT ![c] = resetSystem]
  BY DEF Store
<1>2. o # NoOp /\ IsOp(o) /\ intat[c] \in 0..6 /\ o.v \in Vec
  BY <1>1, StepAt DEF IntTypeOK, IsOp
<1>3. /\ o.do \in Targeting => k = "cputrg" /\ Field(o) = o.to /\ o.to \in SUBSET IntCpu
      /\ o.do = "enable" => k = "pri" /\ Field(o) = o.x /\ o.x \in IntLevels
      /\ o.do = "mode" => k = "config" /\ Field(o) = o.x /\ o.x \in IntLevels
      /\ o.do \in Targeting \/ o.do = "enable" \/ o.do = "mode"
  BY <1>2 DEF KindOf, Field, IsOp, Targeting
<1>4. resetSystem \in Words /\ regs \in Words /\ word[c] \in Words
  BY DEF resetSystem, Words, IntLevels, IntTypeOK
<1>5. regs' \in Words /\ (k # "cputrg" => regs'.cputrg = regs.cputrg)
      /\ (k = "cputrg" => regs'.cputrg = [word[c].cputrg EXCEPT ![o.v] = o.to])
  <2>1. CASE o.do \in Targeting
    <3>1. regs' = [regs EXCEPT !.cputrg = [word[c].cputrg EXCEPT ![o.v] = o.to]]
      BY <1>1, <1>3, <2>1
    <3> QED BY <1>2, <1>3, <1>4, <2>1, <3>1 DEF Words
  <2>2. CASE o.do = "enable"
    <3>1. regs' = [regs EXCEPT !.pri = [word[c].pri EXCEPT ![o.v] = o.x]]
      BY <1>1, <1>3, <2>2
    <3> QED BY <1>2, <1>3, <1>4, <2>2, <3>1 DEF Words
  <2>3. CASE o.do = "mode"
    <3>1. regs' = [regs EXCEPT !.config = [word[c].config EXCEPT ![o.v] = o.x]]
      BY <1>1, <1>3, <2>3
    <3> QED BY <1>2, <1>3, <1>4, <2>3, <3>1 DEF Words
  <2> QED BY <1>3, <2>1, <2>2, <2>3
<1>6. word' \in [IntCpu -> Words] /\ \A d \in IntCpu : d # c => word'[d] = word[d]
  BY <1>1, <1>4 DEF IntTypeOK
<1>7. IntTypeOK'
  <2>1. want' \in Words
    BY <1>1, AfterWant
  <2>2. DOMAIN intop' = IntCpu /\ intat' \in [IntCpu -> 0..6]
    BY <1>1, AfterStep
  <2>3. \A d \in IntCpu : intop'[d] # NoOp => IsOp(intop'[d]) /\ intat'[d] \in 1..Len(Steps(intop'[d]))
    BY <1>1, CallsAfter
  <2> QED BY <1>1, <1>5, <1>6, <2>1, <2>2, <2>3 DEF IntTypeOK
<1>8. OneCall' /\ HoldsLock' /\ VectorsSound' /\ DefineSound'
  BY <1>1, HandlersKeep
<1>9. /\ \A d \in IntCpu : d # c => intop'[d] = intop[d] /\ intat'[d] = intat[d]
      /\ intop'[c] # NoOp => intop'[c] = o /\ intat'[c] = intat[c] + 1
      /\ want'.cputrg = want.cputrg
  <2>1. /\ \A d \in IntCpu : d # c => intop'[d] = intop[d] /\ intat'[d] = intat[d]
        /\ intop'[c] # NoOp => intop'[c] = o /\ intat'[c] = intat[c] + 1
    BY <1>1, AfterStep
  <2>2. want'.cputrg = want.cputrg
    BY <1>1, KeptTarget
  <2> QED BY <2>1, <2>2
<1>10. CASE o.do \in Targeting
  <2>1. /\ o.do = "def" => intat[c] = 5
        /\ o.do = "undef" => intat[c] = 3
        /\ intat[c] # Len(Steps(o)) /\ intat[c] > 1
    BY <1>1, <1>10, StepAt DEF Targeting
  <2>2. intop'[c] = o /\ intat'[c] = intat[c] + 1
    BY <1>1, <2>1, AfterStep
  <2>3. word[c].cputrg = regs.cputrg
    BY <1>2, <1>10, <2>1 DEF TargetSound, Targeting
  <2>4. regs'.cputrg = [regs.cputrg EXCEPT ![o.v] = o.to]
    BY <1>3, <1>5, <1>10, <2>3
  <2>5. regs'.cputrg[o.v] = o.to /\ \A w \in Vec : w # o.v => regs'.cputrg[w] = regs.cputrg[w]
    BY <1>2, <1>4, <2>4 DEF Words
  <2>6. ASSUME NEW d \in IntCpu, d # c, intop'[d] # NoOp
        PROVE  /\ ~((intop'[d].do = "def" /\ intat'[d] = 5) \/ (intop'[d].do = "undef" /\ intat'[d] = 3))
               /\ (intop'[d].do = "def" /\ intat'[d] > 5) \/ (intop'[d].do = "undef" /\ intat'[d] > 3)
                      => regs'.cputrg[intop'[d].v] = intop'[d].to
    <3>1. intlock = c
      BY <1>2, <1>10, <2>1 DEF HoldsLock
    <3>2. intop'[d] = intop[d] /\ intat'[d] = intat[d] /\ intat[d] \in 0..6 /\ intop[d].v \in Vec
      BY <1>9, <2>6 DEF IntTypeOK, IsOp
    <3>3. ~(intop[d].do \in Targeting /\ intat[d] > 1)
      BY <2>6, <3>1, <3>2 DEF HoldsLock
    <3> QED BY <3>2, <3>3 DEF Targeting
  <2>7. \A d \in IntCpu : intop'[d] # NoOp =>
          /\ (intop'[d].do = "def" /\ intat'[d] = 5) \/ (intop'[d].do = "undef" /\ intat'[d] = 3)
               => word'[d].cputrg = regs'.cputrg
          /\ (intop'[d].do = "def" /\ intat'[d] > 5) \/ (intop'[d].do = "undef" /\ intat'[d] > 3)
               => regs'.cputrg[intop'[d].v] = intop'[d].to
    BY <2>1, <2>2, <2>5, <2>6
  <2>8. ASSUME NEW w \in Vec,
               \A d \in IntCpu : intop'[d] # NoOp /\ intop'[d].v = w => intop'[d].do \notin Targeting
        PROVE  regs'.cputrg[w] = want'.cputrg[w]
    <3>1. w # o.v
      BY <1>2, <1>10, <2>2, <2>8
    <3>2. \A d \in IntCpu : intop[d] # NoOp /\ intop[d].v = w => intop[d].do \notin Targeting
      BY <1>9, <2>2, <2>8
    <3> QED BY <1>9, <2>5, <3>1, <3>2 DEF TargetSound
  <2> QED BY <1>7, <1>8, <2>7, <2>8 DEF TargetSound
<1>11. CASE o.do \notin Targeting
  <2>1. regs'.cputrg = regs.cputrg
    BY <1>3, <1>5, <1>11
  <2>2. \A d \in IntCpu : intop'[d] # NoOp =>
          /\ (intop'[d].do = "def" /\ intat'[d] = 5) \/ (intop'[d].do = "undef" /\ intat'[d] = 3)
               => word'[d].cputrg = regs'.cputrg
          /\ (intop'[d].do = "def" /\ intat'[d] > 5) \/ (intop'[d].do = "undef" /\ intat'[d] > 3)
               => regs'.cputrg[intop'[d].v] = intop'[d].to
    <3>1. ASSUME NEW d \in IntCpu, d # c, intop'[d] # NoOp
          PROVE  /\ (intop'[d].do = "def" /\ intat'[d] = 5) \/ (intop'[d].do = "undef" /\ intat'[d] = 3)
                      => word'[d].cputrg = regs'.cputrg
                 /\ (intop'[d].do = "def" /\ intat'[d] > 5) \/ (intop'[d].do = "undef" /\ intat'[d] > 3)
                      => regs'.cputrg[intop'[d].v] = intop'[d].to
      BY <1>6, <1>9, <2>1, <3>1 DEF TargetSound
    <3>2. intop'[c] # NoOp => intop'[c].do \notin Targeting
      BY <1>9, <1>11
    <3> QED BY <3>1, <3>2 DEF Targeting
  <2>3. ASSUME NEW w \in Vec,
               \A d \in IntCpu : intop'[d] # NoOp /\ intop'[d].v = w => intop'[d].do \notin Targeting
        PROVE  regs'.cputrg[w] = want'.cputrg[w]
    <3>2. \A d \in IntCpu : intop[d] # NoOp /\ intop[d].v = w => intop[d].do \notin Targeting
      BY <1>9, <1>11, <2>3
    <3> QED BY <1>9, <2>1, <3>2 DEF TargetSound
  <2> QED BY <1>7, <1>8, <2>2, <2>3 DEF TargetSound
<1> QED BY <1>10, <1>11

LEMMA EnbKeeps == ASSUME IntInv, NEW c \in IntCpu, EnbSet(c) PROVE IntInv'
<1> USE DEF IntInv
<1>1. /\ AtStep(c, "enbset") /\ GoesOn(c)
      /\ UNCHANGED <<intvec, hll_inthdr, regs, pend, word, intlock, irq, cur>>
  BY DEF EnbSet
<1>2. IntTypeOK'
  <2>1. want' \in Words
    BY <1>1, AfterWant
  <2>2. DOMAIN intop' = IntCpu /\ intat' \in [IntCpu -> 0..6]
    BY <1>1, AfterStep
  <2>3. \A d \in IntCpu : intop'[d] # NoOp => IsOp(intop'[d]) /\ intat'[d] \in 1..Len(Steps(intop'[d]))
    BY <1>1, CallsAfter
  <2> QED BY <1>1, <2>1, <2>2, <2>3 DEF IntTypeOK
<1>3. OneCall' /\ HoldsLock' /\ VectorsSound' /\ DefineSound'
  BY <1>1, HandlersKeep
<1>4. TargetSound'
  BY <1>1, TargetKeeps
<1> QED BY <1>2, <1>3, <1>4

LEMMA UnlockKeeps == ASSUME IntInv, NEW c \in IntCpu, END_CRITICAL_NO_DISPATCH(c) PROVE IntInv'
<1> USE DEF IntInv
<1> DEFINE o == intop[c]
           v == intop[c].v
           h == intop[c].h
<1>1. /\ AtStep(c, "unlock") /\ GoesOn(c) /\ intlock' = "nobody"
      /\ UNCHANGED <<intvec, hll_inthdr, regs, enb, pend, word, irq>>
      /\ cur' = [cur EXCEPT ![v] = {h}]
  BY DEF END_CRITICAL_NO_DISPATCH
<1>2. o # NoOp /\ IsOp(o) /\ o.do \in Targeting /\ intat[c] = 6 /\ Len(Steps(o)) = 6
  BY <1>1, StepAt
<1>3. v \in Vec /\ h \in Inthdrs /\ h \in cur[v]
  BY <1>2 DEF IsOp, Inthdrs, DefineSound
<1>4. intop'[c] = NoOp /\ \A d \in IntCpu : d # c => intop'[d] = intop[d] /\ intat'[d] = intat[d]
  BY <1>1, <1>2, AfterStep
<1>5. want' \in Words /\ want'.cputrg = [want.cputrg EXCEPT ![v] = o.to]
  BY <1>1, AfterWant
<1>6. cur' \in [Vec -> SUBSET Inthdrs] /\ cur'[v] = {h} /\ \A w \in Vec : w # v => cur'[w] = cur[w]
  BY <1>1, <1>3 DEF IntTypeOK
<1>7. IntTypeOK'
  <2>2. DOMAIN intop' = IntCpu /\ intat' \in [IntCpu -> 0..6]
    BY <1>1, AfterStep
  <2>3. \A d \in IntCpu : intop'[d] # NoOp => IsOp(intop'[d]) /\ intat'[d] \in 1..Len(Steps(intop'[d]))
    BY <1>1, CallsAfter
  <2> QED BY <1>1, <1>5, <1>6, <2>2, <2>3 DEF IntTypeOK
<1>8. OneCall'
  BY <1>1, CallsAfter
<1>9. HoldsLock'
  <2>1. intlock = c
    BY <1>2 DEF HoldsLock
  <2> QED BY <1>1, <1>4, <2>1, IntAssumption DEF HoldsLock
<1>10. VectorsSound'
  <2>1. IF intvec[v] = Startup THEN hll_inthdr[v] = h ELSE intvec[v] = h
    <3>1. CASE o.do = "def"
      BY <1>2, <3>1, IntAssumption DEF DefineSound, IsOp
    <3>2. CASE o.do = "undef"
      BY <1>2, <3>2 DEF DefineSound, IsOp, Startup, NoInthdr
    <3> QED BY <1>2, <3>1, <3>2 DEF Targeting
  <2>2. \A w \in Vec : IF intvec'[w] = Startup THEN hll_inthdr'[w] \in cur'[w] ELSE intvec'[w] \in cur'[w]
    BY <1>1, <1>6, <2>1 DEF VectorsSound
  <2>3. ASSUME NEW d \in IntCpu, irq'[d] # NoIrq
        PROVE  /\ cur'[irq'[d].v] \subseteq irq'[d].may
               /\ irq'[d].at = "startup" => hll_inthdr'[irq'[d].v] \in irq'[d].may
               /\ irq'[d].at = "in" => irq'[d].h \in irq'[d].may
    <3>1. irq'[d] = irq[d] /\ irq[d].v \in Vec /\ hll_inthdr' = hll_inthdr
      BY <1>1, <2>3 DEF IntTypeOK, Irqs
    <3>2. cur'[irq[d].v] \subseteq cur[irq[d].v]
      BY <1>3, <1>6, <3>1
    <3> QED BY <2>3, <3>1, <3>2 DEF VectorsSound
  <2> QED BY <2>2, <2>3 DEF VectorsSound
<1>11. DefineSound'
  <2>1. \A w \in Vec : w # v => intvec'[w] = intvec[w] /\ hll_inthdr'[w] = hll_inthdr[w] /\ cur'[w] = cur[w]
    BY <1>1, <1>6
  <2>2. ASSUME NEW d \in IntCpu, intop'[d] # NoOp, d # c
        PROVE  LET x == intop'[d] IN
               /\ x.do \in Targeting /\ intat'[d] > 1 => x.h \in cur'[x.v]
               /\ x.do = "def" =>
                    /\ intat'[d] > 2 /\ x.h \notin Asm => hll_inthdr'[x.v] = x.h
                    /\ intat'[d] > 3 => intvec'[x.v] = IF x.h \in Hll THEN Startup ELSE x.h
               /\ x.do = "undef" /\ intat'[d] > 4 => intvec'[x.v] = NoInthdr
    BY <1>1, <2>1, <2>2, OthersDefine
  <2> QED BY <1>4, <2>2 DEF DefineSound
<1>12. TargetSound'
  <2>1. \A d \in IntCpu : intop'[d] # NoOp =>
          /\ (intop'[d].do = "def" /\ intat'[d] = 5) \/ (intop'[d].do = "undef" /\ intat'[d] = 3)
               => word'[d].cputrg = regs'.cputrg
          /\ (intop'[d].do = "def" /\ intat'[d] > 5) \/ (intop'[d].do = "undef" /\ intat'[d] > 3)
               => regs'.cputrg[intop'[d].v] = intop'[d].to
    BY <1>1, <1>4 DEF TargetSound
  <2>2. regs.cputrg[v] = o.to
    BY <1>2 DEF TargetSound, Targeting
  <2>3. want'.cputrg[v] = o.to /\ \A w \in Vec : w # v => want'.cputrg[w] = want.cputrg[w]
    BY <1>3, <1>5 DEF IntTypeOK, Words
  <2>4. ASSUME NEW w \in Vec,
               \A d \in IntCpu : intop'[d] # NoOp /\ intop'[d].v = w => intop'[d].do \notin Targeting
        PROVE  regs'.cputrg[w] = want'.cputrg[w]
    <3>1. CASE w = v
      BY <1>1, <2>2, <2>3, <3>1
    <3>2. CASE w # v
      <4>1. \A d \in IntCpu : intop[d] # NoOp /\ intop[d].v = w => intop[d].do \notin Targeting
        BY <1>4, <2>4, <3>2
      <4> QED BY <1>1, <2>3, <3>2, <4>1 DEF TargetSound
    <3> QED BY <3>1, <3>2
  <2> QED BY <2>1, <2>4 DEF TargetSound
<1> QED BY <1>7, <1>8, <1>9, <1>10, <1>11, <1>12

(* The drivers and the devices touch enb and pend alone.                   *)
LEMMA RaiseKeeps ==
  ASSUME IntInv, Raise \/ \E c \in IntCpu : DisableInt(c) \/ ClearInt(c)
  PROVE  IntInv'
<1>1. UNCHANGED <<intvec, hll_inthdr, regs, intop, intat, word, intlock, irq, want, cur>>
  BY DEF Raise, DisableInt, ClearInt, calls
<1>2. pend' \subseteq Vec
  BY DEF Raise, DisableInt, ClearInt, IntInv, IntTypeOK
<1>3. IntTypeOK'
  BY <1>1, <1>2 DEF IntInv, IntTypeOK
<1>4. OneCall' /\ HoldsLock' /\ VectorsSound' /\ DefineSound' /\ TargetSound'
  BY <1>1 DEF IntInv, OneCall, HoldsLock, VectorsSound, DefineSound, TargetSound
<1> QED BY <1>3, <1>4 DEF IntInv

(* A processor enters an interrupt, goes on in it or leaves it.            *)
LEMMA IrqKeeps ==
  ASSUME IntInv, NEW c \in IntCpu, NEW i, irq' = [irq EXCEPT ![c] = i],
         UNCHANGED <<intvec, hll_inthdr, regs, intop, intat, word, intlock, want, cur>>,
         pend' \subseteq pend,
         i # NoIrq => /\ i \in Irqs /\ cur[i.v] \subseteq i.may
                      /\ i.at = "startup" => hll_inthdr[i.v] \in i.may
                      /\ i.at = "in" => i.h \in i.may
  PROVE  IntInv'
<1> USE DEF IntInv
<1>1. DOMAIN irq' = IntCpu /\ irq'[c] = i /\ \A d \in IntCpu : d # c => irq'[d] = irq[d]
  BY DEF IntTypeOK
<1>2. IntTypeOK'
  BY <1>1 DEF IntTypeOK
<1>3. VectorsSound'
  BY <1>1 DEF VectorsSound
<1>4. OneCall' /\ HoldsLock' /\ DefineSound' /\ TargetSound'
  BY DEF OneCall, HoldsLock, DefineSound, TargetSound
<1> QED BY <1>2, <1>3, <1>4

LEMMA AcceptKeeps == ASSUME IntInv, NEW c \in IntCpu, Accept(c) PROVE IntInv'
<1> USE DEF IntInv
<1>1. PICK v \in pend \cap enb :
         /\ pend' = pend \ {v}
         /\ irq' = [irq EXCEPT ![c] = [v |-> v, at |-> "vector", h |-> NoInthdr, may |-> cur[v]]]
  BY DEF Accept
<1> DEFINE i == [v |-> v, at |-> "vector", h |-> NoInthdr, may |-> cur[v]]
<1>2. v \in Vec /\ cur[v] \in SUBSET Inthdrs
  BY DEF IntTypeOK
<1>3. i \in Irqs /\ cur[i.v] \subseteq i.may /\ i.at = "vector"
  BY <1>2 DEF Irqs, Inthdrs
<1>4. /\ UNCHANGED <<intvec, hll_inthdr, regs, intop, intat, word, intlock, want, cur>>
      /\ pend' \subseteq pend /\ irq' = [irq EXCEPT ![c] = i]
  BY <1>1 DEF Accept, calls
<1> HIDE DEF i
<1> QED BY <1>3, <1>4, IrqKeeps

LEMMA EntryKeeps ==
  ASSUME IntInv, NEW c \in IntCpu, ReadVector(c) \/ inthdr_startup(c) \/ EndOfInt(c)
  PROVE  IntInv'
<1> USE DEF IntInv
<1> DEFINE x == irq[c]
           v == irq[c].v
<1>1. /\ UNCHANGED <<intvec, hll_inthdr, regs, intop, intat, word, intlock, want, cur>>
      /\ pend' \subseteq pend /\ x # NoIrq
  BY DEF ReadVector, inthdr_startup, EndOfInt, calls
<1>2. x \in Irqs /\ v \in Vec /\ cur[v] \subseteq x.may
  BY <1>1 DEF IntTypeOK, Irqs, VectorsSound
<1>3. intvec[v] \in Inthdrs /\ hll_inthdr[v] \in Inthdrs
  BY <1>2 DEF IntTypeOK
<1>4. CASE ReadVector(c)
  <2> DEFINE h == intvec[v]
             i == [x EXCEPT !.at = IF h = Startup THEN "startup" ELSE "in", !.h = h]
  <2>1. irq' = [irq EXCEPT ![c] = i]
    BY <1>4 DEF ReadVector
  <2>2. i \in Irqs /\ i.v = v /\ i.may = x.may /\ i.h = h
        /\ i.at = IF h = Startup THEN "startup" ELSE "in"
    BY <1>2, <1>3 DEF Irqs
  <2>3. IF h = Startup THEN hll_inthdr[v] \in x.may ELSE h \in x.may
    BY <1>2 DEF VectorsSound
  <2>4. /\ cur[i.v] \subseteq i.may
        /\ i.at = "startup" => hll_inthdr[i.v] \in i.may
        /\ i.at = "in" => i.h \in i.may
    BY <1>2, <2>2, <2>3
  <2> HIDE DEF i
  <2> QED BY <1>1, <2>1, <2>2, <2>4, IrqKeeps
<1>5. CASE inthdr_startup(c)
  <2> DEFINE i == [x EXCEPT !.at = "in", !.h = hll_inthdr[v]]
  <2>1. irq' = [irq EXCEPT ![c] = i] /\ x.at = "startup"
    BY <1>5 DEF inthdr_startup
  <2>2. i \in Irqs /\ i.v = v /\ i.may = x.may /\ i.h = hll_inthdr[v] /\ i.at = "in"
    BY <1>2, <1>3 DEF Irqs
  <2>3. hll_inthdr[v] \in x.may
    BY <1>1, <2>1 DEF VectorsSound
  <2>4. /\ cur[i.v] \subseteq i.may
        /\ i.at = "startup" => hll_inthdr[i.v] \in i.may
        /\ i.at = "in" => i.h \in i.may
    BY <1>2, <2>2, <2>3
  <2> HIDE DEF i
  <2> QED BY <1>1, <2>1, <2>2, <2>4, IrqKeeps
<1>6. CASE EndOfInt(c)
  <2>1. irq' = [irq EXCEPT ![c] = NoIrq]
    BY <1>6 DEF EndOfInt
  <2> QED BY <1>1, <2>1, IrqKeeps
<1> QED BY <1>4, <1>5, <1>6

LEMMA IntNextInv == IntInv /\ [IntNext]_intvars => IntInv'
<1> SUFFICES ASSUME IntInv, [IntNext]_intvars PROVE IntInv'
  OBVIOUS
<1>1. CASE UNCHANGED intvars
  BY <1>1 DEF intvars, IntInv, IntTypeOK, OneCall, HoldsLock, VectorsSound, DefineSound, TargetSound
<1>2. CASE Raise
  BY <1>2, RaiseKeeps
<1>3. ASSUME NEW c \in IntCpu,
             \/ Begin(c) \/ BEGIN_CRITICAL_SECTION(c) \/ DefineHll(c) \/ define_inthdr(c)
             \/ Load(c) \/ Store(c) \/ EnbSet(c) \/ END_CRITICAL_NO_DISPATCH(c)
      PROVE  IntInv'
  BY <1>3, BeginKeeps, LockKeeps, HllKeeps, VecKeeps, LoadKeeps, StoreKeeps, EnbKeeps, UnlockKeeps
<1>4. ASSUME NEW c \in IntCpu,
             \/ DisableInt(c) \/ ClearInt(c) \/ Accept(c) \/ ReadVector(c) \/ inthdr_startup(c)
             \/ EndOfInt(c)
      PROVE  IntInv'
  BY <1>4, RaiseKeeps, AcceptKeeps, EntryKeeps
<1> QED BY <1>1, <1>2, <1>3, <1>4 DEF IntNext

LEMMA IntInvSafe == IntInv => HandlerCurrent /\ TargetKept
<1> SUFFICES ASSUME IntInv PROVE HandlerCurrent /\ TargetKept
  OBVIOUS
<1>1. HandlerCurrent
  BY DEF IntInv, VectorsSound, HandlerCurrent
<1>2. TargetKept
  BY DEF IntInv, TargetSound, TargetKept, InCall
<1> QED BY <1>1, <1>2

-----------------------------------------------------------------------------
(***************************************************************************)
(* Extended SVCs and exceptions.  The frames of a task are the calls it is *)
(* in: all but the innermost one are in the code of their caller.          *)
(***************************************************************************)
Saves == [execssid : Ssid \cup {0}, ran : BOOLEAN, exectex : SUBSET Texcd]
Flags == {"SSFN", "TEX0", "TEX1"}
Excs == [texhdr : BOOLEAN, texmask : SUBSET Texcd, pendtex : SUBSET Texcd, exectex : SUBSET Texcd,
         texflg : SUBSET Flags, reqdct : BOOLEAN, execssid : Ssid \cup {0}, ran : BOOLEAN]

SvcFrame(f) ==
  /\ {"ssid", "brks", "save"} \subseteq DOMAIN f
  /\ f.at \in {"LOCK", "ENTER", "BODY", "LEAVE", "OUT", "SELF"}
  /\ f.ssid \in Ssid /\ f.brks \in 0..1 /\ f.save \in Saves
  /\ f.at \in {"LOCK", "ENTER"} => f.brks = 0
RaiseFrame(f) ==
  /\ {"tsk", "texcd"} \subseteq DOMAIN f
  /\ f.at \in {"LOCK", "RAISE", "BREAK", "UNLOCK", "REFUSED", "SELF"}
  /\ f.tsk \in Task /\ f.texcd \in Texcd
BreakFrame(f) ==
  {"tsk", "save"} \subseteq DOMAIN f /\ f.at = "BODY" /\ f.tsk \in Task /\ f.save \subseteq Flags
SsfnFrame(f) == {"todo", "save"} \subseteq DOMAIN f /\ f.at \in {"BODY", "SELF"} /\ f.save \subseteq Flags

IsFrame(f) ==
  /\ {"fn", "at"} \subseteq DOMAIN f
  /\ \/ f.fn = "SVC" /\ SvcFrame(f)
     \/ f.fn = "RAISE" /\ RaiseFrame(f)
     \/ f.fn = "BREAK" /\ BreakFrame(f)
     \/ f.fn = "SSFN" /\ SsfnFrame(f)
     \/ f.fn = "TEX" /\ f.at = "BODY"

IsStack(s) == s \in Seq(ToSet(s)) /\ \A i \in 1..Len(s) : IsFrame(s[i])

(* Below the innermost call, and a break function runs within tk_ras_tex.  *)
Outer(f) == f.fn \in {"SVC", "SSFN", "TEX"} /\ f.at = "BODY"
Breaking(f, g) == f.fn = "BREAK" /\ g.fn = "RAISE" /\ g.at = "UNLOCK" /\ f.tsk = g.tsk
Nested(s) == \A i \in 1..Len(s) :
  /\ s[i].fn = "TEX" => i = Len(s)
  /\ i > 1 => Outer(s[i]) \/ (i = 2 /\ Breaking(s[1], s[2]))

TexTypeOK ==
  /\ ssycb \in [Ssid -> {NOSVC} \cup 1..NUM_SSYPRI]
  /\ ssypri_table \in [1..NUM_SSYPRI -> Seq(Ssid)]
  /\ live \subseteq Task
  /\ locks \in [held : [Task -> Seq(Task)], wtskq : [Task -> {NOSVC} \cup Seq(Task)]]
  /\ tex \in [Task -> Excs]
  /\ act = [t \in Task |-> act[t]]
  /\ \A t \in Task : IsStack(act[t]) /\ Nested(act[t]) /\ (act[t] # <<>> => t \in live)

(* What execssid and its flag say of the frames below the n-th one, and    *)
(* what each extended SVC has saved of those below it.                     *)
Svcs(s) == {i \in 1..Len(s) : Entered(s[i])}
Tells(s, n, ssid, ran) ==
  \/ /\ ssid = 0
     /\ \A i \in Svcs(s) : i <= n
  \/ \E i \in Svcs(s) :
       /\ i > n /\ \A j \in Svcs(s) : j > n => i <= j
       /\ ssid = s[i].ssid /\ (ran <=> s[i].brks = 1)
Traced(s, e) ==
  /\ Tells(s, 0, e.execssid, e.ran)
  /\ \A k \in Svcs(s) : Tells(s, k, s[k].save.execssid, s[k].save.ran)

(* The same for the flag of break and subsystem functions.                 *)
Flagging(f) == f.fn = "BREAK" \/ (f.fn = "SSFN" /\ f.at = "BODY")
FlagTells(s, n, flags) == "SSFN" \in flags <=> \E i \in 1..Len(s) : i > n /\ Flagging(s[i])
Flagged(s, e) ==
  /\ FlagTells(s, 0, e.texflg)
  /\ \A k \in 1..Len(s) : Flagging(s[k]) =>
       FlagTells(s, k, s[k].save) /\ s[k].save \ {"SSFN"} = e.texflg \ {"SSFN"}

(* Exceptions that were raised have a handler, now or after the extended   *)
(* SVC that has saved them.                                                *)
Kept(s, e) == e.exectex \cup UNION {s[k].save.exectex : k \in Svcs(s)}
Served(s, e) ==
  /\ Kept(s, e) # {} => e.texhdr /\ e.reqdct
  /\ e.pendtex # {} =>
       e.texhdr /\ (Kept(s, e) # {} \/ "TEX0" \in e.texflg \/ "TEX1" \in e.texflg)
  /\ 0 \in e.pendtex => 0 \in Kept(s, e) \/ "TEX0" \in e.texflg

TasksSound == \A t \in Task :
  Traced(act[t], tex[t]) /\ Flagged(act[t], tex[t]) /\ Served(act[t], tex[t])

(* The lock a task has or is about to take, if its call needs one.         *)
Needs(t, s) == IF s[1].fn = "SVC" THEN t ELSE s[1].tsk
TakesLock(s) == s # <<>> /\ s[1].at \in {"LOCK", "LEAVE"}
HasLock(s) == s # <<>> /\
  \/ s[1].fn = "SVC" /\ s[1].at \in {"ENTER", "OUT"}
  \/ s[1].fn = "RAISE" /\ s[1].at \in {"RAISE", "BREAK", "UNLOCK", "REFUSED"}
  \/ s[1].fn = "BREAK" /\ Len(s) > 1 /\ s[2].fn = "RAISE"

HeldRight(t, s, held) ==
  \/ HasLock(s) /\ held = <<Needs(t, s)>>
  \/ TakesLock(s) /\ held = <<Needs(t, s)>>
  \/ ~HasLock(s) /\ held = <<>>

LocksSound ==
  /\ \A t \in Task : HeldRight(t, act[t], locks.held[t])
  /\ \A x \in Task : locks.wtskq[x] # NOSVC <=> \E t \in Task : locks.held[t] = <<x>>
  /\ \A t, u \in Task : locks.held[t] = locks.held[u] /\ locks.held[t] # <<>> => t = u
  /\ \A x \in Task : locks.wtskq[x] # NOSVC =>
       /\ IsInjective(locks.wtskq[x])
       /\ \A i \in 1..Len(locks.wtskq[x]) :
            LET w == locks.wtskq[x][i]
            IN  TakesLock(act[w]) /\ Needs(w, act[w]) = x /\ locks.held[w] = <<>>

BrokenOnce(s) == \A i \in Svcs(s) : (\A j \in Svcs(s) : i <= j) => s[i].brks = 1
BreaksSound == \A t \in Task : act[t] # <<>> /\ act[t][1].fn = "BREAK" /\ act[t][1].tsk # t =>
  HasLock(act[t]) /\ BrokenOnce(act[act[t][1].tsk])

TexInv == TexTypeOK /\ TasksSound /\ LocksSound /\ BreaksSound /\ SubsystemsListed

(* An index of a sequence that is one longer than n, or one shorter.       *)
LEMMA OneMore ==
  ASSUME NEW n \in Nat
  PROVE  \A m \in 1..n + 1 : m = 1 \/ \E k \in 1..n : m = k + 1
<1>1. ASSUME NEW m \in 1..n + 1, m # 1 PROVE m - 1 \in 1..n /\ m = (m - 1) + 1
  BY <1>1
<1> QED BY <1>1

LEMMA OneLess == ASSUME NEW n \in Nat, n > 1 PROVE 1 \in 1..n - 1 /\ n - 1 # 0
  OBVIOUS

(* Stacks of frames: what is on them after a call, a return, a step.       *)
LEMMA SeqBuilt ==
  ASSUME NEW n \in Nat, NEW s, s = [i \in 1..n |-> s[i]]
  PROVE  s \in Seq(ToSet(s)) /\ Len(s) = n
<1> DEFINE S == ToSet(s)
<1>1. s \in [1..n -> S]
  BY DEF ToSet
<1>2. s \in Seq(S)
  <2> HIDE DEF S
  <2> QED BY <1>1
<1>3. DOMAIN s = 1..Len(s) /\ Len(s) \in Nat
  <2> HIDE DEF S
  <2> QED BY <1>2
<1> QED BY <1>1, <1>2, <1>3

LEMMA StackIs ==
  ASSUME NEW s, IsStack(s)
  PROVE  Len(s) \in Nat /\ DOMAIN s = 1..Len(s) /\ s = [i \in 1..Len(s) |-> s[i]]
         /\ (s = <<>> <=> Len(s) = 0) /\ (s # <<>> => Head(s) = s[1])
<1> DEFINE S == ToSet(s)
<1>1. s \in Seq(S)
  BY DEF IsStack
<1> HIDE DEF S
<1> QED BY <1>1

LEMMA Pushed ==
  ASSUME NEW s, IsStack(s), NEW f, IsFrame(f)
  PROVE  /\ IsStack(<<f>> \o s) /\ Len(<<f>> \o s) = Len(s) + 1 /\ (<<f>> \o s)[1] = f
         /\ \A i \in 1..Len(s) : (<<f>> \o s)[i + 1] = s[i]
         /\ <<f>> \o s # <<>>
<1> DEFINE S == ToSet(s) \cup {f}
           r == <<f>> \o s
<1>1. s \in Seq(S) /\ f \in S
  BY StackIs DEF ToSet
<1>2. /\ r \in Seq(S) /\ Len(r) = Len(s) + 1 /\ r[1] = f
      /\ \A i \in 1..Len(s) : r[i + 1] = s[i]
  <2> HIDE DEF S
  <2> QED BY <1>1
<1> HIDE DEF r
<1>3. r = [i \in 1..Len(r) |-> r[i]] /\ Len(r) \in Nat
  <2> HIDE DEF S
  <2> QED BY <1>2
<1>4. r \in Seq(ToSet(r))
  BY <1>3, SeqBuilt
<1>5. \A i \in 1..Len(r) : IsFrame(r[i])
  <2>1. ASSUME NEW i \in 1..Len(r) PROVE i = 1 \/ (i - 1 \in 1..Len(s) /\ r[i] = s[i - 1])
    <3>1. Len(s) \in Nat /\ Len(r) = Len(s) + 1
      BY <1>2, StackIs
    <3>2. CASE i # 1
      <4>1. PICK j \in 1..Len(s) : i = j + 1
        BY <3>1, <3>2
      <4>2. j = i - 1 /\ r[j + 1] = s[j]
        BY <1>2, <3>1, <4>1
      <4> QED BY <4>1, <4>2
    <3> QED BY <3>2
  <2> QED BY <1>2, <2>1 DEF IsStack
<1> QED BY <1>2, <1>3, <1>4, <1>5, StackIs DEF IsStack, r

LEMMA Popped ==
  ASSUME NEW s, IsStack(s), s # <<>>
  PROVE  /\ IsStack(Tail(s)) /\ Len(Tail(s)) = Len(s) - 1
         /\ \A i \in 1..Len(s) - 1 : Tail(s)[i] = s[i + 1]
<1> DEFINE S == ToSet(s)
           r == Tail(s)
<1>1. s \in Seq(S)
  BY DEF IsStack
<1>2. /\ r \in Seq(S) /\ Len(r) = Len(s) - 1
      /\ \A i \in 1..Len(s) - 1 : r[i] = s[i + 1]
  <2> HIDE DEF S
  <2> QED BY <1>1
<1>3. r = [i \in 1..Len(r) |-> r[i]] /\ Len(r) \in Nat
  <2> HIDE DEF S, r
  <2> QED BY <1>2
<1>4. r \in Seq(ToSet(r))
  BY <1>3, SeqBuilt
<1>5. \A i \in 1..Len(r) : IsFrame(r[i])
  BY <1>2, StackIs DEF IsStack
<1> QED BY <1>2, <1>4, <1>5 DEF IsStack

LEMMA Changed ==
  ASSUME NEW s, IsStack(s), NEW n \in 1..Len(s), NEW f, IsFrame(f)
  PROVE  /\ IsStack([s EXCEPT ![n] = f]) /\ Len([s EXCEPT ![n] = f]) = Len(s)
         /\ [s EXCEPT ![n] = f][n] = f
         /\ \A i \in 1..Len(s) : i # n => [s EXCEPT ![n] = f][i] = s[i]
         /\ [s EXCEPT ![n] = f] # <<>>
<1> DEFINE r == [s EXCEPT ![n] = f]
<1>0. Len(s) \in Nat /\ DOMAIN s = 1..Len(s)
  BY StackIs
<1>1. r = [i \in 1..Len(s) |-> r[i]] /\ r[n] = f /\ \A i \in 1..Len(s) : i # n => r[i] = s[i]
  BY <1>0
<1> HIDE DEF r
<1>2. r \in Seq(ToSet(r)) /\ Len(r) = Len(s)
  BY <1>0, <1>1, SeqBuilt
<1>3. IsStack(r)
  BY <1>1, <1>2 DEF IsStack
<1>4. r # <<>>
  BY <1>0, <1>2, <1>3, StackIs
<1> QED BY <1>1, <1>2, <1>3, <1>4 DEF r

(* What is said of a stack depends on its extended SVCs only, and on their *)
(* order: it holds as well of one that has the same ones d places further. *)
Alike(s, r, d) ==
  /\ \A i \in Svcs(s) : /\ i + d \in Svcs(r) /\ r[i + d].ssid = s[i].ssid
                        /\ r[i + d].brks = s[i].brks /\ r[i + d].save = s[i].save
  /\ \A j \in Svcs(r) : j - d \in Svcs(s)

LEMMA SvcsAre == ASSUME NEW s, IsStack(s) PROVE Svcs(s) \subseteq Nat \ {0}
  BY StackIs DEF Svcs

LEMMA AlikeTells ==
  ASSUME NEW s, NEW r, IsStack(s), IsStack(r), NEW d \in Int, Alike(s, r, d), NEW n \in Nat,
         NEW m \in Nat, \A i \in Svcs(s) : i > n <=> i + d > m,
         NEW ssid, NEW ran, Tells(s, n, ssid, ran)
  PROVE  Tells(r, m, ssid, ran)
<1>0. Svcs(s) \subseteq Int /\ Svcs(r) \subseteq Int
  BY SvcsAre
<1>1. ASSUME NEW j \in Svcs(r)
      PROVE  j - d \in Svcs(s) /\ (j > m <=> j - d > n)
  <2>1. j - d \in Svcs(s) /\ (j - d) + d = j
    BY <1>0 DEF Alike
  <2> QED BY <1>0, <2>1
<1>2. CASE ssid = 0 /\ \A i \in Svcs(s) : i <= n
  <2>1. \A j \in Svcs(r) : j <= m
    BY <1>0, <1>1, <1>2
  <2> QED BY <1>2, <2>1 DEF Tells
<1>3. CASE \E i \in Svcs(s) :
             /\ i > n /\ \A j \in Svcs(s) : j > n => i <= j
             /\ ssid = s[i].ssid /\ (ran <=> s[i].brks = 1)
  <2>1. PICK i \in Svcs(s) : /\ i > n /\ \A j \in Svcs(s) : j > n => i <= j
                             /\ ssid = s[i].ssid /\ (ran <=> s[i].brks = 1)
    BY <1>3
  <2>2. /\ i + d \in Svcs(r) /\ i + d > m
        /\ ssid = r[i + d].ssid /\ (ran <=> r[i + d].brks = 1)
    BY <2>1 DEF Alike
  <2>3. \A j \in Svcs(r) : j > m => i + d <= j
    <3>1. ASSUME NEW j \in Svcs(r), j > m PROVE i + d <= j
      <4>1. j - d \in Svcs(s) /\ j - d > n
        BY <1>1, <3>1
      <4>2. i <= j - d
        BY <2>1, <4>1
      <4> QED BY <1>0, <4>2
    <3> QED BY <3>1
  <2> QED BY <2>2, <2>3 DEF Tells
<1> QED BY <1>2, <1>3 DEF Tells

LEMMA AlikeTraced ==
  ASSUME NEW s, NEW r, IsStack(s), IsStack(r), NEW d \in Int, Alike(s, r, d), NEW e, NEW x,
         Traced(s, e), x.execssid = e.execssid, x.ran = e.ran
  PROVE  Traced(r, x)
<1>0. Svcs(s) \subseteq Nat \ {0} /\ Svcs(r) \subseteq Nat \ {0}
  BY SvcsAre
<1>1. Tells(r, 0, x.execssid, x.ran)
  <2>1. Tells(s, 0, x.execssid, x.ran)
    BY DEF Traced
  <2>2. \A i \in Svcs(s) : i > 0 <=> i + d > 0
    BY <1>0 DEF Alike
  <2> QED BY <2>1, <2>2, AlikeTells
<1>2. ASSUME NEW k \in Svcs(r) PROVE Tells(r, k, r[k].save.execssid, r[k].save.ran)
  <2> DEFINE n == k - d
  <2>1. n \in Svcs(s) /\ n + d = k /\ n \in Nat /\ k \in Nat
    BY <1>0 DEF Alike
  <2>2. r[n + d].save = s[n].save
    BY <2>1 DEF Alike
  <2> HIDE DEF n
  <2>3. Tells(s, n, r[k].save.execssid, r[k].save.ran)
    BY <2>1, <2>2 DEF Traced
  <2>4. \A i \in Svcs(s) : i > n <=> i + d > k
    BY <1>0, <2>1
  <2> QED BY <2>1, <2>3, <2>4, AlikeTells
<1> QED BY <1>1, <1>2 DEF Traced

LEMMA AlikeKept ==
  ASSUME NEW s, NEW r, IsStack(s), IsStack(r), NEW d \in Int, Alike(s, r, d), NEW e
  PROVE  Kept(r, e) = Kept(s, e)
<1>0. Svcs(s) \subseteq Int /\ Svcs(r) \subseteq Int
  BY SvcsAre
<1>1. {s[k].save.exectex : k \in Svcs(s)} \subseteq {r[k].save.exectex : k \in Svcs(r)}
  BY DEF Alike
<1>2. {r[k].save.exectex : k \in Svcs(r)} \subseteq {s[k].save.exectex : k \in Svcs(s)}
  <2>1. ASSUME NEW k \in Svcs(r) PROVE k - d \in Svcs(s) /\ r[k].save = s[k - d].save
    <3>1. k - d \in Svcs(s) /\ (k - d) + d = k
      BY <1>0 DEF Alike
    <3> QED BY <3>1 DEF Alike
  <2> QED BY <2>1
<1> QED BY <1>1, <1>2 DEF Kept

LEMMA AlikeBroken ==
  ASSUME NEW s, NEW r, IsStack(s), IsStack(r), NEW d \in Int, Alike(s, r, d), BrokenOnce(s)
  PROVE  BrokenOnce(r)
<1>0. Svcs(s) \subseteq Int /\ Svcs(r) \subseteq Int
  BY SvcsAre
<1>1. ASSUME NEW i \in Svcs(r), \A j \in Svcs(r) : i <= j PROVE r[i].brks = 1
  <2>1. i - d \in Svcs(s) /\ (i - d) + d = i
    BY <1>0 DEF Alike
  <2>2. ASSUME NEW j \in Svcs(s) PROVE i - d <= j
    <3>1. j + d \in Svcs(r)
      BY DEF Alike
    <3> QED BY <1>0, <1>1, <3>1
  <2>3. s[i - d].brks = 1
    BY <2>1, <2>2 DEF BrokenOnce
  <2> QED BY <2>1, <2>3 DEF Alike
<1> QED BY <1>1 DEF BrokenOnce

LEMMA PushAlike ==
  ASSUME NEW s, IsStack(s), NEW f, IsFrame(f), ~Entered(f)
  PROVE  Alike(s, <<f>> \o s, 1)
<1> DEFINE r == <<f>> \o s
<1>1. /\ Len(r) = Len(s) + 1 /\ r[1] = f /\ Len(s) \in Nat
      /\ \A i \in 1..Len(s) : r[i + 1] = s[i]
  BY Pushed, StackIs
<1> HIDE DEF r
<1>2. \A i \in Svcs(s) : i + 1 \in Svcs(r) /\ r[i + 1] = s[i]
  BY <1>1 DEF Svcs
<1>3. \A j \in Svcs(r) : j - 1 \in Svcs(s)
  <2>1. ASSUME NEW j \in Svcs(r) PROVE j - 1 \in Svcs(s)
    <3>1. j \in 1..Len(s) + 1 /\ Entered(r[j]) /\ j # 1
      BY <1>1 DEF Svcs
    <3>2. PICK k \in 1..Len(s) : j = k + 1
      BY <1>1, <3>1
    <3>3. r[k + 1] = s[k] /\ j - 1 = k
      BY <1>1, <3>2
    <3> QED BY <3>1, <3>2, <3>3 DEF Svcs
  <2> QED BY <2>1
<1> QED BY <1>2, <1>3 DEF Alike, r

LEMMA PopAlike ==
  ASSUME NEW s, IsStack(s), s # <<>>, ~Entered(s[1])
  PROVE  Alike(s, Tail(s), -1)
<1> DEFINE r == Tail(s)
<1>1. /\ Len(r) = Len(s) - 1 /\ Len(s) \in Nat
      /\ \A i \in 1..Len(s) - 1 : r[i] = s[i + 1]
  BY Popped, StackIs
<1> HIDE DEF r
<1>2. \A j \in Svcs(r) : j - (-1) \in Svcs(s)
  BY <1>1 DEF Svcs
<1>3. ASSUME NEW i \in Svcs(s) PROVE i + (-1) \in Svcs(r) /\ r[i + (-1)] = s[i]
  <2>1. i \in 1..Len(s) /\ i # 1 /\ Entered(s[i])
    BY DEF Svcs
  <2>2. PICK k \in 1..Len(s) - 1 : i = k + 1
    BY <1>1, <2>1
  <2>3. r[k] = s[k + 1] /\ i + (-1) = k
    BY <1>1, <2>2
  <2> QED BY <1>1, <2>1, <2>2, <2>3 DEF Svcs
<1> QED BY <1>2, <1>3 DEF Alike, r

LEMMA ChangeAlike ==
  ASSUME NEW s, IsStack(s), NEW n \in 1..Len(s), NEW f, IsFrame(f), Entered(f) <=> Entered(s[n]),
         Entered(f) => f.ssid = s[n].ssid /\ f.brks = s[n].brks /\ f.save = s[n].save
  PROVE  Alike(s, [s EXCEPT ![n] = f], 0)
<1> DEFINE r == [s EXCEPT ![n] = f]
<1>1. /\ Len(r) = Len(s) /\ r[n] = f /\ Len(s) \in Nat
      /\ \A i \in 1..Len(s) : i # n => r[i] = s[i]
  BY Changed, StackIs
<1> HIDE DEF r
<1>2. Svcs(r) = Svcs(s)
  BY <1>1 DEF Svcs
<1>3. \A i \in Svcs(s) : r[i].ssid = s[i].ssid /\ r[i].brks = s[i].brks /\ r[i].save = s[i].save
  BY <1>1 DEF Svcs
<1>4. \A i \in Svcs(s) : i + 0 = i /\ i - 0 = i
  BY <1>1 DEF Svcs
<1> QED BY <1>2, <1>3, <1>4 DEF Alike, r

LEMMA PushNested ==
  ASSUME NEW s, IsStack(s), Nested(s), NEW f, IsFrame(f), f.fn # "TEX",
         s = <<>> \/ Outer(s[1]) \/ Breaking(f, s[1])
  PROVE  Nested(<<f>> \o s)
<1> DEFINE r == <<f>> \o s
<1>1. /\ Len(r) = Len(s) + 1 /\ r[1] = f /\ Len(s) \in Nat
      /\ \A i \in 1..Len(s) : r[i + 1] = s[i]
      /\ s = <<>> <=> Len(s) = 0
  BY Pushed, StackIs
<1> HIDE DEF r
<1>2. ASSUME NEW i \in 1..Len(r)
      PROVE  (r[i].fn = "TEX" => i = Len(r)) /\ (i > 1 => Outer(r[i]) \/ (i = 2 /\ Breaking(r[1], r[2])))
  <2>1. CASE i = 1
    BY <1>1, <2>1
  <2>2. CASE i # 1
    <3>1. PICK k \in 1..Len(s) : i = k + 1 /\ r[i] = s[k]
      BY <1>1, <2>2
    <3>2. (s[k].fn = "TEX" => k = Len(s)) /\ (k > 1 => Outer(s[k]) \/ (k = 2 /\ Breaking(s[1], s[2])))
      BY DEF Nested
    <3>3. s # <<>> /\ Len(s) >= 1
      BY <1>1, <3>1
    <3>4. k > 1 => Outer(s[k])
      BY <3>2, <3>3 DEF Outer, Breaking
    <3> QED BY <1>1, <3>1, <3>2, <3>3, <3>4
  <2> QED BY <2>1, <2>2
<1> QED BY <1>2 DEF Nested, r

LEMMA PopNested ==
  ASSUME NEW s, IsStack(s), Nested(s), s # <<>>
  PROVE  Nested(Tail(s)) /\ (Tail(s) # <<>> => Outer(Tail(s)[1]) \/ Breaking(s[1], Tail(s)[1]))
<1> DEFINE r == Tail(s)
<1>1. /\ Len(r) = Len(s) - 1 /\ Len(s) \in Nat /\ Len(s) # 0
      /\ \A i \in 1..Len(s) - 1 : r[i] = s[i + 1]
      /\ r = <<>> <=> Len(r) = 0
  <2>1. IsStack(r) /\ Len(r) = Len(s) - 1 /\ \A i \in 1..Len(s) - 1 : r[i] = s[i + 1]
    BY Popped
  <2> HIDE DEF r
  <2> QED BY <2>1, StackIs
<1> HIDE DEF r
<1>2. ASSUME NEW i \in 1..Len(r)
      PROVE  (r[i].fn = "TEX" => i = Len(r)) /\ (i > 1 => Outer(r[i]))
  <2>1. i + 1 \in 1..Len(s) /\ r[i] = s[i + 1] /\ (i > 1 => i + 1 # 2) /\ i + 1 > 1
    BY <1>1
  <2> QED BY <1>1, <2>1 DEF Nested
<1>3. r # <<>> => Outer(r[1]) \/ Breaking(s[1], r[1])
  BY <1>1 DEF Nested
<1> QED BY <1>2, <1>3 DEF Nested, r

LEMMA ChangeNested ==
  ASSUME NEW s, IsStack(s), Nested(s), NEW n \in 1..Len(s), NEW f, IsFrame(f),
         f.fn = s[n].fn, f.fn \in {"SVC", "RAISE", "SSFN"}, n = 1 \/ (f.fn = "SVC" /\ f.at = s[n].at)
  PROVE  Nested([s EXCEPT ![n] = f])
<1> DEFINE r == [s EXCEPT ![n] = f]
<1>1. /\ Len(r) = Len(s) /\ r[n] = f /\ Len(s) \in Nat
      /\ \A i \in 1..Len(s) : i # n => r[i] = s[i]
  BY Changed, StackIs
<1> HIDE DEF r
<1>2. ASSUME NEW i \in 1..Len(r)
      PROVE  (r[i].fn = "TEX" => i = Len(r)) /\ (i > 1 => Outer(r[i]) \/ (i = 2 /\ Breaking(r[1], r[2])))
  <2>1. (s[i].fn = "TEX" => i = Len(s)) /\ (i > 1 => Outer(s[i]) \/ (i = 2 /\ Breaking(s[1], s[2])))
    BY <1>1 DEF Nested
  <2>2. i > 1 => 1 \in 1..Len(s)
    BY <1>1
  <2>3. CASE n = 1
    BY <1>1, <2>1, <2>2, <2>3 DEF Outer, Breaking
  <2>4. CASE n # 1
    BY <1>1, <2>1, <2>2, <2>4 DEF Outer, Breaking
  <2> QED BY <2>3, <2>4
<1> QED BY <1>2 DEF Nested, r

LEMMA PushFlagged ==
  ASSUME NEW s, IsStack(s), NEW f, IsFrame(f), NEW e, NEW x, Flagged(s, e),
         \/ ~Flagging(f) /\ x.texflg = e.texflg
         \/ Flagging(f) /\ f.save = e.texflg /\ x.texflg = e.texflg \cup {"SSFN"}
  PROVE  Flagged(<<f>> \o s, x)
<1> DEFINE r == <<f>> \o s
<1>1. /\ Len(r) = Len(s) + 1 /\ r[1] = f /\ Len(s) \in Nat
      /\ \A i \in 1..Len(s) : r[i + 1] = s[i]
  BY Pushed, StackIs
<1> HIDE DEF r
<1>2. \A i \in 1..Len(r) : i = 1 \/ \E k \in 1..Len(s) : i = k + 1 /\ r[i] = s[k]
  <2>1. ASSUME NEW i \in 1..Len(r), i # 1 PROVE \E k \in 1..Len(s) : i = k + 1
    <3>1. i - 1 \in 1..Len(s) /\ i = (i - 1) + 1
      BY <1>1, <2>1
    <3> QED BY <3>1
  <2> QED BY <1>1, <2>1
<1>3. ASSUME NEW k \in 0..Len(s), NEW flags, FlagTells(s, k, flags) PROVE FlagTells(r, k + 1, flags)
  <2>1. (\E i \in 1..Len(s) : i > k /\ Flagging(s[i])) => \E j \in 1..Len(r) : j > k + 1 /\ Flagging(r[j])
    <3>1. ASSUME NEW i \in 1..Len(s), i > k, Flagging(s[i])
          PROVE  i + 1 \in 1..Len(r) /\ i + 1 > k + 1 /\ Flagging(r[i + 1])
      BY <1>1, <3>1
    <3> QED BY <3>1
  <2>2. ASSUME NEW j \in 1..Len(r), j > k + 1, Flagging(r[j])
        PROVE  \E i \in 1..Len(s) : i > k /\ Flagging(s[i])
    <3>1. PICK i \in 1..Len(s) : j = i + 1 /\ r[j] = s[i]
      BY <1>2, <2>2
    <3> QED BY <2>2, <3>1
  <2> QED BY <1>3, <2>1, <2>2 DEF FlagTells
<1>4. FlagTells(r, 0, x.texflg)
  <2>1. CASE Flagging(f)
    BY <1>1, <2>1 DEF FlagTells
  <2>2. CASE ~Flagging(f)
    <3>1. FlagTells(r, 0 + 1, e.texflg)
      BY <1>1, <1>3 DEF Flagged
    <3>2. \A j \in 1..Len(r) : Flagging(r[j]) => j > 1
      BY <1>1, <2>2
    <3> QED BY <1>1, <2>2, <3>1, <3>2 DEF FlagTells
  <2> QED BY <2>1, <2>2
<1>5. ASSUME NEW j \in 1..Len(r), Flagging(r[j])
      PROVE  FlagTells(r, j, r[j].save) /\ r[j].save \ {"SSFN"} = x.texflg \ {"SSFN"}
  <2>1. CASE j = 1
    <3>1. FlagTells(r, 0 + 1, e.texflg)
      BY <1>1, <1>3 DEF Flagged
    <3> QED BY <1>1, <1>5, <2>1, <3>1
  <2>2. CASE j # 1
    <3>1. PICK k \in 1..Len(s) : j = k + 1 /\ r[j] = s[k]
      BY <1>2, <2>2
    <3>2. FlagTells(s, k, s[k].save) /\ s[k].save \ {"SSFN"} = e.texflg \ {"SSFN"}
      BY <1>5, <3>1 DEF Flagged
    <3>3. x.texflg \ {"SSFN"} = e.texflg \ {"SSFN"}
      OBVIOUS
    <3> QED BY <1>3, <3>1, <3>2, <3>3
  <2> QED BY <2>1, <2>2
<1> QED BY <1>4, <1>5 DEF Flagged, r

LEMMA PopFlagged ==
  ASSUME NEW s, IsStack(s), s # <<>>, NEW e, NEW x, Flagged(s, e),
         \/ ~Flagging(s[1]) /\ x.texflg = e.texflg
         \/ Flagging(s[1]) /\ x.texflg = s[1].save
  PROVE  Flagged(Tail(s), x)
<1> DEFINE r == Tail(s)
<1>1. /\ Len(r) = Len(s) - 1 /\ Len(s) \in Nat /\ 1 \in 1..Len(s)
      /\ \A i \in 1..Len(s) - 1 : r[i] = s[i + 1]
  BY Popped, StackIs
<1> HIDE DEF r
<1>2. ASSUME NEW k \in 0..Len(r), NEW flags, FlagTells(s, k + 1, flags) PROVE FlagTells(r, k, flags)
  <2>1. ASSUME NEW i \in 1..Len(s), i > k + 1, Flagging(s[i])
        PROVE  \E j \in 1..Len(r) : j > k /\ Flagging(r[j])
    <3>1. i - 1 \in 1..Len(s) - 1 /\ (i - 1) + 1 = i /\ i - 1 > k
      BY <1>1, <2>1
    <3>2. r[i - 1] = s[i]
      BY <1>1, <3>1
    <3> QED BY <1>1, <2>1, <3>1, <3>2
  <2>2. ASSUME NEW j \in 1..Len(r), j > k, Flagging(r[j])
        PROVE  j + 1 \in 1..Len(s) /\ j + 1 > k + 1 /\ Flagging(s[j + 1])
    BY <1>1, <2>2
  <2> QED BY <1>2, <2>1, <2>2 DEF FlagTells
<1>3. FlagTells(s, 1, x.texflg) /\ x.texflg \ {"SSFN"} = e.texflg \ {"SSFN"}
  <2>1. CASE Flagging(s[1])
    BY <1>1, <2>1 DEF Flagged
  <2>2. CASE ~Flagging(s[1])
    <3>1. \A i \in 1..Len(s) : Flagging(s[i]) => (i > 0 <=> i > 1)
      BY <1>1, <2>2
    <3> QED BY <2>2, <3>1 DEF Flagged, FlagTells
  <2> QED BY <2>1, <2>2
<1>4. FlagTells(r, 0, x.texflg)
  BY <1>1, <1>2, <1>3
<1>5. ASSUME NEW j \in 1..Len(r), Flagging(r[j])
      PROVE  FlagTells(r, j, r[j].save) /\ r[j].save \ {"SSFN"} = x.texflg \ {"SSFN"}
  <2>1. j + 1 \in 1..Len(s) /\ s[j + 1] = r[j]
    BY <1>1
  <2>2. FlagTells(s, j + 1, r[j].save) /\ r[j].save \ {"SSFN"} = e.texflg \ {"SSFN"}
    BY <1>5, <2>1 DEF Flagged
  <2> QED BY <1>2, <1>3, <2>2
<1> QED BY <1>4, <1>5 DEF Flagged, r

LEMMA ChangeFlagged ==
  ASSUME NEW s, IsStack(s), NEW n \in 1..Len(s), NEW f, IsFrame(f), NEW e, NEW x, Flagged(s, e),
         \/ /\ Flagging(f) <=> Flagging(s[n])
            /\ Flagging(f) => f.save = s[n].save
            /\ x.texflg = e.texflg
         \/ n = 1 /\ Flagging(s[1]) /\ ~Flagging(f) /\ x.texflg = s[1].save
  PROVE  Flagged([s EXCEPT ![n] = f], x)
<1> DEFINE r == [s EXCEPT ![n] = f]
<1>1. /\ Len(r) = Len(s) /\ r[n] = f /\ Len(s) \in Nat
      /\ \A i \in 1..Len(s) : i # n => r[i] = s[i]
  BY Changed, StackIs
<1> HIDE DEF r
<1>2. CASE /\ Flagging(f) <=> Flagging(s[n])
           /\ Flagging(f) => f.save = s[n].save
           /\ x.texflg = e.texflg
  <2>1. \A i \in 1..Len(s) : /\ Flagging(r[i]) <=> Flagging(s[i])
                             /\ Flagging(r[i]) => r[i].save = s[i].save
    BY <1>1, <1>2
  <2>2. Flagged(r, x)
    BY <1>1, <1>2, <2>1 DEF Flagged, FlagTells
  <2> QED BY <2>2 DEF r
<1>3. CASE n = 1 /\ Flagging(s[1]) /\ ~Flagging(f) /\ x.texflg = s[1].save
  <2>1. FlagTells(s, 1, x.texflg) /\ x.texflg \ {"SSFN"} = e.texflg \ {"SSFN"}
    BY <1>1, <1>3 DEF Flagged
  <2>2. FlagTells(r, 0, x.texflg)
    BY <1>1, <1>3, <2>1 DEF FlagTells
  <2>3. ASSUME NEW k \in 1..Len(r), Flagging(r[k])
        PROVE  FlagTells(r, k, r[k].save) /\ r[k].save \ {"SSFN"} = x.texflg \ {"SSFN"}
    <3>1. k # 1 /\ r[k] = s[k]
      BY <1>1, <1>3, <2>3
    <3>2. FlagTells(s, k, s[k].save) /\ s[k].save \ {"SSFN"} = e.texflg \ {"SSFN"}
      BY <1>1, <2>3, <3>1 DEF Flagged
    <3> QED BY <1>1, <1>3, <2>1, <3>1, <3>2 DEF FlagTells
  <2>4. Flagged(r, x)
    BY <2>2, <2>3 DEF Flagged
  <2> QED BY <2>4 DEF r
<1> QED BY <1>2, <1>3

(* A task's calls change without a lock that is taken or given back.       *)
Steady(t, s, r) ==
  \/ r = s
  \/ /\ TakesLock(r) <=> TakesLock(s)
     /\ HasLock(r) <=> HasLock(s)
     /\ TakesLock(s) \/ HasLock(s) => Needs(t, r) = Needs(t, s)
  \/ ~TakesLock(s) /\ ~HasLock(s) /\ ~HasLock(r)

LEMMA LocksKept ==
  ASSUME TexTypeOK, LocksSound, UNCHANGED locks, \A y \in Task : Steady(y, act[y], act'[y])
  PROVE  LocksSound'
<1>1. ASSUME NEW y \in Task PROVE HeldRight(y, act'[y], locks.held[y])
  BY DEF LocksSound, HeldRight, Steady
<1>2. ASSUME NEW x \in Task, locks.wtskq[x] # NOSVC, NEW i \in 1..Len(locks.wtskq[x]), NEW w \in Task,
             w = locks.wtskq[x][i]
      PROVE  TakesLock(act'[w]) /\ Needs(w, act'[w]) = x /\ locks.held[w] = <<>>
  <2>1. TakesLock(act[w]) /\ Needs(w, act[w]) = x /\ locks.held[w] = <<>>
    BY <1>2 DEF LocksSound
  <2>2. Steady(w, act[w], act'[w])
    OBVIOUS
  <2> QED BY <2>1, <2>2 DEF Steady
<1>3. ASSUME NEW x \in Task, locks.wtskq[x] # NOSVC, NEW i \in 1..Len(locks.wtskq[x])
      PROVE  locks.wtskq[x][i] \in Task
  <2>1. locks.wtskq[x] \in Seq(Task)
    BY <1>3 DEF TexTypeOK
  <2> QED BY <2>1
<1> QED BY <1>1, <1>2, <1>3 DEF LocksSound

LocksTypeOK == locks \in [held : [Task -> Seq(Task)], wtskq : [Task -> {NOSVC} \cup Seq(Task)]]

(* Who waits, and what they have.                                          *)
LEMMA Waiting ==
  ASSUME LocksTypeOK, LocksSound, NEW x \in Task, locks.wtskq[x] # NOSVC
  PROVE  /\ locks.wtskq[x] \in Seq(Task) /\ IsInjective(locks.wtskq[x])
         /\ \A w \in ToSet(locks.wtskq[x]) :
              w \in Task /\ TakesLock(act[w]) /\ Needs(w, act[w]) = x /\ locks.held[w] = <<>>
<1>1. locks.wtskq[x] \in Seq(Task)
  BY DEF LocksTypeOK
<1>2. ASSUME NEW w \in ToSet(locks.wtskq[x])
      PROVE  w \in Task /\ TakesLock(act[w]) /\ Needs(w, act[w]) = x /\ locks.held[w] = <<>>
  <2>1. PICK i \in 1..Len(locks.wtskq[x]) : locks.wtskq[x][i] = w
    BY <1>1 DEF ToSet
  <2>2. w \in Task
    BY <1>1, <2>1
  <2> QED BY <2>1, <2>2 DEF LocksSound
<1> QED BY <1>1, <1>2 DEF LocksSound

(* The facts a step has to show for the locks.                             *)
LEMMA LocksFrom ==
  ASSUME LocksTypeOK',
         \A t \in Task : HeldRight(t, act'[t], locks'.held[t]),
         \A x \in Task : locks'.wtskq[x] # NOSVC <=> \E t \in Task : locks'.held[t] = <<x>>,
         \A t, u \in Task : locks'.held[t] = locks'.held[u] /\ locks'.held[t] # <<>> => t = u,
         \A x \in Task : locks'.wtskq[x] # NOSVC => IsInjective(locks'.wtskq[x]),
         \A x \in Task : locks'.wtskq[x] # NOSVC => \A w \in ToSet(locks'.wtskq[x]) :
           TakesLock(act'[w]) /\ Needs(w, act'[w]) = x /\ locks'.held[w] = <<>>
  PROVE  LocksSound'
<1>1. ASSUME NEW x \in Task, locks'.wtskq[x] # NOSVC, NEW i \in 1..Len(locks'.wtskq[x])
      PROVE  locks'.wtskq[x][i] \in ToSet(locks'.wtskq[x])
  <2>1. locks'.wtskq[x] \in Seq(Task)
    BY <1>1 DEF LocksTypeOK
  <2> QED BY <2>1 DEF ToSet
<1>2. ASSUME NEW x \in Task, locks'.wtskq[x] # NOSVC, NEW i \in 1..Len(locks'.wtskq[x]), NEW w,
             w = locks'.wtskq[x][i]
      PROVE  TakesLock(act'[w]) /\ Needs(w, act'[w]) = x /\ locks'.held[w] = <<>>
  BY <1>1, <1>2
<1> QED BY <1>2 DEF LocksSound

(* A step of one task, which has a lock or not.                            *)
Only(t) == \A y \in Task : y # t => act'[y] = act[y]
NotBoth(s) == ~(TakesLock(s) /\ HasLock(s))

LEMMA OneOrOther == ASSUME NEW s, IsStack(s) PROVE NotBoth(s)
<1>1. s # <<>> => IsFrame(s[1])
  BY StackIs DEF IsStack
<1> QED BY <1>1 DEF NotBoth, TakesLock, HasLock, IsFrame, BreakFrame

LEMMA LockKeptByOwner ==
  ASSUME LocksTypeOK, LocksSound, NEW t \in Task, TakesLock(act[t]), ~Waits(t), Only(t), UNCHANGED locks,
         locks.held[t] # <<>>, HasLock(act'[t]), Needs(t, act'[t]) = Needs(t, act[t])
  PROVE  LocksSound'
<1>1. ASSUME NEW y \in Task PROVE HeldRight(y, act'[y], locks.held[y])
  BY DEF LocksSound, HeldRight, Only
<1>2. ASSUME NEW x \in Task, locks.wtskq[x] # NOSVC, NEW w \in ToSet(locks.wtskq[x])
      PROVE  TakesLock(act'[w]) /\ Needs(w, act'[w]) = x /\ locks.held[w] = <<>>
  BY <1>2, Waiting DEF Only, Waits
<1>3. LocksTypeOK'
  BY DEF LocksTypeOK
<1> QED BY <1>1, <1>2, <1>3, LocksFrom DEF LocksSound

Takes(t, x) == locks' = [locks EXCEPT !.wtskq[x] = <<>>, !.held[t] = <<x>> \o @]

LEMMA LockTakenFree ==
  ASSUME LocksTypeOK, LocksSound, NEW t \in Task, NEW x \in Task, x = Needs(t, act[t]), TakesLock(act[t]), Only(t),
         ~Waits(t), locks.wtskq[x] = NOSVC, Takes(t, x),
         HasLock(act'[t]), Needs(t, act'[t]) = x
  PROVE  LocksTypeOK' /\ LocksSound'
<1>1. locks.held[t] = <<>>
  BY DEF LocksSound, HeldRight
<1>2. /\ locks'.held = [locks.held EXCEPT ![t] = <<x>>] /\ locks'.wtskq = [locks.wtskq EXCEPT ![x] = <<>>]
      /\ LocksTypeOK'
  <2>1. <<x>> \o <<>> = <<x>> /\ <<x>> \in Seq(Task) /\ <<>> \in Seq(Task)
    OBVIOUS
  <2> QED BY <1>1, <2>1 DEF LocksTypeOK, Takes
<1>3. /\ locks'.held[t] = <<x>> /\ \A y \in Task : y # t => locks'.held[y] = locks.held[y]
      /\ locks'.wtskq[x] = <<>> /\ \A y \in Task : y # x => locks'.wtskq[y] = locks.wtskq[y]
  BY <1>2 DEF LocksTypeOK
<1>4. <<>> # NOSVC
  <2>1. <<>> \in Seq(Task)
    OBVIOUS
  <2> QED BY <2>1, TexAssumption
<1>5. ASSUME NEW y \in Task PROVE HeldRight(y, act'[y], locks'.held[y])
  <2>1. CASE y = t
    BY <1>3, <2>1 DEF HeldRight
  <2>2. CASE y # t
    BY <1>3, <2>2 DEF HeldRight, LocksSound, Only
  <2> QED BY <2>1, <2>2
<1>6. ASSUME NEW y \in Task PROVE locks'.held[y] # <<x>> \/ y = t
  BY <1>3 DEF LocksSound
<1>7. ASSUME NEW y \in Task PROVE locks'.wtskq[y] # NOSVC <=> \E u \in Task : locks'.held[u] = <<y>>
  <2>1. CASE y = x
    BY <1>3, <1>4, <2>1
  <2>2. CASE y # x
    <3>1. <<y>> # <<x>>
      BY <2>2
    <3>2. \A u \in Task : locks'.held[u] = <<y>> <=> locks.held[u] = <<y>>
      BY <1>1, <1>3, <3>1
    <3> QED BY <1>3, <2>2, <3>2 DEF LocksSound
  <2> QED BY <2>1, <2>2
<1>8. ASSUME NEW y \in Task, NEW u \in Task, locks'.held[y] = locks'.held[u], locks'.held[y] # <<>> PROVE y = u
  <2>1. CASE y = t \/ u = t
    BY <1>3, <1>6, <1>8, <2>1
  <2>2. CASE y # t /\ u # t
    <3>1. locks.held[y] = locks.held[u] /\ locks.held[y] # <<>>
      BY <1>3, <1>8, <2>2
    <3> QED BY <3>1 DEF LocksSound
  <2> QED BY <2>1, <2>2
<1>9. ASSUME NEW y \in Task, locks'.wtskq[y] # NOSVC PROVE IsInjective(locks'.wtskq[y])
  <2>1. IsInjective(<<>>)
    BY DEF IsInjective
  <2> QED BY <1>3, <1>9, <2>1 DEF LocksSound
<1>10. ASSUME NEW y \in Task, locks'.wtskq[y] # NOSVC, NEW w \in ToSet(locks'.wtskq[y])
       PROVE  TakesLock(act'[w]) /\ Needs(w, act'[w]) = y /\ locks'.held[w] = <<>>
  <2>1. y # x
    <3>1. ToSet(<<>>) = {}
      BY DEF ToSet
    <3> QED BY <1>3, <1>10, <3>1
  <2>2. w \in ToSet(locks.wtskq[y]) /\ locks.wtskq[y] # NOSVC
    BY <1>3, <1>10, <2>1
  <2>3. w \in Task /\ w # t /\ TakesLock(act[w]) /\ Needs(w, act[w]) = y /\ locks.held[w] = <<>>
    BY <2>2, Waiting DEF Waits
  <2> QED BY <1>3, <2>3 DEF Only
<1> QED
  <2>1. LocksSound'
    BY <1>2, <1>5, <1>7, <1>8, <1>9, <1>10, LocksFrom
  <2> QED BY <1>2, <2>1

Queues(t, x) == locks' = [locks EXCEPT !.wtskq[x] = Append(@, t)]

LEMMA LockAwaited ==
  ASSUME LocksTypeOK, LocksSound, NEW t \in Task, NEW x \in Task, x = Needs(t, act[t]), TakesLock(act[t]),
         ~Waits(t), locks.wtskq[x] # NOSVC, locks.held[t] = <<>>, UNCHANGED act, Queues(t, x)
  PROVE  LocksTypeOK' /\ LocksSound'
<1>1. locks.wtskq[x] \in Seq(Task) /\ IsInjective(locks.wtskq[x])
  BY Waiting
<1>2. t \notin ToSet(locks.wtskq[x])
  BY DEF Waits
<1> DEFINE q == locks.wtskq[x]
           r == Append(q, t)
<1>3. r \in Seq(Task) /\ r # NOSVC /\ ToSet(r) = ToSet(q) \cup {t} /\ IsInjective(r)
  <2>1. r \in Seq(Task) /\ Len(r) = Len(q) + 1 /\ r[Len(q) + 1] = t /\ \A i \in 1..Len(q) : r[i] = q[i]
    BY <1>1
  <2>2. Len(q) \in Nat /\ DOMAIN q = 1..Len(q) /\ DOMAIN r = 1..Len(q) + 1
    BY <1>1, <2>1
  <2> HIDE DEF q, r
  <2>3. r # NOSVC
    BY <2>1, TexAssumption
  <2>4. ToSet(r) = ToSet(q) \cup {t}
    <3>1. \A i \in 1..Len(q) + 1 : i \in 1..Len(q) \/ i = Len(q) + 1
      BY <2>2
    <3>2. \A i \in 1..Len(q) : i \in 1..Len(q) + 1
      BY <2>2
    <3>3. Len(q) + 1 \in 1..Len(q) + 1
      BY <2>2
    <3> QED BY <2>1, <2>2, <3>1, <3>2, <3>3 DEF ToSet
  <2>5. IsInjective(r)
    <3>1. \A i \in 1..Len(q) : q[i] # t
      BY <1>2, <2>2 DEF ToSet, q
    <3>2. IsInjective(q)
      BY <1>1 DEF q
    <3>3. ASSUME NEW i \in 1..Len(q) + 1, NEW j \in 1..Len(q) + 1, r[i] = r[j] PROVE i = j
      <4>1. i \in 1..Len(q) \/ i = Len(q) + 1
        BY <2>2
      <4>2. j \in 1..Len(q) \/ j = Len(q) + 1
        BY <2>2
      <4> QED BY <2>1, <2>2, <3>1, <3>2, <3>3, <4>1, <4>2 DEF IsInjective
    <3> QED BY <2>2, <3>3 DEF IsInjective
  <2> QED BY <2>1, <2>3, <2>4, <2>5
<1>4. /\ locks'.held = locks.held /\ locks'.wtskq = [locks.wtskq EXCEPT ![x] = r] /\ LocksTypeOK'
  <2> HIDE DEF r
  <2>1. locks' = [locks EXCEPT !.wtskq[x] = r]
    BY DEF r, q, Queues
  <2>2. locks'.held = locks.held /\ locks'.wtskq = [locks.wtskq EXCEPT ![x] = r]
    BY <2>1 DEF LocksTypeOK
  <2>3. locks' \in [held : [Task -> Seq(Task)], wtskq : [Task -> {NOSVC} \cup Seq(Task)]]
    <3>1. r \in {NOSVC} \cup Seq(Task)
      BY <1>3
    <3> QED BY <2>1, <3>1 DEF LocksTypeOK
  <2> QED BY <2>2, <2>3 DEF LocksTypeOK
<1> HIDE DEF r
<1>5. locks'.wtskq[x] = r /\ \A y \in Task : y # x => locks'.wtskq[y] = locks.wtskq[y]
  BY <1>4 DEF LocksTypeOK
<1>6. ASSUME NEW y \in Task, locks'.wtskq[y] # NOSVC, NEW w \in ToSet(locks'.wtskq[y])
      PROVE  TakesLock(act'[w]) /\ Needs(w, act'[w]) = y /\ locks'.held[w] = <<>>
  <2>1. CASE y = x
    <3>1. w \in ToSet(q) \cup {t}
      BY <1>3, <1>5, <1>6, <2>1
    <3>2. CASE w = t
      BY <1>4, <2>1, <3>2
    <3>3. CASE w \in ToSet(q)
      <4>1. TakesLock(act[w]) /\ Needs(w, act[w]) = x /\ locks.held[w] = <<>>
        BY <3>3, Waiting
      <4> QED BY <1>4, <2>1, <4>1
    <3> QED BY <3>1, <3>2, <3>3
  <2>2. CASE y # x
    <3>1. locks.wtskq[y] # NOSVC /\ w \in ToSet(locks.wtskq[y])
      BY <1>5, <1>6, <2>2
    <3>2. TakesLock(act[w]) /\ Needs(w, act[w]) = y /\ locks.held[w] = <<>>
      BY <3>1, Waiting
    <3> QED BY <1>4, <3>2
  <2> QED BY <2>1, <2>2
<1>7. \A y \in Task : HeldRight(y, act'[y], locks'.held[y])
  BY <1>4 DEF LocksSound
<1>8. \A y \in Task : locks'.wtskq[y] # NOSVC <=> \E u \in Task : locks'.held[u] = <<y>>
  <2>1. \A y \in Task : locks'.wtskq[y] # NOSVC <=> locks.wtskq[y] # NOSVC
    BY <1>3, <1>5
  <2>2. \A y \in Task : locks.wtskq[y] # NOSVC <=> \E u \in Task : locks.held[u] = <<y>>
    BY DEF LocksSound
  <2>3. \A u \in Task : locks'.held[u] = locks.held[u]
    BY <1>4
  <2>4. ASSUME NEW y \in Task PROVE locks'.wtskq[y] # NOSVC <=> \E u \in Task : locks'.held[u] = <<y>>
    BY <2>1, <2>2, <2>3
  <2> QED BY <2>4
<1>9. \A y, u \in Task : locks'.held[y] = locks'.held[u] /\ locks'.held[y] # <<>> => y = u
  BY <1>4 DEF LocksSound
<1>10. \A y \in Task : locks'.wtskq[y] # NOSVC => IsInjective(locks'.wtskq[y])
  BY <1>3, <1>5 DEF LocksSound
<1> QED
  <2>1. LocksSound'
    BY <1>4, <1>6, <1>7, <1>8, <1>9, <1>10, LocksFrom
  <2> QED BY <1>4, <2>1

(* A lock is given back: nobody has waited, or the first one has it now.   *)
Gives(t) == locks' = UnlockSVC(locks, t)

LEMMA LockGiven ==
  ASSUME LocksTypeOK, LocksSound, NEW t \in Task, HasLock(act[t]), ~TakesLock(act[t]), Only(t), Gives(t),
         ~HasLock(act'[t])
  PROVE  LocksTypeOK' /\ LocksSound'
<1>1. PICK x \in Task : x = Needs(t, act[t]) /\ locks.held[t] = <<x>>
  <2>1. locks.held[t] = <<Needs(t, act[t])>> /\ locks.held[t] \in Seq(Task)
    BY DEF LocksTypeOK, LocksSound, HeldRight
  <2>2. <<Needs(t, act[t])>>[1] = Needs(t, act[t]) /\ 1 \in 1..Len(<<Needs(t, act[t])>>)
    OBVIOUS
  <2>3. Needs(t, act[t]) \in Task
    BY <2>1, <2>2
  <2> QED BY <2>1, <2>3
<1>2. locks.wtskq[x] # NOSVC
  BY <1>1 DEF LocksSound
<1> DEFINE q == locks.wtskq[x]
<1>3. q \in Seq(Task) /\ IsInjective(q) /\ \A w \in ToSet(q) :
        w \in Task /\ w # t /\ TakesLock(act[w]) /\ Needs(w, act[w]) = x /\ locks.held[w] = <<>>
  BY <1>2, Waiting
<1>4. /\ Head(locks.held[t]) = x /\ Tail(locks.held[t]) = <<>> /\ <<x>> \o <<>> = <<x>>
      /\ <<>> \in Seq(Task) /\ <<x>> \in Seq(Task) /\ <<x>> # <<>>
  BY <1>1
<1>5. <<>> # NOSVC
  BY <1>4, TexAssumption
<1>6. \A y \in Task : locks.held[y] = <<x>> => y = t
  BY <1>1, <1>4 DEF LocksSound
<1>7. \A y \in Task \ {x} : <<y>> # <<x>>
  OBVIOUS
<1>8. CASE q = <<>>
  <2>1. /\ locks'.held = [locks.held EXCEPT ![t] = <<>>] /\ locks'.wtskq = [locks.wtskq EXCEPT ![x] = NOSVC]
        /\ LocksTypeOK'
    <3>1. locks' = [[locks EXCEPT !.held[t] = <<>>] EXCEPT !.wtskq[x] = NOSVC]
      BY <1>4, <1>8 DEF Gives, UnlockSVC
    <3>2. locks'.held = [locks.held EXCEPT ![t] = <<>>] /\ locks'.wtskq = [locks.wtskq EXCEPT ![x] = NOSVC]
      BY <3>1 DEF LocksTypeOK
    <3>3. LocksTypeOK'
      BY <1>4, <3>1 DEF LocksTypeOK
    <3> QED BY <3>2, <3>3
  <2>2. /\ locks'.held[t] = <<>> /\ \A y \in Task : y # t => locks'.held[y] = locks.held[y]
        /\ locks'.wtskq[x] = NOSVC /\ \A y \in Task : y # x => locks'.wtskq[y] = locks.wtskq[y]
    BY <2>1 DEF LocksTypeOK
  <2>3. ASSUME NEW y \in Task PROVE HeldRight(y, act'[y], locks'.held[y])
    BY <2>2 DEF HeldRight, LocksSound, Only
  <2>4. ASSUME NEW y \in Task PROVE locks'.wtskq[y] # NOSVC <=> \E u \in Task : locks'.held[u] = <<y>>
    <3>1. CASE y = x
      BY <1>4, <1>6, <2>2, <3>1
    <3>2. CASE y # x
      <4>1. \A u \in Task : locks'.held[u] = <<y>> <=> locks.held[u] = <<y>>
        BY <1>1, <1>7, <2>2, <3>2
      <4> QED BY <2>2, <3>2, <4>1 DEF LocksSound
    <3> QED BY <3>1, <3>2
  <2>5. ASSUME NEW y \in Task, NEW u \in Task, locks'.held[y] = locks'.held[u], locks'.held[y] # <<>> PROVE y = u
    BY <2>2, <2>5 DEF LocksSound
  <2>6. ASSUME NEW y \in Task, locks'.wtskq[y] # NOSVC PROVE IsInjective(locks'.wtskq[y])
    BY <2>2, <2>6 DEF LocksSound
  <2>7. ASSUME NEW y \in Task, locks'.wtskq[y] # NOSVC, NEW w \in ToSet(locks'.wtskq[y])
        PROVE  TakesLock(act'[w]) /\ Needs(w, act'[w]) = y /\ locks'.held[w] = <<>>
    <3>1. y # x /\ w \in ToSet(locks.wtskq[y]) /\ locks.wtskq[y] # NOSVC
      BY <2>2, <2>7
    <3>2. w \in Task /\ TakesLock(act[w]) /\ Needs(w, act[w]) = y /\ locks.held[w] = <<>>
      BY <3>1, Waiting
    <3>3. w # t
      BY <3>2
    <3> QED BY <2>2, <3>2, <3>3 DEF Only
  <2>8. LocksSound'
    BY <2>1, <2>3, <2>4, <2>5, <2>6, <2>7, LocksFrom
  <2> QED BY <2>1, <2>8
<1>9. CASE q # <<>>
  <2> DEFINE h == Head(q)
             r == Tail(q)
  <2>1. /\ h \in ToSet(q) /\ r \in Seq(Task) /\ IsInjective(r) /\ ToSet(r) \subseteq ToSet(q) \ {h}
    <3>1. Len(q) \in Nat \ {0} /\ DOMAIN q = 1..Len(q) /\ h = q[1]
      BY <1>3, <1>9
    <3>2. r \in Seq(Task) /\ Len(r) = Len(q) - 1 /\ \A i \in 1..Len(q) - 1 : r[i] = q[i + 1]
      BY <1>3, <1>9
    <3> HIDE DEF r, q
    <3>3. DOMAIN r = 1..Len(q) - 1
      BY <3>1, <3>2
    <3>4. 1 \in 1..Len(q) /\ \A i \in 1..Len(q) - 1 : i + 1 \in 1..Len(q) /\ i + 1 # 1
      BY <3>1
    <3>5. h \in ToSet(q)
      BY <3>1, <3>4 DEF ToSet
    <3>6. IsInjective(q)
      BY <1>3 DEF q
    <3>7. IsInjective(r)
      <4>1. ASSUME NEW i \in 1..Len(q) - 1, NEW j \in 1..Len(q) - 1, r[i] = r[j] PROVE i = j
        <5>1. i + 1 = j + 1
          BY <3>1, <3>2, <3>4, <3>6, <4>1 DEF IsInjective
        <5> QED BY <3>1, <5>1
      <4> QED BY <3>3, <4>1 DEF IsInjective
    <3>8. ASSUME NEW w \in ToSet(r) PROVE w \in ToSet(q) /\ w # h
      <4>1. PICK i \in 1..Len(q) - 1 : r[i] = w
        BY <3>3 DEF ToSet
      <4>2. w = q[i + 1] /\ i + 1 \in 1..Len(q) /\ i + 1 # 1
        BY <3>2, <3>4, <4>1
      <4> QED BY <3>1, <3>4, <3>6, <4>2 DEF ToSet, IsInjective
    <3> QED BY <3>2, <3>5, <3>7, <3>8
  <2>2. h \in Task /\ h # t /\ TakesLock(act[h]) /\ Needs(h, act[h]) = x /\ locks.held[h] = <<>>
    BY <1>3, <2>1
  <2>3. locks' = [[locks EXCEPT !.held[t] = <<>>] EXCEPT !.wtskq[x] = r, !.held[h] = <<x>>]
    <3>1. [locks EXCEPT !.held[t] = <<>>].wtskq[x] = q /\ [locks EXCEPT !.held[t] = <<>>].held[h] = <<>>
      BY <2>2 DEF LocksTypeOK
    <3> HIDE DEF h, r
    <3>2. locks' = [[locks EXCEPT !.held[t] = <<>>] EXCEPT !.wtskq[x] = r,
                       !.held[h] = <<x>> \o [locks EXCEPT !.held[t] = <<>>].held[h]]
      BY <1>4, <1>9, <2>2 DEF Gives, UnlockSVC, r, h
    <3> QED BY <1>4, <3>1, <3>2
  <2> HIDE DEF h, r
  <2>4. /\ locks'.held = [locks.held EXCEPT ![t] = <<>>, ![h] = <<x>>] /\ locks'.wtskq = [locks.wtskq EXCEPT ![x] = r]
        /\ LocksTypeOK'
    <3>1. locks'.held = [locks.held EXCEPT ![t] = <<>>, ![h] = <<x>>] /\ locks'.wtskq = [locks.wtskq EXCEPT ![x] = r]
      BY <2>3 DEF LocksTypeOK
    <3>2. r \in {NOSVC} \cup Seq(Task) /\ <<x>> \in Seq(Task) /\ <<>> \in Seq(Task)
      BY <1>4, <2>1
    <3>3. LocksTypeOK'
      BY <2>3, <3>2 DEF LocksTypeOK
    <3> QED BY <3>1, <3>3
  <2>5. /\ locks'.held[t] = <<>> /\ locks'.held[h] = <<x>>
        /\ \A y \in Task : y # t /\ y # h => locks'.held[y] = locks.held[y]
        /\ locks'.wtskq[x] = r /\ \A y \in Task : y # x => locks'.wtskq[y] = locks.wtskq[y]
    BY <2>2, <2>4 DEF LocksTypeOK
  <2>6. r # NOSVC
    BY <2>1, TexAssumption
  <2>7. ASSUME NEW y \in Task PROVE HeldRight(y, act'[y], locks'.held[y])
    BY <2>2, <2>5 DEF HeldRight, LocksSound, Only
  <2>8. ASSUME NEW y \in Task PROVE locks'.wtskq[y] # NOSVC <=> \E u \in Task : locks'.held[u] = <<y>>
    <3>1. CASE y = x
      BY <2>2, <2>5, <2>6, <3>1
    <3>2. CASE y # x
      <4>1. \A u \in Task : locks'.held[u] = <<y>> <=> locks.held[u] = <<y>>
        BY <1>1, <1>7, <2>2, <2>5, <3>2
      <4> QED BY <2>5, <3>2, <4>1 DEF LocksSound
    <3> QED BY <3>1, <3>2
  <2>9. ASSUME NEW y \in Task, NEW u \in Task, locks'.held[y] = locks'.held[u], locks'.held[y] # <<>> PROVE y = u
    <3>1. y # t /\ u # t
      BY <2>5, <2>9
    <3>2. \A z \in Task : z # t /\ z # h => locks'.held[z] # <<x>>
      BY <1>6, <2>5
    <3>3. CASE y = h \/ u = h
      BY <2>5, <2>9, <3>1, <3>2, <3>3
    <3>4. CASE y # h /\ u # h
      <4>1. locks.held[y] = locks.held[u] /\ locks.held[y] # <<>>
        BY <2>5, <2>9, <3>1, <3>4
      <4> QED BY <4>1 DEF LocksSound
    <3> QED BY <3>3, <3>4
  <2>10. ASSUME NEW y \in Task, locks'.wtskq[y] # NOSVC PROVE IsInjective(locks'.wtskq[y])
    BY <2>1, <2>5, <2>10 DEF LocksSound
  <2>11. ASSUME NEW y \in Task, locks'.wtskq[y] # NOSVC, NEW w \in ToSet(locks'.wtskq[y])
         PROVE  TakesLock(act'[w]) /\ Needs(w, act'[w]) = y /\ locks'.held[w] = <<>>
    <3>1. w \in Task /\ w # h /\ TakesLock(act[w]) /\ Needs(w, act[w]) = y /\ locks.held[w] = <<>>
      <4>1. CASE y = x
        BY <1>3, <2>1, <2>5, <2>11, <4>1
      <4>2. CASE y # x
        <5>1. w \in ToSet(locks.wtskq[y]) /\ locks.wtskq[y] # NOSVC
          BY <2>5, <2>11, <4>2
        <5>2. w \in Task /\ TakesLock(act[w]) /\ Needs(w, act[w]) = y /\ locks.held[w] = <<>>
          BY <5>1, Waiting
        <5> QED BY <2>2, <4>2, <5>2
      <4> QED BY <4>1, <4>2
    <3>2. w # t
      BY <3>1
    <3> QED BY <2>5, <3>1, <3>2 DEF Only
  <2>12. LocksSound'
    BY <2>4, <2>7, <2>8, <2>9, <2>10, <2>11, LocksFrom
  <2> QED BY <2>4, <2>12
<1> QED BY <1>8, <1>9

(* A task waits no longer: it tries again, or is terminated.               *)
Withdraws(z) == locks' = [locks EXCEPT !.wtskq = [x \in Task |-> IF @[x] = NOSVC THEN NOSVC ELSE RemoveFirst(@[x], z)]]

LEMMA WaitLeft ==
  ASSUME LocksTypeOK, LocksSound, NEW z \in Task, Withdraws(z), Only(z),
         act'[z] = act[z] \/ (act'[z] = <<>> /\ locks.held[z] = <<>>)
  PROVE  LocksTypeOK' /\ LocksSound'
<1>1. /\ locks'.held = locks.held
      /\ locks'.wtskq = [x \in Task |-> IF locks.wtskq[x] = NOSVC THEN NOSVC ELSE RemoveFirst(locks.wtskq[x], z)]
      /\ locks' \in [held : [Task -> Seq(Task)], wtskq : {locks'.wtskq}]
  BY DEF Withdraws, LocksTypeOK
<1>2. ASSUME NEW x \in Task, locks.wtskq[x] # NOSVC
      PROVE  /\ locks'.wtskq[x] \in Seq(Task) /\ IsInjective(locks'.wtskq[x]) /\ locks'.wtskq[x] # NOSVC
             /\ ToSet(locks'.wtskq[x]) = ToSet(locks.wtskq[x]) \ {z}
  <2> DEFINE q == locks.wtskq[x]
  <2>1. q \in Seq(Task) /\ IsInjective(q)
    BY <1>2, Waiting
  <2>2. locks'.wtskq[x] = RemoveFirst(q, z)
    BY <1>1, <1>2
  <2> HIDE DEF q
  <2>3. RemoveFirst(q, z) \in Seq(Task) /\ IsInjective(RemoveFirst(q, z)) /\ ToSet(RemoveFirst(q, z)) = ToSet(q) \ {z}
    BY <2>1, FirstRemoved
  <2>4. RemoveFirst(q, z) # NOSVC
    BY <2>3, TexAssumption
  <2> QED BY <2>2, <2>3, <2>4 DEF q
<1>3. \A x \in Task : locks.wtskq[x] = NOSVC => locks'.wtskq[x] = NOSVC
  BY <1>1
<1>4. LocksTypeOK'
  <2>1. \A x \in Task : locks'.wtskq[x] \in {NOSVC} \cup Seq(Task)
    BY <1>2, <1>3
  <2>2. locks'.wtskq \in [Task -> {NOSVC} \cup Seq(Task)]
    <3> DEFINE Q == {NOSVC} \cup Seq(Task)
               f(x) == IF locks.wtskq[x] = NOSVC THEN NOSVC ELSE RemoveFirst(locks.wtskq[x], z)
    <3>1. locks'.wtskq = [x \in Task |-> f(x)] /\ \A x \in Task : locks'.wtskq[x] \in Q
      BY <1>1, <2>1
    <3> HIDE DEF Q, f
    <3>2. locks'.wtskq \in [Task -> Q]
      BY <3>1
    <3> QED BY <3>2 DEF Q
  <2> QED BY <1>1, <2>2 DEF LocksTypeOK
<1>5. ASSUME NEW y \in Task PROVE HeldRight(y, act'[y], locks'.held[y])
  <2>1. HeldRight(y, act[y], locks.held[y])
    BY DEF LocksSound
  <2>2. CASE act'[y] = act[y]
    BY <1>1, <2>1, <2>2
  <2>3. CASE act'[y] # act[y]
    <3>1. y = z /\ act'[y] = <<>> /\ locks.held[y] = <<>>
      BY <2>3 DEF Only
    <3> QED BY <1>1, <3>1 DEF HeldRight, HasLock
  <2> QED BY <2>2, <2>3
<1>6. ASSUME NEW y \in Task PROVE locks'.wtskq[y] # NOSVC <=> \E u \in Task : locks'.held[u] = <<y>>
  <2>1. locks'.wtskq[y] # NOSVC <=> locks.wtskq[y] # NOSVC
    BY <1>2, <1>3
  <2> QED BY <1>1, <2>1 DEF LocksSound
<1>7. ASSUME NEW y \in Task, NEW u \in Task, locks'.held[y] = locks'.held[u], locks'.held[y] # <<>> PROVE y = u
  BY <1>1, <1>7 DEF LocksSound
<1>8. ASSUME NEW y \in Task, locks'.wtskq[y] # NOSVC PROVE IsInjective(locks'.wtskq[y])
  BY <1>2, <1>3, <1>8
<1>9. ASSUME NEW y \in Task, locks'.wtskq[y] # NOSVC, NEW w \in ToSet(locks'.wtskq[y])
      PROVE  TakesLock(act'[w]) /\ Needs(w, act'[w]) = y /\ locks'.held[w] = <<>>
  <2>1. locks.wtskq[y] # NOSVC
    BY <1>3, <1>9
  <2>2. w \in ToSet(locks.wtskq[y]) /\ w # z
    BY <1>2, <1>9, <2>1
  <2>3. w \in Task /\ TakesLock(act[w]) /\ Needs(w, act[w]) = y /\ locks.held[w] = <<>>
    BY <2>1, <2>2, Waiting
  <2> QED BY <1>1, <2>2, <2>3 DEF Only
<1> QED
  <2>1. LocksSound'
    BY <1>4, <1>5, <1>6, <1>7, <1>8, <1>9, LocksFrom
  <2> QED BY <1>4, <2>1

-----------------------------------------------------------------------------
(* What the calls of a task and its exceptions say of each other.          *)
Fine(s, e) == IsStack(s) /\ Nested(s) /\ e \in Excs /\ Traced(s, e) /\ Flagged(s, e) /\ Served(s, e)

(* Only the flag of break and subsystem functions differs.                 *)
AsBefore(e, x) ==
  /\ x \in Excs
  /\ x.texhdr = e.texhdr /\ x.pendtex = e.pendtex /\ x.exectex = e.exectex /\ x.reqdct = e.reqdct
  /\ x.execssid = e.execssid /\ x.ran = e.ran /\ x.texflg \ {"SSFN"} = e.texflg \ {"SSFN"}

LEMMA ServedAlike ==
  ASSUME NEW s, NEW r, NEW e, NEW x, Served(s, e), AsBefore(e, x), Kept(r, e) = Kept(s, e)
  PROVE  Served(r, x)
<1>1. Kept(r, x) = Kept(r, e)
  BY DEF Kept, AsBefore
<1>2. ("TEX0" \in x.texflg <=> "TEX0" \in e.texflg) /\ ("TEX1" \in x.texflg <=> "TEX1" \in e.texflg)
  <2>1. \A f \in Flags \ {"SSFN"} : f \in x.texflg <=> f \in e.texflg
    BY DEF AsBefore
  <2> QED BY <2>1 DEF Flags
<1>3. x.texhdr = e.texhdr /\ x.pendtex = e.pendtex /\ x.reqdct = e.reqdct
  BY DEF AsBefore
<1> QED BY <1>1, <1>2, <1>3 DEF Served

LEMMA FinePush ==
  ASSUME NEW s, NEW e, Fine(s, e), NEW f, IsFrame(f), ~Entered(f), f.fn # "TEX", NEW x, AsBefore(e, x),
         s = <<>> \/ Outer(s[1]) \/ Breaking(f, s[1]),
         \/ ~Flagging(f) /\ x.texflg = e.texflg
         \/ Flagging(f) /\ f.save = e.texflg /\ x.texflg = e.texflg \cup {"SSFN"}
  PROVE  Fine(<<f>> \o s, x) /\ (BrokenOnce(s) => BrokenOnce(<<f>> \o s))
<1> DEFINE r == <<f>> \o s
<1>1. IsStack(s) /\ Nested(s) /\ Traced(s, e) /\ Flagged(s, e) /\ Served(s, e)
  BY DEF Fine
<1>2. IsStack(r) /\ Nested(r)
  BY <1>1, Pushed, PushNested
<1>3. Alike(s, r, 1)
  BY <1>1, PushAlike
<1>4. Flagged(r, x)
  BY <1>1, PushFlagged
<1> HIDE DEF r
<1>5. Traced(r, x) /\ Kept(r, e) = Kept(s, e) /\ (BrokenOnce(s) => BrokenOnce(r))
  <2>1. 1 \in Int
    OBVIOUS
  <2>2. Traced(r, x)
    BY <1>1, <1>2, <1>3, <2>1, AlikeTraced DEF AsBefore
  <2>3. Kept(r, e) = Kept(s, e)
    BY <1>1, <1>2, <1>3, <2>1, AlikeKept
  <2> QED BY <1>1, <1>2, <1>3, <2>1, <2>2, <2>3, AlikeBroken
<1>6. Served(r, x)
  BY <1>1, <1>5, ServedAlike
<1>7. Fine(r, x) /\ (BrokenOnce(s) => BrokenOnce(r))
  BY <1>2, <1>4, <1>5, <1>6 DEF Fine, AsBefore
<1> QED BY <1>7 DEF r

LEMMA FinePop ==
  ASSUME NEW s, NEW e, Fine(s, e), s # <<>>, ~Entered(s[1]), NEW x, AsBefore(e, x),
         \/ ~Flagging(s[1]) /\ x.texflg = e.texflg
         \/ Flagging(s[1]) /\ x.texflg = s[1].save
  PROVE  Fine(Tail(s), x) /\ (BrokenOnce(s) => BrokenOnce(Tail(s)))
<1> DEFINE r == Tail(s)
<1>1. IsStack(s) /\ Nested(s) /\ Traced(s, e) /\ Flagged(s, e) /\ Served(s, e)
  BY DEF Fine
<1>2. IsStack(r) /\ Nested(r)
  BY <1>1, Popped, PopNested
<1>3. Alike(s, r, -1)
  BY <1>1, PopAlike
<1>4. Flagged(r, x)
  BY <1>1, PopFlagged
<1> HIDE DEF r
<1>5. Traced(r, x) /\ Kept(r, e) = Kept(s, e) /\ (BrokenOnce(s) => BrokenOnce(r))
  <2>1. -1 \in Int
    OBVIOUS
  <2>2. Traced(r, x)
    BY <1>1, <1>2, <1>3, <2>1, AlikeTraced DEF AsBefore
  <2>3. Kept(r, e) = Kept(s, e)
    BY <1>1, <1>2, <1>3, <2>1, AlikeKept
  <2> QED BY <1>1, <1>2, <1>3, <2>1, <2>2, <2>3, AlikeBroken
<1>6. Served(r, x)
  BY <1>1, <1>5, ServedAlike
<1>7. Fine(r, x) /\ (BrokenOnce(s) => BrokenOnce(r))
  BY <1>2, <1>4, <1>5, <1>6 DEF Fine, AsBefore
<1> QED BY <1>7 DEF r

LEMMA FineChange ==
  ASSUME NEW s, NEW e, Fine(s, e), s # <<>>, NEW f, IsFrame(f), NEW x, AsBefore(e, x),
         f.fn = s[1].fn, f.fn \in {"SVC", "RAISE", "SSFN"}, Entered(f) <=> Entered(s[1]),
         Entered(f) => f.ssid = s[1].ssid /\ f.brks = s[1].brks /\ f.save = s[1].save,
         \/ /\ Flagging(f) <=> Flagging(s[1])
            /\ Flagging(f) => f.save = s[1].save
            /\ x.texflg = e.texflg
         \/ Flagging(s[1]) /\ ~Flagging(f) /\ x.texflg = s[1].save
  PROVE  Fine([s EXCEPT ![1] = f], x) /\ (BrokenOnce(s) => BrokenOnce([s EXCEPT ![1] = f]))
<1> DEFINE r == [s EXCEPT ![1] = f]
<1>1. IsStack(s) /\ Nested(s) /\ Traced(s, e) /\ Flagged(s, e) /\ Served(s, e) /\ 1 \in 1..Len(s)
  BY StackIs DEF Fine
<1>2. IsStack(r) /\ Nested(r)
  BY <1>1, Changed, ChangeNested
<1>3. Alike(s, r, 0)
  BY <1>1, ChangeAlike
<1>4. Flagged(r, x)
  BY <1>1, ChangeFlagged
<1> HIDE DEF r
<1>5. Traced(r, x) /\ Kept(r, e) = Kept(s, e) /\ (BrokenOnce(s) => BrokenOnce(r))
  <2>1. 0 \in Int
    OBVIOUS
  <2>2. Traced(r, x)
    BY <1>1, <1>2, <1>3, <2>1, AlikeTraced DEF AsBefore
  <2>3. Kept(r, e) = Kept(s, e)
    BY <1>1, <1>2, <1>3, <2>1, AlikeKept
  <2> QED BY <1>1, <1>2, <1>3, <2>1, <2>2, <2>3, AlikeBroken
<1>6. Served(r, x)
  BY <1>1, <1>5, ServedAlike
<1>7. Fine(r, x) /\ (BrokenOnce(s) => BrokenOnce(r))
  BY <1>2, <1>4, <1>5, <1>6 DEF Fine, AsBefore
<1> QED BY <1>7 DEF r

(* The program counter of a call.                                          *)
LEMMA FrameMoves ==
  ASSUME NEW f, IsFrame(f), NEW a
  PROVE  /\ [f EXCEPT !.at = a].at = a /\ [f EXCEPT !.at = a].fn = f.fn
         /\ {"fn", "at"} \subseteq DOMAIN [f EXCEPT !.at = a]
         /\ f.fn = "SVC" => /\ {"ssid", "brks", "save"} \subseteq DOMAIN [f EXCEPT !.at = a]
                            /\ [f EXCEPT !.at = a].ssid = f.ssid /\ [f EXCEPT !.at = a].brks = f.brks
                            /\ [f EXCEPT !.at = a].save = f.save
         /\ f.fn = "RAISE" => /\ {"tsk", "texcd"} \subseteq DOMAIN [f EXCEPT !.at = a]
                              /\ [f EXCEPT !.at = a].tsk = f.tsk /\ [f EXCEPT !.at = a].texcd = f.texcd
         /\ f.fn = "SSFN" => /\ {"todo", "save"} \subseteq DOMAIN [f EXCEPT !.at = a]
                             /\ [f EXCEPT !.at = a].save = f.save
<1> DEFINE g == [f EXCEPT !.at = a]
<1>1. {"fn", "at"} \subseteq DOMAIN f
  BY DEF IsFrame
<1>2. DOMAIN g = DOMAIN f /\ g.at = a /\ g["at"] = a /\ \A k \in DOMAIN f : k # "at" => g[k] = f[k]
  BY <1>1
<1>3. "fn" # "at" /\ "ssid" # "at" /\ "brks" # "at" /\ "save" # "at" /\ "tsk" # "at" /\ "texcd" # "at"
  OBVIOUS
<1> HIDE DEF g
<1>4. g.at = a /\ g.fn = f.fn /\ {"fn", "at"} \subseteq DOMAIN g
  BY <1>1, <1>2, <1>3
<1>5. CASE f.fn = "SVC"
  <2>1. {"ssid", "brks", "save"} \subseteq DOMAIN f
    BY <1>5 DEF IsFrame, SvcFrame
  <2>2. {"ssid", "brks", "save"} \subseteq DOMAIN g /\ g.ssid = f.ssid /\ g.brks = f.brks /\ g.save = f.save
    BY <1>2, <1>3, <2>1
  <2> QED BY <1>4, <1>5, <2>2 DEF g
<1>6. CASE f.fn = "RAISE"
  <2>1. {"tsk", "texcd"} \subseteq DOMAIN f
    BY <1>6 DEF IsFrame, RaiseFrame
  <2>2. {"tsk", "texcd"} \subseteq DOMAIN g /\ g.tsk = f.tsk /\ g.texcd = f.texcd
    BY <1>2, <1>3, <2>1
  <2> QED BY <1>4, <1>6, <2>2 DEF g
<1>7. CASE f.fn = "SSFN"
  <2>1. {"todo", "save"} \subseteq DOMAIN f
    BY <1>7 DEF IsFrame, SsfnFrame
  <2>2. {"todo", "save"} \subseteq DOMAIN g /\ g.save = f.save
    BY <1>2, <1>3, <2>1
  <2> QED BY <1>4, <1>7, <2>2 DEF g
<1> QED BY <1>4, <1>5, <1>6, <1>7 DEF g

(* An extended SVC begins: it saves what execssid said of those before.    *)
Begins(f, e) == [f EXCEPT !.save = SaveOf(e), !.at = "BODY"]
Begun(f, e) == [e EXCEPT !.execssid = f.ssid, !.ran = FALSE, !.exectex = IF e.ran THEN {} ELSE @]

LEMMA FrameBegins ==
  ASSUME NEW f, IsFrame(f), f.fn = "SVC", f.at = "ENTER", NEW e \in Excs
  PROVE  /\ IsFrame(Begins(f, e)) /\ Begins(f, e).fn = "SVC" /\ Begins(f, e).at = "BODY"
         /\ Begins(f, e).ssid = f.ssid /\ Begins(f, e).brks = 0
         /\ Begins(f, e).save = SaveOf(e) /\ f.ssid \in Ssid
<1>1. SvcFrame(f) /\ {"fn", "at"} \subseteq DOMAIN f
  BY DEF IsFrame
<1>2. f.ssid \in Ssid /\ f.brks = 0 /\ {"ssid", "brks", "save"} \subseteq DOMAIN f
  BY <1>1 DEF SvcFrame
<1>3. SaveOf(e) \in Saves
  BY DEF SaveOf, Saves, Excs
<1> DEFINE v == SaveOf(e)
           g == Begins(f, e)
<1>4. g = [f EXCEPT !.save = v, !.at = "BODY"]
  BY DEF Begins
<1> HIDE DEF g, v
<1>5. DOMAIN g = DOMAIN f
  BY <1>4
<1>6. g.fn = "SVC" /\ g.at = "BODY" /\ g.ssid = f.ssid /\ g.brks = 0 /\ g.save = v
  BY <1>1, <1>2, <1>4
<1>7. IsFrame(g)
  BY <1>1, <1>2, <1>3, <1>5, <1>6 DEF IsFrame, SvcFrame, v
<1> QED BY <1>2, <1>6, <1>7 DEF g, v

LEMMA FineBegins ==
  ASSUME NEW s, NEW e, Fine(s, e), s # <<>>, s[1].fn = "SVC", s[1].at = "ENTER"
  PROVE  Fine([s EXCEPT ![1] = Begins(s[1], e)], Begun(s[1], e))
<1> DEFINE f == Begins(s[1], e)
           r == [s EXCEPT ![1] = f]
           x == Begun(s[1], e)
<1>1. IsStack(s) /\ Nested(s) /\ Traced(s, e) /\ Flagged(s, e) /\ Served(s, e) /\ 1 \in 1..Len(s) /\ e \in Excs
  BY StackIs DEF Fine
<1>2. IsFrame(s[1])
  BY <1>1 DEF IsStack
<1>3. /\ IsFrame(f) /\ f.fn = "SVC" /\ f.at = "BODY" /\ f.ssid = s[1].ssid /\ f.brks = 0
      /\ f.save = SaveOf(e) /\ s[1].ssid \in Ssid
  BY <1>1, <1>2, FrameBegins
<1>4. /\ x \in Excs /\ x.execssid = s[1].ssid /\ x.ran = FALSE /\ x.exectex = IF e.ran THEN {} ELSE e.exectex
      /\ x.texhdr = e.texhdr /\ x.pendtex = e.pendtex /\ x.reqdct = e.reqdct /\ x.texflg = e.texflg
  BY <1>1, <1>3 DEF Begun, Excs
<1>5. /\ f.save.execssid = e.execssid /\ f.save.ran = e.ran /\ f.save.exectex = e.exectex
  BY <1>3 DEF SaveOf
<1> HIDE DEF f, x
<1>6. /\ IsStack(r) /\ Nested(r) /\ Len(r) = Len(s) /\ r[1] = f /\ \A i \in 1..Len(s) : i # 1 => r[i] = s[i]
  BY <1>1, <1>3, Changed, ChangeNested
<1>7. Flagged(r, x)
  <2>1. ~Flagging(f) /\ ~Flagging(s[1])
    BY <1>3 DEF Flagging
  <2> QED BY <1>1, <1>3, <1>4, <2>1, ChangeFlagged
<1> HIDE DEF r
<1>8. /\ Svcs(r) = Svcs(s) \cup {1} /\ 1 \notin Svcs(s) /\ Svcs(s) \subseteq Nat \ {0}
      /\ \A i \in Svcs(s) : r[i] = s[i]
  <2>1. Entered(f) /\ ~Entered(s[1])
    BY <1>3 DEF Entered
  <2>2. Svcs(s) \subseteq Nat \ {0}
    BY <1>1, SvcsAre
  <2> QED BY <1>1, <1>6, <2>1, <2>2 DEF Svcs
<1>9. Traced(r, x)
  <2>1. Tells(r, 0, x.execssid, x.ran)
    <3>1. 1 \in Svcs(r) /\ 1 > 0 /\ \A j \in Svcs(r) : j > 0 => 1 <= j
      BY <1>8
    <3>2. x.execssid = r[1].ssid /\ (x.ran <=> r[1].brks = 1)
      BY <1>3, <1>4, <1>6
    <3> QED BY <3>1, <3>2 DEF Tells
  <2>2. ASSUME NEW k \in Nat, NEW l \in Nat, k = l \/ (k = 0 /\ l = 1), l >= 1,
               NEW ssid, NEW ran, Tells(s, k, ssid, ran)
        PROVE  Tells(r, l, ssid, ran)
    <3>1. \A i \in Svcs(s) : i > k <=> i > l
      BY <1>8, <2>2
    <3>2. \A i \in Svcs(r) : i > l => i \in Svcs(s)
      BY <1>8, <2>2
    <3>3. CASE ssid = 0 /\ \A i \in Svcs(s) : i <= k
      <4>1. \A i \in Svcs(r) : i <= l
        BY <1>8, <2>2, <3>1, <3>2, <3>3
      <4> QED BY <3>3, <4>1 DEF Tells
    <3>4. CASE \E i \in Svcs(s) :
                 /\ i > k /\ \A j \in Svcs(s) : j > k => i <= j
                 /\ ssid = s[i].ssid /\ (ran <=> s[i].brks = 1)
      <4>1. PICK i \in Svcs(s) : /\ i > k /\ \A j \in Svcs(s) : j > k => i <= j
                                 /\ ssid = s[i].ssid /\ (ran <=> s[i].brks = 1)
        BY <3>4
      <4>2. i \in Svcs(r) /\ i > l /\ \A j \in Svcs(r) : j > l => i <= j
        BY <1>8, <3>1, <3>2, <4>1
      <4>3. ssid = r[i].ssid /\ (ran <=> r[i].brks = 1)
        BY <1>8, <4>1
      <4> QED BY <4>2, <4>3 DEF Tells
    <3> QED BY <2>2, <3>3, <3>4 DEF Tells
  <2>3. ASSUME NEW k \in Svcs(r) PROVE Tells(r, k, r[k].save.execssid, r[k].save.ran)
    <3>1. CASE k = 1
      <4>1. Tells(s, 0, e.execssid, e.ran)
        BY <1>1 DEF Traced
      <4>2. Tells(r, 1, e.execssid, e.ran)
        BY <2>2, <4>1
      <4> QED BY <1>5, <1>6, <3>1, <4>2
    <3>2. CASE k # 1
      <4>1. k \in Svcs(s) /\ k \in Nat /\ k >= 1 /\ r[k] = s[k]
        BY <1>8, <2>3, <3>2
      <4>2. Tells(s, k, s[k].save.execssid, s[k].save.ran)
        BY <1>1, <4>1 DEF Traced
      <4>3. Tells(r, k, s[k].save.execssid, s[k].save.ran)
        BY <2>2, <4>1, <4>2
      <4> QED BY <4>1, <4>3
    <3> QED BY <3>1, <3>2
  <2> QED BY <2>1, <2>3 DEF Traced
<1>10. Kept(r, x) = Kept(s, e)
  <2>1. x.exectex \subseteq e.exectex /\ r[1].save.exectex = e.exectex
    BY <1>4, <1>5, <1>6
  <2>2. UNION {r[k].save.exectex : k \in Svcs(r)} = e.exectex \cup UNION {s[k].save.exectex : k \in Svcs(s)}
    BY <1>8, <2>1
  <2> QED BY <2>1, <2>2 DEF Kept
<1>11. Served(r, x)
  <2> DEFINE K == Kept(s, e)
  <2>1. K = Kept(r, x) /\ K = Kept(s, e)
    BY <1>10
  <2> HIDE DEF K
  <2> QED BY <1>1, <1>4, <2>1 DEF Served
<1> QED BY <1>4, <1>6, <1>7, <1>9, <1>11 DEF Fine, r, x, f

(* An extended SVC ends: execssid is what it has saved, and so is exectex. *)
Ended(f, e) == [e EXCEPT !.execssid = f.save.execssid, !.ran = f.save.ran, !.exectex = @ \cup f.save.exectex]

LEMMA FineEnds ==
  ASSUME NEW s, NEW e, Fine(s, e), s # <<>>, s[1].fn = "SVC", s[1].at = "OUT"
  PROVE  Fine([s EXCEPT ![1].at = "SELF"], Ended(s[1], e))
<1> DEFINE f == [s[1] EXCEPT !.at = "SELF"]
           r == [s EXCEPT ![1] = f]
           x == Ended(s[1], e)
<1>1. IsStack(s) /\ Nested(s) /\ Traced(s, e) /\ Flagged(s, e) /\ Served(s, e) /\ 1 \in 1..Len(s) /\ e \in Excs
  BY StackIs DEF Fine
<1>2. IsFrame(s[1]) /\ SvcFrame(s[1]) /\ s[1].save \in Saves
  BY <1>1 DEF IsStack, IsFrame, SvcFrame
<1>3. IsFrame(f) /\ f.fn = "SVC" /\ f.at = "SELF"
  <2>1. /\ f.at = "SELF" /\ f.fn = "SVC" /\ {"fn", "at", "ssid", "brks", "save"} \subseteq DOMAIN f
        /\ f.ssid = s[1].ssid /\ f.brks = s[1].brks /\ f.save = s[1].save
    BY <1>2, FrameMoves
  <2> HIDE DEF f
  <2> QED BY <1>2, <2>1 DEF IsFrame, SvcFrame
<1>4. /\ x \in Excs /\ x.execssid = s[1].save.execssid /\ x.ran = s[1].save.ran
      /\ x.exectex = e.exectex \cup s[1].save.exectex
      /\ x.texhdr = e.texhdr /\ x.pendtex = e.pendtex /\ x.reqdct = e.reqdct /\ x.texflg = e.texflg
  BY <1>1, <1>2 DEF Ended, Excs, Saves
<1> HIDE DEF f, x
<1>6. /\ IsStack(r) /\ Nested(r) /\ Len(r) = Len(s) /\ r[1] = f /\ \A i \in 1..Len(s) : i # 1 => r[i] = s[i]
  BY <1>1, <1>3, Changed, ChangeNested
<1>7. Flagged(r, x)
  <2>1. ~Flagging(f) /\ ~Flagging(s[1])
    BY <1>3 DEF Flagging
  <2> QED BY <1>1, <1>3, <1>4, <2>1, ChangeFlagged
<1> HIDE DEF r
<1>8. /\ Svcs(s) = Svcs(r) \cup {1} /\ 1 \notin Svcs(r) /\ Svcs(s) \subseteq Nat \ {0}
      /\ \A i \in Svcs(r) : r[i] = s[i]
  <2>1. ~Entered(f) /\ Entered(s[1])
    BY <1>3 DEF Entered
  <2>2. Svcs(s) \subseteq Nat \ {0}
    BY <1>1, SvcsAre
  <2> QED BY <1>1, <1>6, <2>1, <2>2 DEF Svcs
<1>9. Traced(r, x)
  <2>2. ASSUME NEW k \in Nat, NEW l \in Nat, k = l \/ (k = 1 /\ l = 0), k >= 1,
               NEW ssid, NEW ran, Tells(s, k, ssid, ran)
        PROVE  Tells(r, l, ssid, ran)
    <3>1. \A i \in Svcs(r) : i \in Svcs(s) /\ (i > k <=> i > l)
      BY <1>8, <2>2
    <3>2. \A i \in Svcs(s) : i > k => i \in Svcs(r)
      BY <1>8, <2>2
    <3>3. CASE ssid = 0 /\ \A i \in Svcs(s) : i <= k
      <4>1. \A i \in Svcs(r) : i <= l
        BY <1>8, <2>2, <3>1, <3>2, <3>3
      <4> QED BY <3>3, <4>1 DEF Tells
    <3>4. CASE \E i \in Svcs(s) :
                 /\ i > k /\ \A j \in Svcs(s) : j > k => i <= j
                 /\ ssid = s[i].ssid /\ (ran <=> s[i].brks = 1)
      <4>1. PICK i \in Svcs(s) : /\ i > k /\ \A j \in Svcs(s) : j > k => i <= j
                                 /\ ssid = s[i].ssid /\ (ran <=> s[i].brks = 1)
        BY <3>4
      <4>2. i \in Svcs(r) /\ i > l /\ \A j \in Svcs(r) : j > l => i <= j
        BY <1>8, <3>1, <3>2, <4>1
      <4>3. ssid = r[i].ssid /\ (ran <=> r[i].brks = 1)
        BY <1>8, <4>1, <4>2
      <4> QED BY <4>2, <4>3 DEF Tells
    <3> QED BY <2>2, <3>3, <3>4 DEF Tells
  <2>1. Tells(r, 0, x.execssid, x.ran)
    <3>1. Tells(s, 1, s[1].save.execssid, s[1].save.ran)
      BY <1>1, <1>8 DEF Traced
    <3> QED BY <1>4, <2>2, <3>1
  <2>3. ASSUME NEW k \in Svcs(r) PROVE Tells(r, k, r[k].save.execssid, r[k].save.ran)
    <3>1. k \in Svcs(s) /\ k \in Nat /\ k >= 1 /\ r[k] = s[k]
      BY <1>8, <2>3
    <3>2. Tells(s, k, s[k].save.execssid, s[k].save.ran)
      BY <1>1, <3>1 DEF Traced
    <3>3. Tells(r, k, s[k].save.execssid, s[k].save.ran)
      BY <2>2, <3>1, <3>2
    <3> QED BY <3>1, <3>3
  <2> QED BY <2>1, <2>3 DEF Traced
<1>10. Kept(r, x) = Kept(s, e)
  <2>1. UNION {s[k].save.exectex : k \in Svcs(s)}
          = s[1].save.exectex \cup UNION {r[k].save.exectex : k \in Svcs(r)}
    BY <1>8
  <2> QED BY <1>4, <2>1 DEF Kept
<1>11. Served(r, x)
  <2> DEFINE K == Kept(s, e)
  <2>1. K = Kept(r, x) /\ K = Kept(s, e)
    BY <1>10
  <2> HIDE DEF K
  <2> QED BY <1>1, <1>4, <2>1 DEF Served
<1> QED BY <1>4, <1>6, <1>7, <1>9, <1>11 DEF Fine, r, x, f

(* The innermost extended SVC that has been entered, if there is one.      *)
LEMMA CurrentIs ==
  ASSUME NEW s, IsStack(s), NEW ssid, NEW ran, Tells(s, 0, ssid, ran), NEW i, i = SelectInSeq(s, Entered)
  PROVE  \/ i = 0 /\ Svcs(s) = {} /\ ssid = 0
         \/ /\ i \in Svcs(s) /\ \A j \in Svcs(s) : i <= j
            /\ ssid = s[i].ssid /\ (ran <=> s[i].brks = 1)
<1>0. Svcs(s) \subseteq Nat \ {0}
  BY SvcsAre
<1>1. i = IF Svcs(s) = {} THEN 0 ELSE Min(Svcs(s))
  <2>1. (\E j \in 1..Len(s) : Entered(s[j])) <=> Svcs(s) # {}
    BY DEF Svcs
  <2> QED BY <2>1 DEF SelectInSeq, Svcs
<1>2. CASE ssid = 0 /\ \A j \in Svcs(s) : j <= 0
  <2>1. Svcs(s) = {}
    BY <1>0, <1>2
  <2> QED BY <1>1, <1>2, <2>1
<1>3. CASE \E j \in Svcs(s) :
             /\ j > 0 /\ \A k \in Svcs(s) : k > 0 => j <= k
             /\ ssid = s[j].ssid /\ (ran <=> s[j].brks = 1)
  <2>1. PICK j \in Svcs(s) : /\ j > 0 /\ \A k \in Svcs(s) : k > 0 => j <= k
                             /\ ssid = s[j].ssid /\ (ran <=> s[j].brks = 1)
    BY <1>3
  <2>2. \A k \in Svcs(s) : j <= k
    BY <1>0, <2>1
  <2>3. Min(Svcs(s)) = j
    <3> DEFINE V == Svcs(s)
               m == Min(V)
    <3>1. m \in V /\ \A k \in V : m <= k
      <4>1. \E k \in V : \A l \in V : k <= l
        BY <2>2
      <4> HIDE DEF V
      <4> QED BY <4>1 DEF Min
    <3>2. m \in Int /\ j \in Int /\ m <= j /\ j <= m
      BY <1>0, <2>2, <3>1
    <3> HIDE DEF m
    <3>3. m = j
      BY <3>2
    <3> QED BY <3>3 DEF m
  <2> QED BY <1>1, <2>1, <2>2, <2>3
<1> QED BY <1>2, <1>3 DEF Tells

(* The break function of the current extended SVC is called: it has been   *)
(* called once.                                                            *)
Marked(s) == [s EXCEPT ![SelectInSeq(s, Entered)].brks = @ + 1]

LEMMA FineMarked ==
  ASSUME NEW s, NEW e, Fine(s, e), e.execssid # 0, ~e.ran
  PROVE  /\ Fine(Marked(s), Mark(e)) /\ BrokenOnce(Marked(s))
         /\ s # <<>> /\ Marked(s) # <<>> /\ Len(Marked(s)) = Len(s)
         /\ \A k \in 1..Len(s) : /\ Marked(s)[k].fn = s[k].fn /\ Marked(s)[k].at = s[k].at
                                 /\ s[k].fn # "SVC" => Marked(s)[k] = s[k]
<1> DEFINE i == SelectInSeq(s, Entered)
<1>1. IsStack(s) /\ Nested(s) /\ Traced(s, e) /\ Flagged(s, e) /\ Served(s, e) /\ e \in Excs
  BY DEF Fine
<1>2. i \in Svcs(s) /\ (\A j \in Svcs(s) : i <= j) /\ e.execssid = s[i].ssid /\ s[i].brks # 1
  BY <1>1, CurrentIs DEF Traced
<1> HIDE DEF i
<1>3. i \in 1..Len(s) /\ Entered(s[i]) /\ IsFrame(s[i])
  BY <1>1, <1>2 DEF Svcs, IsStack
<1>4. s[i].fn = "SVC" /\ s[i].at \in {"BODY", "LEAVE", "OUT"}
  BY <1>3 DEF Entered
<1>5. SvcFrame(s[i]) /\ {"fn", "at"} \subseteq DOMAIN s[i]
  BY <1>3, <1>4 DEF IsFrame
<1>6. s[i].brks = 0 /\ {"ssid", "brks", "save"} \subseteq DOMAIN s[i] /\ s[i].ssid \in Ssid /\ s[i].save \in Saves
  BY <1>2, <1>5 DEF SvcFrame
<1> DEFINE f == [s[i] EXCEPT !.brks = 1]
           r == [s EXCEPT ![i] = f]
           x == Mark(e)
<1>7. Marked(s) = r
  BY <1>6 DEF Marked, i
<1>8. /\ DOMAIN f = DOMAIN s[i] /\ f.fn = "SVC" /\ f.at = s[i].at /\ f.brks = 1
      /\ f.ssid = s[i].ssid /\ f.save = s[i].save
  BY <1>4, <1>5, <1>6
<1>9. x \in Excs /\ x.ran = TRUE /\ x.execssid = e.execssid /\ x.texflg = e.texflg
      /\ x.exectex = e.exectex /\ x.pendtex = e.pendtex /\ x.texhdr = e.texhdr /\ x.reqdct = e.reqdct
  BY <1>1 DEF Mark, Excs
<1> HIDE DEF f, x
<1>10. IsFrame(f)
  BY <1>4, <1>5, <1>6, <1>8 DEF IsFrame, SvcFrame
<1>11. /\ IsStack(r) /\ Nested(r) /\ Len(r) = Len(s) /\ r[i] = f /\ r # <<>>
       /\ \A k \in 1..Len(s) : k # i => r[k] = s[k]
  BY <1>1, <1>3, <1>4, <1>8, <1>10, Changed, ChangeNested
<1>12. Flagged(r, x)
  <2>1. ~Flagging(f) /\ ~Flagging(s[i])
    BY <1>4, <1>8 DEF Flagging
  <2> QED BY <1>1, <1>3, <1>9, <1>10, <2>1, ChangeFlagged
<1> HIDE DEF r
<1>13. /\ Svcs(r) = Svcs(s) /\ Svcs(s) \subseteq Nat \ {0}
       /\ \A k \in Svcs(s) : r[k].ssid = s[k].ssid /\ r[k].save = s[k].save
       /\ \A k \in Svcs(s) : k # i => r[k] = s[k]
  <2>1. Entered(f)
    BY <1>4, <1>8 DEF Entered
  <2>2. Svcs(s) \subseteq Nat \ {0}
    BY <1>1, SvcsAre
  <2> QED BY <1>3, <1>8, <1>11, <2>1, <2>2 DEF Svcs
<1>14. Traced(r, x)
  <2>1. Tells(r, 0, x.execssid, x.ran)
    <3>1. i \in Svcs(r) /\ i > 0 /\ \A j \in Svcs(r) : j > 0 => i <= j
      BY <1>2, <1>13
    <3>2. x.execssid = r[i].ssid /\ (x.ran <=> r[i].brks = 1)
      BY <1>2, <1>8, <1>9, <1>11
    <3> QED BY <3>1, <3>2 DEF Tells
  <2>2. ASSUME NEW k \in Svcs(r) PROVE Tells(r, k, r[k].save.execssid, r[k].save.ran)
    <3>1. Tells(s, k, s[k].save.execssid, s[k].save.ran)
      BY <1>1, <1>13, <2>2 DEF Traced
    <3>2. \A j \in Svcs(s) : j > k => j # i
      BY <1>2, <1>13, <2>2
    <3>3. r[k].save = s[k].save
      BY <1>13, <2>2
    <3> HIDE DEF r
    <3> QED BY <1>13, <3>1, <3>2, <3>3 DEF Tells
  <2> QED BY <2>1, <2>2 DEF Traced
<1>15. Kept(r, x) = Kept(s, e)
  <2>1. {r[k].save.exectex : k \in Svcs(r)} = {s[k].save.exectex : k \in Svcs(s)}
    BY <1>13
  <2> QED BY <1>9, <2>1 DEF Kept
<1>16. Served(r, x)
  <2> DEFINE K == Kept(s, e)
  <2>1. K = Kept(r, x) /\ K = Kept(s, e)
    BY <1>15
  <2> HIDE DEF K
  <2> QED BY <1>1, <1>9, <2>1 DEF Served
<1>17. Fine(r, x)
  BY <1>9, <1>11, <1>12, <1>14, <1>16 DEF Fine
<1>18. BrokenOnce(r)
  <2>1. ASSUME NEW k \in Svcs(r), \A j \in Svcs(r) : k <= j PROVE k = i
    <3>1. k \in Nat /\ i \in Nat /\ k <= i /\ i <= k
      BY <1>2, <1>13, <2>1
    <3> QED BY <3>1
  <2> QED BY <1>8, <1>11, <2>1 DEF BrokenOnce
<1>19. ASSUME NEW k \in 1..Len(s)
       PROVE  r[k].fn = s[k].fn /\ r[k].at = s[k].at /\ (s[k].fn # "SVC" => r[k] = s[k])
  BY <1>4, <1>8, <1>11
<1>20. s # <<>>
  BY <1>3
<1>21. /\ Fine(r, x) /\ BrokenOnce(r) /\ s # <<>> /\ r # <<>> /\ Len(r) = Len(s)
       /\ \A k \in 1..Len(s) : r[k].fn = s[k].fn /\ r[k].at = s[k].at /\ (s[k].fn # "SVC" => r[k] = s[k])
  BY <1>11, <1>17, <1>18, <1>19, <1>20
<1> HIDE DEF r
<1> QED BY <1>7, <1>21 DEF x

-----------------------------------------------------------------------------
(* The steps.                                                              *)
LEMMA TexKnown ==
  ASSUME TexInv
  PROVE  /\ LocksTypeOK /\ LocksSound /\ BreaksSound /\ TexTypeOK
         /\ act = [u \in Task |-> act[u]] /\ tex = [u \in Task |-> tex[u]] /\ live \subseteq Task
         /\ \A y \in Task : Fine(act[y], tex[y]) /\ (act[y] # <<>> => y \in live)
<1>1. TexTypeOK /\ TasksSound /\ LocksSound /\ BreaksSound
  BY DEF TexInv
<1>2. tex = [u \in Task |-> tex[u]] /\ \A y \in Task : tex[y] \in Excs
  BY <1>1 DEF TexTypeOK
<1> QED BY <1>1, <1>2 DEF TexTypeOK, TasksSound, LocksTypeOK, Fine

TexSame == UNCHANGED <<ssycb, ssypri_table>>
Functions == act' = [u \in Task |-> act'[u]] /\ tex' = [u \in Task |-> tex'[u]] /\ live' \subseteq Task

LEMMA TexFrom ==
  ASSUME TexInv, TexSame, Functions, LocksTypeOK', LocksSound', BreaksSound',
         \A y \in Task : Fine(act'[y], tex'[y]) /\ (act'[y] # <<>> => y \in live')
  PROVE  TexInv'
<1>1. tex' \in [Task -> Excs]
  BY DEF Fine, Functions
<1>2. TexTypeOK'
  BY <1>1 DEF TexInv, TexTypeOK, TexSame, Functions, LocksTypeOK, Fine
<1>3. TasksSound'
  BY DEF TasksSound, Fine
<1>4. SubsystemsListed'
  BY DEF TexInv, TexSame, SubsystemsListed
<1> QED BY <1>2, <1>3, <1>4 DEF TexInv

(* Nobody else runs a break function for a task that has its lock.         *)
LEMMA BreaksKept ==
  ASSUME TexInv, NEW t \in Task, Only(t),
         (act'[t] # <<>> /\ act'[t][1].fn = "BREAK") => act'[t] = act[t] \/ act'[t][1].tsk = t,
         \/ BrokenOnce(act[t]) => BrokenOnce(act'[t])
         \/ HasLock(act[t]) /\ Needs(t, act[t]) = t
  PROVE  BreaksSound'
<1> SUFFICES ASSUME NEW u \in Task, act'[u] # <<>>, act'[u][1].fn = "BREAK", act'[u][1].tsk # u
             PROVE  HasLock(act'[u]) /\ BrokenOnce(act'[act'[u][1].tsk])
  BY DEF BreaksSound
<1>1. act'[u] = act[u]
  BY DEF Only
<1> DEFINE x == act[u][1].tsk
<1>2. HasLock(act[u]) /\ BrokenOnce(act[x]) /\ x # u
  BY <1>1 DEF TexInv, BreaksSound
<1>3. x \in Task
  <2>1. IsStack(act[u]) /\ act[u] # <<>>
    BY <1>1 DEF TexInv, TexTypeOK
  <2>2. IsFrame(act[u][1])
    BY <2>1, StackIs DEF IsStack
  <2> QED BY <1>1, <2>2 DEF IsFrame, BreakFrame
<1>4. CASE x # t
  BY <1>1, <1>2, <1>3, <1>4 DEF Only
<1>5. CASE x = t /\ (BrokenOnce(act[t]) => BrokenOnce(act'[t]))
  BY <1>1, <1>2, <1>5
<1>6. CASE x = t /\ HasLock(act[t]) /\ Needs(t, act[t]) = t
  <2>1. LocksSound /\ Fine(act[u], tex[u]) /\ Fine(act[t], tex[t])
    BY TexKnown
  <2>2. Needs(u, act[u]) = t
    BY <1>1, <1>6 DEF Needs
  <2>3. ~TakesLock(act[u]) /\ ~TakesLock(act[t])
    BY <1>2, <1>6, <2>1, OneOrOther DEF NotBoth, Fine
  <2>4. locks.held[u] = <<t>> /\ locks.held[t] = <<t>>
    BY <1>2, <1>6, <2>1, <2>2, <2>3 DEF LocksSound, HeldRight
  <2>5. u = t
    BY <2>1, <2>4 DEF LocksSound
  <2> QED BY <1>2, <1>6, <2>5
<1> QED BY <1>4, <1>5, <1>6

(* A step of one task that changes its calls, and the exceptions of one.   *)
LEMMA OneTask ==
  ASSUME TexInv, TexSame, Functions, live' = live, NEW t \in Task, Only(t), NEW x \in Task,
         \A y \in Task : y # x => tex'[y] = tex[y],
         Fine(act'[t], tex'[t]), Fine(act'[x], tex'[x]), act'[t] # <<>> => t \in live,
         LocksTypeOK', LocksSound',
         (act'[t] # <<>> /\ act'[t][1].fn = "BREAK") => act'[t] = act[t] \/ act'[t][1].tsk = t,
         \/ BrokenOnce(act[t]) => BrokenOnce(act'[t])
         \/ HasLock(act[t]) /\ Needs(t, act[t]) = t
  PROVE  TexInv'
<1>1. BreaksSound'
  BY BreaksKept
<1>2. ASSUME NEW y \in Task PROVE Fine(act'[y], tex'[y]) /\ (act'[y] # <<>> => y \in live')
  <2>1. CASE y = t \/ y = x
    BY <2>1, TexKnown DEF Only
  <2>2. CASE y # t /\ y # x
    BY <2>2, TexKnown DEF Only
  <2> QED BY <2>1, <2>2
<1> QED BY <1>1, <1>2, TexFrom

(* A call begins.                                                          *)
LEMMA CallBegins ==
  ASSUME TexInv, TexSame, NEW t \in Task, MayCall(t), NEW f, IsFrame(f), Enter(t, f), UNCHANGED <<live, locks>>,
         f.fn \in {"SVC", "RAISE", "SSFN"}, ~Entered(f), NEW e, AsBefore(tex[t], e), tex' = [tex EXCEPT ![t] = e],
         ~(f.fn = "SVC" /\ f.at \in {"ENTER", "OUT"}), f.fn = "RAISE" => f.at = "LOCK",
         \/ ~Flagging(f) /\ e.texflg = tex[t].texflg
         \/ Flagging(f) /\ f.save = tex[t].texflg /\ e.texflg = tex[t].texflg \cup {"SSFN"}
  PROVE  TexInv'
<1> DEFINE s == act[t]
           r == <<f>> \o s
<1>1. Fine(s, tex[t]) /\ t \in live
  BY TexKnown DEF MayCall
<1>2. act' = [act EXCEPT ![t] = r]
  BY DEF Enter
<1>3. IsStack(s) /\ Nested(s)
  BY <1>1 DEF Fine
<1>4. s = <<>> \/ Outer(s[1])
  <2>1. CASE s # <<>>
    <3>1. Head(s) = s[1] /\ IsFrame(s[1])
      <4>1. Head(s) = s[1] /\ Len(s) \in Nat /\ Len(s) # 0
        BY <1>3, <2>1, StackIs
      <4>2. 1 \in 1..Len(s)
        BY <4>1
      <4> QED BY <1>3, <4>1, <4>2 DEF IsStack
    <3>2. s[1].fn = "TEX" \/ (s[1].fn # "BREAK" /\ s[1].at = "BODY")
      BY <2>1, <3>1 DEF MayCall, User, Top
    <3>3. s[1].at = "BODY" /\ s[1].fn # "BREAK" /\ s[1].fn # "RAISE"
      BY <3>1, <3>2 DEF IsFrame, RaiseFrame
    <3> QED BY <3>1, <3>3 DEF Outer, IsFrame
  <2> QED BY <2>1
<1>5. r # <<>> /\ r[1] = f /\ Len(r) \in Nat
  BY <1>3, Pushed
<1>6. Fine(r, e) /\ (BrokenOnce(s) => BrokenOnce(r))
  BY <1>1, <1>4, FinePush
<1> HIDE DEF r
<1>7. act'[t] = r /\ Only(t) /\ tex'[t] = e /\ Functions /\ \A y \in Task : y # t => tex'[y] = tex[y]
  BY <1>2, TexKnown DEF Only, Functions
<1>8. LocksSound'
  <2>1. ~TakesLock(s) /\ ~HasLock(s)
    <3>1. CASE s = <<>>
      BY <3>1 DEF TakesLock, HasLock
    <3>2. CASE Outer(s[1])
      BY <3>2 DEF TakesLock, HasLock, Outer
    <3> QED BY <1>4, <3>1, <3>2
  <2>2. ~HasLock(r)
    BY <1>5 DEF HasLock
  <2>3. \A y \in Task : Steady(y, act[y], act'[y])
    BY <1>7, <2>1, <2>2 DEF Steady, Only
  <2> QED BY <2>3, LocksKept, TexKnown
<1>9. LocksTypeOK'
  BY TexKnown DEF LocksTypeOK
<1> QED BY <1>1, <1>5, <1>6, <1>7, <1>8, <1>9, OneTask

LEMMA SvcBegins ==
  ASSUME TexInv, NEW t \in Task, NEW s \in Ssid, svc_ientry(t, s)
  PROVE  TexInv'
<1> DEFINE f == [fn |-> "SVC", at |-> "LOCK", ssid |-> s, brks |-> 0, save |-> SaveOf(Dormant)]
<1>1. f.fn = "SVC" /\ f.at = "LOCK" /\ f.ssid = s /\ f.brks = 0 /\ f.save = SaveOf(Dormant)
  OBVIOUS
<1>2. SaveOf(Dormant) \in Saves
  BY DEF SaveOf, Dormant, Saves
<1>3. {"fn", "at", "ssid", "brks", "save"} \subseteq DOMAIN f
  OBVIOUS
<1>4. MayCall(t) /\ Enter(t, f) /\ UNCHANGED <<live, locks>> /\ TexSame /\ tex' = tex
  BY DEF svc_ientry, TexSame
<1>5. tex' = [tex EXCEPT ![t] = tex[t]] /\ AsBefore(tex[t], tex[t])
  BY <1>4, TexKnown DEF AsBefore, Fine
<1> HIDE DEF f
<1>6. IsFrame(f) /\ ~Entered(f) /\ ~Flagging(f)
  BY <1>1, <1>2, <1>3 DEF IsFrame, SvcFrame, Entered, Flagging
<1> QED BY <1>1, <1>4, <1>5, <1>6, CallBegins

LEMMA RaiseBegins ==
  ASSUME TexInv, NEW t \in Task, NEW x \in Task, NEW texcd \in Texcd, _tk_ras_tex(t, x, texcd)
  PROVE  TexInv'
<1> DEFINE f == [fn |-> "RAISE", at |-> "LOCK", tsk |-> x, texcd |-> texcd]
<1>1. f.fn = "RAISE" /\ f.at = "LOCK" /\ f.tsk = x /\ f.texcd = texcd /\ {"fn", "at", "tsk", "texcd"} \subseteq DOMAIN f
  OBVIOUS
<1>4. MayCall(t) /\ Enter(t, f) /\ UNCHANGED <<live, locks>> /\ TexSame /\ tex' = tex
  BY DEF _tk_ras_tex, TexSame
<1>5. tex' = [tex EXCEPT ![t] = tex[t]] /\ AsBefore(tex[t], tex[t])
  BY <1>4, TexKnown DEF AsBefore, Fine
<1> HIDE DEF f
<1>6. IsFrame(f) /\ ~Entered(f) /\ ~Flagging(f)
  BY <1>1 DEF IsFrame, RaiseFrame, Entered, Flagging
<1> QED BY <1>1, <1>4, <1>5, <1>6, CallBegins

LEMMA FunctionsBegin ==
  ASSUME TexInv, NEW t \in Task, NEW todo, CallAll(t, todo)
  PROVE  TexInv'
<1> DEFINE f == [fn |-> "SSFN", at |-> "BODY", todo |-> todo, save |-> tex[t].texflg]
           e == [tex[t] EXCEPT !.texflg = @ \cup {"SSFN"}]
<1>1. f.fn = "SSFN" /\ f.at = "BODY" /\ f.save = tex[t].texflg /\ {"fn", "at", "todo", "save"} \subseteq DOMAIN f
  OBVIOUS
<1>2. tex[t] \in Excs /\ tex = [u \in Task |-> tex[u]]
  BY TexKnown DEF Fine
<1>4. MayCall(t) /\ Enter(t, f) /\ UNCHANGED <<live, locks>> /\ TexSame /\ tex' = [tex EXCEPT ![t] = e]
  BY DEF CallAll, TexSame
<1>5. AsBefore(tex[t], e) /\ e.texflg = tex[t].texflg \cup {"SSFN"}
  BY <1>2 DEF AsBefore, Excs, Flags
<1>6. f.save \subseteq Flags
  BY <1>1, <1>2 DEF Excs
<1> HIDE DEF f, e
<1>7. IsFrame(f) /\ ~Entered(f) /\ Flagging(f)
  BY <1>1, <1>6 DEF IsFrame, SsfnFrame, Entered, Flagging
<1> QED BY <1>1, <1>4, <1>5, <1>7, CallBegins

(* A call goes on: the innermost frame moves.                              *)
Moves(f, b) ==
  \/ f.fn = "SVC" /\ <<f.at, b>> \in {<<"LOCK", "ENTER">>, <<"BODY", "LEAVE">>, <<"LEAVE", "OUT">>}
  \/ f.fn = "RAISE" /\ b \in {"RAISE", "BREAK", "UNLOCK", "REFUSED", "SELF"}

Moved(s, b) == [s EXCEPT ![1].at = b]

LEMMA FineMoves ==
  ASSUME NEW s, NEW e, Fine(s, e), s # <<>>, NEW b, Moves(s[1], b)
  PROVE  /\ Fine(Moved(s, b), e) /\ (BrokenOnce(s) => BrokenOnce(Moved(s, b)))
         /\ Moved(s, b) # <<>> /\ Moved(s, b)[1].fn = s[1].fn /\ Moved(s, b)[1].at = b
         /\ s[1].fn = "RAISE" => Moved(s, b)[1].tsk = s[1].tsk
<1> DEFINE f == [s[1] EXCEPT !.at = b]
           r == [s EXCEPT ![1] = f]
<1>1. IsStack(s) /\ 1 \in 1..Len(s) /\ e \in Excs
  BY StackIs DEF Fine
<1>2. IsFrame(s[1])
  BY <1>1 DEF IsStack
<1>3. f.at = b /\ f.fn = s[1].fn
  BY <1>2, FrameMoves
<1>4. CASE s[1].fn = "SVC"
  <2>1. /\ {"fn", "at", "ssid", "brks", "save"} \subseteq DOMAIN f
        /\ f.ssid = s[1].ssid /\ f.brks = s[1].brks /\ f.save = s[1].save
    BY <1>2, <1>4, FrameMoves
  <2>2. \/ s[1].at = "LOCK" /\ b = "ENTER" /\ ~Entered(s[1])
        \/ s[1].at = "BODY" /\ b = "LEAVE" /\ Entered(s[1])
        \/ s[1].at = "LEAVE" /\ b = "OUT" /\ Entered(s[1])
    BY <1>4 DEF Moves, Entered
  <2> HIDE DEF f
  <2>3. (Entered(f) <=> Entered(s[1])) /\ ~Flagging(f) /\ ~Flagging(s[1])
    BY <1>3, <1>4, <2>2 DEF Entered, Flagging
  <2>4. SvcFrame(s[1])
    BY <1>2, <1>4 DEF IsFrame
  <2>5. IsFrame(f)
    BY <1>3, <1>4, <2>1, <2>2, <2>4 DEF IsFrame, SvcFrame
  <2>6. AsBefore(e, e)
    BY <1>1 DEF AsBefore
  <2>7. Fine(r, e) /\ (BrokenOnce(s) => BrokenOnce(r))
    BY <1>3, <1>4, <2>1, <2>3, <2>5, <2>6, FineChange
  <2>8. r # <<>> /\ r[1] = f
    BY <1>1, <2>5, Changed
  <2>9. Moved(s, b) = r
    BY DEF Moved, f
  <2> HIDE DEF r
  <2> QED BY <1>3, <1>4, <2>7, <2>8, <2>9
<1>5. CASE s[1].fn = "RAISE"
  <2>1. {"fn", "at", "tsk", "texcd"} \subseteq DOMAIN f /\ f.tsk = s[1].tsk /\ f.texcd = s[1].texcd
    BY <1>2, <1>5, FrameMoves
  <2>2. b \in {"RAISE", "BREAK", "UNLOCK", "REFUSED", "SELF"}
    BY <1>5 DEF Moves
  <2> HIDE DEF f
  <2>3. ~Entered(f) /\ ~Entered(s[1]) /\ ~Flagging(f) /\ ~Flagging(s[1])
    BY <1>3, <1>5 DEF Entered, Flagging
  <2>4. RaiseFrame(s[1])
    BY <1>2, <1>5 DEF IsFrame
  <2>5. IsFrame(f)
    BY <1>3, <1>5, <2>1, <2>2, <2>4 DEF IsFrame, RaiseFrame
  <2>6. AsBefore(e, e)
    BY <1>1 DEF AsBefore
  <2>7. Fine(r, e) /\ (BrokenOnce(s) => BrokenOnce(r))
    BY <1>3, <1>5, <2>1, <2>3, <2>5, <2>6, FineChange
  <2>8. r # <<>> /\ r[1] = f
    BY <1>1, <2>5, Changed
  <2>9. Moved(s, b) = r
    BY DEF Moved, f
  <2> HIDE DEF r
  <2> QED BY <1>3, <1>5, <2>1, <2>7, <2>8, <2>9
<1> QED BY <1>4, <1>5 DEF Moves

LEMMA TopIs ==
  ASSUME TexInv, NEW t \in Task, act[t] # <<>>
  PROVE  /\ Top(t) = act[t][1] /\ IsStack(act[t]) /\ IsFrame(act[t][1]) /\ t \in live
         /\ Fine(act[t], tex[t]) /\ Nested(act[t])
<1>1. Fine(act[t], tex[t]) /\ t \in live
  BY TexKnown
<1>2. IsStack(act[t]) /\ Nested(act[t])
  BY <1>1 DEF Fine
<1> QED BY <1>1, <1>2, StackIs DEF Top, IsStack

(* One moves and nothing else.                                             *)
LEMMA MoveIs ==
  ASSUME TexInv, NEW t \in Task, act[t] # <<>>, NEW at, Goto(t, at), Moves(act[t][1], at)
  PROVE  /\ act' = [u \in Task |-> act'[u]] /\ Only(t) /\ Fine(act'[t], tex[t]) /\ act'[t] # <<>>
         /\ BrokenOnce(act[t]) => BrokenOnce(act'[t])
         /\ act'[t][1].fn = act[t][1].fn /\ act'[t][1].at = at /\ Needs(t, act'[t]) = Needs(t, act[t])
<1>1. act = [u \in Task |-> act[u]] /\ Fine(act[t], tex[t])
  BY TexKnown
<1> DEFINE r == Moved(act[t], at)
<1>2. act' = [act EXCEPT ![t] = r]
  BY DEF Goto, Moved
<1>4. /\ Fine(r, tex[t]) /\ (BrokenOnce(act[t]) => BrokenOnce(r)) /\ r # <<>> /\ r[1].fn = act[t][1].fn /\ r[1].at = at
      /\ act[t][1].fn = "RAISE" => r[1].tsk = act[t][1].tsk
  BY <1>1, FineMoves
<1> HIDE DEF r
<1>3. act' = [u \in Task |-> act'[u]] /\ act'[t] = r /\ Only(t)
  BY <1>1, <1>2 DEF Only
<1>5. Needs(t, r) = Needs(t, act[t])
  BY <1>4 DEF Needs, Moves
<1> QED BY <1>3, <1>4, <1>5

LEMMA LockStep ==
  ASSUME TexInv, TexSame, UNCHANGED <<live, tex>>, NEW t \in Task, act[t] # <<>>, TakesLock(act[t]), NEW x \in Task,
         x = Needs(t, act[t]), NEW at, LockSVC(t, x, at), Moves(act[t][1], at),
         \/ act[t][1].fn = "SVC" /\ at \in {"ENTER", "OUT"}
         \/ act[t][1].fn = "RAISE" /\ at = "RAISE"
  PROVE  TexInv'
<1>1. LocksTypeOK /\ LocksSound /\ Fine(act[t], tex[t]) /\ act = [u \in Task |-> act[u]]
      /\ tex = [u \in Task |-> tex[u]] /\ live \subseteq Task /\ t \in live
  BY TexKnown
<1>2. HeldRight(t, act[t], locks.held[t]) /\ ~HasLock(act[t])
  BY <1>1, OneOrOther DEF LocksSound, NotBoth, Fine
<1>3. locks.held[t] = <<x>> \/ locks.held[t] = <<>>
  BY <1>2 DEF HeldRight
<1>4. ~Waits(t)
  BY DEF LockSVC
<1>5. ASSUME Goto(t, at)
      PROVE  /\ Functions /\ Only(t) /\ Fine(act'[t], tex'[t]) /\ act'[t] # <<>> /\ act'[t][1].fn # "BREAK"
             /\ BrokenOnce(act[t]) => BrokenOnce(act'[t])
             /\ HasLock(act'[t]) /\ Needs(t, act'[t]) = x
  <2>1. /\ act' = [u \in Task |-> act'[u]] /\ Only(t) /\ Fine(act'[t], tex[t]) /\ act'[t] # <<>>
        /\ BrokenOnce(act[t]) => BrokenOnce(act'[t])
        /\ act'[t][1].fn = act[t][1].fn /\ act'[t][1].at = at /\ Needs(t, act'[t]) = Needs(t, act[t])
    BY <1>5, MoveIs
  <2>2. HasLock(act'[t]) /\ act'[t][1].fn # "BREAK"
    BY <2>1 DEF HasLock
  <2>3. Functions
    BY <1>1, <2>1 DEF Functions
  <2> QED BY <2>1, <2>2, <2>3
<1>6. CASE locks.held[t] # <<>> /\ Head(locks.held[t]) = x
  <2>1. UNCHANGED locks /\ Goto(t, at)
    BY <1>6 DEF LockSVC
  <2>2. LocksSound' /\ LocksTypeOK'
    <3>1. LocksSound'
      BY <1>1, <1>4, <1>5, <1>6, <2>1, LockKeptByOwner
    <3>2. LocksTypeOK'
      BY <1>1, <2>1 DEF LocksTypeOK
    <3> QED BY <3>1, <3>2
  <2> QED BY <1>1, <1>5, <2>1, <2>2, OneTask
<1>7. CASE ~(locks.held[t] # <<>> /\ Head(locks.held[t]) = x) /\ locks.wtskq[x] = NOSVC
  <2>1. Takes(t, x) /\ Goto(t, at)
    BY <1>7 DEF LockSVC, Takes
  <2>2. LocksTypeOK' /\ LocksSound'
    BY <1>1, <1>4, <1>5, <1>7, <2>1, LockTakenFree
  <2> QED BY <1>1, <1>5, <2>1, <2>2, OneTask
<1>8. CASE ~(locks.held[t] # <<>> /\ Head(locks.held[t]) = x) /\ locks.wtskq[x] # NOSVC
  <2>1. Queues(t, x) /\ UNCHANGED act
    BY <1>8 DEF LockSVC, Queues
  <2>2. locks.held[t] = <<>>
    BY <1>3, <1>8
  <2>3. LocksTypeOK' /\ LocksSound'
    BY <1>1, <1>4, <1>8, <2>1, <2>2, LockAwaited
  <2>4. Functions /\ Only(t)
    BY <1>1, <2>1 DEF Functions, Only
  <2> QED BY <1>1, <2>1, <2>3, <2>4, OneTask
<1> QED BY <1>6, <1>7, <1>8

LEMMA SvcLocks ==
  ASSUME TexInv, NEW t \in Task, svc_ientry_Lock(t)
  PROVE  TexInv'
<1>0. TexSame /\ UNCHANGED <<live, tex>>
  BY DEF svc_ientry_Lock, TexSame
<1>1. ASSUME NEW at, NEW b, In(t, "SVC", at), LockSVC(t, t, b), <<at, b>> \in {<<"LOCK", "ENTER">>, <<"LEAVE", "OUT">>}
      PROVE  TexInv'
  <2>1. act[t] # <<>> /\ act[t][1].fn = "SVC" /\ act[t][1].at = at
    BY <1>1, TopIs DEF In
  <2>2. (at = "LOCK" /\ b = "ENTER") \/ (at = "LEAVE" /\ b = "OUT")
    BY <1>1
  <2>3. TakesLock(act[t]) /\ Needs(t, act[t]) = t /\ Moves(act[t][1], b) /\ b \in {"ENTER", "OUT"}
    BY <2>1, <2>2 DEF TakesLock, Needs, Moves
  <2> QED BY <1>0, <1>1, <2>1, <2>3, LockStep
<1> QED BY <1>1 DEF svc_ientry_Lock

LEMMA RaiseLocks ==
  ASSUME TexInv, NEW t \in Task, _tk_ras_tex_Lock(t)
  PROVE  TexInv'
<1>0. TexSame /\ UNCHANGED <<live, tex>> /\ In(t, "RAISE", "LOCK") /\ LockSVC(t, Top(t).tsk, "RAISE")
  BY DEF _tk_ras_tex_Lock, TexSame
<1>1. act[t] # <<>> /\ act[t][1].fn = "RAISE" /\ act[t][1].at = "LOCK" /\ Top(t) = act[t][1] /\ IsFrame(act[t][1])
  BY <1>0, TopIs DEF In
<1>2. act[t][1].tsk \in Task
  BY <1>1 DEF IsFrame, RaiseFrame
<1>3. TakesLock(act[t]) /\ Needs(t, act[t]) = act[t][1].tsk /\ Moves(act[t][1], "RAISE")
  BY <1>1 DEF TakesLock, Needs, Moves
<1> QED BY <1>0, <1>1, <1>2, <1>3, LockStep

LEMMA SvcReturns ==
  ASSUME TexInv, NEW t \in Task, svc_ientry_Return(t)
  PROVE  TexInv'
<1>0. TexSame /\ UNCHANGED <<live, tex, locks>> /\ In(t, "SVC", "BODY") /\ Goto(t, "LEAVE")
  BY DEF svc_ientry_Return, TexSame
<1>1. act[t] # <<>> /\ act[t][1].fn = "SVC" /\ act[t][1].at = "BODY" /\ t \in live
  BY <1>0, TopIs DEF In
<1>2. Moves(act[t][1], "LEAVE")
  BY <1>1 DEF Moves
<1>3. /\ act' = [u \in Task |-> act'[u]] /\ Only(t) /\ Fine(act'[t], tex[t]) /\ act'[t] # <<>>
      /\ BrokenOnce(act[t]) => BrokenOnce(act'[t])
      /\ act'[t][1].fn = "SVC" /\ act'[t][1].at = "LEAVE"
  BY <1>0, <1>1, <1>2, MoveIs
<1>4. LocksSound' /\ LocksTypeOK' /\ Functions
  <2>1. ~TakesLock(act[t]) /\ ~HasLock(act[t]) /\ ~HasLock(act'[t])
    BY <1>1, <1>3 DEF TakesLock, HasLock
  <2>2. \A y \in Task : Steady(y, act[y], act'[y])
    BY <1>3, <2>1 DEF Steady, Only
  <2>3. LocksSound'
    BY <1>0, <2>2, LocksKept, TexKnown
  <2> QED BY <1>0, <1>3, <2>3, TexKnown DEF LocksTypeOK, Functions
<1> QED BY <1>0, <1>1, <1>3, <1>4, OneTask

-----------------------------------------------------------------------------
(* A lock is given back.                                                   *)
LEMMA UnlockStep ==
  ASSUME TexInv, TexSame, UNCHANGED live, Functions, NEW t \in Task, act[t] # <<>>, HasLock(act[t]),
         act[t][1].fn # "BREAK", Gives(t), Only(t), \A y \in Task : y # t => tex'[y] = tex[y],
         Fine(act'[t], tex'[t]), ~HasLock(act'[t]),
         act'[t] # <<>> => act'[t][1].fn # "BREAK",
         \/ BrokenOnce(act[t]) => BrokenOnce(act'[t])
         \/ act[t][1].fn = "SVC"
  PROVE  TexInv'
<1>1. LocksTypeOK /\ LocksSound /\ Fine(act[t], tex[t]) /\ t \in live
  BY TexKnown
<1>2. ~TakesLock(act[t])
  BY <1>1, OneOrOther DEF NotBoth, Fine
<1>3. LocksTypeOK' /\ LocksSound'
  BY <1>1, <1>2, LockGiven
<1>4. act[t][1].fn = "SVC" => Needs(t, act[t]) = t
  BY DEF Needs
<1> QED BY <1>1, <1>3, <1>4, OneTask

(* The innermost call returns.                                             *)
Remaining(s) == Tail(s)

LEMMA ReturnIs ==
  ASSUME TexInv, NEW t \in Task, act[t] # <<>>, Leave(t), ~Entered(act[t][1]), NEW e, AsBefore(tex[t], e),
         \/ ~Flagging(act[t][1]) /\ e.texflg = tex[t].texflg
         \/ Flagging(act[t][1]) /\ e.texflg = act[t][1].save
  PROVE  /\ act' = [u \in Task |-> act'[u]] /\ Only(t) /\ Fine(act'[t], e)
         /\ BrokenOnce(act[t]) => BrokenOnce(act'[t])
         /\ act'[t] # <<>> => Outer(act'[t][1]) \/ Breaking(act[t][1], act'[t][1])
<1>1. act = [u \in Task |-> act[u]] /\ Fine(act[t], tex[t])
  BY TexKnown
<1> DEFINE r == Remaining(act[t])
<1>2. act' = [act EXCEPT ![t] = r]
  BY DEF Leave, Remaining
<1>3. Fine(r, e) /\ (BrokenOnce(act[t]) => BrokenOnce(r))
  BY <1>1, FinePop DEF Remaining
<1>4. r # <<>> => Outer(r[1]) \/ Breaking(act[t][1], r[1])
  BY <1>1, PopNested DEF Remaining, Fine
<1> HIDE DEF r
<1>5. act' = [u \in Task |-> act'[u]] /\ act'[t] = r /\ Only(t)
  BY <1>1, <1>2 DEF Only
<1> QED BY <1>3, <1>4, <1>5

LEMMA SvcEnters ==
  ASSUME TexInv, NEW t \in Task, svc_ientry_Enter(t)
  PROVE  TexInv'
<1>0. TexSame /\ UNCHANGED live /\ In(t, "SVC", "ENTER") /\ Gives(t)
  BY DEF svc_ientry_Enter, TexSame, Gives
<1>1. /\ act[t] # <<>> /\ act[t][1].fn = "SVC" /\ act[t][1].at = "ENTER" /\ Top(t) = act[t][1]
      /\ Fine(act[t], tex[t]) /\ IsStack(act[t]) /\ IsFrame(act[t][1])
  BY <1>0, TopIs DEF In
<1>2. HasLock(act[t])
  BY <1>1 DEF HasLock
<1>3. act = [u \in Task |-> act[u]] /\ tex = [u \in Task |-> tex[u]] /\ live \subseteq Task /\ tex[t] \in Excs
  BY TexKnown DEF Fine
<1>4. CASE Leave(t) /\ UNCHANGED tex
  <2>1. AsBefore(tex[t], tex[t]) /\ ~Entered(act[t][1]) /\ ~Flagging(act[t][1])
    BY <1>1, <1>3 DEF AsBefore, Entered, Flagging
  <2>2. /\ act' = [u \in Task |-> act'[u]] /\ Only(t) /\ Fine(act'[t], tex[t])
        /\ BrokenOnce(act[t]) => BrokenOnce(act'[t])
        /\ act'[t] # <<>> => Outer(act'[t][1]) \/ Breaking(act[t][1], act'[t][1])
    BY <1>1, <1>4, <2>1, ReturnIs
  <2>3. ~HasLock(act'[t]) /\ (act'[t] # <<>> => act'[t][1].fn # "BREAK")
    BY <1>1, <2>2 DEF HasLock, Outer, Breaking
  <2>4. Functions
    BY <1>0, <1>3, <1>4, <2>2 DEF Functions
  <2> QED BY <1>0, <1>1, <1>2, <1>4, <2>2, <2>3, <2>4, UnlockStep
<1>5. CASE /\ act' = [act EXCEPT ![t][1].save = SaveOf(tex[t]), ![t][1].at = "BODY"]
           /\ tex' = [tex EXCEPT ![t].execssid = Top(t).ssid, ![t].ran = FALSE,
                        ![t].exectex = IF tex[t].ran THEN {} ELSE @]
  <2> DEFINE f == Begins(act[t][1], tex[t])
             r == [act[t] EXCEPT ![1] = f]
             e == Begun(act[t][1], tex[t])
  <2>1. act' = [act EXCEPT ![t] = r]
    <3>1. 1 \in DOMAIN act[t]
      BY <1>1, StackIs
    <3> QED BY <1>3, <1>5, <3>1 DEF Begins
  <2>2. tex' = [tex EXCEPT ![t] = e]
    BY <1>1, <1>3, <1>5 DEF Begun, Excs
  <2>3. Fine(r, e)
    BY <1>1, FineBegins
  <2>4. IsFrame(f) /\ f.fn = "SVC" /\ f.at = "BODY"
    BY <1>1, <1>3, FrameBegins
  <2> HIDE DEF f
  <2>5. r # <<>> /\ r[1] = f
    <3>1. 1 \in 1..Len(act[t])
      BY <1>1, StackIs
    <3> QED BY <1>1, <2>4, <3>1, Changed
  <2> HIDE DEF r, e
  <2>6. /\ act'[t] = r /\ Only(t) /\ tex'[t] = e /\ Functions /\ \A y \in Task : y # t => tex'[y] = tex[y]
    BY <1>0, <1>3, <2>1, <2>2 DEF Only, Functions
  <2>7. ~HasLock(r)
    BY <2>4, <2>5 DEF HasLock
  <2> QED BY <1>0, <1>1, <1>2, <2>3, <2>4, <2>5, <2>6, <2>7, UnlockStep
<1> QED BY <1>4, <1>5 DEF svc_ientry_Enter

LEMMA SvcLeaves ==
  ASSUME TexInv, NEW t \in Task, svc_ientry_Leave(t)
  PROVE  TexInv'
<1>0. /\ TexSame /\ UNCHANGED live /\ In(t, "SVC", "OUT") /\ Gives(t) /\ Goto(t, "SELF")
      /\ tex' = [tex EXCEPT ![t].execssid = Top(t).save.execssid, ![t].ran = Top(t).save.ran,
                   ![t].exectex = @ \cup Top(t).save.exectex]
  BY DEF svc_ientry_Leave, TexSame, Gives
<1>1. /\ act[t] # <<>> /\ act[t][1].fn = "SVC" /\ act[t][1].at = "OUT" /\ Top(t) = act[t][1]
      /\ Fine(act[t], tex[t]) /\ IsStack(act[t]) /\ IsFrame(act[t][1])
  BY <1>0, TopIs DEF In
<1>2. HasLock(act[t])
  BY <1>1 DEF HasLock
<1>3. act = [u \in Task |-> act[u]] /\ tex = [u \in Task |-> tex[u]] /\ live \subseteq Task /\ tex[t] \in Excs
  BY TexKnown DEF Fine
<1> DEFINE r == [act[t] EXCEPT ![1].at = "SELF"]
           e == Ended(act[t][1], tex[t])
<1>4. act' = [act EXCEPT ![t] = r]
  BY <1>0 DEF Goto
<1>5. tex' = [tex EXCEPT ![t] = e]
  BY <1>0, <1>1, <1>3 DEF Ended, Excs
<1>6. Fine(r, e)
  BY <1>1, FineEnds
<1>7. r # <<>> /\ r[1].at = "SELF" /\ r[1].fn = "SVC"
  <2> DEFINE f == [act[t][1] EXCEPT !.at = "SELF"]
  <2>1. f.at = "SELF" /\ f.fn = "SVC"
    BY <1>1, FrameMoves
  <2>2. DOMAIN act[t] = 1..Len(act[t]) /\ 1 \in 1..Len(act[t])
    BY <1>1, StackIs
  <2>3. r = [act[t] EXCEPT ![1] = f]
    OBVIOUS
  <2> HIDE DEF f
  <2>4. r[1] = f /\ 1 \in DOMAIN r
    BY <2>2, <2>3
  <2> HIDE DEF r
  <2>5. r # <<>>
    BY <2>4
  <2> QED BY <2>1, <2>4, <2>5
<1> HIDE DEF r, e
<1>8. /\ act'[t] = r /\ Only(t) /\ tex'[t] = e /\ Functions /\ \A y \in Task : y # t => tex'[y] = tex[y]
  BY <1>0, <1>3, <1>4, <1>5 DEF Only, Functions
<1>9. ~HasLock(r)
  BY <1>7 DEF HasLock
<1> QED BY <1>0, <1>1, <1>2, <1>6, <1>7, <1>8, <1>9, UnlockStep

LEMMA RaiseUnlocks ==
  ASSUME TexInv, NEW t \in Task, _tk_ras_tex_Unlock(t)
  PROVE  TexInv'
<1>0. TexSame /\ UNCHANGED <<live, tex>> /\ Gives(t)
  BY DEF _tk_ras_tex_Unlock, TexSame, Gives
<1>1. act[t] # <<>> /\ act[t][1].fn = "RAISE" /\ act[t][1].at \in {"UNLOCK", "REFUSED"}
  BY TopIs DEF _tk_ras_tex_Unlock, In
<1>2. HasLock(act[t])
  BY <1>1 DEF HasLock
<1>3. act = [u \in Task |-> act[u]] /\ tex = [u \in Task |-> tex[u]] /\ live \subseteq Task /\ tex[t] \in Excs
  BY TexKnown DEF Fine
<1>4. CASE Goto(t, "SELF")
  <2>1. Moves(act[t][1], "SELF")
    BY <1>1 DEF Moves
  <2>2. /\ act' = [u \in Task |-> act'[u]] /\ Only(t) /\ Fine(act'[t], tex[t]) /\ act'[t] # <<>>
        /\ BrokenOnce(act[t]) => BrokenOnce(act'[t])
        /\ act'[t][1].fn = "RAISE" /\ act'[t][1].at = "SELF"
    BY <1>1, <1>4, <2>1, MoveIs
  <2>3. ~HasLock(act'[t]) /\ Functions
    BY <1>0, <1>3, <2>2 DEF HasLock, Functions
  <2> QED BY <1>0, <1>1, <1>2, <2>2, <2>3, UnlockStep
<1>5. CASE Leave(t)
  <2>1. AsBefore(tex[t], tex[t]) /\ ~Entered(act[t][1]) /\ ~Flagging(act[t][1])
    BY <1>1, <1>3 DEF AsBefore, Entered, Flagging
  <2>2. /\ act' = [u \in Task |-> act'[u]] /\ Only(t) /\ Fine(act'[t], tex[t])
        /\ BrokenOnce(act[t]) => BrokenOnce(act'[t])
        /\ act'[t] # <<>> => Outer(act'[t][1]) \/ Breaking(act[t][1], act'[t][1])
    BY <1>1, <1>5, <2>1, ReturnIs
  <2>3. ~HasLock(act'[t]) /\ (act'[t] # <<>> => act'[t][1].fn # "BREAK")
    BY <1>1, <2>2 DEF HasLock, Outer, Breaking
  <2>4. Functions
    BY <1>0, <1>3, <2>2 DEF Functions
  <2> QED BY <1>0, <1>1, <1>2, <2>2, <2>3, <2>4, UnlockStep
<1> QED BY <1>4, <1>5 DEF _tk_ras_tex_Unlock

-----------------------------------------------------------------------------
(* No lock is taken or given back.                                         *)
LEMMA FreeStep ==
  ASSUME TexInv, TexSame, UNCHANGED <<live, locks>>, Functions, NEW t \in Task, Only(t), NEW x \in Task,
         \A y \in Task : y # x => tex'[y] = tex[y],
         Fine(act'[t], tex'[t]), Fine(act'[x], tex'[x]), act'[t] # <<>> => t \in live,
         Steady(t, act[t], act'[t]),
         (act'[t] # <<>> /\ act'[t][1].fn = "BREAK") => act'[t] = act[t] \/ act'[t][1].tsk = t,
         BrokenOnce(act[t]) => BrokenOnce(act'[t])
  PROVE  TexInv'
<1>1. LocksTypeOK /\ LocksSound /\ TexTypeOK
  BY TexKnown
<1>2. \A y \in Task : Steady(y, act[y], act'[y])
  BY DEF Steady, Only
<1>3. LocksSound' /\ LocksTypeOK'
  BY <1>1, <1>2, LocksKept DEF LocksTypeOK
<1> QED BY <1>3, OneTask

LEMMA BreakDone ==
  ASSUME TexInv, NEW t \in Task, call_brkhdr_Done(t)
  PROVE  TexInv'
<1>0. /\ TexSame /\ UNCHANGED <<live, locks>> /\ In(t, "BREAK", "BODY") /\ Leave(t)
      /\ tex' = [tex EXCEPT ![t].texflg = Top(t).save]
  BY DEF call_brkhdr_Done, TexSame
<1>1. /\ act[t] # <<>> /\ act[t][1].fn = "BREAK" /\ act[t][1].at = "BODY" /\ Top(t) = act[t][1] /\ t \in live
      /\ IsStack(act[t]) /\ IsFrame(act[t][1]) /\ Fine(act[t], tex[t]) /\ Nested(act[t])
  BY <1>0, TopIs DEF In
<1> DEFINE e == [tex[t] EXCEPT !.texflg = act[t][1].save]
<1>2. tex = [u \in Task |-> tex[u]] /\ live \subseteq Task /\ tex[t] \in Excs
  BY TexKnown DEF Fine
<1>3. act[t][1].save \subseteq Flags /\ Flagging(act[t][1]) /\ ~Entered(act[t][1])
  BY <1>1 DEF IsFrame, BreakFrame, Flagging, Entered
<1>4. act[t][1].save \ {"SSFN"} = tex[t].texflg \ {"SSFN"}
  <2>1. 1 \in 1..Len(act[t])
    BY <1>1, StackIs
  <2> QED BY <1>1, <1>3, <2>1 DEF Fine, Flagged
<1>5. AsBefore(tex[t], e) /\ e.texflg = act[t][1].save /\ tex' = [tex EXCEPT ![t] = e]
  BY <1>0, <1>1, <1>2, <1>3, <1>4 DEF AsBefore, Excs
<1> HIDE DEF e
<1>6. /\ act' = [u \in Task |-> act'[u]] /\ Only(t) /\ Fine(act'[t], e)
      /\ BrokenOnce(act[t]) => BrokenOnce(act'[t])
      /\ act'[t] # <<>> => Outer(act'[t][1]) \/ Breaking(act[t][1], act'[t][1])
  BY <1>0, <1>1, <1>3, <1>5, ReturnIs
<1>7. tex'[t] = e /\ Functions /\ \A y \in Task : y # t => tex'[y] = tex[y]
  BY <1>0, <1>2, <1>5, <1>6 DEF Functions
<1>8. Steady(t, act[t], act'[t]) /\ (act'[t] # <<>> => act'[t][1].fn # "BREAK")
  <2> DEFINE s == act[t]
             r == act'[t]
  <2>1. r = Tail(s)
    BY <1>0, TexKnown DEF Leave
  <2>2. Len(r) = Len(s) - 1 /\ Len(s) \in Nat \ {0} /\ \A i \in 1..Len(s) - 1 : r[i] = s[i + 1]
    BY <1>1, <2>1, Popped, StackIs
  <2>3. ~TakesLock(s)
    BY <1>1 DEF TakesLock
  <2>4. CASE Len(s) = 1
    <3>1. r = <<>>
      <4>1. IsStack(r)
        BY <1>1, <2>1, Popped
      <4>2. Len(r) = 0
        BY <2>2, <2>4
      <4> QED BY <4>1, <4>2, StackIs
    <3>2. ~HasLock(s) /\ ~HasLock(r)
      BY <1>1, <2>4, <3>1 DEF HasLock
    <3> QED BY <2>3, <3>1, <3>2 DEF Steady
  <2>5. CASE Len(s) > 1
    <3>1. r # <<>> /\ r[1] = s[2]
      <4>1. 1 \in 1..Len(s) - 1 /\ Len(s) - 1 # 0
        BY <2>2, <2>5, OneLess
      <4>2. r # <<>>
        BY <2>2, <4>1
      <4> QED BY <2>2, <4>1, <4>2
    <3>2. CASE Outer(r[1])
      <4>1. ~HasLock(s) /\ ~HasLock(r) /\ r[1].fn # "BREAK"
        BY <1>1, <3>1, <3>2 DEF HasLock, Outer
      <4> QED BY <2>3, <4>1 DEF Steady
    <3>3. CASE Breaking(s[1], r[1])
      <4>1. HasLock(s) /\ HasLock(r) /\ ~TakesLock(r) /\ Needs(t, r) = Needs(t, s) /\ r[1].fn # "BREAK"
        BY <1>1, <2>5, <3>1, <3>3 DEF HasLock, TakesLock, Breaking, Needs
      <4> QED BY <2>3, <4>1 DEF Steady
    <3> QED BY <1>6, <3>1, <3>2, <3>3
  <2>6. Len(s) = 1 \/ Len(s) > 1
    <3> DEFINE n == Len(s)
    <3>1. n \in Nat \ {0}
      BY <2>2
    <3> HIDE DEF n
    <3>2. n = 1 \/ n > 1
      BY <3>1
    <3> QED BY <3>2 DEF n
  <2> QED BY <2>4, <2>5, <2>6
<1> QED BY <1>0, <1>1, <1>6, <1>7, <1>8, FreeStep

LEMMA FunctionsReturn ==
  ASSUME TexInv, NEW t \in Task, FunctionReturns(t)
  PROVE  TexInv'
<1>0. TexSame /\ UNCHANGED <<live, locks>> /\ In(t, "SSFN", "BODY")
  BY DEF FunctionReturns, TexSame
<1>1. /\ act[t] # <<>> /\ act[t][1].fn = "SSFN" /\ act[t][1].at = "BODY" /\ Top(t) = act[t][1] /\ t \in live
      /\ IsStack(act[t]) /\ IsFrame(act[t][1]) /\ Fine(act[t], tex[t]) /\ Nested(act[t])
  BY <1>0, TopIs DEF In
<1>2. act = [u \in Task |-> act[u]] /\ tex = [u \in Task |-> tex[u]] /\ live \subseteq Task /\ tex[t] \in Excs
  BY TexKnown DEF Fine
<1>3. /\ act[t][1].save \subseteq Flags /\ Flagging(act[t][1]) /\ ~Entered(act[t][1])
      /\ {"fn", "at", "todo", "save"} \subseteq DOMAIN act[t][1]
  BY <1>1 DEF IsFrame, SsfnFrame, Flagging, Entered
<1>4. 1 \in 1..Len(act[t])
  BY <1>1, StackIs
<1>5. ASSUME NEW f, IsFrame(f), f.fn = "SSFN", NEW e, AsBefore(tex[t], e),
             \/ Flagging(f) /\ f.save = act[t][1].save /\ e.texflg = tex[t].texflg
             \/ ~Flagging(f) /\ e.texflg = act[t][1].save,
             act' = [act EXCEPT ![t] = [act[t] EXCEPT ![1] = f]], tex' = [tex EXCEPT ![t] = e]
      PROVE  TexInv'
  <2> DEFINE r == [act[t] EXCEPT ![1] = f]
  <2>1. ~Entered(f)
    BY <1>5 DEF Entered
  <2>2. Fine(r, e) /\ (BrokenOnce(act[t]) => BrokenOnce(r))
    BY <1>1, <1>3, <1>5, <2>1, FineChange
  <2>3. r # <<>> /\ r[1] = f
    BY <1>1, <1>4, <1>5, Changed
  <2>4. act' = [act EXCEPT ![t] = r]
    BY <1>5
  <2> HIDE DEF r
  <2>5. /\ act'[t] = r /\ Only(t) /\ tex'[t] = e /\ Functions /\ \A y \in Task : y # t => tex'[y] = tex[y]
    BY <1>0, <1>2, <1>5, <2>4 DEF Only, Functions
  <2>6. Steady(t, act[t], r)
    BY <1>1, <1>5, <2>3 DEF Steady, TakesLock, HasLock, IsFrame, SsfnFrame
  <2> QED BY <1>0, <1>1, <1>5, <2>2, <2>3, <2>5, <2>6, FreeStep
<1>6. CASE Len(Top(t).todo) > 1
  <2> DEFINE f == [act[t][1] EXCEPT !.todo = Tail(@)]
  <2>1. act' = [act EXCEPT ![t] = [act[t] EXCEPT ![1] = f]] /\ tex' = [tex EXCEPT ![t] = tex[t]]
    BY <1>0, <1>1, <1>2, <1>6 DEF FunctionReturns
  <2>2. DOMAIN f = DOMAIN act[t][1] /\ f.fn = "SSFN" /\ f.at = "BODY" /\ f.save = act[t][1].save
    BY <1>1, <1>3
  <2> HIDE DEF f
  <2>3. IsFrame(f) /\ Flagging(f)
    BY <1>3, <2>2 DEF IsFrame, SsfnFrame, Flagging
  <2>4. AsBefore(tex[t], tex[t])
    BY <1>2 DEF AsBefore
  <2> QED BY <1>5, <2>1, <2>2, <2>3, <2>4
<1>7. CASE ~(Len(Top(t).todo) > 1)
  <2> DEFINE f == [act[t][1] EXCEPT !.at = "SELF"]
             e == [tex[t] EXCEPT !.texflg = act[t][1].save]
  <2>1. act' = [act EXCEPT ![t] = [act[t] EXCEPT ![1] = f]] /\ tex' = [tex EXCEPT ![t] = e]
    BY <1>0, <1>1, <1>2, <1>7 DEF FunctionReturns, Goto
  <2>2. {"fn", "at", "todo", "save"} \subseteq DOMAIN f /\ f.fn = "SSFN" /\ f.at = "SELF" /\ f.save = act[t][1].save
    BY <1>1, FrameMoves
  <2> HIDE DEF f
  <2>3. IsFrame(f) /\ ~Flagging(f)
    BY <1>3, <2>2 DEF IsFrame, SsfnFrame, Flagging
  <2>4. act[t][1].save \ {"SSFN"} = tex[t].texflg \ {"SSFN"}
    BY <1>1, <1>3, <1>4 DEF Fine, Flagged
  <2>5. AsBefore(tex[t], e) /\ e.texflg = act[t][1].save
    BY <1>2, <1>3, <2>4 DEF AsBefore, Excs
  <2> QED BY <1>5, <2>1, <2>2, <2>3, <2>5
<1> QED BY <1>6, <1>7

-----------------------------------------------------------------------------
(* Exceptions are raised, masked, handled.                                 *)
LEMMA FineExc ==
  ASSUME NEW s, NEW e, Fine(s, e), NEW x \in Excs, x.execssid = e.execssid, x.ran = e.ran, x.texflg = e.texflg,
         Served(s, x)
  PROVE  Fine(s, x)
<1>1. Traced(s, x)
  BY DEF Fine, Traced
<1>2. Flagged(s, x)
  BY DEF Fine, Flagged
<1> QED BY <1>1, <1>2 DEF Fine

LEMMA KeptHas ==
  ASSUME NEW s, NEW e, NEW x, e.exectex \subseteq x.exectex
  PROVE  Kept(s, e) \subseteq Kept(s, x) /\ x.exectex \subseteq Kept(s, x)
         /\ (x.exectex = e.exectex => Kept(s, x) = Kept(s, e))
  BY DEF Kept

LEMMA FineRaised ==
  ASSUME NEW s, NEW e, Fine(s, e), e.texhdr, "TEX0" \notin e.texflg, NEW c \in Texcd, Raised(e, c).pendtex # {}
  PROVE  Fine(s, Raised(e, c))
<1> DEFINE pends == e.pendtex \cup ({c} \cap e.texmask)
           x == Raised(e, c)
<1>1. e \in Excs /\ Served(s, e) /\ pends \subseteq Texcd
  BY DEF Fine, Excs
<1>2. CASE 0 \in pends \/ "TEX1" \notin e.texflg
  <2>1. x = [e EXCEPT !.pendtex = pends, !.exectex = @ \cup pends, !.reqdct = TRUE]
    BY <1>2 DEF Raised
  <2>2. /\ x \in Excs /\ x.execssid = e.execssid /\ x.ran = e.ran /\ x.texflg = e.texflg /\ x.texhdr
        /\ x.pendtex = pends /\ x.exectex = e.exectex \cup pends /\ x.reqdct
    BY <1>1, <2>1 DEF Excs
  <2> HIDE DEF x, pends
  <2>3. pends # {}
    BY <2>2 DEF x
  <2>4. pends \subseteq Kept(s, x)
    BY <2>2, KeptHas
  <2>5. Served(s, x)
    BY <2>2, <2>3, <2>4 DEF Served
  <2> QED BY <2>2, <2>5, FineExc DEF x
<1>3. CASE ~(0 \in pends \/ "TEX1" \notin e.texflg)
  <2>1. x = [e EXCEPT !.pendtex = pends]
    BY <1>3 DEF Raised
  <2>2. /\ x \in Excs /\ x.execssid = e.execssid /\ x.ran = e.ran /\ x.texflg = e.texflg /\ x.texhdr
        /\ x.pendtex = pends /\ x.exectex = e.exectex /\ x.reqdct = e.reqdct
    BY <1>1, <2>1 DEF Excs
  <2> HIDE DEF x, pends
  <2>3. Kept(s, x) = Kept(s, e)
    BY <2>2, KeptHas
  <2>4. Served(s, x)
    BY <1>1, <1>3, <2>2, <2>3 DEF Served
  <2> QED BY <2>2, <2>4, FineExc DEF x
<1> QED BY <1>2, <1>3

LEMMA ExceptionRaised ==
  ASSUME TexInv, NEW t \in Task, _tk_ras_tex_Raise(t)
  PROVE  TexInv'
<1> DEFINE x == Top(t).tsk
           c == Top(t).texcd
           e == Raised(tex[x], c)
<1>0. TexSame /\ UNCHANGED <<live, locks>> /\ In(t, "RAISE", "RAISE")
  BY DEF _tk_ras_tex_Raise, TexSame
<1>1. /\ act[t] # <<>> /\ act[t][1].fn = "RAISE" /\ act[t][1].at = "RAISE" /\ Top(t) = act[t][1] /\ t \in live
      /\ IsFrame(act[t][1])
  BY <1>0, TopIs DEF In
<1>2. x \in Task /\ c \in Texcd
  BY <1>1 DEF IsFrame, RaiseFrame
<1>3. tex = [u \in Task |-> tex[u]] /\ live \subseteq Task /\ \A y \in Task : Fine(act[y], tex[y])
  BY TexKnown
<1>4. \E b \in {"REFUSED", "BREAK"} :
        /\ Goto(t, b)
        /\ \/ UNCHANGED tex
           \/ tex' = [tex EXCEPT ![x] = e] /\ tex[x].texhdr /\ "TEX0" \notin tex[x].texflg /\ e.pendtex # {}
  BY DEF _tk_ras_tex_Raise
<1>5. PICK b \in {"REFUSED", "BREAK"} :
        /\ Goto(t, b)
        /\ \/ UNCHANGED tex
           \/ tex' = [tex EXCEPT ![x] = e] /\ tex[x].texhdr /\ "TEX0" \notin tex[x].texflg /\ e.pendtex # {}
  BY <1>4
<1>6. Moves(act[t][1], b)
  BY <1>1, <1>5 DEF Moves
<1>7. /\ act' = [u \in Task |-> act'[u]] /\ Only(t) /\ Fine(act'[t], tex[t]) /\ act'[t] # <<>>
      /\ BrokenOnce(act[t]) => BrokenOnce(act'[t])
      /\ act'[t][1].fn = "RAISE" /\ act'[t][1].at = b /\ Needs(t, act'[t]) = Needs(t, act[t])
  BY <1>1, <1>5, <1>6, MoveIs
<1>8. Steady(t, act[t], act'[t])
  BY <1>1, <1>5, <1>7 DEF Steady, TakesLock, HasLock
<1>9. \A y \in Task : Fine(act'[y], tex[y])
  BY <1>3, <1>7 DEF Only
<1> HIDE DEF x, c, e
<1>10. CASE UNCHANGED tex
  <2>1. Functions
    BY <1>0, <1>3, <1>7, <1>10 DEF Functions
  <2> QED BY <1>0, <1>1, <1>7, <1>8, <1>10, <2>1, FreeStep
<1>11. CASE tex' = [tex EXCEPT ![x] = e] /\ tex[x].texhdr /\ "TEX0" \notin tex[x].texflg /\ e.pendtex # {}
  <2>1. Fine(act'[x], e)
    BY <1>2, <1>9, <1>11, FineRaised DEF e
  <2>2. tex'[x] = e /\ Functions /\ \A y \in Task : y # x => tex'[y] = tex[y]
    BY <1>0, <1>2, <1>3, <1>7, <1>11 DEF Functions
  <2>3. Fine(act'[t], tex'[t])
    BY <1>7, <2>1, <2>2
  <2> QED BY <1>0, <1>1, <1>2, <1>7, <1>8, <2>1, <2>2, <2>3, FreeStep
<1> QED BY <1>5, <1>10, <1>11

(* The exceptions of one task change and no task's calls do.               *)
LEMMA ExcStep ==
  ASSUME TexInv, TexSame, UNCHANGED <<live, locks, act>>, NEW x \in Task, NEW e, Fine(act[x], e),
         tex' = [tex EXCEPT ![x] = e]
  PROVE  TexInv'
<1>1. act = [u \in Task |-> act[u]] /\ tex = [u \in Task |-> tex[u]] /\ live \subseteq Task /\ (act[x] # <<>> => x \in live)
  BY TexKnown
<1>2. /\ tex'[x] = e /\ Functions /\ (\A y \in Task : y # x => tex'[y] = tex[y])
      /\ Only(x) /\ act'[x] = act[x] /\ Steady(x, act[x], act[x])
  BY <1>1 DEF Functions, Only, Steady
<1> QED BY <1>1, <1>2, FreeStep

LEMMA HandlerDefined ==
  ASSUME TexInv, NEW t \in Task, NEW x \in Task, NEW texhdr \in BOOLEAN, _tk_def_tex(t, x, texhdr)
  PROVE  TexInv'
<1> DEFINE e == [tex[x] EXCEPT !.pendtex = {}, !.exectex = {}, !.texmask = {}, !.texhdr = texhdr]
<1>1. Fine(act[x], tex[x]) /\ tex[x] \in Excs /\ tex = [u \in Task |-> tex[u]] /\ IsStack(act[x])
  BY TexKnown DEF Fine
<1>2. TexSame /\ UNCHANGED <<live, locks, act>> /\ tex' = [tex EXCEPT ![x] = e] /\ Saved(x) = {}
  BY <1>1 DEF _tk_def_tex, TexSame, Excs
<1>3. /\ e \in Excs /\ e.execssid = tex[x].execssid /\ e.ran = tex[x].ran /\ e.texflg = tex[x].texflg
      /\ e.exectex = {} /\ e.pendtex = {}
  BY <1>1 DEF Excs
<1>4. Kept(act[x], e) = {}
  <2>1. Saved(x) = UNION {act[x][k].save.exectex : k \in Svcs(act[x])}
    BY <1>1, StackIs DEF Saved, Svcs
  <2> QED BY <1>2, <1>3, <2>1 DEF Kept
<1> HIDE DEF e
<1>5. Fine(act[x], e)
  <2>1. Served(act[x], e)
    BY <1>3, <1>4 DEF Served
  <2> QED BY <1>1, <1>3, <2>1, FineExc
<1> QED BY <1>2, <1>5, ExcStep

LEMMA MaskSet ==
  ASSUME TexInv, NEW t \in Task, NEW x \in Task, NEW texmask \in SUBSET Texcd, set_tex_mask(t, x, texmask)
  PROVE  TexInv'
<1> DEFINE e == [tex[x] EXCEPT !.texmask = texmask, !.pendtex = @ \cap texmask]
<1>1. Fine(act[x], tex[x]) /\ tex[x] \in Excs /\ tex = [u \in Task |-> tex[u]] /\ Served(act[x], tex[x])
  BY TexKnown DEF Fine
<1>2. TexSame /\ UNCHANGED <<live, locks, act>> /\ tex' = [tex EXCEPT ![x] = e]
  BY <1>1 DEF set_tex_mask, TexSame, Excs
<1>3. /\ e \in Excs /\ e.execssid = tex[x].execssid /\ e.ran = tex[x].ran /\ e.texflg = tex[x].texflg
      /\ e.exectex = tex[x].exectex /\ e.pendtex \subseteq tex[x].pendtex
      /\ e.texhdr = tex[x].texhdr /\ e.reqdct = tex[x].reqdct
  BY <1>1 DEF Excs
<1> HIDE DEF e
<1>4. Kept(act[x], e) = Kept(act[x], tex[x])
  BY <1>3, KeptHas
<1>5. Fine(act[x], e)
  <2>1. Served(act[x], e)
    BY <1>1, <1>3, <1>4 DEF Served
  <2> QED BY <1>1, <1>3, <2>1, FineExc
<1> QED BY <1>2, <1>5, ExcStep

LEMMA MasksSet ==
  ASSUME TexInv, NEW t \in Task, NEW x \in Task, _tk_dis_tex(t, x, Texcd) \/ _tk_ena_tex(t, x, Texcd)
  PROVE  TexInv'
<1>1. tex[x].texmask \subseteq Texcd
  BY TexKnown DEF Fine, Excs
<1>2. (tex[x].texmask \ Texcd) \in SUBSET Texcd /\ (tex[x].texmask \cup Texcd) \in SUBSET Texcd
  BY <1>1
<1> QED BY <1>2, MaskSet DEF _tk_dis_tex, _tk_ena_tex

(* In user code a task is in no extended SVC.                              *)
LEMMA UserCalls ==
  ASSUME TexInv, NEW t \in Task, User(t)
  PROVE  /\ Svcs(act[t]) = {} /\ (\A i \in 1..Len(act[t]) : ~Flagging(act[t][i])) /\ ~TakesLock(act[t]) /\ ~HasLock(act[t])
         /\ act[t] # <<>> => Len(act[t]) = 1 /\ act[t][1].fn = "TEX"
<1>1. CASE act[t] = <<>>
  BY <1>1 DEF Svcs, TakesLock, HasLock
<1>2. CASE act[t] # <<>>
  <2>1. act[t][1].fn = "TEX" /\ IsStack(act[t]) /\ Nested(act[t]) /\ act[t][1].at = "BODY"
    BY <1>2, TopIs DEF User, IsFrame
  <2>2. Len(act[t]) = 1
    <3>1. 1 \in 1..Len(act[t])
      BY <1>2, <2>1, StackIs
    <3> QED BY <2>1, <3>1 DEF Nested
  <2>3. \A i \in 1..Len(act[t]) : act[t][i].fn = "TEX"
    BY <2>1, <2>2
  <2> QED BY <2>1, <2>2, <2>3 DEF Svcs, Entered, Flagging, TakesLock, HasLock
<1> QED BY <1>1, <1>2

LEMMA FineUser ==
  ASSUME NEW s, NEW f, s = <<>> \/ (s = <<f>> /\ IsFrame(f) /\ f.fn = "TEX"),
         NEW e \in Excs, e.execssid = 0, "SSFN" \notin e.texflg, Served(s, e)
  PROVE  Fine(s, e) /\ BrokenOnce(s) /\ ~TakesLock(s) /\ ~HasLock(s) /\ (s # <<>> => s[1].fn = "TEX")
<1>1. CASE s = <<>>
  <2>1. IsStack(s) /\ Nested(s) /\ Len(s) = 0 /\ Svcs(s) = {}
    BY <1>1 DEF IsStack, Nested, Svcs, ToSet
  <2>2. Traced(s, e)
    BY <2>1 DEF Traced, Tells
  <2>3. Flagged(s, e)
    BY <2>1 DEF Flagged, FlagTells
  <2> QED BY <1>1, <2>1, <2>2, <2>3 DEF Fine, BrokenOnce, TakesLock, HasLock
<1>2. CASE s = <<f>> /\ IsFrame(f) /\ f.fn = "TEX"
  <2>1. Len(s) = 1 /\ s[1] = f /\ s # <<>> /\ \A i \in 1..Len(s) : i = 1
    BY <1>2
  <2>2. IsStack(s)
    <3>1. s \in Seq({f}) /\ ToSet(s) = {f}
      BY <1>2 DEF ToSet
    <3> QED BY <1>2, <2>1, <3>1 DEF IsStack
  <2>3. Nested(s) /\ Svcs(s) = {} /\ ~Flagging(f)
    BY <1>2, <2>1 DEF Nested, Svcs, Entered, Flagging
  <2>4. Traced(s, e)
    BY <2>1, <2>3 DEF Traced, Tells
  <2>5. Flagged(s, e)
    BY <2>1, <2>3 DEF Flagged, FlagTells
  <2>6. ~TakesLock(s) /\ ~HasLock(s)
    BY <1>2, <2>1 DEF IsFrame, TakesLock, HasLock
  <2> QED BY <1>2, <2>1, <2>2, <2>3, <2>4, <2>5, <2>6 DEF Fine, BrokenOnce
<1> QED BY <1>1, <1>2

LEMMA ZeroFirst ==
  ASSUME NEW S \in SUBSET Texcd, 0 \in S
  PROVE  Min(S) = 0
<1>1. S \subseteq 0..31
  BY TexAssumption
<1>2. \A d \in S : 0 <= d
  BY <1>1
<1>3. Min(S) \in S /\ \A d \in S : Min(S) <= d
  BY <1>2 DEF Min
<1> DEFINE m == Min(S)
<1>4. m \in 0..31 /\ m <= 0
  BY <1>1, <1>3
<1> HIDE DEF m
<1>5. m = 0
  BY <1>4
<1> QED BY <1>5 DEF m

LEMMA HandlerStarts ==
  ASSUME TexInv, NEW t \in Task, setup_texhdr(t)
  PROVE  TexInv'
<1> DEFINE e == tex[t]
           s == act[t]
           c == Min(e.exectex)
           f == [fn |-> "TEX", at |-> "BODY"]
<1>0. TexSame /\ UNCHANGED <<live, locks>> /\ t \in live /\ User(t)
  BY DEF setup_texhdr, TexSame
<1>1. /\ act = [u \in Task |-> act[u]] /\ tex = [u \in Task |-> tex[u]] /\ live \subseteq Task
      /\ Fine(s, e) /\ e \in Excs /\ Served(s, e) /\ Traced(s, e) /\ Flagged(s, e)
  BY TexKnown DEF Fine
<1>2. /\ Svcs(s) = {} /\ (\A i \in 1..Len(s) : ~Flagging(s[i])) /\ ~TakesLock(s) /\ ~HasLock(s)
  BY <1>0, UserCalls
<1>3. e.execssid = 0 /\ "SSFN" \notin e.texflg
  <2>1. e.execssid = 0
    BY <1>1, <1>2 DEF Traced, Tells
  <2>2. "SSFN" \notin e.texflg
    BY <1>1, <1>2 DEF Flagged, FlagTells
  <2> QED BY <2>1, <2>2
<1>4. Kept(s, e) = e.exectex
  BY <1>2 DEF Kept
<1>5. CASE e.exectex = {}
  <2> DEFINE x == [e EXCEPT !.reqdct = FALSE]
  <2>1. tex' = [tex EXCEPT ![t] = x] /\ UNCHANGED act
    BY <1>5 DEF setup_texhdr
  <2>2. /\ x \in Excs /\ x.execssid = e.execssid /\ x.ran = e.ran /\ x.texflg = e.texflg /\ x.texhdr = e.texhdr
        /\ x.exectex = e.exectex /\ x.pendtex = e.pendtex
    BY <1>1 DEF Excs
  <2> HIDE DEF x
  <2>3. Kept(s, x) = Kept(s, e) /\ Kept(s, e) = {}
    BY <1>4, <1>5, <2>2, KeptHas
  <2>4. Served(s, x)
    BY <1>1, <2>2, <2>3 DEF Served
  <2>5. Fine(s, x)
    BY <1>1, <2>2, <2>4, FineExc
  <2> QED BY <1>0, <2>1, <2>5, ExcStep
<1>6. CASE e.exectex # {}
  <2> DEFINE flag == IF c = 0 THEN "TEX0" ELSE "TEX1"
             x == [e EXCEPT !.reqdct = FALSE, !.exectex = {}, !.pendtex = @ \ {c}, !.texflg = @ \cup {flag}]
             r == <<f>>
  <2>1. tex' = [tex EXCEPT ![t] = x] /\ act' = [act EXCEPT ![t] = r]
    BY <1>1, <1>6 DEF setup_texhdr, Excs
  <2>2. IsFrame(f) /\ f.fn = "TEX"
    BY DEF IsFrame
  <2>3. 0 \in e.exectex => c = 0
    BY <1>1, ZeroFirst DEF Excs
  <2>4. flag \in Flags \ {"SSFN"} /\ (c = 0 => flag = "TEX0") /\ (flag = "TEX0" \/ flag = "TEX1")
    BY DEF Flags
  <2> HIDE DEF c, flag
  <2>5. /\ x \in Excs /\ x.execssid = e.execssid /\ x.texflg = e.texflg \cup {flag} /\ x.texhdr = e.texhdr
        /\ x.exectex = {} /\ x.pendtex = e.pendtex \ {c}
    BY <1>1, <2>4 DEF Excs
  <2> HIDE DEF x, f
  <2>6. Kept(r, x) = {}
    <3>1. Svcs(r) = {}
      BY <2>2 DEF Svcs, Entered
    <3> QED BY <2>5, <3>1 DEF Kept
  <2>7. Served(r, x)
    <3>1. e.texhdr
      BY <1>1, <1>4, <1>6 DEF Served
    <3>2. 0 \in x.pendtex => "TEX0" \in x.texflg
      <4>1. SUFFICES ASSUME 0 \in x.pendtex PROVE "TEX0" \in x.texflg
        OBVIOUS
      <4>2. 0 \in e.pendtex /\ c # 0
        BY <2>5, <4>1
      <4>3. 0 \in Kept(s, e) \/ "TEX0" \in e.texflg
        BY <1>1, <4>2 DEF Served
      <4> QED BY <1>4, <2>3, <2>5, <4>2, <4>3
    <3> QED BY <2>4, <2>5, <2>6, <3>1, <3>2 DEF Served
  <2>8. Fine(r, x) /\ BrokenOnce(r) /\ ~TakesLock(r) /\ ~HasLock(r) /\ r[1].fn = "TEX"
    <3>1. x.execssid = 0 /\ "SSFN" \notin x.texflg
      BY <1>3, <2>4, <2>5
    <3>2. /\ Fine(r, x) /\ BrokenOnce(r) /\ ~TakesLock(r) /\ ~HasLock(r)
      BY <2>2, <2>5, <2>7, <3>1, FineUser
    <3> QED BY <2>2, <3>2
  <2> HIDE DEF r
  <2>9. /\ act'[t] = r /\ Only(t) /\ tex'[t] = x /\ Functions /\ \A y \in Task : y # t => tex'[y] = tex[y]
    BY <1>0, <1>1, <2>1 DEF Only, Functions
  <2>10. Steady(t, act[t], act'[t])
    BY <1>2, <2>8, <2>9 DEF Steady
  <2> QED BY <1>0, <2>8, <2>9, <2>10, FreeStep
<1> QED BY <1>5, <1>6

LEMMA HandlerEnds ==
  ASSUME TexInv, NEW t \in Task, NEW enatex \in BOOLEAN, _tk_end_tex(t, enatex)
  PROVE  TexInv'
<1> DEFINE e == tex[t]
           s == act[t]
           rest == e.pendtex \ {0}
<1>0. TexSame /\ UNCHANGED <<live, locks>> /\ In(t, "TEX", "BODY") /\ e.texflg \cap {"TEX0", "TEX1"} = {"TEX1"}
  BY DEF _tk_end_tex, TexSame
<1>1. /\ act = [u \in Task |-> act[u]] /\ tex = [u \in Task |-> tex[u]] /\ live \subseteq Task
      /\ Fine(s, e) /\ e \in Excs /\ Served(s, e) /\ Traced(s, e) /\ Flagged(s, e) /\ (s # <<>> => t \in live)
  BY TexKnown DEF Fine
<1>2. s # <<>> /\ s[1].fn = "TEX" /\ IsStack(s) /\ User(t)
  BY <1>0, TopIs DEF In, User
<1>3. Svcs(s) = {} /\ (\A i \in 1..Len(s) : ~Flagging(s[i])) /\ ~TakesLock(s) /\ ~HasLock(s) /\ Len(s) = 1
  BY <1>2, UserCalls
<1>4. e.execssid = 0 /\ "SSFN" \notin e.texflg
  <2>1. e.execssid = 0
    BY <1>1, <1>3 DEF Traced, Tells
  <2>2. "SSFN" \notin e.texflg
    BY <1>1, <1>3 DEF Flagged, FlagTells
  <2> QED BY <2>1, <2>2
<1>5. Kept(s, e) = e.exectex
  BY <1>3 DEF Kept
<1>6. "TEX0" \notin e.texflg /\ "TEX1" \in e.texflg
  BY <1>0
<1>7. CASE enatex \/ rest = {}
  <2> DEFINE x == [e EXCEPT !.texflg = @ \ {"TEX1"}, !.exectex = @ \cup e.pendtex, !.reqdct = @ \/ rest # {}]
             r == Tail(s)
  <2>1. tex' = [tex EXCEPT ![t] = x] /\ act' = [act EXCEPT ![t] = r]
    BY <1>7 DEF _tk_end_tex, Leave
  <2>2. /\ x \in Excs /\ x.execssid = 0 /\ "SSFN" \notin x.texflg /\ x.texhdr = e.texhdr
        /\ x.exectex = e.exectex \cup e.pendtex /\ x.pendtex = e.pendtex /\ (x.reqdct <=> e.reqdct \/ rest # {})
    <3> DEFINE b == e.reqdct \/ rest # {}
               g == e.texflg \ {"TEX1"}
               c == e.exectex \cup e.pendtex
    <3>1. b \in BOOLEAN /\ g \subseteq Flags /\ c \subseteq Texcd /\ "SSFN" \notin g
      BY <1>1, <1>4 DEF Excs
    <3>2. x = [e EXCEPT !.texflg = g, !.exectex = c, !.reqdct = b]
      BY <1>1 DEF Excs
    <3> HIDE DEF b, g, c, x
    <3>3. /\ x \in Excs /\ x.execssid = e.execssid /\ x.texflg = g /\ x.texhdr = e.texhdr
          /\ x.exectex = c /\ x.pendtex = e.pendtex /\ x.reqdct = b
      BY <1>1, <3>1, <3>2 DEF Excs
    <3>4. (x.reqdct <=> e.reqdct \/ rest # {}) /\ x.exectex = e.exectex \cup e.pendtex
      BY <3>3 DEF b, c
    <3> QED BY <1>4, <3>1, <3>3, <3>4
  <2>3. r = <<>>
    <3>1. IsStack(r) /\ Len(r) = 0
      BY <1>2, <1>3, Popped
    <3> HIDE DEF r
    <3> QED BY <3>1, StackIs
  <2> HIDE DEF x, r
  <2>4. Kept(r, x) = e.exectex \cup e.pendtex
    <3>1. Svcs(r) = {}
      BY <2>3 DEF Svcs
    <3> QED BY <2>2, <3>1 DEF Kept
  <2>5. Served(r, x)
    <3>1. Kept(r, x) # {} => x.texhdr
      BY <1>1, <1>5, <2>2, <2>4 DEF Served
    <3>2. ASSUME Kept(r, x) # {} PROVE x.reqdct
      <4>1. CASE e.exectex # {}
        BY <1>1, <1>5, <2>2, <4>1 DEF Served
      <4>2. CASE e.exectex = {} /\ rest # {}
        BY <2>2, <4>2
      <4>3. CASE e.exectex = {} /\ rest = {}
        <5>1. 0 \in e.pendtex
          BY <2>4, <3>2, <4>3
        <5> QED BY <1>1, <1>5, <1>6, <4>3, <5>1 DEF Served
      <4> QED BY <4>1, <4>2, <4>3
    <3> QED BY <2>2, <2>4, <3>1, <3>2 DEF Served
  <2>6. Fine(r, x) /\ BrokenOnce(r) /\ ~TakesLock(r) /\ ~HasLock(r)
    BY <2>2, <2>3, <2>5, FineUser
  <2>7. /\ act'[t] = r /\ Only(t) /\ tex'[t] = x /\ Functions /\ \A y \in Task : y # t => tex'[y] = tex[y]
    BY <1>0, <1>1, <2>1 DEF Only, Functions
  <2>8. Steady(t, act[t], act'[t])
    BY <1>3, <2>6, <2>7 DEF Steady
  <2> QED BY <1>0, <2>3, <2>6, <2>7, <2>8, FreeStep
<1>8. CASE ~(enatex \/ rest = {})
  <2> DEFINE x == [e EXCEPT !.pendtex = @ \ {Min(rest)}]
  <2>1. tex' = [tex EXCEPT ![t] = x] /\ UNCHANGED act
    BY <1>1, <1>8 DEF _tk_end_tex, Excs
  <2>2. /\ x \in Excs /\ x.execssid = e.execssid /\ x.ran = e.ran /\ x.texflg = e.texflg /\ x.texhdr = e.texhdr
        /\ x.exectex = e.exectex /\ x.pendtex \subseteq e.pendtex /\ x.reqdct = e.reqdct
    BY <1>1 DEF Excs
  <2> HIDE DEF x
  <2>3. Kept(s, x) = Kept(s, e)
    BY <2>2, KeptHas
  <2>4. Served(s, x)
    BY <1>1, <2>2, <2>3 DEF Served
  <2>5. Fine(s, x)
    BY <1>1, <2>2, <2>4, FineExc
  <2> QED BY <1>0, <2>1, <2>5, ExcStep
<1> QED BY <1>7, <1>8

-----------------------------------------------------------------------------
(* Tasks are suspended, terminated, started.                               *)
LEMMA WaiterSuspended ==
  ASSUME TexInv, NEW t \in Task, Suspended(t)
  PROVE  TexInv'
<1>1. TexSame /\ UNCHANGED <<live, tex, act>> /\ Withdraws(t)
  BY DEF Suspended, TexSame, Withdraws
<1>2. /\ LocksTypeOK /\ LocksSound /\ act = [u \in Task |-> act[u]] /\ tex = [u \in Task |-> tex[u]] /\ live \subseteq Task
      /\ Fine(act[t], tex[t]) /\ (act[t] # <<>> => t \in live)
  BY TexKnown
<1>3. Functions /\ Only(t) /\ act'[t] = act[t] /\ tex'[t] = tex[t]
  BY <1>1, <1>2 DEF Functions, Only
<1>4. LocksTypeOK' /\ LocksSound'
  BY <1>1, <1>2, <1>3, WaitLeft
<1> QED BY <1>1, <1>2, <1>3, <1>4, OneTask

LEMMA TaskTerminated ==
  ASSUME TexInv, ~Holders, NEW t \in Task, NEW x \in Task, _ter_tsk(t, x)
  PROVE  TexInv'
<1>1. /\ LocksTypeOK /\ LocksSound /\ act = [u \in Task |-> act[u]] /\ tex = [u \in Task |-> tex[u]] /\ live \subseteq Task
      /\ \A y \in Task : Fine(act[y], tex[y]) /\ (act[y] # <<>> => y \in live)
  BY TexKnown
<1>2. locks.held[x] = <<>>
  <2>1. CASE t = x
    <3>1. ~TakesLock(act[x]) /\ ~HasLock(act[x])
      BY <2>1, UserCalls DEF _ter_tsk
    <3> QED BY <1>1, <3>1 DEF LocksSound, HeldRight
  <2>2. CASE t # x
    BY <2>2 DEF _ter_tsk
  <2> QED BY <2>1, <2>2
<1>3. Withdraws(x)
  BY <1>2 DEF _ter_tsk, Withdraws
<1>4. TexSame /\ tex' = [tex EXCEPT ![x] = Dormant] /\ live' = live \ {x} /\ act' = [act EXCEPT ![x] = <<>>]
  BY DEF _ter_tsk, TexSame
<1>5. /\ Functions /\ Only(x) /\ act'[x] = <<>> /\ tex'[x] = Dormant /\ \A y \in Task : y # x => tex'[y] = tex[y]
  BY <1>1, <1>4 DEF Functions, Only
<1>6. LocksTypeOK' /\ LocksSound'
  BY <1>1, <1>2, <1>3, <1>5, WaitLeft
<1>7. Fine(<<>>, Dormant) /\ BrokenOnce(<<>>)
  <2>1. /\ Dormant \in Excs /\ Dormant.execssid = 0 /\ Dormant.texflg = {} /\ Dormant.exectex = {} /\ Dormant.pendtex = {}
    BY DEF Dormant, Excs
  <2>2. Served(<<>>, Dormant)
    <3>1. Kept(<<>>, Dormant) = {}
      BY <2>1 DEF Kept, Svcs
    <3> QED BY <2>1, <3>1 DEF Served
  <2> QED BY <2>1, <2>2, FineUser
<1>8. BreaksSound'
  BY <1>5, <1>7, BreaksKept
<1>9. ASSUME NEW y \in Task PROVE Fine(act'[y], tex'[y]) /\ (act'[y] # <<>> => y \in live')
  <2>1. CASE y = x
    BY <1>5, <1>7, <2>1
  <2>2. CASE y # x
    BY <1>1, <1>4, <1>5, <2>2 DEF Only
  <2> QED BY <2>1, <2>2
<1> QED BY <1>4, <1>5, <1>6, <1>8, <1>9, TexFrom

LEMMA TaskStarted ==
  ASSUME TexInv, NEW t \in Task, NEW x \in Task, _tk_sta_tsk(t, x)
  PROVE  TexInv'
<1>1. TexSame /\ UNCHANGED <<locks, tex, act>> /\ live' = live \cup {x}
  BY DEF _tk_sta_tsk, TexSame
<1>2. /\ LocksTypeOK /\ LocksSound /\ BreaksSound /\ act = [u \in Task |-> act[u]] /\ tex = [u \in Task |-> tex[u]]
      /\ live \subseteq Task /\ \A y \in Task : Fine(act[y], tex[y]) /\ (act[y] # <<>> => y \in live)
  BY TexKnown
<1>3. LocksTypeOK' /\ LocksSound' /\ BreaksSound'
  BY <1>1, <1>2 DEF LocksTypeOK, LocksSound, BreaksSound
<1>4. Functions
  BY <1>1, <1>2 DEF Functions
<1> QED BY <1>1, <1>2, <1>3, <1>4, TexFrom

-----------------------------------------------------------------------------
(* The lists of the subsystems.                                            *)
LEMMA SubsystemDefined ==
  ASSUME TexInv, NEW s \in Ssid, _tk_def_ssy(s)
  PROVE  TexInv'
<1>0. /\ TexTypeOK /\ TasksSound /\ LocksSound /\ BreaksSound /\ SubsystemsListed /\ UNCHANGED <<live, locks, tex, act>>
      /\ ssycb \in [Ssid -> {NOSVC} \cup 1..NUM_SSYPRI] /\ ssypri_table \in [1..NUM_SSYPRI -> Seq(Ssid)]
  BY DEF TexInv, _tk_def_ssy, TexTypeOK
<1>1. NOSVC \notin 1..NUM_SSYPRI
  BY TexAssumption
<1>2. ASSUME NEW p \in 1..NUM_SSYPRI, NEW q \in Seq(Ssid), NEW v \in {NOSVC} \cup 1..NUM_SSYPRI,
             ssycb' = [ssycb EXCEPT ![s] = v], ssypri_table' = [ssypri_table EXCEPT ![p] = q],
             IsInjective(q), ToSet(q) = {u \in Ssid : ssycb'[u] = p},
             v = p \/ (v = NOSVC /\ ssycb[s] = p), ssycb[s] = p \/ ssycb[s] = NOSVC
      PROVE  TexInv'
  <2>1. /\ ssycb' \in [Ssid -> {NOSVC} \cup 1..NUM_SSYPRI] /\ ssypri_table' \in [1..NUM_SSYPRI -> Seq(Ssid)]
        /\ ssypri_table'[p] = q /\ \A r \in 1..NUM_SSYPRI : r # p => ssypri_table'[r] = ssypri_table[r]
        /\ ssycb'[s] = v /\ \A u \in Ssid : u # s => ssycb'[u] = ssycb[u]
    BY <1>0, <1>2
  <2>2. ASSUME NEW r \in 1..NUM_SSYPRI
        PROVE  ToSet(ssypri_table'[r]) = {u \in Ssid : ssycb'[u] = r} /\ IsInjective(ssypri_table'[r])
    <3>1. CASE r = p
      BY <1>2, <2>1, <3>1
    <3>2. CASE r # p
      <4>1. v # r /\ ssycb[s] # r
        BY <1>1, <1>2, <3>2
      <4>2. \A u \in Ssid : ssycb'[u] = r <=> ssycb[u] = r
        BY <2>1, <4>1
      <4>3. ToSet(ssypri_table[r]) = {u \in Ssid : ssycb[u] = r} /\ IsInjective(ssypri_table[r])
        BY <1>0 DEF SubsystemsListed
      <4> QED BY <2>1, <3>2, <4>2, <4>3
    <3> QED BY <3>1, <3>2
  <2>3. SubsystemsListed'
    BY <2>2 DEF SubsystemsListed
  <2>4. TexTypeOK'
    BY <1>0, <2>1 DEF TexTypeOK
  <2>5. TasksSound' /\ LocksSound' /\ BreaksSound'
    BY <1>0 DEF TasksSound, LocksSound, BreaksSound
  <2> QED BY <2>3, <2>4, <2>5 DEF TexInv
<1>3. ASSUME NEW p \in 1..NUM_SSYPRI, ssycb[s] = NOSVC, ssycb' = [ssycb EXCEPT ![s] = p],
             ssypri_table' = [ssypri_table EXCEPT ![p] = <<s>> \o @]
      PROVE  TexInv'
  <2> DEFINE w == ssypri_table[p]
             q == <<s>> \o w
  <2>1. w \in Seq(Ssid) /\ ToSet(w) = {u \in Ssid : ssycb[u] = p} /\ IsInjective(w)
    BY <1>0 DEF SubsystemsListed
  <2>2. ssypri_table' = [ssypri_table EXCEPT ![p] = q]
    BY <1>3
  <2> HIDE DEF w
  <2>3. /\ q \in Seq(Ssid) /\ Len(w) \in Nat /\ Len(q) = Len(w) + 1 /\ q[1] = s /\ \A i \in 1..Len(w) : q[i + 1] = w[i]
    BY <2>1
  <2> HIDE DEF q
  <2>4. DOMAIN q = 1..Len(w) + 1 /\ DOMAIN w = 1..Len(w)
    BY <2>1, <2>3
  <2>5. s \notin ToSet(w)
    BY <1>1, <1>3, <2>1
  <2>6. ToSet(q) = ToSet(w) \cup {s}
    <3>1. \A i \in 1..Len(w) + 1 : i = 1 \/ \E j \in 1..Len(w) : i = j + 1
      BY <2>3, OneMore
    <3>2. \A j \in 1..Len(w) : j + 1 \in 1..Len(w) + 1
      BY <2>3
    <3>3. 1 \in 1..Len(w) + 1
      BY <2>3
    <3>4. \A i \in 1..Len(w) + 1 : q[i] = s \/ \E j \in 1..Len(w) : q[i] = w[j]
      BY <2>3, <3>1
    <3>5. ToSet(q) \subseteq ToSet(w) \cup {s}
      BY <2>4, <3>4 DEF ToSet
    <3>6. ToSet(w) \subseteq ToSet(q) /\ s \in ToSet(q)
      BY <2>3, <2>4, <3>2, <3>3 DEF ToSet
    <3> QED BY <3>5, <3>6
  <2>7. IsInjective(q)
    <3>1. ASSUME NEW i \in 1..Len(w) + 1, NEW j \in 1..Len(w) + 1, q[i] = q[j] PROVE i = j
      <4>1. i = 1 \/ \E k \in 1..Len(w) : i = k + 1
        BY <2>3, OneMore
      <4>2. j = 1 \/ \E k \in 1..Len(w) : j = k + 1
        BY <2>3, OneMore
      <4>3. \A k \in 1..Len(w) : w[k] \in ToSet(w)
        BY <2>4 DEF ToSet
      <4>4. \A k, l \in 1..Len(w) : w[k] = w[l] => k = l
        BY <2>1, <2>4 DEF IsInjective
      <4> QED BY <2>3, <2>5, <3>1, <4>1, <4>2, <4>3, <4>4
    <3> QED BY <2>4, <3>1 DEF IsInjective
  <2>8. ToSet(q) = {u \in Ssid : ssycb'[u] = p}
    <3>1. \A u \in Ssid : ssycb'[u] = p <=> u = s \/ ssycb[u] = p
      BY <1>0, <1>3
    <3> QED BY <2>1, <2>6, <3>1
  <2> QED BY <1>2, <1>3, <2>2, <2>3, <2>7, <2>8
<1>4. ASSUME ssycb[s] # NOSVC, ssycb' = [ssycb EXCEPT ![s] = NOSVC],
             ssypri_table' = [ssypri_table EXCEPT ![ssycb[s]] = RemoveFirst(@, s)]
      PROVE  TexInv'
  <2> DEFINE p == ssycb[s]
             w == ssypri_table[p]
             q == RemoveFirst(w, s)
  <2>1. p \in 1..NUM_SSYPRI
    BY <1>0, <1>4
  <2>2. w \in Seq(Ssid) /\ ToSet(w) = {u \in Ssid : ssycb[u] = p} /\ IsInjective(w)
    BY <1>0, <2>1 DEF SubsystemsListed
  <2>3. ssypri_table' = [ssypri_table EXCEPT ![p] = q]
    BY <1>4
  <2>4. q \in Seq(Ssid) /\ IsInjective(q) /\ ToSet(q) = ToSet(w) \ {s}
    BY <2>2, FirstRemoved
  <2> HIDE DEF q, w
  <2>5. ToSet(q) = {u \in Ssid : ssycb'[u] = p}
    <3>1. \A u \in Ssid : ssycb'[u] = p <=> u # s /\ ssycb[u] = p
      BY <1>0, <1>1, <1>4, <2>1
    <3> QED BY <2>2, <2>4, <3>1
  <2> QED BY <1>2, <1>4, <2>1, <2>3, <2>4, <2>5
<1> QED BY <1>3, <1>4 DEF _tk_def_ssy

-----------------------------------------------------------------------------
(* Break functions.                                                        *)
LEMMA BreakStep ==
  ASSUME TexInv, TexSame, UNCHANGED <<live, locks>>, Functions, NEW t \in Task,
         \A y \in Task : /\ Fine(act'[y], tex'[y]) /\ Steady(y, act[y], act'[y])
                         /\ act'[y] # <<>> => y \in live
                         /\ BrokenOnce(act[y]) => BrokenOnce(act'[y]),
         \A u \in Task : u # t /\ act'[u] # <<>> /\ act'[u][1].fn = "BREAK" =>
           act[u] # <<>> /\ act'[u][1] = act[u][1],
         act'[t] # <<>> /\ act'[t][1].fn = "BREAK" /\ act'[t][1].tsk # t =>
           HasLock(act'[t]) /\ BrokenOnce(act'[act'[t][1].tsk])
  PROVE  TexInv'
<1>1. LocksTypeOK /\ LocksSound /\ TexTypeOK /\ BreaksSound /\ \A y \in Task : Fine(act[y], tex[y])
  BY TexKnown
<1>2. LocksSound' /\ LocksTypeOK'
  BY <1>1, LocksKept DEF LocksTypeOK
<1>3. ASSUME NEW u \in Task, act'[u] # <<>>, act'[u][1].fn = "BREAK", act'[u][1].tsk # u
      PROVE  HasLock(act'[u]) /\ BrokenOnce(act'[act'[u][1].tsk])
  <2>1. CASE u = t
    BY <1>3, <2>1
  <2>2. CASE u # t
    <3>1. act[u] # <<>> /\ act'[u][1] = act[u][1]
      BY <1>3, <2>2
    <3>2. HasLock(act[u]) /\ BrokenOnce(act[act[u][1].tsk])
      BY <1>1, <1>3, <3>1 DEF BreaksSound
    <3>3. act[u][1].tsk \in Task
      <4>1. IsStack(act[u])
        BY <1>1 DEF Fine
      <4>2. IsFrame(act[u][1])
        BY <3>1, <4>1, StackIs DEF IsStack
      <4> QED BY <1>3, <3>1, <4>2 DEF IsFrame, BreakFrame
    <3>4. HasLock(act'[u])
      BY <3>2 DEF Steady
    <3> QED BY <3>1, <3>2, <3>3, <3>4
  <2> QED BY <2>1, <2>2
<1>4. BreaksSound'
  BY <1>3 DEF BreaksSound
<1> QED BY <1>2, <1>4, TexFrom

LEMMA SteadySame == ASSUME NEW y, NEW s PROVE Steady(y, s, s)
  BY DEF Steady

LEMMA SteadyTwice ==
  ASSUME NEW y, NEW s, NEW r, NEW q, Steady(y, s, r), Steady(y, r, q)
  PROVE  Steady(y, s, q)
  BY DEF Steady

LEMMA SteadyMarked ==
  ASSUME NEW y, NEW s, NEW e, Fine(s, e), e.execssid # 0, ~e.ran
  PROVE  Steady(y, s, Marked(s))
<1> DEFINE r == Marked(s)
<1>1. /\ s # <<>> /\ r # <<>> /\ Len(r) = Len(s) /\ Len(s) \in Nat \ {0}
      /\ \A k \in 1..Len(s) : r[k].fn = s[k].fn /\ r[k].at = s[k].at /\ (s[k].fn # "SVC" => r[k] = s[k])
  BY FineMarked, StackIs DEF Fine
<1> HIDE DEF r
<1>2. r[1].fn = s[1].fn /\ r[1].at = s[1].at /\ (s[1].fn # "SVC" => r[1] = s[1])
  BY <1>1
<1>3. Len(s) > 1 => r[2].fn = s[2].fn
  <2>1. Len(s) > 1 => 2 \in 1..Len(s)
    BY <1>1
  <2> QED BY <1>1, <2>1
<1>4. Needs(y, r) = Needs(y, s)
  BY <1>2 DEF Needs
<1>5. (TakesLock(r) <=> TakesLock(s)) /\ (HasLock(r) <=> HasLock(s))
  BY <1>1, <1>2, <1>3 DEF TakesLock, HasLock
<1> QED BY <1>4, <1>5 DEF Steady, r

(* A break function starts on top of what the task executes.               *)
LEMMA BreakPushed ==
  ASSUME NEW t \in Task, NEW x \in Task, NEW s, NEW e, Fine(s, e),
         \/ (s = <<>> \/ Outer(s[1])) /\ x = t
         \/ s # <<>> /\ s[1].fn = "RAISE" /\ s[1].at = "UNLOCK" /\ s[1].tsk = x,
         NEW f, f = [fn |-> "BREAK", at |-> "BODY", tsk |-> x, save |-> e.texflg],
         NEW d, d = [e EXCEPT !.texflg = @ \cup {"SSFN"}]
  PROVE  /\ Fine(<<f>> \o s, d) /\ (BrokenOnce(s) => BrokenOnce(<<f>> \o s)) /\ Steady(t, s, <<f>> \o s)
         /\ <<f>> \o s # <<>> /\ (<<f>> \o s)[1] = f /\ (x # t => HasLock(<<f>> \o s))
<1>1. e \in Excs /\ IsStack(s) /\ Nested(s)
  BY DEF Fine
<1>2. /\ f.fn = "BREAK" /\ f.at = "BODY" /\ f.tsk = x /\ f.save = e.texflg
      /\ {"fn", "at", "tsk", "save"} \subseteq DOMAIN f
  OBVIOUS
<1>3. IsFrame(f) /\ ~Entered(f) /\ Flagging(f)
  BY <1>1, <1>2 DEF IsFrame, BreakFrame, Entered, Flagging, Excs
<1>4. AsBefore(e, d) /\ d.texflg = e.texflg \cup {"SSFN"}
  BY <1>1 DEF AsBefore, Excs, Flags
<1>5. s = <<>> \/ Outer(s[1]) \/ Breaking(f, s[1])
  BY <1>2 DEF Breaking
<1> DEFINE r == <<f>> \o s
<1>6. Fine(r, d) /\ (BrokenOnce(s) => BrokenOnce(r))
  BY <1>2, <1>3, <1>4, <1>5, FinePush
<1>7. Len(s) \in Nat /\ r # <<>> /\ r[1] = f /\ Len(r) = Len(s) + 1 /\ \A i \in 1..Len(s) : r[i + 1] = s[i]
  BY <1>1, <1>3, Pushed, StackIs
<1> HIDE DEF r
<1>8. ~TakesLock(r)
  BY <1>2, <1>7 DEF TakesLock
<1>9. CASE s = <<>>
  <2>1. ~HasLock(r) /\ ~TakesLock(s) /\ ~HasLock(s)
    <3>1. Len(r) = 1
      BY <1>7, <1>9
    <3> QED BY <1>2, <1>7, <1>9, <3>1 DEF HasLock, TakesLock
  <2> QED BY <1>6, <1>7, <1>9, <2>1 DEF Steady, r
<1>10. CASE s # <<>>
  <2>1. Len(r) > 1 /\ r[2] = s[1]
    <3>1. Len(s) # 0
      BY <1>1, <1>10, StackIs
    <3>2. 1 \in 1..Len(s)
      BY <1>7, <3>1
    <3>3. r[1 + 1] = s[1]
      BY <1>7, <3>2
    <3> QED BY <1>7, <3>1, <3>3
  <2>2. CASE Outer(s[1])
    <3>1. ~HasLock(r) /\ ~TakesLock(s) /\ ~HasLock(s) /\ s[1].fn # "RAISE"
      BY <1>2, <1>7, <2>1, <2>2 DEF HasLock, TakesLock, Outer
    <3> QED BY <1>6, <1>7, <3>1 DEF Steady, r
  <2>3. CASE s[1].fn = "RAISE" /\ s[1].at = "UNLOCK" /\ s[1].tsk = x
    <3>1. HasLock(r) /\ HasLock(s) /\ ~TakesLock(s) /\ Needs(t, r) = x /\ Needs(t, s) = x
      BY <1>2, <1>7, <1>10, <2>1, <2>3 DEF HasLock, TakesLock, Needs
    <3> QED BY <1>6, <1>7, <1>8, <3>1 DEF Steady, r
  <2> QED BY <1>10, <2>2, <2>3
<1> QED BY <1>9, <1>10

LEMMA BreakCalled ==
  ASSUME TexInv, TexSame, UNCHANGED <<live, locks>>, NEW t \in Task, NEW x \in Task, act[t] # <<>>, NEW s,
         call_brkhdr(t, x, s), Fine(s, tex[t]), BrokenOnce(act[t]) => BrokenOnce(s), Steady(t, act[t], s),
         \/ (s = <<>> \/ Outer(s[1])) /\ x = t
         \/ s # <<>> /\ s[1].fn = "RAISE" /\ s[1].at = "UNLOCK" /\ s[1].tsk = x
  PROVE  TexInv'
<1>1. /\ act = [u \in Task |-> act[u]] /\ tex = [u \in Task |-> tex[u]] /\ live \subseteq Task /\ t \in live
      /\ \A y \in Task : Fine(act[y], tex[y]) /\ (act[y] # <<>> => y \in live)
  BY TexKnown
<1> DEFINE next == [act EXCEPT ![t] = s]
           m == Marked(next[x])
           count == [next EXCEPT ![x] = m]
           marked == [tex EXCEPT ![x] = Mark(tex[x])]
           f == [fn |-> "BREAK", at |-> "BODY", tsk |-> x, save |-> tex[t].texflg]
<1>2. \/ ~BreakDue(x) /\ act' = next /\ UNCHANGED tex
      \/ BreakDue(x) /\ act' = count /\ tex' = marked
      \/ /\ BreakDue(x) /\ act' = [count EXCEPT ![t] = <<f>> \o count[t]]
         /\ tex' = [marked EXCEPT ![t].texflg = @ \cup {"SSFN"}]
  BY <1>1 DEF call_brkhdr, Marked
<1>3. next = [u \in Task |-> next[u]] /\ next[t] = s /\ \A y \in Task : y # t => next[y] = act[y]
  BY <1>1
<1>4. s # <<>> => s[1].fn # "BREAK"
  BY DEF Outer
<1> HIDE DEF next
<1>5. \A y \in Task : /\ Fine(next[y], tex[y]) /\ Steady(y, act[y], next[y]) /\ (next[y] # <<>> => y \in live)
                      /\ BrokenOnce(act[y]) => BrokenOnce(next[y])
  BY <1>1, <1>3, SteadySame
<1>6. CASE ~BreakDue(x) /\ act' = next /\ UNCHANGED tex
  <2>1. Functions
    BY <1>1, <1>3, <1>6 DEF Functions
  <2>2. \A u \in Task : u # t => act'[u] = act[u]
    BY <1>3, <1>6
  <2>3. act'[t] # <<>> => act'[t][1].fn # "BREAK"
    BY <1>3, <1>4, <1>6
  <2>4. \A y \in Task : /\ Fine(act'[y], tex'[y]) /\ Steady(y, act[y], act'[y])
                        /\ act'[y] # <<>> => y \in live
                        /\ BrokenOnce(act[y]) => BrokenOnce(act'[y])
    BY <1>5, <1>6
  <2> HIDE DEF f, m, count, marked
  <2> QED BY <2>1, <2>2, <2>3, <2>4, BreakStep
<1>7. ASSUME BreakDue(x)
      PROVE  /\ Fine(m, Mark(tex[x])) /\ BrokenOnce(m) /\ m # <<>> /\ next[x] # <<>> /\ Steady(x, next[x], m)
             /\ m[1].fn = next[x][1].fn /\ m[1].at = next[x][1].at /\ (next[x][1].fn # "SVC" => m[1] = next[x][1])
  <2>1. Fine(next[x], tex[x]) /\ tex[x].execssid # 0 /\ ~tex[x].ran
    BY <1>5, <1>7 DEF BreakDue
  <2> DEFINE w == next[x]
             e == tex[x]
  <2> HIDE DEF w, e
  <2>2. Fine(w, e) /\ e.execssid # 0 /\ ~e.ran
    BY <2>1 DEF w, e
  <2>3. /\ Fine(Marked(w), Mark(e)) /\ BrokenOnce(Marked(w)) /\ w # <<>> /\ Marked(w) # <<>> /\ Steady(x, w, Marked(w))
    BY <2>2, FineMarked, SteadyMarked
  <2>4. \A k \in 1..Len(w) : /\ Marked(w)[k].fn = w[k].fn /\ Marked(w)[k].at = w[k].at
                             /\ w[k].fn # "SVC" => Marked(w)[k] = w[k]
    BY <2>2, FineMarked
  <2>5. 1 \in 1..Len(w)
    BY <2>2, <2>3, StackIs DEF Fine
  <2> QED BY <2>3, <2>4, <2>5 DEF w, e
<1> HIDE DEF m
<1>8. /\ count = [u \in Task |-> count[u]] /\ count[x] = m /\ \A y \in Task : y # x => count[y] = next[y]
  BY <1>3
<1>9. /\ marked = [u \in Task |-> marked[u]] /\ marked[x] = Mark(tex[x]) /\ \A y \in Task : y # x => marked[y] = tex[y]
  BY <1>1
<1> HIDE DEF count, marked
<1>10. ASSUME BreakDue(x), NEW y \in Task
       PROVE  /\ Fine(count[y], marked[y]) /\ Steady(y, act[y], count[y]) /\ (count[y] # <<>> => y \in live)
              /\ BrokenOnce(act[y]) => BrokenOnce(count[y])
  <2>1. CASE y = x
    <3>1. Steady(x, act[x], next[x]) /\ Steady(x, next[x], m) /\ x \in live
      BY <1>5, <1>7, <1>10
    <3>2. Steady(x, act[x], m)
      BY <3>1, SteadyTwice
    <3> QED BY <1>7, <1>8, <1>9, <1>10, <2>1, <3>1, <3>2
  <2>2. CASE y # x
    BY <1>5, <1>8, <1>9, <2>2
  <2> QED BY <2>1, <2>2
<1>11. ASSUME BreakDue(x), NEW u \in Task, u # t, count[u] # <<>>, count[u][1].fn = "BREAK"
       PROVE  act[u] # <<>> /\ count[u][1] = act[u][1]
  <2>1. CASE u = x
    BY <1>3, <1>7, <1>8, <1>11, <2>1
  <2>2. CASE u # x
    BY <1>3, <1>8, <1>11, <2>2
  <2> QED BY <2>1, <2>2
<1>12. ASSUME BreakDue(x)
       PROVE  /\ count[t] # <<>> => count[t][1].fn # "BREAK"
              /\ \/ (count[t] = <<>> \/ Outer(count[t][1])) /\ x = t
                 \/ count[t] # <<>> /\ count[t][1].fn = "RAISE" /\ count[t][1].at = "UNLOCK" /\ count[t][1].tsk = x
  <2>1. CASE x = t
    BY <1>3, <1>4, <1>7, <1>8, <1>12, <2>1 DEF Outer
  <2>2. CASE x # t
    BY <1>3, <1>4, <1>8, <2>2
  <2> QED BY <2>1, <2>2
<1>13. CASE BreakDue(x) /\ act' = count /\ tex' = marked
  <2>1. Functions
    BY <1>1, <1>8, <1>9, <1>13 DEF Functions
  <2>2. \A y \in Task : /\ Fine(act'[y], tex'[y]) /\ Steady(y, act[y], act'[y])
                        /\ act'[y] # <<>> => y \in live
                        /\ BrokenOnce(act[y]) => BrokenOnce(act'[y])
    BY <1>10, <1>13
  <2>3. act'[t] # <<>> => act'[t][1].fn # "BREAK"
    BY <1>12, <1>13
  <2>4. \A u \in Task : u # t /\ act'[u] # <<>> /\ act'[u][1].fn = "BREAK" =>
          act[u] # <<>> /\ act'[u][1] = act[u][1]
    BY <1>11, <1>13
  <2> QED BY <2>1, <2>2, <2>3, <2>4, BreakStep
<1>14. CASE /\ BreakDue(x) /\ act' = [count EXCEPT ![t] = <<f>> \o count[t]]
            /\ tex' = [marked EXCEPT ![t].texflg = @ \cup {"SSFN"}]
  <2> DEFINE e == marked[t]
             d == [e EXCEPT !.texflg = @ \cup {"SSFN"}]
             w == count[t]
             r == <<f>> \o w
  <2>1. Fine(w, e) /\ Steady(t, act[t], w) /\ (BrokenOnce(act[t]) => BrokenOnce(w))
    BY <1>10, <1>14
  <2>2. e.texflg = tex[t].texflg
    <3>1. Mark(tex[x]).texflg = tex[x].texflg
      BY <1>1 DEF Mark, Fine, Excs
    <3> QED BY <1>9, <3>1
  <2>3. f = [fn |-> "BREAK", at |-> "BODY", tsk |-> x, save |-> e.texflg]
    BY <2>2
  <2>4. act' = [count EXCEPT ![t] = r] /\ tex' = [marked EXCEPT ![t] = d]
    BY <1>14
  <2>6. \/ (w = <<>> \/ Outer(w[1])) /\ x = t
        \/ w # <<>> /\ w[1].fn = "RAISE" /\ w[1].at = "UNLOCK" /\ w[1].tsk = x
    BY <1>12, <1>14
  <2>7. f.tsk = x
    OBVIOUS
  <2> HIDE DEF f, e, w
  <2>8. /\ Fine(r, d) /\ (BrokenOnce(w) => BrokenOnce(r)) /\ Steady(t, w, r)
        /\ r # <<>> /\ r[1] = f /\ (x # t => HasLock(r))
    BY <2>1, <2>3, <2>6, BreakPushed
  <2>9. Steady(t, act[t], r)
    BY <2>1, <2>8, SteadyTwice
  <2> HIDE DEF d, r
  <2>10. /\ act'[t] = r /\ tex'[t] = d /\ Functions
         /\ \A y \in Task : y # t => act'[y] = count[y] /\ tex'[y] = marked[y]
    BY <1>1, <1>8, <1>9, <2>4 DEF Functions
  <2>11. ASSUME NEW y \in Task
         PROVE  /\ Fine(act'[y], tex'[y]) /\ Steady(y, act[y], act'[y])
                /\ act'[y] # <<>> => y \in live
                /\ BrokenOnce(act[y]) => BrokenOnce(act'[y])
    <3>1. CASE y = t
      BY <1>1, <2>1, <2>8, <2>9, <2>10, <3>1
    <3>2. CASE y # t
      BY <1>10, <1>14, <2>10, <3>2
    <3> QED BY <3>1, <3>2
  <2>12. ASSUME x # t PROVE BrokenOnce(act'[x])
    BY <1>7, <1>8, <1>14, <2>10, <2>12
  <2>13. \A u \in Task : u # t /\ act'[u] # <<>> /\ act'[u][1].fn = "BREAK" =>
           act[u] # <<>> /\ act'[u][1] = act[u][1]
    BY <1>11, <1>14, <2>10
  <2> QED BY <2>7, <2>8, <2>10, <2>11, <2>12, <2>13, BreakStep
<1> QED BY <1>2, <1>6, <1>13, <1>14

LEMMA OwnBreak ==
  ASSUME TexInv, NEW t \in Task, BreakSelf(t)
  PROVE  TexInv'
<1>1. TexSame /\ UNCHANGED <<live, locks>> /\ call_brkhdr(t, t, Tail(act[t]))
  BY DEF BreakSelf, TexSame
<1>2. /\ act[t] # <<>> /\ act[t][1].fn \in {"SVC", "RAISE", "SSFN"} /\ act[t][1].at = "SELF"
  BY TopIs DEF BreakSelf, In
<1>3. Fine(act[t], tex[t]) /\ IsStack(act[t]) /\ Nested(act[t])
  BY <1>2, TopIs
<1>4. ~Entered(act[t][1]) /\ ~Flagging(act[t][1]) /\ ~TakesLock(act[t]) /\ ~HasLock(act[t])
  BY <1>2 DEF Entered, Flagging, TakesLock, HasLock
<1> DEFINE s == Tail(act[t])
<1>5. AsBefore(tex[t], tex[t])
  BY <1>3 DEF AsBefore, Fine
<1>6. Fine(s, tex[t]) /\ (BrokenOnce(act[t]) => BrokenOnce(s))
  BY <1>2, <1>3, <1>4, <1>5, FinePop
<1>7. s = <<>> \/ Outer(s[1])
  BY <1>2, <1>3, PopNested DEF Breaking
<1>8. Steady(t, act[t], s)
  <2> HIDE DEF s
  <2>1. ~HasLock(s)
    BY <1>7 DEF HasLock, Outer
  <2> QED BY <1>4, <2>1 DEF Steady
<1> HIDE DEF s
<1>9. call_brkhdr(t, t, s)
  BY <1>1 DEF s
<1> QED BY <1>1, <1>2, <1>6, <1>7, <1>8, <1>9, BreakCalled

LEMMA RaiseBreaks ==
  ASSUME TexInv, NEW t \in Task, _tk_ras_tex_Break(t)
  PROVE  TexInv'
<1> DEFINE s == Moved(act[t], "UNLOCK")
<1>1. TexSame /\ UNCHANGED <<live, locks>> /\ call_brkhdr(t, Top(t).tsk, s)
  BY DEF _tk_ras_tex_Break, TexSame, Moved
<1>2. /\ act[t] # <<>> /\ act[t][1].fn = "RAISE" /\ act[t][1].at = "BREAK" /\ Top(t) = act[t][1]
      /\ Fine(act[t], tex[t]) /\ IsFrame(act[t][1])
  BY TopIs DEF _tk_ras_tex_Break, In
<1>3. act[t][1].tsk \in Task
  BY <1>2 DEF IsFrame, RaiseFrame
<1>4. Moves(act[t][1], "UNLOCK")
  BY <1>2 DEF Moves
<1>5. /\ Fine(s, tex[t]) /\ (BrokenOnce(act[t]) => BrokenOnce(s))
      /\ s # <<>> /\ s[1].fn = "RAISE" /\ s[1].at = "UNLOCK" /\ s[1].tsk = act[t][1].tsk
  BY <1>2, <1>4, FineMoves
<1> HIDE DEF s
<1>6. Steady(t, act[t], s)
  BY <1>2, <1>5 DEF Steady, TakesLock, HasLock, Needs
<1> QED BY <1>1, <1>2, <1>3, <1>5, <1>6, BreakCalled

-----------------------------------------------------------------------------
LEMMA TexInitInv == TexInit => TexInv
<1> SUFFICES ASSUME TexInit PROVE TexInv
  OBVIOUS
<1>0. <<>> # NOSVC /\ <<>> \in Seq(Task) /\ <<>> \in Seq(Ssid) /\ ToSet(<<>>) = {} /\ IsInjective(<<>>)
  <2>1. <<>> \in Seq(Task) /\ <<>> \in Seq(Ssid)
    OBVIOUS
  <2>2. <<>> # NOSVC
    BY <2>1, TexAssumption
  <2>3. ToSet(<<>>) = {}
    BY DEF ToSet
  <2>4. IsInjective(<<>>)
    BY DEF IsInjective
  <2> QED BY <2>1, <2>2, <2>3, <2>4
<1>1. Fine(<<>>, Dormant) /\ BrokenOnce(<<>>) /\ ~TakesLock(<<>>) /\ ~HasLock(<<>>) /\ Dormant \in Excs
  <2>1. /\ Dormant \in Excs /\ Dormant.execssid = 0 /\ Dormant.texflg = {} /\ Dormant.exectex = {} /\ Dormant.pendtex = {}
    BY DEF Dormant, Excs
  <2>2. Served(<<>>, Dormant)
    <3>1. Kept(<<>>, Dormant) = {}
      BY <2>1 DEF Kept, Svcs
    <3> QED BY <2>1, <3>1 DEF Served
  <2> QED BY <2>1, <2>2, FineUser
<1>2. \A t \in Task : act[t] = <<>> /\ tex[t] = Dormant /\ locks.held[t] = <<>> /\ locks.wtskq[t] = NOSVC
  BY DEF TexInit
<1>3. TexTypeOK
  <2>1. ssycb \in [Ssid -> {NOSVC} \cup 1..NUM_SSYPRI] /\ ssypri_table \in [1..NUM_SSYPRI -> Seq(Ssid)] /\ live \subseteq Task
    BY <1>0 DEF TexInit
  <2>2. locks \in [held : [Task -> Seq(Task)], wtskq : [Task -> {NOSVC} \cup Seq(Task)]]
    BY <1>0 DEF TexInit
  <2>3. tex \in [Task -> Excs] /\ act = [t \in Task |-> act[t]]
    BY <1>1 DEF TexInit
  <2> QED BY <1>1, <1>2, <2>1, <2>2, <2>3 DEF TexTypeOK, Fine
<1>4. TasksSound
  BY <1>1, <1>2 DEF TasksSound, Fine
<1>5. LocksSound
  <2>1. \A x \in Task : <<x>> # <<>>
    OBVIOUS
  <2> QED BY <1>1, <1>2, <2>1 DEF LocksSound, HeldRight
<1>6. BreaksSound
  BY <1>2 DEF BreaksSound
<1>7. SubsystemsListed
  <2>1. \A p \in 1..NUM_SSYPRI : ssypri_table[p] = <<>> /\ p # NOSVC
    BY TexAssumption DEF TexInit
  <2>2. \A s \in Ssid : ssycb[s] = NOSVC
    BY DEF TexInit
  <2>3. ASSUME NEW p \in 1..NUM_SSYPRI
        PROVE  ToSet(ssypri_table[p]) = {s \in Ssid : ssycb[s] = p} /\ IsInjective(ssypri_table[p])
    <3>1. {s \in Ssid : ssycb[s] = p} = {}
      BY <2>1, <2>2
    <3> QED BY <1>0, <2>1, <3>1
  <2> QED BY <2>3 DEF SubsystemsListed
<1> QED BY <1>3, <1>4, <1>5, <1>6, <1>7 DEF TexInv

LEMMA TexNextInv == ASSUME TexInv, ~Holders, [TexNext]_texvars PROVE TexInv'
<1>1. CASE UNCHANGED texvars
  <2>1. UNCHANGED <<ssycb, ssypri_table, live, locks, tex, act>>
    BY <1>1 DEF texvars
  <2>2. TexTypeOK' /\ TasksSound' /\ LocksSound' /\ BreaksSound' /\ SubsystemsListed'
    BY <2>1 DEF TexInv, TexTypeOK, TasksSound, LocksSound, BreaksSound, SubsystemsListed
  <2> QED BY <2>2 DEF TexInv
<1>2. CASE \E s \in Ssid : _tk_def_ssy(s)
  BY <1>2, SubsystemDefined
<1>3. ASSUME NEW t \in Task,
             \/ svc_ientry_Lock(t) \/ svc_ientry_Enter(t) \/ svc_ientry_Return(t)
             \/ svc_ientry_Leave(t) \/ BreakSelf(t) \/ call_brkhdr_Done(t)
             \/ Suspended(t) \/ FunctionReturns(t)
             \/ _tk_ras_tex_Lock(t) \/ _tk_ras_tex_Raise(t) \/ _tk_ras_tex_Break(t)
             \/ _tk_ras_tex_Unlock(t) \/ setup_texhdr(t)
      PROVE  TexInv'
  BY <1>3, SvcLocks, SvcEnters, SvcReturns, SvcLeaves, OwnBreak, BreakDone, WaiterSuspended, FunctionsReturn,
     RaiseLocks, ExceptionRaised, RaiseBreaks, RaiseUnlocks, HandlerStarts
<1>4. ASSUME NEW t \in Task,
             \/ _tk_sta_ssy(t) \/ _tk_cln_ssy(t)
             \/ \E s \in Ssid : svc_ientry(t, s)
             \/ \E evttyp \in 0..1 : _tk_evt_ssy(t, evttyp)
             \/ \E enatex \in BOOLEAN : _tk_end_tex(t, enatex)
      PROVE  TexInv'
  <2>1. ASSUME _tk_sta_ssy(t) PROVE TexInv'
    BY <2>1, FunctionsBegin DEF _tk_sta_ssy
  <2>2. ASSUME _tk_cln_ssy(t) PROVE TexInv'
    BY <2>2, FunctionsBegin DEF _tk_cln_ssy
  <2>3. ASSUME NEW evttyp \in 0..1, _tk_evt_ssy(t, evttyp) PROVE TexInv'
    BY <2>3, FunctionsBegin DEF _tk_evt_ssy
  <2> QED BY <1>4, <2>1, <2>2, <2>3, SvcBegins, HandlerEnds
<1>5. ASSUME NEW t \in Task, NEW x \in Task,
             \/ \E texhdr \in BOOLEAN : _tk_def_tex(t, x, texhdr)
             \/ _tk_dis_tex(t, x, Texcd) \/ _tk_ena_tex(t, x, Texcd)
             \/ \E texcd \in Texcd : _tk_ras_tex(t, x, texcd)
             \/ _ter_tsk(t, x) \/ _tk_sta_tsk(t, x)
      PROVE  TexInv'
  BY <1>5, HandlerDefined, MasksSet, RaiseBegins, TaskTerminated, TaskStarted
<1> QED BY <1>1, <1>2, <1>3, <1>4, <1>5 DEF TexNext

LEMMA TexInvSafe == TexInv => ExceptionsConsistent
<1> SUFFICES ASSUME TexInv PROVE ExceptionsConsistent
  OBVIOUS
<1>0. /\ LocksTypeOK /\ LocksSound /\ BreaksSound
      /\ \A y \in Task : /\ IsStack(act[y]) /\ Traced(act[y], tex[y]) /\ Flagged(act[y], tex[y]) /\ Served(act[y], tex[y])
                         /\ act[y] # <<>> => y \in live
  BY TexKnown DEF Fine
<1>1. ASSUME NEW x \in Task, NEW i, i = Current(x)
      PROVE  \/ i = 0 /\ Svcs(act[x]) = {} /\ tex[x].execssid = 0
             \/ /\ i \in Svcs(act[x]) /\ (\A j \in Svcs(act[x]) : i <= j) /\ i # 0
                /\ tex[x].execssid = act[x][i].ssid /\ (tex[x].ran <=> act[x][i].brks = 1)
  <2> DEFINE s == act[x]
             e == tex[x]
  <2>1. IsStack(s) /\ Tells(s, 0, e.execssid, e.ran) /\ i = SelectInSeq(s, Entered)
    BY <1>0, <1>1 DEF Traced, Current
  <2> HIDE DEF s, e
  <2>2. \/ i = 0 /\ Svcs(s) = {} /\ e.execssid = 0
        \/ /\ i \in Svcs(s) /\ \A j \in Svcs(s) : i <= j
           /\ e.execssid = s[i].ssid /\ (e.ran <=> s[i].brks = 1)
    BY <2>1, CurrentIs
  <2>3. 0 \notin Svcs(s)
    BY <2>1, SvcsAre
  <2> QED BY <2>2, <2>3 DEF s, e
<1>2. BreakOnce
  <2>1. ASSUME NEW x \in Task, NEW j \in DOMAIN act[x], act[x][j].fn = "SVC" PROVE act[x][j].brks \in 0..1
    <3>1. IsFrame(act[x][j])
      BY <1>0, <2>1, StackIs DEF IsStack
    <3> QED BY <2>1, <3>1 DEF IsFrame, SvcFrame
  <2>2. ASSUME NEW x \in Task
        PROVE  LET i == Current(x)
               IN  IF i = 0 THEN tex[x].execssid = 0
                   ELSE tex[x].execssid = act[x][i].ssid /\ (tex[x].ran <=> act[x][i].brks = 1)
    BY <1>1
  <2> QED BY <2>1, <2>2 DEF BreakOnce
<1>3. BreakInside
  <2>1. SUFFICES ASSUME NEW t \in Task, In(t, "BREAK", "BODY"), NEW x, x = Top(t).tsk, t # x
                 PROVE  /\ ~In(x, "SVC", "ENTER") /\ ~In(x, "SVC", "OUT")
                        /\ Current(x) # 0 => act[x][Current(x)].brks = 1
    BY DEF BreakInside
  <2>2. act[t] # <<>> /\ act[t][1].fn = "BREAK" /\ act[t][1].tsk = x /\ IsFrame(act[t][1])
    BY <2>1, TopIs DEF In
  <2>3. x \in Task
    BY <2>2 DEF IsFrame, BreakFrame
  <2>4. HasLock(act[t]) /\ BrokenOnce(act[x])
    BY <1>0, <2>1, <2>2 DEF BreaksSound
  <2>5. locks.held[t] = <<x>>
    <3>1. ~TakesLock(act[t])
      BY <1>0, <2>4, OneOrOther DEF NotBoth
    <3>2. locks.held[t] = <<Needs(t, act[t])>>
      BY <1>0, <2>4, <3>1 DEF LocksSound, HeldRight
    <3> QED BY <2>2, <3>2 DEF Needs
  <2>6. ASSUME In(x, "SVC", "ENTER") \/ In(x, "SVC", "OUT") PROVE FALSE
    <3>1. act[x] # <<>> /\ act[x][1].fn = "SVC" /\ act[x][1].at \in {"ENTER", "OUT"}
      BY <2>3, <2>6, TopIs DEF In
    <3>2. HasLock(act[x]) /\ Needs(x, act[x]) = x
      BY <3>1 DEF HasLock, Needs
    <3>3. ~TakesLock(act[x])
      BY <1>0, <2>3, <3>2, OneOrOther DEF NotBoth
    <3>4. locks.held[x] = <<x>>
      BY <1>0, <2>3, <3>2, <3>3 DEF LocksSound, HeldRight
    <3>5. \A u, v \in Task : locks.held[u] = locks.held[v] /\ locks.held[u] # <<>> => u = v
      BY <1>0 DEF LocksSound
    <3>6. locks.held[t] = locks.held[x] /\ <<x>> # <<>>
      BY <2>5, <3>4
    <3>7. t = x
      BY <2>3, <2>5, <3>5, <3>6
    <3> QED BY <2>1, <3>7
  <2>7. Current(x) # 0 => act[x][Current(x)].brks = 1
    <3> DEFINE i == Current(x)
    <3>1. i # 0 => i \in Svcs(act[x]) /\ \A j \in Svcs(act[x]) : i <= j
      BY <1>1, <2>3
    <3> HIDE DEF i
    <3>2. i # 0 => act[x][i].brks = 1
      BY <2>4, <3>1 DEF BrokenOnce
    <3> QED BY <3>2 DEF i
  <2> QED BY <2>6, <2>7
<1>4. LocksOwned
  <2>1. ASSUME NEW t \in Task, locks.held[t] # <<>> PROVE act[t] # <<>> /\ locks.held[t] = <<Needs(t, act[t])>>
    BY <1>0, <2>1 DEF LocksSound, HeldRight, HasLock, TakesLock
  <2>2. LocksReleased
    BY <1>0, <2>1 DEF LocksReleased
  <2>3. ASSUME NEW x \in Task
        PROVE  Cardinality({t \in Task : x \in ToSet(locks.held[t])}) = (IF locks.wtskq[x] = NOSVC THEN 0 ELSE 1)
    <3>1. ASSUME NEW t \in Task PROVE x \in ToSet(locks.held[t]) <=> locks.held[t] = <<x>>
      <4>1. ToSet(<<>>) = {} /\ \A y : ToSet(<<y>>) = {y}
        BY DEF ToSet
      <4>2. CASE locks.held[t] = <<>>
        BY <4>1, <4>2
      <4>3. CASE locks.held[t] # <<>>
        <5>1. PICK y : locks.held[t] = <<y>>
          BY <2>1, <4>3
        <5>2. <<y>> = <<x>> <=> y = x
          OBVIOUS
        <5> QED BY <4>1, <5>1, <5>2
      <4> QED BY <4>2, <4>3
    <3> DEFINE S == {t \in Task : x \in ToSet(locks.held[t])}
    <3>2. \A t \in Task : t \in S <=> locks.held[t] = <<x>>
      BY <3>1
    <3>3. S \subseteq Task
      OBVIOUS
    <3> HIDE DEF S
    <3>4. CASE locks.wtskq[x] = NOSVC
      <4>1. S = {}
        BY <1>0, <3>2, <3>3, <3>4 DEF LocksSound
      <4> QED BY <3>4, <4>1, FS_EmptySet DEF S
    <3>5. CASE locks.wtskq[x] # NOSVC
      <4>1. PICK t \in Task : locks.held[t] = <<x>>
        BY <1>0, <3>5 DEF LocksSound
      <4>2. <<x>> # <<>>
        OBVIOUS
      <4>3. \A u \in Task : locks.held[u] = <<x>> => u = t
        BY <1>0, <4>1, <4>2 DEF LocksSound
      <4>4. S = {t}
        BY <3>2, <3>3, <4>1, <4>3
      <4>5. Cardinality({t}) = 1
        BY FS_Singleton
      <4> QED BY <3>5, <4>4, <4>5 DEF S
    <3> QED BY <3>4, <3>5
  <2>4. ASSUME NEW x \in Task, Waits(x) PROVE x \in live /\ Top(x).at \in {"LOCK", "LEAVE"}
    <3>1. PICK y \in Task : locks.wtskq[y] # NOSVC /\ x \in ToSet(locks.wtskq[y])
      BY <2>4 DEF Waits
    <3>2. TakesLock(act[x])
      BY <1>0, <3>1, Waiting
    <3> QED BY <1>0, <3>2, TopIs DEF TakesLock
  <2> QED BY <2>2, <2>3, <2>4 DEF LocksOwned
<1>5. ExceptionsServed
  <2> SUFFICES ASSUME NEW t \in Task
               PROVE  LET e == tex[t] IN
                      /\ e.exectex # {} => e.texhdr /\ e.reqdct
                      /\ e.pendtex # {} => e.exectex \cup Saved(t) # {} \/ e.texflg \cap {"TEX0", "TEX1"} # {}
                      /\ "SSFN" \in e.texflg <=> \E i \in DOMAIN act[t] :
                           \/ act[t][i].fn = "BREAK"
                           \/ act[t][i].fn = "SSFN" /\ act[t][i].at = "BODY"
    BY DEF ExceptionsServed
  <2> DEFINE e == tex[t]
             s == act[t]
  <2>1. DOMAIN s = 1..Len(s) /\ Len(s) \in Nat
    BY <1>0, StackIs
  <2>2. Kept(s, e) = e.exectex \cup Saved(t)
    <3>1. Saved(t) = UNION {s[k].save.exectex : k \in Svcs(s)}
      BY <2>1 DEF Saved, Svcs
    <3> QED BY <3>1 DEF Kept
  <2>3. Served(s, e) /\ FlagTells(s, 0, e.texflg)
    BY <1>0 DEF Flagged
  <2> HIDE DEF s
  <2>4. e.exectex # {} => e.texhdr /\ e.reqdct
    BY <2>2, <2>3 DEF Served
  <2>5. e.pendtex # {} => e.exectex \cup Saved(t) # {} \/ e.texflg \cap {"TEX0", "TEX1"} # {}
    BY <2>2, <2>3 DEF Served
  <2>6. "SSFN" \in e.texflg <=> \E i \in DOMAIN s :
          \/ s[i].fn = "BREAK"
          \/ s[i].fn = "SSFN" /\ s[i].at = "BODY"
    <3>1. "SSFN" \in e.texflg <=> \E i \in 1..Len(s) : i > 0 /\ Flagging(s[i])
      BY <2>3 DEF FlagTells
    <3>2. \A i \in 1..Len(s) : i > 0
      BY <2>1
    <3> QED BY <2>1, <3>1, <3>2 DEF Flagging
  <2> QED BY <2>4, <2>5, <2>6 DEF s
<1> QED BY <1>2, <1>3, <1>4, <1>5 DEF ExceptionsConsistent, TexInv

-----------------------------------------------------------------------------
(* The invariant of the composed system: that of the component it uses.    *)
SysInv ==
  /\ used = "LOCK" => LockInv
  /\ used = "SPIN" => SpinInv
  /\ used = "INT"  => IntInv
  /\ used = "TEX" /\ ~Holders => TexInv
  /\ used = "DEV"  => DevInv

LEMMA SysInvariance == SysSpec => []SysInv
<1>1. SysInit => SysInv
  BY LockInitInv, SpinInitInv, IntInitInv, TexInitInv, DevInitInv DEF SysInit, SysInv
<1>2. SysInv /\ [SysNext]_sysvars => SysInv'
  <2> SUFFICES ASSUME SysInv, [SysNext]_sysvars PROVE SysInv'
    OBVIOUS
  <2>1. used' = used
    BY DEF SysNext, sysvars
  <2>2. CASE used = "LOCK"
    <3>1. [LockNext]_lockvars
      BY <2>2 DEF SysNext, sysvars
    <3>2. LockInv'
      BY <2>2, <3>1, LockTypeStep, FastLockStep, WaiStep, MultiLockStep DEF SysInv, LockInv
    <3> QED BY <2>1, <2>2, <3>2 DEF SysInv
  <2>3. CASE used = "SPIN"
    <3>1. [SpinNext]_spinvars
      BY <2>3 DEF SysNext, sysvars
    <3>2. SpinInv'
      BY <2>3, <3>1, SpinTypeStep, SeenStep, ExclusiveStep DEF SysInv, SpinInv
    <3> QED BY <2>1, <2>3, <3>2 DEF SysInv
  <2>4. CASE used = "INT"
    <3>1. [IntNext]_intvars
      BY <2>4 DEF SysNext, sysvars
    <3>2. IntInv'
      BY <2>4, <3>1, IntNextInv DEF SysInv
    <3> QED BY <2>1, <2>4, <3>2 DEF SysInv
  <2>5. CASE used = "TEX" /\ ~Holders
    <3>1. [TexNext]_texvars
      BY <2>5 DEF SysNext, sysvars
    <3>2. TexInv'
      BY <2>5, <3>1, TexNextInv DEF SysInv
    <3> QED BY <2>1, <2>5, <3>2 DEF SysInv
  <2>6. CASE used = "TEX" /\ Holders
    BY <2>1, <2>6 DEF SysInv
  <2>7. CASE used = "DEV"
    <3>1. [DevNext]_devvars
      BY <2>7 DEF SysNext, sysvars
    <3>2. DevInv'
      BY <2>7, <3>1, DevNextInv DEF SysInv
    <3> QED BY <2>1, <2>7, <3>2 DEF SysInv
  <2>8. CASE used \notin {"LOCK", "SPIN", "INT", "TEX", "DEV"}
    BY <2>1, <2>8 DEF SysInv
  <2> QED BY <2>2, <2>3, <2>4, <2>5, <2>6, <2>7, <2>8
<1> QED BY <1>1, <1>2, PTL DEF SysSpec

(* In the composed system the locks hand on and exclude, whatever number   *)
(* of tasks and processors use them (fastlock.c, fastmlock.c, ispinlock.c, *)
(* ireadwritelock.c).                                                      *)
THEOREM LocksOfTheSystem == SysSpec => []LocksCorrect
<1>1. SysInv => LocksCorrect
  BY DEF SysInv, LocksCorrect, LockInv, SpinInv, UserLocksHandedOn
<1> QED BY SysInvariance, <1>1, PTL

(* However many processors define, clear and take interrupts at once: an   *)
(* interrupt is handled by a handler that its vector had since it came, and*)
(* goes to the processor of the last tk_def_int about it (cpu_calls.c,     *)
(* int.c).                                                                 *)
THEOREM InterruptsOfTheSystem == SysSpec => []InterruptsCorrect
<1>1. SysInv => InterruptsCorrect
  BY IntInvSafe DEF SysInv, InterruptsCorrect
<1> QED BY SysInvariance, <1>1, PTL

(* However many tasks raise, end, terminate and restart each other, and    *)
(* however deep their extended SVCs nest: exceptions are served as the     *)
(* handlers were defined, an extended SVC gives back what it found, a break*)
(* function runs once and on a task that stays, and the lock of a task is  *)
(* with one task (subsystem.c, klock.c, cpu_init.c).  Without the calls of *)
(* tk_ter_tsk on a task that holds the lock of an SVC: for those the lock  *)
(* is lost, as the run SvcLockLost shows.                                 *)
THEOREM ExceptionsOfTheSystem == ASSUME ~Holders PROVE SysSpec => []ExceptionsCorrect
<1>1. SysInv => ExceptionsCorrect
  BY TexInvSafe DEF SysInv, ExceptionsCorrect
<1> QED BY SysInvariance, <1>1, PTL

(* However many tasks open, use and close devices, and whenever a close is *)
(* released from its wait or preempted before it looks at the number of    *)
(* calls it aborts: nobody has a device open against the mode of another   *)
(* and the driver has a unit open exactly when and as often as it has to   *)
(* (units refused by the driver at a first open excepted).  Until a task   *)
(* waits for any of its requests beside calls of others, where the one     *)
(* call a control block records is overwritten: a request is executed by   *)
(* one call, and a close waits until the driver has left every request it  *)
(* aborts and is woken then (device.c, deviceio.c).                        *)
THEOREM DevicesOfTheSystem == SysSpec => []DevicesCorrect
<1>1. SysInv => DevicesCorrect
  BY DevInvSafe DEF SysInv, DevicesCorrect
<1> QED BY SysInvariance, <1>1, PTL
=============================================================================
