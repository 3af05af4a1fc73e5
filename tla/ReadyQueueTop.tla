--------------------------- MODULE ReadyQueueTop ---------------------------
(***************************************************************************)
(* ready_queue_top (ready_queue.c): from the tasks in ready order to one   *)
(* task per core.  First it selects the tasks, keeping in hist[] a summary *)
(* of the sets of tasks selected so far; then it places them one by one,   *)
(* by single_core_assign or multi_core_assign, and never takes a placement *)
(* back.  A step is one task looked at or one task placed.                 *)
(***************************************************************************)
EXTENDS Integers, Sequences, FiniteSetsExt, Functions

CONSTANTS
  NProc,   \* num_proc
  NTask,   \* the number of tasks in the ready queue; a task is its place in it
  Affs,    \* the values of tcb->assprc in use
  NoTask   \* NULL

Core == 1..NProc
Task == 1..NTask

ASSUME SizeAssumption == NProc \in Nat \ {0} /\ NTask \in Nat
ASSUME AffsAssumption == Affs \subseteq (SUBSET Core) \ {{}}
ASSUME NullAssumption == NoTask \notin Task

VARIABLES
  aff,    \* tcb->assprc; ALL_CORE_BIT without TA_ASSPRC
  ctx,    \* ctxtsk[]
  dds,    \* cores with dispatch_disabled[] >= DDS_DISABLE
  stage,  \* "select", then "single" or "multi", then "done"
  pos,    \* the next task of the ready queue to look at
  top,    \* top_tcb[], the selected tasks
  bits,   \* top_bit[] of each of them
  hist,   \* hist[], the cores and the number of each set of selected tasks
  sch     \* sch[], the task placed on each core

inputs == <<aff, ctx, dds>>
vars == <<inputs, stage, pos, top, bits, hist, sch>>

(* The selection looks at t: the cores left for it. *)
Bits(t) ==
  LET own == {p \in dds : ctx[p] = t} IN IF own # {} THEN own ELSE aff[t] \ dds

Placed == Range(sch) \ {NoTask}
FreeCore == {p \in Core : sch[p] = NoTask}

(* A core in tk_dis_dsp runs a task of the ready queue, and a task runs on *)
(* one core that its assprc allows.                                        *)
Init ==
  /\ aff \in [Task -> Affs]
  /\ ctx \in [Core -> Task \cup {NoTask}]
  /\ \A p, q \in Core : ctx[p] = ctx[q] /\ p # q => ctx[p] = NoTask
  /\ \A p \in Core : ctx[p] # NoTask => p \in aff[ctx[p]]
  /\ dds \in SUBSET {p \in Core : ctx[p] # NoTask}
  /\ stage = "select"
  /\ pos = 1
  /\ top = <<>>
  /\ bits = <<>>
  /\ hist = {}
  /\ sch = [p \in Core |-> NoTask]

-----------------------------------------------------------------------------
(* Selection *)

Selecting == stage = "select" /\ pos <= NTask /\ Len(top) < NProc

(* All cores of the task are dispatch-disabled. *)
SkipMasked ==
  /\ Selecting
  /\ Bits(pos) = {}
  /\ pos' = pos + 1
  /\ UNCHANGED <<inputs, stage, top, bits, hist, sch>>

Full_Strict(b) == \E h \in hist : Cardinality(h.cores \cup b) <= h.num + 1

(* Some selected tasks and one with the cores b would be too many for the  *)
(* cores they have together.                                               *)
Full(b) == \E h \in hist : Cardinality(h.cores \cup b) < h.num + 1

SkipFull ==
  /\ Selecting
  /\ Bits(pos) \notin {{}, Core}
  /\ Full(Bits(pos))
  /\ pos' = pos + 1
  /\ UNCHANGED <<inputs, stage, top, bits, hist, sch>>

NewHist_PairsLost(b) == hist \cup {[cores |-> b, num |-> 1]}

(* hist[] when a task with the cores b is selected. *)
NewHist(b) ==
  IF b = Core THEN hist
  ELSE hist \cup {[cores |-> h.cores \cup b, num |-> h.num + 1] : h \in hist}
            \cup {[cores |-> b, num |-> 1]}

Accept ==
  /\ Selecting
  /\ LET b == Bits(pos)
     IN /\ b # {}
        /\ b = Core \/ ~Full(b)
        /\ top' = Append(top, pos)
        /\ bits' = Append(bits, b)
        /\ hist' = NewHist(b)
  /\ pos' = pos + 1
  /\ UNCHANGED <<inputs, stage, sch>>

(* The selection ends; multi_core_assign is for tasks that may run on some *)
(* cores, but not on one only and not on all of them.                      *)
Choose ==
  /\ stage = "select"
  /\ pos > NTask \/ Len(top) = NProc
  /\ stage' = IF \E j \in DOMAIN top : Cardinality(aff[top[j]]) \in 2..(NProc - 1)
              THEN "multi" ELSE "single"
  /\ UNCHANGED <<inputs, pos, top, bits, hist, sch>>

-----------------------------------------------------------------------------
(* Placement.  A move puts task top[idx] on a core; the nested loops try   *)
(* the moves in the order of rank, a tuple of loop counters.               *)

Rank(digits) == FoldFunctionOnSet(+, 0, [d \in 1..5 |-> digits[d] * (2 * NProc)^(5 - d)], 1..5)

SingleMoves_RestFirst ==
  {[idx |-> j, core |-> p, rank |-> Rank(<<1, 0, 0, j - 1, p - 1>>)] :
     <<j, p>> \in {i \in DOMAIN top : top[i] \notin Placed} \X FreeCore}

(* single_core_assign: tasks with a core of their own, tasks that stay     *)
(* where they run, the rest.                                               *)
SingleMoves ==
  LET Left == {j \in DOMAIN top : top[j] \notin Placed}
      Move(pass, j, p) == [idx |-> j, core |-> p, rank |-> Rank(<<pass, 0, 0, j - 1, p - 1>>)]
  IN UNION {
       {Move(0, j, p) : <<j, p>> \in {m \in Left \X FreeCore :
                                        aff[top[m[1]]] # Core /\ m[2] \in aff[top[m[1]]]}},
       {Move(1, j, p) : <<j, p>> \in {m \in Left \X FreeCore : ctx[m[2]] = top[m[1]]}},
       {Move(2, j, p) : <<j, p>> \in Left \X (FreeCore \ dds)}}

MultiMoves_AnyCount ==
  {[idx |-> j, core |-> p, rank |-> Rank(<<0, 0, 0, j - 1, p - 1>>)] :
     <<j, p>> \in {m \in (DOMAIN top) \X Core : m[2] \in bits[m[1]]}}

(* multi_core_assign: a core few tasks can use (a column) or a task with   *)
(* few cores left (a row) first, the tasks that stay where they run before *)
(* the others.                                                             *)
MultiMoves ==
  LET Column(p) == Cardinality({j \in DOMAIN top : p \in bits[j]})
      Row(j) == Cardinality(bits[j])
      Pass(j, p) == IF ctx[p] = top[j] THEN {0, 1} ELSE {1}
      Move(j, p, r) == [idx |-> j, core |-> p, rank |-> Rank(r)]
  IN UNION {
       UNION {{Move(j, p, <<Column(p), pass, p - 1, 0, j - 1>>),
               Move(j, p, <<Row(j), pass, j - 1, 1, p - 1>>)} : pass \in Pass(j, p)} :
       <<j, p>> \in {m \in (DOMAIN top) \X Core : m[2] \in bits[m[1]]}}

Moves == IF stage = "single" THEN SingleMoves ELSE MultiMoves

Place ==
  /\ stage \in {"single", "multi"}
  /\ \E m \in Moves :
       /\ \A n \in Moves : m.rank <= n.rank
       /\ sch' = [sch EXCEPT ![m.core] = top[m.idx]]
       /\ bits' = [j \in DOMAIN bits |-> IF j = m.idx THEN {} ELSE bits[j] \ {m.core}]
  /\ UNCHANGED <<inputs, stage, pos, top, hist>>

(* No move is left: the schedule is copied out. *)
Finish ==
  /\ stage \in {"single", "multi"}
  /\ Moves = {}
  /\ stage' = "done"
  /\ UNCHANGED <<inputs, pos, top, bits, hist, sch>>

(* The caller has its schedule. *)
Return == stage = "done" /\ UNCHANGED vars

Next == SkipMasked \/ SkipFull \/ Accept \/ Choose \/ Place \/ Finish \/ Return

Spec == Init /\ [][Next]_vars
-----------------------------------------------------------------------------
(* Properties *)

Contract == INSTANCE Schedule WITH
  order <- [i \in Task |-> i],
  cores <- [t \in Task |-> Bits(t)],
  answer <- IF stage = "done" THEN sch ELSE <<>>

(* Each variable holds what its C counterpart can. *)
TypeOK ==
  /\ stage \in {"select", "single", "multi", "done"}
  /\ pos \in 1..(NTask + 1)
  /\ Len(top) = Len(bits) /\ Len(top) <= NProc
  /\ \A j \in DOMAIN top : top[j] \in Task /\ bits[j] \subseteq Core
  /\ hist \subseteq [cores : SUBSET Core, num : 1..NProc]
  /\ sch \in [Core -> Task \cup {NoTask}]

(* ready_queue_top answers with a schedule: the tasks the contract selects,*)
(* each once and on a core it may use, whatever assprc, ctxtsk and         *)
(* dispatch_disabled are.                                                  *)
ImplementsContract == Contract!Spec

(* The test on hist[] is exact: the tasks taken so far are those of the    *)
(* greedy selection over matchings, so the check of a bounded number of    *)
(* sums neither drops a task that would fit nor takes one too many.        *)
SelectionExact ==
  Range(top) = Contract!Selected([i \in 1..(pos - 1) |-> i], [t \in Task |-> Bits(t)])

(* No placement closes the way for a later one: after each, the tasks that *)
(* are left can still be matched with the free cores they may use.         *)
NoDeadEnd ==
  stage \in {"single", "multi"} =>
    Contract!Matchable({top[j] : j \in DOMAIN top} \ Placed,
                       [t \in Task |-> Bits(t) \cap FreeCore])

(* Taking and placing tasks one by one, without going back, is exact.      *)
GreedyExact == SelectionExact /\ NoDeadEnd

(* Nobody is moved between cores for nothing: if the tasks to run are those*)
(* that are running, every core keeps its task.                            *)
NoNeedlessMigration ==
  stage = "done" /\ Range(top) = Range(ctx) \ {NoTask} => sch = ctx
=============================================================================
