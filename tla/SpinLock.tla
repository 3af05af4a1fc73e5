------------------------------ MODULE SpinLock ------------------------------
(***************************************************************************)
(* The spin locks and the read/write spin locks of libsplock, and their    *)
(* variants that disable interrupts.  Exclusive loads and stores are steps *)
(* of their own: other processors, and handlers on the same one, come in   *)
(* between.                                                                *)
(***************************************************************************)
EXTENDS Integers, FiniteSets

CONSTANTS
  Cpu,          \* the processors
  Interrupted,  \* those that take interrupts
  Depth,        \* a task and how many handlers, each over the one before
  NoLock        \* a monitor that is clear

ASSUME SpinAssumption ==
  /\ IsFiniteSet(Cpu) /\ Interrupted \subseteq Cpu
  /\ Depth \in Nat \ {0}
  /\ NoLock \notin [lock : {"SP", "RW"}, level : 1..Depth]

VARIABLES
  value,     \* of the lock "SP" and the read/write lock "RW"
  monitor,   \* what each processor's last exclusive load has tagged: NoLock,
             \* or the lock and, for the properties, the level of the load
  level,     \* of each processor: 1 in a task, more in a handler over it
  running,   \* what the code does on each level
  crossed    \* for the properties: a handler has stored by the load of one
             \* that was over it

spinvars == <<value, monitor, level, running, crossed>>

Levels == 1..Depth

(* at: where it is with op; try: it does not spin; seen: what it has       *)
(* loaded; di: it has disabled interrupts.                                 *)
Started == [at |-> "IDLE", op |-> "SPIN", try |-> FALSE, seen |-> 0, di |-> FALSE]

SpinInit ==
  /\ value = [lock \in {"SP", "RW"} |-> 0]
  /\ monitor = [p \in Cpu |-> NoLock]
  /\ level = [p \in Cpu |-> 1]
  /\ running = [p \in Cpu |-> [l \in Levels |-> Started]]
  /\ crossed = FALSE

Innermost(p) == running[p][level[p]]
LockOf(op) == IF op = "SPIN" THEN "SP" ELSE "RW"
Now(p, r) == running' = [running EXCEPT ![p][level[p]] = r] /\ UNCHANGED level

Tagged(p, lock) == monitor[p] # NoLock /\ monitor[p].lock = lock

(* An exclusive load.                                                      *)
Loads(p, lock) ==
  /\ monitor' = [monitor EXCEPT ![p] = [lock |-> lock, level |-> level[p]]]
  /\ UNCHANGED crossed

(* A store is seen by the monitors of the other processors; an exclusive   *)
(* one clears its own too.                                                 *)
Cleared(lock, own) ==
  [c \in Cpu |-> IF c \in own \/ Tagged(c, lock) THEN NoLock ELSE monitor[c]]
Stores(p, lock, v) ==
  /\ value' = [value EXCEPT ![lock] = v]
  /\ monitor' = Cleared(lock, {p})
  /\ crossed' = (crossed \/ (level[p] > 1 /\ monitor[p].level # level[p]))
NoStore == UNCHANGED <<value, monitor, crossed>>

-----------------------------------------------------------------------------
(* What each operation stores for what it has loaded; it is busy if it     *)
(* stores nothing.                                                         *)
Busy(op, v) ==
  CASE op = "SPIN"  -> v = 1
    [] op = "READ"  -> v - 1 >= 0
    [] op = "WRITE" -> v # 0

New(op, v) == IF op = "READ" THEN v - 1 ELSE 1

(* A handler only tries: who holds the lock may be what it interrupted.    *)
Acquire(p, op, try, di) ==
  LET r == Innermost(p) IN
  /\ r.at = "IDLE"
  /\ level[p] > 1 => try
  /\ Now(p, [r EXCEPT !.at = "LDREX", !.op = op, !.try = try, !.di = di])
  /\ NoStore

ISpinLock(p, try, di) == Acquire(p, "SPIN", try, di)
IReadLock(p, try, di) == Acquire(p, "READ", try, di)
IWriteLock(p, try, di) == Acquire(p, "WRITE", try, di)

Ldrex(p) ==
  LET r == Innermost(p)
      v == value[LockOf(r.op)]
  IN
  /\ r.at = "LDREX"
  /\ Loads(p, LockOf(r.op))
  /\ IF ~Busy(r.op, v) THEN Now(p, [r EXCEPT !.at = "STREX", !.seen = v])
     ELSE IF r.try THEN Now(p, Started)
     ELSE UNCHANGED <<level, running>>
  /\ UNCHANGED value

(* It fails unless nobody has stored since. *)
Strex(p) ==
  LET r == Innermost(p)
      lock == LockOf(r.op)
  IN
  /\ r.at = "STREX"
  /\ IF Tagged(p, lock)
     THEN /\ Stores(p, lock, New(r.op, r.seen))
          /\ Now(p, [r EXCEPT !.at = "HOLD", !.try = FALSE, !.seen = 0])
     ELSE /\ Now(p, IF r.try THEN Started ELSE [r EXCEPT !.at = "LDREX", !.seen = 0])
          /\ NoStore

(* SpinUnlock and WriteUnlock store, ReadUnlock adds; a plain store leaves *)
(* the processor's own monitor as it is.                                   *)
ISpinUnlock(p) ==
  LET r == Innermost(p)
      lock == LockOf(r.op)
  IN
  /\ r.at = "HOLD"
  /\ IF r.op = "READ"
     THEN Now(p, [r EXCEPT !.at = "ADD"]) /\ NoStore
     ELSE /\ value' = [value EXCEPT ![lock] = 0]
          /\ monitor' = [Cleared(lock, {}) EXCEPT ![p] = monitor[p]]
          /\ Now(p, Started)
          /\ UNCHANGED crossed

IReadUnlock(p) ==
  LET r == Innermost(p) IN
  \/ /\ r.at = "ADD"
     /\ Loads(p, "RW")
     /\ Now(p, [r EXCEPT !.at = "ADDEX", !.seen = value["RW"]])
     /\ UNCHANGED value
  \/ /\ r.at = "ADDEX" /\ Tagged(p, "RW")
     /\ Stores(p, "RW", r.seen + 1)
     /\ Now(p, Started)
  \/ /\ r.at = "ADDEX" /\ ~Tagged(p, "RW")
     /\ Now(p, [r EXCEPT !.at = "ADD", !.seen = 0])
     /\ NoStore

-----------------------------------------------------------------------------
(* A handler starts over what runs, a task or a handler that has enabled   *)
(* interrupts.  On the way back to a task it takes and releases the lock of*)
(* the kernel, which leaves the monitor clear; to a handler it does not.   *)
Interrupt(p) ==
  /\ p \in Interrupted /\ ~Innermost(p).di /\ level[p] < Depth
  /\ level' = [level EXCEPT ![p] = @ + 1]
  /\ UNCHANGED running /\ NoStore

isTaskIndependent(p) == level[p] > 2

chk_dsp_NoLock(p) == UNCHANGED monitor
chk_dsp(p) ==
  monitor' = IF isTaskIndependent(p) THEN monitor ELSE [monitor EXCEPT ![p] = NoLock]

Return(p) ==
  /\ level[p] > 1 /\ Innermost(p).at = "IDLE"
  /\ level' = [level EXCEPT ![p] = @ - 1]
  /\ chk_dsp(p)
  /\ UNCHANGED <<value, running, crossed>>

SpinNext == \E p \in Cpu :
  \/ \E try \in BOOLEAN, di \in BOOLEAN :
       ISpinLock(p, try, di) \/ IReadLock(p, try, di) \/ IWriteLock(p, try, di)
  \/ Ldrex(p) \/ Strex(p) \/ ISpinUnlock(p) \/ IReadUnlock(p)
  \/ Interrupt(p) \/ Return(p)

SpinSpec == SpinInit /\ [][SpinNext]_spinvars

-----------------------------------------------------------------------------
Holds(r, op) == r.op = op /\ r.at \in {"HOLD", "ADD", "ADDEX"}
HoldersOf(op) == {f \in Cpu \X Levels : Holds(running[f[1]][f[2]], op)}

(* One holds a spin lock; many read or one writes a read/write lock, and   *)
(* the value counts them: no store between a load and its store is lost,   *)
(* unless a handler has stored by the load of one that ran over it.        *)
SpinLocksExclusive == ~crossed =>
  /\ value["SP"] = Cardinality(HoldersOf("SPIN"))
  /\ value["RW"] = Cardinality(HoldersOf("WRITE")) - Cardinality(HoldersOf("READ"))
  /\ HoldersOf("WRITE") # {} => HoldersOf("READ") = {}
  /\ value["SP"] <= 1 /\ value["RW"] <= 1

=============================================================================
