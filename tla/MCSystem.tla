------------------------------ MODULE MCSystem ------------------------------
(* A small instance of System for TLC. *)
EXTENDS System

CONSTANTS t1, t2, t3, g1

Symm == Permutations(Tsk)

(* Both names hash alike. *)
SameHash == [n \in Names |-> 0]
TypeAtrs == [type \in ObjType \cup {"DOM"} |->
  CASE type = "DOM" -> {[oname |-> "none"], [oname |-> "x"]}
    [] type = "TSK" -> {[oname |-> "none", patr |-> "PUBLIC"]}
    [] type = "MTX" -> {[oname |-> "x", patr |-> "PRIVATE"], [oname |-> "y", patr |-> "PROTECTED"]}
    [] OTHER -> {[oname |-> "x", patr |-> "PRIVATE"]}]

(* What is created last, if there are three, is of one of these types.     *)
ObjLimits == [type \in ObjType \cup {"DOM"} |-> IF type \in {"TSK", "MTX", "DOM"} THEN 3 ELSE 2]

(* Three tasks of one resource group, so that a close waits for two requests; *)
(* a device with a subunit, or with TDA_OPENREQ and without. *)
OneGroup == [t \in Tsk |-> g1]
OneSubunit == {[nsub |-> 1, openreq |-> FALSE], [nsub |-> 0, openreq |-> TRUE]}
TwoModes == {{"READ"}, {"READ", "WRITE", "EXCL"}}

(* Bound on what is explored of devices: suspension with one request at a  *)
(* time.  Once a driver does not know of an open unit (refused): without   *)
(* requests, suspension and exclusive modes.  Once a close may miss a      *)
(* request (unseen): with two requests or two descriptors, without         *)
(* suspension, exclusive modes and TDA_OPENREQ, with unit 0 and until a    *)
(* wait ends on a descriptor that is used anew.                            *)
NotSuspending ==
  DisSusCnt = 0 /\ At({"SUSPEND", "EVENTS", "SUSPENDED", "RESUMED"}) = {}
OpenBlocks == {o \in Opn : opncb[o] # NODEV}
Requests == {r \in Req : reqcb[r] # NODEV}
DeviceBound ==
  /\ NotSuspending \/ Cardinality(Requests) <= 1
  /\ unseen \/ refused # {} => NotSuspending /\ \A o \in OpenBlocks : opncb[o].omode = {"READ"}
  /\ refused # {} => Requests = {} /\ ~unseen
  /\ unseen =>
       /\ Cardinality(OpenBlocks) <= 1 \/ Cardinality(Requests) <= 1
       /\ \A d \in _tk_lst_dev : ~devcb[d].openreq
       /\ \A o \in OpenBlocks : opncb[o].unit = 0 /\ opncb[o].waitone >= 0

(* Bound on the spin locks: nothing is explored after a store that SpinLock*)
(* records in crossed; a handler is interrupted between an exclusive load  *)
(* and its store; handlers do not disable interrupts, and where none comes,*)
(* no task does, or only tries.                                            *)
SpinBound ==
  /\ ~crossed
  /\ \A p \in Cpu : level[p] = 3 => running[p][2].at \in {"STREX", "ADDEX"}
  /\ \A p \in Cpu, l \in Levels : running[p][l].di => l = 1
  /\ \A p \in Cpu \ Interrupted : ~running[p][1].di /\ ~running[p][1].try

Bounds == (used = "DEV" => DeviceBound) /\ (used = "SPIN" => SpinBound)

(* The driver of one vector defines handlers of both kinds and enables     *)
(* them; that of the other, on the other processor, changes the same words.*)
TwoDrivers == [v0 |-> [on |-> {"p1"}, inthdrs |-> {"h1", "a1"}, levels |-> {4}, modes |-> {}],
               v1 |-> [on |-> {"p2"}, inthdrs |-> {"h1"}, levels |-> {}, modes |-> {4}]]

=============================================================================
