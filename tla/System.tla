------------------------------- MODULE System -------------------------------
(***************************************************************************)
(* The services around the kernel proper: memory, domains and names,       *)
(* devices, subsystems and task exceptions, the locks of the libraries, and*)
(* the definition of interrupts.  They share no state that is modelled, so *)
(* that an invariant of one of them is one of the whole system.            *)
(*                                                                         *)
(* Bound: in a behaviour one of them is used, see "used".                  *)
(***************************************************************************)
EXTENDS KernelMemory, Directory, Device, TaskException, UserLock, SpinLock, IntCtrl

VARIABLE used

sysvars == <<used, memvars, domvars, devvars, texvars, lockvars, spinvars, intvars>>

SysInit ==
  /\ used \in {"MEM", "DOM", "DEV", "TEX", "LOCK", "SPIN", "INT"}
  /\ MemInit /\ DomInit /\ DevInit /\ TexInit /\ LockInit /\ SpinInit /\ IntInit

SysNext ==
  \/ /\ used = "MEM" /\ MemNext
     /\ UNCHANGED <<used, domvars, devvars, texvars, lockvars, spinvars, intvars>>
  \/ /\ used = "DOM" /\ DomNext
     /\ UNCHANGED <<used, memvars, devvars, texvars, lockvars, spinvars, intvars>>
  \/ /\ used = "DEV" /\ DevNext
     /\ UNCHANGED <<used, memvars, domvars, texvars, lockvars, spinvars, intvars>>
  \/ /\ used = "TEX" /\ TexNext
     /\ UNCHANGED <<used, memvars, domvars, devvars, lockvars, spinvars, intvars>>
  \/ /\ used = "LOCK" /\ LockNext
     /\ UNCHANGED <<used, memvars, domvars, devvars, texvars, spinvars, intvars>>
  \/ /\ used = "SPIN" /\ SpinNext
     /\ UNCHANGED <<used, memvars, domvars, devvars, texvars, lockvars, intvars>>
  \/ /\ used = "INT" /\ IntNext
     /\ UNCHANGED <<used, memvars, domvars, devvars, texvars, lockvars, spinvars>>

SysSpec == SysInit /\ [][SysNext]_sysvars

(* What the component that is used keeps right; for the others it is so    *)
(* from the start.  Memory: see MemoryConserved (smpmemmgr.c, imalloc.c).  *)
MemoryCorrect == used = "MEM" => MemoryConserved

(* Domains, names and protection: see DomainsConsistent (mp_domain.c), and *)
(* FoundIsUsable and ListsAgree of Directory (objname.c).                  *)
DomainsCorrect == used = "DOM" => DomainsConsistent /\ FoundIsUsable /\ ListsAgree

(* Devices: see DevicesConsistent (device.c, deviceio.c).                  *)
DevicesCorrect == used = "DEV" => DevicesConsistent

(* Extended SVCs, their locks, exceptions and break functions: see         *)
(* ExceptionsConsistent (subsystem.c, klock.c).                            *)
ExceptionsCorrect == used = "TEX" => ExceptionsConsistent

(* The locks of the libraries are handed on and exclude each other         *)
(* (fastlock.c, fastmlock.c, libsplock).                                   *)
LocksCorrect ==
  /\ used = "LOCK" => UserLocksHandedOn
  /\ used = "SPIN" => SpinLocksExclusive

(* Interrupts find their handlers and their processors: see HandlerCurrent *)
(* and TargetKept (cpu_calls.c, int.c).                                    *)
InterruptsCorrect == used = "INT" => HandlerCurrent /\ TargetKept

=============================================================================
