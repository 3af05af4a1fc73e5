----------------------------- MODULE ShDispatch -----------------------------
(***************************************************************************)
(* The dispatcher of the SH ports, and what it makes of Dispatcher.        *)
(*                                                                         *)
(* Critical sections, interrupts and tk_ret_int are those of the ARM port, *)
(* except that the spin lock may be held for longer.  The dispatcher's loop*)
(* differs: a core that has the lock and finds that no core is left with a *)
(* task it should not run sets restore_context_disable to RDS_ENABLE and   *)
(* keeps the lock until it has loaded its task.  Meanwhile the others,     *)
(* which try the lock in vain, load theirs without it.                     *)
(***************************************************************************)
EXTENDS Dispatcher

CONSTANTS
  NoCore,  \* the spin lock is free
  Timely   \* a core told to load its task without the lock has stored it in
           \* ctxtsk[], a dozen instructions on, before the lock is taken again

ASSUME ShAssumption == NoCore \notin Core /\ Timely \in BOOLEAN

VARIABLES
  phase,  \* where in the dispatcher's loop a core is, see Phase
  lock,   \* the core that keeps SpinLockObj from chk_restore to exit_dsp
  rcd,    \* restore_context_disable
  r8      \* the register with the task to load

shOnly == <<phase, lock, rcd, r8>>
shVars == <<vars, shOnly>>

(* "open": interrupts are enabled, in the loop or outside of it; "check":  *)
(* in chk_restore; "chosen": chk_restore has returned RET_DISPATCH;        *)
(* "loaded": r8 holds the task; "exit": ctxtsk holds it, in exit_dsp.      *)
Phase == {"open", "check", "chosen", "loaded", "exit"}
InPhase(p, s) == phase' = [phase EXCEPT ![p] = s]

(* A core that has ctxtsk empty and is about to fill it. *)
Loading(p) == phase[p] \in {"chosen", "loaded"}

(* No core is left with a task it should not run. *)
Ready == \A i \in Core : ctxtsk[i] \in {NoTask, schedtsk[i]}

(* KernelLock and KernelTryLock. *)
Locked == lock = NoCore /\ (Timely => \A p \in Core : ~Loading(p))

-----------------------------------------------------------------------------
(* Outside of the loop *)

(* From BEGIN_CRITICAL_SECTION to the end of the critical section. *)
CriticalSection(p) ==
  /\ Locked
  /\ SystemCall(p)
  /\ rcd' = "DISABLE"
  /\ UNCHANGED <<phase, lock, r8>>

(* force_dispatch in BEGIN_CRITICAL_SECTION. *)
dispatch_to_schedtsk(p) ==
  /\ Locked
  /\ ForceDispatch(p)
  /\ rcd' = "DISABLE"
  /\ UNCHANGED <<phase, lock, r8>>

(* tk_ret_int of an interrupt of a task. *)
_tk_ret_int(p) ==
  /\ Locked
  /\ chk_dsp(p)
  /\ UNCHANGED shOnly

(* What needs no lock; interrupts come while they are enabled. *)
Unlocked(p) ==
  /\ phase[p] = "open"
  /\ Enter(p) \/ Interrupt(p) \/ TakeIPI(p) \/ ReturnToLoop(p)
  /\ UNCHANGED shOnly

-----------------------------------------------------------------------------
(* The dispatcher's loop *)

(* Interrupts are disabled if there is a task to run. *)
l_dispatch1(p) ==
  /\ pc[p] = "disp" /\ phase[p] = "open"
  /\ schedtsk[p] # NoTask
  /\ InPhase(p, "check")
  /\ UNCHANGED <<vars, lock, rcd, r8>>

RET_DISPATCH(p) == InPhase(p, "chosen") /\ UNCHANGED <<vars, r8>>
RET_NO_DISPATCH(p) == InPhase(p, "open") /\ UNCHANGED <<vars, lock, rcd, r8>>

chk_restore_Locked_NotReady(p) ==
  /\ phase[p] = "check" /\ Locked
  /\ IF schedtsk[p] # NoTask
     THEN lock' = p /\ rcd' = "ENABLE" /\ RET_DISPATCH(p)
     ELSE RET_NO_DISPATCH(p)

chk_restore_Locked(p) ==
  /\ phase[p] = "check" /\ Locked
  /\ IF schedtsk[p] # NoTask /\ Ready
     THEN lock' = p /\ rcd' = "ENABLE" /\ RET_DISPATCH(p)
     ELSE RET_NO_DISPATCH(p)

(* Another core has the lock: it says whether the tasks may be loaded. *)
chk_restore_Busy(p) ==
  /\ phase[p] = "check" /\ lock # NoCore
  /\ rcd = "ENABLE" /\ schedtsk[p] # NoTask
  /\ RET_DISPATCH(p)
  /\ UNCHANGED <<lock, rcd>>

(* mov.l @r11, r8 *)
reload(p) ==
  /\ phase[p] = "chosen"
  /\ r8' = [r8 EXCEPT ![p] = schedtsk[p]]
  /\ InPhase(p, "loaded")
  /\ UNCHANGED <<vars, lock, rcd>>

(* mov.l r8, @r10: ctxtsk[cpuid] = schedtsk[cpuid] *)
l_dispatch2(p) ==
  /\ phase[p] = "loaded"
  /\ ctxtsk' = [ctxtsk EXCEPT ![p] = r8[p]]
  /\ fresh' = fresh \ {r8[p]}
  /\ r8' = [r8 EXCEPT ![p] = NoTask]
  /\ InPhase(p, "exit")
  /\ UNCHANGED <<state, stkfree, free, ready, schedtsk, dds, pc, ipi, tskque, lock, rcd>>

(* The task goes on. *)
Restored(p) ==
  /\ InPhase(p, "open")
  /\ pc' = [pc EXCEPT ![p] = "task"]
  /\ UNCHANGED <<state, stkfree, free, ready, schedtsk, ctxtsk, dds, ipi, fresh, tskque, r8>>

exit_dsp_Holder_StaysEnabled(p) ==
  /\ phase[p] = "exit" /\ lock = p
  /\ Ready
  /\ lock' = NoCore
  /\ UNCHANGED rcd
  /\ Restored(p)

exit_dsp_Holder(p) ==
  /\ phase[p] = "exit" /\ lock = p
  /\ Ready
  /\ rcd' = "DISABLE"
  /\ lock' = NoCore
  /\ Restored(p)

exit_dsp_Other(p) ==
  /\ phase[p] = "exit" /\ lock # p
  /\ rcd = "DISABLE"
  /\ Restored(p)
  /\ UNCHANGED <<lock, rcd>>

Loop(p) ==
  \/ l_dispatch1(p) \/ chk_restore_Locked(p) \/ chk_restore_Busy(p)
  \/ reload(p) \/ l_dispatch2(p) \/ exit_dsp_Holder(p) \/ exit_dsp_Other(p)

-----------------------------------------------------------------------------
ShInit ==
  /\ Init
  /\ phase = [p \in Core |-> "open"]
  /\ lock = NoCore
  /\ rcd = "DISABLE"
  /\ r8 = [p \in Core |-> NoTask]

ShNext ==
  \E p \in Core : \/ CriticalSection(p) \/ dispatch_to_schedtsk(p)
                  \/ _tk_ret_int(p) \/ Unlocked(p) \/ Loop(p)

ShSpec == ShInit /\ [][ShNext]_shVars

(* What PortFairSpec is fair to: a core that goes on trying gets the spin  *)
(* lock, returns from handlers, goes through its loop, and takes an        *)
(* interrupt when it has them enabled.                                     *)
GoesOn(p) ==
  \/ pc[p] = "spin" /\ (CriticalSection(p) \/ dispatch_to_schedtsk(p))
  \/ _tk_ret_int(p) \/ (ReturnToLoop(p) /\ UNCHANGED shOnly)
  \/ Loop(p)
Interrupted(p) == phase[p] = "open" /\ TakeIPI(p) /\ UNCHANGED shOnly

-----------------------------------------------------------------------------
(* Properties *)

(* Each core sees the dispatcher that Dispatcher describes: its task runs  *)
(* from when ctxtsk holds it.  So no task runs on two cores, a deleted task*)
(* is freed once, and a core with the wrong task has been told.            *)
D == INSTANCE Dispatcher
       WITH pc <- [p \in Core |-> IF phase[p] = "exit" THEN "task" ELSE pc[p]]
ImplementsDispatcher == D!Spec

(* What the cores do when no task touches the schedule.                    *)
ShQuiet ==
  \E p \in Core : \/ dispatch_to_schedtsk(p) \/ (NoEffect(p) /\ CriticalSection(p))
                  \/ TakeIPI(p) \/ _tk_ret_int(p) \/ ReturnToLoop(p) \/ Loop(p)

(* exit_dsp lets go of the lock when all cores have loaded their tasks.    *)
LoadsComplete == lock = NoCore => \A p \in Core : ~Loading(p)

-----------------------------------------------------------------------------
(* The dispatcher of either port: they share what surrounds the loop, and  *)
(* the ARM port leaves what only the SH port has alone.                    *)
VARIABLE port  \* which port the kernel was built for

portVars == <<shVars, port>>

ByArm(A) == port = "ARM" /\ A /\ UNCHANGED <<shOnly, port>>
BySh(A) == port = "SH" /\ A /\ UNCHANGED port

PortInit == ShInit /\ port \in {"ARM", "SH"}
PortNext == ByArm(Next) \/ BySh(ShNext)
PortSpec == PortInit /\ [][PortNext]_portVars

(* Fairness: on the ARM port a core gets the lock it spins for, goes on, and*)
(* takes an interrupt that it has enabled again and again; on the SH port   *)
(* see GoesOn.                                                              *)
ArmGoesOn(p) ==
  \/ pc[p] = "spin" /\ (ForceDispatch(p) \/ SystemCall(p))
  \/ chk_dsp(p) \/ ReturnToLoop(p) \/ chk_restore(p)
PortFairSpec ==
  /\ PortSpec
  /\ \A p \in Core :
       /\ WF_portVars(ByArm(ArmGoesOn(p))) /\ SF_portVars(ByArm(TakeIPI(p)))
       /\ SF_portVars(BySh(GoesOn(p))) /\ SF_portVars(BySh(Interrupted(p)))

(* When the tasks leave the schedule alone every core comes to run the task *)
(* it should, unless dispatching is disabled: no interrupt between cores is *)
(* lost, and no core waits for the others in chk_restore or exit_dsp of the *)
(* SH port for ever.                                                        *)
PortQuiet == ByArm(Quiet) \/ BySh(ShQuiet)
Settles ==
  <>[][PortQuiet]_portVars
    => <>[](dds = {} => ctxtsk = schedtsk /\ \A p \in Core : phase[p] = "open")
=============================================================================
