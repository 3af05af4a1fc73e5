------------------------------ MODULE Machine -------------------------------
(***************************************************************************)
(* What the processors do without being asked by a call: start and stop,   *)
(* serve the timer queue, execute what another processor requests, print   *)
(* the log.  These share no state that is modelled, but the progress of    *)
(* all of them comes from the same: a processor goes on, takes interrupts, *)
(* and lets its handlers return.                                           *)
(*                                                                         *)
(* Bound: in a behaviour one of them is used, see "part".                  *)
(***************************************************************************)
EXTENDS Timer, StartUp, SysLog, SmpCall

VARIABLE part

machvars == <<part, vars, startvars, logVars, smpvars>>

Processor == Proc \cup Prid \cup Cpu

ByTimer(A) == part = "TIMER" /\ A /\ UNCHANGED <<part, startvars, logVars, smpvars>>
ByStart(A) == part = "START" /\ A /\ UNCHANGED <<part, vars, logVars, smpvars>>
ByLog(A)   == part = "LOG"   /\ A /\ UNCHANGED <<part, vars, startvars, smpvars>>
BySmp(A)   == part = "SMP"   /\ A /\ UNCHANGED <<part, vars, startvars, logVars>>

MachInit ==
  /\ part \in {"TIMER", "START", "LOG", "SMP"}
  /\ Init /\ StartInit /\ LogInit /\ SmpInit
  /\ part # "START" => sync = 0

MachNext == ByTimer(Next) \/ ByStart(StartNext) \/ ByLog(LogNext) \/ BySmp(SmpNext)

MachSpec == MachInit /\ [][MachNext]_machvars

-----------------------------------------------------------------------------
(* An interrupt that stays pending and is enabled again and again is taken.*)
TakesInterrupt(p) ==
  \/ ByTimer(p \in Proc /\ handler_interrupt(p))
  \/ BySmp(p \in Cpu /\ \E from \in Cpu : smpc_handler(p, from))

(* A processor executes its program: until a handler called at once        *)
(* returns, through start-up to the dispatcher, and in and after a request.*)
Executes(p) ==
  \/ ByTimer(p \in Proc /\ ImmediateReturns(p))
  \/ ByStart(p \in Prid /\ (Step(p) \/ StepOf(p)))
  \/ BySmp(p \in Cpu /\ Goon(p))

(* Fairness, as in StartFairSpec, LogFairSpec, SmpFairSpec and FairSpec of *)
(* Timer, of which one has no steps but those of its part.                 *)
MachFairSpec ==
  /\ MachSpec
  /\ \A p \in Processor : SF_machvars(TakesInterrupt(p)) /\ WF_machvars(Executes(p))
  /\ \A p \in Proc : SF_machvars(ByTimer(HandlerReturns(p)))
  /\ WF_machvars(ByStart(Begins \/ Step(InitTask)))
  /\ WF_machvars(ByLog(LogTask))
  /\ \A s \in Sender : WF_machvars(ByLog(Sends(s)))

-----------------------------------------------------------------------------
(* Timer: see EventsQueued and AlarmAlone (timer.c, time_calls.c).         *)
HandlersCorrect == part = "TIMER" => EventsQueued /\ AlarmAlone

(* Start-up and shutdown: see UsesMet, KernelReady and NothingLeft         *)
(* (tkstart.c, sysstartup.c, smmain.c).                                    *)
StartCorrect == part = "START" => UsesMet /\ KernelReady /\ NothingLeft

(* The log: see NoneLost (syslog.c).                                       *)
LogCorrect == part = "LOG" => NoneLost

(* Calls between processors: see ExecutedInOrder and ParameterLives        *)
(* (smpcall_drv.c, cache.c).                                               *)
CallsCorrect == part = "SMP" => ExecutedInOrder /\ ParameterLives

(* Nobody is left waiting: every processor reaches the dispatcher, a queued*)
(* handler is run, a requester gets its answers, a message comes out.      *)
Progress ==
  /\ HandlersRun
  /\ []<>(/\ part = "START" => UpOrFailed
          /\ part = "LOG" => CaughtUp
          /\ part = "SMP" => dcb.lock = NoCpu)

=============================================================================
