------------------------------ MODULE IntCtrl ------------------------------
(***************************************************************************)
(* Interrupts: the handlers (tk_def_int of cpu_calls.c), the registers of  *)
(* the interrupt controller (int.c of libtk), and what happens when an     *)
(* interrupt is taken (the entry of the monitor, which goes through        *)
(* SCArea->intvec[], and inthdr_startup of cpu_support.S, which goes       *)
(* through hll_inthdr[]).                                                  *)
(*                                                                         *)
(* A register word holds the fields of several vectors; here one word of   *)
(* each kind holds all of Vec.  It is changed by a load and a store with   *)
(* the interrupts of this processor disabled.  The calls about one vector  *)
(* are made by its driver, one after the other; drivers of other vectors   *)
(* run beside it on the other processors.                                  *)
(***************************************************************************)
EXTENDS Integers, Sequences

CONSTANTS
    IntCpu,       \* the processors
    Driver,       \* bound: [on, inthdrs, levels, modes] of the driver of a vector: the
                  \* processors it runs on, and what it defines, enables and sets
    Vec,          \* vectors whose fields share their words
    Hll,          \* handlers in C, called through inthdr_startup
    Asm,          \* handlers that are entered directly
    Lowest,       \* the level and the mode the monitor sets (reset.c)
    ClearEnabled  \* a handler may be cleared while its interrupt may come

NoInthdr == "NULL"
Startup  == "inthdr_startup"
NoOp     == [do |-> "idle"]

(* A handler is entered in one of two ways; a driver defines handlers.     *)
ASSUME IntAssumption ==
  /\ "nobody" \notin IntCpu
  /\ Hll \cap Asm = {} /\ {NoInthdr, Startup} \cap (Hll \cup Asm) = {}
  /\ \A v \in Vec : Driver[v].inthdrs \subseteq Hll \cup Asm

VARIABLES
    intvec,    \* intvec[v]: Startup, a handler in Asm or NoInthdr
    hll_inthdr,\* hll_inthdr[v]
    regs,      \* regs[k]: the word of kind k, a function on Vec
    enb,       \* the vectors enabled in the controller
    pend,      \* the interrupts that were raised and not taken
    intop, intat, \* the call a processor makes, and the step it is at
    word,      \* the word it has loaded, among words that are as after reset
    intlock,   \* the holder of the kernel lock
    irq,       \* irq[c]: the interrupt processor c is in
    want, cur  \* what the completed calls asked for; the handlers of a vector
               \* from the begin of the last tk_def_int on

intvars == <<intvec, hll_inthdr, regs, enb, pend, intop, intat, word, intlock, irq, want, cur>>
calls == <<intop, intat, word, intlock>>

NoIrq == [v |-> "none"]

\* The registers after reset.
resetSystem == [cputrg |-> [v \in Vec |-> {}], pri |-> [v \in Vec |-> Lowest],
                config |-> [v \in Vec |-> Lowest]]

IntInit ==
    /\ intvec = [v \in Vec |-> NoInthdr]
    /\ hll_inthdr = [v \in Vec |-> NoInthdr]
    /\ regs = resetSystem
    /\ enb = {} /\ pend = {}
    /\ intop = [c \in IntCpu |-> NoOp] /\ intat = [c \in IntCpu |-> 0]
    /\ word = [c \in IntCpu |-> resetSystem]
    /\ intlock = "nobody"
    /\ irq = [c \in IntCpu |-> NoIrq]
    /\ want = regs
    /\ cur = [v \in Vec |-> {NoInthdr}]

----------------------------------------------------------------------------
(* Calls                                                                   *)

\* The steps of a call, between BEGIN_CRITICAL_SECTION and
\* END_CRITICAL_NO_DISPATCH or between _DI and _EI.
SetIntMode == <<"load", "store">>
EnableInt  == <<"load", "store", "enbset">>

\* a handler that is entered before its address is there
def_int_VectorFirst == <<"lock", "vec", "hll", "load", "store", "unlock">>
\* the target set outside of the critical section
def_int_TargetAfter == <<"lock", "hll", "vec", "unlock", "load", "store">>

def_int   == <<"lock", "hll", "vec", "load", "store", "unlock">>
undef_int == <<"lock", "load", "store", "vec", "hll", "unlock">>

Steps(o) ==
    CASE o.do = "def"    -> def_int
      [] o.do = "undef"  -> undef_int
      [] o.do = "mode"   -> SetIntMode
      [] o.do = "enable" -> EnableInt

\* The targets in the word after SetIntAssprc and ClrIntAssprc.
SetIntAssprc(d) == {d}
ClrIntAssprc    == {}

InCall(v)  == \E c \in IntCpu : intop[c] # NoOp /\ intop[c].v = v
Taken(v)  == \E c \in IntCpu : irq[c] # NoIrq /\ irq[c].v = v

\* A driver on processor c begins a call; tk_def_int takes the target from
\* the caller or makes it the processor the caller is on.
IntOps(v) ==
    {[do |-> "def", v |-> v, h |-> h, to |-> SetIntAssprc(d)] : h \in Driver[v].inthdrs, d \in IntCpu}
    \cup {[do |-> "undef", v |-> v, h |-> NoInthdr, to |-> ClrIntAssprc]}
    \cup {[do |-> "mode", v |-> v, x |-> m] : m \in Driver[v].modes}
    \cup {[do |-> "enable", v |-> v, x |-> l] : l \in Driver[v].levels}

Begin(c) ==
    /\ intop[c] = NoOp /\ irq[c] = NoIrq
    /\ \E v \in Vec : \E o \in IntOps(v) :
          /\ ~InCall(v) /\ c \in Driver[v].on
          /\ o.do = "undef" => ClearEnabled \/ (v \notin enb /\ ~Taken(v))
          /\ intop' = [intop EXCEPT ![c] = o]
          /\ intat' = [intat EXCEPT ![c] = 1]
    /\ UNCHANGED <<intvec, hll_inthdr, regs, enb, pend, word, intlock, irq, want, cur>>

AtStep(c, s) == intop[c] # NoOp /\ Steps(intop[c])[intat[c]] = s

\* The kind of word a call changes, and its new contents.
KindOf(o) == CASE o.do = "mode" -> "config" [] o.do = "enable" -> "pri" [] OTHER -> "cputrg"
Field(o)  == IF o.do \in {"mode", "enable"} THEN o.x ELSE o.to

\* the next step, or the return
GoesOn(c) ==
    IF intat[c] < Len(Steps(intop[c]))
      THEN intat' = [intat EXCEPT ![c] = @ + 1] /\ UNCHANGED <<intop, want>>
      ELSE /\ intat' = [intat EXCEPT ![c] = 0]
           /\ intop' = [intop EXCEPT ![c] = NoOp]
           /\ want' = [want EXCEPT ![KindOf(intop[c])][intop[c].v] = Field(intop[c])]

\* BEGIN_CRITICAL_SECTION; from here on the new handler may be called.
BEGIN_CRITICAL_SECTION(c) ==
    /\ AtStep(c, "lock") /\ intlock = "nobody"
    /\ intlock' = c
    /\ LET v == intop[c].v
       IN /\ cur' = [cur EXCEPT ![v] = @ \cup {intop[c].h}]
          /\ irq' = [d \in IntCpu |-> IF irq[d] # NoIrq /\ irq[d].v = v
                                     THEN [irq[d] EXCEPT !.may = @ \cup {intop[c].h}] ELSE irq[d]]
    /\ GoesOn(c)
    /\ UNCHANGED <<intvec, hll_inthdr, regs, enb, pend, word>>

\* hll_inthdr[dintno] = inthdr, for a handler with TA_HLNG
DefineHll(c) ==
    /\ AtStep(c, "hll")
    /\ hll_inthdr' = IF intop[c].h \in Asm THEN hll_inthdr
                     ELSE [hll_inthdr EXCEPT ![intop[c].v] = intop[c].h]
    /\ GoesOn(c)
    /\ UNCHANGED <<intvec, regs, enb, pend, word, intlock, irq, cur>>

define_inthdr(c) ==
    /\ AtStep(c, "vec")
    /\ intvec' = [intvec EXCEPT ![intop[c].v] = IF intop[c].h \in Hll THEN Startup ELSE intop[c].h]
    /\ GoesOn(c)
    /\ UNCHANGED <<hll_inthdr, regs, enb, pend, word, intlock, irq, cur>>

Load(c) ==
    /\ AtStep(c, "load")
    /\ LET k == KindOf(intop[c]) IN word' = [word EXCEPT ![c] = [resetSystem EXCEPT ![k] = regs[k]]]
    /\ GoesOn(c)
    /\ UNCHANGED <<intvec, hll_inthdr, regs, enb, pend, intlock, irq, cur>>

Store(c) ==
    /\ AtStep(c, "store")
    /\ LET k == KindOf(intop[c])
       IN regs' = [regs EXCEPT ![k] = [word[c][k] EXCEPT ![intop[c].v] = Field(intop[c])]]
    /\ word' = [word EXCEPT ![c] = resetSystem]
    /\ GoesOn(c)
    /\ UNCHANGED <<intvec, hll_inthdr, enb, pend, intlock, irq, cur>>

\* The enable bits are set and cleared by writing to registers of their own.
EnbSet(c) ==
    /\ AtStep(c, "enbset")
    /\ enb' = enb \cup {intop[c].v}
    /\ GoesOn(c)
    /\ UNCHANGED <<intvec, hll_inthdr, regs, pend, word, intlock, irq, cur>>

END_CRITICAL_NO_DISPATCH(c) ==
    /\ AtStep(c, "unlock")
    /\ intlock' = "nobody"
    /\ cur' = [cur EXCEPT ![intop[c].v] = {intop[c].h}]
    /\ GoesOn(c)
    /\ UNCHANGED <<intvec, hll_inthdr, regs, enb, pend, word, irq>>

DisableInt(c) ==
    /\ intop[c] = NoOp /\ irq[c] = NoIrq
    /\ \E v \in enb : ~InCall(v) /\ c \in Driver[v].on /\ enb' = enb \ {v}
    /\ UNCHANGED <<intvec, hll_inthdr, regs, pend, intop, intat, word, intlock, irq, want, cur>>

ClearInt(c) ==
    /\ intop[c] = NoOp /\ irq[c] = NoIrq
    /\ \E v \in pend : ~InCall(v) /\ c \in Driver[v].on /\ pend' = pend \ {v}
    /\ UNCHANGED <<intvec, hll_inthdr, regs, enb, intop, intat, word, intlock, irq, want, cur>>

----------------------------------------------------------------------------
(* Interrupts                                                              *)

Raise ==
    /\ \E v \in Vec \ pend : pend' = pend \cup {v}
    /\ UNCHANGED <<intvec, hll_inthdr, regs, enb, calls, irq, want, cur>>

\* A processor among the targets takes it; "may" are the handlers it may
\* find.
Accept(c) ==
    /\ irq[c] = NoIrq /\ intop[c] = NoOp
    /\ \E v \in pend \cap enb :
          /\ c \in regs.cputrg[v] /\ regs.pri[v] # Lowest
          /\ pend' = pend \ {v}
          /\ irq' = [irq EXCEPT ![c] = [v |-> v, at |-> "vector", h |-> NoInthdr, may |-> cur[v]]]
    /\ UNCHANGED <<intvec, hll_inthdr, regs, enb, calls, want, cur>>

\* The vector is read; the monitor has a default handler for an empty one.
ReadVector(c) ==
    /\ irq[c] # NoIrq /\ irq[c].at = "vector"
    /\ LET h == intvec[irq[c].v]
       IN irq' = [irq EXCEPT ![c].at = IF h = Startup THEN "startup" ELSE "in", ![c].h = h]
    /\ UNCHANGED <<intvec, hll_inthdr, regs, enb, pend, calls, want, cur>>

inthdr_startup(c) ==
    /\ irq[c] # NoIrq /\ irq[c].at = "startup"
    /\ irq' = [irq EXCEPT ![c].at = "in", ![c].h = hll_inthdr[irq[c].v]]
    /\ UNCHANGED <<intvec, hll_inthdr, regs, enb, pend, calls, want, cur>>

EndOfInt(c) ==
    /\ irq[c] # NoIrq /\ irq[c].at = "in"
    /\ irq' = [irq EXCEPT ![c] = NoIrq]
    /\ UNCHANGED <<intvec, hll_inthdr, regs, enb, pend, calls, want, cur>>

IntNext ==
    \/ Raise
    \/ \E c \in IntCpu :
          \/ Begin(c) \/ BEGIN_CRITICAL_SECTION(c) \/ DefineHll(c) \/ define_inthdr(c) \/ Load(c) \/ Store(c)
          \/ EnbSet(c) \/ END_CRITICAL_NO_DISPATCH(c) \/ DisableInt(c) \/ ClearInt(c)
          \/ Accept(c) \/ ReadVector(c) \/ inthdr_startup(c) \/ EndOfInt(c)

IntSpec == IntInit /\ [][IntNext]_intvars

----------------------------------------------------------------------------
(***************************************************************************)
(* An interrupt reaches a handler that was defined for its vector when it  *)
(* came or has been since, whatever tk_def_int does meanwhile on another   *)
(* processor: hll_inthdr[] is written before the vector that leads to it   *)
(* (cpu_calls.c:140-147).                                                  *)
(***************************************************************************)
HandlerCurrent ==
    \A c \in IntCpu : irq[c] # NoIrq /\ irq[c].at = "in" => irq[c].h \in irq[c].may

(***************************************************************************)
(* The processor an interrupt goes to is the one of the last tk_def_int    *)
(* about it, though the word of targets holds other vectors too: it is     *)
(* changed under the kernel lock (cpu_calls.c:148-153, int.c:116-142).     *)
(***************************************************************************)
TargetKept == \A v \in Vec : ~InCall(v) => regs.cputrg[v] = want.cputrg[v]

(***************************************************************************)
(* "Set accept mode to 'mode' regarding interrupt specified by 'intvec'"   *)
(* (int.c:83), "Enable interrupt specified by 'intvec'" (int.c:170): the   *)
(* mode and the level of a vector are those of the last call about it.     *)
(***************************************************************************)
SettingsKept ==
    \A v \in Vec : ~InCall(v) =>
        regs.pri[v] = want.pri[v] /\ regs.config[v] = want.config[v]
=============================================================================
