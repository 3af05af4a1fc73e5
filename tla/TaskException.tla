--------------------------- MODULE TaskException ---------------------------
(***************************************************************************)
(* Subsystems, extended SVC calls, task exceptions and the break functions *)
(* between them (subsystem.c, the extended SVC locks of klock.c, the       *)
(* exception handler's start in cpu_init.c).  A task's calls are a stack   *)
(* of frames; a step is a critical section, joined with what commutes.     *)
(***************************************************************************)
EXTENDS Integers, SequencesExt

CONSTANTS
  Task,       \* the tasks
  UserTask,   \* those that do not run at protection level 0
  Texcd,      \* exception codes; 0 among them
  Ssid,       \* subsystems
  NUM_SSYPRI, \* their priorities are 1..NUM_SSYPRI
  Breaks,     \* the subsystems with a break function
  NOSVC,      \* a lock that is free, a subsystem that is undefined
  MaxNest,    \* the frames of a task
  Holders     \* whether tasks that hold locks are terminated by others

ASSUME TexAssumption ==
  /\ UserTask \subseteq Task
  /\ 0 \in Texcd /\ Texcd \subseteq 0..31
  /\ Ssid \subseteq 1..255 /\ Breaks \subseteq Ssid
  /\ NOSVC \notin Seq(Task) \cup 1..NUM_SSYPRI
  /\ MaxNest \in Nat /\ Holders \in BOOLEAN

VARIABLES
  ssycb,     \* the priority of each subsystem, or NOSVC
  ssypri_table,
  live,      \* the tasks that are not DORMANT
  locks,     \* held: svclocked of each task; wtskq: of each task's lock
  tex,       \* of each task, see Dormant
  act        \* what each task executes, innermost first

texvars == <<ssycb, ssypri_table, live, locks, tex, act>>

(* make_dormant.  execssid is split into the ID and BREAK_RAN. *)
Dormant == [texhdr |-> FALSE, texmask |-> {}, pendtex |-> {}, exectex |-> {},
            texflg |-> {}, reqdct |-> FALSE, execssid |-> 0, ran |-> FALSE]

TexInit ==
  /\ ssycb = [s \in Ssid |-> NOSVC]
  /\ ssypri_table = [p \in 1..NUM_SSYPRI |-> <<>>]
  /\ live = Task
  /\ locks = [held |-> [t \in Task |-> <<>>], wtskq |-> [t \in Task |-> NOSVC]]
  /\ tex = [t \in Task |-> Dormant]
  /\ act = [t \in Task |-> <<>>]

Top(t) == Head(act[t])
In(t, fn, at) == act[t] # <<>> /\ Top(t).fn = fn /\ Top(t).at = at
Entered(f) == f.fn = "SVC" /\ f.at \in {"BODY", "LEAVE", "OUT"}

(* User code, of the task or of its exception handler. *)
User(t) == act[t] # <<>> => Top(t).fn = "TEX"
Waits(t) == \E x \in Task : locks.wtskq[x] # NOSVC /\ t \in ToSet(locks.wtskq[x])

(* A break function makes no calls that need a lock; devmgr_break does not.*)
MayCall(t) ==
  /\ t \in live /\ Len(act[t]) < MaxNest
  /\ IF User(t) THEN TRUE ELSE Top(t).fn # "BREAK" /\ Top(t).at = "BODY"

Enter(t, f) == act' = [act EXCEPT ![t] = <<f>> \o @]
Goto(t, at) == act' = [act EXCEPT ![t][1].at = at]
Leave(t) == act' = [act EXCEPT ![t] = Tail(@)]

-----------------------------------------------------------------------------
(* Extended SVC locks *)

LockSVC(t, x, at) ==
  /\ ~Waits(t)
  /\ IF locks.held[t] # <<>> /\ Head(locks.held[t]) = x
     THEN UNCHANGED locks /\ Goto(t, at)
     ELSE IF locks.wtskq[x] = NOSVC
     THEN /\ locks' = [locks EXCEPT !.wtskq[x] = <<>>, !.held[t] = <<x>> \o @]
          /\ Goto(t, at)
     ELSE /\ locks' = [locks EXCEPT !.wtskq[x] = Append(@, t)]
          /\ UNCHANGED act

(* The innermost lock of t is handed to who waits first. *)
UnlockSVC(ls, t) ==
  LET x == Head(ls.held[t])
      w == ls.wtskq[x]
      free == [ls EXCEPT !.held[t] = Tail(@)]
  IN IF w = <<>> THEN [free EXCEPT !.wtskq[x] = NOSVC]
     ELSE [free EXCEPT !.wtskq[x] = Tail(@), !.held[Head(w)] = <<x>> \o @]

(* Those of the calling task, whatever task is terminated. *)
AllUnlockSVC(ls, t) ==
  FoldSeq(LAMBDA x, m : UnlockSVC(m, t), ls, ls.held[t])

(* A task that waits is suspended and leaves the queue; resumed, it tries  *)
(* again.                                                                  *)
Suspended(t) ==
  /\ Waits(t)
  /\ locks' = [locks EXCEPT !.wtskq =
       [x \in Task |-> IF @[x] = NOSVC THEN NOSVC ELSE RemoveFirst(@[x], t)]]
  /\ UNCHANGED <<ssycb, ssypri_table, live, tex, act>>

-----------------------------------------------------------------------------
(* Break functions *)

(* The innermost extended SVC of x that has been entered. *)
Current(x) == SelectInSeq(act[x], Entered)

Mark_Not(e) == e
Mark(e) == [e EXCEPT !.ran = TRUE]

BreakDue(x) ==
  /\ "SSFN" \notin tex[x].texflg
  /\ tex[x].exectex # {} /\ tex[x].execssid # 0 /\ ~tex[x].ran

(* t calls the break function of what x executes, if it is due; its own    *)
(* frames are "rest" then.                                                 *)
call_brkhdr(t, x, rest) ==
  LET next == [act EXCEPT ![t] = rest]
      i == SelectInSeq(next[x], Entered)
      count == [next EXCEPT ![x][i].brks = @ + 1]
      marked == [tex EXCEPT ![x] = Mark(@)]
  IN IF ~BreakDue(x) THEN act' = next /\ UNCHANGED tex
     ELSE IF tex[x].execssid \notin Breaks THEN act' = count /\ tex' = marked
     ELSE /\ act' = [count EXCEPT ![t] =
               <<[fn |-> "BREAK", at |-> "BODY", tsk |-> x, save |-> tex[t].texflg]>> \o @]
          /\ tex' = [marked EXCEPT ![t].texflg = @ \cup {"SSFN"}]

call_brkhdr_Done(t) ==
  /\ In(t, "BREAK", "BODY")
  /\ tex' = [tex EXCEPT ![t].texflg = Top(t).save]
  /\ Leave(t)
  /\ UNCHANGED <<ssycb, ssypri_table, live, locks>>

-----------------------------------------------------------------------------
(* Extended SVC calls *)

SaveOf(e) == [execssid |-> e.execssid, ran |-> e.ran, exectex |-> e.exectex]

svc_ientry(t, s) ==
  /\ MayCall(t) /\ ssycb[s] # NOSVC
  /\ Enter(t, [fn |-> "SVC", at |-> "LOCK", ssid |-> s, brks |-> 0, save |-> SaveOf(Dormant)])
  /\ UNCHANGED <<ssycb, ssypri_table, live, locks, tex>>

svc_ientry_Lock(t) ==
  /\ \/ In(t, "SVC", "LOCK") /\ LockSVC(t, t, "ENTER")
     \/ In(t, "SVC", "LEAVE") /\ LockSVC(t, t, "OUT")
  /\ UNCHANGED <<ssycb, ssypri_table, live, tex>>

(* Refused if tk_dis_wai has set TTX_SVC in waitmask. *)
svc_ientry_Enter(t) ==
  LET e == tex[t] IN
  /\ In(t, "SVC", "ENTER")
  /\ locks' = UnlockSVC(locks, t)
  /\ \/ Leave(t) /\ UNCHANGED tex
     \/ /\ act' = [act EXCEPT ![t][1].save = SaveOf(e), ![t][1].at = "BODY"]
        /\ tex' = [tex EXCEPT ![t].execssid = Top(t).ssid, ![t].ran = FALSE,
                     ![t].exectex = IF e.ran THEN {} ELSE @]
  /\ UNCHANGED <<ssycb, ssypri_table, live>>

svc_ientry_Return(t) ==
  /\ In(t, "SVC", "BODY") /\ Goto(t, "LEAVE")
  /\ UNCHANGED <<ssycb, ssypri_table, live, locks, tex>>

svc_ientry_Leave(t) ==
  LET e == Top(t).save IN
  /\ In(t, "SVC", "OUT")
  /\ locks' = UnlockSVC(locks, t)
  /\ tex' = [tex EXCEPT ![t].execssid = e.execssid, ![t].ran = e.ran,
               ![t].exectex = @ \cup e.exectex]
  /\ Goto(t, "SELF")
  /\ UNCHANGED <<ssycb, ssypri_table, live>>

(* The end of svc_ientry, tk_ras_tex and tk_sta_ssy: the break function of *)
(* the task's own extended SVC.                                            *)
BreakSelf(t) ==
  /\ \E fn \in {"SVC", "RAISE", "SSFN"} : In(t, fn, "SELF")
  /\ call_brkhdr(t, t, Tail(act[t]))
  /\ UNCHANGED <<ssycb, ssypri_table, live, locks>>

-----------------------------------------------------------------------------
(* Startup, cleanup and event functions of one subsystem or of all: up the *)
(* priorities for startup and odd events, down for cleanup and even ones.  *)

Order(up) == FlattenSeq(IF up THEN ssypri_table ELSE Reverse(ssypri_table))

CallAll(t, todo) ==
  /\ MayCall(t) /\ todo # <<>>
  /\ Enter(t, [fn |-> "SSFN", at |-> "BODY", todo |-> todo, save |-> tex[t].texflg])
  /\ tex' = [tex EXCEPT ![t].texflg = @ \cup {"SSFN"}]
  /\ UNCHANGED <<ssycb, ssypri_table, live, locks>>

_tk_sta_ssy(t) == \/ \E s \in Ssid : ssycb[s] # NOSVC /\ CallAll(t, <<s>>)
                  \/ CallAll(t, Order(TRUE))
_tk_cln_ssy(t) == CallAll(t, Order(FALSE))
_tk_evt_ssy(t, evttyp) == CallAll(t, Order(evttyp % 2 # 0))

(* One function returns, then the last one does. *)
FunctionReturns(t) ==
  /\ In(t, "SSFN", "BODY")
  /\ IF Len(Top(t).todo) > 1
     THEN act' = [act EXCEPT ![t][1].todo = Tail(@)] /\ UNCHANGED tex
     ELSE Goto(t, "SELF") /\ tex' = [tex EXCEPT ![t].texflg = Top(t).save]
  /\ UNCHANGED <<ssycb, ssypri_table, live, locks>>

(* A subsystem is defined and deleted while none is called. *)
_tk_def_ssy(s) ==
  /\ \A t \in Task : \A i \in DOMAIN act[t] : act[t][i].fn \notin {"SVC", "SSFN", "BREAK"}
  /\ \/ \E pri \in 1..NUM_SSYPRI :
          /\ ssycb[s] = NOSVC
          /\ ssycb' = [ssycb EXCEPT ![s] = pri]
          /\ ssypri_table' = [ssypri_table EXCEPT ![pri] = <<s>> \o @]
     \/ /\ ssycb[s] # NOSVC
        /\ ssycb' = [ssycb EXCEPT ![s] = NOSVC]
        /\ ssypri_table' = [ssypri_table EXCEPT ![ssycb[s]] = RemoveFirst(@, s)]
  /\ UNCHANGED <<live, locks, tex, act>>

(* tk_ref_ssy and td_ref_ssy; the list of td_lst_ssy. *)
_tk_ref_ssy(s) == ssycb[s]
_td_lst_ssy == {s \in Ssid : _tk_ref_ssy(s) # NOSVC}

-----------------------------------------------------------------------------
(* Task exceptions *)

(* What a task has saved while its extended SVCs run. *)
Saved(x) == UNION {act[x][i].save.exectex : i \in {j \in DOMAIN act[x] : Entered(act[x][j])}}

(* Not while the task has saved an exception: that would come back without *)
(* a handler.                                                              *)
_tk_def_tex(t, x, texhdr) ==
  /\ MayCall(t) /\ x \in UserTask /\ Saved(x) = {}
  /\ tex' = [tex EXCEPT ![x].pendtex = {}, ![x].exectex = {}, ![x].texmask = {},
               ![x].texhdr = texhdr]
  /\ UNCHANGED <<ssycb, ssypri_table, live, locks, act>>

set_tex_mask(t, x, texmask) ==
  /\ MayCall(t) /\ tex[x].texhdr
  /\ tex' = [tex EXCEPT ![x].texmask = texmask, ![x].pendtex = @ \cap texmask]
  /\ UNCHANGED <<ssycb, ssypri_table, live, locks, act>>

_tk_dis_tex(t, x, texptn) == set_tex_mask(t, x, tex[x].texmask \ texptn)
_tk_ena_tex(t, x, texptn) == set_tex_mask(t, x, tex[x].texmask \cup texptn)

(* tk_ref_tex, and td_ref_tex without the check of the protection. *)
_tk_ref_tex(x) == [pendtex |-> tex[x].pendtex, texmask |-> tex[x].texmask]

_tk_ras_tex(t, x, texcd) ==
  /\ MayCall(t)
  /\ Enter(t, [fn |-> "RAISE", at |-> "LOCK", tsk |-> x, texcd |-> texcd])
  /\ UNCHANGED <<ssycb, ssypri_table, live, locks, tex>>

_tk_ras_tex_Lock(t) ==
  /\ In(t, "RAISE", "LOCK") /\ LockSVC(t, Top(t).tsk, "RAISE")
  /\ UNCHANGED <<ssycb, ssypri_table, live, tex>>

(* Exceptions wait while the handler of one but 0 runs. *)
Raised(e, texcd) ==
  LET pend == e.pendtex \cup ({texcd} \cap e.texmask)
  IN IF 0 \in pend \/ "TEX1" \notin e.texflg
     THEN [e EXCEPT !.pendtex = pend, !.exectex = @ \cup pend, !.reqdct = TRUE]
     ELSE [e EXCEPT !.pendtex = pend]

_tk_ras_tex_Raise(t) ==
  LET x == Top(t).tsk
      e == Raised(tex[x], Top(t).texcd)
      accepts == tex[x].texhdr /\ x \in live /\ "TEX0" \notin tex[x].texflg
  IN
  /\ In(t, "RAISE", "RAISE")
  /\ IF ~accepts \/ e.pendtex = {}
     THEN Goto(t, "REFUSED") /\ UNCHANGED tex
     ELSE /\ tex' = [tex EXCEPT ![x] = e]
          /\ Goto(t, IF 0 \in e.pendtex \/ "TEX1" \notin e.texflg THEN "BREAK" ELSE "REFUSED")
  /\ UNCHANGED <<ssycb, ssypri_table, live, locks>>

_tk_ras_tex_Break(t) ==
  /\ In(t, "RAISE", "BREAK") /\ call_brkhdr(t, Top(t).tsk, [act[t] EXCEPT ![1].at = "UNLOCK"])
  /\ UNCHANGED <<ssycb, ssypri_table, live, locks>>

_tk_ras_tex_Unlock(t) ==
  /\ \/ In(t, "RAISE", "UNLOCK") /\ Goto(t, "SELF")
     \/ In(t, "RAISE", "REFUSED") /\ Leave(t)
  /\ locks' = UnlockSVC(locks, t)
  /\ UNCHANGED <<ssycb, ssypri_table, live, tex>>

(* On the way back to user code.  The handler of 0 starts from an empty    *)
(* stack.                                                                  *)
setup_texhdr(t) ==
  LET texcd == Min(tex[t].exectex) IN
  /\ t \in live /\ User(t) /\ tex[t].reqdct
  /\ IF tex[t].exectex = {}
     THEN tex' = [tex EXCEPT ![t].reqdct = FALSE] /\ UNCHANGED act
     ELSE /\ tex' = [tex EXCEPT ![t].reqdct = FALSE, ![t].exectex = {},
                      ![t].pendtex = @ \ {texcd},
                      ![t].texflg = @ \cup {IF texcd = 0 THEN "TEX0" ELSE "TEX1"}]
          /\ act' = [act EXCEPT ![t] = <<[fn |-> "TEX", at |-> "BODY"]>>]
  /\ UNCHANGED <<ssycb, ssypri_table, live, locks>>

_tk_end_tex(t, enatex) ==
  LET e == tex[t]
      rest == e.pendtex \ {0}
      ended == [e EXCEPT !.texflg = @ \ {"TEX1"}, !.exectex = @ \cup e.pendtex,
                         !.reqdct = @ \/ rest # {}]
  IN
  /\ In(t, "TEX", "BODY") /\ e.texflg \cap {"TEX0", "TEX1"} = {"TEX1"}
  /\ IF enatex \/ rest = {}
     THEN tex' = [tex EXCEPT ![t] = ended] /\ Leave(t)
     ELSE tex' = [tex EXCEPT ![t].pendtex = @ \ {Min(rest)}] /\ UNCHANGED act
  /\ UNCHANGED <<ssycb, ssypri_table, live, locks>>

-----------------------------------------------------------------------------
(* Termination of x by t, and of t by itself; who held its lock or broke   *)
(* its extended SVC goes on.                                               *)

_ter_tsk(t, x) ==
  LET ls == IF locks.held[x] # <<>> THEN AllUnlockSVC(locks, t) ELSE locks IN
  /\ t \in live /\ x \in live
  /\ IF t = x THEN User(t) ELSE MayCall(t) /\ (~Holders => locks.held[x] = <<>>)
  /\ locks' = [ls EXCEPT !.wtskq = [y \in Task |->
       IF @[y] = NOSVC THEN NOSVC ELSE RemoveFirst(@[y], x)]]
  /\ tex' = [tex EXCEPT ![x] = Dormant]
  /\ live' = live \ {x}
  /\ act' = [act EXCEPT ![x] = <<>>]
  /\ UNCHANGED <<ssycb, ssypri_table>>

_tk_sta_tsk(t, x) ==
  /\ MayCall(t) /\ x \notin live
  /\ live' = live \cup {x}
  /\ UNCHANGED <<ssycb, ssypri_table, locks, tex, act>>

TexNext ==
  \/ \E s \in Ssid : _tk_def_ssy(s)
  \/ \E t \in Task :
       \/ svc_ientry_Lock(t) \/ svc_ientry_Enter(t) \/ svc_ientry_Return(t)
       \/ svc_ientry_Leave(t) \/ BreakSelf(t) \/ call_brkhdr_Done(t)
       \/ Suspended(t) \/ _tk_sta_ssy(t) \/ _tk_cln_ssy(t) \/ FunctionReturns(t)
       \/ _tk_ras_tex_Lock(t) \/ _tk_ras_tex_Raise(t) \/ _tk_ras_tex_Break(t)
       \/ _tk_ras_tex_Unlock(t) \/ setup_texhdr(t)
       \/ \E s \in Ssid : svc_ientry(t, s)
       \/ \E evttyp \in 0..1 : _tk_evt_ssy(t, evttyp)
       \/ \E enatex \in BOOLEAN : _tk_end_tex(t, enatex)
       \/ \E x \in Task :
            \/ \E texhdr \in BOOLEAN : _tk_def_tex(t, x, texhdr)
            \/ _tk_dis_tex(t, x, Texcd) \/ _tk_ena_tex(t, x, Texcd)
            \/ \E texcd \in Texcd : _tk_ras_tex(t, x, texcd)
            \/ _ter_tsk(t, x) \/ _tk_sta_tsk(t, x)

TexSpec == TexInit /\ [][TexNext]_texvars

-----------------------------------------------------------------------------
(* The break function of an extended SVC is called once at most, and       *)
(* execssid says of the innermost one whether it was.                      *)
BreakOnce == \A x \in Task :
  LET i == Current(x) IN
  /\ \A j \in DOMAIN act[x] : act[x][j].fn = "SVC" => act[x][j].brks \in 0..1
  /\ IF i = 0 THEN tex[x].execssid = 0
     ELSE /\ tex[x].execssid = act[x][i].ssid
          /\ tex[x].ran <=> act[x][i].brks = 1

(* While another task runs its break function, a task neither enters nor   *)
(* leaves an extended SVC: "Lock to run with break function exclusively".  *)
(* It still is in the broken one then, unless it has been terminated.      *)
BreakInside == \A t \in Task : In(t, "BREAK", "BODY") =>
  LET x == Top(t).tsk IN
  t # x => /\ ~In(x, "SVC", "ENTER") /\ ~In(x, "SVC", "OUT")
           /\ Current(x) # 0 => act[x][Current(x)].brks = 1

(* No terminated task holds a lock: termination is to "Unlock all extended *)
(* SVCs in which 'tcb' tasks are locked".                                  *)
LocksReleased == \A t \in Task : locks.held[t] # <<>> => t \in live

(* Each lock that is taken has one owner, who will release it, and those   *)
(* who wait for it are in a call that needs it.                            *)
LocksOwned == LocksReleased /\ \A x \in Task :
  /\ Cardinality({t \in Task : x \in ToSet(locks.held[t])}) = (IF locks.wtskq[x] = NOSVC THEN 0 ELSE 1)
  /\ Waits(x) => x \in live /\ Top(x).at \in {"LOCK", "LEAVE"}

(* An exception that is to be handled has a handler and is on its way; one *)
(* that waits, waits for a handler that runs.                              *)
ExceptionsServed == \A t \in Task :
  LET e == tex[t] IN
  /\ e.exectex # {} => e.texhdr /\ e.reqdct
  /\ e.pendtex # {} => e.exectex \cup Saved(t) # {} \/ e.texflg \cap {"TEX0", "TEX1"} # {}
  /\ "SSFN" \in e.texflg <=> \E i \in DOMAIN act[t] :
       \/ act[t][i].fn = "BREAK"
       \/ act[t][i].fn = "SSFN" /\ act[t][i].at = "BODY"

(* Every subsystem is in the list of its priority, once, so that Order goes*)
(* through each of them once.                                              *)
SubsystemsListed == \A p \in 1..NUM_SSYPRI :
  /\ ToSet(ssypri_table[p]) = {s \in Ssid : ssycb[s] = p}
  /\ IsInjective(ssypri_table[p])

ExceptionsConsistent ==
  BreakOnce /\ BreakInside /\ LocksOwned /\ ExceptionsServed /\ SubsystemsListed

=============================================================================
