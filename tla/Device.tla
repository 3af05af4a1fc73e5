------------------------------- MODULE Device -------------------------------
(***************************************************************************)
(* Device management (device.c, deviceio.c): registration, open and close, *)
(* requests and the wait for them, and suspension.  LockDM guards the      *)
(* tables and is let go while a driver runs; a step is what happens between*)
(* two points without LockDM.  A driver returns when and with what it      *)
(* likes.                                                                  *)
(***************************************************************************)
EXTENDS Integers, SequencesExt

CONSTANTS
  Tsk,        \* the tasks
  Resid,      \* the resource group of each
  Dev,        \* the devices, by physical name
  Ddevs,      \* what they are registered with: [nsub, openreq]
  Omodes,     \* the modes devices are opened in: sets of "READ", "EXCL", ...
  Opn,        \* OpnCBtbl
  Req,        \* ReqCBtbl
  MAX_DISSUS, \* as in the code, but small
  NODEV,      \* a control block that is free
  NULL        \* no task, no group

Groups == {Resid[t] : t \in Tsk}

(* What the tables hold; requestq is that of the descriptor.               *)
ReqCB == [opn : Opn, tskid : Tsk \cup {NULL}]
OpnCB == [dev : Dev, unit : 0..1, omode : Omodes, res : Groups, resid : Groups \cup {NULL},
          linked : BOOLEAN, requestq : Seq(Req), waitone : Int, nwaireq : Int,
          abort_tskid : Tsk \cup {NULL}, abort_cnt : Int]

ASSUME DevAssumption ==
  /\ MAX_DISSUS \in Nat
  /\ IsFiniteSet(Tsk) /\ IsFiniteSet(Opn) /\ IsFiniteSet(Req)
  /\ NULL \notin Tsk \cup Opn \cup Groups
  /\ NODEV \notin Ddevs /\ NODEV \notin OpnCB /\ NODEV \notin ReqCB
  /\ \A m \in Omodes : m \cap {"READ", "WRITE"} # {}

VARIABLES
  devcb,     \* the devices: NODEV, or what they are registered with
  opncb,     \* the open devices: NODEV, or see newOpnCB
  reqcb,     \* the requests: NODEV, or [opn, tskid]
  dissus,    \* of each group, the times it disabled suspension
  DisSusCnt,
  reg, dm,   \* the holder of LockREG and, while suspended, of LockDM, or NULL
  diswai,    \* the tasks whose wait for DevMgrSync is disabled
  stage,     \* what each task does without LockDM
  drv,       \* of each unit, the calls of openfn less those of closefn
  (* For the properties, what the code does not keep apart or wait for:    *)
  unseen,    \* a wait for any request met another call in the driver, or
             \* tk_rel_wai ended the wait of a close: see Meets
  refused    \* the units of which openfn failed while others relied on it

devhist == <<unseen, refused>>
devvars == <<devcb, opncb, reqcb, dissus, DisSusCnt, reg, dm, diswai, stage, drv, devhist>>

Unit == Dev \X (0..1)

(* What a task is at: the descriptor and the requests it is about, how many*)
(* calls of openfn or closefn it makes, the group it cleans up.            *)
Doing(at, o, reqs, fn, g) == [at |-> at, opn |-> o, reqs |-> reqs, fn |-> fn, clean |-> g]
Idle == Doing("IDLE", NULL, {}, 0, NULL)

(* Unchanged by what a call does besides. *)
Locks == UNCHANGED <<reg, dm>>
Suspension == UNCHANGED <<dissus, DisSusCnt, reg, dm>>

(* initialize_devmgr *)
DevInit ==
  /\ devcb = [d \in Dev |-> NODEV]
  /\ opncb = [o \in Opn |-> NODEV] /\ reqcb = [r \in Req |-> NODEV]
  /\ dissus = [g \in Groups |-> 0] /\ DisSusCnt = 0
  /\ reg = NULL /\ dm = NULL /\ diswai = {}
  /\ stage = [t \in Tsk |-> Idle]
  /\ drv = [u \in Unit |-> 0]
  /\ unseen = FALSE /\ refused = {}

(* A task calls while nobody cleans up its group. *)
Calls(t) ==
  /\ stage[t] = Idle /\ dm = NULL
  /\ \A x \in Tsk : stage[x].clean # Resid[t]

SetStage(t, s) == stage' = [stage EXCEPT ![t] = s]
Does(t, at, o, reqs) == SetStage(t, Doing(at, o, reqs, 0, NULL))
Drives(t, at, o, fn) == SetStage(t, Doing(at, o, {}, fn, stage[t].clean))
Drains(t, at, reqs) == SetStage(t, Doing(at, stage[t].opn, reqs, 0, stage[t].clean))
Cleans(t, at, o, g) == SetStage(t, Doing(at, o, {}, 0, g))
Goes(t, at) == stage' = [stage EXCEPT ![t].at = at]
Returns(t) == SetStage(t, Idle)

-----------------------------------------------------------------------------
(* Registration *)

Opens(d) == {o \in Opn : opncb[o] # NODEV /\ opncb[o].linked /\ opncb[o].dev = d}

(* A driver with open descriptors keeps TDA_OPENREQ as it was. *)
_tk_def_dev(t, d) ==
  /\ Calls(t) /\ reg = NULL
  /\ \/ \E ddev \in Ddevs :
          /\ Opens(d) # {} => ddev.openreq = devcb[d].openreq
          /\ devcb' = [devcb EXCEPT ![d] = ddev]
     \/ /\ devcb[d] # NODEV /\ Opens(d) = {}
        /\ devcb' = [devcb EXCEPT ![d] = NODEV]
  /\ UNCHANGED <<opncb, reqcb, diswai, stage, drv, devhist>> /\ Suspension

_tk_lst_dev == {d \in Dev : devcb[d] # NODEV}

(* Whether a name, of a device and one of its subunits, finds a device: a  *)
(* name is the physical one and, but for unit 0, the number of the subunit.*)
searchDevCB(d, u) == d \in _tk_lst_dev /\ u <= devcb[d].nsub

(* What tk_ref_dev and tk_get_dev tell of it. *)
_tk_ref_dev(d, u) == IF searchDevCB(d, u) THEN [nsub |-> devcb[d].nsub, subno |-> u] ELSE NODEV
_tk_get_dev(d, u) == IF searchDevCB(d, u) THEN <<d, u>> ELSE NODEV

-----------------------------------------------------------------------------
(* Open *)

Read(m) == "READ" \in m
Write(m) == "WRITE" \in m
Rexcl(m) == m \cap {"EXCL", "REXCL"} # {}
Wexcl(m) == m \cap {"EXCL", "WEXCL"} # {}
Conflict(m, n) ==
  \/ Rexcl(m) /\ Read(n)
  \/ Wexcl(m) /\ Write(n)
  \/ Read(m) /\ Rexcl(n)
  \/ Write(m) /\ Wexcl(n)

SameUnit(u, v) == u = 0 \/ v = 0 \/ u = v

chkopenmode(d, u, m) ==
  \A o \in Opens(d) : SameUnit(u, opncb[o].unit) => ~Conflict(m, opncb[o].omode)

chkopen(d, u) == \E o \in Opens(d) : opncb[o].unit = u

newOpnCB(d, u, m, g) ==
  [dev |-> d, unit |-> u, omode |-> m, res |-> g, resid |-> NULL, linked |-> TRUE,
   requestq |-> <<>>, waitone |-> 0, nwaireq |-> 0, abort_tskid |-> NULL, abort_cnt |-> 0]

delOpnCB(o) == [opncb EXCEPT ![o] = NODEV]

_tk_opn_dev(t, d, u, m) ==
  LET o == CHOOSE x \in Opn : opncb[x] = NODEV
      openfn == IF ~chkopen(d, u) \/ devcb[d].openreq THEN 1 ELSE 0
  IN
  /\ Calls(t) /\ searchDevCB(d, u)
  /\ chkopenmode(d, u, m)
  /\ \E x \in Opn : opncb[x] = NODEV
  /\ opncb' = [opncb EXCEPT ![o] = newOpnCB(d, u, m, Resid[t])]
  /\ Drives(t, "OPENFN", o, openfn)
  /\ UNCHANGED <<devcb, reqcb, diswai, drv, devhist>> /\ Suspension

(* Of a unit in refused, nobody counts any more.                           *)
TellsDriver(u, n) == drv' = IF u \in refused THEN drv ELSE [drv EXCEPT ![u] = @ + n]

(* An opener that came meanwhile has left openfn to this call.             *)
Relied(o) == /\ ~devcb[opncb[o].dev].openreq
             /\ \E x \in Opens(opncb[o].dev) \ {o} : opncb[x].unit = opncb[o].unit

_tk_opn_dev_Done(t) ==
  LET o == stage[t].opn
      u == <<opncb[o].dev, opncb[o].unit>>
  IN
  /\ stage[t].at = "OPENFN" /\ dm = NULL
  /\ \/ /\ opncb' = [opncb EXCEPT ![o].resid = Resid[t]]
        /\ TellsDriver(u, stage[t].fn)
        /\ UNCHANGED refused
     \/ /\ stage[t].fn = 1
        /\ opncb' = delOpnCB(o)
        /\ refused' = refused \cup (IF Relied(o) THEN {u} ELSE {})
        /\ UNCHANGED drv
  /\ Returns(t)
  /\ UNCHANGED <<devcb, reqcb, diswai, unseen>> /\ Suspension

-----------------------------------------------------------------------------
(* Requests *)

check_devdesc(t, o) == opncb[o] # NODEV /\ opncb[o].resid = Resid[t]

_tk_oref_dev(t, o) ==
  IF check_devdesc(t, o) THEN [nsub |-> devcb[opncb[o].dev].nsub, subno |-> opncb[o].unit] ELSE NODEV

newReqCB(r, o, t) ==
  /\ reqcb' = [reqcb EXCEPT ![r] = [opn |-> o, tskid |-> t]]
  /\ opncb' = [opncb EXCEPT ![o].requestq = Append(@, r)]

(* A request that another task has freed meanwhile stays free; one that is *)
(* used again since is freed for its new descriptor.                       *)
Unqueue(blocks, r) ==
  IF reqcb[r] = NODEV THEN blocks
  ELSE [blocks EXCEPT ![reqcb[r].opn].requestq = RemoveFirst(@, r)]
Without(blocks, r) == [blocks EXCEPT ![r] = NODEV]

delReqCB(r) == opncb' = Unqueue(opncb, r) /\ reqcb' = Without(reqcb, r)

(* A wait for any request and another call are in the driver: a close      *)
(* counts the wait for one, and their tskid are mixed up.                  *)
Meets(o, qs) == opncb[o].nwaireq > 0 \/ \E r \in qs : reqcb[r].tskid # NULL

request(t, o, cmd) ==
  LET r == CHOOSE x \in Req : reqcb[x] = NODEV IN
  /\ Calls(t) /\ check_devdesc(t, o) /\ cmd \in opncb[o].omode
  /\ \E x \in Req : reqcb[x] = NODEV
  /\ newReqCB(r, o, t)
  /\ Does(t, "EXECFN", o, {r})
  /\ unseen' = (unseen \/ Meets(o, {}))
  /\ UNCHANGED <<devcb, diswai, drv, refused>> /\ Suspension

(* tk_srea_dev and tk_swri_dev make these calls, and tk_wai_dev for what   *)
(* they return.                                                            *)
_tk_rea_dev(t, o) == request(t, o, "READ")
_tk_wri_dev(t, o) == request(t, o, "WRITE")

(* The tables, and who learns of it, when a task leaves the driver; it does*)
(* not look whether descriptor and requests are still what they were.      *)
Counted(o) == o # NODEV /\ o.abort_tskid # NULL
Notified(o) == IF Counted(o) THEN [o EXCEPT !.abort_cnt = @ - 1] ELSE o
SyncSignalDM_Each(o) ==
  diswai' = IF Counted(o) THEN diswai \cup {o.abort_tskid} ELSE diswai
SyncSignalDM(o) ==
  diswai' = IF Counted(o) /\ o.abort_cnt = 1 THEN diswai \cup {o.abort_tskid}
            ELSE diswai
NotInProcess(qs) ==
  [r \in Req |-> IF r \in qs /\ reqcb[r] # NODEV THEN [reqcb[r] EXCEPT !.tskid = NULL] ELSE reqcb[r]]

request_Done(t) ==
  LET o == stage[t].opn
      qs == stage[t].reqs
      on == [opncb EXCEPT ![o] = Notified(@)]
  IN
  /\ stage[t].at = "EXECFN" /\ dm = NULL
  /\ SyncSignalDM(opncb[o])
  /\ \E r \in qs :
       \/ opncb' = on /\ reqcb' = NotInProcess(qs)
       \/ opncb' = Unqueue(on, r) /\ reqcb' = Without(NotInProcess(qs), r)
  /\ Returns(t)
  /\ UNCHANGED <<devcb, drv, devhist>> /\ Suspension

(* reqid 0: for any request of the descriptor. *)
_tk_wai_dev_Any(t, o) ==
  LET q == opncb[o].requestq IN
  /\ Calls(t) /\ check_devdesc(t, o)
  /\ ~(opncb[o].nwaireq > 0) /\ ~(opncb[o].waitone > 0) /\ q # <<>>
  /\ reqcb' = [r \in Req |-> IF r \in ToSet(q) THEN [reqcb[r] EXCEPT !.tskid = t] ELSE reqcb[r]]
  /\ opncb' = [opncb EXCEPT ![o].nwaireq = Len(q)]
  /\ Does(t, "WAITANY", o, ToSet(q))
  /\ unseen' = (unseen \/ Meets(o, ToSet(q)))
  /\ UNCHANGED <<devcb, diswai, drv, refused>> /\ Suspension

_tk_wai_dev(t, o, r) ==
  /\ Calls(t) /\ check_devdesc(t, o)
  /\ reqcb[r] # NODEV /\ reqcb[r].opn = o
  /\ ~(opncb[o].nwaireq > 0) /\ reqcb[r].tskid = NULL
  /\ reqcb' = [reqcb EXCEPT ![r].tskid = t]
  /\ opncb' = [opncb EXCEPT ![o].waitone = @ + 1]
  /\ Does(t, "WAITFN", o, {r})
  /\ UNCHANGED <<devcb, diswai, drv, devhist>> /\ Suspension

(* One is complete, or none is: a timeout, or aborted. *)
_tk_wai_dev_Done(t) ==
  LET o == stage[t].opn
      qs == stage[t].reqs
      n == Notified(opncb[o])
      m == IF stage[t].at = "WAITANY" THEN [n EXCEPT !.nwaireq = 0] ELSE [n EXCEPT !.waitone = @ - 1]
      on == IF opncb[o] = NODEV THEN opncb ELSE [opncb EXCEPT ![o] = m]
  IN
  /\ stage[t].at \in {"WAITFN", "WAITANY"} /\ dm = NULL
  /\ SyncSignalDM(opncb[o])
  /\ \/ opncb' = on /\ reqcb' = NotInProcess(qs)
     \/ \E r \in qs : opncb' = Unqueue(on, r) /\ reqcb' = Without(NotInProcess(qs), r)
  /\ Returns(t)
  /\ UNCHANGED <<devcb, drv, devhist>> /\ Suspension

-----------------------------------------------------------------------------
(* Close: by tk_cls_dev, or for all that a group has open by tk_cln_ssy. *)

_tk_cls_dev(t, o) ==
  /\ Calls(t) /\ check_devdesc(t, o)
  /\ opncb' = [opncb EXCEPT ![o].resid = NULL]
  /\ Does(t, "ABORT", o, {})
  /\ UNCHANGED <<devcb, reqcb, diswai, drv, devhist>> /\ Suspension

(* The requests in the driver; the wait for any of them counts as one. *)
InProcess(o) ==
  IF opncb[o].nwaireq > 0 THEN 1
  ELSE Cardinality({r \in Req : reqcb[r] # NODEV /\ reqcb[r].opn = o /\ reqcb[r].tskid # NULL})

(* Each is aborted. *)
abort_allrequest(t) ==
  LET o == stage[t].opn IN
  /\ stage[t].at = "ABORT" /\ dm = NULL
  /\ opncb' = [opncb EXCEPT ![o].abort_tskid = t, ![o].abort_cnt = InProcess(o)]
  /\ Goes(t, "TEST")
  /\ UNCHANGED <<devcb, reqcb, diswai, drv, devhist>> /\ Suspension

(* The count is set anew before it is read again. *)
Unaborted(o) == [opncb EXCEPT ![o].abort_tskid = NULL, ![o].abort_cnt = 0]

(* abort_cnt is read after UnlockDM; without any request left, the task    *)
(* does not wait.                                                          *)
TestCount(t) ==
  LET o == stage[t].opn IN
  /\ stage[t].at = "TEST"
  /\ IF opncb[o].abort_cnt > 0
     THEN Goes(t, "SYNC") /\ UNCHANGED opncb
     ELSE Goes(t, "DRAIN") /\ opncb' = Unaborted(o)
  /\ UNCHANGED <<devcb, reqcb, diswai, drv, devhist>> /\ Suspension

(* The wait is over, and tk_ena_wai: why it is over, nobody asks.          *)
Synchronized(t) ==
  /\ stage[t].at = "SYNC"
  /\ diswai' = diswai \ {t}
  /\ opncb' = Unaborted(stage[t].opn)
  /\ Goes(t, "DRAIN")
  /\ UNCHANGED <<devcb, reqcb, drv, refused>> /\ Suspension

(* Waiting ends at once if it was disabled before. *)
SyncWaitDM(t) == t \in diswai /\ Synchronized(t) /\ UNCHANGED unseen

(* tk_rel_wai of another task.                                             *)
SyncWaitDM_Released(t) == t \notin diswai /\ Synchronized(t) /\ unseen' = TRUE

(* The driver completes the first request that is left, if there is one. *)
WaitRemaining(t) ==
  LET q == opncb[stage[t].opn].requestq IN
  /\ stage[t].at = "DRAIN" /\ dm = NULL
  /\ IF q = <<>>
     THEN Goes(t, "CLOSE")
     ELSE Drains(t, "DRAINFN", {Head(q)})
  /\ UNCHANGED <<devcb, opncb, reqcb, diswai, drv, devhist>> /\ Suspension

WaitRemaining_Done(t) ==
  /\ stage[t].at = "DRAINFN" /\ dm = NULL
  /\ \E r \in stage[t].reqs : delReqCB(r)
  /\ Drains(t, "DRAIN", {})
  /\ UNCHANGED <<devcb, diswai, drv, devhist>> /\ Suspension

close_device(t) ==
  LET o == stage[t].opn
      d == opncb[o].dev
      open == \E x \in Opens(d) \ {o} : opncb[x].unit = opncb[o].unit
      closefn == IF ~open \/ devcb[d].openreq THEN 1 ELSE 0
  IN
  /\ stage[t].at = "CLOSE" /\ dm = NULL
  /\ opncb' = [opncb EXCEPT ![o].linked = FALSE]
  /\ Drives(t, "CLOSEFN", o, closefn)
  /\ UNCHANGED <<devcb, reqcb, diswai, drv, devhist>> /\ Suspension

(* The extended SVC began with an empty wait mask and restores the old one *)
(* (svc_ientry): a wait that was disabled for nothing is enabled again.    *)
Leaves_svc(t) == Returns(t) /\ diswai' = diswai \ {t}

close_device_Done(t) ==
  LET o == stage[t].opn IN
  /\ stage[t].at = "CLOSEFN" /\ dm = NULL
  /\ opncb' = delOpnCB(o)
  /\ TellsDriver(<<opncb[o].dev, opncb[o].unit>>, -stage[t].fn)
  /\ IF stage[t].clean = NULL THEN Leaves_svc(t)
     ELSE Cleans(t, "CLEAN", NULL, stage[t].clean) /\ UNCHANGED diswai
  /\ UNCHANGED <<devcb, reqcb, devhist>> /\ Suspension

(* Cleanup of the group g, whose tasks are in no call, by one task. *)
devmgr_cleanup(t, g) ==
  /\ Calls(t) /\ \A x \in Tsk : (Resid[x] = g => stage[x] = Idle) /\ stage[x].clean # g
  /\ dissus' = [dissus EXCEPT ![g] = 0]
  /\ DisSusCnt' = DisSusCnt - dissus[g]
  /\ Cleans(t, "CLEAN", NULL, g)
  /\ UNCHANGED <<devcb, opncb, reqcb, diswai, drv, devhist>> /\ Locks

devmgr_cleanup_Next(t) ==
  LET q == {o \in Opn : opncb[o] # NODEV /\ opncb[o].linked /\ opncb[o].res = stage[t].clean} IN
  /\ stage[t].at = "CLEAN" /\ dm = NULL
  /\ IF q = {} THEN Returns(t) /\ UNCHANGED opncb
     ELSE LET o == CHOOSE x \in q : TRUE
          IN  /\ opncb' = [opncb EXCEPT ![o].resid = NULL]
              /\ Cleans(t, "ABORT", o, stage[t].clean)
  /\ UNCHANGED <<devcb, reqcb, diswai, drv, devhist>> /\ Suspension

-----------------------------------------------------------------------------
(* Suspension *)

_tk_sus_dev_DISSUS(t) ==
  /\ Calls(t) /\ DisSusCnt < MAX_DISSUS
  /\ dissus' = [dissus EXCEPT ![Resid[t]] = @ + 1]
  /\ DisSusCnt' = DisSusCnt + 1
  /\ UNCHANGED <<devcb, opncb, reqcb, diswai, stage, drv, devhist>> /\ Locks

_tk_sus_dev_ENASUS(t) ==
  /\ Calls(t) /\ dissus[Resid[t]] > 0
  /\ dissus' = [dissus EXCEPT ![Resid[t]] = @ - 1]
  /\ DisSusCnt' = DisSusCnt - 1
  /\ UNCHANGED <<devcb, opncb, reqcb, diswai, stage, drv, devhist>> /\ Locks

(* LockDM is let go before LockREG is taken. *)
_tk_sus_dev_SUSPEND(t, force) ==
  /\ Calls(t)
  /\ ~force => DisSusCnt = 0
  /\ Does(t, "SUSPEND", NULL, {})
  /\ UNCHANGED <<devcb, opncb, reqcb, diswai, drv, devhist>> /\ Suspension

do_suspend(t) ==
  /\ \/ /\ stage[t].at = "SUSPEND" /\ reg = NULL
        /\ reg' = t /\ Goes(t, "EVENTS") /\ UNCHANGED dm
     \/ /\ stage[t].at = "EVENTS" /\ dm = NULL
        /\ dm' = t /\ Goes(t, "SUSPENDED") /\ UNCHANGED reg
     \/ /\ stage[t].at = "SUSPENDED"
        /\ dm' = NULL /\ Goes(t, "RESUMED") /\ UNCHANGED reg
     \/ /\ stage[t].at = "RESUMED"
        /\ reg' = NULL /\ Returns(t) /\ UNCHANGED dm
  /\ UNCHANGED <<devcb, opncb, reqcb, diswai, drv, dissus, DisSusCnt, devhist>>

DevNext == \E t \in Tsk :
  \/ \E d \in Dev : \/ _tk_def_dev(t, d)
                    \/ \E u \in 0..1, m \in Omodes : _tk_opn_dev(t, d, u, m)
  \/ _tk_opn_dev_Done(t)
  \/ \E o \in Opn : \/ _tk_rea_dev(t, o) \/ _tk_wri_dev(t, o)
                    \/ _tk_wai_dev_Any(t, o)
                    \/ \E r \in Req : _tk_wai_dev(t, o, r)
                    \/ _tk_cls_dev(t, o)
  \/ request_Done(t) \/ _tk_wai_dev_Done(t)
  \/ abort_allrequest(t) \/ TestCount(t) \/ SyncWaitDM(t)
  \/ SyncWaitDM_Released(t)
  \/ WaitRemaining(t) \/ WaitRemaining_Done(t)
  \/ close_device(t) \/ close_device_Done(t)
  \/ \E g \in Groups : devmgr_cleanup(t, g)
  \/ devmgr_cleanup_Next(t)
  \/ _tk_sus_dev_DISSUS(t) \/ _tk_sus_dev_ENASUS(t)
  \/ \E force \in BOOLEAN : _tk_sus_dev_SUSPEND(t, force)
  \/ do_suspend(t)

DevSpec == DevInit /\ [][DevNext]_devvars

-----------------------------------------------------------------------------
At(steps) == {t \in Tsk : stage[t].at \in steps}
Closing == {"ABORT", "TEST", "SYNC", "DRAIN", "DRAINFN", "CLOSE", "CLOSEFN"}

(* In the driver with a request.                                           *)
InFn == {"EXECFN", "WAITFN", "WAITANY"}

(* A block is open for its group, or with the one call that opens or closes*)
(* it; it leaves the queues for closefn only.                              *)
OpensExact == \A o \in Opn :
  LET with == {t \in At({"OPENFN"} \cup Closing) : stage[t].opn = o} IN
  IF opncb[o] = NODEV THEN with = {}
  ELSE /\ Cardinality(with) = (IF opncb[o].resid = NULL THEN 1 ELSE 0)
       /\ opncb[o].linked <=> (with \cap At({"CLOSEFN"}) = {})
       /\ devcb[opncb[o].dev] = NODEV => ~opncb[o].linked

(* A request is in the queue of the descriptor it was made on, and no other*)
(* is there, even if two tasks complete it.                                *)
RequestsExact ==
  /\ \A r \in Req : reqcb[r] # NODEV => \E o \in Opn : o = reqcb[r].opn /\ opncb[o] # NODEV
  /\ \A o \in Opn : opncb[o] # NODEV =>
       /\ IsInjective(opncb[o].requestq)
       /\ ToSet(opncb[o].requestq) = {r \in Req : reqcb[r] # NODEV /\ reqcb[r].opn = o}

(* A request is in the driver at most once.                                *)
RequestsOnce ==
  /\ \A r \in Req : Cardinality({t \in Tsk : r \in stage[t].reqs}) <= 1
  /\ \A t \in Tsk : \A r \in stage[t].reqs : reqcb[r] # NODEV /\ reqcb[r].opn = stage[t].opn

(* Once a close has waited for the requests in process, no other task has  *)
(* one of the descriptor in the driver ("Wait for completion of abort      *)
(* request processing").                                                   *)
AbortCompleted == \A t \in At({"DRAIN", "DRAINFN", "CLOSE", "CLOSEFN"}) :
  \A x \in At(InFn) : stage[x].opn # stage[t].opn

(* A close that waits is woken when the last request has left the driver,  *)
(* though it looks at abort_cnt without a lock, and a wait that was        *)
(* disabled for nothing is so only until the close is over.                *)
AbortSignalled ==
  /\ \A t \in At({"SYNC"}) : InProcess(stage[t].opn) = 0 <=> t \in diswai
  /\ diswai \subseteq At(Closing \ {"ABORT"})
  /\ \A o \in Opn : opncb[o] # NODEV /\ opncb[o].abort_tskid # NULL =>
       opncb[o].abort_cnt = InProcess(o)

(* Nobody reads or writes a unit that another has open exclusively.        *)
ModesRespected == \A d \in Dev : \A o, p \in Opens(d) :
  o # p /\ SameUnit(opncb[o].unit, opncb[p].unit) => ~Conflict(opncb[o].omode, opncb[p].omode)

(* The driver has a unit open if and as often as it has to know of it.     *)
DriverInformed == \A u \in Unit \ refused :
  LET open == {o \in Opens(u[1]) : opncb[o].unit = u[2]}
      busy == {t \in At({"OPENFN", "CLOSEFN"}) :
                 opncb[stage[t].opn].dev = u[1] /\ opncb[stage[t].opn].unit = u[2]}
  IN  busy = {} => (drv[u] > 0 <=> open # {})

SuspensionExact ==
  /\ DisSusCnt = Cardinality({c \in Groups \X (1..MAX_DISSUS) : c[2] <= dissus[c[1]]})
  /\ dm # NULL => reg = dm

(* What a close does with the requests in the driver is right as long as   *)
(* it can see them, see unseen.                                            *)
DevicesConsistent ==
  /\ OpensExact /\ RequestsExact /\ ModesRespected /\ DriverInformed /\ SuspensionExact
  /\ ~unseen => RequestsOnce /\ AbortCompleted /\ AbortSignalled

=============================================================================
