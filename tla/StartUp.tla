------------------------------ MODULE StartUp ------------------------------
(***************************************************************************)
(* The system from reset to its end (icrt0.S, sysinit_main.c,              *)
(* sysstartup.c, devinit.c, tkstart.c, mp_util.c, smmain.c and the         *)
(* xxx_initialize functions).  Every processor runs main(); the first one  *)
(* initialises the kernel while the others wait in waitForEvent, and all   *)
(* of them end in the dispatcher, where the initial task takes over: it    *)
(* starts the managers, runs, and finishes them.                           *)
(*                                                                         *)
(* A function is the sequence of its steps.  A step creates a table, a     *)
(* lock, a task ("make"), takes it away ("drop"), only uses what is there  *)
(* ("use"), or is one of the synchronising steps that have an action of    *)
(* their own.  "uses" are the things the code of the step refers to; that  *)
(* they exist is nowhere tested by the code, it is what the order of the   *)
(* steps has to ensure.  A step that can fail names the label it goes to.  *)
(***************************************************************************)
EXTENDS Integers, Sequences, FiniteSets

CONSTANTS
    Prid,         \* the processors
    Boot,       \* the one whose get_prid() is 0
    MayFail,     \* the things whose creation may fail (no memory, no configuration)
    EarlyEvent   \* wfe may return before sev was executed

ASSUME StartAssumption == Boot \in Prid /\ EarlyEvent \in BOOLEAN

InitTask == "init_task"
Thread   == Prid \cup {InitTask}
NoOne    == "nobody"

VARIABLES
    todo,       \* todo[t]: the steps thread t has before it
    there,    \* the things that exist, each with what it uses
    sync,     \* sync of mp_util.c
    event,    \* event[c]: the event register of processor c
    lock,     \* the holder of SpinLockObj, the kernel lock
    running,  \* the processors that have entered the dispatcher
    stopped   \* the threads that ended in tm_monitor

startvars == <<todo, there, sync, event, lock, running, stopped>>

Make(x, uses, err) == <<[do |-> "make", what |-> x, uses |-> uses, err |-> err]>>
Drop(x)            == <<[do |-> "drop", what |-> x, uses |-> {}, err |-> "none"]>>
Use(uses)          == <<[do |-> "use", what |-> "nothing", uses |-> uses, err |-> "none"]>>
Sync(what)         == <<[do |-> what, what |-> "nothing", uses |-> {}, err |-> "none"]>>

----------------------------------------------------------------------------
(* The modules of the kernel.  Each reads its size from the configuration  *)
(* and gets its table with Imalloc; InitModule stops when one fails.       *)

Table(x) == Make(x, {"Imalloc"}, "monitor")

task_initialize           == Table("task")
semaphore_initialize      == Table("semaphore")
eventflag_initialize      == Table("eventflag")
mailbox_initialize        == Table("mailbox")
messagebuffer_initialize  == Table("messagebuffer")
rendezvous_initialize     == Table("rendezvous")
mutex_initialize          == Table("mutex")
memorypool_initialize     == Table("memorypool")
fix_memorypool_initialize == Table("fix_memorypool")
cyclichandler_initialize  == Table("cyclichandler")
alarmhandler_initialize   == Table("alarmhandler")
subsystem_initialize      == Table("subsystem")
resource_group_initialize == Table("resource_group")

\* NUM_xxxID: the sizes that mp_domain_initialize gives its tables of keys
\* are set by the modules before it.
Named == {"task", "semaphore", "eventflag", "mailbox", "messagebuffer", "rendezvous",
          "mutex", "memorypool", "fix_memorypool", "cyclichandler", "alarmhandler"}
mp_domain_initialize == Make("mp_domain", {"Imalloc"} \cup Named, "monitor")

handler_initialize == Make("handler_queue", {}, "none")
timer_initialize   == handler_initialize \o Make("timer", {"handler_queue", "vectors"}, "monitor")

\* FlushCache in it is a call between processors (cache.c, smpcall_drv.c).
cpu_initialize(c) ==
    IF c = Boot THEN Use({"smpc"}) \o Make("vectors", {}, "none") ELSE <<>>
tkdev_initialize  == Make("tkdev", {}, "none")

\* tk_def_int takes the kernel lock; the other processors only enable.
mp_int_init(c) ==
    IF c = Boot THEN Make("mp_int", {"SpinLockObj", "vectors"}, "none") ELSE Use({"mp_int"})

\* _tk_cre_tsk and _tk_sta_tsk of the initial task; num_proc is read by
\* cpu_initialize.
init_task_startup ==
    Make(InitTask, {"SpinLockObj", "Imalloc", "task", "mp_domain", "vectors"}, "monitor")

----------------------------------------------------------------------------
(* Before the kernel: main, init_system, t_kernel_main.                    *)

\* lowmem_top moves up behind the stacks before init_memmgr takes what is
\* left of the memory.
init_device(c) ==
    IF c = Boot
      THEN Make("SpinLockObj", {"bss"}, "none") \o Make("stacks", {"bss"}, "none")
           \o Make("smpc", {"bss"}, "none")
      ELSE Sync("wfe") \o Sync("arrive") \o Sync("released")
           \o Use({"stacks"}) \o Use({"smpc"})

init_subsystems == <<>>
init_segmgr     == <<>>
init_memmgr     == Make("memmgr", {"stacks"}, "monitor")
init_Imalloc    == Make("Imalloc", {"memmgr"}, "monitor")

init_system(c) ==
    IF c = Boot
      THEN init_device(c) \o init_subsystems \o init_segmgr \o init_memmgr \o init_Imalloc
      ELSE init_device(c) \o init_segmgr

Modules ==
    tkdev_initialize
    \o task_initialize \o semaphore_initialize \o eventflag_initialize \o mailbox_initialize
    \o messagebuffer_initialize \o rendezvous_initialize \o mutex_initialize
    \o memorypool_initialize \o fix_memorypool_initialize
    \o cyclichandler_initialize \o alarmhandler_initialize
    \o subsystem_initialize \o resource_group_initialize
    \o timer_initialize \o mp_domain_initialize

setEvent == Sync("sev") \o Sync("all arrived")

\* a release of the others before the modules are there
t_kernel_main_EventFirst(c) ==
    cpu_initialize(c)
    \o mp_int_init(c)
    \o (IF c = Boot THEN setEvent \o Modules \o init_task_startup ELSE <<>>)
    \o Sync("CountSpinLock") \o Sync("force_dispatch")

t_kernel_main(c) ==
    cpu_initialize(c)
    \o (IF c = Boot THEN Modules \o init_task_startup ELSE <<>>)
    \o mp_int_init(c)
    \o (IF c = Boot THEN setEvent ELSE <<>>)
    \o Sync("CountSpinLock") \o Sync("force_dispatch")

main(c) == init_system(c) \o t_kernel_main(c)

\* The other processors leave the data alone.
START(c) == (IF c = Boot THEN Sync("clrbss") ELSE <<>>) \o main(c)

----------------------------------------------------------------------------
(* The managers: their services are extended SVCs (tk_def_ssy), and what   *)
(* the entry of a service refers to is what the service uses.              *)

def_ssy(x, uses, err) == Make(x, {"subsystem"} \cup uses, err)

start_segmgr  == def_ssy("segmgr", {"memmgr"}, "monitor")
finish_segmgr == Drop("segmgr")

start_memmgr  == Make("MemLock", {"semaphore", "mp_domain"}, "monitor")
finish_memmgr == <<>>

initKernelCommonArea == Make("CommonArea", {"bss"}, "none")
\* the buffer, then the task, which ends when the buffer is deleted
syslog_initialize ==
    Make("log_mbf", {"messagebuffer", "mp_domain"}, "finish")
    \o Make("log_task", {"task", "mp_domain"}, "finish")
syslog_finish == Drop("log_mbf") \o Drop("log_task")

initialize_sysmgr ==
    initKernelCommonArea \o syslog_initialize
    \o def_ssy("sysmgr", {"CommonArea", "log_mbf", "MemLock", "memmgr"}, "finish")
finish_sysmgr == Drop("sysmgr") \o syslog_finish

initDevCB == Make("DevCBtbl", {"Imalloc"}, "finish_devmgr")
initDevIO == Make("OpnCBtbl", {"Imalloc"}, "finish_devmgr")
             \o Make("ReqCBtbl", {"Imalloc"}, "finish_devmgr")
initIDev  == Make("evtmbf", {"messagebuffer", "mp_domain"}, "finish_devmgr")
delIDev   == Drop("evtmbf")
finishDevIO == Drop("OpnCBtbl") \o Drop("ReqCBtbl")

initialize_devmgr ==
    Make("DevMgrLock", {"eventflag", "mp_domain"}, "finish_devmgr")
    \o Make("DevMgrSync", {"semaphore", "mp_domain"}, "finish_devmgr")
    \o initDevCB \o initDevIO \o initIDev
    \o def_ssy("devmgr",
               {"DevMgrLock", "DevMgrSync", "DevCBtbl", "OpnCBtbl", "ReqCBtbl", "evtmbf"},
               "finish_devmgr")

\* the tables freed before the service is taken away
finish_devmgr_TablesFirst ==
    delIDev \o finishDevIO \o Drop("devmgr") \o Drop("DevCBtbl") \o Drop("DevMgrSync")
    \o Drop("DevMgrLock")

finish_devmgr ==
    Drop("devmgr") \o delIDev \o finishDevIO \o Drop("DevCBtbl") \o Drop("DevMgrSync")
    \o Drop("DevMgrLock")

initialize == initialize_sysmgr \o initialize_devmgr
\* a finish that trusts initialize_devmgr to clean up
finish_SysmgrAlone == Drop("sysmgr")

finish     == finish_devmgr \o finish_sysmgr
\* SystemManager(0): what is left to do when a step of it fails.
OnError(err) ==
    CASE err = "monitor"       -> <<>>
      [] err = "finish"        -> finish
      [] err = "finish_devmgr" -> finish_devmgr \o finish

\* KnlInit and _tkm_init call the system manager.
_InitLibtk   == Use({"sysmgr"}) \o Make("LibLock", {"eventflag", "mp_domain", "sysmgr"}, "none")
_FinishLibtk == Drop("LibLock")

start_device     == <<>>
start_subsystems == <<>>

start_system ==
    start_segmgr \o start_memmgr \o initialize \o _InitLibtk
    \o Use({"task"}) \o start_device \o start_subsystems

finish_subsystems == <<>>
finish_device     == <<>>
\* cpu_shutdown puts back the monitor's own handlers, which nobody replaced.
t_kernel_shutdown == Drop("timer")
t_kernel_exit     == t_kernel_shutdown \o Sync("tkdev_exit")

\* restart_device does not come back for a restart, and comes back with an
\* error for what it does not support.
restart_device == Sync("restart_device")

\* the library finished last
shutdown_system_LibraryLast ==
    finish_subsystems \o finish_device \o finish
    \o finish_memmgr \o finish_segmgr \o _FinishLibtk \o restart_device \o t_kernel_exit

shutdown_system ==
    finish_subsystems \o finish_device \o _FinishLibtk \o finish
    \o finish_memmgr \o finish_segmgr \o restart_device \o t_kernel_exit

init_task == start_system \o Sync("init_task_main") \o shutdown_system

----------------------------------------------------------------------------
Names == {x.what : x \in there}

StartInit ==
    /\ todo = [t \in Thread |-> IF t \in Prid THEN START(t) ELSE <<>>]
    /\ there = {}
    /\ sync \in {0, 1}              \* what the memory holds before it is cleared
    /\ event = [c \in Prid |-> FALSE]
    /\ lock = NoOne
    /\ running = {}
    /\ stopped = {}

At(t, what) == todo[t] # <<>> /\ Head(todo[t]).do = what
GoesOn(t)     == todo' = [todo EXCEPT ![t] = Tail(@)]

Makes(t) ==
    /\ At(t, "make")
    /\ LET s == Head(todo[t]) IN there' = there \cup {[what |-> s.what, uses |-> s.uses]}
    /\ GoesOn(t)
    /\ UNCHANGED <<sync, event, lock, running, stopped>>

\* The error path: back out, then tm_monitor.
init_module_Fails(t) ==
    /\ At(t, "make")
    /\ LET s == Head(todo[t])
       IN /\ s.what \in MayFail /\ s.err # "none"
          /\ todo' = [todo EXCEPT ![t] = OnError(s.err) \o Sync("tm_monitor")]
    /\ UNCHANGED <<there, sync, event, lock, running, stopped>>

Drops(t) ==
    /\ At(t, "drop")
    /\ there' = {x \in there : x.what # Head(todo[t]).what}
    /\ GoesOn(t)
    /\ UNCHANGED <<sync, event, lock, running, stopped>>

Uses(t) ==
    /\ At(t, "use") /\ GoesOn(t)
    /\ UNCHANGED <<there, sync, event, lock, running, stopped>>

tm_monitor(t) ==
    /\ At(t, "tm_monitor")
    /\ todo' = [todo EXCEPT ![t] = <<>>]
    /\ stopped' = stopped \cup {t}
    /\ UNCHANGED <<there, sync, event, lock, running>>

clrbss(c) ==
    /\ At(c, "clrbss")
    /\ sync' = 0
    /\ there' = there \cup {[what |-> "bss", uses |-> {}]}
    /\ GoesOn(c)
    /\ UNCHANGED <<event, lock, running, stopped>>

waitForEvent(c) ==
    /\ At(c, "wfe") /\ (event[c] \/ EarlyEvent)
    /\ event' = [event EXCEPT ![c] = FALSE]
    /\ GoesOn(c)
    /\ UNCHANGED <<there, sync, lock, running, stopped>>

atomic_inc(c) ==
    /\ At(c, "arrive")
    /\ sync' = sync + 1
    /\ GoesOn(c)
    /\ UNCHANGED <<there, event, lock, running, stopped>>

waitForEvent_Released(c) ==
    /\ At(c, "released") /\ sync = 0
    /\ GoesOn(c)
    /\ UNCHANGED <<there, sync, event, lock, running, stopped>>

sev(c) ==
    /\ At(c, "sev")
    /\ event' = [d \in Prid |-> TRUE]
    /\ GoesOn(c)
    /\ UNCHANGED <<there, sync, lock, running, stopped>>

\* a release that counts one processor too few
Arrived_OneShort == Cardinality(Prid) - 2

Arrived == Cardinality(Prid) - 1
setEvent_Wait(c) ==
    /\ At(c, "all arrived") /\ sync = Arrived
    /\ sync' = 0
    /\ GoesOn(c)
    /\ UNCHANGED <<there, event, lock, running, stopped>>

CountSpinLock(c) ==
    /\ At(c, "CountSpinLock") /\ lock = NoOne
    /\ lock' = c
    /\ GoesOn(c)
    /\ UNCHANGED <<there, sync, event, running, stopped>>

\* The dispatcher is entered with the lock and lets go of it there
\* (Dispatcher.tla has what it does then).
force_dispatch(c) ==
    /\ At(c, "force_dispatch")
    /\ running' = running \cup {c}
    /\ lock' = NoOne
    /\ GoesOn(c)
    /\ UNCHANGED <<there, sync, event, stopped>>

\* A processor in the dispatcher takes the initial task, once.
Begins ==
    /\ running # {} /\ todo[InitTask] = <<>>
    /\ InitTask \in Names /\ InitTask \notin stopped
    /\ todo' = [todo EXCEPT ![InitTask] = init_task]
    /\ UNCHANGED <<there, sync, event, lock, running, stopped>>

\* init_task_main comes back when the user ends the system.
init_task_main(t) ==
    /\ At(t, "init_task_main") /\ GoesOn(t)
    /\ UNCHANGED <<there, sync, event, lock, running, stopped>>

\* Power off or reset: no thread goes on.
Ends ==
    /\ todo' = [u \in Thread |-> <<>>]
    /\ stopped' = Thread

restart(t) ==
    /\ At(t, "restart_device")
    /\ \/ GoesOn(t) /\ UNCHANGED stopped
       \/ Ends                                \* tm_exit(-1), tm_command
    /\ UNCHANGED <<there, sync, event, lock, running>>

tkdev_exit(t) ==
    /\ At(t, "tkdev_exit") /\ Ends
    /\ UNCHANGED <<there, sync, event, lock, running>>

Step(t) ==
    \/ Makes(t) \/ init_module_Fails(t) \/ Drops(t) \/ Uses(t) \/ tm_monitor(t)
    \/ restart(t) \/ tkdev_exit(t)

StepOf(c) ==
    \/ clrbss(c) \/ waitForEvent(c) \/ atomic_inc(c) \/ waitForEvent_Released(c)
    \/ sev(c) \/ setEvent_Wait(c) \/ CountSpinLock(c) \/ force_dispatch(c)

StartNext ==
    \/ \E t \in Thread : Step(t)
    \/ \E c \in Prid : StepOf(c)
    \/ Begins
    \/ init_task_main(InitTask)

StartSpec == StartInit /\ [][StartNext]_startvars

\* A processor executes its program; only the user decides when to end.
StartFairSpec ==
    /\ StartSpec
    /\ \A t \in Thread : WF_startvars(Step(t))
    /\ \A c \in Prid : WF_startvars(StepOf(c))
    /\ WF_startvars(Begins)

----------------------------------------------------------------------------
(***************************************************************************)
(* What a step refers to has been created before, and a thing is taken     *)
(* away only after everything that refers to it: on the way up, on the way *)
(* down, and on the error paths between them (sysstartup.c:57-214,         *)
(* tkstart.c:77-165, device.c:728-835).                                    *)
(***************************************************************************)
UsesMet ==
    /\ \A t \in Thread : todo[t] # <<>> => Head(todo[t]).uses \subseteq Names
    /\ \A x \in there : x.uses \subseteq Names

(***************************************************************************)
(* No processor takes interrupts or runs a task before the first one has   *)
(* initialised every module (setEvent, tkstart.c:156, against the wait in  *)
(* init_device, devinit.c:163).                                            *)
(***************************************************************************)
KernelReady ==
    running # {} =>
        Named \cup {"mp_domain", "subsystem", "resource_group", "mp_int", InitTask} \subseteq Names

(***************************************************************************)
(* A system that could not start its managers, or has shut them down,      *)
(* leaves nothing of theirs: SystemManager calls finish() after an         *)
(* initialize() that failed half-way, and initialize_devmgr has called     *)
(* finish_devmgr itself then (smmain.c:117-120, device.c:782).             *)
(***************************************************************************)
NothingLeft ==
    InitTask \in stopped =>
        Names \cap {"log_mbf", "log_task", "sysmgr", "DevMgrLock", "DevMgrSync", "DevCBtbl",
                    "OpnCBtbl", "ReqCBtbl", "evtmbf", "devmgr"} = {}

(***************************************************************************)
(* Every processor reaches the dispatcher, unless the start fails: the     *)
(* barrier of mp_util.c lets all of them through, once.                    *)
(***************************************************************************)
UpOrFailed  == running = Prid \/ stopped # {}
AllDispatch == []<>UpOrFailed
=============================================================================
