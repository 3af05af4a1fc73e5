------------------------------- MODULE SysLog -------------------------------
(***************************************************************************)
(* The system log: tasks that log messages, the message buffer between     *)
(* them and the log task, and the switch logtask_alive that turns them to  *)
(* the monitor's own output once the log task does not keep up.  The switch*)
(* is an ordinary variable that everybody reads and writes without a lock. *)
(* How a message is written out, character by character, is left out.      *)
(***************************************************************************)
EXTENDS Integers, SequencesExt

CONSTANTS
  Sender,    \* the tasks that log
  Size,      \* how many messages the buffer takes
  MaxMsg,    \* bound on the messages of each sender
  MayFinish, \* finish_syslog is called at some time
  Early,     \* initialize_syslog may return before the log task has begun
  Patient    \* svc_syslog_wait does not give up after its fifty rounds

ASSUME LogAssumption ==
  Size \in Nat \ {0} /\ MaxMsg \in Nat /\ {MayFinish, Early, Patient} \subseteq BOOLEAN

VARIABLES
  logtask_alive,  \* logtask_alive
  mbf,            \* the messages in the buffer log_mbfid
  open,           \* the buffer exists
  log,            \* where the log task is
  msg,            \* logtask_buf: the message the log task writes, if any
  at,             \* where each sender is
  sent,           \* how many messages it has logged, the one in hand included
  out,            \* the messages written, in order
  deleted         \* the messages that were in the buffer when it was deleted

sender == <<at, sent>>
logTask == <<log, msg>>
buffer == <<mbf, open, deleted>>
logVars == <<logtask_alive, buffer, logTask, sender, out>>

Current(s) == <<s, sent[s]>>
LogGoes(s, where) == at' = [at EXCEPT ![s] = where]
Written(m) == out' = Append(out, m)

-----------------------------------------------------------------------------
(* Senders: __syslog_send *)

(* The log task has set logtask_alive, then log_msg_maxmsz. *)
Begun == log \notin {"none", "started", "alive"}

(* The first look at the switch, and the length, which log_msg_maxmsz cuts *)
(* to 0 as long as the log task has not set it.                            *)
__syslog_send(s) ==
  /\ at[s] = "idle" /\ sent[s] < MaxMsg
  /\ ~Begun => log = "none" \/ Early
  /\ sent' = [sent EXCEPT ![s] = @ + 1]
  /\ LogGoes(s, IF ~logtask_alive THEN "look" ELSE IF Begun THEN "queue" ELSE "empty")
  /\ UNCHANGED <<logtask_alive, buffer, logTask, out>>

tk_snd_mbf_Drops(s) ==
  /\ at[s] = "queue"
  /\ mbf' = IF open /\ Len(mbf) < Size THEN Append(mbf, Current(s)) ELSE mbf
  /\ LogGoes(s, "look")
  /\ UNCHANGED <<logtask_alive, open, deleted, logTask, sent, out>>

(* tk_snd_mbf(TMO_POL): a buffer that is full or deleted, or the length 0, *)
(* turns the switch off, for all of them; of length 0, nothing is left to  *)
(* write.                                                                  *)
tk_snd_mbf(s) ==
  /\ at[s] \in {"queue", "empty"}
  /\ IF at[s] = "queue" /\ open /\ Len(mbf) < Size
     THEN mbf' = Append(mbf, Current(s)) /\ UNCHANGED logtask_alive
     ELSE logtask_alive' = FALSE /\ UNCHANGED mbf
  /\ LogGoes(s, IF at[s] = "queue" THEN "look" ELSE "idle")
  /\ UNCHANGED <<open, deleted, logTask, sent, out>>

(* The second look; sys_write. *)
sys_write(s) ==
  /\ at[s] = "look"
  /\ IF logtask_alive THEN UNCHANGED out ELSE Written(Current(s))
  /\ LogGoes(s, "idle")
  /\ UNCHANGED <<logtask_alive, buffer, logTask, sent>>

(* The log task waits in tk_rcv_mbf: rmbf.wtsk > 0. *)
wtsk == log = "receive" /\ open /\ mbf = <<>>

svc_syslog_wait(s) ==
  \/ /\ at[s] = "idle"
     /\ LogGoes(s, IF logtask_alive THEN "wait" ELSE "waited")
     /\ UNCHANGED <<logtask_alive, buffer, logTask, sent, out>>
  \/ /\ at[s] = "wait"
     /\ ~open \/ wtsk \/ ~Patient
     /\ LogGoes(s, "waited")
     /\ UNCHANGED <<logtask_alive, buffer, logTask, sent, out>>
  \/ /\ at[s] = "waited"
     /\ LogGoes(s, "idle")
     /\ UNCHANGED <<logtask_alive, buffer, logTask, sent, out>>

-----------------------------------------------------------------------------
(* The log task *)

(* The starting task calls it; it lowers its priority to let the log task  *)
(* begin, which does not wait for it if there is another processor.        *)
initialize_syslog ==
  /\ log = "none" /\ \A s \in Sender : at[s] = "idle"
  /\ open' = TRUE
  /\ log' = "started"
  /\ UNCHANGED <<logtask_alive, mbf, deleted, msg, sender, out>>

log_task ==
  /\ \/ log = "started" /\ logtask_alive' = TRUE /\ log' = "alive"
     \/ log = "alive" /\ log' = "receive" /\ UNCHANGED logtask_alive
  /\ UNCHANGED <<buffer, msg, sender, out>>

(* tk_rcv_mbf: a message, or an error when the buffer is gone. *)
tk_rcv_mbf ==
  /\ log = "receive"
  /\ \/ /\ mbf # <<>>
        /\ msg' = {Head(mbf)}
        /\ mbf' = Tail(mbf)
        /\ log' = "write"
     \/ /\ ~open
        /\ log' = "leave"
        /\ UNCHANGED <<mbf, msg>>
  /\ UNCHANGED <<logtask_alive, open, deleted, sender, out>>

console_out_Leaves ==
  /\ log = "write"
  /\ \E ok \in BOOLEAN : log' = IF ok THEN "receive" ELSE "leave"
  /\ \E m \in msg : Written(m)
  /\ msg' = {}
  /\ UNCHANGED <<logtask_alive, buffer, sender>>

(* console_out, or sys_write when the console fails. *)
console_out ==
  /\ log = "write"
  /\ log' = "receive"
  /\ \E m \in msg : Written(m)
  /\ msg' = {}
  /\ UNCHANGED <<logtask_alive, buffer, sender>>

log_task_Ends ==
  /\ log = "leave"
  /\ logtask_alive' = FALSE
  /\ log' = "gone"
  /\ UNCHANGED <<buffer, msg, sender, out>>

(* tk_del_mbf with what is in it. *)
finish_syslog ==
  /\ MayFinish /\ open
  /\ open' = FALSE
  /\ deleted' = ToSet(mbf)
  /\ mbf' = <<>>
  /\ UNCHANGED <<logtask_alive, logTask, sender, out>>

-----------------------------------------------------------------------------
LogInit ==
  /\ logtask_alive = FALSE
  /\ mbf = <<>> /\ open = FALSE /\ deleted = {}
  /\ log = "none" /\ msg = {}
  /\ at = [s \in Sender |-> "idle"]
  /\ sent = [s \in Sender |-> 0]
  /\ out = <<>>

Sends(s) == tk_snd_mbf(s) \/ sys_write(s)
LogTask == log_task \/ tk_rcv_mbf \/ console_out \/ log_task_Ends

LogNext ==
  \/ \E s \in Sender : __syslog_send(s) \/ Sends(s) \/ svc_syslog_wait(s)
  \/ LogTask \/ initialize_syslog \/ finish_syslog

LogSpec == LogInit /\ [][LogNext]_logVars

(* Fairness: every task that is not waiting goes on. *)
LogFairSpec ==
  LogSpec /\ WF_logVars(LogTask) /\ \A s \in Sender : WF_logVars(Sends(s))

-----------------------------------------------------------------------------
(* Properties *)

Returned(s) == {<<s, i>> : i \in 1..(IF at[s] \in {"queue", "empty", "look"} THEN sent[s] - 1
                                                                    ELSE sent[s])}
Printed(m) == Contains(out, m)

(* A message that was logged is written, or will be: it is in the buffer   *)
(* or the log task has it.  Only finish_syslog throws messages away, those *)
(* it finds in the buffer, though switch and buffer change at any time.    *)
NoneLost ==
  \A s \in Sender : \A m \in Returned(s) :
    Printed(m) \/ m \in ToSet(mbf) \cup msg \cup deleted

(* Every message that was logged comes out in the end. *)
CaughtUp   == \A s \in Sender : \A m \in Returned(s) : Printed(m) \/ m \in deleted
AllPrinted == []<>CaughtUp

(* "Wait until log is completed": what the caller has logged is out.       *)
LogCompleted == \A s \in Sender : at[s] = "waited" => \A m \in Returned(s) : Printed(m)
=============================================================================
