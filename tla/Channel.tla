------------------------------ MODULE Channel ------------------------------
(***************************************************************************)
(* What a mailbox and a message buffer promise: while it exists, messages  *)
(* come out in the order of their ranks and, for one rank, in the order in *)
(* which they were accepted; none is lost, made up or delivered twice.     *)
(***************************************************************************)
EXTENDS Integers, SequencesExt

CONSTANT Rank(_) \* a message of a lower rank overtakes

VARIABLES
  open, \* whether the object exists
  byrank, \* whether it orders messages by rank
  box,  \* the messages accepted and not delivered, the next one first
  io    \* what the last step accepted and delivered: [in, out]

(* After the messages of its rank. *)
Put(b, m) ==
  LET i == IF byrank THEN SelectInSeq(b, LAMBDA x : Rank(x) > Rank(m)) ELSE 0
  IN  IF i = 0 THEN Append(b, m) ELSE InsertAt(b, i, m)

Nothing == [in |-> <<>>, out |-> <<>>]

Init == ~open /\ box = <<>> /\ io = Nothing

Create == ~open /\ open' /\ box' = <<>> /\ io' = Nothing
Delete == open /\ ~open' /\ box' = <<>> /\ io' = Nothing
Transfer ==
  /\ open /\ open'
  /\ FoldLeft(Put, box, io'.in) = io'.out \o box'
Idle == UNCHANGED <<open, box>> /\ io' = Nothing

Next == Create \/ Delete \/ Transfer \/ Idle

Spec == Init /\ [][Next]_<<open, box, io>>

=============================================================================
