---------------------------- MODULE MCDispatcher ----------------------------
(* Small instances of the dispatchers for TLC. *)
EXTENDS ShDispatch, TLC

CONSTANTS t1, t2, t3

Two == {t1, t2}
Three == {t1, t2, t3}
Equal == [t \in Task |-> 1]
FirstLow == [t \in Task |-> IF t = InitTask THEN 2 ELSE 1]
AnyCore == [t \in Task |-> Core]
SecondOnOne == [t \in Task |-> IF t = t2 THEN {1} ELSE Core]
=============================================================================
