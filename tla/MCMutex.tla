------------------------------ MODULE MCMutex ------------------------------
(* Small instances of Mutex for TLC. *)
EXTENDS Mutex, TLC

CONSTANTS t1, t2, t3

Symm == Permutations(Task)

A(k, c) == [kind |-> k, ceil |-> c, nodiswai |-> FALSE]

Tasks2 == {t1, t2}
Tasks3 == {t1, t2, t3}
IPriLow == [t \in Task |-> NPri]

InheritOnly == {A("INHERIT", 1)}
InheritMix == {A("INHERIT", 1), A("TPRI", 1), [A("TFIFO", 1) EXCEPT !.nodiswai = TRUE]}
BothProtocols == {A("INHERIT", 1), A("CEILING", 1), A("CEILING", 2)}

=============================================================================
