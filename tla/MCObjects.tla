----------------------------- MODULE MCObjects -----------------------------
(* A small instance of Objects for TLC. *)
EXTENDS Objects, TLC

CONSTANTS t1, t2, t3, m1, m2, m3, byte_a, byte_b, byte_c, byte_d

Symm == Permutations(Task)

Queues == ({"SEM"} \X SemId) \cup ({"FLG"} \X FlgId) \cup ({"MBX"} \X MbxId)
  \cup ({"SMBF", "RMBF"} \X MbfId) \cup ({"MPF"} \X MpfId) \cup ({"MPL"} \X MplId)
  \cup ({"CAL", "ACP"} \X PorId)

Atr(tpri) == [tpri |-> tpri, nodiswai |-> FALSE]
Fifo == Atr(FALSE)
Tpri == Atr(TRUE)
Hard == [Fifo EXCEPT !.nodiswai = TRUE]
Atrs == {Tpri, Hard}

Sem1 == {[tpri |-> TRUE, cnt |-> FALSE, nodiswai |-> FALSE],
         [tpri |-> FALSE, cnt |-> TRUE, nodiswai |-> TRUE],
         [tpri |-> TRUE, cnt |-> TRUE, nodiswai |-> FALSE]}
Flg1 == {[tpri |-> TRUE, wmul |-> TRUE, nodiswai |-> FALSE],
         [tpri |-> FALSE, wmul |-> FALSE, nodiswai |-> TRUE]}
Mbx1 == {[tpri |-> TRUE, mpri |-> TRUE, nodiswai |-> FALSE],
         [tpri |-> FALSE, mpri |-> FALSE, nodiswai |-> FALSE]}

(* TWF_ANDW and TWF_ORW, with and without clearing. *)
Modes == {{}, {"ORW", "CLR"}, {"BITCLR"}}

Priorities == m1 :> 1 @@ m2 :> 2 @@ m3 :> 1

Short == {<<byte_a>>}
Long == <<byte_b, byte_c, byte_d>>

(* tk_dis_wai of everything, and of the wait for a reply only. *)
Masks == {{"SLP", "EV1", "SEM", "FLG", "MBX", "SMBF", "RMBF", "MPF", "MPL", "CAL", "ACP", "RDV"},
          {"RDV"}}

Messages == Short \cup {Long}
Ports == {[atr |-> Tpri, maxcmsz |-> 1, maxrmsz |-> 2], [atr |-> Hard, maxcmsz |-> 1, maxrmsz |-> 1]}
Patterns == {{1}, {2}}

=============================================================================
