------------------------------ MODULE MCMonitor ------------------------------
(* Small instances of Monitor: a process with two readers; one that takes   *)
(* the name of another, which may die; and one beside that other.            *)
EXTENDS Monitor

CONSTANTS m1, m2, m3, m4, r1, r2, A, B

ThirdReturns == {[c \in Conns |-> IF c \in {m2, m3} THEN B ELSE A]}
FirstReads == [r \in Readers |-> m1]
=============================================================================
