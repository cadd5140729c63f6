------------------------------ MODULE MCIntake ------------------------------
(* Constants of Intake for TLC. *)
EXTENDS Intake

CONSTANT t1

MCTokenOf == [c \in Callback |-> t1]
=============================================================================
