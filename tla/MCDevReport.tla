------------------------------ MODULE MCDevReport ------------------------------
(* Instances of DevReport for TLC.                                           *)
EXTENDS DevReport

CONSTANTS in1, in2   \* two input terminals

OneInput  == {in1}
TwoInputs == {in1, in2}

\* Every report is sent again at the second tick without acknowledgement.
MCTimeout == [k \in Kind |-> 1]
================================================================================
