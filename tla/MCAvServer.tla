------------------------------- MODULE MCAvServer -------------------------------
(* Instances of AvServer for TLC.                                            *)
EXTENDS AvServer

CONSTANTS l1, l2, w1

MCLan == {l1, l2}
MCWan == {w1}
================================================================================
