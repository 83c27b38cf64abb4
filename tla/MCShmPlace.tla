------------------------------- MODULE MCShmPlace -------------------------------
(* The instance of ShmPool in which a reader is sent to slot -1.             *)
EXTENDS ShmPool

CONSTANT r1
================================================================================
