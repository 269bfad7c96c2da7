------------------------------- MODULE MCJobs -------------------------------
(***************************************************************************)
(* Small instances of Jobs for TLC.                                        *)
(***************************************************************************)
EXTENDS Jobs

CONSTANTS p1, x1, w1, w2, nobody
=============================================================================
