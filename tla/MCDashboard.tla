---------------------------- MODULE MCDashboard ----------------------------
(***************************************************************************)
(* Two logins, two GET requests under way at a time, two changes of what   *)
(* is polled and two writes of a copy.                                     *)
(***************************************************************************)
EXTENDS Dashboard

CONSTANTS k1, k2, c1, c2
=============================================================================
