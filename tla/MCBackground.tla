----------------------------- MODULE MCBackground -----------------------------
(***************************************************************************)
(* Background for TLC: one order, with the subject the code issues; two    *)
(* events and two relays; topics of two messages and a group of two.       *)
(***************************************************************************)
EXTENDS Background, MCSaga, MCEvents

MCBackgroundLogs == [MCLogs EXCEPT !.analytics = @ \cup {<<>>}]
=============================================================================
