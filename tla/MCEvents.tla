------------------------------- MODULE MCEvents -------------------------------
(***************************************************************************)
(* EventServices for TLC: topics of two messages, with each kind that the  *)
(* service tells apart.                                                    *)
(***************************************************************************)
EXTENDS EventServices

MCLogs == [analytics    |-> {<<"known", "known">>, <<"order", "known">>},
           notification |-> {<<"known", "badAddress">>, <<"poison", "known">>}]
=============================================================================
