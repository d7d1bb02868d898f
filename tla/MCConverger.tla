----------------------------- MODULE MCConverger -----------------------------
(* Small instances of Converger for TLC.  The first version of the component
   is replaced with startstop, the second with stopstart. *)
EXTENDS Converger, TLC

CONSTANTS c1, s1

MCOrderOf == <<"startstop", "stopstart">>
=============================================================================
