---------------------------- MODULE MCMatchList ----------------------------
(* MatchList on a version file of a few bytes. *)
EXTENDS MatchList
=============================================================================
