------------------------------ MODULE MCCFile ------------------------------
(* CFile on files of a few bytes, with pages of one or two bytes. *)
EXTENDS CFile

\* Windows that overlap, start apart and end apart; the last one is empty, so
\* that its handle has no limit.
SeveralWindows == {<<0, 3>>, <<1, 4>>, <<1, 1>>}

\* Windows of one byte for runs with two children, and one that covers both.
SmallWindows == {<<0, 1>>, <<1, 2>>, <<0, 2>>}

\* A window, and a request that only fits a parent of two bytes.
NestedWindows == {<<2, 4>>, <<0, 2>>}

=============================================================================
