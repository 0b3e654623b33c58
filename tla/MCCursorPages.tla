---------------------------- MODULE MCCursorPages ----------------------------
(* Four rows with two sort values, so that pages of two end inside a group   *)
(* of equal values.                                                          *)
EXTENDS CursorPages
=============================================================================
