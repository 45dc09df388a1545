----------------------------- MODULE MCSessions ------------------------------
(* Model-checking instance of Sessions: its configurations give every constant. *)
EXTENDS Sessions
==============================================================================
