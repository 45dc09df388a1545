------------------------------ MODULE MCSeeding ------------------------------
(* Model-checking instance of Seeding. *)
EXTENDS Seeding

CONSTANTS law, excerpt, note
ReplacesLaw == [x \in {excerpt} |-> law]
==============================================================================
