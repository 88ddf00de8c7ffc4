------------------------------- MODULE BuffMC -------------------------------
(* Buff on small instances.                                                *)
EXTENDS Buff

\* All strings of one to MaxLen bytes.
AllData == UNION {[1..n -> Byte] : n \in 1..MaxLen}
=============================================================================
