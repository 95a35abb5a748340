--------------------------- MODULE MCConsultation ---------------------------
(* Bounded instances of Consultation: the configurations name the turns.   *)
EXTENDS Consultation
=============================================================================
