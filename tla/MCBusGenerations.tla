-------------------------- MODULE MCBusGenerations --------------------------
(* Bounded instances of BusGenerations.                                    *)
EXTENDS BusGenerations
=============================================================================
