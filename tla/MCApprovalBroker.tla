-------------------------- MODULE MCApprovalBroker --------------------------
(* Bounded instances of ApprovalBroker.                                    *)
EXTENDS ApprovalBroker
=============================================================================
