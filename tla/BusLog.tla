------------------------------- MODULE BusLog -------------------------------
(***************************************************************************)
(* What the generations of a Bus promise together: one log of rows.  Rows  *)
(* are appended at the end and become durable from the front; a power loss *)
(* may cut rows off the end, never one that is durable.  Nothing reorders, *)
(* changes or repeats a row.                                               *)
(***************************************************************************)
EXTENDS Naturals, Sequences

VARIABLES stream, durable

Init == durable = Len(stream)

AppendOne ==
    /\ Len(stream') = Len(stream) + 1
    /\ \A n \in 1..Len(stream) : stream'[n] = stream[n]
    /\ durable' = durable

MakeDurable == durable' \in durable..Len(stream) /\ stream' = stream

PowerLoss ==
    /\ Len(stream') \in durable..Len(stream)
    /\ \A n \in 1..Len(stream') : stream'[n] = stream[n]
    /\ durable' = Len(stream')

Next == AppendOne \/ MakeDurable \/ PowerLoss

Spec == Init /\ [][Next]_<<stream, durable>>
=============================================================================
