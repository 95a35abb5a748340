--------------------------- MODULE ApprovalPromise --------------------------
(***************************************************************************)
(* What the approval gate promises the tool gateway, without its broker:   *)
(* a call that asked is settled once, and it is allowed only after the     *)
(* user approved that very registration.                                   *)
(***************************************************************************)
CONSTANTS Calls   \* registrations, one for every begin

VARIABLES asked,     \* the calls that asked
          approved,  \* the ones the user approved
          verdict    \* what each one was told: "none", "allow" or "refuse"

vars == <<asked, approved, verdict>>

Init == asked = {} /\ approved = {} /\ verdict = [n \in Calls |-> "none"]

Ask(n) ==
  /\ n \notin asked /\ asked' = asked \cup {n}
  /\ UNCHANGED <<approved, verdict>>

\* A call with the key of one already waiting is refused on the spot.
AskRefused(n) ==
  /\ n \notin asked /\ asked' = asked \cup {n}
  /\ verdict' = [verdict EXCEPT ![n] = "refuse"]
  /\ UNCHANGED approved

Approve(n) ==
  /\ n \in asked \ approved /\ approved' = approved \cup {n}
  /\ UNCHANGED <<asked, verdict>>

Allow(n) ==
  /\ n \in approved /\ verdict[n] = "none"
  /\ verdict' = [verdict EXCEPT ![n] = "allow"]
  /\ UNCHANGED <<asked, approved>>

Refuse(n) ==
  /\ n \in asked /\ verdict[n] = "none"
  /\ verdict' = [verdict EXCEPT ![n] = "refuse"]
  /\ UNCHANGED <<asked, approved>>

Next ==
  \E n \in Calls : Ask(n) \/ AskRefused(n) \/ Approve(n) \/ Allow(n) \/ Refuse(n)

Spec == Init /\ [][Next]_vars
=============================================================================
