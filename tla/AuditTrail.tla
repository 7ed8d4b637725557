------------------------------ MODULE AuditTrail ------------------------------
(***************************************************************************)
(* What the audit outbox promises to the business code: an event that was  *)
(* accepted stays accepted until it is in the formal log, once and for     *)
(* ever, or is given up as a dead letter; it is never lost, never logged   *)
(* after it was given up and never given up after it was logged.           *)
(***************************************************************************)
CONSTANT Events  \* event UUIDs

VARIABLE trail   \* what has become of each event

TrailTypeOK == trail \in [Events -> {"none", "accepted", "logged", "dead"}]

TrailInit == trail = [e \in Events |-> "none"]

Become(e, from, to) ==
    /\ trail[e] = from
    /\ trail' = [trail EXCEPT ![e] = to]

Accept(e) == Become(e, "none", "accepted")
Log(e) == Become(e, "accepted", "logged")
GiveUp(e) == Become(e, "accepted", "dead")

TrailNext == \E e \in Events : Accept(e) \/ Log(e) \/ GiveUp(e)

TrailSpec == TrailInit /\ [][TrailNext]_trail
=============================================================================
