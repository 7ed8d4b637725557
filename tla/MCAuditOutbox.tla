---------------------------- MODULE MCAuditOutbox ----------------------------
(* Instances of AuditOutbox for TLC. *)
EXTENDS AuditOutbox

CONSTANTS e1, e2, e3, fact

(* Two events state one fact, the third has no key. *)
OneFactTwice == [e \in Events |-> IF e = e3 THEN Nil ELSE fact]
=============================================================================
