---------------------------- MODULE MCSettlement ----------------------------
(* Instances of Settlement for TLC. *)
EXTENDS Settlement, TLC

CONSTANTS b1, b2, p1, s1, s2, vendor, renter, other

ItsParties == {<<vendor, renter>>}
ChangingParties == {<<vendor, renter>>, <<other, renter>>}

Signed ==
  [status |-> "completed", vendor_signer |-> vendor, renter_signer |-> renter,
   signed |-> {"vendor", "renter"}, evidence |-> "filled"]

\* A record that is completed, if its signer is the vendor the booking has; one that is
\* refused, with evidence that is empty; and a draft, which replaces a completed one.
Forms ==
  {Signed, [Signed EXCEPT !.evidence = "empty"],
   [Signed EXCEPT !.status = "draft", !.vendor_signer = None]}

OnlySigned == {Signed}

OnlyCompleted == {"completed"}
InAndOutOfDispute == {"completed", "disputed"}

\* The second booking is only there for its return record, which a session may load
\* with those of the first; a pickup record is not put back to draft.
FewRecords ==
  /\ bookings[b2].status = "pending"
  /\ handovers[<<b1, "pickup">>] \in {None, Signed}
  /\ handovers[<<b2, "pickup">>] = None
  /\ handovers[<<b2, "return">>] \in {None, Signed}
  /\ \A s \in Session : session[s] # None => session[s].mine.booking = b1

Symmetry == Permutations(Session)
=============================================================================
