------------------------------ MODULE MCCommerce ------------------------------
(* Commerce on a small instance: a customer with a second one to be kept    *)
(* apart from, rows enough for a purchase and two renewals, two port numbers *)
(* of which one or both are sold automatically.                             *)
EXTENDS Commerce, TLC

MCTerms == {[duration |-> 1, limit |-> 1], [duration |-> 2, limit |-> 1]}
MCOneTerm == {[duration |-> 1, limit |-> 1]}

RowSymmetry ==
    Permutations(OrderIds) \cup Permutations(ServiceIds) \cup Permutations(PortIds)
        \cup Permutations(Customers)
=============================================================================
