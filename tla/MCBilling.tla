----------------------------- MODULE MCBilling -----------------------------
(* An instance of Billing for TLC: an organization that may begin two       *)
(* checkouts at once, and another one.                                      *)
EXTENDS Billing

CONSTANTS o1, o2, k1, k2, k3

MCOrgOf == [k \in Checkouts |-> IF k = k3 THEN o2 ELSE o1]
MCTierOf == [k \in Checkouts |-> IF k = k3 THEN "pro" ELSE "starter"]
MCChanges == [k \in Checkouts |-> IF k = k1 THEN {"lapse"}
                                  ELSE IF k = k2 THEN {"upgrade", "cancel"} ELSE {}]

=============================================================================
