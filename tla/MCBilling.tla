----------------------------- MODULE MCBilling -----------------------------
\* Billing for TLC: every identity is interchangeable, and at most three of the
\* four runs (two notifications, two requests) have been started.
EXTENDS Billing, TLC

Symmetry == Permutations(Webhooks) \cup Permutations(Requests)
            \cup Permutations(Payments)

Few ==
    Cardinality({w \in Webhooks : hook[w].pc # "idle"})
        + Cardinality({r \in Requests : req[r].pc # "idle"}) <= 3
=============================================================================
