-------------------------- MODULE MCStripeWebhooks --------------------------
(* Small instances of StripeWebhooks.                                      *)
EXTENDS StripeWebhooks, TLC

CONSTANTS one, two, monthly, s1, s2, w1, w2

\* Two single donations and a subscription, two of the three by one supporter.
Supporter == one :> s1 @@ two :> s1 @@ monthly :> s2
Setup(donations, ordered, workers, failing, invoices) ==
    [donations |-> donations, ordered |-> ordered, workers |-> workers,
     failing |-> failing, invoices |-> invoices]

OneSubscription == {Setup({monthly}, FALSE, {w1}, TRUE, 2)}

=============================================================================
