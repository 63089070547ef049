----------------------------- MODULE MCPayments -----------------------------
(* Small instances of Payments for TLC. *)
EXTENDS Payments, TLC, FiniteSets

\* Bounds: one attempt is ever paid, and attempts are alike; beyond one
\* attempt and one refund either a second attempt or a second refund is asked.
Payable == {CHOOSE p \in Attempt : TRUE}
Asking == Cardinality({p \in Attempt : opening[p].pc # "new"})
          + Cardinality({f \in RefundRequest : refund[f].pc # "new"})
Bounded == captured \subseteq Payable /\ Asking <= 3

\* FairSpec within the bounds: the fairness of an attempt that is never paid
\* is about steps that are never enabled.
MCSpec ==
  /\ Init /\ [][Next /\ Bounded']_vars
  /\ LoopsRun
  /\ \A p \in Payable : SF_vars(DeliverCaptured(p)) /\ SF_vars(AnswerCaptured(p))
=============================================================================
