----------------------------- MODULE MCFeedback -----------------------------
(* A small instance of Feedback: what Postfix reports of a mail.           *)
EXTENDS Feedback, TLC

bounced == [named |-> TRUE, dsn |-> "5", words |-> {"bounced"}]
deferredAsSpam == [named |-> TRUE, dsn |-> "4", words |-> {"deferred", "blocked"}]
deferred == [named |-> TRUE, dsn |-> "4", words |-> {"deferred"}]
nameless == [named |-> FALSE, dsn |-> "5", words |-> {"bounced"}]

MCBatches == {<<bounced>>, <<nameless, deferredAsSpam, deferred>>}
Symmetry == Permutations(Call)
=============================================================================
