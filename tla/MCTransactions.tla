--------------------------- MODULE MCTransactions ---------------------------
\* Two tasks share a transactional manager; a third works without transactions.
EXTENDS Transactions, TLC

CONSTANTS t1, t2, t3, m1, m2

MCUses == (t1 :> m1) @@ (t2 :> m1) @@ (t3 :> m2)
=============================================================================
