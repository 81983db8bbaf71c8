---------------------------- MODULE MCDatabase -----------------------------
EXTENDS DatabaseProperties
CONSTANTS t1, t2
\* One thread runs transactions, the other single statements.
MCCalls == [t \in Thread |-> IF t = t1 THEN {"begin", "inside"} ELSE {"single"}]
=============================================================================
