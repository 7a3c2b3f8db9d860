---------------------------- MODULE MCStatusPage ----------------------------
EXTENDS StatusPage
MCDateOf == [s \in Slugs |-> CASE s = "a" -> 1 [] s = "b" -> 2 [] s = "c" -> 4]
=============================================================================
