-------------------------- MODULE TenantIsolationMC --------------------------
EXTENDS TenantIsolation, TLC

CONSTANTS o1, o2, r1, r2, r3, c1, t1, t2

MCOwner == [r \in {r1, r2, r3} |-> IF r = r3 THEN o2 ELSE o1]
=============================================================================
