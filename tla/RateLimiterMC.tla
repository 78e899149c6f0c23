---------------------------- MODULE RateLimiterMC ----------------------------
EXTENDS RateLimiter, TLC

CONSTANTS i1, i2, a1, a2, u1

MCSkew == [i \in {i1, i2} |-> IF i = i1 THEN 0 ELSE 1]
MCLimit ==
    [login |-> [perIp |-> 1, perPrincipal |-> 2],
     invitations |-> [perOrganization |-> 2],
     generalSession |-> [perPrincipal |-> 1]]
Symmetries == Permutations({a1, a2})
=============================================================================
