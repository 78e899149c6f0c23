--------------------------- MODULE OrganizationsMC ---------------------------
EXTENDS Organizations, TLC

CONSTANTS acme, beta, u1, u2, u3, i1, i2, f1, f2, f3

\* An invitation made, spent or revoked while its issuer's role changes, two
\* that fill one slot, and owners who leave at once.
MCRaces == {f1 :> "invite" @@ f2 :> "role"   @@ f3 :> "accept",
            f1 :> "invite" @@ f2 :> "remove" @@ f3 :> "revoke",
            f1 :> "accept" @@ f2 :> "remove" @@ f3 :> "revoke",
            f1 :> "role"   @@ f2 :> "remove" @@ f3 :> "accept",
            f1 :> "found"  @@ f2 :> "found"  @@ f3 :> "invite",
            f1 :> "invite" @@ f2 :> "invite" @@ f3 :> "revoke"}

Symmetries == Permutations({i1, i2}) \cup Permutations({u1, u2, u3})
=============================================================================
