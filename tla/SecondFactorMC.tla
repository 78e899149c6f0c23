--------------------------- MODULE SecondFactorMC ---------------------------
EXTENDS SecondFactor, TLC

CONSTANTS s1, s2, f1, f2, f3, f4

\* Codes spent twice or while they are replaced, guesses in flight at the
\* limit, and a factor enrolled, confirmed and disabled at once.
MCRaces == {f1 :> "totp"       @@ f2 :> "totp"       @@ f3 :> "wrong"   @@ f4 :> "disable",
            f1 :> "recovery"   @@ f2 :> "recovery"   @@ f3 :> "wrong"   @@ f4 :> "regenerate",
            f1 :> "wrong"      @@ f2 :> "wrong"      @@ f3 :> "totp"    @@ f4 :> "wrong",
            f1 :> "enroll"     @@ f2 :> "enroll"     @@ f3 :> "confirm" @@ f4 :> "totp",
            f1 :> "regenerate" @@ f2 :> "disable"    @@ f3 :> "enroll"  @@ f4 :> "confirm",
            f1 :> "regenerate" @@ f2 :> "regenerate" @@ f3 :> "confirm" @@ f4 :> "disable"}
=============================================================================
