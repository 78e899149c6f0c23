---------------------------- MODULE EmailTokensMC ----------------------------
EXTENDS EmailTokens, TLC

CONSTANTS f1, f2, f3, t1, t2, t3, t4

\* Registrations of one address, a link that is replaced while it is used,
\* one used twice, and resets that meet a change.
MCRaces == {f1 :> "register" @@ f2 :> "register" @@ f3 :> "verify",
            f1 :> "resend"   @@ f2 :> "resend"   @@ f3 :> "verify",
            f1 :> "resend"   @@ f2 :> "verify"   @@ f3 :> "verify",
            f1 :> "forgot"   @@ f2 :> "reset"    @@ f3 :> "forgot",
            f1 :> "reset"    @@ f2 :> "reset"    @@ f3 :> "change",
            f1 :> "forgot"   @@ f2 :> "reset"    @@ f3 :> "resend"}

MCLink == [p \in Purpose |-> IF p = "PASSWORD_RESET" THEN t1 ELSE t2]
=============================================================================
