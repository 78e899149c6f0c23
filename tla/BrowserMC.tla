----------------------------- MODULE BrowserMC -----------------------------
(* Two tabs, three requests.  The races are the requests that touch the same  *)
(* cookie, document or list; the last one goes round the remaining routes.    *)
(* The one of four is a change of password that a sign-out and a login        *)
(* overtake, with a read in between.                                          *)
EXTENDS Browser, TLC

RaceOf4(r1, r2, r3, r4) == (1 :> r1) @@ (2 :> r2) @@ (3 :> r3) @@ (4 :> r4)
Race(r1, r2, r3) == RaceOf4(r1, r2, r3, {})

AllRaces ==
    {Race({"switch"}, {"logout", "switch"}, {"session"}),
     Race({"switch"}, {"rename", "changePassword"}, {"elsewhere"}),
     Race({"login"}, {"mfaVerify", "login"}, {"logout"}),
     Race({"changePassword"}, {"revokeSession", "sessions"}, {"session"}),
     Race({"logout", "revokeSession"}, {"login"}, {"switch"}),
     Race({"session"}, {"changePassword", "revokeOthers"}, {"elsewhere"}),
     Race({"create", "accept", "confirm", "disable", "verifyEmail"}, {"invite"}, {}),
     RaceOf4({"logout"}, {"login"}, {"changePassword"}, {"session"}),
     Race(DOMAIN Routes, {}, {})}

One(role1, role2, verified, factor) ==
    [verified |-> verified, factor |-> factor, suspended |-> {},
     role |-> [o \in Org |-> IF o \in RequireMfa THEN role2 ELSE role1]]

SomeAccounts == {One("OWNER", "MEMBER", TRUE, FALSE), One("OWNER", "OWNER", FALSE, TRUE),
                 One("OWNER", None, FALSE, FALSE)}

Interchangeable == Permutations(Token) \cup Permutations(Tab)
=============================================================================
