-------------------------- MODULE SessionServiceMC --------------------------
(* SessionService on small instances: see the .cfg files. *)
EXTENDS SessionService, TLC

Password == {<<"ACTIVE", FALSE>>}
Pending == {<<"PENDING_MFA", TRUE>>}

\* At most one session comes from a login; the others are its successors.
OneLogin ==
    Cardinality({s \in Session : row[s].state # "absent" /\ row[s].from = None}) <= 1

\* Requests are interchangeable, and so are session ids.
Symmetric == Permutations(Request) \cup Permutations(Session)
=============================================================================
