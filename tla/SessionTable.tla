---------------------------- MODULE SessionTable ----------------------------
(***************************************************************************)
(* What the Session table promises, whoever writes to it: a session is     *)
(* issued once, ends once, and is succeeded at most once, by a session     *)
(* that begins in the very step in which it ends.                          *)
(***************************************************************************)
CONSTANTS Session, None

VARIABLES
    state,   \* absent, live or revoked
    from     \* the session each one succeeds, if any

vars == <<state, from>>

Live == {s \in Session : state[s] = "live"}

Init ==
    /\ state \in [Session -> {"absent", "live"}]
    /\ from = [s \in Session |-> None]

\* A login.
Issue(t) ==
    /\ state[t] = "absent"
    /\ state' = [state EXCEPT ![t] = "live"]
    /\ UNCHANGED from

\* Promotion, a switch of organisation, a changed password: one for another.
Rotate(s, t) ==
    /\ s \in Live /\ state[t] = "absent"
    /\ state' = [state EXCEPT ![s] = "revoked", ![t] = "live"]
    /\ from' = [from EXCEPT ![t] = s]

\* A sign-out, or a bulk revocation: any of those that are live.
Revoke(S) ==
    /\ state' = [s \in Session |-> IF s \in S THEN "revoked" ELSE state[s]]
    /\ UNCHANGED from

Next ==
    \/ \E S \in SUBSET Live : Revoke(S)
    \/ \E t \in Session : Issue(t)
    \/ \E s, t \in Session : Rotate(s, t)

Spec == Init /\ [][Next]_vars

\* No two successors, and no predecessor that lives beside its successor.
Linear ==
    \A t, u \in Session :
        from[t] # None => state[from[t]] = "revoked" /\ (from[u] = from[t] => u = t)
=============================================================================
