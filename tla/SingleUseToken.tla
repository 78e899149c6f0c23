---------------------------- MODULE SingleUseToken ----------------------------
(***************************************************************************)
(* What an emailed link promises, per purpose: only the newest one works,  *)
(* and it works once.                                                      *)
(***************************************************************************)
CONSTANTS Token, Purpose, None

VARIABLES
    newest,   \* the token of each purpose that may still be redeemed, if any
    redeemed  \* those that have been

vars == <<newest, redeemed>>

Init ==
    /\ newest \in [Purpose -> Token \cup {None}]
    /\ redeemed = {}

\* A new token takes the place of the one before it, used or not.
Issue(p, t) ==
    /\ t \notin redeemed /\ \A q \in Purpose : newest[q] # t
    /\ newest' = [newest EXCEPT ![p] = t]
    /\ UNCHANGED redeemed

Redeem(p, t) ==
    /\ newest[p] = t
    /\ newest' = [newest EXCEPT ![p] = None]
    /\ redeemed' = redeemed \cup {t}

Next == \E p \in Purpose, t \in Token : Issue(p, t) \/ Redeem(p, t)

Spec == Init /\ [][Next]_vars
=============================================================================
