-------------------------- MODULE EmailTokensProofs --------------------------
(***************************************************************************)
(* What EmailTokens guarantees for every number of tokens and requests:    *)
(* it implements SingleUseToken.                                           *)
(***************************************************************************)
EXTENDS EmailTokens, TLAPS

-----------------------------------------------------------------------------
(* The inductive invariant. *)

\* The partial unique index: one unconsumed token per purpose.
UniqueLive == \A p \in Purpose : \A t, u \in LiveOf(p) : t = u

NoAccountNoTokens == ~user.exists => ~user.verified /\ \A t \in Token : row[t] = None

\* An advisory lock has one holder, and so has a row that was written.
LockExclusive == \A p \in Purpose, f, g \in Flow : Holds(f, p) /\ Holds(g, p) => f = g
RowsExclusive == \A t \in Token, f, g \in Flow : t \in Written(f) /\ t \in Written(g) => f = g

\* What a request holds between its steps.
Redeems(f) == pc[f] \in {"read", "apply"} /\ kind[f] # "change"

Carries(f) ==
    /\ pc[f] = "ready" => my[f] = NoRequest
    /\ pc[f] = "create" => kind[f] = "register"
    /\ pc[f] \in {"lock", "supersede", "insert"} => kind[f] \in {"resend", "forgot"} /\ user.exists
    /\ pc[f] = "insert" => my[f].rows = LiveOf(PurposeOf(f))
    /\ pc[f] \in {"mail", "consume"} => my[f].token \in Token
    /\ pc[f] = "consume" => kind[f] \in {"verify", "reset"}
    /\ pc[f] = "read" => kind[f] = "reset"
    /\ pc[f] = "apply" => kind[f] \in {"verify", "reset", "change"}
    /\ pc[f] = "apply" /\ kind[f] = "change" => my[f].token = None
    /\ Redeems(f) =>
         /\ my[f].token \in Token
         /\ Unconsumed(my[f].token) /\ row[my[f].token].purpose = PurposeOf(f)

Requests == \A f \in Flow : Carries(f)

IInv == TypeOK /\ UniqueLive /\ NoAccountNoTokens /\ LockExclusive /\ RowsExclusive /\ Requests

-----------------------------------------------------------------------------
(* The start. *)

\* The links that an earlier request mailed are the whole table, one a purpose.
LEMMA InitIInv == Init => IInv
<1> SUFFICES ASSUME Init PROVE IInv
  OBVIOUS
<1>1. /\ kind \in Races /\ user \in Users /\ cred \in Nat
      /\ \A f \in Flow : pc[f] = "ready" /\ my[f] = NoRequest
      /\ pc \in [Flow -> Steps]
  BY DEF Init, Steps
<1>2. NoRequest \in Local /\ my \in [Flow -> Local]
  BY DEF Init, NoRequest, Local
<1>3. PICK held \in SUBSET Purpose :
        /\ user.exists \/ (held = {} /\ ~user.verified)
        /\ mailbox = {Link[p] : p \in held}
        /\ row = [t \in Token |-> IF t \in mailbox
                                     THEN Fresh(CHOOSE p \in held : Link[p] = t) ELSE None]
  BY DEF Init
<1>4. ASSUME NEW t \in Token, row[t] # None
      PROVE  /\ row[t] \in Row /\ row[t].purpose \in held /\ Link[row[t].purpose] = t
             /\ t \in mailbox
  <2>1. t \in mailbox /\ row[t] = Fresh(CHOOSE p \in held : Link[p] = t)
    BY <1>3, <1>4
  <2>2. (CHOOSE p \in held : Link[p] = t) \in held /\ Link[CHOOSE p \in held : Link[p] = t] = t
    BY <1>3, <2>1
  <2> QED BY <1>3, <2>1, <2>2 DEF Fresh, Row
<1>5. row \in [Token -> Row \cup {None}] /\ mailbox \in SUBSET Token
  <2>1. row = [t \in Token |-> row[t]]
    BY <1>3
  <2>2. mailbox \in SUBSET Token
    BY <1>3, LinkAssumption
  <2> QED BY <1>4, <2>1, <2>2
<1>6. TypeOK
  BY <1>1, <1>2, <1>5 DEF TypeOK
<1>7. UniqueLive
  BY <1>4 DEF UniqueLive, LiveOf, Unconsumed
<1>8. NoAccountNoTokens
  BY <1>3 DEF NoAccountNoTokens
<1>9. LockExclusive /\ RowsExclusive /\ Requests
  BY <1>1 DEF LockExclusive, Holds, RowsExclusive, Written, Requests, Carries, Redeems
<1> QED BY <1>6, <1>7, <1>8, <1>9 DEF IInv

-----------------------------------------------------------------------------
(* What does not move. *)

\* A request that does not move keeps what it holds, if the rows it counts on
\* are left as they are.
LEMMA OtherRequestsStand ==
    ASSUME NEW g \in Flow, Carries(g), kind' = kind, pc'[g] = pc[g], my'[g] = my[g],
           user.exists => user'.exists,
           pc[g] = "insert" => LiveOf(PurposeOf(g))' = LiveOf(PurposeOf(g)),
           Redeems(g) => /\ Unconsumed(my[g].token)'
                         /\ row'[my[g].token].purpose = row[my[g].token].purpose
    PROVE  Carries(g)' /\ Written(g)' = Written(g) /\ \A p \in Purpose : Holds(g, p)' = Holds(g, p)
<1>1. PurposeOf(g)' = PurposeOf(g) /\ Redeems(g)' = Redeems(g)
  BY DEF PurposeOf, Redeems
<1>2. Written(g)' = Written(g)
  BY DEF Written
<1>3. \A p \in Purpose : Holds(g, p)' = Holds(g, p)
  BY <1>1 DEF Holds
<1>4. Carries(g)'
  BY <1>1 DEF Carries
<1> QED BY <1>2, <1>3, <1>4

\* LiveOf looks at the rows alone.
LEMMA SameRowsSameLive ==
    ASSUME row' = row
    PROVE  /\ \A p \in Purpose : LiveOf(p)' = LiveOf(p)
           /\ \A t \in Token : Unconsumed(t)' = Unconsumed(t)
           /\ UniqueLive => UniqueLive'
BY DEF LiveOf, Unconsumed, UniqueLive

\* A request issues and spends tokens of one of the purposes.
LEMMA PurposeOfIsPurpose == \A f \in Flow : PurposeOf(f) \in Purpose
BY DEF PurposeOf, Purpose

\* What a request has written to and not committed is a live token's row.
LEMMA WrittenIsLive ==
    ASSUME TypeOK, Requests, NEW f \in Flow, NEW t \in Token, t \in Written(f)
    PROVE  t \in LiveOf(PurposeOf(f))
<1>1. Carries(f) /\ None \notin Token
  BY NoneAssumption DEF Requests
<1>2. CASE pc[f] = "insert"
  BY <1>1, <1>2 DEF Written, Carries
<1>3. CASE pc[f] \in {"read", "apply"}
  <2>1. t = my[f].token
    BY <1>3 DEF Written
  <2>2. Redeems(f)
    BY <1>1, <1>3, <2>1 DEF Redeems, Carries
  <2> QED BY <1>1, <2>1, <2>2 DEF Carries, LiveOf
<1>4. CASE pc[f] \notin {"insert", "read", "apply"}
  BY <1>4 DEF Written
<1> QED BY <1>2, <1>3, <1>4

-----------------------------------------------------------------------------
(* The steps that leave the tables alone. *)

\* One request moves, holding a lock or rows that nobody else holds.
LEMMA MoveKeepsIInv ==
    ASSUME IInv, NEW f \in Flow, UNCHANGED <<kind, user, row>>,
           cred' \in Nat, mailbox' \in SUBSET Token,
           NEW step \in Steps, NEW local \in Local,
           pc' = [pc EXCEPT ![f] = step], my' = [my EXCEPT ![f] = local],
           Carries(f)',
           \A p \in Purpose : Holds(f, p)' =>
             Holds(f, p) \/ \A g \in Flow : ~Holds(g, p),
           \A t \in Token : t \in Written(f)' =>
             t \in Written(f) \/ \A g \in Flow \ {f} : t \notin Written(g)
    PROVE  IInv'
<1>0. TypeOK /\ UniqueLive /\ NoAccountNoTokens /\ LockExclusive /\ RowsExclusive /\ Requests
  BY DEF IInv
<1>1. TypeOK'
  BY <1>0 DEF TypeOK
<1>2. UniqueLive' /\ NoAccountNoTokens'
  BY <1>0, SameRowsSameLive DEF NoAccountNoTokens
<1>3. ASSUME NEW g \in Flow \ {f}
      PROVE  Carries(g)' /\ Written(g)' = Written(g) /\ \A p \in Purpose : Holds(g, p)' = Holds(g, p)
  <2>1. pc'[g] = pc[g] /\ my'[g] = my[g] /\ Carries(g)
    BY <1>0 DEF TypeOK, Requests
  <2>2. LiveOf(PurposeOf(g))' = LiveOf(PurposeOf(g))
    BY DEF LiveOf, Unconsumed, PurposeOf
  <2>3. Redeems(g) => Unconsumed(my[g].token)' /\ row'[my[g].token].purpose = row[my[g].token].purpose
    BY <2>1 DEF Carries, Unconsumed
  <2> QED BY <2>1, <2>2, <2>3, OtherRequestsStand
<1>4. LockExclusive'
  BY <1>0, <1>3 DEF LockExclusive
<1>5. RowsExclusive'
  BY <1>0, <1>3 DEF RowsExclusive
<1> QED BY <1>1, <1>2, <1>3, <1>4, <1>5 DEF IInv, Requests

\* A request that has answered holds nothing.
LEMMA FinishedHoldsNothing ==
    ASSUME TypeOK, NEW f \in Flow, Finish(f)
    PROVE  /\ NoRequest \in Local /\ "done" \in Steps
           /\ pc' = [pc EXCEPT ![f] = "done"] /\ my' = [my EXCEPT ![f] = NoRequest]
           /\ pc'[f] = "done"
           /\ Carries(f)' /\ Written(f)' = {} /\ \A p \in Purpose : ~Holds(f, p)'
<1>1. /\ pc' = [pc EXCEPT ![f] = "done"] /\ my' = [my EXCEPT ![f] = NoRequest]
      /\ pc'[f] = "done"
  BY DEF Finish, Goto, TypeOK
<1> QED BY <1>1 DEF NoRequest, Local, Steps, Carries, Redeems, Written, Holds

\* One that ends without a write, or gives back what it wrote.
LEMMA EndKeepsIInv ==
    ASSUME IInv, NEW f \in Flow, Finish(f), UNCHANGED <<kind, user, row>>,
           cred' \in Nat, mailbox' \in SUBSET Token
    PROVE  IInv'
BY FinishedHoldsNothing, MoveKeepsIInv DEF IInv

\* A step that writes no token and no verified address keeps the invariant.
LEMMA StepsWithoutWritesKeepIInv ==
    ASSUME IInv, NEW f \in Flow,
           \/ RegisterStart(f) \/ IssueStart(f) \/ Lock(f) \/ Supersede(f) \/ Mail(f)
           \/ Consume(f) \/ ResetRead(f) \/ ChangeStart(f) \/ ChangeApply(f) \/ Fail(f)
           \/ \E t \in Token : RedeemStart(f, t)
    PROVE  IInv'
<1>0. TypeOK /\ Requests /\ Carries(f) /\ my[f] \in Local /\ cred \in Nat /\ mailbox \in SUBSET Token
  BY DEF IInv, TypeOK, Requests
<1>a. my = [my EXCEPT ![f] = my[f]]
  BY <1>0 DEF TypeOK
<1> USE DEF tables
<1>1. CASE RegisterStart(f)
  <2> DEFINE step == IF user.exists THEN "done" ELSE "create"
  <2>1. /\ kind[f] = "register" /\ UNCHANGED <<tables, my>>
        /\ pc' = [pc EXCEPT ![f] = step] /\ pc'[f] = step
    BY <1>0, <1>1 DEF RegisterStart, Begins, Goto, TypeOK
  <2>2. step \in Steps
    BY DEF Steps
  <2>3. Carries(f)' /\ Written(f)' = {} /\ \A p \in Purpose : ~Holds(f, p)'
    BY <2>1 DEF Carries, Redeems, Written, Holds
  <2> HIDE DEF step
  <2> QED BY <1>0, <1>a, <2>1, <2>2, <2>3, MoveKeepsIInv
<1>2. CASE IssueStart(f)
  <2> DEFINE step == IF user.exists /\ (kind[f] = "resend" => ~user.verified) THEN "lock" ELSE "done"
  <2>1. /\ kind[f] \in {"resend", "forgot"} /\ UNCHANGED <<tables, my>>
        /\ pc' = [pc EXCEPT ![f] = step] /\ pc'[f] = step
    BY <1>0, <1>2 DEF IssueStart, Begins, Goto, TypeOK
  <2>2. step \in Steps
    BY DEF Steps
  <2>3. Carries(f)' /\ Written(f)' = {} /\ \A p \in Purpose : ~Holds(f, p)'
    BY <2>1 DEF Carries, Redeems, Written, Holds
  <2> HIDE DEF step
  <2> QED BY <1>0, <1>a, <2>1, <2>2, <2>3, MoveKeepsIInv
<1>3. CASE Lock(f)
  <2>1. /\ pc[f] = "lock" /\ UNCHANGED <<tables, my>>
        /\ pc' = [pc EXCEPT ![f] = "supersede"] /\ pc'[f] = "supersede"
        /\ \A g \in Flow : ~Holds(g, PurposeOf(f))
    BY <1>0, <1>3 DEF Lock, Goto, AdvisoryLockIsFree, TypeOK
  <2>2. Carries(f)' /\ Written(f)' = {} /\ \A p \in Purpose : Holds(f, p)' => p = PurposeOf(f)
    BY <1>0, <2>1 DEF Carries, Redeems, Written, Holds, PurposeOf
  <2>3. "supersede" \in Steps
    BY DEF Steps
  <2> QED BY <1>0, <1>a, <2>1, <2>2, <2>3, MoveKeepsIInv
<1>4. CASE Supersede(f)
  <2> DEFINE S == LiveOf(PurposeOf(f))
             local == [my[f] EXCEPT !.rows = S]
  <2>1. /\ pc[f] = "supersede" /\ UNCHANGED tables
        /\ my' = [my EXCEPT ![f] = local] /\ my'[f] = local
        /\ pc' = [pc EXCEPT ![f] = "insert"] /\ pc'[f] = "insert"
        /\ \A t \in S : \A g \in Flow \ {f} : t \notin Written(g)
    BY <1>0, <1>4 DEF Supersede, Goto, RowIsFree, ToSupersede, TypeOK
  <2>2. local \in Local /\ local.rows = S /\ "insert" \in Steps
    BY <1>0 DEF Local, LiveOf, Steps
  <2>3. S' = S
    BY <2>1 DEF LiveOf, Unconsumed, PurposeOf
  <2>4. Carries(f)'
    BY <1>0, <2>1, <2>2, <2>3 DEF Carries, Redeems
  <2>5. Written(f)' = S /\ \A p \in Purpose : Holds(f, p)' => Holds(f, p)
    BY <2>1, <2>2 DEF Written, Holds, PurposeOf
  <2> HIDE DEF local, S
  <2> QED BY <1>0, <2>1, <2>2, <2>4, <2>5, MoveKeepsIInv
<1>5. CASE Mail(f)
  <2>1. mailbox' \in SUBSET Token
    BY <1>0, <1>5 DEF Mail, Carries
  <2> QED BY <1>0, <1>5, <2>1, EndKeepsIInv DEF Mail
<1>6. ASSUME NEW t \in Token, RedeemStart(f, t) PROVE IInv'
  <2> DEFINE local == [my[f] EXCEPT !.token = t, !.fresh = ~row[t].expired]
  <2>1. /\ kind[f] \in {"verify", "reset"} /\ UNCHANGED tables
        /\ my' = [my EXCEPT ![f] = local] /\ my'[f] = local
        /\ pc' = [pc EXCEPT ![f] = "consume"] /\ pc'[f] = "consume"
    BY <1>0, <1>6 DEF RedeemStart, Begins, Goto, TypeOK
  <2>2. local \in Local /\ local.token = t /\ "consume" \in Steps
    BY <1>0 DEF Local, Steps
  <2>3. Carries(f)' /\ Written(f)' = {} /\ \A p \in Purpose : ~Holds(f, p)'
    BY <2>1, <2>2 DEF Carries, Redeems, Written, Holds
  <2> HIDE DEF local
  <2> QED BY <1>0, <2>1, <2>2, <2>3, MoveKeepsIInv
<1>7. CASE Consume(f)
  <2>1. CASE ~Consumable(f)
    BY <1>0, <1>7, <2>1, EndKeepsIInv DEF Consume
  <2>2. CASE Consumable(f)
    <3> DEFINE step == IF kind[f] = "reset" THEN "read" ELSE "apply"
    <3>1. /\ pc[f] = "consume" /\ UNCHANGED <<tables, my>>
          /\ pc' = [pc EXCEPT ![f] = step] /\ pc'[f] = step
          /\ \A g \in Flow \ {f} : my[f].token \notin Written(g)
      BY <1>0, <1>7, <2>2 DEF Consume, Goto, WaitsForTheRow, RowIsFree, TypeOK
    <3>2. step \in Steps
      BY DEF Steps
    <3>3. /\ kind[f] \in {"verify", "reset"} /\ my[f].token \in Token
          /\ Unconsumed(my[f].token) /\ row[my[f].token].purpose = PurposeOf(f)
      BY <1>0, <2>2, <3>1 DEF Consumable, Carries
    <3>4. Carries(f)'
      BY <3>1, <3>3 DEF Carries, Redeems, Unconsumed, PurposeOf
    <3>5. Written(f)' = {my[f].token} /\ \A p \in Purpose : ~Holds(f, p)'
      BY <3>1 DEF Written, Holds
    <3> HIDE DEF step
    <3> QED BY <1>0, <1>a, <3>1, <3>2, <3>4, <3>5, MoveKeepsIInv
  <2> QED BY <2>1, <2>2
<1>8. CASE ResetRead(f)
  <2> DEFINE local == [my[f] EXCEPT !.cred = cred]
  <2>1. /\ pc[f] = "read" /\ UNCHANGED tables
        /\ my' = [my EXCEPT ![f] = local] /\ my'[f] = local
        /\ pc' = [pc EXCEPT ![f] = "apply"] /\ pc'[f] = "apply"
    BY <1>0, <1>8 DEF ResetRead, Goto, TypeOK
  <2>2. local \in Local /\ local.token = my[f].token /\ "apply" \in Steps
    BY <1>0 DEF Local, Steps
  <2>3. Carries(f)'
    BY <1>0, <2>1, <2>2 DEF Carries, Redeems, Unconsumed, PurposeOf
  <2>4. Written(f)' = Written(f) /\ \A p \in Purpose : ~Holds(f, p)'
    BY <2>1, <2>2 DEF Written, Holds
  <2> HIDE DEF local
  <2> QED BY <1>0, <2>1, <2>2, <2>3, <2>4, MoveKeepsIInv
<1>9. CASE ChangeStart(f)
  <2> DEFINE local == [my[f] EXCEPT !.cred = cred]
  <2>1. /\ pc[f] = "ready" /\ kind[f] = "change" /\ UNCHANGED tables
        /\ my' = [my EXCEPT ![f] = local] /\ my'[f] = local
        /\ pc' = [pc EXCEPT ![f] = "apply"] /\ pc'[f] = "apply"
    BY <1>0, <1>9 DEF ChangeStart, Begins, Goto, TypeOK
  <2>2. local \in Local /\ local.token = None /\ "apply" \in Steps
    BY <1>0, <2>1 DEF Local, Steps, Carries, NoRequest
  <2>3. Carries(f)'
    BY <2>1, <2>2 DEF Carries, Redeems
  <2>4. (\A t \in Token : t \notin Written(f)') /\ \A p \in Purpose : ~Holds(f, p)'
    BY <2>1, <2>2, NoneAssumption DEF Written, Holds
  <2> HIDE DEF local
  <2> QED BY <1>0, <2>1, <2>2, <2>3, <2>4, MoveKeepsIInv
<1>10. CASE ChangeApply(f)
  <2>1. cred' \in Nat
    BY <1>0, <1>10 DEF ChangeApply
  <2> QED BY <1>0, <1>10, <2>1, EndKeepsIInv DEF ChangeApply
<1>11. CASE Fail(f)
  BY <1>0, <1>11, EndKeepsIInv DEF Fail
<1> QED BY <1>1, <1>2, <1>3, <1>4, <1>5, <1>6, <1>7, <1>8, <1>9, <1>10, <1>11

-----------------------------------------------------------------------------
(* The steps that write rows, each as a step of SingleUseToken.            *)

\* A committed issue: the token is fresh, and what was live is superseded.
CommitsIssue(p, t) ==
    /\ row[t] = None /\ row'[t] = Fresh(p)
    /\ \A u \in Token \ {t} :
         row'[u] = IF u \in LiveOf(p) THEN [row[u] EXCEPT !.consumed = "superseded"] ELSE row[u]

\* A committed redemption.
CommitsRedemption(p, t) == t \in LiveOf(p) /\ row' = Redeemed(t)

\* Superseding every live token of the purpose leaves the new one alone live.
LEMMA IssueLeavesOneLive ==
    ASSUME TypeOK, NEW p \in Purpose, NEW t \in Token, CommitsIssue(p, t)
    PROVE  /\ \A u \in Token : row'[u] \in Row \cup {None}
           /\ LiveOf(p)' = {t}
           /\ \A q \in Purpose \ {p} : LiveOf(q)' = LiveOf(q)
           /\ \A u \in Token : Unconsumed(u) /\ u \notin LiveOf(p) => row'[u] = row[u]
           /\ redeemed' = redeemed /\ t \notin redeemed
           /\ \A q \in Purpose : t \notin LiveOf(q)
<1>1. Fresh(p) \in Row /\ Fresh(p) # None
  <2>1. Fresh(p) \in Row
    BY DEF Fresh, Row
  <2> QED BY <2>1, NoRowAssumption
<1>2. \A u \in LiveOf(p) : /\ u # t /\ row[u] \in Row /\ row[u].consumed = "no"
                           /\ [row[u] EXCEPT !.consumed = "superseded"] \in Row
  BY DEF CommitsIssue, LiveOf, Unconsumed, TypeOK, Row
<1>3. \A u \in LiveOf(p) : row'[u].consumed = "superseded" /\ row'[u] # None /\ row'[u] \in Row
  BY <1>2, NoRowAssumption DEF CommitsIssue, LiveOf, Row
<1>4. row'[t].consumed = "no" /\ row'[t].purpose = p
  BY DEF CommitsIssue, Fresh
<1>5. \A u \in Token \ {t} : u \notin LiveOf(p) => row'[u] = row[u]
  BY DEF CommitsIssue
<1>6. \A u \in Token : row'[u] \in Row \cup {None}
  BY <1>1, <1>3, <1>5 DEF CommitsIssue, TypeOK
<1>7. LiveOf(p)' = {t} /\ \A q \in Purpose \ {p} : LiveOf(q)' = LiveOf(q)
  BY <1>1, <1>2, <1>3, <1>4, <1>5 DEF CommitsIssue, LiveOf, Unconsumed
<1>8. redeemed' = redeemed /\ t \notin redeemed
  <2>1. \A u \in LiveOf(p) : row[u].consumed = "no" /\ row'[u].consumed = "superseded"
    BY <1>2, <1>3
  <2>2. row[t] = None /\ row'[t].consumed = "no"
    BY <1>4 DEF CommitsIssue
  <2>3. \A u \in Token : (row'[u] # None /\ row'[u].consumed = "redeemed")
                            <=> (row[u] # None /\ row[u].consumed = "redeemed")
    BY <1>5, <2>1, <2>2
  <2> QED BY <2>2, <2>3 DEF redeemed
<1>9. \A q \in Purpose : t \notin LiveOf(q)
  BY DEF CommitsIssue, LiveOf, Unconsumed
<1> QED BY <1>5, <1>6, <1>7, <1>8, <1>9 DEF CommitsIssue, Unconsumed

\* A redemption ends the one live token of its purpose and touches no other.
LEMMA RedemptionEndsTheToken ==
    ASSUME TypeOK, UniqueLive, NEW p \in Purpose, NEW t \in Token, CommitsRedemption(p, t)
    PROVE  /\ row' \in [Token -> Row \cup {None}]
           /\ LiveOf(p) = {t} /\ LiveOf(p)' = {}
           /\ \A q \in Purpose \ {p} : LiveOf(q)' = LiveOf(q)
           /\ \A u \in Token \ {t} : row'[u] = row[u]
           /\ redeemed' = redeemed \cup {t} /\ t \notin redeemed
<1>1. t \in LiveOf(p) /\ row[t] \in Row /\ row[t].consumed = "no" /\ row[t].purpose = p
  BY DEF CommitsRedemption, LiveOf, Unconsumed, TypeOK
<1>2. [row[t] EXCEPT !.consumed = "redeemed"] \in Row
  BY <1>1 DEF Row
<1>3. /\ row'[t] = [row[t] EXCEPT !.consumed = "redeemed"]
      /\ \A u \in Token \ {t} : row'[u] = row[u]
      /\ row' \in [Token -> Row \cup {None}]
  BY <1>2 DEF CommitsRedemption, Redeemed, TypeOK
<1>4. row'[t].consumed = "redeemed" /\ row'[t] # None
  BY <1>1, <1>2, <1>3, NoRowAssumption DEF Row
<1>5. LiveOf(p) = {t}
  BY <1>1 DEF UniqueLive, LiveOf
<1>6. LiveOf(p)' = {} /\ \A q \in Purpose \ {p} : LiveOf(q)' = LiveOf(q)
  <2>1. ~Unconsumed(t)' /\ \A u \in Token \ {t} : Unconsumed(u)' = Unconsumed(u)
    BY <1>3, <1>4 DEF Unconsumed
  <2>2. \A u \in Token : u \notin LiveOf(p)'
    BY <1>3, <1>5, <2>1 DEF LiveOf
  <2>3. \A q \in Purpose \ {p} : LiveOf(q)' = LiveOf(q)
    BY <1>1, <1>3, <2>1 DEF LiveOf
  <2> QED BY <2>2, <2>3 DEF LiveOf
<1>7. redeemed' = redeemed \cup {t} /\ t \notin redeemed
  <2>1. \A u \in Token : u \in redeemed' <=> u \in redeemed \/ u = t
    BY <1>3, <1>4 DEF redeemed
  <2>2. t \notin redeemed
    BY <1>1 DEF redeemed
  <2>3. redeemed \subseteq Token /\ redeemed' \subseteq Token
    BY DEF redeemed
  <2> QED BY <2>1, <2>2, <2>3
<1> QED BY <1>3, <1>5, <1>6, <1>7

\* Which rows a step writes, and what it does to the account.
LEMMA CreateAccountIssues ==
    ASSUME IInv, NEW f \in Flow, NEW t \in Token, CreateAccount(f, t), ~AddressIsTaken
    PROVE  /\ CommitsIssue("EMAIL_VERIFICATION", t) /\ LiveOf("EMAIL_VERIFICATION") = {}
           /\ \A u \in Token : row[u] = None
           /\ user' = [exists |-> TRUE, verified |-> FALSE]
           /\ ~user.exists /\ ~user.verified
<1>1. /\ ~user.exists /\ row[t] = None
      /\ user' = [exists |-> TRUE, verified |-> FALSE]
      /\ row' = [row EXCEPT ![t] = Fresh("EMAIL_VERIFICATION")]
  BY DEF CreateAccount, AddressIsTaken, FreshId
<1>2. ~user.verified /\ \A u \in Token : row[u] = None
  BY <1>1 DEF IInv, NoAccountNoTokens
<1>3. LiveOf("EMAIL_VERIFICATION") = {}
  BY <1>2 DEF LiveOf, Unconsumed
<1>4. row'[t] = Fresh("EMAIL_VERIFICATION") /\ \A u \in Token \ {t} : row'[u] = row[u]
  BY <1>1 DEF IInv, TypeOK
<1> QED BY <1>1, <1>2, <1>3, <1>4 DEF CommitsIssue

\* The insertion of a token is what the abstract token calls issuing.
LEMMA InsertIssues ==
    ASSUME IInv, NEW f \in Flow, NEW t \in Token, Insert(f, t)
    PROVE  /\ CommitsIssue(PurposeOf(f), t) /\ my[f].rows = LiveOf(PurposeOf(f))
           /\ pc[f] = "insert" /\ user.exists
           /\ pc' = [pc EXCEPT ![f] = "mail"]
           /\ my' = [my EXCEPT ![f].token = t, ![f].rows = {}]
           /\ row' \in [Token -> Row \cup {None}]
<1>1. pc[f] = "insert" /\ my[f].rows = LiveOf(PurposeOf(f)) /\ user.exists /\ row[t] = None
  BY DEF Insert, FreshId, IInv, Requests, Carries
<1>2. /\ row' = [u \in Token |->
                   IF u = t THEN Fresh(PurposeOf(f))
                   ELSE IF u \in my[f].rows THEN [row[u] EXCEPT !.consumed = "superseded"]
                   ELSE row[u]]
      /\ pc' = [pc EXCEPT ![f] = "mail"]
      /\ my' = [my EXCEPT ![f].token = t, ![f].rows = {}]
  BY <1>1 DEF Insert, Goto
<1>3. CommitsIssue(PurposeOf(f), t)
  BY <1>1, <1>2 DEF CommitsIssue
<1>4. row' \in [Token -> Row \cup {None}]
  <2>1. \A u \in Token : row'[u] \in Row \cup {None}
    BY <1>3, PurposeOfIsPurpose, IssueLeavesOneLive DEF IInv
  <2> QED BY <1>2, <2>1
<1> QED BY <1>1, <1>2, <1>3, <1>4

\* The effect of a redemption consumes the token with it.
LEMMA ApplyRedeems ==
    ASSUME IInv, NEW f \in Flow, VerifyApply(f) \/ (ResetApply(f) /\ CredentialUnchanged(f))
    PROVE  /\ CommitsRedemption(PurposeOf(f), my[f].token) /\ my[f].token \in Token
           /\ my[f].token \in Written(f)
           /\ user' = [user EXCEPT !.verified = TRUE] /\ user.exists
           /\ pc[f] = "apply" /\ Finish(f) /\ kind' = kind /\ mailbox' = mailbox
<1>1. pc[f] = "apply" /\ kind[f] # "change"
  BY DEF VerifyApply, ResetApply
<1>2. /\ my[f].token \in Token /\ Unconsumed(my[f].token)
      /\ row[my[f].token].purpose = PurposeOf(f)
  BY <1>1 DEF IInv, Requests, Carries, Redeems
<1>3. user.exists
  BY <1>2 DEF IInv, NoAccountNoTokens, Unconsumed
<1> QED BY <1>1, <1>2, <1>3
     DEF VerifyApply, ResetApply, CommitsRedemption, LiveOf, Written

-----------------------------------------------------------------------------
(* They preserve the invariant. *)

\* Creating the account keeps the invariant.
LEMMA CreateAccountKeepsIInv ==
    ASSUME IInv, NEW f \in Flow, NEW t \in Token, CreateAccount(f, t)
    PROVE  IInv'
<1>0. TypeOK /\ UniqueLive /\ LockExclusive /\ RowsExclusive /\ Requests
  BY DEF IInv
<1>1. CASE AddressIsTaken
  BY <1>0, <1>1, EndKeepsIInv DEF CreateAccount, tables, TypeOK
<1>2. CASE ~AddressIsTaken
  <2>1. /\ CommitsIssue("EMAIL_VERIFICATION", t) /\ LiveOf("EMAIL_VERIFICATION") = {}
        /\ \A u \in Token : row[u] = None
        /\ user' = [exists |-> TRUE, verified |-> FALSE] /\ ~user.exists
    BY <1>2, CreateAccountIssues
  <2>2. /\ pc' = [pc EXCEPT ![f] = "mail"] /\ my' = [my EXCEPT ![f].token = t]
        /\ cred' = cred + 1 /\ UNCHANGED <<kind, mailbox>>
        /\ row' = [row EXCEPT ![t] = Fresh("EMAIL_VERIFICATION")]
    BY <1>2 DEF CreateAccount, Goto
  <2>3. "EMAIL_VERIFICATION" \in Purpose
    BY DEF Purpose
  <2>4. /\ \A u \in Token : row'[u] \in Row \cup {None}
        /\ LiveOf("EMAIL_VERIFICATION")' = {t}
        /\ \A q \in Purpose \ {"EMAIL_VERIFICATION"} : LiveOf(q)' = LiveOf(q)
    BY <1>0, <2>1, <2>3, IssueLeavesOneLive
  <2>5. TypeOK'
    <3>1. row' \in [Token -> Row \cup {None}]
      BY <1>0, <2>2, <2>4 DEF TypeOK
    <3> QED BY <1>0, <2>1, <2>2, <3>1 DEF TypeOK, Users, Steps, Local
  <2>6. UniqueLive' /\ NoAccountNoTokens'
    BY <1>0, <2>1, <2>4 DEF UniqueLive, NoAccountNoTokens
  <2>7. /\ pc'[f] = "mail" /\ my'[f].token = t
        /\ \A g \in Flow \ {f} : pc'[g] = pc[g] /\ my'[g] = my[g]
    BY <1>0, <2>2 DEF TypeOK, Local
  <2>8. Carries(f)' /\ Written(f)' = {} /\ \A p \in Purpose : ~Holds(f, p)'
    BY <2>7 DEF Carries, Redeems, Written, Holds
  <2>9. ASSUME NEW g \in Flow \ {f}
        PROVE  Carries(g)' /\ Written(g)' = Written(g)
                 /\ \A p \in Purpose : Holds(g, p)' = Holds(g, p)
    <3>1. Carries(g) /\ pc[g] # "insert" /\ ~Redeems(g)
      BY <1>0, <2>1 DEF Requests, Carries, Unconsumed
    <3> QED BY <2>1, <2>2, <2>7, <3>1, OtherRequestsStand
  <2>10. LockExclusive' /\ RowsExclusive'
    BY <1>0, <2>8, <2>9 DEF LockExclusive, RowsExclusive
  <2> QED BY <2>5, <2>6, <2>8, <2>9, <2>10 DEF IInv, Requests
<1> QED BY <1>1, <1>2

\* Issuing keeps the invariant: nobody else holds the lock of the purpose.
LEMMA InsertKeepsIInv ==
    ASSUME IInv, NEW f \in Flow, NEW t \in Token, Insert(f, t)
    PROVE  IInv'
<1>a. PICK p \in Purpose : p = PurposeOf(f)
  BY PurposeOfIsPurpose
<1>0. TypeOK /\ UniqueLive /\ LockExclusive /\ RowsExclusive /\ Requests
  BY DEF IInv
<1>1. /\ CommitsIssue(p, t) /\ my[f].rows = LiveOf(p)
      /\ pc[f] = "insert" /\ user.exists
      /\ pc' = [pc EXCEPT ![f] = "mail"]
      /\ my' = [my EXCEPT ![f].token = t, ![f].rows = {}]
      /\ row' \in [Token -> Row \cup {None}]
      /\ UNCHANGED <<kind, user, cred, mailbox>>
  BY <1>a, InsertIssues DEF Insert
<1>2. /\ LiveOf(p)' = {t}
      /\ \A q \in Purpose \ {p} : LiveOf(q)' = LiveOf(q)
      /\ \A u \in Token : Unconsumed(u) /\ u \notin LiveOf(p) => row'[u] = row[u]
  BY <1>0, <1>1, IssueLeavesOneLive
<1>3. TypeOK'
  <2>1. my \in [Flow -> Local]
    BY <1>0 DEF TypeOK
  <2>2. my' \in [Flow -> Local]
    BY <1>1, <2>1 DEF Local
  <2>3. my' \in [Flow -> Local] /\ pc' \in [Flow -> Steps]
    BY <1>0, <1>1, <2>2 DEF TypeOK, Steps
  <2> QED BY <1>0, <1>1, <2>3 DEF TypeOK
<1>4. UniqueLive' /\ NoAccountNoTokens'
  <2>1. UniqueLive'
    BY <1>0, <1>2 DEF UniqueLive
  <2>2. NoAccountNoTokens'
    BY <1>1 DEF NoAccountNoTokens
  <2> QED BY <2>1, <2>2
<1>5. /\ pc'[f] = "mail" /\ my'[f].token = t
      /\ \A g \in Flow \ {f} : pc'[g] = pc[g] /\ my'[g] = my[g]
  BY <1>0, <1>1 DEF TypeOK, Local
<1>6. Carries(f)' /\ Written(f)' = {} /\ \A q \in Purpose : ~Holds(f, q)'
  BY <1>5 DEF Carries, Redeems, Written, Holds
<1>7. ASSUME NEW g \in Flow \ {f}
      PROVE  Carries(g)' /\ Written(g)' = Written(g)
               /\ \A q \in Purpose : Holds(g, q)' = Holds(g, q)
  <2>1. Carries(g)
    BY <1>0 DEF Requests
  <2>2. pc[g] = "insert" => PurposeOf(g) # p
    <3>1. pc[g] = "insert" => Holds(g, PurposeOf(g))
      BY DEF Holds
    <3>2. Holds(f, p)
      BY <1>1, <1>a DEF Holds
    <3> QED BY <1>0, <3>1, <3>2 DEF LockExclusive
  <2>3. pc[g] = "insert" => LiveOf(PurposeOf(g))' = LiveOf(PurposeOf(g))
    <3>1. PurposeOf(g) \in Purpose /\ PurposeOf(g)' = PurposeOf(g)
      BY <1>1, <1>5, PurposeOfIsPurpose DEF PurposeOf
    <3> QED BY <1>2, <2>2, <3>1
  <2>4. ASSUME Redeems(g)
        PROVE  Unconsumed(my[g].token)' /\ row'[my[g].token].purpose = row[my[g].token].purpose
    <3>1. my[g].token \in Token /\ Unconsumed(my[g].token) /\ my[g].token \in Written(g)
      BY <2>1, <2>4 DEF Carries, Redeems, Written
    <3>2. my[g].token \notin LiveOf(p)
      BY <1>0, <1>1, <3>1 DEF RowsExclusive, Written
    <3>3. row'[my[g].token] = row[my[g].token]
      BY <1>2, <3>1, <3>2
    <3> QED BY <1>5, <3>1, <3>3 DEF Unconsumed
  <2> QED BY <1>1, <1>5, <2>1, <2>3, <2>4, OtherRequestsStand
<1>8. LockExclusive' /\ RowsExclusive'
  BY <1>0, <1>6, <1>7 DEF LockExclusive, RowsExclusive
<1> QED BY <1>3, <1>4, <1>6, <1>7, <1>8 DEF IInv, Requests

\* Redeeming keeps the invariant: nobody else has written the row.
LEMMA ApplyKeepsIInv ==
    ASSUME IInv, NEW f \in Flow, VerifyApply(f) \/ ResetApply(f)
    PROVE  IInv'
<1>0. /\ TypeOK /\ UniqueLive /\ LockExclusive /\ RowsExclusive /\ Requests
      /\ cred \in Nat /\ mailbox \in SUBSET Token
  BY DEF IInv, TypeOK
<1>1. CASE ResetApply(f) /\ ~CredentialUnchanged(f)
  BY <1>0, <1>1, EndKeepsIInv DEF ResetApply, GivesBack
<1>2. CASE VerifyApply(f) \/ (ResetApply(f) /\ CredentialUnchanged(f))
  <2>a. PICK p \in Purpose, t \in Token : p = PurposeOf(f) /\ t = my[f].token
    BY <1>2, ApplyRedeems, PurposeOfIsPurpose
  <2>1. /\ CommitsRedemption(p, t) /\ t \in Token /\ t \in Written(f)
        /\ user' = [user EXCEPT !.verified = TRUE] /\ user.exists
        /\ pc[f] = "apply" /\ Finish(f) /\ kind' = kind /\ mailbox' = mailbox
    BY <1>2, <2>a, ApplyRedeems
  <2>2. /\ row' \in [Token -> Row \cup {None}]
        /\ LiveOf(p) = {t} /\ LiveOf(p)' = {}
        /\ \A q \in Purpose \ {p} : LiveOf(q)' = LiveOf(q)
        /\ \A u \in Token \ {t} : row'[u] = row[u]
    BY <1>0, <2>1, RedemptionEndsTheToken
  <2>3. /\ pc' = [pc EXCEPT ![f] = "done"] /\ my' = [my EXCEPT ![f] = NoRequest]
        /\ NoRequest \in Local /\ "done" \in Steps
        /\ Carries(f)' /\ Written(f)' = {} /\ \A q \in Purpose : ~Holds(f, q)'
    BY <1>0, <2>1, FinishedHoldsNothing
  <2>4. TypeOK'
    <3>1. cred' \in Nat
      BY <1>0, <1>2 DEF VerifyApply, ResetApply
    <3>2. user' \in Users /\ user'.exists
      BY <1>0, <2>1 DEF TypeOK, Users
    <3> QED BY <1>0, <2>1, <2>2, <2>3, <3>1, <3>2 DEF TypeOK
  <2>5. UniqueLive'
    BY <1>0, <2>2 DEF UniqueLive
  <2>6. NoAccountNoTokens' /\ user'.exists
    BY <1>0, <2>1 DEF TypeOK, Users, NoAccountNoTokens
  <2>7. ASSUME NEW g \in Flow \ {f}
        PROVE  Carries(g)' /\ Written(g)' = Written(g)
                 /\ \A q \in Purpose : Holds(g, q)' = Holds(g, q)
    <3>1. Carries(g) /\ pc'[g] = pc[g] /\ my'[g] = my[g] /\ t \notin Written(g)
      BY <1>0, <2>1, <2>3 DEF Requests, TypeOK, RowsExclusive
    <3>2. ASSUME pc[g] = "insert" PROVE LiveOf(PurposeOf(g))' = LiveOf(PurposeOf(g))
      <4>1. PurposeOf(g) \in Purpose /\ PurposeOf(g)' = PurposeOf(g)
        BY <2>1, PurposeOfIsPurpose DEF PurposeOf
      <4>2. t \notin LiveOf(PurposeOf(g))
        BY <3>1, <3>2 DEF Written, Carries
      <4> QED BY <2>2, <4>1, <4>2
    <3>3. ASSUME Redeems(g)
          PROVE  Unconsumed(my[g].token)' /\ row'[my[g].token].purpose = row[my[g].token].purpose
      <4>1. my[g].token \in Token \ {t} /\ Unconsumed(my[g].token)
        BY <3>1, <3>3 DEF Carries, Redeems, Written
      <4> QED BY <2>2, <3>1, <4>1 DEF Unconsumed
    <3> QED BY <2>1, <2>6, <3>1, <3>2, <3>3, OtherRequestsStand
  <2>8. LockExclusive' /\ RowsExclusive'
    BY <1>0, <2>3, <2>7 DEF LockExclusive, RowsExclusive
  <2> QED BY <2>3, <2>4, <2>5, <2>6, <2>7, <2>8 DEF IInv, Requests
<1> QED BY <1>1, <1>2 DEF ResetApply

\* An expired token keeps its slot.
LEMMA ExpiryChangesNothingLive ==
    ASSUME TypeOK, NEW t \in Token, Expire(t)
    PROVE  /\ row' \in [Token -> Row \cup {None}]
           /\ \A u \in Token : /\ Unconsumed(u)' = Unconsumed(u)
                               /\ row'[u] = None <=> row[u] = None
                               /\ row[u] # None => row'[u].purpose = row[u].purpose
           /\ \A p \in Purpose : LiveOf(p)' = LiveOf(p)
           /\ redeemed' = redeemed
<1>1. /\ row[t] \in Row /\ row[t] # None /\ row' = [row EXCEPT ![t].expired = TRUE]
      /\ [row[t] EXCEPT !.expired = TRUE] \in Row
  BY DEF Expire, Unconsumed, TypeOK, Row
<1>2. /\ row' \in [Token -> Row \cup {None}]
      /\ row'[t] = [row[t] EXCEPT !.expired = TRUE] /\ row'[t] # None
      /\ \A u \in Token \ {t} : row'[u] = row[u]
  BY <1>1, NoRowAssumption DEF TypeOK
<1>3. row'[t].consumed = row[t].consumed /\ row'[t].purpose = row[t].purpose
  BY <1>1, <1>2 DEF Row
<1> QED BY <1>1, <1>2, <1>3 DEF Unconsumed, LiveOf, redeemed

\* The passage of time keeps the invariant.
LEMMA ExpireKeepsIInv ==
    ASSUME IInv, NEW t \in Token, Expire(t)
    PROVE  IInv'
<1>0. TypeOK /\ UniqueLive /\ NoAccountNoTokens /\ LockExclusive /\ RowsExclusive /\ Requests
  BY DEF IInv
<1>1. /\ row' \in [Token -> Row \cup {None}]
      /\ \A u \in Token : /\ Unconsumed(u)' = Unconsumed(u)
                          /\ row'[u] = None <=> row[u] = None
                          /\ row[u] # None => row'[u].purpose = row[u].purpose
      /\ \A p \in Purpose : LiveOf(p)' = LiveOf(p)
  BY <1>0, ExpiryChangesNothingLive
<1>2. UNCHANGED <<kind, user, cred, mailbox, pc, my>>
  BY DEF Expire
<1>3. TypeOK' /\ UniqueLive' /\ NoAccountNoTokens'
  BY <1>0, <1>1, <1>2 DEF TypeOK, UniqueLive, NoAccountNoTokens
<1>4. ASSUME NEW g \in Flow
      PROVE  Carries(g)' /\ Written(g)' = Written(g)
               /\ \A p \in Purpose : Holds(g, p)' = Holds(g, p)
  <2>1. Carries(g) /\ PurposeOf(g) \in Purpose /\ PurposeOf(g)' = PurposeOf(g)
    BY <1>0, <1>2, PurposeOfIsPurpose DEF Requests, PurposeOf
  <2>2. ASSUME Redeems(g)
        PROVE  Unconsumed(my[g].token)' /\ row'[my[g].token].purpose = row[my[g].token].purpose
    <3>1. my[g].token \in Token /\ Unconsumed(my[g].token)
      BY <2>1, <2>2 DEF Carries
    <3>2. Unconsumed(my[g].token)' = Unconsumed(my[g].token)
      BY <1>1, <1>2, <3>1 DEF Unconsumed
    <3> QED BY <1>1, <3>1, <3>2 DEF Unconsumed
  <2> QED BY <1>1, <1>2, <2>1, <2>2, OtherRequestsStand
<1>5. LockExclusive' /\ RowsExclusive'
  BY <1>0, <1>4 DEF LockExclusive, RowsExclusive
<1> QED BY <1>3, <1>4, <1>5 DEF IInv, Requests

\* Every step keeps the invariant.
LEMMA NextIInv == IInv /\ [Next]_vars => IInv'
<1> SUFFICES ASSUME IInv, [Next]_vars PROVE IInv'
  OBVIOUS
<1>1. CASE UNCHANGED vars
  BY <1>1 DEF vars, IInv, TypeOK, UniqueLive, LiveOf, Unconsumed, NoAccountNoTokens, LockExclusive,
              Holds, PurposeOf, RowsExclusive, Written, Requests, Carries, Redeems
<1>2. ASSUME NEW f \in Flow, Step(f) PROVE IInv'
  BY <1>2, StepsWithoutWritesKeepIInv, CreateAccountKeepsIInv, InsertKeepsIInv, ApplyKeepsIInv
     DEF Step
<1>3. ASSUME NEW f \in Flow, Fail(f) \/ \E t \in Token : RedeemStart(f, t) PROVE IInv'
  BY <1>3, StepsWithoutWritesKeepIInv
<1>4. ASSUME NEW t \in Token, Expire(t) PROVE IInv'
  BY <1>4, ExpireKeepsIInv
<1> QED BY <1>1, <1>2, <1>3, <1>4 DEF Next

-----------------------------------------------------------------------------
(* The refinement. *)

\* The newest token of a purpose is its live one.
LEMMA NewestIsLive ==
    /\ newest = [p \in Purpose |-> newest[p]] /\ newest' = [p \in Purpose |-> newest'[p]]
    /\ \A p \in Purpose :
         /\ LiveOf(p) = {} => newest[p] = None
         /\ LiveOf(p) # {} => newest[p] \in LiveOf(p)
         /\ LiveOf(p)' = {} => newest'[p] = None
         /\ LiveOf(p)' # {} => newest'[p] \in LiveOf(p)'
<1>1. newest = [p \in Purpose |-> newest[p]] /\ newest' = [p \in Purpose |-> newest'[p]]
  BY DEF newest
<1>2. ASSUME NEW p \in Purpose
      PROVE  /\ LiveOf(p) = {} => newest[p] = None
             /\ LiveOf(p) # {} => newest[p] \in LiveOf(p)
             /\ LiveOf(p)' = {} => newest'[p] = None
             /\ LiveOf(p)' # {} => newest'[p] \in LiveOf(p)'
  BY DEF newest
<1> QED BY <1>1, <1>2

\* Rows that keep what is live and what is redeemed make a step that stutters.
LEMMA SameLiveStutters ==
    ASSUME IInv, IInv', \A p \in Purpose : LiveOf(p)' = LiveOf(p), redeemed' = redeemed
    PROVE  UNCHANGED Promise!vars
<1>1. ASSUME NEW p \in Purpose PROVE newest'[p] = newest[p]
  BY NewestIsLive DEF IInv, UniqueLive
<1>2. newest' = newest
  BY <1>1, NewestIsLive
<1> QED BY <1>2 DEF Promise!vars

\* The tables, when a token is issued, take an Issue step of the abstract
\* token.
LEMMA IssueRefines ==
    ASSUME IInv, IInv', NEW p \in Purpose, NEW t \in Token, CommitsIssue(p, t)
    PROVE  Promise!Issue(p, t)
<1>1. /\ LiveOf(p)' = {t} /\ \A q \in Purpose \ {p} : LiveOf(q)' = LiveOf(q)
      /\ redeemed' = redeemed /\ t \notin redeemed
      /\ \A q \in Purpose : t \notin LiveOf(q)
  BY IssueLeavesOneLive DEF IInv
<1>2. \A q \in Purpose : newest[q] # t
  BY <1>1, NewestIsLive, NoneAssumption
<1>3. newest'[p] = t
  BY <1>1, NewestIsLive
<1>4. \A q \in Purpose \ {p} : newest'[q] = newest[q]
  BY <1>1, NewestIsLive DEF IInv, UniqueLive
<1>5. newest' = [newest EXCEPT ![p] = t]
  BY <1>3, <1>4, NewestIsLive
<1> QED BY <1>1, <1>2, <1>5 DEF Promise!Issue

\* The tables, when one is spent, take a Redeem step of the abstract token.
LEMMA RedemptionRefines ==
    ASSUME IInv, IInv', NEW p \in Purpose, NEW t \in Token, CommitsRedemption(p, t)
    PROVE  Promise!Redeem(p, t)
<1>1. /\ LiveOf(p) = {t} /\ LiveOf(p)' = {}
      /\ \A q \in Purpose \ {p} : LiveOf(q)' = LiveOf(q)
      /\ redeemed' = redeemed \cup {t}
  BY RedemptionEndsTheToken DEF IInv
<1>2. newest[p] = t /\ newest'[p] = None
  BY <1>1, NewestIsLive
<1>3. \A q \in Purpose \ {p} : newest'[q] = newest[q]
  BY <1>1, NewestIsLive DEF IInv, UniqueLive
<1>4. newest' = [newest EXCEPT ![p] = None]
  BY <1>2, <1>3, NewestIsLive
<1> QED BY <1>1, <1>2, <1>4 DEF Promise!Redeem

\* Every step issues, redeems, or changes nothing that is promised.
LEMMA StepRefines == IInv /\ IInv' /\ [Next]_vars => [Promise!Next]_(Promise!vars)
<1> SUFFICES ASSUME IInv, IInv', [Next]_vars PROVE [Promise!Next]_(Promise!vars)
  OBVIOUS
<1>1. ASSUME row' = row PROVE UNCHANGED Promise!vars
  <2>1. redeemed' = redeemed /\ \A p \in Purpose : LiveOf(p)' = LiveOf(p)
    BY <1>1, SameRowsSameLive DEF redeemed
  <2> QED BY <2>1, SameLiveStutters
<1>2. ASSUME NEW f \in Flow, NEW t \in Token, CreateAccount(f, t), ~AddressIsTaken
      PROVE  Promise!Next
  <2>1. CommitsIssue("EMAIL_VERIFICATION", t) /\ "EMAIL_VERIFICATION" \in Purpose
    BY <1>2, CreateAccountIssues DEF Purpose
  <2> QED BY <2>1, IssueRefines DEF Promise!Next
<1>3. ASSUME NEW f \in Flow, NEW t \in Token, Insert(f, t)
      PROVE  Promise!Next
  <2>1. PICK p \in Purpose : p = PurposeOf(f)
    BY PurposeOfIsPurpose
  <2>2. CommitsIssue(p, t)
    BY <1>3, <2>1, InsertIssues
  <2> QED BY <2>2, IssueRefines DEF Promise!Next
<1>4. ASSUME NEW f \in Flow, VerifyApply(f) \/ (ResetApply(f) /\ CredentialUnchanged(f))
      PROVE  Promise!Next
  <2>1. PICK p \in Purpose, t \in Token : p = PurposeOf(f) /\ t = my[f].token
    BY <1>4, ApplyRedeems, PurposeOfIsPurpose
  <2>2. CommitsRedemption(p, t)
    BY <1>4, <2>1, ApplyRedeems
  <2> QED BY <2>2, RedemptionRefines DEF Promise!Next
<1>5. ASSUME NEW t \in Token, Expire(t) PROVE UNCHANGED Promise!vars
  BY <1>5, ExpiryChangesNothingLive, SameLiveStutters DEF IInv
<1>6. \/ row' = row
      \/ \E f \in Flow, t \in Token : CreateAccount(f, t) /\ ~AddressIsTaken
      \/ \E f \in Flow, t \in Token : Insert(f, t)
      \/ \E f \in Flow : VerifyApply(f) \/ (ResetApply(f) /\ CredentialUnchanged(f))
      \/ \E t \in Token : Expire(t)
  BY DEF Next, Step, vars, tables, RegisterStart, IssueStart, Lock, Supersede, Mail, Consume,
         ResetRead, ResetApply, GivesBack, ChangeStart, ChangeApply, RedeemStart, Fail, CreateAccount
<1> QED BY <1>1, <1>2, <1>3, <1>4, <1>5, <1>6

\* The empty tables are an initial state of the abstract token.
LEMMA InitRefines == Init => Promise!Init
<1> SUFFICES ASSUME Init PROVE Promise!Init
  OBVIOUS
<1>1. \A p \in Purpose : newest[p] \in Token \cup {None}
  BY NewestIsLive DEF LiveOf
<1>2. \A t \in Token : row[t] # None => row[t].consumed = "no"
  BY DEF Init, Fresh
<1>3. redeemed = {}
  BY <1>2 DEF redeemed
<1> QED BY <1>1, <1>3, NewestIsLive DEF Promise!Init

-----------------------------------------------------------------------------
(* A token is spent with what it was for.                                  *)

Effect ==
    /\ \A t \in redeemed' \ redeemed :
          /\ user'.verified
          /\ row[t].purpose = "PASSWORD_RESET" => cred' = cred + 1
    /\ user'.verified # user.verified => redeemed' # redeemed
    /\ \A f \in Flow : pc[f] = "apply" /\ pc'[f] # "apply" /\ cred' # cred => cred = my[f].cred

\* No step consumes a token without its effect.
LEMMA StepHasEffect == IInv /\ [Next]_vars => Effect
<1> SUFFICES ASSUME IInv, [Next]_vars PROVE Effect
  OBVIOUS
<1>0. TypeOK /\ UniqueLive
  BY DEF IInv
<1>1. ASSUME redeemed' = redeemed, user' = user, cred' = cred PROVE Effect
  BY <1>1 DEF Effect
<1>2. ASSUME NEW f \in Flow, NEW t \in Token, CreateAccount(f, t), ~AddressIsTaken PROVE Effect
  <2>1. /\ CommitsIssue("EMAIL_VERIFICATION", t) /\ "EMAIL_VERIFICATION" \in Purpose
        /\ user.verified = FALSE /\ user'.verified = FALSE
    BY <1>0, <1>2, CreateAccountIssues DEF Purpose, TypeOK, Users
  <2>2. redeemed' = redeemed
    BY <1>0, <2>1, IssueLeavesOneLive
  <2>3. \A g \in Flow : pc[g] = "apply" => pc'[g] = "apply"
    BY <1>0, <1>2 DEF CreateAccount, Goto, TypeOK
  <2> QED BY <2>1, <2>2, <2>3 DEF Effect
<1>3. ASSUME NEW f \in Flow, NEW t \in Token, Insert(f, t) PROVE Effect
  <2>1. PICK p \in Purpose : p = PurposeOf(f)
    BY PurposeOfIsPurpose
  <2>2. redeemed' = redeemed
    BY <1>0, <1>3, <2>1, InsertIssues, IssueLeavesOneLive
  <2> QED BY <1>1, <1>3, <2>2 DEF Insert
<1>4. ASSUME NEW f \in Flow, VerifyApply(f) \/ (ResetApply(f) /\ CredentialUnchanged(f))
      PROVE  Effect
  <2>1. PICK p \in Purpose, t \in Token : p = PurposeOf(f) /\ t = my[f].token
    BY <1>4, ApplyRedeems, PurposeOfIsPurpose
  <2>2. /\ CommitsRedemption(p, t) /\ user' = [user EXCEPT !.verified = TRUE] /\ Finish(f)
    BY <1>4, <2>1, ApplyRedeems
  <2>3. redeemed' = redeemed \cup {t} /\ t \notin redeemed /\ row[t].purpose = p
    BY <1>0, <2>2, RedemptionEndsTheToken DEF CommitsRedemption, LiveOf
  <2>4. user'.verified
    BY <1>0, <2>2 DEF TypeOK, Users
  <2>5. p = "PASSWORD_RESET" => cred' = cred + 1
    BY <1>4, <2>1 DEF VerifyApply, ResetApply, PurposeOf
  <2>6. \A g \in Flow \ {f} : pc'[g] = pc[g]
    BY <1>0, <2>2 DEF Finish, Goto, TypeOK
  <2>7. cred' # cred => cred = my[f].cred
    BY <1>4 DEF VerifyApply, ResetApply, CredentialUnchanged
  <2> QED BY <2>3, <2>4, <2>5, <2>6, <2>7 DEF Effect
<1>5. ASSUME NEW t \in Token, Expire(t) PROVE Effect
  BY <1>0, <1>1, <1>5, ExpiryChangesNothingLive DEF Expire
<1>6. ASSUME NEW f \in Flow, ChangeApply(f) PROVE Effect
  <2>1. redeemed' = redeemed /\ user' = user
    BY <1>6 DEF ChangeApply, redeemed
  <2>2. \A g \in Flow \ {f} : pc'[g] = pc[g]
    BY <1>0, <1>6 DEF ChangeApply, Finish, Goto, TypeOK
  <2>3. cred' # cred => cred = my[f].cred
    BY <1>6 DEF ChangeApply, CredentialUnchanged
  <2> QED BY <2>1, <2>2, <2>3 DEF Effect
<1>7. ASSUME row' = row, user' = user, cred' = cred PROVE Effect
  BY <1>1, <1>7 DEF redeemed
<1>8. \/ row' = row /\ user' = user /\ cred' = cred
      \/ \E f \in Flow, t \in Token : CreateAccount(f, t) /\ ~AddressIsTaken
      \/ \E f \in Flow, t \in Token : Insert(f, t)
      \/ \E f \in Flow : VerifyApply(f) \/ (ResetApply(f) /\ CredentialUnchanged(f))
      \/ \E f \in Flow : ChangeApply(f)
      \/ \E t \in Token : Expire(t)
  BY DEF Next, Step, vars, tables, RegisterStart, IssueStart, Lock, Supersede, Mail, Consume,
         ResetRead, ResetApply, GivesBack, ChangeStart, RedeemStart, Fail, CreateAccount
<1> QED BY <1>2, <1>3, <1>4, <1>5, <1>6, <1>7, <1>8

-----------------------------------------------------------------------------
\* The tables keep their types, and no issue is ever refused by the unique index:
\* the advisory lock orders the supersessions, whatever is in flight.
THEOREM TypeCorrect == Spec => []TypeOK
<1>1. IInv => TypeOK
  BY DEF IInv
<1> QED BY InitIInv, NextIInv, <1>1, PTL DEF Spec

\* TokenService keeps what an emailed link promises: the tables implement
\* SingleUseToken, for every number of requests and tokens.
THEOREM TokensAreSingleUse == Spec => OnlyTheNewestWorksOnce
<1>1. Init => Promise!Init
  BY InitRefines
<1>2. IInv /\ IInv' /\ [Next]_vars => [Promise!Next]_(Promise!vars)
  BY StepRefines
<1> QED BY InitIInv, NextIInv, <1>1, <1>2, PTL DEF Spec, OnlyTheNewestWorksOnce, Promise!Spec

\* A token and what it was for are one transaction: neither is ever had alone.
THEOREM TokensBuyTheirEffect == Spec => SpentWithItsEffect
<1>1. IInv /\ [Next]_vars => [Effect]_vars
  BY StepHasEffect
<1> QED BY InitIInv, NextIInv, <1>1, PTL DEF Spec, SpentWithItsEffect, Effect
=============================================================================
