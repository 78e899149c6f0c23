----------------------------- MODULE EmailTokens -----------------------------
(***************************************************************************)
(* Registration, email verification and password reset of one address: the *)
(* tokens they issue, mail and redeem, statement by statement under READ   *)
(* COMMITTED.                                                              *)
(*                                                                         *)
(* An issue takes the advisory lock of its user and purpose, supersedes    *)
(* what is unconsumed, inserts and commits, and only then mails.  A        *)
(* redemption's first statement consumes the token and holds its row to    *)
(* the end of the transaction, whose refusal gives the token back.  The    *)
(* tables hold what is committed.  The sessions a reset ends are           *)
(* SessionFlows' and the lockout it clears is Lockout's.                   *)
(***************************************************************************)
EXTENDS Integers, FiniteSets

CONSTANTS
    Token,   \* token ids
    Link,    \* of each purpose, the token an earlier request may have mailed
    None,    \* no token
    Flow,    \* the requests that may run, at most once each
    Races    \* what each of them does, in each race to be looked at

Purpose == {"EMAIL_VERIFICATION", "PASSWORD_RESET"}
Kinds == {"register", "resend", "forgot", "verify", "reset", "change"}

ASSUME NoneAssumption == None \notin Token
ASSUME LinkAssumption ==
    /\ Link \in [Purpose -> Token]
    /\ Link["EMAIL_VERIFICATION"] # Link["PASSWORD_RESET"]
ASSUME RacesAssumption == Races \subseteq [Flow -> Kinds]

VARIABLES
    kind,      \* the race that is on
    user,      \* the User row of the address
    cred,      \* the stored hash, each written once; 0 before there is one
    row,       \* the VerificationToken table
    mailbox,   \* the tokens that were mailed: nobody else knows them
    pc,        \* the step each request takes next
    my         \* what each request holds between steps

vars == <<kind, user, cred, row, mailbox, pc, my>>

-----------------------------------------------------------------------------
(* Data. *)

Users == [exists : BOOLEAN, verified : BOOLEAN]

\* A superseded row and a redeemed one are both consumed.
Row == [purpose : Purpose, consumed : {"no", "superseded", "redeemed"}, expired : BOOLEAN]

ASSUME NoRowAssumption == None \notin Row

Local == [token : Token \cup {None}, rows : SUBSET Token, cred : Nat, fresh : BOOLEAN]

\* A unique index that refuses a row would be a step of its own, "conflict".
Steps == {"ready", "create", "lock", "supersede", "insert", "mail",
          "consume", "read", "apply", "done"}

Unconsumed(t) == row[t] # None /\ row[t].consumed = "no"
LiveOf(p) == {t \in Token : Unconsumed(t) /\ row[t].purpose = p}

\* What `f` issues or redeems.
PurposeOf(f) == IF kind[f] \in {"register", "resend", "verify"} THEN "EMAIL_VERIFICATION"
                                                               ELSE "PASSWORD_RESET"

Fresh(p) == [purpose |-> p, consumed |-> "no", expired |-> FALSE]

-----------------------------------------------------------------------------
NoRequest == [token |-> None, rows |-> {}, cred |-> 0, fresh |-> FALSE]

\* Nobody has registered, or somebody has and holds a link of some purposes.
Init ==
    /\ kind \in Races
    /\ user \in Users
    /\ cred = IF user.exists THEN 1 ELSE 0
    /\ \E held \in SUBSET Purpose :
           /\ user.exists \/ (held = {} /\ ~user.verified)
           /\ user.verified => "EMAIL_VERIFICATION" \notin held
           /\ mailbox = {Link[p] : p \in held}
           /\ row = [t \in Token |-> IF t \in mailbox
                                        THEN Fresh(CHOOSE p \in held : Link[p] = t) ELSE None]
    /\ pc = [f \in Flow |-> "ready"]
    /\ my = [f \in Flow |-> NoRequest]

Begins(f, K) == pc[f] = "ready" /\ kind[f] \in K
Goto(f, step) == pc' = [pc EXCEPT ![f] = step]

\* A request that has answered holds nothing.
Finish(f) ==
    /\ Goto(f, "done")
    /\ my' = [my EXCEPT ![f] = NoRequest]

\* Ids are drawn fresh, one as good as another.
FreshId(t) == row[t] = None /\ t = CHOOSE u \in Token : row[u] = None

tables == <<kind, user, cred, row, mailbox>>

-----------------------------------------------------------------------------
(* Registration. *)

\* The address is looked up; one that is taken gets a notice and no account.
RegisterStart(f) ==
    /\ Begins(f, {"register"})
    /\ Goto(f, IF user.exists THEN "done" ELSE "create")
    /\ UNCHANGED <<tables, my>>

AddressIsTaken == user.exists

\* createAccount: account, credential and token commit together, unless the
\* unique address was taken since the look.
CreateAccount(f, t) ==
    /\ pc[f] = "create" /\ FreshId(t)
    /\ IF AddressIsTaken
           THEN Finish(f) /\ UNCHANGED tables
           ELSE /\ user' = [exists |-> TRUE, verified |-> FALSE]
                /\ cred' = cred + 1
                /\ row' = [row EXCEPT ![t] = Fresh("EMAIL_VERIFICATION")]
                /\ my' = [my EXCEPT ![f].token = t]
                /\ Goto(f, "mail")
                /\ UNCHANGED <<kind, mailbox>>

-----------------------------------------------------------------------------
(* Issuing: issueInTransaction, and the mail after the commit. *)

\* resend and request look at the account first, outside the transaction.
IssueStart(f) ==
    /\ Begins(f, {"resend", "forgot"})
    /\ Goto(f, IF user.exists /\ (kind[f] = "resend" => ~user.verified) THEN "lock" ELSE "done")
    /\ UNCHANGED <<tables, my>>

Holds(g, p) == pc[g] \in {"supersede", "insert"} /\ PurposeOf(g) = p

IssuesUnlocked(f) == TRUE               \* mutant: no advisory lock
OutlivesTheTransaction(f) ==            \* mutant: a session's lock, and nobody unlocks it
    \A g \in Flow : \/ kind[g] \notin {"resend", "forgot"} \/ pc[g] \in {"ready", "lock"}
                    \/ PurposeOf(g) # PurposeOf(f)
AdvisoryLockIsFree(f) == \A g \in Flow : ~Holds(g, PurposeOf(f))

Lock(f) ==
    /\ pc[f] = "lock" /\ AdvisoryLockIsFree(f)
    /\ Goto(f, "supersede")
    /\ UNCHANGED <<tables, my>>

\* Rows that another transaction has written and not yet committed.
Written(g) == CASE pc[g] = "insert" -> my[g].rows
                [] pc[g] \in {"read", "apply"} -> {my[g].token}
                [] OTHER -> {}
RowIsFree(f, t) == \A g \in Flow \ {f} : t \notin Written(g)

ToSupersede(f) == LiveOf(PurposeOf(f))

\* One UPDATE: it waits for every row it matches, and looks again.
Supersede(f) ==
    /\ pc[f] = "supersede"
    /\ \A t \in ToSupersede(f) : RowIsFree(f, t)
    /\ my' = [my EXCEPT ![f].rows = ToSupersede(f)]
    /\ Goto(f, "insert")
    /\ UNCHANGED tables

\* The commit, unless the unique index on unconsumed tokens refuses.
Insert(f, t) ==
    /\ pc[f] = "insert" /\ FreshId(t)
    /\ IF LiveOf(PurposeOf(f)) \subseteq my[f].rows
           THEN /\ row' = [u \in Token |->
                             IF u = t THEN Fresh(PurposeOf(f))
                             ELSE IF u \in my[f].rows THEN [row[u] EXCEPT !.consumed = "superseded"]
                             ELSE row[u]]
                /\ my' = [my EXCEPT ![f].token = t, ![f].rows = {}]
                /\ Goto(f, "mail")
           ELSE /\ Goto(f, "conflict")
                /\ UNCHANGED <<row, my>>
    /\ UNCHANGED <<kind, user, cred, mailbox>>

Mail(f) ==
    /\ pc[f] = "mail"
    /\ mailbox' = mailbox \cup {my[f].token}
    /\ Finish(f)
    /\ UNCHANGED <<kind, user, cred, row>>

-----------------------------------------------------------------------------
(* Redeeming: consumeInTransaction, and what the token was for. *)

\* The time the expiry is compared with is taken before the statement, and
\* the statement may wait for the row.
RedeemStart(f, t) ==
    /\ Begins(f, {"verify", "reset"}) /\ t \in mailbox
    /\ my' = [my EXCEPT ![f].token = t, ![f].fresh = ~row[t].expired]
    /\ Goto(f, "consume")
    /\ UNCHANGED tables

\* Of its purpose, unconsumed and unexpired, in one statement.
Consumable(f) ==
    LET t == my[f].token IN
    Unconsumed(t) /\ row[t].purpose = PurposeOf(f) /\ my[f].fresh

ConsumesWithoutWaiting(f) == TRUE       \* mutant: the row is read and not locked
WaitsForTheRow(f) == RowIsFree(f, my[f].token)

Consume(f) ==
    /\ pc[f] = "consume" /\ WaitsForTheRow(f)
    /\ IF Consumable(f)
           THEN Goto(f, IF kind[f] = "reset" THEN "read" ELSE "apply") /\ UNCHANGED my
           ELSE Finish(f)
    /\ UNCHANGED tables

Redeemed(t) == [row EXCEPT ![t].consumed = "redeemed"]

VerifyApply(f) ==
    /\ pc[f] = "apply" /\ kind[f] = "verify"
    /\ user' = [user EXCEPT !.verified = TRUE]
    /\ row' = Redeemed(my[f].token)
    /\ Finish(f)
    /\ UNCHANGED <<kind, cred, mailbox>>

ResetRead(f) ==
    /\ pc[f] = "read"
    /\ my' = [my EXCEPT ![f].cred = cred]
    /\ Goto(f, "apply")
    /\ UNCHANGED tables

CredentialUnchanged(f) == cred = my[f].cred

BurnsTheToken(t) == Redeemed(t)         \* mutant: a refused reset keeps its token consumed
GivesBack(t) == row

\* The hash is replaced if it is still the one that was read, and the address
\* counts as confirmed; otherwise all of it is rolled back.
ResetApply(f) ==
    /\ pc[f] = "apply" /\ kind[f] = "reset"
    /\ IF CredentialUnchanged(f)
           THEN /\ cred' = cred + 1
                /\ user' = [user EXCEPT !.verified = TRUE]
                /\ row' = Redeemed(my[f].token)
           ELSE row' = GivesBack(my[f].token) /\ UNCHANGED <<user, cred>>
    /\ Finish(f)
    /\ UNCHANGED <<kind, mailbox>>

\* A signed-in change replaces the hash it verified.
ChangeStart(f) ==
    /\ Begins(f, {"change"}) /\ user.exists
    /\ my' = [my EXCEPT ![f].cred = cred]
    /\ Goto(f, "apply")
    /\ UNCHANGED tables

ChangeApply(f) ==
    /\ pc[f] = "apply" /\ kind[f] = "change"
    /\ cred' = IF CredentialUnchanged(f) THEN cred + 1 ELSE cred
    /\ Finish(f)
    /\ UNCHANGED <<kind, user, row, mailbox>>

-----------------------------------------------------------------------------
\* The process dies or the database fails: what is not committed is undone,
\* and what is not mailed never is.
Fail(f) ==
    /\ pc[f] \notin {"ready", "done", "conflict"}
    /\ Finish(f)
    /\ UNCHANGED tables

Expire(t) ==
    /\ Unconsumed(t) /\ ~row[t].expired
    /\ row' = [row EXCEPT ![t].expired = TRUE]
    /\ UNCHANGED <<kind, user, cred, mailbox, pc, my>>

Step(f) ==
    \/ RegisterStart(f) \/ IssueStart(f) \/ Lock(f) \/ Supersede(f) \/ Mail(f)
    \/ Consume(f) \/ VerifyApply(f) \/ ResetRead(f) \/ ResetApply(f)
    \/ ChangeStart(f) \/ ChangeApply(f)
    \/ \E t \in Token : CreateAccount(f, t) \/ Insert(f, t)

Next ==
    \/ \E f \in Flow : Step(f) \/ Fail(f) \/ \E t \in Token : RedeemStart(f, t)
    \/ \E t \in Token : Expire(t)

\* A request that is running is run to its end, or fails.
Spec == Init /\ [][Next]_vars /\ \A f \in Flow : WF_vars(Step(f))

-----------------------------------------------------------------------------
\* Every table has its type, and no issue meets the unique index on unconsumed
\* tokens: the lock, and the statements that it orders, leave it nothing to refuse.
TypeOK ==
    /\ kind \in Races
    /\ user \in Users
    /\ cred \in Nat
    /\ row \in [Token -> Row \cup {None}]
    /\ mailbox \in SUBSET Token
    /\ pc \in [Flow -> Steps]
    /\ my \in [Flow -> Local]

\* The newest token of each purpose is the only one that can be redeemed, and
\* once: the committed tables implement SingleUseToken, whatever the waits.
newest == [p \in Purpose |->
             IF LiveOf(p) = {} THEN None ELSE CHOOSE t \in LiveOf(p) : TRUE]
redeemed == {t \in Token : row[t] # None /\ row[t].consumed = "redeemed"}
Promise == INSTANCE SingleUseToken WITH newest <- newest, redeemed <- redeemed
OnlyTheNewestWorksOnce == Promise!Spec

\* A token is spent with what it was for, or not at all: a step that redeems
\* one confirms the address and, for a reset, replaces the very hash that its
\* request read; and an address is confirmed by nothing else.
SpentWithItsEffect ==
    [][/\ \A t \in redeemed' \ redeemed :
              /\ user'.verified
              /\ row[t].purpose = "PASSWORD_RESET" => cred' = cred + 1
       /\ user'.verified # user.verified => redeemed' # redeemed
       /\ \A f \in Flow : pc[f] = "apply" /\ pc'[f] # "apply" /\ cred' # cred => cred = my[f].cred
      ]_vars

\* Whoever waits for a lock or a row gets it: every request ends.
RequestsEnd == \A f \in Flow : pc[f] # "ready" ~> pc[f] = "done"
=============================================================================
