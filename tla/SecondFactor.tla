---------------------------- MODULE SecondFactor ----------------------------
(***************************************************************************)
(* One user's TOTP factor and recovery codes, the requests that enrol,     *)
(* confirm, replace and remove them, and the verifications that spend them *)
(* to promote a pending session, or fail and lock it out.                  *)
(*                                                                         *)
(* Enrolment's transactions take an advisory lock per user, after reads    *)
(* that do not; a verification takes none until it counts a failure.  Each *)
(* read outside a transaction, each transaction's decision and each commit *)
(* is a step.  What rotation and the password do to a promotion is         *)
(* SessionFlows'.                                                          *)
(***************************************************************************)
EXTENDS Integers, FiniteSets

CONSTANTS
    Session,            \* pending sessions, of earlier logins
    Flow,               \* the requests that may run, at most once each
    Races,              \* what each of them does, in each race to be looked at
    MFA_ATTEMPT_LIMIT,  \* the failure that locks a pending session out
    CODES,              \* recovery codes to a set
    MaxStep,            \* bound: how many TOTP steps go by
    MaxCrashes,         \* bound: how many processes die mid-request
    None                \* no factor, no session

Kinds == {"totp", "recovery", "wrong", "enroll", "confirm", "disable", "regenerate"}
Verifications == {"totp", "recovery", "wrong"}

\* What a promotion is paid with: a step of a factor, or a code of a set.
Payment == {"totp", "code"} \X Nat \X Int

ASSUME NoneAssumption == None \notin Session \cup Payment
ASSUME RacesAssumption == Races \subseteq [Flow -> Kinds]
ASSUME BoundsAssumption == /\ MFA_ATTEMPT_LIMIT \in Nat \ {0} /\ CODES \in Nat \ {0}
                           /\ MaxStep \in Nat /\ MaxCrashes \in Nat

VARIABLES
    kind,      \* the race that is on
    now,       \* the TOTP step of the clock
    factor,    \* the user's row in MfaFactor
    codes,     \* the unused rows in RecoveryCode
    drawn,     \* how many ids were drawn, for factors and for sets of codes
    row,       \* the sessions
    failures,  \* the MFA_CHALLENGE_FAILED events of each
    paid,      \* history: what each promotion spent
    pc,        \* the step each request takes next
    my,        \* what each request holds between steps
    dead       \* the requests whose process died

vars == <<kind, now, factor, codes, drawn, row, failures, paid, pc, my, dead>>

-----------------------------------------------------------------------------
(* Data. *)

NEVER_ACCEPTED_STEP == -1

Factor == [id : Nat, confirmed : BOOLEAN, last : Int]
Code == [set : Nat, n : 1 .. CODES]

Local == [session : Session \cup {None}, factor : Factor \cup {None}, step : Int,
          code : Code \cup {None}, matched : SUBSET Code]

\* A unique index that refuses a row would be a step of its own, "conflict".
Steps == {"ready", "read", "spend", "promote", "fail", "revoke",
          "lock", "decide", "commit", "done"}

Confirmed(x) == x # None /\ x.confirmed
NoRequest == [session |-> None, factor |-> None, step |-> NEVER_ACCEPTED_STEP,
              code |-> None, matched |-> {}]
NewSet(k) == [set : {k}, n : 1 .. CODES]

-----------------------------------------------------------------------------
\* No factor, one being enrolled, or one confirmed with its recovery codes.
Init ==
    /\ kind \in Races
    /\ now = 1
    /\ factor \in {None} \cup [id : {1}, confirmed : BOOLEAN, last : {NEVER_ACCEPTED_STEP}]
    /\ drawn = 1
    /\ codes = IF Confirmed(factor) THEN NewSet(1) ELSE {}
    /\ row = [s \in Session |-> "pending"]
    /\ failures = [s \in Session |-> 0]
    /\ paid = [s \in Session |-> None]
    /\ pc = [f \in Flow |-> "ready"]
    /\ my = [f \in Flow |-> NoRequest]
    /\ dead = {}

At(f, step) == f \notin dead /\ pc[f] = step
Goto(f, step) == pc' = [pc EXCEPT ![f] = step]

\* A request that has answered holds nothing.
Finish(f) == Goto(f, "done") /\ my' = [my EXCEPT ![f] = NoRequest]

mfa == <<factor, codes, drawn>>
sessions == <<row, failures, paid>>

-----------------------------------------------------------------------------
(* Verification: resolve the pending session, read the factor, spend what  *)
(* the user gave, promote.                                                 *)

VerifyStart(f, s) ==
    /\ At(f, "ready") /\ kind[f] \in Verifications
    /\ row[s] = "pending"
    /\ my' = [my EXCEPT ![f].session = s]
    /\ Goto(f, "read")
    /\ UNCHANGED <<kind, now, mfa, sessions, dead>>

\* minimumStepFor and verifyTotpCode: a step either side of the clock's, and
\* past the one last accepted, as the factor was read.
Acceptable(x) == {step \in now - 1 .. now + 1 : step > x.last}

ReadTotp(f, step) ==
    /\ At(f, "read") /\ kind[f] = "totp"
    /\ Confirmed(factor) /\ step \in Acceptable(factor)
    /\ my' = [my EXCEPT ![f].factor = factor, ![f].step = step]
    /\ Goto(f, "spend")
    /\ UNCHANGED <<kind, now, mfa, sessions, dead>>

\* The unused codes are read, and the one given is among them.
ReadRecovery(f, c) ==
    /\ At(f, "read") /\ kind[f] = "recovery"
    /\ Confirmed(factor) /\ c \in codes
    /\ my' = [my EXCEPT ![f].code = c]
    /\ Goto(f, "spend")
    /\ UNCHANGED <<kind, now, mfa, sessions, dead>>

\* No confirmed factor, or not a code of its.
ReadNothing(f) ==
    /\ At(f, "read")
    /\ \/ kind[f] = "wrong" \/ ~Confirmed(factor)
       \/ Confirmed(factor) /\ kind[f] = "totp" /\ Acceptable(factor) = {}
       \/ kind[f] = "recovery" /\ codes = {}
    /\ Goto(f, "fail")
    /\ UNCHANGED <<kind, now, mfa, sessions, my, dead>>

\* Rows that an uncommitted transaction has written make a statement wait.
FactorIsWritten == \E g \in Flow : At(g, "commit") /\ kind[g] \in {"confirm", "disable"}
CodeIsWritten(c) == \E g \in Flow : At(g, "commit") /\ c \in my[g].matched

AnyOtherStep(f) ==                      \* mutant: only the last step is refused
    factor # None /\ factor.id = my[f].factor.id /\ factor.confirmed /\ factor.last # my[f].step

\* replaySpendWhere: this factor, confirmed, whose last step is before.
ReplaySpendWhere(f) ==
    /\ Confirmed(factor) /\ factor.id = my[f].factor.id
    /\ factor.last < my[f].step

SpendTotp(f) ==
    /\ At(f, "spend") /\ kind[f] = "totp" /\ ~FactorIsWritten
    /\ IF ReplaySpendWhere(f)
           THEN factor' = [factor EXCEPT !.last = my[f].step] /\ Goto(f, "promote")
           ELSE UNCHANGED factor /\ Goto(f, "fail")
    /\ UNCHANGED <<kind, now, codes, drawn, sessions, my, dead>>

SpendsWhatItRead(c) == TRUE             \* mutant: the write does not look again
Unused(c) == c \in codes

SpendRecovery(f) ==
    /\ At(f, "spend") /\ kind[f] = "recovery" /\ ~CodeIsWritten(my[f].code)
    /\ IF Unused(my[f].code)
           THEN codes' = codes \ {my[f].code} /\ Goto(f, "promote")
           ELSE UNCHANGED codes /\ Goto(f, "fail")
    /\ UNCHANGED <<kind, now, factor, drawn, sessions, my, dead>>

StillPending(s) == row[s] = "pending"

Spent(f) == IF kind[f] = "totp" THEN <<"totp", my[f].factor.id, my[f].step>>
                                ELSE <<"code", my[f].code.set, my[f].code.n>>

\* What was spent is gone if the session was revoked or promoted meanwhile.
Promote(f) ==
    LET s == my[f].session IN
    /\ At(f, "promote")
    /\ IF StillPending(s) THEN /\ row' = [row EXCEPT ![s] = "active"]
                               /\ paid' = [paid EXCEPT ![s] = Spent(f)]
                          ELSE UNCHANGED <<row, paid>>
    /\ Finish(f)
    /\ UNCHANGED <<kind, now, mfa, failures, dead>>

CountsBeforeItsOwn(s) == failures[s]    \* mutant: counted before the row is written
CountedWithItsOwn(s) == failures[s] + 1

\* recordFailure: the failures of a session are counted one at a time, and
\* the one that makes the limit revokes it, after its commit.
Fail(f) ==
    LET s == my[f].session IN
    /\ At(f, "fail")
    /\ failures' = [failures EXCEPT ![s] = @ + 1]
    /\ IF CountedWithItsOwn(s) = MFA_ATTEMPT_LIMIT THEN Goto(f, "revoke") /\ UNCHANGED my
                                                   ELSE Finish(f)
    /\ UNCHANGED <<kind, now, mfa, row, paid, dead>>

Revoke(f) ==
    LET s == my[f].session IN
    /\ At(f, "revoke")
    /\ row' = [row EXCEPT ![s] = IF @ = "pending" THEN "revoked" ELSE @]
    /\ Finish(f)
    /\ UNCHANGED <<kind, now, mfa, failures, paid, dead>>

-----------------------------------------------------------------------------
(* Enrolment: the factor is read before the lock. *)

Admits(f) ==
    CASE kind[f] = "enroll"                  -> ~Confirmed(factor)
      [] kind[f] = "confirm"                 -> factor # None /\ ~factor.confirmed
      [] kind[f] \in {"disable", "regenerate"} -> Confirmed(factor)

\* A confirmation has verified a code of the factor it read.
EnrolmentStart(f, step) ==
    /\ At(f, "ready") /\ kind[f] \notin Verifications
    /\ IF Admits(f) THEN /\ IF kind[f] = "confirm" THEN step \in Acceptable(factor) ELSE step = now
                         /\ my' = [my EXCEPT ![f].factor = factor, ![f].step = step]
                         /\ Goto(f, "lock")
                    ELSE step = now /\ Finish(f)
    /\ UNCHANGED <<kind, now, mfa, sessions, dead>>

Unlocked == TRUE                        \* mutant: no advisory lock
LockIsFree == \A g \in Flow : pc[g] \in {"decide", "commit"} => g \in dead

Lock(f) ==
    /\ At(f, "lock") /\ LockIsFree
    /\ Goto(f, "decide")
    /\ UNCHANGED <<kind, now, mfa, sessions, my, dead>>

\* enroll looks for a confirmed factor again; confirm and disable write
\* conditionally; regenerate does neither.
Decides(f) ==
    CASE kind[f] = "enroll"     -> ~Confirmed(factor)
      [] kind[f] = "confirm"    -> /\ factor # None /\ ~factor.confirmed
                                   /\ factor.id = my[f].factor.id
      [] kind[f] = "disable"    -> factor # None
      [] kind[f] = "regenerate" -> TRUE

\* The codes a transaction deletes are those its statement sees.
Decide(f) ==
    /\ At(f, "decide")
    /\ IF Decides(f)
           THEN /\ my' = [my EXCEPT ![f].matched = IF kind[f] = "enroll" THEN {} ELSE codes]
                /\ Goto(f, "commit")
           ELSE Finish(f)
    /\ UNCHANGED <<kind, now, mfa, sessions, dead>>

FactorAfter(f) ==
    CASE kind[f] = "enroll"     -> [id |-> drawn + 1, confirmed |-> FALSE,
                                    last |-> NEVER_ACCEPTED_STEP]
      [] kind[f] = "confirm"    -> [my[f].factor EXCEPT !.confirmed = TRUE, !.last = my[f].step]
      [] kind[f] = "disable"    -> None
      [] kind[f] = "regenerate" -> factor

CodesKept(f) == codes \ my[f].matched

IssuesCodes(f) == kind[f] \in {"confirm", "regenerate"}

\* enroll deletes an unconfirmed factor and inserts its own: the unique index
\* on the user's factor refuses it over a confirmed one.
Commit(f) ==
    /\ At(f, "commit")
    /\ IF kind[f] = "enroll" /\ Confirmed(factor)
           THEN /\ pc' = [pc EXCEPT ![f] = "conflict"]
                /\ UNCHANGED <<mfa, my>>
           ELSE /\ factor' = FactorAfter(f)
                /\ drawn' = drawn + 1
                /\ codes' = CodesKept(f) \cup (IF IssuesCodes(f) THEN NewSet(drawn + 1) ELSE {})
                /\ Finish(f)
    /\ UNCHANGED <<kind, now, sessions, dead>>

-----------------------------------------------------------------------------
\* The process dies: an open transaction is rolled back.
Die(f) ==
    /\ f \notin dead /\ pc[f] \notin {"ready", "done"}
    /\ Cardinality(dead) < MaxCrashes
    /\ dead' = dead \cup {f}
    /\ UNCHANGED <<kind, now, mfa, sessions, pc, my>>

Tick ==
    /\ now < MaxStep
    /\ now' = now + 1
    /\ UNCHANGED <<kind, mfa, sessions, pc, my, dead>>

Step(f) ==
    \/ \E step \in now - 1 .. now + 1 : ReadTotp(f, step)
    \/ \E c \in codes : ReadRecovery(f, c)
    \/ ReadNothing(f) \/ SpendTotp(f) \/ SpendRecovery(f) \/ Promote(f) \/ Fail(f) \/ Revoke(f)
    \/ Lock(f) \/ Decide(f) \/ Commit(f)

Next ==
    \/ \E f \in Flow : \/ Step(f) \/ Die(f)
                       \/ \E s \in Session : VerifyStart(f, s)
                       \/ \E step \in now - 1 .. now + 1 : EnrolmentStart(f, step)
    \/ Tick

Spec == Init /\ [][Next]_vars

-----------------------------------------------------------------------------
\* Every table has its type, and no enrolment meets the unique index on the
\* user's factor: those that race leave it nothing to refuse.
TypeOK ==
    /\ kind \in Races
    /\ now \in Nat
    /\ factor \in Factor \cup {None}
    /\ codes \in SUBSET Code
    /\ drawn \in Nat
    /\ row \in [Session -> {"pending", "active", "revoked"}]
    /\ failures \in [Session -> Nat]
    /\ pc \in [Flow -> Steps]
    /\ my \in [Flow -> Local]
    /\ dead \in SUBSET Flow

\* Every promoted session was paid for with a code of its own: no TOTP step
\* and no recovery code promotes two.
PromotionsArePaid ==
    /\ \A s \in Session : row[s] = "active" => paid[s] # None
    /\ \A s, t \in Session : s # t /\ paid[s] # None => paid[s] # paid[t]

\* A factor accepts its steps in order: an older one is refused after a newer.
AcceptedStepsRise ==
    [][factor # None /\ factor' # None /\ factor'.id = factor.id /\ factor' # factor
           => factor'.last > factor.last]_vars

\* There is never more than one set of recovery codes, whatever regenerations
\* and confirmations race.
OneSetOfCodes == \A c, d \in codes : c.set = d.set

\* A pending session that has reached the limit is on its way out: whoever
\* made the limit is about to revoke it, unless its process died first.
LockedOutSessionsGo ==
    \A s \in Session : row[s] = "pending" /\ failures[s] >= MFA_ATTEMPT_LIMIT =>
        \E f \in Flow : pc[f] = "revoke" /\ my[f].session = s
=============================================================================
