---------------------------- MODULE SessionFlows ----------------------------
(***************************************************************************)
(* The requests that issue, rotate and revoke the sessions of one user,    *)
(* racing each other over the Session, Credential and Membership tables.   *)
(*                                                                         *)
(* Every statement outside a transaction, and every commit, is one step,   *)
(* under READ COMMITTED.  The cache and the clocks of a session are        *)
(* SessionService's: here a session is live or revoked.  What a request    *)
(* says about codes, tokens, mail and audit wording is left out.           *)
(***************************************************************************)
EXTENDS Integers, FiniteSets

CONSTANTS
    Session,     \* session ids
    Standing,    \* those that earlier requests may have left live
    Org,         \* organisations the user may belong to
    Password,    \* what the user may choose
    None,        \* no session, no organisation
    Flow,        \* the requests that may run, at most once each
    Races,       \* what each of them does, in each race to be looked at
    MaxCrashes   \* bound: how many processes die mid-request

Kinds == {"login", "promote", "switch", "change", "reset", "remove", "others", "revoke"}

ASSUME NoneAssumption == None \notin Session /\ None \notin Org
ASSUME StandingAssumption == Standing \subseteq Session
ASSUME RacesAssumption == Races \subseteq [Flow -> Kinds]
ASSUME CrashAssumption == MaxCrashes \in Nat

VARIABLES
    kind,      \* the race that is on
    row,       \* the Session table
    cred,      \* the stored credential
    member,    \* the user's live memberships
    stamps,    \* how many replacement timestamps have been taken
    replaced,  \* those whose transaction committed
    pc,        \* the step each request takes next
    my,        \* what each request holds between steps
    dead       \* the requests whose process died

vars == <<kind, row, cred, member, stamps, replaced, pc, my, dead>>

-----------------------------------------------------------------------------
(* Data. *)

\* `birth` is createdAt counted in replacement timestamps, `given` whether a
\* client has the token.  The rest is history: `password` is the one that
\* vouches for the session (its login's, its predecessor's, or the one its
\* holder has set since), `by` the request that inserted it, and `straddled`
\* whether it, or a session it descends from, was inserted between the
\* snapshot and the write of a bulk revocation.
Row == [state : {"absent", "live", "revoked"}, status : {"PENDING_MFA", "ACTIVE"},
        org : Org \cup {None}, password : Password, birth : Nat,
        given : BOOLEAN, straddled : BOOLEAN, by : Kinds]

\* The hash is salted, so each one stored is new whatever the password.
Credential == [hash : Nat, password : Password, updatedAt : Nat]

Local == [old : Session \cup {None}, new : Session \cup {None}, org : Org \cup {None},
          hash : Nat, password : Password, stamp : Nat, matched : SUBSET Session]

Steps == {"ready", "issue", "rotate", "recheck", "undo", "stamp", "replace",
          "match", "sweep", "done"}

Live(s) == row[s].state = "live"
Held(s) == Live(s) /\ row[s].given

StraddlesASweep == \E f \in Flow : pc[f] = "sweep"

Inserted(s, status, org, password, straddled, by) ==
    [state |-> "live", status |-> status, org |-> org, password |-> password,
     birth |-> stamps, given |-> FALSE, straddled |-> straddled, by |-> by]

Given(s)   == [row EXCEPT ![s].given = TRUE]
Revoked(S) == [s \in Session |-> IF s \in S /\ Live(s)
                                   THEN [row[s] EXCEPT !.state = "revoked"] ELSE row[s]]

-----------------------------------------------------------------------------
\* The sessions of earlier requests are there already, and the memberships.
Init ==
    /\ kind \in Races
    /\ \E p \in Password, standing \in SUBSET Standing, org \in [Standing -> Org \cup {None}] :
           /\ cred = [hash |-> 0, password |-> p, updatedAt |-> 0]
           /\ member = [o \in Org |-> TRUE]
           /\ row = [s \in Session |->
                       [state |-> IF s \in standing THEN "live" ELSE "absent",
                        status |-> "ACTIVE", password |-> p, birth |-> 0,
                        org |-> IF s \in standing THEN org[s] ELSE None,
                        given |-> s \in standing, straddled |-> FALSE, by |-> "login"]]
           /\ stamps = 0
           /\ replaced = {}
           /\ pc = [f \in Flow |-> "ready"]
           /\ my = [f \in Flow |-> [old |-> None, new |-> None, org |-> None, hash |-> 0,
                                    password |-> p, stamp |-> 0, matched |-> {}]]
           /\ dead = {}

At(f, step) == f \notin dead /\ pc[f] = step
Begins(f, what) == At(f, "ready") /\ kind[f] = what
Goto(f, step) == pc' = [pc EXCEPT ![f] = step]

tables == <<kind, cred, member, stamps, replaced>>

-----------------------------------------------------------------------------
(* login: verify, issue, and look at the credential again. *)

LoginVerify(f) ==
    /\ Begins(f, "login")
    /\ my' = [my EXCEPT ![f].password = cred.password]
    /\ Goto(f, "issue")
    /\ UNCHANGED <<row, tables, dead>>

\* ACTIVE, or PENDING_MFA when the user has a confirmed factor.
LoginIssue(f, s, status) ==
    /\ At(f, "issue") /\ row[s].state = "absent"
    /\ row' = [row EXCEPT ![s] = Inserted(s, status, None, my[f].password, FALSE, "login")]
    /\ my' = [my EXCEPT ![f].new = s]
    /\ Goto(f, "recheck")
    /\ UNCHANGED <<tables, dead>>

LoginStandsUnread(f) == TRUE            \* mutant: the hash is not read again

\* credentialStillCurrent: the same hash, or one the same password verifies.
LoginStands(f) == cred.password = my[f].password

-----------------------------------------------------------------------------
(* The three requests that rotate a session their client holds. *)

\* promote, from PENDING_MFA, with the second factor spent.
PromoteStart(f, s) ==
    /\ Begins(f, "promote") /\ Held(s) /\ row[s].status = "PENDING_MFA"
    /\ my' = [my EXCEPT ![f].old = s]
    /\ Goto(f, "rotate")
    /\ UNCHANGED <<row, tables, dead>>

\* switch: the membership resolves before anything is written.
SwitchStart(f, s, o) ==
    /\ Begins(f, "switch") /\ Held(s) /\ row[s].status = "ACTIVE" /\ member[o]
    /\ my' = [my EXCEPT ![f].old = s, ![f].org = o]
    /\ Goto(f, "rotate")
    /\ UNCHANGED <<row, tables, dead>>

\* The organisation the successor is scoped to: the one asked for, or the
\* predecessor's.
SuccessorOrg(f) == IF kind[f] = "switch" THEN my[f].org ELSE row[my[f].old].org

RotateAdmitsAnyRow(s) == row[s].state # "absent"  \* mutant: no revokedAt IS NULL
RotateAdmits(s) == Live(s)

\* SessionRepository.rotate commits.  promote and switch look again before
\* they answer; a change answers with the successor's token.
Rotate(f, t) ==
    LET s == my[f].old IN
    /\ At(f, "rotate") /\ RotateAdmits(s) /\ row[t].state = "absent"
    /\ row' = [row EXCEPT
                 ![s].state = "revoked",
                 ![t] = [Inserted(t, "ACTIVE", SuccessorOrg(f), row[s].password,
                                  row[s].straddled \/ StraddlesASweep, kind[f])
                           EXCEPT !.given = kind[f] = "change"]]
    /\ my' = [my EXCEPT ![f].new = t]
    /\ Goto(f, IF kind[f] = "change" THEN "done" ELSE "recheck")
    /\ UNCHANGED <<tables, dead>>

\* Somebody else revoked or rotated the predecessor: rotate answers null.
RotateLost(f) ==
    /\ At(f, "rotate") /\ ~Live(my[f].old)
    /\ Goto(f, "done")
    /\ UNCHANGED <<row, tables, my, dead>>

PromotionStandsUnread(f) == TRUE        \* mutant: promote does not look again

\* credentialStillCurrent: no replacement is stamped later than the pending row.
PromotionStands(f) ==
    LET birth == row[my[f].old].birth IN
    cred.updatedAt <= birth \/ \A r \in replaced : r <= birth

SwitchStandsUnread(f) == TRUE           \* mutant: switch does not look again

\* The second resolution of the membership.
SwitchStands(f) == member[my[f].org]

Stands(f) ==
    CASE kind[f] = "login"   -> LoginStands(f)
      [] kind[f] = "promote" -> PromotionStands(f)
      [] kind[f] = "switch"  -> SwitchStands(f)

\* What was read is acted on at once: the token is answered ...
Answer(f) ==
    /\ At(f, "recheck") /\ Stands(f)
    /\ row' = Given(my[f].new)
    /\ Goto(f, "done")
    /\ UNCHANGED <<tables, my, dead>>

\* ... or the session just written is to be revoked, and then is.
Refuse(f) ==
    /\ At(f, "recheck") /\ ~Stands(f)
    /\ Goto(f, "undo")
    /\ UNCHANGED <<row, tables, my, dead>>

Undo(f) ==
    /\ At(f, "undo")
    /\ row' = Revoked({my[f].new})
    /\ Goto(f, "done")
    /\ UNCHANGED <<tables, my, dead>>

-----------------------------------------------------------------------------
(* The two requests that replace the credential. *)

\* reset reads the stored hash inside its transaction ...
ResetStart(f, p) ==
    /\ Begins(f, "reset")
    /\ my' = [my EXCEPT ![f].hash = cred.hash, ![f].password = p]
    /\ Goto(f, "stamp")
    /\ UNCHANGED <<row, tables, dead>>

\* ... and change before it, to verify the current password.
ChangeStart(f, s, p) ==
    /\ Begins(f, "change") /\ Held(s) /\ row[s].status = "ACTIVE"
    /\ my' = [my EXCEPT ![f].old = s, ![f].hash = cred.hash, ![f].password = p]
    /\ Goto(f, "stamp")
    /\ UNCHANGED <<row, tables, dead>>

\* updatedAt and the audit row's createdAt are taken when the statements run,
\* before the transaction commits.
Stamp(f) ==
    /\ At(f, "stamp")
    /\ stamps' = stamps + 1
    /\ my' = [my EXCEPT ![f].stamp = stamps + 1]
    /\ Goto(f, "replace")
    /\ UNCHANGED <<kind, row, cred, member, replaced, dead>>

\* The transaction commits: a compare-and-set on the hash that was read.
Replace(f) ==
    /\ At(f, "replace") /\ cred.hash = my[f].hash
    /\ cred' = [hash |-> cred.hash + 1, password |-> my[f].password,
                updatedAt |-> my[f].stamp]
    /\ replaced' = replaced \cup {my[f].stamp}
    /\ row' = IF kind[f] = "change"
                THEN [row EXCEPT ![my[f].old].password = my[f].password] ELSE row
    /\ Goto(f, "match")
    /\ UNCHANGED <<kind, member, stamps, my, dead>>

\* Another replacement came first: the transaction rolls back.
ReplaceLost(f) ==
    /\ At(f, "replace") /\ cred.hash # my[f].hash
    /\ Goto(f, "done")
    /\ UNCHANGED <<row, tables, my, dead>>

-----------------------------------------------------------------------------
(* Removing the member, and the other revocations. *)

\* remove: the membership ends in its own transaction, before the sessions do.
Remove(f, o) ==
    /\ Begins(f, "remove") /\ member[o]
    /\ member' = [member EXCEPT ![o] = FALSE]
    /\ my' = [my EXCEPT ![f].org = o]
    /\ Goto(f, "match")
    /\ UNCHANGED <<kind, row, cred, stamps, replaced, dead>>

\* revokeOthers: everything but the session it came with.
OthersStart(f, s) ==
    /\ Begins(f, "others") /\ Held(s) /\ row[s].status = "ACTIVE"
    /\ my' = [my EXCEPT ![f].old = s]
    /\ Goto(f, "match")
    /\ UNCHANGED <<row, tables, dead>>

\* logout and revokeOne.
RevokeOne(f, s) ==
    /\ Begins(f, "revoke") /\ row[s].state # "absent"
    /\ row' = Revoked({s})
    /\ Goto(f, "done")
    /\ UNCHANGED <<tables, my, dead>>

\* The rows a bulk revocation matches: all of them, all but one, or those
\* scoped to one organisation.
Sweeps(f, s) ==
    /\ s # my[f].old
    /\ kind[f] = "remove" => row[s].org = my[f].org

\* revokeLiveForUser: the statement's snapshot ...
Match(f) ==
    /\ At(f, "match")
    /\ my' = [my EXCEPT ![f].matched = {s \in Session : Live(s) /\ Sweeps(f, s)}]
    /\ Goto(f, "sweep")
    /\ UNCHANGED <<row, tables, dead>>

\* ... and the write, over the matched rows that are still live.  A password
\* change then rotates the session it spared.
Sweep(f) ==
    /\ At(f, "sweep")
    /\ row' = Revoked(my[f].matched)
    /\ Goto(f, IF kind[f] = "change" THEN "rotate" ELSE "done")
    /\ UNCHANGED <<tables, my, dead>>

-----------------------------------------------------------------------------
\* The process dies between two statements; what is committed stays.
Crash(f) ==
    /\ f \notin dead /\ pc[f] \notin {"ready", "done"}
    /\ Cardinality(dead) < MaxCrashes
    /\ dead' = dead \cup {f}
    /\ UNCHANGED <<row, tables, pc, my>>

\* A request that has begun, and is on its way to its answer.
Continue(f) ==
    \/ \E s \in Session, status \in {"PENDING_MFA", "ACTIVE"} : LoginIssue(f, s, status)
    \/ \E s \in Session : Rotate(f, s)
    \/ RotateLost(f) \/ Answer(f) \/ Refuse(f) \/ Undo(f)
    \/ Stamp(f) \/ Replace(f) \/ ReplaceLost(f) \/ Match(f) \/ Sweep(f)

Begin(f) ==
    \/ LoginVerify(f)
    \/ \E s \in Session : PromoteStart(f, s) \/ OthersStart(f, s) \/ RevokeOne(f, s)
    \/ \E s \in Session, o \in Org : SwitchStart(f, s, o)
    \/ \E s \in Session, p \in Password : ChangeStart(f, s, p)
    \/ \E p \in Password : ResetStart(f, p)
    \/ \E o \in Org : Remove(f, o)

Next == \E f \in Flow : Begin(f) \/ Continue(f) \/ Crash(f)

Spec == Init /\ [][Next]_vars

-----------------------------------------------------------------------------
(* Properties. *)

\* Every table and every local has its type, only timestamps that were taken
\* are recorded, and a request that rotates knows what it rotates.
TypeOK ==
    /\ kind \in Races /\ row \in [Session -> Row] /\ cred \in Credential
    /\ member \in [Org -> BOOLEAN]
    /\ stamps \in Nat /\ replaced \subseteq 1..stamps
    /\ pc \in [Flow -> Steps] /\ my \in [Flow -> Local] /\ dead \subseteq Flow
    /\ \A f \in Flow : pc[f] = "rotate" => my[f].old # None

\* A replacement of the credential has committed and its revocations have not.
Evicting == \E f \in Flow : /\ kind[f] \in {"reset", "change"}
                           /\ pc[f] \in {"match", "sweep"}

Removing(o) == \E f \in Flow : /\ kind[f] = "remove" /\ my[f].org = o
                              /\ pc[f] \in {"match", "sweep"}

\* A session in a client's hands that rests on a password no longer stored.
Stale(s) == Held(s) /\ row[s].password # cred.password

\* A session in a client's hands, scoped to an organisation the user left.
Foreign(s) == Held(s) /\ row[s].org # None /\ ~member[row[s].org]

\* After a password has been replaced, and once the replacing request has
\* revoked what it revokes, the one way a session resting on the old password
\* is still in use is that it descends from a rotation that committed between
\* the snapshot and the write of a bulk revocation.  In particular no login
\* escapes: it revokes the session it issued when the hash has changed.
OnlyStraddlersEscape == \A s \in Session : Stale(s) => row[s].straddled \/ Evicting

\* After a member has been removed and the removal's revocations are done, no
\* session is scoped to that organisation, unless a password change carried
\* one across the removal's revocation: switching looks at the membership
\* again before it answers, and a change does not.
OnlyACarriedSessionStays ==
    \A s \in Session :
        Foreign(s) => \/ row[s].straddled /\ row[s].by = "change"
                      \/ Removing(row[s].org)

\* A promoted session that escapes does so across a timestamp: the replacement
\* was stamped before the pending session was created and committed after it.
\* Any other replacement the promotion sees when it looks again.
PromotionEscapesAcrossAStamp ==
    \A f \in Flow :
        /\ kind[f] = "promote" /\ my[f].new # None
        /\ Stale(my[f].new)
        => Evicting \/ cred.updatedAt <= row[my[f].old].birth

-----------------------------------------------------------------------------
(* The rows are a SessionTable: what the requests do to them, in whatever   *)
(* order and whichever dies, is to issue, to rotate one and to revoke.      *)

states == [s \in Session |-> row[s].state]

\* The session that a rotation succeeded: its request still holds both.
Rotated(f, t) == kind[f] # "login" /\ my[f].new = t
lineages ==
    [t \in Session |-> IF \E f \in Flow : Rotated(f, t)
                         THEN my[CHOOSE f \in Flow : Rotated(f, t)].old ELSE None]

Table == INSTANCE SessionTable WITH state <- states, from <- lineages

\* Sessions of racing requests form chains: nothing revives one, and no two
\* requests succeed the same one.
RowsAreASessionTable == Table!Spec

-----------------------------------------------------------------------------
(* What the code's comments say. *)

\* password-reset: "a reset revokes every session there is".
ResetRevokesEverySession == \A s \in Session : Stale(s) => Evicting

=============================================================================
