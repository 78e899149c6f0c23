---------------------------- MODULE Organizations ----------------------------
(***************************************************************************)
(* The memberships of organisations and the invitations to them, under the *)
(* requests that change them: found, invite, revoke, accept, change a role *)
(* and remove.                                                             *)
(*                                                                         *)
(* A request is admitted by the tenant and authorization guards on what    *)
(* they read, then runs one transaction: it takes the organisation's row   *)
(* lock, reads and decides, and writes.  Each of those is a step, and the  *)
(* writes show to others at the last, which commits.  The advisory lock on *)
(* an invitation's slot is only ever taken under the row lock and is not   *)
(* modelled apart from it.                                                 *)
(***************************************************************************)
EXTENDS Integers, FiniteSets, Permissions

CONSTANTS
    Org,         \* organisations, by slug
    Founded,     \* those that exist to begin with
    User,        \* accounts, each with the one address it is invited at
    Role,        \* the system roles in play
    Invitation,  \* invitation ids
    None,        \* no role, no invitation, no request
    Flow,        \* the requests that may run, at most once each
    Races        \* what each of them does, in each race to be looked at

Kinds == {"found", "invite", "revoke", "accept", "role", "remove"}

ASSUME FoundedAssumption == Founded \subseteq Org
ASSUME RoleAssumption == "OWNER" \in Role /\ Role \subseteq SYSTEM_ROLES /\ None \notin Role
ASSUME RacesAssumption == Races \subseteq [Flow -> Kinds]

VARIABLES
    kind,     \* the race that is on
    exists,   \* the Organization table
    member,   \* the Membership table: each user's latest row in each organisation
    invite,   \* the Invitation table
    pc,       \* the step each request takes next
    my        \* what each request holds between steps

vars == <<kind, exists, member, invite, pc, my>>

-----------------------------------------------------------------------------
(* Data. *)

\* `id` counts the user's rows in the organisation; `role` is None once the
\* row is soft-deleted, or before there is one.
Membership == [id : Nat, role : Role \cup {None}]

Offer == [state : {"live", "accepted", "revoked"}, expired : BOOLEAN,
          org : Org, email : User, role : Role, issuer : User]

ASSUME NoneAssumption == None \notin Offer

Local == [user : User, org : Org, id : Nat, role : Role \cup {None},
          target : User, targetId : Nat, offered : Role \cup {None},
          invitation : Invitation \cup {None}]

\* A unique index that refuses a write would be a step of its own, "conflict".
Steps == {"ready", "lock", "read", "write", "done"}

IsMember(o, u) == member[o][u].role # None
Owners(o)      == {u \in User : member[o][u].role = "OWNER"}

\* LIVE_INVITATION: neither accepted nor revoked, expired or not.
Live(i) == invite[i] # None /\ invite[i].state = "live"

\* Whether a membership that holds `role` may grant `offered`.
Covers(role, offered) == role # None /\ MayGrant(role, offered)

-----------------------------------------------------------------------------
\* The founded organisations have an owner and perhaps other members, and an
\* earlier request may have left an invitation.
StandingOffers ==
    {x \in [state : {"live"}, expired : {FALSE}, org : Founded,
            email : User, role : Role, issuer : User] :
        Covers(member[x.org][x.issuer].role, x.role) /\ ~IsMember(x.org, x.email)}

Init ==
    /\ kind \in Races
    /\ exists = [o \in Org |-> o \in Founded]
    /\ member \in [Org -> [User -> {[id |-> 0, role |-> None]} \cup [id : {1}, role : Role]]]
    /\ \A o \in Org : (o \in Founded) = (Owners(o) # {})
    /\ \A o \in Org \ Founded, u \in User : ~IsMember(o, u)
    /\ \E standing \in SUBSET StandingOffers, i \in Invitation :
           /\ Cardinality(standing) =< 1
           /\ invite = [j \in Invitation |->
                          IF j = i /\ standing # {} THEN CHOOSE x \in standing : TRUE ELSE None]
    /\ pc = [f \in Flow |-> "ready"]
    /\ my = [f \in Flow |-> None]

Begins(f, what) == pc[f] = "ready" /\ kind[f] = what

\* A request that has answered holds nothing.
Goto(f, step) ==
    /\ pc' = [pc EXCEPT ![f] = step]
    /\ my' = IF step \in {"done", "conflict"} THEN [my EXCEPT ![f] = None] ELSE my

rows == <<exists, member, invite>>

\* A refusal, or a failure, rolls the transaction back.
Refuse(f) ==
    /\ Goto(f, "done")
    /\ UNCHANGED <<kind, rows>>

-----------------------------------------------------------------------------
(* The organisation is created with its first owner, in one transaction.   *)

Request(u, o, target, offered, i) ==
    [user |-> u, org |-> o, id |-> member[o][u].id, role |-> member[o][u].role,
     target |-> target, targetId |-> member[o][target].id,
     offered |-> offered, invitation |-> i]

NewRow(o, u, role) ==
    [member EXCEPT ![o][u] = [id |-> member[o][u].id + 1, role |-> role]]

OwnerRole == "OWNER"

\* The slug is unique: the second to insert it waits for the first and fails.
Found(f, u, o) ==
    /\ Begins(f, "found")
    /\ IF exists[o] THEN UNCHANGED <<exists, member>>
                    ELSE /\ exists' = [exists EXCEPT ![o] = TRUE]
                         /\ member' = NewRow(o, u, OwnerRole)
    /\ Goto(f, "done")
    /\ UNCHANGED <<kind, invite>>

-----------------------------------------------------------------------------
(* The guards. *)

\* TenantContextGuard, then AuthorizationGuard: the permission each route
\* declares is one that the same roles hold for all of them.
Admits(o, u) ==
    /\ IsMember(o, u)
    /\ "organization.manage_members" \in ROLE_PERMISSIONS[member[o][u].role]

Admitted(f, request, step) ==
    /\ my' = [my EXCEPT ![f] = request]
    /\ pc' = [pc EXCEPT ![f] = step]
    /\ UNCHANGED <<kind, rows>>

InviteStart(f, u, o, email, r) ==
    /\ Begins(f, "invite") /\ Admits(o, u)
    /\ Admitted(f, Request(u, o, email, r, None), "lock")

\* The target is a membership id the actor has seen: the user's live one.
RoleStart(f, u, o, target, r) ==
    /\ Begins(f, "role") /\ Admits(o, u) /\ IsMember(o, target)
    /\ Admitted(f, Request(u, o, target, r, None), "lock")

RemoveStart(f, u, o, target) ==
    /\ Begins(f, "remove") /\ Admits(o, u) /\ IsMember(o, target)
    /\ Admitted(f, Request(u, o, target, None, None), "lock")

\* No lock: the invitation is looked up and written conditionally.
RevokeStart(f, u, o, i) ==
    /\ Begins(f, "revoke") /\ Admits(o, u) /\ invite[i] # None /\ invite[i].org = o
    /\ Admitted(f, Request(u, o, u, None, i), "read")

\* Whoever holds the token: its invitation names the organisation.
AcceptStart(f, u, i) ==
    /\ Begins(f, "accept") /\ invite[i] # None
    /\ Admitted(f, Request(u, invite[i].org, u, None, i), "lock")

-----------------------------------------------------------------------------
(* The transaction: the organisation's row first. *)

Holds(g, o) == pc[g] \in {"read", "write"} /\ kind[g] # "revoke" /\ my[g].org = o

LockIsIgnored(f) == TRUE                \* mutant: count and write without it
LockIsFree(f) == \A g \in Flow : ~Holds(g, my[f].org)

Lock(f) ==
    /\ pc[f] = "lock" /\ LockIsFree(f)
    /\ Goto(f, "read")
    /\ UNCHANGED <<kind, rows>>

\* liveMembership: the target's row as named, not deleted since.
Target(f) == member[my[f].org][my[f].target]
TargetLives(f) == Target(f).role # None /\ Target(f).id = my[f].targetId

AnotherMemberStays(f) == \E u \in User \ {my[f].target} : IsMember(my[f].org, u)  \* mutant

\* assertOrganizationKeepsAnOwner: refused when there is an owner and the
\* write would leave none.
AnotherOwnerStays(f) == Owners(my[f].org) \ {my[f].target} # {}
KeepsAnOwner(f) ==
    \/ Target(f).role # "OWNER"
    \/ my[f].offered = "OWNER"
    \/ AnotherOwnerStays(f)

\* updateRole compares the role granted with what the guard read of the actor.
RoleDecides(f) == TargetLives(f) /\ Covers(my[f].role, my[f].offered) /\ KeepsAnOwner(f)

\* remove compares the role its target holds.
RemoveDecides(f) == TargetLives(f) /\ Covers(my[f].role, Target(f).role) /\ KeepsAnOwner(f)

ActorAsAdmitted(f) == Covers(my[f].role, my[f].offered)   \* mutant: not read again

\* actorAuthority: the actor's row, role and route permission, read again.
ActorStands(f) ==
    LET actor == member[my[f].org][my[f].user] IN
    /\ actor.role # None /\ actor.id = my[f].id
    /\ "organization.manage_members" \in ROLE_PERMISSIONS[actor.role]
    /\ Covers(actor.role, my[f].offered)

NotAlreadyAMember(f) == ~IsMember(my[f].org, my[f].target)

InviteDecides(f) == ActorStands(f) /\ NotAlreadyAMember(f)

RevokeDecides(f) == Live(my[f].invitation)

\* The address, then the invitation's state, then the acceptor's membership.
AcceptDecides(f) ==
    LET offer == invite[my[f].invitation] IN
    /\ offer.email = my[f].user
    /\ offer.state = "live" /\ ~offer.expired
    /\ ~IsMember(my[f].org, my[f].user)

Decides(f) ==
    CASE kind[f] = "role"   -> RoleDecides(f)
      [] kind[f] = "remove" -> RemoveDecides(f)
      [] kind[f] = "invite" -> InviteDecides(f)
      [] kind[f] = "revoke" -> RevokeDecides(f)
      [] kind[f] = "accept" -> AcceptDecides(f)

Read(f) ==
    /\ pc[f] = "read"
    /\ Goto(f, IF Decides(f) THEN "write" ELSE "done")
    /\ UNCHANGED <<kind, rows>>

-----------------------------------------------------------------------------
(* The writes, and the commit. *)

Ended(S, how) ==
    [i \in Invitation |-> IF i \in S /\ Live(i) THEN [invite[i] EXCEPT !.state = how]
                                                 ELSE invite[i]]

IssuedIn(o, u) == {i \in Invitation : Live(i) /\ invite[i].org = o /\ invite[i].issuer = u}

\* The cascade: what the issuer could no longer issue, everything once removed.
Uncovered(S, role) == {i \in S : ~Covers(role, invite[i].role)}

WriteMembership(f) ==
    /\ pc[f] = "write" /\ kind[f] \in {"role", "remove"}
    /\ member' = [member EXCEPT ![my[f].org][my[f].target].role = my[f].offered]
    /\ invite' = Ended(Uncovered(IssuedIn(my[f].org, my[f].target), my[f].offered), "revoked")
    /\ Goto(f, "done")
    /\ UNCHANGED <<kind, exists>>

Slot(o, email) == {i \in Invitation : Live(i) /\ invite[i].org = o /\ invite[i].email = email}

SupersedesUnexpired(o, email) ==        \* mutant: an expired one is left in the slot
    {i \in Slot(o, email) : ~invite[i].expired}
Superseded(o, email) == Slot(o, email)

\* The live one in the slot is revoked, then the new one inserted: a unique
\* index on live invitations would abort the transaction.
WriteInvitation(f, i) ==
    /\ pc[f] = "write" /\ kind[f] = "invite" /\ invite[i] = None
    /\ LET o == my[f].org  email == my[f].target IN
       IF Slot(o, email) = Superseded(o, email)
           THEN /\ invite' = [Ended(Superseded(o, email), "revoked") EXCEPT ![i] =
                                [state |-> "live", expired |-> FALSE, org |-> o, email |-> email,
                                 role |-> my[f].offered, issuer |-> my[f].user]]
                /\ Goto(f, "done")
           ELSE /\ Goto(f, "conflict")
                /\ UNCHANGED invite
    /\ UNCHANGED <<kind, exists, member>>

Revocable(i) == {j \in {i} : Live(j)}

WriteRevocation(f) ==
    /\ pc[f] = "write" /\ kind[f] = "revoke"
    /\ invite' = [i \in Invitation |-> IF i \in Revocable(my[f].invitation)
                                         THEN [invite[i] EXCEPT !.state = "revoked"]
                                         ELSE invite[i]]
    /\ Goto(f, "done")
    /\ UNCHANGED <<kind, exists, member>>

ConsumesWhatItRead(i) == TRUE           \* mutant: the write does not look again
Consumable(i) == Live(i)                \* its expiry is compared with the time of the read

\* Consumed, and the membership inserted under its own unique index.
WriteAcceptance(f) ==
    LET i == my[f].invitation  o == my[f].org  u == my[f].user IN
    /\ pc[f] = "write" /\ kind[f] = "accept"
    /\ IF Consumable(i) /\ ~IsMember(o, u)
           THEN /\ invite' = [invite EXCEPT ![i].state = "accepted"]
                /\ member' = NewRow(o, u, invite[i].role)
           ELSE UNCHANGED <<invite, member>>
    /\ Goto(f, IF Consumable(i) /\ IsMember(o, u) THEN "conflict" ELSE "done")
    /\ UNCHANGED <<kind, exists>>

-----------------------------------------------------------------------------
\* The process dies, or the database fails, before the commit.  One that
\* fails earlier is one that never takes the lock.
Fail(f) == pc[f] = "write" /\ Refuse(f)

\* Time passes an invitation's expiry.
Expire(i) ==
    /\ Live(i) /\ ~invite[i].expired
    /\ invite' = [invite EXCEPT ![i].expired = TRUE]
    /\ UNCHANGED <<kind, exists, member, pc, my>>

Next ==
    \/ \E f \in Flow, u \in User :
         \/ \E o \in Org : Found(f, u, o)
         \/ \E o \in Org, target \in User, r \in Role :
              InviteStart(f, u, o, target, r) \/ RoleStart(f, u, o, target, r)
         \/ \E o \in Org, target \in User : RemoveStart(f, u, o, target)
         \/ \E o \in Org, i \in Invitation : RevokeStart(f, u, o, i)
         \/ \E i \in Invitation : AcceptStart(f, u, i)
    \/ \E f \in Flow :
         \/ Lock(f) \/ Read(f) \/ Fail(f)
         \/ WriteMembership(f) \/ WriteRevocation(f) \/ WriteAcceptance(f)
         \/ \E i \in Invitation : WriteInvitation(f, i)
    \/ \E i \in Invitation : Expire(i)

Spec == Init /\ [][Next]_vars

-----------------------------------------------------------------------------
\* Every table has its type, and no request meets a unique index: the locks, and
\* the writes that they order, leave the indexes nothing to refuse.
TypeOK ==
    /\ kind \in Races
    /\ exists \in [Org -> BOOLEAN]
    /\ member \in [Org -> [User -> Membership]]
    /\ invite \in [Invitation -> Offer \cup {None}]
    /\ pc \in [Flow -> Steps]
    /\ my \in [Flow -> Local \cup {None}]

\* Every organisation has an owner, whichever of its owners are demoted and
\* removed at once (assertOrganizationKeepsAnOwner).
HasAnOwner == \A o \in Org : exists[o] => Owners(o) # {}

\* A live invitation is covered by the role its issuer holds now: none
\* outlives the authority it was issued on (ADR-0026).
InvitationsAreBacked ==
    \A i \in Invitation :
        Live(i) => Covers(member[invite[i].org][invite[i].issuer].role, invite[i].role)

\* Nobody who is a member has an invitation they could still accept.
MembersHaveNoInvitation ==
    \A i \in Invitation : Live(i) => ~IsMember(invite[i].org, invite[i].email)

\* An invitation ends once: what was accepted is not revoked afterwards, nor
\* the other way round, and a step that admits a member spends one.
InvitationsEndOnce ==
    [][/\ \A i \in Invitation : invite[i] # None /\ ~Live(i) => invite'[i] = invite[i]
       /\ \A o \in Org, u \in User : exists[o] /\ member'[o][u].id # member[o][u].id =>
              \E i \in Invitation :
                  /\ Live(i) /\ invite'[i].state = "accepted"
                  /\ invite[i].org = o /\ invite[i].email = u
                  /\ member'[o][u].role = invite[i].role]_vars

\* Requests that overlap leave the tables that they would have left one at a
\* time: each takes effect where it commits, or not at all, and what it checked
\* is still true there.  The row versions and the expiry are not in the Roster.
roles  == [o \in Org |-> [u \in User |-> member[o][u].role]]

Shown(x) == IF x = None THEN None
            ELSE [state |-> x.state, org |-> x.org, email |-> x.email,
                  role |-> x.role, issuer |-> x.issuer]
offers == [i \in Invitation |-> Shown(invite[i])]

Atomic == INSTANCE Roster WITH role <- roles, offer <- offers
ASSUME NoneIsNoOffer == None \notin Atomic!Offer
RequestsAreAtomic == Atomic!Spec
=============================================================================
