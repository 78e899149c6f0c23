------------------------------- MODULE Roster -------------------------------
(***************************************************************************)
(* What the members of an organisation and its invitations promise: every  *)
(* request takes effect at one moment, on what is true at that moment,     *)
(* whatever ran beside it.                                                 *)
(***************************************************************************)
EXTENDS Permissions

CONSTANTS Org, User, Role, Invitation, None

VARIABLES
    role,   \* what each user is in each organisation, None for no member
    offer   \* the invitations, and how they ended

vars == <<role, offer>>

Offer == [state : {"live", "accepted", "revoked"}, org : Org, email : User,
          role : Role, issuer : User]

Covers(held, offered) == held # None /\ MayGrant(held, offered)

Live(i)   == offer[i] # None /\ offer[i].state = "live"
Owners(o) == {u \in User : role[o][u] = "OWNER"}
Ended(S)  == [i \in Invitation |-> IF i \in S THEN [offer[i] EXCEPT !.state = "revoked"]
                                               ELSE offer[i]]

\* Who is a member anywhere has an owner above him, and nobody is offered what
\* he has, or what its issuer could not give.
Init ==
    /\ role \in [Org -> [User -> Role \cup {None}]]
    /\ offer \in [Invitation -> Offer \cup {None}]
    /\ \A o \in Org, u \in User : role[o][u] # None => Owners(o) # {}
    /\ \A i \in Invitation : Live(i) =>
           /\ Covers(role[offer[i].org][offer[i].issuer], offer[i].role)
           /\ role[offer[i].org][offer[i].email] = None

\* An organisation comes with its owner.
Found(o, u) ==
    /\ \A v \in User : role[o][v] = None
    /\ role' = [role EXCEPT ![o][u] = "OWNER"]
    /\ UNCHANGED offer

\* Issued by somebody who may, now; to somebody who is no member, now; in the
\* place of any other invitation to the same address.
Invite(o, u, email, r, i) ==
    /\ Covers(role[o][u], r)
    /\ "organization.manage_members" \in ROLE_PERMISSIONS[role[o][u]]
    /\ role[o][email] = None /\ offer[i] = None
    /\ offer' = [Ended({j \in Invitation : Live(j) /\ offer[j].org = o /\ offer[j].email = email})
                   EXCEPT ![i] = [state |-> "live", org |-> o, email |-> email,
                                  role |-> r, issuer |-> u]]
    /\ UNCHANGED role

\* A member gets another role, or None: removed.  An owner stays, and what the
\* member had offered and could no longer offer ends in the same moment.
Assign(o, u, r) ==
    /\ role[o][u] # None
    /\ role[o][u] = "OWNER" /\ r # "OWNER" => Owners(o) # {u}
    /\ role' = [role EXCEPT ![o][u] = r]
    /\ offer' = Ended({i \in Invitation : /\ Live(i) /\ offer[i].org = o /\ offer[i].issuer = u
                                          /\ ~Covers(r, offer[i].role)})

Revoke(i) ==
    /\ Live(i)
    /\ offer' = Ended({i})
    /\ UNCHANGED role

\* Its address becomes a member, with the role it names and no other.
Accept(i) ==
    /\ Live(i) /\ role[offer[i].org][offer[i].email] = None
    /\ offer' = [offer EXCEPT ![i].state = "accepted"]
    /\ role' = [role EXCEPT ![offer[i].org][offer[i].email] = offer[i].role]

Next ==
    \/ \E o \in Org, u \in User :
         \/ Found(o, u)
         \/ \E r \in Role \cup {None} : Assign(o, u, r)
         \/ \E email \in User, r \in Role, i \in Invitation : Invite(o, u, email, r, i)
    \/ \E i \in Invitation : Revoke(i) \/ Accept(i)

Spec == Init /\ [][Next]_vars
=============================================================================
