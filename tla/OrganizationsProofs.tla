------------------------- MODULE OrganizationsProofs -------------------------
(***************************************************************************)
(* What Organizations guarantees for every number of organisations, users, *)
(* invitations and requests, whatever the requests do at once.             *)
(***************************************************************************)
EXTENDS Organizations, TLAPS

-----------------------------------------------------------------------------
(* The inductive invariant. *)

Working == {"lock", "read", "write"}

\* What a request holds between its steps.
Carries(f) ==
    pc[f] \in Working =>
        /\ my[f] \in Local
        /\ kind[f] # "found"
        /\ kind[f] \in {"invite", "role"} => my[f].offered \in Role
        /\ kind[f] \in {"accept", "revoke"} =>
             /\ my[f].invitation \in Invitation
             /\ invite[my[f].invitation] # None
             /\ invite[my[f].invitation].org = my[f].org

\* The organisation's row lock is held by one transaction.
LockExclusive == \A o \in Org, f, g \in Flow : Holds(f, o) /\ Holds(g, o) => f = g

\* Until it has written, what a transaction decided under the lock stands.
Decided(f) ==
    pc[f] = "write" =>
        /\ kind[f] = "role" => RoleDecides(f)
        /\ kind[f] = "remove" => RemoveDecides(f)
        /\ kind[f] = "invite" => InviteDecides(f)
        /\ kind[f] = "accept" =>
             /\ invite[my[f].invitation].email = my[f].user
             /\ ~IsMember(my[f].org, my[f].user)

Requests == \A f \in Flow : Carries(f) /\ Decided(f)

\* One live invitation to an address in an organisation.
SlotUnique ==
    \A i, j \in Invitation :
        Live(i) /\ Live(j) /\ invite[i].org = invite[j].org /\ invite[i].email = invite[j].email
          => i = j

\* Nothing hangs on an organisation that was not founded.
OnlyWhereFounded ==
    /\ \A o \in Org, u \in User : IsMember(o, u) => exists[o]
    /\ \A i \in Invitation : invite[i] # None => exists[invite[i].org]

Tables ==
    /\ SlotUnique
    /\ OnlyWhereFounded
    /\ HasAnOwner
    /\ InvitationsAreBacked
    /\ MembersHaveNoInvitation

IInv == TypeOK /\ LockExclusive /\ Requests /\ Tables

-----------------------------------------------------------------------------
(* The start. *)

\* The initial tables have their types.
LEMMA InitType == Init => TypeOK
<1> SUFFICES ASSUME Init PROVE TypeOK
  OBVIOUS
<1>1. /\ kind \in Races
      /\ exists \in [Org -> BOOLEAN]
      /\ pc \in [Flow -> Steps]
      /\ my \in [Flow -> Local \cup {None}]
  BY DEF Init, Steps
<1>2. member \in [Org -> [User -> Membership]]
  BY DEF Init, Membership
<1>3. invite \in [Invitation -> Offer \cup {None}]
  <2>1. StandingOffers \subseteq Offer
    BY FoundedAssumption DEF StandingOffers, Offer
  <2>2. PICK standing \in SUBSET StandingOffers, i \in Invitation :
          invite = [j \in Invitation |->
                      IF j = i /\ standing # {} THEN CHOOSE x \in standing : TRUE ELSE None]
    BY DEF Init
  <2>3. standing # {} => (CHOOSE x \in standing : TRUE) \in StandingOffers
    BY <2>2
  <2> QED BY <2>1, <2>2, <2>3
<1> QED BY <1>1, <1>2, <1>3 DEF TypeOK

\* The one invitation of an earlier request is the whole table.
LEMMA InitTables == Init => Tables
<1> SUFFICES ASSUME Init PROVE Tables
  OBVIOUS
<1>1. TypeOK
  BY InitType
<1>2. OnlyWhereFounded /\ SlotUnique /\ InvitationsAreBacked /\ MembersHaveNoInvitation
  <2>1. PICK standing \in SUBSET StandingOffers, i \in Invitation :
          invite = [j \in Invitation |->
                      IF j = i /\ standing # {} THEN CHOOSE x \in standing : TRUE ELSE None]
    BY DEF Init
  <2>2. standing # {} => (CHOOSE x \in standing : TRUE) \in StandingOffers
    BY <2>1
  <2>3. \A j \in Invitation : invite[j] # None => j = i /\ invite[j] \in StandingOffers
    BY <2>1, <2>2
  <2>4. \A x \in StandingOffers :
          x.org \in Founded /\ Covers(member[x.org][x.issuer].role, x.role)
            /\ ~IsMember(x.org, x.email)
    BY DEF StandingOffers
  <2>5. \A o \in Org, u \in User : IsMember(o, u) => exists[o]
    BY DEF Init
  <2>6. \A j \in Invitation : invite[j] # None => exists[invite[j].org]
    BY <2>3, <2>4, FoundedAssumption DEF Init
  <2> QED BY <2>3, <2>4, <2>5, <2>6
       DEF OnlyWhereFounded, SlotUnique, InvitationsAreBacked, MembersHaveNoInvitation, Live
<1>3. HasAnOwner
  BY DEF Init, HasAnOwner
<1> QED BY <1>2, <1>3 DEF Tables

\* The initial tables satisfy the invariant.
LEMMA InitIInv == Init => IInv
<1> SUFFICES ASSUME Init PROVE IInv
  OBVIOUS
<1>1. \A f \in Flow : pc[f] = "ready"
  BY DEF Init
<1>2. LockExclusive /\ Requests
  BY <1>1 DEF LockExclusive, Holds, Requests, Carries, Decided, Working
<1> QED BY <1>2, InitType, InitTables DEF IInv

-----------------------------------------------------------------------------
(* The steps that write no row: the guards, the lock, the decision, and a  *)
(* failure before the commit.                                              *)

\* Tables depend on the rows alone.
LEMMA SameRowsSameTables ==
    ASSUME Tables, UNCHANGED rows
    PROVE  Tables'
BY DEF Tables, rows, SlotUnique, OnlyWhereFounded, HasAnOwner, Owners, InvitationsAreBacked,
       MembersHaveNoInvitation, Live, IsMember

\* A request that does not move keeps what it holds and has decided.
LEMMA SameRowsSameRequest ==
    ASSUME UNCHANGED <<kind, rows>>, NEW g \in Flow, pc'[g] = pc[g], my'[g] = my[g],
           Carries(g), Decided(g)
    PROVE  Carries(g)' /\ Decided(g)'
BY DEF rows, Carries, Decided, RoleDecides, RemoveDecides, InviteDecides, TargetLives, Target,
       KeepsAnOwner, AnotherOwnerStays, Owners, ActorStands, NotAlreadyAMember, IsMember

\* What the guards hand on is a request's local state.
LEMMA RequestIsLocal ==
    ASSUME TypeOK, NEW u \in User, NEW o \in Org, NEW target \in User,
           NEW offered \in Role \cup {None}, NEW i \in Invitation \cup {None}
    PROVE  /\ Request(u, o, target, offered, i) \in Local
           /\ Request(u, o, target, offered, i).org = o
           /\ Request(u, o, target, offered, i).offered = offered
           /\ Request(u, o, target, offered, i).invitation = i
BY DEF TypeOK, Request, Local, Membership

\* A request that has passed the guards, and written nothing, keeps the
\* invariant.
LEMMA AdmittedKeepsIInv ==
    ASSUME IInv, NEW f \in Flow, NEW request \in Local, NEW step \in {"lock", "read"},
           Admitted(f, request, step), pc[f] = "ready",
           step = "read" => kind[f] = "revoke",
           kind[f] # "found",
           kind[f] \in {"invite", "role"} => request.offered \in Role,
           kind[f] \in {"accept", "revoke"} =>
             /\ request.invitation \in Invitation
             /\ invite[request.invitation] # None
             /\ invite[request.invitation].org = request.org
    PROVE  IInv'
<1>0. TypeOK /\ LockExclusive /\ Requests /\ Tables
  BY DEF IInv
<1>1. /\ pc' = [pc EXCEPT ![f] = step] /\ my' = [my EXCEPT ![f] = request]
      /\ UNCHANGED <<kind, rows>>
  BY DEF Admitted
<1>2. TypeOK'
  BY <1>0, <1>1 DEF TypeOK, rows, Steps
<1>3. LockExclusive'
  <2>1. \A g \in Flow, o \in Org : Holds(g, o)' => Holds(g, o)
    BY <1>0, <1>1 DEF TypeOK, Holds
  <2> QED BY <1>0, <2>1 DEF LockExclusive
<1>4. ASSUME NEW g \in Flow PROVE Carries(g)' /\ Decided(g)'
  <2>1. CASE g = f
    BY <1>0, <1>1, <2>1 DEF TypeOK, Carries, Decided, rows
  <2>2. CASE g # f
    <3>1. pc'[g] = pc[g] /\ my'[g] = my[g]
      BY <1>0, <1>1, <2>2 DEF TypeOK
    <3> QED BY <1>0, <1>1, <3>1, SameRowsSameRequest DEF Requests
  <2> QED BY <2>1, <2>2
<1> QED BY <1>0, <1>1, <1>2, <1>3, <1>4, SameRowsSameTables DEF IInv, Requests

\* Every request that starts from a session keeps the invariant.
LEMMA StartsKeepIInv ==
    ASSUME IInv, NEW f \in Flow, NEW u \in User, NEW o \in Org, NEW target \in User,
           \/ \E r \in Role : InviteStart(f, u, o, target, r) \/ RoleStart(f, u, o, target, r)
           \/ RemoveStart(f, u, o, target)
           \/ \E i \in Invitation : RevokeStart(f, u, o, i)
    PROVE  IInv'
<1>0. TypeOK
  BY DEF IInv
<1>1. ASSUME NEW r \in Role, InviteStart(f, u, o, target, r) PROVE IInv'
  BY <1>0, <1>1, RequestIsLocal, AdmittedKeepsIInv DEF InviteStart, Begins
<1>2. ASSUME NEW r \in Role, RoleStart(f, u, o, target, r) PROVE IInv'
  BY <1>0, <1>2, RequestIsLocal, AdmittedKeepsIInv DEF RoleStart, Begins
<1>3. CASE RemoveStart(f, u, o, target)
  BY <1>0, <1>3, RequestIsLocal, AdmittedKeepsIInv DEF RemoveStart, Begins
<1>4. ASSUME NEW i \in Invitation, RevokeStart(f, u, o, i) PROVE IInv'
  BY <1>0, <1>4, RequestIsLocal, AdmittedKeepsIInv DEF RevokeStart, Begins
<1> QED BY <1>1, <1>2, <1>3, <1>4

\* A request that starts from an invitation keeps the invariant.
LEMMA AcceptStartKeepsIInv ==
    ASSUME IInv, NEW f \in Flow, NEW u \in User, NEW i \in Invitation, AcceptStart(f, u, i)
    PROVE  IInv'
<1> DEFINE request == Request(u, invite[i].org, u, None, i)
<1>0. TypeOK
  BY DEF IInv
<1>1. invite[i] # None /\ invite[i].org \in Org
  BY <1>0 DEF AcceptStart, TypeOK, Offer
<1>2. /\ request \in Local /\ request.org = invite[i].org /\ request.invitation = i
  <2>1. \A p \in Org : /\ Request(u, p, u, None, i) \in Local
                       /\ Request(u, p, u, None, i).org = p
                       /\ Request(u, p, u, None, i).invitation = i
    BY <1>0, RequestIsLocal
  <2> QED BY <1>1, <2>1
<1>3. Admitted(f, request, "lock") /\ pc[f] = "ready" /\ kind[f] = "accept"
  BY DEF AcceptStart, Begins
<1> HIDE DEF request
<1> QED BY <1>1, <1>2, <1>3, AdmittedKeepsIInv

\* The lock is taken when nobody holds it.
LEMMA LockKeepsIInv ==
    ASSUME IInv, NEW f \in Flow, Lock(f)
    PROVE  IInv'
<1>0. TypeOK /\ LockExclusive /\ Requests /\ Tables
  BY DEF IInv
<1>1. /\ pc[f] = "lock" /\ pc' = [pc EXCEPT ![f] = "read"] /\ my' = my
      /\ UNCHANGED <<kind, rows>>
      /\ \A g \in Flow : ~Holds(g, my[f].org)
  BY DEF Lock, Goto, LockIsFree
<1>2. TypeOK'
  BY <1>0, <1>1 DEF TypeOK, rows, Steps
<1>3. LockExclusive'
  <2>1. \A g \in Flow \ {f}, o \in Org : Holds(g, o)' => Holds(g, o)
    BY <1>0, <1>1 DEF TypeOK, Holds
  <2>2. \A o \in Org : Holds(f, o)' => o = my[f].org
    BY <1>1 DEF Holds
  <2> QED BY <1>0, <1>1, <2>1, <2>2 DEF LockExclusive
<1>4. ASSUME NEW g \in Flow PROVE Carries(g)' /\ Decided(g)'
  <2>1. CASE g = f
    BY <1>0, <1>1, <2>1 DEF TypeOK, Requests, Carries, Decided, rows, Working
  <2>2. CASE g # f
    <3>1. pc'[g] = pc[g] /\ my'[g] = my[g]
      BY <1>0, <1>1, <2>2 DEF TypeOK
    <3> QED BY <1>0, <1>1, <3>1, SameRowsSameRequest DEF Requests
  <2> QED BY <2>1, <2>2
<1> QED BY <1>0, <1>1, <1>2, <1>3, <1>4, SameRowsSameTables DEF IInv, Requests

\* A request that finishes holds nothing and leaves the others as they are.
LEMMA DoneFrame ==
    ASSUME TypeOK, LockExclusive, NEW f \in Flow, Goto(f, "done"), kind' = kind
    PROVE  /\ pc' \in [Flow -> Steps]
           /\ my' \in [Flow -> Local \cup {None}]
           /\ pc'[f] = "done"
           /\ \A g \in Flow \ {f} : pc'[g] = pc[g] /\ my'[g] = my[g]
           /\ LockExclusive'
<1>1. pc' = [pc EXCEPT ![f] = "done"] /\ my' = [my EXCEPT ![f] = None]
  BY DEF Goto
<1>2. \A g \in Flow, o \in Org : Holds(g, o)' => Holds(g, o)
  BY <1>1 DEF TypeOK, Holds
<1> QED BY <1>1, <1>2 DEF TypeOK, LockExclusive, Steps

\* One that finishes without writing, whatever it was about to do.
LEMMA RefusalKeepsIInv ==
    ASSUME IInv, NEW f \in Flow, Goto(f, "done"), UNCHANGED <<kind, rows>>
    PROVE  IInv'
<1>0. TypeOK /\ LockExclusive /\ Requests /\ Tables
  BY DEF IInv
<1>1. /\ pc' \in [Flow -> Steps] /\ my' \in [Flow -> Local \cup {None}]
      /\ pc'[f] = "done"
      /\ \A g \in Flow \ {f} : pc'[g] = pc[g] /\ my'[g] = my[g]
      /\ LockExclusive'
  BY <1>0, DoneFrame
<1>2. TypeOK'
  BY <1>0, <1>1 DEF TypeOK, rows
<1>3. ASSUME NEW g \in Flow PROVE Carries(g)' /\ Decided(g)'
  <2>1. CASE g = f
    BY <1>1, <2>1 DEF Carries, Decided, Working
  <2>2. CASE g # f
    BY <1>0, <1>1, <2>2, SameRowsSameRequest DEF Requests
  <2> QED BY <2>1, <2>2
<1> QED BY <1>0, <1>1, <1>2, <1>3, SameRowsSameTables DEF IInv, Requests

\* What Read decides is what stands until the write.
LEMMA ReadKeepsIInv ==
    ASSUME IInv, NEW f \in Flow, Read(f)
    PROVE  IInv'
<1>0. TypeOK /\ LockExclusive /\ Requests /\ Tables
  BY DEF IInv
<1>1. CASE Decides(f)
  <2>1. /\ pc[f] = "read" /\ pc' = [pc EXCEPT ![f] = "write"] /\ my' = my
        /\ UNCHANGED <<kind, rows>>
    BY <1>1 DEF Read, Goto
  <2>2. TypeOK'
    BY <1>0, <2>1 DEF TypeOK, rows, Steps
  <2>3. LockExclusive'
    <3>1. \A g \in Flow, o \in Org : Holds(g, o)' => Holds(g, o)
      BY <1>0, <2>1 DEF TypeOK, Holds
    <3> QED BY <1>0, <3>1 DEF LockExclusive
  <2>4. ASSUME NEW g \in Flow PROVE Carries(g)' /\ Decided(g)'
    <3>1. CASE g = f
      <4>1. Carries(f)'
        BY <1>0, <2>1 DEF TypeOK, Requests, Carries, rows, Working
      <4>2. /\ kind[f] = "role" => RoleDecides(f)
            /\ kind[f] = "remove" => RemoveDecides(f)
            /\ kind[f] = "invite" => InviteDecides(f)
            /\ kind[f] = "accept" => AcceptDecides(f)
        BY <1>1 DEF Decides
      <4>3. Decided(f)'
        BY <2>1, <4>2
           DEF rows, Decided, RoleDecides, RemoveDecides, InviteDecides, AcceptDecides,
               TargetLives, Target, KeepsAnOwner, AnotherOwnerStays, Owners, ActorStands,
               NotAlreadyAMember, IsMember
      <4> QED BY <3>1, <4>1, <4>3
    <3>2. CASE g # f
      <4>1. pc'[g] = pc[g] /\ my'[g] = my[g]
        BY <1>0, <2>1, <3>2 DEF TypeOK
      <4> QED BY <1>0, <2>1, <4>1, SameRowsSameRequest DEF Requests
    <3> QED BY <3>1, <3>2
  <2> QED BY <1>0, <2>1, <2>2, <2>3, <2>4, SameRowsSameTables DEF IInv, Requests
<1>2. CASE ~Decides(f)
  BY <1>2, RefusalKeepsIInv DEF Read
<1> QED BY <1>1, <1>2

-----------------------------------------------------------------------------
(* The writes. *)

\* An invitation, once made, names what it named.
InvitationsKeepTheirTerms ==
    \A i \in Invitation :
        invite[i] # None =>
            /\ invite'[i] # None
            /\ invite'[i].org = invite[i].org /\ invite'[i].email = invite[i].email
            /\ invite'[i].role = invite[i].role /\ invite'[i].issuer = invite[i].issuer

\* A request keeps what it holds and has decided while another writes: under
\* the lock, to another organisation.
LEMMA OtherRequestsStand ==
    ASSUME kind' = kind, InvitationsKeepTheirTerms, NEW g \in Flow,
           pc'[g] = pc[g], my'[g] = my[g], Carries(g), Decided(g),
           pc[g] = "write" /\ kind[g] # "revoke" => member'[my[g].org] = member[my[g].org]
    PROVE  Carries(g)' /\ Decided(g)'
<1>1. Carries(g)'
  BY DEF Carries, InvitationsKeepTheirTerms, Working
<1>2. ASSUME pc[g] = "write" PROVE Decided(g)'
  <2>1. CASE kind[g] = "revoke"
    BY <2>1 DEF Decided
  <2>2. CASE kind[g] \in {"role", "remove", "invite"}
    <3>1. member'[my[g].org] = member[my[g].org]
      BY <1>2, <2>2
    <3>2. KeepsAnOwner(g)' <=> KeepsAnOwner(g)
      BY <1>2, <3>1 DEF KeepsAnOwner, AnotherOwnerStays, Owners, Target
    <3>3. /\ TargetLives(g)' <=> TargetLives(g)
          /\ ActorStands(g)' <=> ActorStands(g)
          /\ NotAlreadyAMember(g)' <=> NotAlreadyAMember(g)
      BY <3>1 DEF TargetLives, Target, ActorStands, NotAlreadyAMember, IsMember
    <3>4. /\ RoleDecides(g)' <=> RoleDecides(g)
          /\ RemoveDecides(g)' <=> RemoveDecides(g)
          /\ InviteDecides(g)' <=> InviteDecides(g)
      BY <3>1, <3>2, <3>3 DEF RoleDecides, RemoveDecides, InviteDecides, Target
    <3> QED BY <1>2, <2>2, <3>4 DEF Decided
  <2>3. CASE kind[g] = "accept"
    <3>1. member'[my[g].org] = member[my[g].org]
      BY <1>2, <2>3
    <3>2. my[g].invitation \in Invitation /\ invite[my[g].invitation] # None
      BY <1>2, <2>3 DEF Carries, Working
    <3> QED BY <1>2, <2>3, <3>1, <3>2 DEF Decided, InvitationsKeepTheirTerms, IsMember
  <2>4. CASE kind[g] \notin {"revoke", "role", "remove", "invite", "accept"}
    BY <2>4 DEF Decided
  <2> QED BY <2>1, <2>2, <2>3, <2>4
<1>3. ASSUME pc[g] # "write" PROVE Decided(g)'
  BY <1>3 DEF Decided
<1> QED BY <1>1, <1>2, <1>3

\* All of it, for a writer that commits and holds nothing any more.
LEMMA CommitKeepsRequests ==
    ASSUME TypeOK, LockExclusive, Requests, NEW f \in Flow, Goto(f, "done"), kind' = kind,
           InvitationsKeepTheirTerms,
           \A g \in Flow \ {f} :
             pc[g] = "write" /\ kind[g] # "revoke" => member'[my[g].org] = member[my[g].org]
    PROVE  Requests'
<1>1. /\ pc'[f] = "done"
      /\ \A g \in Flow \ {f} : pc'[g] = pc[g] /\ my'[g] = my[g]
  BY DoneFrame
<1> SUFFICES ASSUME NEW g \in Flow PROVE Carries(g)' /\ Decided(g)'
  BY DEF Requests
<1>2. CASE g = f
  BY <1>1, <1>2 DEF Carries, Decided, Working
<1>3. CASE g # f
  BY <1>1, <1>3, OtherRequestsStand DEF Requests
<1> QED BY <1>2, <1>3

\* Nobody else decides on the organisation whose lock is held.
LEMMA LockShutsOut ==
    ASSUME TypeOK, LockExclusive, Requests, NEW f \in Flow, pc[f] = "write", kind[f] # "revoke",
           NEW g \in Flow \ {f}, pc[g] = "write", kind[g] # "revoke"
    PROVE  my[g].org # my[f].org /\ my[g].org \in Org /\ my[f].org \in Org
<1>1. my[f] \in Local /\ my[g] \in Local
  BY DEF Requests, Carries, Working
<1>2. my[f].org \in Org /\ my[g].org \in Org
  BY <1>1 DEF Local
<1>3. Holds(f, my[f].org) /\ Holds(g, my[g].org)
  BY DEF Holds
<1> QED BY <1>2, <1>3 DEF LockExclusive

\* Ended touches the state of live invitations and nothing else.
LEMMA EndedEndsTheLive ==
    ASSUME TypeOK, NEW S, NEW how \in {"accepted", "revoked"}, invite' = Ended(S, how)
    PROVE  /\ invite' \in [Invitation -> Offer \cup {None}]
           /\ InvitationsKeepTheirTerms
           /\ \A i \in Invitation :
                /\ Live(i)' <=> Live(i) /\ i \notin S
                /\ ~Live(i) => invite'[i] = invite[i]
                /\ Live(i)' => invite'[i] = invite[i]
                /\ invite[i] = None => invite'[i] = None
<1>1. invite \in [Invitation -> Offer \cup {None}]
  BY DEF TypeOK
<1>2. \A i \in Invitation :
        invite'[i] = IF i \in S /\ Live(i) THEN [invite[i] EXCEPT !.state = how] ELSE invite[i]
  BY DEF Ended
<1>3. \A i \in Invitation : Live(i) => invite[i] \in Offer /\ invite[i].state = "live"
  BY <1>1 DEF Live
<1>4. \A i \in Invitation : Live(i) => [invite[i] EXCEPT !.state = how] \in Offer
  BY <1>3 DEF Offer
<1>5. invite' \in [Invitation -> Offer \cup {None}]
  BY <1>1, <1>2, <1>4 DEF Ended
<1>6. ASSUME NEW i \in Invitation, i \in S, Live(i)
      PROVE  /\ invite'[i] # None
             /\ invite'[i].state = how
             /\ invite'[i].org = invite[i].org /\ invite'[i].email = invite[i].email
             /\ invite'[i].role = invite[i].role /\ invite'[i].issuer = invite[i].issuer
  BY <1>2, <1>3, <1>4, <1>6, NoneAssumption DEF Offer
<1> QED BY <1>2, <1>5, <1>6 DEF InvitationsKeepTheirTerms, Live

\* A role is changed, or taken away: the cascade revokes what its holder could
\* no longer grant.
LEMMA WriteMembershipKeepsIInv ==
    ASSUME IInv, NEW f \in Flow, WriteMembership(f)
    PROVE  IInv'
<1>0. TypeOK /\ LockExclusive /\ Requests /\ Tables
  BY DEF IInv
<1> DEFINE o == my[f].org
           t == my[f].target
           new == my[f].offered
<1>1. /\ pc[f] = "write" /\ kind[f] \in {"role", "remove"}
      /\ member' = [member EXCEPT ![o][t].role = new]
      /\ invite' = Ended(Uncovered(IssuedIn(o, t), new), "revoked")
      /\ Goto(f, "done") /\ UNCHANGED <<kind, exists>>
  BY DEF WriteMembership
<1>2. /\ o \in Org /\ t \in User /\ new \in Role \cup {None}
      /\ TargetLives(f) /\ KeepsAnOwner(f)
  BY <1>0, <1>1
     DEF Requests, Carries, Decided, Working, Local, RoleDecides, RemoveDecides
<1> HIDE DEF o, t, new
<1>3. /\ invite' \in [Invitation -> Offer \cup {None}]
      /\ InvitationsKeepTheirTerms
      /\ \A i \in Invitation :
           /\ Live(i)' <=> Live(i) /\ i \notin Uncovered(IssuedIn(o, t), new)
           /\ Live(i)' => invite'[i] = invite[i]
           /\ invite[i] = None => invite'[i] = None
  BY <1>0, <1>1, EndedEndsTheLive
<1>4. /\ pc' \in [Flow -> Steps] /\ my' \in [Flow -> Local \cup {None}] /\ LockExclusive'
  BY <1>0, <1>1, DoneFrame
<1>5. member' \in [Org -> [User -> Membership]]
  <2>1. member[o] \in [User -> Membership] /\ member[o][t] \in Membership
    BY <1>0, <1>2 DEF TypeOK
  <2>2. [member[o][t] EXCEPT !.role = new] \in Membership
    BY <1>2, <2>1 DEF Membership
  <2> QED BY <1>0, <1>1, <2>1, <2>2 DEF TypeOK
<1>6. TypeOK'
  BY <1>0, <1>1, <1>3, <1>4, <1>5 DEF TypeOK
<1>7. /\ \A p \in Org \ {o} : member'[p] = member[p]
      /\ \A u \in User \ {t} : member'[o][u] = member[o][u]
      /\ member'[o][t].role = new
      /\ member[o][t].role # None
  BY <1>0, <1>1, <1>2 DEF TypeOK, Membership, TargetLives, Target, o, t
<1>8. Requests'
  <2>1. ASSUME NEW g \in Flow \ {f}, pc[g] = "write", kind[g] # "revoke"
        PROVE  member'[my[g].org] = member[my[g].org]
    <3>1. my[g].org # o /\ my[g].org \in Org
      BY <1>0, <1>1, <2>1, LockShutsOut DEF o
    <3> QED BY <1>7, <3>1
  <2> QED BY <1>0, <1>1, <1>3, <2>1, CommitKeepsRequests
<1>9. Tables'
  <2>1. \A p \in Org, u \in User : IsMember(p, u)' => IsMember(p, u)
    BY <1>2, <1>7 DEF IsMember
  <2>2. SlotUnique' /\ OnlyWhereFounded' /\ MembersHaveNoInvitation'
    <3>1. \A i \in Invitation : Live(i)' => Live(i) /\ invite'[i] = invite[i]
      BY <1>3
    <3>2. \A i \in Invitation : invite'[i] # None => invite[i] # None /\ invite'[i].org = invite[i].org
      BY <1>3 DEF InvitationsKeepTheirTerms
    <3>3. \A i \in Invitation : Live(i) => invite[i].org \in Org /\ invite[i].email \in User
      BY <1>0 DEF TypeOK, Offer, Live
    <3>4. SlotUnique'
      BY <1>0, <3>1 DEF Tables, SlotUnique
    <3>5. OnlyWhereFounded'
      BY <1>0, <1>1, <2>1, <3>2 DEF Tables, OnlyWhereFounded
    <3>6. MembersHaveNoInvitation'
      BY <1>0, <2>1, <3>1, <3>3 DEF Tables, MembersHaveNoInvitation
    <3> QED BY <3>4, <3>5, <3>6
  <2>3. HasAnOwner'
    <3> SUFFICES ASSUME NEW p \in Org, exists[p] PROVE Owners(p)' # {}
      BY <1>1 DEF HasAnOwner
    <3>1. CASE p # o
      BY <1>0, <1>7, <3>1 DEF Tables, HasAnOwner, Owners
    <3>2. CASE p = o
      <4>1. PICK u \in User : member[o][u].role = "OWNER"
        BY <1>0, <3>2 DEF Tables, HasAnOwner, Owners
      <4>2. CASE u # t
        BY <1>7, <3>2, <4>1, <4>2 DEF Owners
      <4>3. CASE u = t /\ new = "OWNER"
        BY <1>2, <1>7, <3>2, <4>3 DEF Owners
      <4>4. CASE u = t /\ new # "OWNER"
        <5>1. Owners(o) \ {t} # {}
          BY <1>2, <4>1, <4>4 DEF KeepsAnOwner, AnotherOwnerStays, Target, o, t, new
        <5> QED BY <1>7, <3>2, <5>1 DEF Owners
      <4> QED BY <4>2, <4>3, <4>4
    <3> QED BY <3>1, <3>2
  <2>4. InvitationsAreBacked'
    <3> SUFFICES ASSUME NEW i \in Invitation, Live(i)'
                 PROVE  Covers(member'[invite'[i].org][invite'[i].issuer].role, invite'[i].role)
      BY DEF InvitationsAreBacked, Covers
    <3>1. /\ Live(i) /\ invite'[i] = invite[i] /\ i \notin Uncovered(IssuedIn(o, t), new)
          /\ invite[i].org \in Org /\ invite[i].issuer \in User
          /\ Covers(member[invite[i].org][invite[i].issuer].role, invite[i].role)
      BY <1>0, <1>3 DEF Tables, InvitationsAreBacked, TypeOK, Offer, Live
    <3>2. CASE invite[i].org = o /\ invite[i].issuer = t
      BY <1>7, <3>1, <3>2 DEF Uncovered, IssuedIn
    <3>3. CASE invite[i].org # o \/ invite[i].issuer # t
      BY <1>7, <3>1, <3>3
    <3> QED BY <3>2, <3>3
  <2> QED BY <2>2, <2>3, <2>4 DEF Tables
<1> QED BY <1>4, <1>6, <1>8, <1>9 DEF IInv

\* An invitation fills its slot, on the authority its issuer has under the lock.
LEMMA WriteInvitationKeepsIInv ==
    ASSUME IInv, NEW f \in Flow, NEW i \in Invitation, WriteInvitation(f, i)
    PROVE  IInv'
<1>0. TypeOK /\ LockExclusive /\ Requests /\ Tables
  BY DEF IInv
<1> DEFINE o == my[f].org
           email == my[f].target
           S == Slot(o, email)
           offer == [state |-> "live", expired |-> FALSE, org |-> o, email |-> email,
                     role |-> my[f].offered, issuer |-> my[f].user]
<1>1. /\ pc[f] = "write" /\ kind[f] = "invite" /\ invite[i] = None
      /\ invite' = [Ended(S, "revoked") EXCEPT ![i] = offer]
      /\ Goto(f, "done") /\ UNCHANGED <<kind, exists, member>>
  BY DEF WriteInvitation, Superseded
<1>2. /\ my[f] \in Local /\ o \in Org /\ email \in User /\ offer \in Offer
      /\ Covers(member[o][my[f].user].role, my[f].offered)
      /\ ~IsMember(o, email) /\ my[f].user \in User
      /\ IsMember(o, my[f].user)
  BY <1>0, <1>1
     DEF Requests, Carries, Decided, Working, Local, Offer, InviteDecides, ActorStands,
         NotAlreadyAMember, IsMember
<1>3. /\ \A j \in Invitation \ {i} : invite'[j] = Ended(S, "revoked")[j]
      /\ invite'[i] = offer /\ offer # None
      /\ invite' \in [Invitation -> Offer \cup {None}]
  <2>1. Ended(S, "revoked") \in [Invitation -> Offer \cup {None}]
    <3>1. \A j \in Invitation : Live(j) => [invite[j] EXCEPT !.state = "revoked"] \in Offer
      BY <1>0 DEF TypeOK, Live, Offer
    <3> QED BY <1>0, <3>1 DEF TypeOK, Ended
  <2> QED BY <1>1, <1>2, <2>1, NoneAssumption
<1>4. ASSUME NEW j \in Invitation \ {i}
      PROVE  /\ Live(j)' <=> Live(j) /\ j \notin S
             /\ Live(j)' => invite'[j] = invite[j]
             /\ invite'[j] # None => invite[j] # None /\ invite'[j].org = invite[j].org
             /\ invite[j] # None =>
                  /\ invite'[j] # None
                  /\ invite'[j].org = invite[j].org /\ invite'[j].email = invite[j].email
                  /\ invite'[j].role = invite[j].role /\ invite'[j].issuer = invite[j].issuer
  <2>1. invite'[j] = IF j \in S /\ Live(j) THEN [invite[j] EXCEPT !.state = "revoked"]
                                           ELSE invite[j]
    BY <1>3 DEF Ended
  <2>2. Live(j) => invite[j] \in Offer /\ [invite[j] EXCEPT !.state = "revoked"] \in Offer
    BY <1>0 DEF TypeOK, Live, Offer
  <2>3. CASE j \in S /\ Live(j)
    BY <2>1, <2>2, <2>3, NoneAssumption DEF Live, Offer
  <2>4. CASE ~(j \in S /\ Live(j))
    BY <2>1, <2>4 DEF Live
  <2> QED BY <2>3, <2>4
<1>5. Live(i)' /\ ~Live(i)
  BY <1>1, <1>3 DEF Live
<1>6. InvitationsKeepTheirTerms
  BY <1>1, <1>4 DEF InvitationsKeepTheirTerms
<1>7. TypeOK' /\ LockExclusive'
  BY <1>0, <1>1, <1>3, DoneFrame DEF TypeOK
<1>8. Requests'
  BY <1>0, <1>1, <1>6, CommitKeepsRequests
<1>9. Tables'
  <2>1. SlotUnique'
    <3> SUFFICES ASSUME NEW j \in Invitation, NEW k \in Invitation, Live(j)', Live(k)',
                        invite'[j].org = invite'[k].org, invite'[j].email = invite'[k].email
                 PROVE  j = k
      BY DEF SlotUnique
    <3>1. \A l \in Invitation \ {i} : Live(l)' => ~(invite'[l].org = o /\ invite'[l].email = email)
      BY <1>4 DEF Slot
    <3>2. CASE j = i \/ k = i
      BY <1>3, <3>1, <3>2
    <3>3. CASE j # i /\ k # i
      BY <1>0, <1>4, <3>3 DEF Tables, SlotUnique
    <3> QED BY <3>2, <3>3
  <2>2. OnlyWhereFounded'
    <3>1. exists[o]
      BY <1>0, <1>2 DEF Tables, OnlyWhereFounded
    <3>2. \A j \in Invitation : invite'[j] # None => exists[invite'[j].org]
      BY <1>0, <1>3, <1>4, <3>1 DEF Tables, OnlyWhereFounded
    <3> QED BY <1>0, <1>1, <3>2 DEF Tables, OnlyWhereFounded, IsMember
  <2>3. HasAnOwner'
    BY <1>0, <1>1 DEF Tables, HasAnOwner, Owners
  <2>4. ASSUME NEW j \in Invitation, Live(j)'
        PROVE  /\ Covers(member[invite'[j].org][invite'[j].issuer].role, invite'[j].role)
               /\ ~IsMember(invite'[j].org, invite'[j].email)
    <3>1. CASE j = i
      BY <1>2, <1>3, <3>1
    <3>2. CASE j # i
      BY <1>0, <1>4, <2>4, <3>2 DEF Tables, InvitationsAreBacked, MembersHaveNoInvitation
    <3> QED BY <3>1, <3>2
  <2>5. InvitationsAreBacked' /\ MembersHaveNoInvitation'
    BY <1>1, <2>4 DEF InvitationsAreBacked, MembersHaveNoInvitation, IsMember, Covers
  <2> QED BY <2>1, <2>2, <2>3, <2>5 DEF Tables
<1> QED BY <1>7, <1>8, <1>9 DEF IInv

\* A revocation writes only what is still live.
LEMMA WriteRevocationKeepsIInv ==
    ASSUME IInv, NEW f \in Flow, WriteRevocation(f)
    PROVE  IInv'
<1>0. TypeOK /\ LockExclusive /\ Requests /\ Tables
  BY DEF IInv
<1> DEFINE S == {my[f].invitation}
<1>1. /\ invite' = Ended(S, "revoked")
      /\ Goto(f, "done") /\ UNCHANGED <<kind, exists, member>>
  BY DEF WriteRevocation, Revocable, Ended
<1>2. /\ invite' \in [Invitation -> Offer \cup {None}]
      /\ InvitationsKeepTheirTerms
      /\ \A i \in Invitation :
           /\ Live(i)' => Live(i) /\ invite'[i] = invite[i]
           /\ invite'[i] # None => invite[i] # None
  BY <1>0, <1>1, EndedEndsTheLive
<1>3. TypeOK' /\ LockExclusive'
  BY <1>0, <1>1, <1>2, DoneFrame DEF TypeOK
<1>4. Requests'
  BY <1>0, <1>1, <1>2, CommitKeepsRequests
<1>5. Tables'
  <2>1. SlotUnique'
    BY <1>0, <1>2 DEF Tables, SlotUnique
  <2>2. OnlyWhereFounded'
    BY <1>0, <1>1, <1>2 DEF Tables, OnlyWhereFounded, InvitationsKeepTheirTerms, IsMember
  <2>3. HasAnOwner'
    BY <1>0, <1>1 DEF Tables, HasAnOwner, Owners
  <2>4. InvitationsAreBacked' /\ MembersHaveNoInvitation'
    BY <1>0, <1>1, <1>2
       DEF Tables, InvitationsAreBacked, MembersHaveNoInvitation, IsMember, Covers
  <2> QED BY <2>1, <2>2, <2>3, <2>4 DEF Tables
<1> QED BY <1>3, <1>4, <1>5 DEF IInv

\* An invitation is spent on the membership it offered, and on nothing else:
\* no unique index has anything to refuse.
LEMMA AcceptanceSpends ==
    ASSUME IInv, NEW f \in Flow, WriteAcceptance(f)
    PROVE  LET i == my[f].invitation  o == my[f].org  u == my[f].user
           IN  /\ pc[f] = "write" /\ kind[f] = "accept"
               /\ i \in Invitation /\ o \in Org /\ u \in User
               /\ invite[i] \in Offer /\ invite[i].org = o /\ invite[i].email = u
               /\ ~IsMember(o, u)
               /\ Goto(f, "done") /\ UNCHANGED <<kind, exists>>
               /\ \/ UNCHANGED <<invite, member>>
                  \/ /\ Live(i)
                     /\ invite' = Ended({i}, "accepted")
                     /\ member' = NewRow(o, u, invite[i].role)
<1> DEFINE i == my[f].invitation
           o == my[f].org
           u == my[f].user
<1>0. TypeOK /\ Requests
  BY DEF IInv
<1>1. pc[f] = "write" /\ kind[f] = "accept"
  BY DEF WriteAcceptance
<1>2. /\ i \in Invitation /\ o \in Org /\ u \in User /\ invite[i] # None /\ invite[i].org = o
      /\ invite[i].email = u /\ ~IsMember(o, u)
  BY <1>0, <1>1 DEF Requests, Carries, Decided, Working, Local
<1>3. invite[i] \in Offer
  BY <1>0, <1>2 DEF TypeOK
<1>4. Goto(f, "done")
  BY <1>2 DEF WriteAcceptance
<1>5. ASSUME Live(i) PROVE [invite EXCEPT ![i].state = "accepted"] = Ended({i}, "accepted")
  BY <1>0, <1>2, <1>5 DEF Ended, TypeOK
<1>6. \/ UNCHANGED <<invite, member>>
      \/ /\ Live(i)
         /\ invite' = Ended({i}, "accepted")
         /\ member' = NewRow(o, u, invite[i].role)
  <2>1. CASE Live(i)
    BY <1>2, <1>5, <2>1 DEF WriteAcceptance, Consumable
  <2>2. CASE ~Live(i)
    BY <2>2 DEF WriteAcceptance, Consumable
  <2> QED BY <2>1, <2>2
<1>7. UNCHANGED <<kind, exists>>
  BY DEF WriteAcceptance
<1> QED BY <1>1, <1>2, <1>3, <1>4, <1>6, <1>7

\* Accepting keeps the invariant: the membership and the end of the
\* invitation are one step.
LEMMA WriteAcceptanceKeepsIInv ==
    ASSUME IInv, NEW f \in Flow, WriteAcceptance(f)
    PROVE  IInv'
<1>0. TypeOK /\ LockExclusive /\ Requests /\ Tables
  BY DEF IInv
<1> DEFINE i == my[f].invitation
           o == my[f].org
           u == my[f].user
<1>1. /\ pc[f] = "write" /\ kind[f] = "accept"
      /\ i \in Invitation /\ o \in Org /\ u \in User
      /\ invite[i] \in Offer /\ invite[i].org = o /\ invite[i].email = u
      /\ ~IsMember(o, u)
      /\ Goto(f, "done") /\ UNCHANGED <<kind, exists>>
      /\ \/ UNCHANGED <<invite, member>>
         \/ /\ Live(i)
            /\ invite' = Ended({i}, "accepted")
            /\ member' = NewRow(o, u, invite[i].role)
  BY AcceptanceSpends
<1>2. o = my[f].org
  OBVIOUS
<1> HIDE DEF i, o, u
<1>3. CASE UNCHANGED <<invite, member>>
  BY <1>1, <1>3, RefusalKeepsIInv DEF rows
<1>4. CASE /\ Live(i)
           /\ invite' = Ended({i}, "accepted")
           /\ member' = NewRow(o, u, invite[i].role)
  <2>1. /\ invite' \in [Invitation -> Offer \cup {None}]
        /\ InvitationsKeepTheirTerms
        /\ \A j \in Invitation :
             /\ Live(j)' => Live(j) /\ j # i /\ invite'[j] = invite[j]
             /\ invite'[j] # None => invite[j] # None
    BY <1>0, <1>4, EndedEndsTheLive
  <2>2. /\ \A p \in Org \ {o} : member'[p] = member[p]
        /\ \A v \in User \ {u} : member'[o][v] = member[o][v]
        /\ member[o][u].role = None
        /\ member' \in [Org -> [User -> Membership]]
    <3>1. [id |-> member[o][u].id + 1, role |-> invite[i].role] \in Membership
      BY <1>0, <1>1 DEF TypeOK, Membership, Offer
    <3>2. member[o] \in [User -> Membership]
      BY <1>0, <1>1 DEF TypeOK
    <3> QED BY <1>0, <1>1, <1>4, <3>1, <3>2 DEF TypeOK, NewRow, IsMember
  <2>3. TypeOK' /\ LockExclusive'
    BY <1>0, <1>1, <2>1, <2>2, DoneFrame DEF TypeOK
  <2>4. Requests'
    <3>1. ASSUME NEW g \in Flow \ {f}, pc[g] = "write", kind[g] # "revoke"
          PROVE  member'[my[g].org] = member[my[g].org]
      <4>1. my[g].org # o /\ my[g].org \in Org
        BY <1>0, <1>1, <3>1, LockShutsOut DEF o
      <4> QED BY <2>2, <4>1
    <3> QED BY <1>0, <1>1, <2>1, <3>1, CommitKeepsRequests
  <2>5. Tables'
    <3>1. SlotUnique'
      BY <1>0, <2>1 DEF Tables, SlotUnique
    <3>2. OnlyWhereFounded'
      <4>1. exists[o]
        BY <1>0, <1>1, NoneAssumption DEF Tables, OnlyWhereFounded
      <4> QED BY <1>0, <1>1, <2>1, <2>2, <4>1
           DEF Tables, OnlyWhereFounded, InvitationsKeepTheirTerms, IsMember
    <3>3. HasAnOwner'
      <4> SUFFICES ASSUME NEW p \in Org, exists[p] PROVE Owners(p)' # {}
        BY <1>1 DEF HasAnOwner
      <4>1. PICK v \in User : member[p][v].role = "OWNER"
        BY <1>0 DEF Tables, HasAnOwner, Owners
      <4>2. p # o \/ v # u
        BY <2>2, <4>1, RoleAssumption
      <4> QED BY <2>2, <4>1, <4>2 DEF Owners
    <3>4. ASSUME NEW j \in Invitation, Live(j)'
          PROVE  /\ Covers(member'[invite'[j].org][invite'[j].issuer].role, invite'[j].role)
                 /\ member'[invite'[j].org][invite'[j].email].role = None
      <4>1. /\ Live(j) /\ j # i /\ invite'[j] = invite[j]
            /\ invite[j].org \in Org /\ invite[j].issuer \in User /\ invite[j].email \in User
            /\ Covers(member[invite[j].org][invite[j].issuer].role, invite[j].role)
            /\ member[invite[j].org][invite[j].email].role = None
        BY <1>0, <2>1, <3>4
           DEF Tables, InvitationsAreBacked, MembersHaveNoInvitation, IsMember, TypeOK, Offer, Live
      <4>2. ~(invite[j].org = o /\ invite[j].issuer = u)
        BY <2>2, <4>1 DEF Covers
      <4>3. ~(invite[j].org = o /\ invite[j].email = u)
        BY <1>0, <1>1, <1>4, <4>1 DEF Tables, SlotUnique
      <4> QED BY <2>2, <4>1, <4>2, <4>3
    <3>5. InvitationsAreBacked' /\ MembersHaveNoInvitation'
      BY <3>4 DEF InvitationsAreBacked, MembersHaveNoInvitation, IsMember, Covers
    <3> QED BY <3>1, <3>2, <3>3, <3>5 DEF Tables
  <2> QED BY <2>3, <2>4, <2>5 DEF IInv
<1> QED BY <1>1, <1>3, <1>4

\* An organisation comes with its owner, and nothing was waiting for it.
LEMMA FoundKeepsIInv ==
    ASSUME IInv, NEW f \in Flow, NEW u \in User, NEW o \in Org, Found(f, u, o)
    PROVE  IInv'
<1>0. TypeOK /\ LockExclusive /\ Requests /\ Tables
  BY DEF IInv
<1>1. CASE exists[o]
  BY <1>1, RefusalKeepsIInv DEF Found, rows
<1>2. CASE ~exists[o]
  <2>1. /\ exists' = [exists EXCEPT ![o] = TRUE]
        /\ member' = NewRow(o, u, "OWNER")
        /\ Goto(f, "done") /\ UNCHANGED <<kind, invite>>
    BY <1>2 DEF Found, OwnerRole
  <2>2. /\ \A p \in Org \ {o} : member'[p] = member[p] /\ exists'[p] = exists[p]
        /\ \A v \in User \ {u} : member'[o][v] = member[o][v]
        /\ member'[o][u].role = "OWNER" /\ exists'[o]
        /\ exists' \in [Org -> BOOLEAN]
        /\ member' \in [Org -> [User -> Membership]]
    <3>1. [id |-> member[o][u].id + 1, role |-> "OWNER"] \in Membership
      BY <1>0, RoleAssumption DEF TypeOK, Membership
    <3>2. member[o] \in [User -> Membership]
      BY <1>0 DEF TypeOK
    <3> QED BY <1>0, <2>1, <3>1, <3>2 DEF TypeOK, NewRow
  <2>3. InvitationsKeepTheirTerms
    BY <2>1 DEF InvitationsKeepTheirTerms
  <2>4. TypeOK' /\ LockExclusive'
    BY <1>0, <2>1, <2>2, DoneFrame DEF TypeOK
  <2>5. Requests'
    <3>1. ASSUME NEW g \in Flow \ {f}, pc[g] = "write", kind[g] # "revoke"
          PROVE  member'[my[g].org] = member[my[g].org]
      <4>1. /\ Carries(g) /\ Decided(g) /\ my[g] \in Local /\ kind[g] # "found"
            /\ my[g].org \in Org /\ my[g].target \in User /\ my[g].user \in User
        BY <1>0, <3>1 DEF Requests, Carries, Working, Local
      <4>2. kind[g] \in {"role", "remove", "invite", "accept"}
        BY <1>0, <3>1, <4>1, RacesAssumption DEF TypeOK, Kinds
      <4>3. CASE kind[g] \in {"role", "remove"}
        <5>1. IsMember(my[g].org, my[g].target)
          BY <3>1, <4>1, <4>3
             DEF Decided, RoleDecides, RemoveDecides, TargetLives, Target, IsMember
        <5> QED BY <1>0, <1>2, <2>2, <4>1, <5>1 DEF Tables, OnlyWhereFounded
      <4>4. CASE kind[g] = "invite"
        <5>1. IsMember(my[g].org, my[g].user)
          BY <3>1, <4>1, <4>4 DEF Decided, InviteDecides, ActorStands, IsMember
        <5> QED BY <1>0, <1>2, <2>2, <4>1, <5>1 DEF Tables, OnlyWhereFounded
      <4>5. CASE kind[g] = "accept"
        <5>1. exists[my[g].org]
          BY <1>0, <3>1, <4>1, <4>5 DEF Carries, Working, Tables, OnlyWhereFounded
        <5> QED BY <1>2, <2>2, <4>1, <5>1
      <4> QED BY <4>2, <4>3, <4>4, <4>5
    <3> QED BY <1>0, <2>1, <2>3, <3>1, CommitKeepsRequests
  <2>6. Tables'
    <3>1. SlotUnique'
      BY <1>0, <2>1 DEF Tables, SlotUnique, Live
    <3>2. OnlyWhereFounded'
      <4>1. \A j \in Invitation : invite[j] # None => invite[j].org \in Org
        BY <1>0 DEF TypeOK, Offer
      <4> QED BY <1>0, <2>1, <2>2, <4>1 DEF Tables, OnlyWhereFounded, IsMember
    <3>3. HasAnOwner'
      <4> SUFFICES ASSUME NEW p \in Org, exists'[p] PROVE Owners(p)' # {}
        BY DEF HasAnOwner
      <4>1. CASE p = o
        BY <2>2, <4>1 DEF Owners
      <4>2. CASE p # o
        BY <1>0, <2>2, <4>2 DEF Tables, HasAnOwner, Owners
      <4> QED BY <4>1, <4>2
    <3>4. \A j \in Invitation : Live(j) => invite[j].org \in Org /\ invite[j].org # o
      BY <1>0, <1>2 DEF Tables, OnlyWhereFounded, Live, TypeOK, Offer
    <3>5. InvitationsAreBacked' /\ MembersHaveNoInvitation'
      BY <1>0, <2>1, <2>2, <3>4
         DEF Tables, InvitationsAreBacked, MembersHaveNoInvitation, IsMember, Covers, Live
    <3> QED BY <3>1, <3>2, <3>3, <3>5 DEF Tables
  <2> QED BY <2>4, <2>5, <2>6 DEF IInv
<1> QED BY <1>1, <1>2

\* Expiry ends nothing: an expired invitation keeps its slot until superseded.
LEMMA ExpireKeepsIInv ==
    ASSUME IInv, NEW i \in Invitation, Expire(i)
    PROVE  IInv'
<1>0. TypeOK /\ LockExclusive /\ Requests /\ Tables
  BY DEF IInv
<1>1. /\ invite' = [invite EXCEPT ![i].expired = TRUE] /\ Live(i)
      /\ UNCHANGED <<kind, exists, member, pc, my>>
  BY DEF Expire
<1>2. /\ invite' \in [Invitation -> Offer \cup {None}]
      /\ InvitationsKeepTheirTerms
      /\ \A j \in Invitation :
           /\ Live(j)' => Live(j)
           /\ invite'[j] # None => invite[j] # None
  <2>1. invite[i] \in Offer /\ [invite[i] EXCEPT !.expired = TRUE] \in Offer
    BY <1>0, <1>1 DEF TypeOK, Live, Offer
  <2>2. /\ \A j \in Invitation \ {i} : invite'[j] = invite[j]
        /\ invite'[i] = [invite[i] EXCEPT !.expired = TRUE]
        /\ invite' \in [Invitation -> Offer \cup {None}]
    BY <1>0, <1>1, <2>1 DEF TypeOK
  <2>3. /\ invite'[i] # None /\ invite[i] # None
        /\ invite'[i].org = invite[i].org /\ invite'[i].email = invite[i].email
        /\ invite'[i].role = invite[i].role /\ invite'[i].issuer = invite[i].issuer
    BY <2>1, <2>2, NoneAssumption DEF Offer
  <2> QED BY <1>1, <2>2, <2>3 DEF InvitationsKeepTheirTerms, Live
<1>3. TypeOK' /\ LockExclusive'
  BY <1>0, <1>1, <1>2 DEF TypeOK, LockExclusive, Holds
<1>4. Requests'
  BY <1>0, <1>1, <1>2, OtherRequestsStand DEF Requests
<1>5. Tables'
  <2>1. \A j \in Invitation : Live(j)' =>
          /\ Live(j) /\ invite[j] # None
          /\ invite'[j].org = invite[j].org /\ invite'[j].email = invite[j].email
          /\ invite'[j].role = invite[j].role /\ invite'[j].issuer = invite[j].issuer
    BY <1>2 DEF InvitationsKeepTheirTerms, Live
  <2>2. SlotUnique'
    BY <1>0, <2>1 DEF Tables, SlotUnique
  <2>3. OnlyWhereFounded'
    BY <1>0, <1>1, <1>2 DEF Tables, OnlyWhereFounded, InvitationsKeepTheirTerms, IsMember
  <2>4. HasAnOwner'
    BY <1>0, <1>1 DEF Tables, HasAnOwner, Owners
  <2>5. InvitationsAreBacked' /\ MembersHaveNoInvitation'
    BY <1>0, <1>1, <2>1
       DEF Tables, InvitationsAreBacked, MembersHaveNoInvitation, IsMember, Covers
  <2> QED BY <2>2, <2>3, <2>4, <2>5 DEF Tables
<1> QED BY <1>3, <1>4, <1>5 DEF IInv

-----------------------------------------------------------------------------
\* Every step keeps the invariant.
LEMMA NextIInv == IInv /\ [Next]_vars => IInv'
<1> SUFFICES ASSUME IInv, [Next]_vars PROVE IInv'
  OBVIOUS
<1>1. CASE UNCHANGED vars
  <2>1. TypeOK' /\ LockExclusive'
    BY <1>1 DEF vars, IInv, TypeOK, LockExclusive, Holds
  <2>2. UNCHANGED rows /\ UNCHANGED <<kind, pc, my>>
    BY <1>1 DEF vars, rows
  <2>3. Requests' /\ Tables'
    BY <2>2, SameRowsSameRequest, SameRowsSameTables DEF IInv, Requests
  <2> QED BY <2>1, <2>3 DEF IInv
<1>2. ASSUME NEW f \in Flow, NEW u \in User, NEW o \in Org, Found(f, u, o)
      PROVE  IInv'
  BY <1>2, FoundKeepsIInv
<1>3. ASSUME NEW f \in Flow, NEW u \in User, NEW o \in Org, NEW target \in User,
             \/ \E r \in Role : InviteStart(f, u, o, target, r) \/ RoleStart(f, u, o, target, r)
             \/ RemoveStart(f, u, o, target)
      PROVE  IInv'
  BY <1>3, StartsKeepIInv
<1>4. ASSUME NEW f \in Flow, NEW u \in User, NEW o \in Org, NEW i \in Invitation,
             RevokeStart(f, u, o, i)
      PROVE  IInv'
  BY <1>4, StartsKeepIInv
<1>5. ASSUME NEW f \in Flow, NEW u \in User, NEW i \in Invitation, AcceptStart(f, u, i)
      PROVE  IInv'
  BY <1>5, AcceptStartKeepsIInv
<1>6. ASSUME NEW f \in Flow, Lock(f) \/ Read(f) PROVE IInv'
  BY <1>6, LockKeepsIInv, ReadKeepsIInv
<1>7. ASSUME NEW f \in Flow, Fail(f) PROVE IInv'
  BY <1>7, RefusalKeepsIInv DEF Fail, Refuse
<1>8. ASSUME NEW f \in Flow,
             \/ WriteMembership(f) \/ WriteRevocation(f) \/ WriteAcceptance(f)
             \/ \E i \in Invitation : WriteInvitation(f, i)
      PROVE  IInv'
  BY <1>8, WriteMembershipKeepsIInv, WriteRevocationKeepsIInv, WriteAcceptanceKeepsIInv,
     WriteInvitationKeepsIInv
<1>9. ASSUME NEW i \in Invitation, Expire(i) PROVE IInv'
  BY <1>9, ExpireKeepsIInv
<1> QED BY <1>1, <1>2, <1>3, <1>4, <1>5, <1>6, <1>7, <1>8, <1>9 DEF Next

-----------------------------------------------------------------------------
(* What a step may do to an invitation, and to who is a member.            *)

EndsOnce ==
    /\ \A i \in Invitation : invite[i] # None /\ ~Live(i) => invite'[i] = invite[i]
    /\ \A o \in Org, u \in User : exists[o] /\ member'[o][u].id # member[o][u].id =>
           \E i \in Invitation :
               /\ Live(i) /\ invite'[i].state = "accepted"
               /\ invite[i].org = o /\ invite[i].email = u
               /\ member'[o][u].role = invite[i].role

\* No step ends an invitation that has ended.
LEMMA StepEndsOnce == IInv /\ [Next]_vars => EndsOnce
<1> SUFFICES ASSUME IInv, [Next]_vars PROVE EndsOnce
  OBVIOUS
<1>0. TypeOK /\ Requests /\ Tables
  BY DEF IInv
<1>1. ASSUME UNCHANGED <<invite, member>> PROVE EndsOnce
  BY <1>1 DEF EndsOnce
<1>2. ASSUME NEW f \in Flow, NEW u \in User, NEW o \in Org, Found(f, u, o)
      PROVE  EndsOnce
  <2>1. \A p \in Org : exists[p] => member'[p] = member[p]
    BY <1>0, <1>2 DEF Found, NewRow, TypeOK
  <2>2. invite' = invite
    BY <1>2 DEF Found
  <2> QED BY <2>1, <2>2 DEF EndsOnce
<1>3. ASSUME NEW f \in Flow, WriteMembership(f) PROVE EndsOnce
  <2>1. \A i \in Invitation : ~Live(i) => invite'[i] = invite[i]
    BY <1>0, <1>3, EndedEndsTheLive DEF WriteMembership
  <2>2. \A o \in Org, u \in User : member'[o][u].id = member[o][u].id
    BY <1>0, <1>3 DEF WriteMembership, TypeOK, Membership
  <2> QED BY <2>1, <2>2 DEF EndsOnce
<1>4. ASSUME NEW f \in Flow, NEW i \in Invitation, WriteInvitation(f, i) PROVE EndsOnce
  <2>1. \A j \in Invitation : invite[j] # None /\ ~Live(j) => invite'[j] = invite[j]
    BY <1>0, <1>4 DEF WriteInvitation, Superseded, Ended, TypeOK
  <2>2. member' = member
    BY <1>4 DEF WriteInvitation
  <2> QED BY <2>1, <2>2 DEF EndsOnce
<1>5. ASSUME NEW f \in Flow, WriteRevocation(f) PROVE EndsOnce
  <2>1. \A i \in Invitation : ~Live(i) => invite'[i] = invite[i]
    BY <1>5 DEF WriteRevocation, Revocable
  <2>2. member' = member
    BY <1>5 DEF WriteRevocation
  <2> QED BY <2>1, <2>2 DEF EndsOnce
<1>6. ASSUME NEW f \in Flow, WriteAcceptance(f) PROVE EndsOnce
  <2> DEFINE i == my[f].invitation
             o == my[f].org
             u == my[f].user
  <2>1. /\ i \in Invitation /\ o \in Org /\ u \in User
        /\ invite[i] \in Offer /\ invite[i].org = o /\ invite[i].email = u
        /\ \/ UNCHANGED <<invite, member>>
           \/ /\ Live(i)
              /\ invite' = Ended({i}, "accepted")
              /\ member' = NewRow(o, u, invite[i].role)
    BY <1>6, AcceptanceSpends
  <2> HIDE DEF i, o, u
  <2>2. CASE UNCHANGED <<invite, member>>
    BY <1>1, <2>2
  <2>3. CASE /\ Live(i)
             /\ invite' = Ended({i}, "accepted")
             /\ member' = NewRow(o, u, invite[i].role)
    <3>1. \A j \in Invitation : ~Live(j) => invite'[j] = invite[j]
      BY <1>0, <2>3, EndedEndsTheLive
    <3>2. invite'[i].state = "accepted"
      BY <2>1, <2>3 DEF Ended, Offer
    <3>3. /\ \A p \in Org, v \in User : p # o \/ v # u => member'[p][v] = member[p][v]
          /\ member'[o][u].role = invite[i].role
      BY <1>0, <2>1, <2>3 DEF NewRow, TypeOK
    <3> QED BY <2>1, <2>3, <3>1, <3>2, <3>3, SMTT(30) DEF EndsOnce
  <2> QED BY <2>1, <2>2, <2>3
<1>7. ASSUME NEW i \in Invitation, Expire(i) PROVE EndsOnce
  <2>1. \A j \in Invitation : ~Live(j) => invite'[j] = invite[j]
    BY <1>0, <1>7 DEF Expire, TypeOK
  <2>2. member' = member
    BY <1>7 DEF Expire
  <2> QED BY <2>1, <2>2 DEF EndsOnce
<1>8. \/ UNCHANGED <<invite, member>>
      \/ \E f \in Flow, u \in User, o \in Org : Found(f, u, o)
      \/ \E f \in Flow : \/ WriteMembership(f) \/ WriteRevocation(f) \/ WriteAcceptance(f)
                         \/ \E i \in Invitation : WriteInvitation(f, i)
      \/ \E i \in Invitation : Expire(i)
  BY DEF Next, vars, rows, Admitted, InviteStart, RoleStart, RemoveStart, RevokeStart, AcceptStart,
         Lock, Read, Fail, Refuse
<1> QED BY <1>1, <1>2, <1>3, <1>4, <1>5, <1>6, <1>7, <1>8

-----------------------------------------------------------------------------
\* The tables keep their types, and no request of any race meets a unique index:
\* on slugs, on live invitations or on memberships.
THEOREM TypeCorrect == Spec => []TypeOK
<1>1. IInv => TypeOK
  BY DEF IInv
<1> QED BY InitIInv, NextIInv, <1>1, PTL DEF Spec

\* However many of its owners are demoted and removed at once, an organisation
\* keeps one: the owners are counted under the organisation's row lock.
THEOREM OwnersRemain == Spec => []HasAnOwner
<1>1. IInv => HasAnOwner
  BY DEF IInv, Tables
<1> QED BY InitIInv, NextIInv, <1>1, PTL DEF Spec

\* No live invitation outlives the authority it was issued on: the cascade runs
\* in the transaction that takes the authority away.
THEOREM NoInvitationIsUnbacked == Spec => []InvitationsAreBacked
<1>1. IInv => InvitationsAreBacked
  BY DEF IInv, Tables
<1> QED BY InitIInv, NextIInv, <1>1, PTL DEF Spec

\* Nobody is a member and invited, whichever way in was quicker.
THEOREM MembersAreNotInvited == Spec => []MembersHaveNoInvitation
<1>1. IInv => MembersHaveNoInvitation
  BY DEF IInv, Tables
<1> QED BY InitIInv, NextIInv, <1>1, PTL DEF Spec

\* Accepting and revoking an invitation exclude each other, and whoever becomes a
\* member of an organisation that exists has spent the invitation to do so.
THEOREM InvitationsAreSpentOnce == Spec => InvitationsEndOnce
<1>1. IInv /\ [Next]_vars => [EndsOnce]_vars
  BY StepEndsOnce
<1> QED BY InitIInv, NextIInv, <1>1, PTL DEF Spec, InvitationsEndOnce, EndsOnce

-----------------------------------------------------------------------------
(* Requests are atomic: the tables implement the Roster.                   *)

\* An invitation shows all but its expiry.
LEMMA OfferShows ==
    ASSUME NEW x \in Offer
    PROVE  /\ x # None /\ Shown(x) # None /\ Shown(x) \in Atomic!Offer
           /\ Shown(x).state = x.state /\ Shown(x).org = x.org /\ Shown(x).email = x.email
           /\ Shown(x).role = x.role /\ Shown(x).issuer = x.issuer
<1>1. x # None
  BY NoneAssumption
<1>2. Shown(x) = [state |-> x.state, org |-> x.org, email |-> x.email,
                  role |-> x.role, issuer |-> x.issuer]
  BY <1>1 DEF Shown
<1>3. Shown(x) \in Atomic!Offer
  BY <1>2 DEF Offer, Atomic!Offer
<1>4. Shown(x) # None
  BY <1>3, NoneIsNoOffer
<1> QED BY <1>1, <1>2, <1>3, <1>4

\* What the Roster shows of the tables.
LEMMA RosterShows ==
    ASSUME TypeOK
    PROVE  /\ roles \in [Org -> [User -> Role \cup {None}]]
           /\ offers \in [Invitation -> Atomic!Offer \cup {None}]
           /\ \A o \in Org, u \in User : roles[o][u] = member[o][u].role
           /\ \A i \in Invitation :
                /\ offers[i] = Shown(invite[i])
                /\ offers[i] = None <=> invite[i] = None
                /\ Atomic!Live(i) <=> Live(i)
           /\ \A o \in Org : Atomic!Owners(o) = Owners(o)
<1>1. roles \in [Org -> [User -> Role \cup {None}]]
  BY DEF TypeOK, Membership, roles
<1>2. \A i \in Invitation : offers[i] = Shown(invite[i])
  BY DEF offers
<1>3. \A i \in Invitation :
        IF invite[i] = None THEN offers[i] = None
        ELSE /\ offers[i] \in Atomic!Offer /\ offers[i] # None
             /\ offers[i].state = invite[i].state
  <2>1. \A i \in Invitation : invite[i] = None \/ invite[i] \in Offer
    BY DEF TypeOK
  <2>2. Shown(None) = None
    BY DEF Shown
  <2> QED BY <1>2, <2>1, <2>2, OfferShows
<1>4. offers \in [Invitation -> Atomic!Offer \cup {None}]
  <2>1. \A i \in Invitation : Shown(invite[i]) \in Atomic!Offer \cup {None}
    BY <1>2, <1>3
  <2> QED BY <2>1 DEF offers
<1>5. \A i \in Invitation : Atomic!Live(i) <=> Live(i)
  BY <1>3 DEF Atomic!Live, Live
<1>6. \A o \in Org, u \in User : roles[o][u] = member[o][u].role
  BY DEF roles
<1>7. \A o \in Org : Atomic!Owners(o) = Owners(o)
  BY <1>6 DEF Atomic!Owners, Owners
<1> QED BY <1>1, <1>2, <1>3, <1>4, <1>5, <1>6, <1>7

\* Covers is the same question in both.
LEMMA SameCovers == \A held, offered : Atomic!Covers(held, offered) <=> Covers(held, offered)
<1>1. Atomic!ROLE_PERMISSIONS = ROLE_PERMISSIONS
  BY DEF Atomic!ROLE_PERMISSIONS, ROLE_PERMISSIONS, Atomic!PERMISSIONS, PERMISSIONS
<1> QED BY <1>1 DEF Atomic!Covers, Covers, Atomic!MayGrant, MayGrant

\* Rows that stay show a roster that stays.
LEMMA SameRowsSameRoster ==
    ASSUME UNCHANGED <<member, invite>>
    PROVE  UNCHANGED Atomic!vars
BY DEF Atomic!vars, roles, offers

\* Ending live invitations in the table is ending them in the Roster.
LEMMA EndedShows ==
    ASSUME TypeOK, NEW S, NEW T \in SUBSET Invitation,
           \A i \in Invitation : i \in T <=> i \in S /\ Live(i)
    PROVE  \A i \in Invitation : Shown(Ended(S, "revoked")[i]) = Atomic!Ended(T)[i]
<1> SUFFICES ASSUME NEW i \in Invitation
             PROVE  Shown(Ended(S, "revoked")[i]) = Atomic!Ended(T)[i]
  OBVIOUS
<1>1. Ended(S, "revoked")[i] = IF i \in T THEN [invite[i] EXCEPT !.state = "revoked"] ELSE invite[i]
  BY DEF Ended
<1>2. Atomic!Ended(T)[i] = IF i \in T THEN [offers[i] EXCEPT !.state = "revoked"] ELSE offers[i]
  BY DEF Atomic!Ended
<1>3. offers[i] = Shown(invite[i])
  BY RosterShows
<1>4. CASE i \in T
  <2> DEFINE y == [invite[i] EXCEPT !.state = "revoked"]
  <2>1. invite[i] \in Offer
    BY <1>4 DEF TypeOK, Live
  <2>2. /\ y \in Offer /\ y.state = "revoked" /\ y.org = invite[i].org
        /\ y.email = invite[i].email /\ y.role = invite[i].role /\ y.issuer = invite[i].issuer
    BY <2>1 DEF Offer
  <2> HIDE DEF y
  <2>3. Shown(y) = [state |-> "revoked", org |-> invite[i].org, email |-> invite[i].email,
                    role |-> invite[i].role, issuer |-> invite[i].issuer]
    BY <2>2, OfferShows DEF Shown
  <2>4. Shown(invite[i]) = [state |-> invite[i].state, org |-> invite[i].org,
                            email |-> invite[i].email, role |-> invite[i].role,
                            issuer |-> invite[i].issuer]
    BY <2>1, OfferShows DEF Shown
  <2>5. [offers[i] EXCEPT !.state = "revoked"] = Shown(y)
    BY <1>3, <2>3, <2>4
  <2> QED BY <1>1, <1>2, <1>4, <2>5 DEF y
<1>5. CASE i \notin T
  BY <1>1, <1>2, <1>3, <1>5
<1> QED BY <1>4, <1>5

\* One role that changes in the table changes in the Roster.
LEMMA RoleShows ==
    ASSUME TypeOK, NEW o \in Org, NEW u \in User, NEW r,
           \A p \in Org, v \in User :
             member'[p][v].role = IF p = o /\ v = u THEN r ELSE member[p][v].role
    PROVE  roles' = [roles EXCEPT ![o][u] = r]
<1>1. roles' = [p \in Org |-> [v \in User |-> IF p = o /\ v = u THEN r ELSE member[p][v].role]]
  BY DEF roles
<1>2. [roles EXCEPT ![o][u] = r]
        = [p \in Org |-> [v \in User |-> IF p = o /\ v = u THEN r ELSE roles[p][v]]]
  BY RosterShows
<1> QED BY <1>1, <1>2 DEF roles

\* A role that changes, with the cascade, is one assignment.
LEMMA MembershipRefines ==
    ASSUME IInv, NEW f \in Flow, WriteMembership(f)
    PROVE  Atomic!Next
<1>0. TypeOK /\ Requests
  BY DEF IInv
<1> DEFINE o == my[f].org
           t == my[f].target
           new == my[f].offered
           S == Uncovered(IssuedIn(o, t), new)
           T == {i \in Invitation : /\ Atomic!Live(i) /\ offers[i].org = o /\ offers[i].issuer = t
                                    /\ ~Atomic!Covers(new, offers[i].role)}
<1>1. /\ pc[f] = "write" /\ kind[f] \in {"role", "remove"}
      /\ member' = [member EXCEPT ![o][t].role = new]
      /\ invite' = Ended(S, "revoked")
  BY DEF WriteMembership
<1>2. /\ o \in Org /\ t \in User /\ new \in Role \cup {None}
      /\ TargetLives(f) /\ KeepsAnOwner(f)
  BY <1>0, <1>1
     DEF Requests, Carries, Decided, Working, Local, RoleDecides, RemoveDecides
<1>3. roles[o][t] = Target(f).role /\ Atomic!Owners(o) = Owners(o)
  BY <1>0, <1>2, RosterShows DEF Target
<1>4. roles[o][t] # None
  BY <1>2, <1>3 DEF TargetLives
<1>5. roles[o][t] = "OWNER" /\ new # "OWNER" => Atomic!Owners(o) # {t}
  BY <1>2, <1>3 DEF KeepsAnOwner, AnotherOwnerStays
<1>6. roles' = [roles EXCEPT ![o][t] = new]
  <2>1. \A p \in Org, v \in User :
          member'[p][v].role = IF p = o /\ v = t THEN new ELSE member[p][v].role
    BY <1>0, <1>1, <1>2 DEF TypeOK, Membership
  <2> HIDE DEF o, t, new
  <2> QED BY <1>0, <1>2, <2>1, RoleShows
<1>7. \A i \in Invitation : i \in T <=> i \in S /\ Live(i)
  <2>1. \A i \in Invitation : Live(i) =>
          /\ Atomic!Live(i) /\ offers[i].org = invite[i].org
          /\ offers[i].issuer = invite[i].issuer /\ offers[i].role = invite[i].role
    BY <1>0, RosterShows, OfferShows DEF TypeOK, Live
  <2>2. \A i \in Invitation : Atomic!Live(i) => Live(i)
    BY <1>0, RosterShows
  <2> QED BY <2>1, <2>2, SameCovers DEF Uncovered, IssuedIn
<1>8. offers' = Atomic!Ended(T)
  <2>1. T \in SUBSET Invitation
    OBVIOUS
  <2>2. \A i \in Invitation : Shown(Ended(S, "revoked")[i]) = Atomic!Ended(T)[i]
    BY <1>0, <1>7, <2>1, EndedShows
  <2>3. offers' = [i \in Invitation |-> Shown(Ended(S, "revoked")[i])]
    BY <1>1 DEF offers
  <2> QED BY <2>2, <2>3 DEF Atomic!Ended
<1>9. Atomic!Assign(o, t, new)
  BY <1>4, <1>5, <1>6, <1>8 DEF Atomic!Assign
<1> QED BY <1>2, <1>9 DEF Atomic!Next

\* An invitation is issued in one step, by somebody who may, then.
LEMMA InvitationRefines ==
    ASSUME IInv, NEW f \in Flow, NEW i \in Invitation, WriteInvitation(f, i)
    PROVE  Atomic!Next
<1>0. TypeOK /\ Requests
  BY DEF IInv
<1> DEFINE o == my[f].org
           u == my[f].user
           email == my[f].target
           r == my[f].offered
           T == {j \in Invitation : Atomic!Live(j) /\ offers[j].org = o /\ offers[j].email = email}
           new == [state |-> "live", expired |-> FALSE, org |-> o, email |-> email,
                   role |-> r, issuer |-> u]
           shown == [state |-> "live", org |-> o, email |-> email, role |-> r, issuer |-> u]
<1>1. /\ pc[f] = "write" /\ kind[f] = "invite" /\ invite[i] = None
      /\ invite' = [Ended(Slot(o, email), "revoked") EXCEPT ![i] = new]
      /\ member' = member
  BY DEF WriteInvitation, Superseded
<1>2. /\ o \in Org /\ u \in User /\ email \in User /\ r \in Role /\ InviteDecides(f)
  BY <1>0, <1>1 DEF Requests, Carries, Decided, Working, Local
<1>3. /\ roles[o][u] = member[o][u].role /\ roles[o][email] = member[o][email].role
      /\ offers[i] = None
  BY <1>0, <1>1, <1>2, RosterShows
<1>4. /\ Atomic!Covers(roles[o][u], r)
      /\ "organization.manage_members" \in ROLE_PERMISSIONS[roles[o][u]]
      /\ roles[o][email] = None
  BY <1>2, <1>3, SameCovers DEF InviteDecides, ActorStands, NotAlreadyAMember, IsMember
<1>5. \A j \in Invitation : j \in T <=> j \in Slot(o, email) /\ Live(j)
  <2>1. \A j \in Invitation : Live(j) =>
          /\ Atomic!Live(j) /\ offers[j].org = invite[j].org /\ offers[j].email = invite[j].email
    BY <1>0, RosterShows, OfferShows DEF TypeOK, Live
  <2>2. \A j \in Invitation : Atomic!Live(j) => Live(j)
    BY <1>0, RosterShows
  <2> QED BY <2>1, <2>2 DEF Slot
<1>6. offers' = [Atomic!Ended(T) EXCEPT ![i] = shown]
  <2>1. new \in Offer
    BY <1>2 DEF Offer
  <2>2. Shown(new) = shown
    <3> HIDE DEF new
    <3>1. Shown(new) = [state |-> new.state, org |-> new.org, email |-> new.email,
                        role |-> new.role, issuer |-> new.issuer]
      BY <2>1, OfferShows DEF Shown
    <3> QED BY <3>1 DEF new
  <2> HIDE DEF new, shown
  <2>3. \A j \in Invitation : Shown(Ended(Slot(o, email), "revoked")[j]) = Atomic!Ended(T)[j]
    BY <1>0, <1>5, EndedShows
  <2>4. \A j \in Invitation :
          invite'[j] = IF j = i THEN new ELSE Ended(Slot(o, email), "revoked")[j]
    BY <1>1 DEF Ended
  <2>5. offers' = [j \in Invitation |-> IF j = i THEN shown ELSE Atomic!Ended(T)[j]]
    BY <2>2, <2>3, <2>4 DEF offers
  <2> QED BY <2>5 DEF Atomic!Ended
<1>7. roles' = roles
  BY <1>1 DEF roles
<1>8. Atomic!Invite(o, u, email, r, i)
  <2>1. Atomic!ROLE_PERMISSIONS = ROLE_PERMISSIONS
    BY DEF Atomic!ROLE_PERMISSIONS, ROLE_PERMISSIONS, Atomic!PERMISSIONS, PERMISSIONS
  <2> QED BY <1>3, <1>4, <1>6, <1>7, <2>1 DEF Atomic!Invite
<1> QED BY <1>2, <1>8 DEF Atomic!Next

\* A revocation revokes what is live, or nothing.
LEMMA RevocationRefines ==
    ASSUME IInv, NEW f \in Flow, WriteRevocation(f)
    PROVE  Atomic!Next \/ UNCHANGED Atomic!vars
<1>0. TypeOK /\ Requests
  BY DEF IInv
<1> DEFINE i == my[f].invitation
<1>1. /\ i \in Invitation /\ member' = member
      /\ invite' = Ended({i}, "revoked")
  BY <1>0 DEF WriteRevocation, Requests, Carries, Working, Revocable, Ended
<1>2. roles' = roles
  BY <1>1 DEF roles
<1>3. CASE Live(i)
  <2>1. \A j \in Invitation : Shown(Ended({i}, "revoked")[j]) = Atomic!Ended({i})[j]
    BY <1>0, <1>1, <1>3, EndedShows
  <2>2. offers' = Atomic!Ended({i})
    BY <1>1, <2>1 DEF offers, Atomic!Ended
  <2>3. Atomic!Revoke(i)
    BY <1>0, <1>1, <1>2, <1>3, <2>2, RosterShows DEF Atomic!Revoke
  <2> QED BY <1>1, <2>3 DEF Atomic!Next
<1>4. CASE ~Live(i)
  <2>1. \A j \in Invitation : invite'[j] = invite[j]
    BY <1>1, <1>4 DEF Ended
  <2> QED BY <1>2, <2>1 DEF offers, Atomic!vars
<1> QED BY <1>3, <1>4

\* An acceptance admits with the role that is offered, or nothing.
LEMMA AcceptanceRefines ==
    ASSUME IInv, NEW f \in Flow, WriteAcceptance(f)
    PROVE  Atomic!Next \/ UNCHANGED Atomic!vars
<1>0. TypeOK
  BY DEF IInv
<1>1. PICK i \in Invitation, o \in Org, u \in User :
        /\ invite[i] \in Offer /\ invite[i].org = o /\ invite[i].email = u
        /\ ~IsMember(o, u)
        /\ \/ UNCHANGED <<invite, member>>
           \/ /\ Live(i)
              /\ invite' = Ended({i}, "accepted")
              /\ member' = NewRow(o, u, invite[i].role)
  BY AcceptanceSpends
<1>2. CASE UNCHANGED <<invite, member>>
  BY <1>2, SameRowsSameRoster
<1>3. CASE /\ Live(i)
           /\ invite' = Ended({i}, "accepted")
           /\ member' = NewRow(o, u, invite[i].role)
  <2>1. /\ Atomic!Live(i) /\ offers[i].org = o /\ offers[i].email = u
        /\ offers[i].role = invite[i].role /\ roles[o][u] = None
    BY <1>0, <1>1, <1>3, RosterShows, OfferShows DEF IsMember
  <2>2. roles' = [roles EXCEPT ![o][u] = invite[i].role]
    <3>1. \A p \in Org, v \in User :
            member'[p][v].role = IF p = o /\ v = u THEN invite[i].role ELSE member[p][v].role
      BY <1>0, <1>3 DEF NewRow, TypeOK
    <3> QED BY <1>0, <3>1, RoleShows
  <2>3. offers' = [offers EXCEPT ![i].state = "accepted"]
    <3> DEFINE y == [invite[i] EXCEPT !.state = "accepted"]
    <3>1. /\ y \in Offer /\ y.state = "accepted" /\ y.org = invite[i].org
          /\ y.email = invite[i].email /\ y.role = invite[i].role /\ y.issuer = invite[i].issuer
      BY <1>1 DEF Offer
    <3>2. \A j \in Invitation : invite'[j] = IF j = i THEN y ELSE invite[j]
      BY <1>3 DEF Ended
    <3> HIDE DEF y
    <3>3. Shown(y) = [state |-> "accepted", org |-> invite[i].org, email |-> invite[i].email,
                      role |-> invite[i].role, issuer |-> invite[i].issuer]
      BY <3>1, OfferShows DEF Shown
    <3>4. offers[i] = [state |-> invite[i].state, org |-> invite[i].org,
                       email |-> invite[i].email, role |-> invite[i].role,
                       issuer |-> invite[i].issuer]
      BY <1>0, <1>1, RosterShows, OfferShows DEF Shown
    <3>5. Shown(y) = [offers[i] EXCEPT !.state = "accepted"]
      BY <3>3, <3>4
    <3>6. offers' = [j \in Invitation |-> IF j = i THEN Shown(y) ELSE offers[j]]
      BY <3>2 DEF offers
    <3>7. [offers EXCEPT ![i] = Shown(y)] = [j \in Invitation |-> IF j = i THEN Shown(y) ELSE offers[j]]
      BY <1>0, RosterShows
    <3>8. [offers EXCEPT ![i].state = "accepted"] = [offers EXCEPT ![i] = Shown(y)]
      BY <1>0, <1>1, <3>5, RosterShows
    <3> QED BY <3>6, <3>7, <3>8
  <2>4. Atomic!Accept(i)
    BY <2>1, <2>2, <2>3 DEF Atomic!Accept
  <2> QED BY <1>1, <2>4 DEF Atomic!Next
<1> QED BY <1>1, <1>2, <1>3

\* An organisation is founded with its owner, or was there.
LEMMA FoundRefines ==
    ASSUME IInv, NEW f \in Flow, NEW u \in User, NEW o \in Org, Found(f, u, o)
    PROVE  Atomic!Next \/ UNCHANGED Atomic!vars
<1>0. TypeOK /\ Tables
  BY DEF IInv
<1>1. CASE exists[o]
  BY <1>1, SameRowsSameRoster DEF Found
<1>2. CASE ~exists[o]
  <2>1. member' = NewRow(o, u, "OWNER") /\ invite' = invite
    BY <1>2 DEF Found, OwnerRole
  <2>2. \A v \in User : roles[o][v] = None
    BY <1>0, <1>2, RosterShows DEF Tables, OnlyWhereFounded, IsMember
  <2>3. roles' = [roles EXCEPT ![o][u] = "OWNER"]
    <3>1. \A p \in Org, v \in User :
            member'[p][v].role = IF p = o /\ v = u THEN "OWNER" ELSE member[p][v].role
      BY <1>0, <2>1 DEF NewRow, TypeOK
    <3> QED BY <1>0, <3>1, RoleShows
  <2>4. offers' = offers
    BY <2>1 DEF offers
  <2>5. Atomic!Found(o, u)
    BY <2>2, <2>3, <2>4 DEF Atomic!Found
  <2> QED BY <2>5 DEF Atomic!Next
<1> QED BY <1>1, <1>2

\* An expiry does not show.
LEMMA ExpiryRefines ==
    ASSUME IInv, NEW i \in Invitation, Expire(i)
    PROVE  UNCHANGED Atomic!vars
<1>0. TypeOK
  BY DEF IInv
<1> DEFINE y == [invite[i] EXCEPT !.expired = TRUE]
<1>1. invite[i] \in Offer /\ member' = member
  BY <1>0 DEF Expire, Live, TypeOK
<1>2. \A j \in Invitation : invite'[j] = IF j = i THEN y ELSE invite[j]
  BY <1>0 DEF Expire, TypeOK
<1>3. /\ y \in Offer /\ y.state = invite[i].state /\ y.org = invite[i].org
      /\ y.email = invite[i].email /\ y.role = invite[i].role /\ y.issuer = invite[i].issuer
  BY <1>1 DEF Offer
<1> HIDE DEF y
<1>4. Shown(y) = Shown(invite[i])
  BY <1>1, <1>3, OfferShows DEF Shown
<1>5. offers' = offers
  BY <1>2, <1>4 DEF offers
<1> QED BY <1>1, <1>5 DEF roles, Atomic!vars

\* Every step is a step of the Roster, or shows nothing.
LEMMA StepIsAtomic == IInv /\ [Next]_vars => [Atomic!Next]_(Atomic!vars)
<1> SUFFICES ASSUME IInv, [Next]_vars PROVE [Atomic!Next]_(Atomic!vars)
  OBVIOUS
<1>1. \/ UNCHANGED <<invite, member>>
      \/ \E f \in Flow, u \in User, o \in Org : Found(f, u, o)
      \/ \E f \in Flow : \/ WriteMembership(f) \/ WriteRevocation(f) \/ WriteAcceptance(f)
                         \/ \E i \in Invitation : WriteInvitation(f, i)
      \/ \E i \in Invitation : Expire(i)
  BY DEF Next, vars, rows, Admitted, InviteStart, RoleStart, RemoveStart, RevokeStart, AcceptStart,
         Lock, Read, Fail, Refuse
<1> QED BY <1>1, SameRowsSameRoster, FoundRefines, MembershipRefines, RevocationRefines,
           AcceptanceRefines, InvitationRefines, ExpiryRefines

\* The tables begin in order.
LEMMA InitIsAtomic == Init => Atomic!Init
<1> SUFFICES ASSUME Init PROVE Atomic!Init
  OBVIOUS
<1>0. TypeOK /\ Tables
  BY InitIInv DEF IInv
<1>1. \A o \in Org, u \in User : roles[o][u] # None => Atomic!Owners(o) # {}
  BY <1>0, RosterShows DEF Tables, OnlyWhereFounded, HasAnOwner, IsMember
<1>2. ASSUME NEW i \in Invitation, Atomic!Live(i)
      PROVE  /\ Atomic!Covers(roles[offers[i].org][offers[i].issuer], offers[i].role)
             /\ roles[offers[i].org][offers[i].email] = None
  <2>1. Live(i) /\ invite[i] \in Offer
    BY <1>0, <1>2, RosterShows DEF Live, TypeOK
  <2>2. /\ offers[i].org = invite[i].org /\ offers[i].issuer = invite[i].issuer
        /\ offers[i].email = invite[i].email /\ offers[i].role = invite[i].role
    BY <1>0, <2>1, RosterShows, OfferShows
  <2>3. invite[i].org \in Org /\ invite[i].issuer \in User /\ invite[i].email \in User
    BY <2>1 DEF Offer
  <2>4. /\ Covers(member[invite[i].org][invite[i].issuer].role, invite[i].role)
        /\ ~IsMember(invite[i].org, invite[i].email)
    BY <1>0, <2>1 DEF Tables, InvitationsAreBacked, MembersHaveNoInvitation
  <2>5. /\ roles[invite[i].org][invite[i].issuer] = member[invite[i].org][invite[i].issuer].role
        /\ roles[invite[i].org][invite[i].email] = member[invite[i].org][invite[i].email].role
    BY <1>0, <2>3, RosterShows
  <2> QED BY <2>2, <2>4, <2>5, SameCovers DEF IsMember
<1> QED BY <1>0, <1>1, <1>2, RosterShows DEF Atomic!Init

\* Requests that lock, read, decide and write in steps of their own leave what
\* they would have left in one: each takes effect at its commit, on what is true
\* then, for any number of organisations, users, invitations and requests.
THEOREM RequestsTakeEffectAtOnce == Spec => RequestsAreAtomic
<1>1. Init => Atomic!Init
  BY InitIsAtomic
<1>2. IInv /\ [Next]_vars => [Atomic!Next]_(Atomic!vars)
  BY StepIsAtomic
<1> QED BY InitIInv, NextIInv, <1>1, <1>2, PTL DEF Spec, RequestsAreAtomic, Atomic!Spec
=============================================================================
