--------------------------- MODULE BrowserProofs ---------------------------
(***************************************************************************)
(* What holds of the browser for any number of tabs, sessions, requests    *)
(* and organisations, whichever races there are: the two cookies agree,    *)
(* screens name one organisation, actions land where they were shown, a    *)
(* confirmed logout lasts and a rotation is followed.                      *)
(***************************************************************************)
EXTENDS Browser, TLAPS

-----------------------------------------------------------------------------
(* The invariant. *)

\* Both cookies are of one session.
Twins == jar.csrf = jar.session

\* The header of a request is the cookie that its screen read.
HeadersAreRead ==
    \A s \in Slot : InFlight(s) /\ Routes[req[s].route].unsafe => req[s].csrf = req[s].began

\* A session that has been in use: its organisation is settled.
Used(t) == sess[t].state \in {"live", "rotated", "revoked"}

\* Cookies, kept or sent, are of sessions that were issued.
CookiesAreUsed ==
    /\ jar.session # None => Used(jar.session)
    /\ \A s \in Slot : req[s].cookie # None => Used(req[s].cookie)

\* What the guards have established when a handler runs.
Principals ==
    \A s \in Slot :
        /\ req[s].tenant # None => req[s].role # None
        /\ req[s].stage = "admitted" =>
             /\ Routes[req[s].route].access # "public" => req[s].cookie # None
             /\ "same-site" \in Routes[req[s].route].flags => req[s].tab # None
             /\ req[s].tenant # None => /\ req[s].cookie # None
                                        /\ sess[req[s].cookie].org = req[s].tenant

\* A document is of one organisation, on a screen or on its way there.
OfOneOrganization(doc) == doc.of \in {None, doc.org}
Documents ==
    /\ \A t \in Tab : OfOneOrganization(tab[t].doc)
    /\ \A s \in Slot : OfOneOrganization(req[s].doc)

\* A request that was always alone is alone.
Together ==
    \A s, x \in Slot : InFlight(s) /\ InFlight(x) /\ req[s].alone => x = s

\* A logout that succeeded takes the cookies with it.
LogoutsClear ==
    \A s \in Slot :
        req[s].stage = "answered" /\ req[s].route = "logout" /\ req[s].status = "ok" => req[s].sets = "clear"

\* After a confirmed logout there is no cookie, and none on its way: neither
\* tab signs in and another site cannot.
Harmless(s) ==
    /\ req[s].sets \in {"keep", "clear"}
    /\ req[s].cookie = None
    /\ req[s].route \in {"login", "mfaVerify"} => req[s].tab = None
SignedOutForGood ==
    out = "logout" => jar = EmptyJar /\ \A s \in Slot : InFlight(s) => Harmless(s)

\* A cookie on its way to the browser is nobody's yet.
Issued ==
    \A s \in Slot : req[s].sets \in Token =>
        /\ sess[req[s].sets].state \in {"live", "revoked"}
        /\ jar.session # req[s].sets
        /\ \A x \in Slot : req[x].cookie # req[s].sets
        /\ \A x \in Slot \ {s} : req[x].sets # req[s].sets

\* A switch names an organisation, if anything.
SwitchesNameOrganizations ==
    \A s \in Slot : req[s].route = "switch" => req[s].target \in Org \cup {None}

\* A request is judged when it is answered.
Unjudged ==
    \A s \in Slot : req[s].stage \in {"idle", "composed", "sent", "admitted"} => req[s].status = "none"

IInv ==
    /\ TypeOK /\ SwitchesNameOrganizations /\ Unjudged
    /\ Twins /\ HeadersAreRead /\ CsrfRefusesOnlyStraddlers
    /\ ActionsLandWhereShown
    /\ CookiesAreUsed /\ Principals /\ Documents
    /\ Together /\ LogoutsClear /\ SignedOutForGood
    /\ Issued /\ ARotationIsFollowed

-----------------------------------------------------------------------------
(* Data. *)

\* The routes that sign in refuse another site's page; those that rotate a
\* session or end it ask for one.
LEMMA RoutesDeclare ==
    /\ "same-site" \in Routes["login"].flags /\ "same-site" \in Routes["mfaVerify"].flags
    /\ Routes["switch"].access # "public" /\ Routes["changePassword"].access # "public"
    /\ Routes["session"].access # "public"
    /\ {"login", "mfaVerify", "logout", "revokeSession"} \subseteq DOMAIN Routes
BY DEF Routes, Route, Public, AuthenticatedOnly, RefuseCrossSite, Login, MfaVerify, Switch,
       ChangePassword, ReadSession

\* A role's permissions are permissions.
LEMMA RolesPermit == \A role \in SYSTEM_ROLES : ROLE_PERMISSIONS[role] \in SUBSET PERMISSIONS
BY DEF SYSTEM_ROLES, ROLE_PERMISSIONS, PERMISSIONS

\* The document of a session and of a tenant it resolves to.
LEMMA DocumentType ==
    ASSUME NEW t \in Token \cup {None}, NEW o \in Org \cup {None}, NEW tenant \in Org \cup {None},
           NEW role \in SYSTEM_ROLES \cup {None}, tenant # None => role # None
    PROVE  /\ DocumentFor(t, o, tenant, role) \in Document
           /\ DocumentFor(t, o, tenant, role).org = o
           /\ DocumentFor(t, o, tenant, role).of = tenant
BY RolesPermit DEF DocumentFor, Document

\* Nothing is nowhere.
LEMMA BlankType ==
    /\ Blank \in Document /\ OfOneOrganization(Blank)
    /\ NoList \in List
    /\ EmptyJar \in Jar
    /\ NoRequest \in Request
BY DEF Blank, Document, NoList, List, EmptyJar, Jar, NoRequest, NewRequest, Request,
       OfOneOrganization

\* What the cookies may become when an answer arrives.
LEMMA CookiesAfterType ==
    ASSUME IInv, NEW s \in Slot, jar' = CookiesAfter(s)
    PROVE  /\ jar' \in Jar /\ jar'.csrf = jar'.session
           /\ jar' = jar \/ jar' = EmptyJar \/ (jar'.session = req[s].sets /\ req[s].sets \in Token)
           /\ req[s].sets = "keep" => jar' = jar
           /\ req[s].sets = "clear" => jar' = EmptyJar
           /\ req[s].sets \in Token => jar'.session = req[s].sets
<1>1. /\ jar \in Jar /\ jar.csrf = jar.session
      /\ req[s].sets \in Token \cup {"keep", "clear"}
  BY DEF IInv, TypeOK, Twins, Request
<1>2. /\ req[s].sets = "keep" => jar' = jar
      /\ req[s].sets = "clear" => jar' = EmptyJar
      /\ req[s].sets \notin {"keep", "clear"} => jar' = SetCookies(req[s].sets)
  BY DEF CookiesAfter
<1> QED BY <1>1, <1>2, TokenAssumption DEF EmptyJar, SetCookies, Jar

-----------------------------------------------------------------------------
(* The start. *)

\* Every initial state satisfies the invariant.
LEMMA InitIInv == Init => IInv
<1> SUFFICES ASSUME Init PROVE IInv
  OBVIOUS
<1>1. \A s \in Slot : req[s] = NoRequest
  BY DEF Init
<1>2. PICK t \in Token \cup {None}, o \in {x \in Org : account.role[x] # None} \cup {None} :
        /\ t = None => o = None
        /\ jar = SetCookies(t)
        /\ sess = [u \in Token |-> [state |-> IF u = t THEN "live" ELSE "unused",
                                    org |-> IF u = t THEN o ELSE None]]
        /\ LET page == [page |-> IF t = None THEN "login" ELSE "app", challenge |-> None,
                        doc |-> Blank, error |-> "none", list |-> NoList] IN
           tab \in [Tab -> {page, IF t = None THEN page
                                  ELSE [page EXCEPT !.doc = DocumentFor(t, o, o, RoleIn(o)),
                                                    !.list = [current |-> t, ids |-> {t}]]}]
  BY DEF Init
<1>3. account \in Account
  BY AccountsAssumption DEF Init, Account
<1>4. RoleIn(o) \in SYSTEM_ROLES \cup {None} /\ (o # None => RoleIn(o) # None)
  BY <1>3, NoneAssumption DEF RoleIn, Account
<1>5. /\ DocumentFor(t, o, o, RoleIn(o)) \in Document
      /\ OfOneOrganization(DocumentFor(t, o, o, RoleIn(o)))
  BY <1>4, DocumentType DEF OfOneOrganization
<1>6. tab \in [Tab -> TabState] /\ \A u \in Tab : OfOneOrganization(tab[u].doc)
  <2> DEFINE page == [page |-> IF t = None THEN "login" ELSE "app", challenge |-> None,
                      doc |-> Blank, error |-> "none", list |-> NoList]
             used == [page EXCEPT !.doc = DocumentFor(t, o, o, RoleIn(o)),
                                  !.list = [current |-> t, ids |-> {t}]]
  <2>1. page \in TabState /\ OfOneOrganization(page.doc)
    BY BlankType DEF TabState
  <2>2. t # None => used \in TabState /\ OfOneOrganization(used.doc)
    <3>1. t # None => [current |-> t, ids |-> {t}] \in List
      BY DEF List
    <3>2. ASSUME NEW p \in TabState, NEW d \in Document, NEW l \in List
          PROVE  /\ [p EXCEPT !.doc = d, !.list = l] \in TabState
                 /\ [p EXCEPT !.doc = d, !.list = l].doc = d
      BY DEF TabState
    <3> HIDE DEF page
    <3>3. t # None => /\ used \in TabState
                      /\ used.doc = DocumentFor(t, o, o, RoleIn(o))
      BY <1>5, <2>1, <3>1, <3>2
    <3> HIDE DEF used
    <3> QED BY <1>5, <3>3 DEF OfOneOrganization
  <2>3. tab \in [Tab -> {page, IF t = None THEN page ELSE used}]
    BY <1>2
  <2> HIDE DEF page, used
  <2>4. ASSUME NEW u \in Tab PROVE tab[u] \in TabState /\ OfOneOrganization(tab[u].doc)
    <3>1. tab[u] = page \/ (t # None /\ tab[u] = used)
      BY <2>3
    <3> QED BY <2>1, <2>2, <3>1
  <2> QED BY <2>3, <2>4
<1>7. jar \in Jar /\ jar.csrf = jar.session /\ jar.session = t
  BY <1>2 DEF SetCookies, Jar
<1>8. sess \in [Token -> Session] /\ (t # None => sess[t].state = "live")
  BY <1>2 DEF Session
<1>9. req \in [Slot -> Request]
  BY <1>1, BlankType DEF Init
<1>10. TypeOK
  BY <1>3, <1>6, <1>7, <1>8, <1>9 DEF Init, TypeOK
<1>11. \A s \in Slot : /\ ~InFlight(s) /\ req[s].stage = "idle" /\ req[s].sets = "keep"
                       /\ req[s].cookie = None /\ req[s].tenant = None /\ req[s].landed = None
                       /\ req[s].status = "none" /\ req[s].doc = Blank /\ req[s].route = None
  BY <1>1 DEF NoRequest, NewRequest, InFlight
<1>12. Documents
  BY <1>6, <1>11, BlankType DEF Documents
<1>13. CookiesAreUsed
  BY <1>7, <1>8, <1>11 DEF CookiesAreUsed, Used
<1>14. Issued
  BY <1>11, TokenAssumption DEF Issued
<1>15. SignedOutForGood
  BY NoneAssumption, RoutesDeclare DEF Init, SignedOutForGood
<1>16. ARotationIsFollowed
  BY <1>7, <1>8 DEF ARotationIsFollowed
<1>17. Twins /\ HeadersAreRead /\ CsrfRefusesOnlyStraddlers /\ ActionsLandWhereShown /\ Together
  BY <1>7, <1>11 DEF Twins, HeadersAreRead, CsrfRefusesOnlyStraddlers, ActionsLandWhereShown, Together
<1>18. Principals /\ LogoutsClear /\ SwitchesNameOrganizations /\ Unjudged
  BY <1>11, NoneAssumption DEF Principals, LogoutsClear, SwitchesNameOrganizations, Routes, Unjudged
<1> QED BY <1>10, <1>12, <1>13, <1>14, <1>15, <1>16, <1>17, <1>18 DEF IInv

-----------------------------------------------------------------------------
(* The shapes of a step. *)

\* What of a request is fixed when a screen composes it.
Fixed(x) ==
    /\ req'[x].route = req[x].route /\ req'[x].tab = req[x].tab /\ req'[x].path = req[x].path
    /\ req'[x].target = req[x].target /\ req'[x].csrf = req[x].csrf /\ req'[x].began = req[x].began

\* A request that a step leaves where it is.
Stays(x) ==
    /\ Fixed(x)
    /\ req'[x].stage = req[x].stage /\ req'[x].cookie = req[x].cookie
    /\ req'[x].tenant = req[x].tenant /\ req'[x].role = req[x].role
    /\ req'[x].status = req[x].status /\ req'[x].sets = req[x].sets
    /\ req'[x].doc = req[x].doc /\ req'[x].landed = req[x].landed

\* Sessions go forward: what is in use stays in use, in its organisation.
SessionsGoOn ==
    /\ sess' \in [Token -> Session]
    /\ \A t \in Token : Used(t) => Used(t)' /\ sess'[t].org = sess[t].org

\* A field that is not looked at may change.
LEMMA StaysOrListens ==
    ASSUME NEW x \in Slot, req \in [Slot -> Request], NEW b \in BOOLEAN,
           \/ req'[x] = [req[x] EXCEPT !.heard = b]
           \/ req'[x] = [req[x] EXCEPT !.alone = b]
           \/ req'[x] = req[x]
    PROVE  Stays(x) /\ req'[x] \in Request
BY DEF Stays, Fixed, Request

\* A request that is composed takes its slot and stays there.
LEMMA ComposeShape ==
    ASSUME IInv, NEW s \in Slot, NEW t \in Tab \cup {None}, NEW route \in DOMAIN Routes,
           NEW path \in Org \cup {None}, NEW target \in Token \cup Org \cup {None},
           Compose(s, t, route, path, target)
    PROVE  /\ req' \in [Slot -> Request]
           /\ req[s].stage = "idle"
           /\ req'[s].stage \in {"composed", "sent"}
           /\ req'[s].route = route /\ req'[s].tab = t /\ req'[s].target = target
           /\ Routes[route].unsafe => req'[s].csrf = jar.csrf
           /\ req'[s].began = jar.session
           /\ req'[s].cookie \in {None, jar.session}
           /\ Routes[route].unsafe => req'[s].cookie = None
           /\ req'[s].tenant = None /\ req'[s].status = "none" /\ req'[s].sets = "keep"
           /\ req'[s].doc = Blank /\ req'[s].landed = None
           /\ req'[s].alone <=> Quiet
           /\ \A x \in Slot \ {s} : /\ Stays(x)
                                    /\ req'[x].alone <=> req[x].alone /\ ~InFlight(x)
<1> DEFINE now == ~Routes[route].unsafe
           stage == IF now THEN "sent" ELSE "composed"
           cookie == IF now THEN jar.session ELSE None
           header == Header(route)
           quiet == Quiet
           new == NewRequest(stage, route, t, path, target, header, cookie, jar.session, quiet)
<1>1. /\ req \in [Slot -> Request] /\ jar \in Jar
      /\ jar.session \in Token \cup {None} /\ jar.csrf \in Token \cup {None}
  BY DEF IInv, TypeOK, Jar
<1>2. /\ req[s].stage = "idle"
      /\ req' = [x \in Slot |-> IF x = s THEN new ELSE [req[x] EXCEPT !.alone = @ /\ ~InFlight(x)]]
  BY DEF Compose, At
<1>3. /\ quiet \in BOOLEAN
      /\ header \in Token \cup {None} /\ (Routes[route].unsafe => header = jar.csrf)
      /\ stage \in {"composed", "sent"}
      /\ cookie \in Token \cup {None} /\ cookie \in {None, jar.session}
      /\ Routes[route].unsafe => cookie = None
  BY <1>1 DEF Quiet, Header
<1>4. /\ new \in Request
      /\ new.stage = stage /\ new.route = route /\ new.tab = t /\ new.target = target
      /\ new.csrf = header
      /\ new.began = jar.session /\ new.cookie = cookie
      /\ new.tenant = None /\ new.status = "none" /\ new.sets = "keep"
      /\ new.doc = Blank /\ new.landed = None /\ new.alone = quiet
  <2> HIDE DEF stage, cookie, header, quiet
  <2>1. new \in Request
    BY <1>1, <1>3, BlankType DEF NewRequest, Request
  <2> QED BY <2>1 DEF NewRequest
<1>5. ASSUME NEW x \in Slot \ {s}
      PROVE  req'[x] \in Request /\ Stays(x) /\ (req'[x].alone <=> req[x].alone /\ ~InFlight(x))
  <2>1. req'[x] = [req[x] EXCEPT !.alone = req[x].alone /\ ~InFlight(x)]
    BY <1>2
  <2>2. (req[x].alone /\ ~InFlight(x)) \in BOOLEAN /\ req[x] \in Request
    BY <1>1 DEF Request, InFlight
  <2> QED BY <1>1, <2>1, <2>2, StaysOrListens DEF Request
<1>6. req'[s] = new /\ req' \in [Slot -> Request]
  BY <1>2, <1>4, <1>5
<1> HIDE DEF new, stage, cookie, header
<1> QED BY <1>2, <1>3, <1>4, <1>5, <1>6

\* A screen that sends keeps the invariant, and so does another site's page.
LEMMA ComposeKeepsIInv ==
    ASSUME IInv, NEW s \in Slot, NEW t \in Tab \cup {None}, NEW route \in DOMAIN Routes,
           NEW path \in Org \cup {None}, NEW target \in Token \cup Org \cup {None},
           route = "switch" => target \in Org \cup {None},
           Compose(s, t, route, path, target)
    PROVE  IInv'
<1>0. /\ TypeOK /\ SwitchesNameOrganizations /\ Unjudged
      /\ Twins /\ HeadersAreRead /\ CsrfRefusesOnlyStraddlers
      /\ ActionsLandWhereShown
      /\ CookiesAreUsed /\ Principals /\ Documents
      /\ Together /\ LogoutsClear /\ SignedOutForGood
      /\ Issued /\ ARotationIsFollowed
  BY DEF IInv
<1>1. /\ req' \in [Slot -> Request]
      /\ req[s].stage = "idle"
      /\ req'[s].stage \in {"composed", "sent"}
      /\ req'[s].route = route /\ req'[s].tab = t /\ req'[s].target = target
      /\ Routes[route].unsafe => req'[s].csrf = jar.csrf
      /\ req'[s].began = jar.session
      /\ req'[s].cookie \in {None, jar.session}
      /\ Routes[route].unsafe => req'[s].cookie = None
      /\ req'[s].tenant = None /\ req'[s].status = "none" /\ req'[s].sets = "keep"
      /\ req'[s].doc = Blank /\ req'[s].landed = None
      /\ req'[s].alone <=> Quiet
      /\ \A x \in Slot \ {s} : /\ Stays(x)
                               /\ req'[x].alone <=> req[x].alone /\ ~InFlight(x)
  BY ComposeShape
<1>2. /\ UNCHANGED <<race, jar, sess, account, tab, lost, misled>>
      /\ out' = IF t # None /\ route \in {"login", "mfaVerify"} THEN None ELSE out
  BY DEF Compose
<1>3. TypeOK'
  BY <1>0, <1>1, <1>2 DEF TypeOK
<1>4. Twins'
  BY <1>0, <1>2 DEF Twins
<1>5. HeadersAreRead'
  BY <1>0, <1>1, <1>2 DEF HeadersAreRead, Twins, Stays, Fixed, InFlight
<1>6. CsrfRefusesOnlyStraddlers' /\ ActionsLandWhereShown' /\ LogoutsClear'
  BY <1>0, <1>1 DEF CsrfRefusesOnlyStraddlers, ActionsLandWhereShown, LogoutsClear, Stays, Fixed
<1>7. CookiesAreUsed'
  BY <1>0, <1>1, <1>2 DEF CookiesAreUsed, Used, Stays
<1>8. Principals'
  BY <1>0, <1>1, <1>2 DEF Principals, Stays, Fixed
<1>9. Documents'
  BY <1>0, <1>1, <1>2, BlankType DEF Documents, Stays, OfOneOrganization
<1>10. Together'
  BY <1>0, <1>1 DEF Together, InFlight, Stays, Quiet
<1>11. SignedOutForGood'
  <2> SUFFICES ASSUME out' = "logout" PROVE jar' = EmptyJar /\ \A x \in Slot : InFlight(x)' => Harmless(x)'
    BY DEF SignedOutForGood
  <2>1. out = "logout" /\ (route \in {"login", "mfaVerify"} => t = None)
    BY <1>2, NoneAssumption, RoutesDeclare
  <2>2. jar = EmptyJar /\ \A x \in Slot : InFlight(x) => Harmless(x)
    BY <1>0, <2>1 DEF SignedOutForGood
  <2>3. Harmless(s)'
    BY <1>1, <2>1, <2>2 DEF Harmless, EmptyJar
  <2>4. \A x \in Slot \ {s} : InFlight(x)' => Harmless(x)'
    BY <1>1, <2>2 DEF Harmless, InFlight, Stays, Fixed
  <2> QED BY <1>2, <2>2, <2>3, <2>4
<1>12. Issued'
  BY <1>0, <1>1, <1>2, TokenAssumption, NoneAssumption DEF Issued, Stays
<1>13. ARotationIsFollowed'
  BY <1>0, <1>1, <1>2 DEF ARotationIsFollowed, At, Stays
<1>14. SwitchesNameOrganizations' /\ Unjudged'
  BY <1>0, <1>1 DEF SwitchesNameOrganizations, Unjudged, Stays, Fixed
<1> QED BY <1>3, <1>4, <1>5, <1>6, <1>7, <1>8, <1>9, <1>10, <1>11, <1>12, <1>13, <1>14 DEF IInv

-----------------------------------------------------------------------------
(* One request moves. *)

Fields == {"stage", "route", "tab", "path", "target", "csrf", "cookie", "tenant", "role",
           "heard", "status", "sets", "doc", "list", "pending", "landed", "began", "alone"}

\* q is r but for what is in `changed`.
SameBut(q, r, changed) == \A f \in Fields \ changed : q[f] = r[f]

Moves(s, changed) ==
    /\ req' \in [Slot -> Request]
    /\ \A x \in Slot \ {s} : req'[x] = req[x]
    /\ SameBut(req'[s], req[s], changed)

\* A function that changes at one place.
LEMMA OneMoves ==
    ASSUME NEW s \in Slot, req \in [Slot -> Request], NEW q \in Request, NEW changed,
           SameBut(q, req[s], changed), req' = [req EXCEPT ![s] = q]
    PROVE  Moves(s, changed) /\ req'[s] = q
<1>1. req'[s] = q /\ \A x \in Slot \ {s} : req'[x] = req[x]
  OBVIOUS
<1>2. req' \in [Slot -> Request]
  OBVIOUS
<1> QED BY <1>1, <1>2 DEF Moves

\* A request as it leaves.
LEMMA SentShape ==
    ASSUME NEW s \in Slot, req \in [Slot -> Request], NEW cookie \in Token \cup {None},
           req' = [To(s, "sent") EXCEPT ![s].cookie = cookie]
    PROVE  /\ Moves(s, {"stage", "cookie"})
           /\ req'[s].stage = "sent" /\ req'[s].cookie = cookie
<1> DEFINE r == req[s]
           r1 == [r EXCEPT !.stage = "sent"]
           q == [r1 EXCEPT !.cookie = cookie]
<1>1. r \in Request
  OBVIOUS
<1>2. req' = [req EXCEPT ![s] = q]
  BY DEF To
<1> HIDE DEF r
<1>3. r1 \in Request
  BY <1>1 DEF Request
<1>4. SameBut(q, r, {"stage", "cookie"}) /\ q.stage = "sent" /\ q.cookie = cookie
  BY <1>1 DEF Request, SameBut, Fields
<1> HIDE DEF r1
<1>5. q \in Request
  BY <1>3 DEF Request
<1> HIDE DEF q
<1>6. SameBut(q, req[s], {"stage", "cookie"})
  BY <1>4 DEF r
<1> QED BY <1>2, <1>4, <1>5, <1>6, OneMoves

\* A request's stage may be replaced by another.
LEMMA StageStays ==
    ASSUME NEW r \in Request, NEW v \in {"idle", "composed", "sent", "admitted", "answered", "done"}
    PROVE  [r EXCEPT !.stage = v] \in Request
BY DEF Request
\* Its status may be.
LEMMA StatusStays ==
    ASSUME NEW r \in Request, NEW v \in {"none", "ok", "expired", "forged", "refused"}
    PROVE  [r EXCEPT !.status = v] \in Request
BY DEF Request
\* The organisation it is resolved to may be.
LEMMA TenantStays ==
    ASSUME NEW r \in Request, NEW v \in Org \cup {None} PROVE [r EXCEPT !.tenant = v] \in Request
BY DEF Request
\* The role it is resolved to may be.
LEMMA RoleStays ==
    ASSUME NEW r \in Request, NEW v \in SYSTEM_ROLES \cup {None}
    PROVE  [r EXCEPT !.role = v] \in Request
BY DEF Request
\* What its answer does to the cookies may be.
LEMMA SetsStays ==
    ASSUME NEW r \in Request, NEW v \in Token \cup {"keep", "clear"}
    PROVE  [r EXCEPT !.sets = v] \in Request
BY DEF Request

-----------------------------------------------------------------------------
(* The browser's own steps, and the guards. *)

\* A request leaves the browser with the cookie there is.
LEMMA SendKeepsIInv == ASSUME IInv, NEW s \in Slot, Send(s) PROVE IInv'
<1>0. /\ TypeOK /\ SwitchesNameOrganizations /\ Unjudged
      /\ Twins /\ HeadersAreRead /\ CsrfRefusesOnlyStraddlers
      /\ ActionsLandWhereShown
      /\ CookiesAreUsed /\ Principals /\ Documents
      /\ Together /\ LogoutsClear /\ SignedOutForGood
      /\ Issued /\ ARotationIsFollowed
  BY DEF IInv
<1> DEFINE cookie == IF req[s].tab = None THEN None ELSE jar.session
<1>1. /\ req[s].stage = "composed" /\ req' = [To(s, "sent") EXCEPT ![s].cookie = cookie]
      /\ UNCHANGED <<race, jar, sess, account, tab, lost, misled, out>>
  BY DEF Send, At
<1>2. req \in [Slot -> Request] /\ cookie \in Token \cup {None} /\ cookie \in {None, jar.session}
  BY <1>0 DEF TypeOK, Jar
<1> HIDE DEF cookie
<1>3. /\ Moves(s, {"stage", "cookie"})
      /\ req'[s].stage = "sent" /\ req'[s].cookie = cookie
  BY <1>1, <1>2, SentShape
<1>4. /\ req' \in [Slot -> Request] /\ \A x \in Slot \ {s} : req'[x] = req[x]
      /\ Fixed(s) /\ req'[s].tenant = req[s].tenant /\ req'[s].role = req[s].role
      /\ req'[s].status = req[s].status /\ req'[s].sets = req[s].sets /\ req'[s].doc = req[s].doc
      /\ req'[s].landed = req[s].landed /\ req'[s].alone = req[s].alone
  BY <1>3 DEF Moves, SameBut, Fields, Fixed
<1>5. TypeOK' /\ Twins' /\ SwitchesNameOrganizations' /\ Unjudged'
  BY <1>0, <1>1, <1>3, <1>4 DEF TypeOK, Twins, SwitchesNameOrganizations, Unjudged, Fixed
<1>6. HeadersAreRead' /\ ActionsLandWhereShown' /\ Documents' /\ Together'
  BY <1>0, <1>1, <1>3, <1>4 DEF HeadersAreRead, ActionsLandWhereShown, Documents, Together, InFlight, Fixed
<1>7. CsrfRefusesOnlyStraddlers'
  <2>1. req[s].status # "forged"
    BY <1>0, <1>1, <1>3, <1>4 DEF Unjudged
  <2> QED BY <1>0, <1>4, <2>1 DEF CsrfRefusesOnlyStraddlers
<1>8. CookiesAreUsed' /\ Principals' /\ LogoutsClear'
  BY <1>0, <1>1, <1>2, <1>3, <1>4 DEF CookiesAreUsed, Used, Principals, LogoutsClear
<1>9. SignedOutForGood'
  BY <1>0, <1>1, <1>2, <1>3, <1>4 DEF SignedOutForGood, Harmless, InFlight, EmptyJar, Fixed
<1>10. Issued'
  BY <1>0, <1>1, <1>2, <1>3, <1>4, NoneAssumption DEF Issued
<1>11. ARotationIsFollowed'
  BY <1>0, <1>1, <1>3, <1>4 DEF ARotationIsFollowed, At
<1> QED BY <1>5, <1>6, <1>7, <1>8, <1>9, <1>10, <1>11 DEF IInv

\* What the guards decide, and what they have established of a request they admit.
LEMMA VerdictMeans ==
    ASSUME IInv, NEW s \in Slot, req[s].stage = "sent"
    PROVE  /\ Verdict(req[s]) \in {"none", "expired", "forged", "refused"}
           /\ TenantOf(req[s]) \in Org \cup {None}
           /\ RoleIn(TenantOf(req[s])) \in SYSTEM_ROLES \cup {None}
           /\ TenantOf(req[s]) # None =>
                /\ RoleIn(TenantOf(req[s])) # None
                /\ req[s].cookie # None /\ sess[req[s].cookie].org = TenantOf(req[s])
           /\ Verdict(req[s]) = "none" =>
                /\ Routes[req[s].route].access # "public" => req[s].cookie # None
                /\ "same-site" \in Routes[req[s].route].flags => req[s].tab # None
           /\ Verdict(req[s]) = "forged" => req[s].tab = None \/ req[s].began # req[s].cookie
<1>1. /\ sess \in [Token -> Session] /\ account \in Account /\ req[s] \in Request
      /\ req[s].cookie \in Token \cup {None}
  BY DEF IInv, TypeOK, Request
<1>2. /\ TenantOf(req[s]) \in Org \cup {None}
      /\ TenantOf(req[s]) # None =>
           /\ req[s].cookie # None /\ sess[req[s].cookie].org = TenantOf(req[s])
           /\ account.role[TenantOf(req[s])] # None
  BY <1>1 DEF TenantOf, Live, Resolved, Session
<1>3. /\ RoleIn(TenantOf(req[s])) \in SYSTEM_ROLES \cup {None}
      /\ TenantOf(req[s]) # None => RoleIn(TenantOf(req[s])) # None
  BY <1>1, <1>2 DEF RoleIn, Account
<1>4. Verdict(req[s]) \in {"none", "expired", "forged", "refused"}
  BY DEF Verdict
<1>5. ASSUME Verdict(req[s]) = "none"
      PROVE  ~Unauthenticated(req[s]) /\ ~CrossSiteRefuses(req[s])
  BY <1>5 DEF Verdict
<1>6. ASSUME Verdict(req[s]) = "forged" PROVE CsrfRefuses(req[s])
  BY <1>6 DEF Verdict
<1>7. Verdict(req[s]) = "forged" => req[s].tab = None \/ req[s].began # req[s].cookie
  BY <1>6 DEF CsrfRefuses, Declared, IInv, HeadersAreRead, InFlight
<1> QED BY <1>2, <1>3, <1>4, <1>5, <1>7 DEF Unauthenticated, CrossSiteRefuses, Live, Declared

\* What the guards leave of a request.
LEMMA AdmitShape ==
    ASSUME IInv, NEW s \in Slot, Admit(s)
    PROVE  /\ req[s].stage = "sent"
           /\ Moves(s, {"stage", "status", "tenant", "role"})
           /\ req'[s].stage = IF Verdict(req[s]) = "none" THEN "admitted" ELSE "answered"
           /\ req'[s].status = Verdict(req[s])
           /\ req'[s].tenant = TenantOf(req[s]) /\ req'[s].role = RoleIn(TenantOf(req[s]))
<1> DEFINE verdict == Verdict(req[s])  tenant == TenantOf(req[s])  role == RoleIn(TenantOf(req[s]))
           stage == IF verdict = "none" THEN "admitted" ELSE "answered"
           r == req[s]
           r1 == [r EXCEPT !.stage = stage]
           r2 == [r1 EXCEPT !.status = verdict]
           r3 == [r2 EXCEPT !.tenant = tenant]
           q == [r3 EXCEPT !.role = role]
<1>1. /\ r.stage = "sent" /\ req' = [req EXCEPT ![s] = q]
  BY DEF Admit, At
<1>2. /\ verdict \in {"none", "expired", "forged", "refused"}
      /\ tenant \in Org \cup {None} /\ role \in SYSTEM_ROLES \cup {None}
      /\ stage \in {"admitted", "answered"}
  BY <1>1, VerdictMeans
<1>3. req \in [Slot -> Request] /\ r \in Request
  BY DEF IInv, TypeOK
<1> SUFFICES /\ Moves(s, {"stage", "status", "tenant", "role"})
             /\ req'[s].stage = stage /\ req'[s].status = verdict
             /\ req'[s].tenant = tenant /\ req'[s].role = role
  BY <1>1
<1> HIDE DEF verdict, tenant, role, stage, r
<1>4. /\ SameBut(q, r, {"stage", "status", "tenant", "role"})
      /\ q.stage = stage /\ q.status = verdict /\ q.tenant = tenant /\ q.role = role
  BY ONLY <1>3 DEF Request, SameBut, Fields
<1>5. r1 \in Request
  BY <1>2, <1>3, StageStays
<1> HIDE DEF r1
<1>6. r2 \in Request
  BY <1>2, <1>5, StatusStays
<1> HIDE DEF r2
<1>7. r3 \in Request
  BY <1>2, <1>6, TenantStays
<1> HIDE DEF r3
<1>8. q \in Request
  BY <1>2, <1>7, RoleStays
<1> HIDE DEF q
<1>9. SameBut(q, req[s], {"stage", "status", "tenant", "role"})
  BY <1>4 DEF r
<1> QED BY <1>1, <1>3, <1>4, <1>8, <1>9, OneMoves

\* The guards keep the invariant.
LEMMA AdmitKeepsIInv == ASSUME IInv, NEW s \in Slot, Admit(s) PROVE IInv'
<1>0. /\ TypeOK /\ SwitchesNameOrganizations /\ Unjudged
      /\ Twins /\ HeadersAreRead /\ CsrfRefusesOnlyStraddlers
      /\ ActionsLandWhereShown
      /\ CookiesAreUsed /\ Principals /\ Documents
      /\ Together /\ LogoutsClear /\ SignedOutForGood
      /\ Issued /\ ARotationIsFollowed
  BY DEF IInv
<1> DEFINE verdict == Verdict(req[s])  tenant == TenantOf(req[s])  role == RoleIn(TenantOf(req[s]))
           stage == IF verdict = "none" THEN "admitted" ELSE "answered"
<1>1. req[s].stage = "sent"
  BY AdmitShape
<1>2. /\ verdict \in {"none", "expired", "forged", "refused"}
      /\ tenant \in Org \cup {None} /\ role \in SYSTEM_ROLES \cup {None}
      /\ tenant # None => /\ role # None
                          /\ req[s].cookie # None /\ sess[req[s].cookie].org = tenant
      /\ verdict = "none" =>
           /\ Routes[req[s].route].access # "public" => req[s].cookie # None
           /\ "same-site" \in Routes[req[s].route].flags => req[s].tab # None
      /\ verdict = "forged" => req[s].tab = None \/ req[s].began # req[s].cookie
      /\ stage \in {"admitted", "answered"} /\ (stage = "admitted" <=> verdict = "none")
  BY <1>1, VerdictMeans
<1>3. /\ Moves(s, {"stage", "status", "tenant", "role"})
      /\ req'[s].stage = stage /\ req'[s].status = verdict
      /\ req'[s].tenant = tenant /\ req'[s].role = role
  BY AdmitShape
<1> HIDE DEF verdict, tenant, role, stage
<1>4. /\ req[s].stage = "sent" /\ UNCHANGED <<race, jar, sess, account, tab, lost, misled, out>>
      /\ req' \in [Slot -> Request] /\ \A x \in Slot \ {s} : req'[x] = req[x]
      /\ Fixed(s) /\ req'[s].cookie = req[s].cookie
      /\ req'[s].sets = req[s].sets /\ req'[s].doc = req[s].doc
      /\ req'[s].landed = req[s].landed /\ req'[s].alone = req[s].alone
  BY <1>3 DEF Moves, SameBut, Fields, Fixed, Admit, At
<1>5. TypeOK' /\ Twins' /\ SwitchesNameOrganizations' /\ Unjudged'
  BY <1>0, <1>2, <1>3, <1>4 DEF TypeOK, Twins, SwitchesNameOrganizations, Unjudged, Fixed
<1>6. HeadersAreRead' /\ ActionsLandWhereShown' /\ Documents' /\ Together'
  BY <1>0, <1>2, <1>3, <1>4 DEF HeadersAreRead, ActionsLandWhereShown, Documents, Together, InFlight, Fixed
<1>7. CsrfRefusesOnlyStraddlers' /\ LogoutsClear'
  BY <1>0, <1>2, <1>3, <1>4 DEF CsrfRefusesOnlyStraddlers, LogoutsClear, Fixed
<1>8. CookiesAreUsed' /\ Principals'
  BY <1>0, <1>2, <1>3, <1>4 DEF CookiesAreUsed, Used, Principals, Fixed
<1>9. SignedOutForGood'
  BY <1>0, <1>2, <1>3, <1>4 DEF SignedOutForGood, Harmless, InFlight, Fixed
<1>10. Issued'
  BY <1>0, <1>4, NoneAssumption DEF Issued
<1>11. ARotationIsFollowed'
  BY <1>0, <1>2, <1>3, <1>4 DEF ARotationIsFollowed, At
<1> QED BY <1>5, <1>6, <1>7, <1>8, <1>9, <1>10, <1>11 DEF IInv

-----------------------------------------------------------------------------
(* The handlers. *)

\* What every handler does: it answers its own request, moves sessions forward,
\* and puts in the answer no cookie but of a session it has just issued, to the
\* one who has signed in or was signed in already.
HandlerStep(s) ==
    /\ req[s].stage = "admitted"
    /\ Moves(s, {"stage", "status", "sets", "doc", "list", "pending", "landed"})
    /\ req'[s].stage = "answered" /\ req'[s].status \in {"ok", "expired", "refused"}
    /\ req'[s].landed \in {req[s].landed, req[s].path}
    /\ OfOneOrganization(req'[s].doc)
    /\ req[s].route = "logout" => req'[s].sets = "clear"
    /\ req'[s].sets \in Token =>
         /\ req[s].route \in {"login", "mfaVerify"} \/ Routes[req[s].route].access # "public"
         /\ sess[req'[s].sets].state = "unused" /\ sess'[req'[s].sets].state = "live"
    /\ SessionsGoOn
    /\ \A t \in Token : sess'[t].state = "rotated" =>
         \/ sess[t].state \in {"rotated", "pending"}
         \/ t = req[s].cookie /\ req'[s].sets \in Token
    /\ account' \in Account /\ UNCHANGED race /\ UNCHANGED browser

\* A handler keeps the invariant.
LEMMA HandlerKeepsIInv == ASSUME IInv, NEW s \in Slot, HandlerStep(s) PROVE IInv'
<1>0. /\ TypeOK /\ SwitchesNameOrganizations /\ Unjudged
      /\ Twins /\ HeadersAreRead /\ CsrfRefusesOnlyStraddlers
      /\ ActionsLandWhereShown
      /\ CookiesAreUsed /\ Principals /\ Documents
      /\ Together /\ LogoutsClear /\ SignedOutForGood
      /\ Issued /\ ARotationIsFollowed
  BY DEF IInv
<1>1. /\ req[s].stage = "admitted"
      /\ req'[s].stage = "answered" /\ req'[s].status \in {"ok", "expired", "refused"}
      /\ UNCHANGED <<race, jar, tab, lost, misled, out>>
  BY DEF HandlerStep, browser
<1>2. /\ req' \in [Slot -> Request] /\ \A x \in Slot \ {s} : req'[x] = req[x]
      /\ Fixed(s) /\ req'[s].cookie = req[s].cookie
      /\ req'[s].tenant = req[s].tenant /\ req'[s].role = req[s].role
      /\ req'[s].alone = req[s].alone
  BY DEF HandlerStep, Moves, SameBut, Fields, Fixed
<1>3. SessionsGoOn /\ account' \in Account
  BY DEF HandlerStep
<1>4. req \in [Slot -> Request] /\ sess \in [Token -> Session] /\ jar \in Jar
  BY <1>0 DEF TypeOK
<1>5. \A x \in Slot : req[x].cookie \in Token \cup {None} /\ req[x].sets \in Token \cup {"keep", "clear"}
  BY <1>4 DEF Request
<1>6. TypeOK' /\ Twins' /\ SwitchesNameOrganizations' /\ Unjudged'
  BY <1>0, <1>1, <1>2, <1>3 DEF TypeOK, Twins, SwitchesNameOrganizations, Unjudged, Fixed, SessionsGoOn
<1>7. HeadersAreRead' /\ Together' /\ CsrfRefusesOnlyStraddlers'
  BY <1>0, <1>1, <1>2 DEF HeadersAreRead, Together, InFlight, CsrfRefusesOnlyStraddlers, Fixed
<1>8. ActionsLandWhereShown' /\ LogoutsClear' /\ Documents'
  BY <1>0, <1>1, <1>2 DEF HandlerStep, ActionsLandWhereShown, LogoutsClear, Documents, Fixed
<1>9. CookiesAreUsed'
  BY <1>0, <1>1, <1>2, <1>3, <1>4, <1>5 DEF CookiesAreUsed, SessionsGoOn, Jar
<1>10. Principals'
  BY <1>0, <1>1, <1>2, <1>3, <1>5 DEF Principals, CookiesAreUsed, SessionsGoOn
<1>11. SignedOutForGood'
  <2> SUFFICES ASSUME out' = "logout" PROVE jar' = EmptyJar /\ \A x \in Slot : InFlight(x)' => Harmless(x)'
    BY DEF SignedOutForGood
  <2>1. jar = EmptyJar /\ \A x \in Slot : InFlight(x) => Harmless(x)
    BY <1>0, <1>1 DEF SignedOutForGood
  <2>2. Harmless(s)
    BY <1>1, <2>1 DEF InFlight
  <2>3. req'[s].sets \notin Token
    BY <1>0, <1>1, <2>2, RoutesDeclare DEF HandlerStep, Harmless, Principals
  <2>4. req'[s].sets \in Token \cup {"keep", "clear"}
    BY <1>2 DEF Request
  <2>5. Harmless(s)'
    BY <1>2, <2>2, <2>3, <2>4 DEF Harmless, Fixed
  <2> QED BY <1>1, <1>2, <2>1, <2>5 DEF Harmless, InFlight
<1>12. Issued'
  <2>1. ASSUME NEW x \in Slot, req'[x].sets \in Token
        PROVE  sess'[req'[x].sets].state \in {"live", "revoked"}
    <3>1. CASE x = s
      BY <3>1, <2>1 DEF HandlerStep
    <3>2. CASE x # s
      <4> DEFINE t == req[x].sets
      <4>1. t \in Token /\ req'[x].sets = t
        BY <1>2, <2>1, <3>2
      <4>2. sess[t].state \in {"live", "revoked"} /\ req[s].cookie # t
        BY <1>0, <4>1 DEF Issued
      <4>3. sess'[t].state # "rotated" /\ sess'[t].state \in {"live", "rotated", "revoked"}
        BY <1>3, <4>1, <4>2 DEF HandlerStep, SessionsGoOn, Used
      <4> QED BY <4>1, <4>3
    <3> QED BY <3>1, <3>2
  <2>2. ASSUME req'[s].sets \in Token
        PROVE  /\ jar.session # req'[s].sets
               /\ \A x \in Slot : req[x].cookie # req'[s].sets /\ req[x].sets # req'[s].sets
    <3>1. sess[req'[s].sets].state = "unused" /\ req'[s].sets # None
      BY <2>2, NoneAssumption DEF HandlerStep
    <3> QED BY <1>0, <2>2, <3>1, NoneAssumption DEF CookiesAreUsed, Used, Issued
  <2>3. \A x \in Slot : req'[x].cookie = req[x].cookie
    BY <1>2
  <2> QED BY <1>0, <1>1, <1>2, <2>1, <2>2, <2>3 DEF Issued
<1>13. ARotationIsFollowed'
  <2> SUFFICES ASSUME jar'.session # None, sess'[jar'.session].state = "rotated"
               PROVE  \/ jar'.session \in lost'
                      \/ \E x \in Slot : /\ req'[x].stage = "answered"
                                         /\ req'[x].cookie = jar'.session /\ req'[x].sets \in Token
    BY DEF ARotationIsFollowed, At
  <2> DEFINE t == jar.session
  <2>1. t \in Token /\ sess'[t].state = "rotated" /\ Used(t)
    BY <1>0, <1>1, <1>4 DEF Jar, CookiesAreUsed
  <2>2. CASE sess[t].state = "rotated"
    BY <1>0, <1>1, <1>2, <2>1, <2>2 DEF ARotationIsFollowed, At
  <2>3. CASE sess[t].state # "rotated"
    BY <1>1, <1>2, <2>1, <2>3 DEF HandlerStep, Used
  <2> QED BY <2>2, <2>3
<1> QED BY <1>6, <1>7, <1>8, <1>9, <1>10, <1>11, <1>12, <1>13 DEF IInv

\* The answer of a handler, before what else it carries.
AnsweredAs(r, status, sets) ==
    [r EXCEPT !.stage = "answered", !.status = status, !.sets = sets]

\* An answer changes of a request its stage, its status and its cookies.
LEMMA AnsweredShape ==
    ASSUME NEW r \in Request, NEW status \in {"ok", "expired", "refused"},
           NEW sets \in Token \cup {"keep", "clear"}
    PROVE  /\ AnsweredAs(r, status, sets) \in Request
           /\ SameBut(AnsweredAs(r, status, sets), r, {"stage", "status", "sets"})
           /\ AnsweredAs(r, status, sets).stage = "answered"
           /\ AnsweredAs(r, status, sets).status = status
           /\ AnsweredAs(r, status, sets).sets = sets
<1> DEFINE q == [r EXCEPT !.stage = "answered", !.status = status, !.sets = sets]
<1>1. q = AnsweredAs(r, status, sets)
  BY DEF AnsweredAs
<1>2. q \in Request
  <2> DEFINE r1 == [r EXCEPT !.stage = "answered"]
             r2 == [r1 EXCEPT !.status = status]
             r3 == [r2 EXCEPT !.sets = sets]
  <2>1. r1 \in Request
    BY StageStays
  <2>2. q = r3
    OBVIOUS
  <2> HIDE DEF q, r1
  <2>3. r2 \in Request
    BY <2>1, StatusStays
  <2> HIDE DEF r2
  <2>4. r3 \in Request
    BY <2>3, SetsStays
  <2> HIDE DEF r3
  <2> QED BY <2>2, <2>4
<1>3. /\ SameBut(q, r, {"stage", "status", "sets"})
      /\ q.stage = "answered" /\ q.status = status /\ q.sets = sets
  BY DEF Request, SameBut, Fields
<1> HIDE DEF q
<1> QED BY <1>1, <1>2, <1>3

\* What the answer may carry beside its cookies.
LEMMA CarriedShape ==
    ASSUME NEW r \in Request
    PROVE  /\ \A d \in Document : LET q == [r EXCEPT !.doc = d] IN
                q \in Request /\ SameBut(q, r, {"doc"}) /\ q.doc = d
           /\ \A l \in List : LET q == [r EXCEPT !.list = l] IN
                q \in Request /\ SameBut(q, r, {"list"})
           /\ \A t \in Token \cup {None} : LET q == [r EXCEPT !.pending = t] IN
                q \in Request /\ SameBut(q, r, {"pending"})
           /\ \A o \in Org \cup {None} : LET q == [r EXCEPT !.landed = o] IN
                q \in Request /\ SameBut(q, r, {"landed"}) /\ q.landed = o
<1>1. ASSUME NEW d \in Document
      PROVE  LET q == [r EXCEPT !.doc = d] IN q \in Request /\ SameBut(q, r, {"doc"}) /\ q.doc = d
  BY DEF Request, SameBut, Fields
<1>2. ASSUME NEW l \in List
      PROVE  LET q == [r EXCEPT !.list = l] IN q \in Request /\ SameBut(q, r, {"list"})
  BY DEF Request, SameBut, Fields
<1>3. ASSUME NEW t \in Token \cup {None}
      PROVE  LET q == [r EXCEPT !.pending = t] IN q \in Request /\ SameBut(q, r, {"pending"})
  BY DEF Request, SameBut, Fields
<1>4. ASSUME NEW o \in Org \cup {None}
      PROVE  LET q == [r EXCEPT !.landed = o] IN
             q \in Request /\ SameBut(q, r, {"landed"}) /\ q.landed = o
  BY DEF Request, SameBut, Fields
<1> QED BY <1>1, <1>2, <1>3, <1>4

\* The request's half of a handler's step.
AnswerPart(s, status, sets) ==
    /\ req[s].stage = "admitted"
    /\ Moves(s, {"stage", "status", "sets", "doc", "list", "pending", "landed"})
    /\ req'[s].stage = "answered" /\ req'[s].status = status /\ req'[s].sets = sets
    /\ req'[s].landed \in {req[s].landed, req[s].path}
    /\ OfOneOrganization(req'[s].doc)

\* Carries(s, q): the answer q, or q with a document, a list, a challenge or
\* the organisation that was acted in.
Carries(s, q) ==
    \/ req' = [req EXCEPT ![s] = q]
    \/ \E d \in Document : OfOneOrganization(d) /\ req' = [req EXCEPT ![s] = [q EXCEPT !.doc = d]]
    \/ \E l \in List : req' = [req EXCEPT ![s] = [q EXCEPT !.list = l]]
    \/ \E t \in Token : req' = [req EXCEPT ![s] = [q EXCEPT !.pending = t]]
    \/ req' = [req EXCEPT ![s] = [q EXCEPT !.landed = req[s].path]]

\* An answer is a request answered, with the one thing it carries besides.
LEMMA AnswerShape ==
    ASSUME IInv, NEW s \in Slot, req[s].stage = "admitted",
           NEW status \in {"ok", "expired", "refused"}, NEW sets \in Token \cup {"keep", "clear"},
           Carries(s, AnsweredAs(req[s], status, sets))
    PROVE  AnswerPart(s, status, sets)
<1> DEFINE q == AnsweredAs(req[s], status, sets)
           changed == {"stage", "status", "sets", "doc", "list", "pending", "landed"}
<1>1. req \in [Slot -> Request] /\ req[s].path \in Org \cup {None} /\ OfOneOrganization(req[s].doc)
  BY DEF IInv, TypeOK, Request, Documents
<1>2. /\ q \in Request /\ SameBut(q, req[s], {"stage", "status", "sets"})
      /\ q.stage = "answered" /\ q.status = status /\ q.sets = sets
  BY <1>1, AnsweredShape
<1>3. q.doc = req[s].doc /\ q.landed = req[s].landed
  BY <1>2 DEF SameBut, Fields
<1>4. Carries(s, q)
  OBVIOUS
<1> HIDE DEF q
<1>5. PICK p \in Request : /\ req' = [req EXCEPT ![s] = p]
                           /\ SameBut(p, q, {"doc", "list", "pending", "landed"})
                           /\ OfOneOrganization(p.doc) /\ p.landed \in {req[s].landed, req[s].path}
  <2>1. CASE req' = [req EXCEPT ![s] = q]
    BY <1>1, <1>2, <1>3, <2>1 DEF SameBut
  <2>2. CASE \E d \in Document : OfOneOrganization(d) /\ req' = [req EXCEPT ![s] = [q EXCEPT !.doc = d]]
    <3>1. PICK d \in Document : OfOneOrganization(d) /\ req' = [req EXCEPT ![s] = [q EXCEPT !.doc = d]]
      BY <2>2
    <3> DEFINE p == [q EXCEPT !.doc = d]
    <3>2. p \in Request /\ SameBut(p, q, {"doc"}) /\ p.doc = d
      BY <1>2, CarriedShape
    <3> HIDE DEF p
    <3>3. p.landed = q.landed /\ SameBut(p, q, {"doc", "list", "pending", "landed"})
      BY <3>2 DEF SameBut, Fields
    <3> QED BY <1>3, <3>1, <3>2, <3>3 DEF p
  <2>3. CASE \E l \in List : req' = [req EXCEPT ![s] = [q EXCEPT !.list = l]]
    <3>1. PICK l \in List : req' = [req EXCEPT ![s] = [q EXCEPT !.list = l]]
      BY <2>3
    <3> DEFINE p == [q EXCEPT !.list = l]
    <3>2. p \in Request /\ SameBut(p, q, {"list"})
      BY <1>2, CarriedShape
    <3> HIDE DEF p
    <3>3. p.landed = q.landed /\ p.doc = q.doc /\ SameBut(p, q, {"doc", "list", "pending", "landed"})
      BY <3>2 DEF SameBut, Fields
    <3> QED BY <1>1, <1>3, <3>1, <3>2, <3>3 DEF p
  <2>4. CASE \E t \in Token : req' = [req EXCEPT ![s] = [q EXCEPT !.pending = t]]
    <3>1. PICK t \in Token : req' = [req EXCEPT ![s] = [q EXCEPT !.pending = t]]
      BY <2>4
    <3> DEFINE p == [q EXCEPT !.pending = t]
    <3>2. p \in Request /\ SameBut(p, q, {"pending"})
      BY <1>2, CarriedShape
    <3> HIDE DEF p
    <3>3. p.landed = q.landed /\ p.doc = q.doc /\ SameBut(p, q, {"doc", "list", "pending", "landed"})
      BY <3>2 DEF SameBut, Fields
    <3> QED BY <1>1, <1>3, <3>1, <3>2, <3>3 DEF p
  <2>5. CASE req' = [req EXCEPT ![s] = [q EXCEPT !.landed = req[s].path]]
    <3> DEFINE o == req[s].path  p == [q EXCEPT !.landed = o]
    <3>1. p \in Request /\ SameBut(p, q, {"landed"}) /\ p.landed = o
      BY <1>1, <1>2, CarriedShape
    <3>2. req' = [req EXCEPT ![s] = p]
      BY <2>5
    <3> HIDE DEF p
    <3>3. p.doc = q.doc /\ SameBut(p, q, {"doc", "list", "pending", "landed"})
      BY <3>1 DEF SameBut, Fields
    <3> QED BY <1>1, <1>3, <3>1, <3>2, <3>3
  <2> QED BY <1>4, <2>1, <2>2, <2>3, <2>4, <2>5 DEF Carries
<1>6. SameBut(p, req[s], changed) /\ p.stage = "answered" /\ p.status = status /\ p.sets = sets
  BY <1>2, <1>5 DEF SameBut, Fields
<1>7. Moves(s, changed) /\ req'[s] = p
  BY <1>1, <1>5, <1>6, OneMoves
<1> QED BY <1>5, <1>6, <1>7 DEF AnswerPart

\* Sessions that are revoked, or rotated, go forward; the rest stay.
LEMMA EndedShape ==
    ASSUME sess \in [Token -> Session], NEW tokens, NEW how \in {"rotated", "revoked"}
    PROVE  /\ Ended(tokens, how) \in [Token -> Session]
           /\ \A t \in Token :
                /\ Ended(tokens, how)[t].org = sess[t].org
                /\ Used(t) => Ended(tokens, how)[t].state \in {"live", "rotated", "revoked"}
                /\ Ended(tokens, how)[t].state = "rotated" =>
                     \/ sess[t].state = "rotated"
                     \/ how = "rotated" /\ t \in tokens /\ sess[t].state \in {"live", "pending"}
<1> SUFFICES ASSUME NEW t \in Token
             PROVE  /\ Ended(tokens, how)[t] \in Session
                    /\ Ended(tokens, how)[t].org = sess[t].org
                    /\ Used(t) => Ended(tokens, how)[t].state \in {"live", "rotated", "revoked"}
                    /\ Ended(tokens, how)[t].state = "rotated" =>
                         \/ sess[t].state = "rotated"
                         \/ how = "rotated" /\ t \in tokens /\ sess[t].state \in {"live", "pending"}
  BY DEF Ended
<1>1. sess[t] \in Session
  OBVIOUS
<1> QED BY <1>1 DEF Ended, Session, Used

\* The session half of a handler that only ends sessions, or none.
LEMMA EndingGoesOn ==
    ASSUME IInv, sess' = sess \/ \E tokens : sess' = Ended(tokens, "revoked")
    PROVE  /\ SessionsGoOn
           /\ \A t \in Token : sess'[t].state = "rotated" => sess[t].state = "rotated"
<1>1. sess \in [Token -> Session]
  BY DEF IInv, TypeOK
<1>2. CASE sess' = sess
  BY <1>1, <1>2 DEF SessionsGoOn, Used
<1>3. CASE \E tokens : sess' = Ended(tokens, "revoked")
  BY <1>1, <1>3, EndedShape DEF SessionsGoOn, Used
<1> QED BY <1>2, <1>3

\* The handlers that issue no session.
LEMMA PlainHandlers ==
    ASSUME IInv, NEW s \in Slot,
           \/ Declines(s) \/ LogoutHandled(s) \/ SessionHandled(s) \/ SessionsHandled(s)
           \/ RevokeSessionHandled(s) \/ RevokeOthersHandled(s) \/ ResetHandled(s)
           \/ VerifyEmailHandled(s) \/ FactorHandled(s) \/ JoinHandled(s) \/ ScopedHandled(s)
           \/ OthersHandled(s)
    PROVE  HandlerStep(s)
<1>1. /\ req \in [Slot -> Request] /\ sess \in [Token -> Session] /\ account \in Account
      /\ req[s].cookie \in Token \cup {None} /\ req[s].target \in Token \cup Org \cup {None}
      /\ req[s].path \in Org \cup {None}
      /\ req[s].tenant \in Org \cup {None} /\ req[s].role \in SYSTEM_ROLES \cup {None}
  BY DEF IInv, TypeOK, Request
<1>2. req[s].stage = "admitted" /\ UNCHANGED race /\ UNCHANGED browser
  BY DEF Declines, LogoutHandled, SessionHandled, SessionsHandled, RevokeSessionHandled,
         RevokeOthersHandled, ResetHandled, VerifyEmailHandled, FactorHandled, JoinHandled,
         ScopedHandled, OthersHandled, Handles, At
<1>3. \A status, sets :
        Answer(s, status, sets) = [req EXCEPT ![s] = AnsweredAs(req[s], status, sets)]
  BY <1>1 DEF Answer, To, AnsweredAs
<1>4. \E status \in {"ok", "refused"}, sets \in {"keep", "clear"} :
        /\ Carries(s, AnsweredAs(req[s], status, sets))
        /\ req[s].route = "logout" => sets = "clear"
  <2>1. CASE Declines(s)
    BY <1>3, <2>1 DEF Declines, Handles, Declinable, Carries
  <2>2. CASE LogoutHandled(s)
    BY <1>3, <2>2 DEF LogoutHandled, LogoutCookies, Carries
  <2>3. CASE SessionHandled(s)
    <3> DEFINE d == DocumentFor(req[s].cookie, sess[req[s].cookie].org, req[s].tenant, req[s].role)
               q == AnsweredAs(req[s], "ok", "keep")
    <3>1. /\ req[s].route = "session"
          /\ req' = [Answer(s, "ok", "keep") EXCEPT ![s].doc = d]
      BY <2>3 DEF SessionHandled, Handles
    <3>2. /\ req[s].cookie \in Token
          /\ req[s].tenant # None => req[s].role # None /\ sess[req[s].cookie].org = req[s].tenant
      BY <1>1, <1>2, <3>1, RoutesDeclare DEF IInv, Principals
    <3>3. d \in Document /\ OfOneOrganization(d)
      <4>1. sess[req[s].cookie].org \in Org \cup {None}
        BY <1>1, <3>2 DEF Session
      <4>2. d \in Document /\ d.org = sess[req[s].cookie].org /\ d.of = req[s].tenant
        <5> DEFINE t == req[s].cookie  o == sess[req[s].cookie].org
                   tenant == req[s].tenant  role == req[s].role
        <5>1. /\ t \in Token \cup {None} /\ o \in Org \cup {None} /\ tenant \in Org \cup {None}
              /\ role \in SYSTEM_ROLES \cup {None} /\ (tenant # None => role # None)
          BY <1>1, <3>2, <4>1
        <5>2. d = DocumentFor(t, o, tenant, role)
          OBVIOUS
        <5> HIDE DEF t, o, tenant, role, d
        <5>3. /\ DocumentFor(t, o, tenant, role) \in Document
              /\ DocumentFor(t, o, tenant, role).org = o /\ DocumentFor(t, o, tenant, role).of = tenant
          BY <5>1, RolesPermit DEF DocumentFor, Document
        <5>4. d \in Document /\ d.org = o /\ d.of = tenant
          BY <5>2, <5>3
        <5> QED BY <5>4 DEF o, tenant
      <4> HIDE DEF d
      <4> QED BY <3>2, <4>2 DEF OfOneOrganization
    <3> HIDE DEF d
    <3>4. req' = [req EXCEPT ![s] = [q EXCEPT !.doc = d]]
      <4>1. req' = [[req EXCEPT ![s] = q] EXCEPT ![s].doc = d]
        BY <1>3, <3>1
      <4> HIDE DEF q
      <4> QED BY <1>1, <4>1
    <3>5. Carries(s, q)
      BY <3>3, <3>4 DEF Carries
    <3> QED BY <3>1, <3>5
  <2>4. CASE SessionsHandled(s)
    <3> DEFINE live == {t \in Token : Live(t)}
               l == [current |-> IF req[s].cookie \in live THEN req[s].cookie ELSE None, ids |-> live]
               q == AnsweredAs(req[s], "ok", "keep")
    <3>1. /\ req[s].route = "sessions"
          /\ req' = [Answer(s, "ok", "keep") EXCEPT ![s].list = l]
      BY <2>4 DEF SessionsHandled, Handles
    <3>2. l \in List
      BY DEF List
    <3> HIDE DEF l
    <3>3. req' = [req EXCEPT ![s] = [q EXCEPT !.list = l]]
      <4>1. req' = [[req EXCEPT ![s] = q] EXCEPT ![s].list = l]
        BY <1>3, <3>1
      <4> HIDE DEF q
      <4> QED BY <1>1, <4>1
    <3>4. Carries(s, q)
      BY <3>2, <3>3 DEF Carries
    <3> QED BY <3>1, <3>4
  <2>5. CASE RevokeSessionHandled(s)
    BY <1>3, <2>5 DEF RevokeSessionHandled, Handles, Carries
  <2>6. CASE RevokeOthersHandled(s) \/ ResetHandled(s)
    BY <1>3, <2>6 DEF RevokeOthersHandled, ResetHandled, Handles, Carries
  <2>7. CASE VerifyEmailHandled(s) \/ FactorHandled(s) \/ JoinHandled(s)
    BY <1>3, <2>7 DEF VerifyEmailHandled, FactorHandled, JoinHandled, Handles, Carries
  <2>8. CASE ScopedHandled(s)
    <3> DEFINE q == AnsweredAs(req[s], "ok", "keep")
    <3>1. CASE /\ PathIsActiveTenant(s)
               /\ req' = [Answer(s, "ok", "keep") EXCEPT ![s].landed = req[s].tenant]
      <4>1. req' = [req EXCEPT ![s] = [q EXCEPT !.landed = req[s].path]]
        <5>1. req' = [[req EXCEPT ![s] = q] EXCEPT ![s].landed = req[s].path]
          BY <1>3, <3>1 DEF PathIsActiveTenant
        <5> HIDE DEF q
        <5> QED BY <1>1, <5>1
      <4>2. Carries(s, q)
        BY <4>1 DEF Carries
      <4> QED BY <2>8, <4>2 DEF ScopedHandled, Handles, Scoped
    <3>2. CASE req' = Answer(s, "refused", "keep")
      BY <1>3, <2>8, <3>2 DEF ScopedHandled, Handles, Scoped, Carries
    <3> QED BY <2>8, <3>1, <3>2 DEF ScopedHandled
  <2>9. CASE OthersHandled(s)
    BY <1>3, <2>9 DEF OthersHandled, Handles, Carries
  <2> QED BY <2>1, <2>2, <2>3, <2>4, <2>5, <2>6, <2>7, <2>8, <2>9
<1>5. PICK status \in {"ok", "refused"}, sets \in {"keep", "clear"} :
        /\ AnswerPart(s, status, sets)
        /\ req[s].route = "logout" => sets = "clear"
  BY <1>2, <1>4, AnswerShape
<1>6. /\ SessionsGoOn
      /\ \A t \in Token : sess'[t].state = "rotated" => sess[t].state = "rotated"
  <2>1. sess' = sess \/ \E tokens : sess' = Ended(tokens, "revoked")
    BY <1>1 DEF Declines, LogoutHandled, SessionHandled, SessionsHandled, RevokeSessionHandled,
         RevokeOthersHandled, ResetHandled, VerifyEmailHandled, FactorHandled, JoinHandled,
         ScopedHandled, OthersHandled
  <2> QED BY <2>1, EndingGoesOn
<1>7. account' \in Account
  <2>1. CASE account' = account
    BY <1>1, <2>1
  <2>2. CASE VerifyEmailHandled(s) \/ FactorHandled(s)
    BY <1>1, <2>2 DEF VerifyEmailHandled, FactorHandled, Account
  <2>3. CASE JoinHandled(s)
    BY <1>1, <2>3 DEF JoinHandled, Account, SYSTEM_ROLES, ROLE_PERMISSIONS
  <2> QED BY <2>1, <2>2, <2>3 DEF Declines, LogoutHandled, SessionHandled, SessionsHandled,
         RevokeSessionHandled, RevokeOthersHandled, ResetHandled, ScopedHandled, OthersHandled
<1> QED BY <1>2, <1>5, <1>6, <1>7, TokenAssumption DEF HandlerStep, AnswerPart

\* The session half of a handler that issues a session, over what it leaves.
LEMMA IssuingGoesOn ==
    ASSUME IInv, NEW t \in Token, sess[t].state = "unused", NEW o \in Org \cup {None},
           NEW base \in [Token -> Session],
           \A u \in Token : /\ base[u].org = sess[u].org
                            /\ Used(u) => base[u].state \in {"live", "rotated", "revoked"},
           sess' = [base EXCEPT ![t] = NewSession(t, o)]
    PROVE  /\ SessionsGoOn
           /\ sess'[t].state = "live"
           /\ \A u \in Token : sess'[u].state = "rotated" => base[u].state = "rotated"
<1>1. NewSession(t, o) \in Session /\ NewSession(t, o).state = "live"
  BY DEF NewSession, Session
<1>2. ~Used(t)
  BY DEF Used
<1>3. \A u \in Token : sess'[u] = IF u = t THEN NewSession(t, o) ELSE base[u]
  OBVIOUS
<1>4. sess' \in [Token -> Session]
  BY <1>1
<1> QED BY <1>1, <1>2, <1>3, <1>4 DEF SessionsGoOn, Used

\* The handlers that issue a session: login, the second factor, a switch and a
\* change of password.
LEMMA IssuingHandlers ==
    ASSUME IInv, NEW s \in Slot, NEW t \in Token,
           LoginHandled(s, t) \/ VerifyHandled(s, t) \/ SwitchHandled(s, t) \/ ChangeHandled(s, t)
    PROVE  HandlerStep(s)
<1>1. /\ req \in [Slot -> Request] /\ sess \in [Token -> Session] /\ account \in Account
      /\ req[s].cookie \in Token \cup {None} /\ req[s].target \in Token \cup Org \cup {None}
  BY DEF IInv, TypeOK, Request
<1>2. req[s].stage = "admitted" /\ UNCHANGED race /\ UNCHANGED browser /\ account' \in Account
  BY <1>1 DEF LoginHandled, VerifyHandled, SwitchHandled, ChangeHandled, Handles, At
<1>3. \A status, sets :
        Answer(s, status, sets) = [req EXCEPT ![s] = AnsweredAs(req[s], status, sets)]
  BY <1>1 DEF Answer, To, AnsweredAs
<1>4. ASSUME NEW status \in {"ok", "expired", "refused"}, NEW sets \in {"keep", "clear"},
             Carries(s, AnsweredAs(req[s], status, sets)), req[s].route # "logout",
             SessionsGoOn,
             \A u \in Token : sess'[u].state = "rotated" => sess[u].state \in {"rotated", "pending"}
      PROVE  HandlerStep(s)
  <2>1. AnswerPart(s, status, sets)
    BY <1>2, <1>4, AnswerShape
  <2> QED BY <1>2, <1>4, <2>1, TokenAssumption DEF HandlerStep, AnswerPart
<1>5. ASSUME Carries(s, AnsweredAs(req[s], "ok", t)), req[s].route # "logout",
             req[s].route \in {"login", "mfaVerify"} \/ Routes[req[s].route].access # "public",
             sess[t].state = "unused", sess'[t].state = "live", SessionsGoOn,
             \A u \in Token : sess'[u].state = "rotated" =>
                 sess[u].state \in {"rotated", "pending"} \/ u = req[s].cookie
      PROVE  HandlerStep(s)
  <2>1. AnswerPart(s, "ok", t)
    BY <1>2, <1>5, AnswerShape
  <2> QED BY <1>2, <1>5, <2>1 DEF HandlerStep, AnswerPart
<1>6. CASE LoginHandled(s, t)
  <2>1. req[s].route = "login" /\ sess[t].state = "unused"
    BY <1>6 DEF LoginHandled, Handles
  <2>2. CASE account.factor
    <3> DEFINE q == AnsweredAs(req[s], "ok", "keep")
    <3>1. req' = [req EXCEPT ![s] = [q EXCEPT !.pending = t]]
      <4>1. req' = [[req EXCEPT ![s] = q] EXCEPT ![s].pending = t]
        BY <1>3, <1>6, <2>2 DEF LoginHandled
      <4> HIDE DEF q
      <4> QED BY <1>1, <4>1
    <3>2. Carries(s, q)
      BY <3>1 DEF Carries
    <3>3. sess' = [sess EXCEPT ![t].state = "pending"]
      BY <1>6, <2>2 DEF LoginHandled
    <3>4. \A u \in Token : /\ sess'[u] \in Session /\ sess'[u].org = sess[u].org
                           /\ u # t => sess'[u] = sess[u]
                           /\ sess'[t].state = "pending"
      BY <1>1, <3>3 DEF Session
    <3>5. SessionsGoOn /\ \A u \in Token : sess'[u].state = "rotated" => sess[u].state = "rotated"
      BY <1>1, <2>1, <3>3, <3>4 DEF SessionsGoOn, Used
    <3> QED BY <1>4, <2>1, <3>2, <3>5
  <2>3. CASE ~account.factor
    <3>1. req' = [req EXCEPT ![s] = AnsweredAs(req[s], "ok", t)]
      BY <1>3, <1>6, <2>3 DEF LoginHandled
    <3>2. sess' = [sess EXCEPT ![t] = NewSession(t, None)]
      BY <1>6, <2>3 DEF LoginHandled
    <3>3. /\ SessionsGoOn /\ sess'[t].state = "live"
          /\ \A u \in Token : sess'[u].state = "rotated" => sess[u].state = "rotated"
      BY <1>1, <2>1, <3>2, IssuingGoesOn DEF Used
    <3> QED BY <1>5, <2>1, <3>1, <3>3 DEF Carries
  <2> QED BY <2>2, <2>3
<1>7. CASE VerifyHandled(s, t)
  <2> DEFINE base == Ended({req[s].target}, "rotated")
  <2>1. /\ req[s].route = "mfaVerify" /\ sess[t].state = "unused"
        /\ sess[req[s].target].state = "pending"
        /\ sess' = [base EXCEPT ![t] = NewSession(t, None)]
        /\ req' = Answer(s, "ok", t)
    BY <1>7 DEF VerifyHandled, Handles
  <2>2. /\ base \in [Token -> Session]
        /\ \A u \in Token : /\ base[u].org = sess[u].org
                            /\ Used(u) => base[u].state \in {"live", "rotated", "revoked"}
                            /\ base[u].state = "rotated" =>
                                 sess[u].state = "rotated" \/ u = req[s].target
    BY <1>1, EndedShape
  <2> HIDE DEF base
  <2>3. /\ SessionsGoOn /\ sess'[t].state = "live"
        /\ \A u \in Token : sess'[u].state = "rotated" => base[u].state = "rotated"
    BY <2>1, <2>2, IssuingGoesOn
  <2>4. Carries(s, AnsweredAs(req[s], "ok", t))
    BY <1>3, <2>1 DEF Carries
  <2>5. \A u \in Token : sess'[u].state = "rotated" => sess[u].state \in {"rotated", "pending"}
    BY <2>1, <2>2, <2>3
  <2> QED BY <1>5, <2>1, <2>3, <2>4, <2>5
<1>8. CASE SwitchHandled(s, t)
  <2>1. req[s].route = "switch"
    BY <1>8 DEF SwitchHandled, Handles
  <2>2. CASE \E status \in {"refused", "expired"} : req' = Answer(s, status, "keep") /\ sess' = sess
    <3>1. PICK status \in {"refused", "expired"} : req' = Answer(s, status, "keep") /\ sess' = sess
      BY <2>2
    <3>2. Carries(s, AnsweredAs(req[s], status, "keep"))
      BY <1>3, <3>1 DEF Carries
    <3>3. SessionsGoOn
      BY <3>1, EndingGoesOn
    <3> QED BY <1>4, <2>1, <3>1, <3>2, <3>3
  <2> DEFINE o == req[s].target  base == Ended({req[s].cookie}, "rotated")
             d == SwitchedTo(s, t, o)  q == AnsweredAs(req[s], "ok", t)
  <2>3. CASE /\ o # None /\ Resolved(o) /\ sess[t].state = "unused"
             /\ sess' = [base EXCEPT ![t] = NewSession(t, o)]
             /\ req' = [Answer(s, "ok", t) EXCEPT ![s].doc = d]
    <3>1. o \in Org /\ RoleIn(o) \in SYSTEM_ROLES /\ RoleIn(o) # None
      BY <1>1, <2>1, <2>3 DEF IInv, SwitchesNameOrganizations, Resolved, RoleIn, Account
    <3>2. d \in Document /\ OfOneOrganization(d)
      <4> DEFINE role == RoleIn(o)
      <4> HIDE DEF o, role
      <4> QED BY <3>1, RolesPermit DEF SwitchedTo, DocumentFor, Document, OfOneOrganization, role
    <3>3. req' = [req EXCEPT ![s] = [q EXCEPT !.doc = d]]
      <4>1. req' = [[req EXCEPT ![s] = q] EXCEPT ![s].doc = d]
        BY <1>3, <2>3
      <4> HIDE DEF q, d
      <4> QED BY <1>1, <4>1
    <3>4. Carries(s, q)
      <4> HIDE DEF q, d
      <4> QED BY <3>2, <3>3 DEF Carries
    <3>5. /\ base \in [Token -> Session]
          /\ \A u \in Token : /\ base[u].org = sess[u].org
                              /\ Used(u) => base[u].state \in {"live", "rotated", "revoked"}
                              /\ base[u].state = "rotated" =>
                                   sess[u].state = "rotated" \/ u = req[s].cookie
      BY <1>1, EndedShape
    <3> HIDE DEF base, o
    <3>6. /\ SessionsGoOn /\ sess'[t].state = "live"
          /\ \A u \in Token : sess'[u].state = "rotated" => base[u].state = "rotated"
      BY <2>3, <3>1, <3>5, IssuingGoesOn
    <3> QED BY <1>5, <2>1, <2>3, <3>4, <3>5, <3>6, RoutesDeclare
  <2> QED BY <1>8, <2>2, <2>3 DEF SwitchHandled
<1>9. CASE ChangeHandled(s, t)
  <2>1. req[s].route = "changePassword"
    BY <1>9 DEF ChangeHandled, Handles
  <2> DEFINE cookie == req[s].cookie  others == Ended(Token \ {cookie}, "revoked")
  <2>2. CASE sess' = others /\ req' = Answer(s, "ok", "clear")
    <3>1. Carries(s, AnsweredAs(req[s], "ok", "clear"))
      BY <1>3, <2>2 DEF Carries
    <3>2. SessionsGoOn /\ \A u \in Token : sess'[u].state = "rotated" => sess[u].state = "rotated"
      BY <2>2, EndingGoesOn
    <3> QED BY <1>4, <2>1, <3>1, <3>2
  <2>3. CASE /\ Live(cookie) /\ sess[t].state = "unused"
             /\ sess' = [others EXCEPT ![cookie].state = "rotated", ![t] = NewSession(t, sess[cookie].org)]
             /\ req' = Answer(s, "ok", RotatedTo(t))
    <3> DEFINE base == [others EXCEPT ![cookie].state = "rotated"]  o == sess[cookie].org
    <3>1. /\ cookie \in Token /\ sess[cookie].state = "live" /\ o \in Org \cup {None}
          /\ sess[t].state = "unused"
      BY <1>1, <2>3 DEF Live, Session
    <3>2. /\ others \in [Token -> Session]
          /\ \A u \in Token : /\ others[u].org = sess[u].org
                              /\ Used(u) => others[u].state \in {"live", "rotated", "revoked"}
                              /\ others[u].state = "rotated" => sess[u].state = "rotated"
      BY <1>1, EndedShape
    <3>3. sess' = [base EXCEPT ![t] = NewSession(t, o)]
      <4> DEFINE new == NewSession(t, o)
      <4>1. sess' = [others EXCEPT ![cookie].state = "rotated", ![t] = new]
        BY <2>3
      <4> HIDE DEF others, cookie, new
      <4>2. sess' = [base EXCEPT ![t] = new]
        BY <3>1, <3>2, <4>1
      <4> QED BY <4>2 DEF new
    <3> HIDE DEF others, cookie
    <3>4. /\ base \in [Token -> Session]
          /\ \A u \in Token : /\ base[u].org = sess[u].org
                              /\ Used(u) => base[u].state \in {"live", "rotated", "revoked"}
                              /\ base[u].state = "rotated" => sess[u].state = "rotated" \/ u = cookie
      <4>1. \A u \in Token : /\ base[u] \in Session /\ base[u].org = others[u].org
                             /\ u # cookie => base[u] = others[u]
                             /\ u = cookie => base[u].state = "rotated"
        BY <3>2 DEF Session
      <4>2. base \in [Token -> Session]
        BY <3>2, <4>1
      <4> QED BY <3>2, <4>1, <4>2
    <3> HIDE DEF base, o
    <3>5. /\ SessionsGoOn /\ sess'[t].state = "live"
          /\ \A u \in Token : sess'[u].state = "rotated" => base[u].state = "rotated"
      <4>1. base \in [Token -> Session]
        BY <3>4
      <4>2. \A u \in Token : /\ base[u].org = sess[u].org
                             /\ Used(u) => base[u].state \in {"live", "rotated", "revoked"}
        BY <3>4
      <4>3. sess[t].state = "unused" /\ o \in Org \cup {None}
        BY <3>1
      <4> QED BY ONLY IInv, t \in Token, <3>3, <4>1, <4>2, <4>3, IssuingGoesOn
    <3>6. Carries(s, AnsweredAs(req[s], "ok", t))
      BY <1>3, <2>3 DEF Carries, RotatedTo
    <3> QED BY <1>5, <2>1, <2>3, <3>4, <3>5, <3>6, RoutesDeclare DEF cookie
  <2> QED BY <1>9, <2>2, <2>3 DEF ChangeHandled
<1> QED BY <1>6, <1>7, <1>8, <1>9

-----------------------------------------------------------------------------
(* The answers. *)

\* What every answer does, and the loss of one: its request is over, the
\* cookies are what the answer sets, unless it was lost, and that is recorded.
FinishStep(s) ==
    /\ InFlight(s)
    /\ \E dropped : req' = Over(s, dropped)
    /\ UNCHANGED <<race, sess, account>>
    /\ tab' \in [Tab -> TabState] /\ \A t \in Tab : OfOneOrganization(tab'[t].doc)
    /\ misled' \subseteq Tab /\ lost' \subseteq Token /\ lost \subseteq lost'
    /\ \/ jar' = CookiesAfter(s)
       \/ jar' = jar /\ (req[s].sets \in Token /\ req[s].cookie # None => req[s].cookie \in lost')
    /\ \/ out' \in {out, "revokeSession"}
       \/ /\ out' = "logout" /\ jar' = CookiesAfter(s)
          /\ req[s].stage = "answered" /\ req[s].route = "logout"
          /\ req[s].status = "ok" /\ req[s].alone

\* A request that is over leaves the others where they are.
LEMMA OverShape ==
    ASSUME req \in [Slot -> Request], NEW s \in Slot, NEW dropped, req' = Over(s, dropped)
    PROVE  /\ req' \in [Slot -> Request]
           /\ req'[s].stage = "done" /\ req'[s].cookie = None /\ req'[s].tenant = None
           /\ req'[s].status = "none" /\ req'[s].sets = "keep" /\ req'[s].doc = Blank
           /\ req'[s].landed = None /\ req'[s].route = None
           /\ \A x \in Slot \ {s} : Stays(x) /\ req'[x].alone = req[x].alone
<1> DEFINE done == [NoRequest EXCEPT !.stage = "done"]
<1>1. /\ done \in Request
      /\ done.stage = "done" /\ done.cookie = None /\ done.tenant = None /\ done.status = "none"
      /\ done.sets = "keep" /\ done.doc = Blank /\ done.landed = None /\ done.route = None
  <2>1. done \in Request
    BY BlankType, StageStays
  <2> QED BY <2>1 DEF NoRequest, NewRequest
<1>2. req'[s] = done
  BY DEF Over
<1>3. \A x \in Slot \ {s} : req'[x] = req[x] \/ req'[x] = [req[x] EXCEPT !.heard = FALSE]
  BY DEF Over
<1> HIDE DEF done
<1>4. \A x \in Slot \ {s} : Stays(x) /\ req'[x] \in Request
  BY <1>3, StaysOrListens
<1>5. \A x \in Slot \ {s} : req'[x].alone = req[x].alone
  BY <1>3 DEF Request
<1>6. req' \in [Slot -> Request]
  <2>1. \A x \in Slot : req'[x] \in Request
    BY <1>1, <1>2, <1>4
  <2> QED BY <2>1 DEF Over
<1> QED BY <1>1, <1>2, <1>4, <1>5, <1>6

\* An answer, or its loss, keeps the invariant.
LEMMA FinishKeepsIInv == ASSUME IInv, NEW s \in Slot, FinishStep(s) PROVE IInv'
<1>0. /\ TypeOK /\ SwitchesNameOrganizations /\ Unjudged
      /\ Twins /\ HeadersAreRead /\ CsrfRefusesOnlyStraddlers
      /\ ActionsLandWhereShown
      /\ CookiesAreUsed /\ Principals /\ Documents
      /\ Together /\ LogoutsClear /\ SignedOutForGood
      /\ Issued /\ ARotationIsFollowed
  BY DEF IInv
<1>1. /\ req' \in [Slot -> Request]
      /\ req'[s].stage = "done" /\ req'[s].cookie = None /\ req'[s].tenant = None
      /\ req'[s].status = "none" /\ req'[s].sets = "keep" /\ req'[s].doc = Blank
      /\ req'[s].landed = None /\ req'[s].route = None
      /\ \A x \in Slot \ {s} : Stays(x) /\ req'[x].alone = req[x].alone
  BY <1>0, OverShape DEF FinishStep, TypeOK
<1>2. InFlight(s) /\ UNCHANGED <<race, sess, account>>
  BY DEF FinishStep
<1>3. /\ jar' \in Jar /\ jar'.csrf = jar'.session
      /\ jar' = jar \/ jar' = EmptyJar \/ (jar'.session = req[s].sets /\ req[s].sets \in Token)
  <2>1. CASE jar' = CookiesAfter(s)
    BY <2>1, CookiesAfterType
  <2>2. CASE jar' = jar
    BY <1>0, <2>2 DEF TypeOK, Twins
  <2> QED BY <2>1, <2>2 DEF FinishStep
<1>4. TypeOK' /\ Twins' /\ SwitchesNameOrganizations' /\ Unjudged'
  <2>1. out' \in {None, "logout", "revokeSession"}
    BY <1>0 DEF FinishStep, TypeOK
  <2>2. TypeOK'
    BY <1>0, <1>1, <1>2, <1>3, <2>1 DEF FinishStep, TypeOK
  <2>3. Twins'
    BY <1>3 DEF Twins
  <2>4. None # "switch"
    BY NoneAssumption DEF Routes
  <2> QED BY <1>0, <1>1, <2>2, <2>3, <2>4 DEF SwitchesNameOrganizations, Unjudged, Stays, Fixed
<1>5. HeadersAreRead' /\ CsrfRefusesOnlyStraddlers' /\ ActionsLandWhereShown'
  BY <1>0, <1>1 DEF HeadersAreRead, CsrfRefusesOnlyStraddlers, ActionsLandWhereShown, InFlight,
                    Stays, Fixed
<1>6. Principals'
  BY <1>0, <1>1, <1>2 DEF Principals, Stays, Fixed
<1>7. Documents' /\ Together' /\ LogoutsClear'
  <2>1. Documents'
    BY <1>0, <1>1, BlankType DEF FinishStep, Documents, Stays
  <2>2. Together'
    BY <1>0, <1>1 DEF Together, InFlight, Stays
  <2>3. LogoutsClear'
    BY <1>0, <1>1 DEF LogoutsClear, Stays, Fixed
  <2> QED BY <2>1, <2>2, <2>3
<1>8. CookiesAreUsed'
  <2>1. jar'.session # None => sess[jar'.session].state \in {"live", "rotated", "revoked"}
    BY <1>0, <1>3 DEF CookiesAreUsed, Used, Issued, EmptyJar
  <2> QED BY <1>0, <1>1, <1>2, <2>1 DEF CookiesAreUsed, Used, Stays
<1>9. SignedOutForGood'
  <2> SUFFICES ASSUME out' = "logout" PROVE jar' = EmptyJar /\ \A x \in Slot : InFlight(x)' => Harmless(x)'
    BY DEF SignedOutForGood
  <2>1. ASSUME NEW x \in Slot, InFlight(x)' PROVE x # s /\ InFlight(x) /\ (Harmless(x) => Harmless(x)')
    BY <1>1, <2>1 DEF InFlight, Harmless, Stays, Fixed
  <2>2. CASE out = "logout"
    <3>1. jar = EmptyJar /\ \A x \in Slot : InFlight(x) => Harmless(x)
      BY <1>0, <2>2 DEF SignedOutForGood
    <3>2. req[s].sets \in {"keep", "clear"}
      BY <1>2, <3>1 DEF Harmless
    <3>3. jar' = EmptyJar
      BY <1>3, <3>1, <3>2, TokenAssumption
    <3> QED BY <2>1, <3>1, <3>3
  <2>3. CASE out # "logout"
    <3>1. /\ jar' = CookiesAfter(s)
          /\ req[s].stage = "answered" /\ req[s].route = "logout" /\ req[s].status = "ok" /\ req[s].alone
      BY <2>3 DEF FinishStep
    <3>2. req[s].sets = "clear"
      BY <1>0, <3>1 DEF LogoutsClear
    <3>3. jar' = EmptyJar
      BY <3>1, <3>2 DEF CookiesAfter
    <3>4. \A x \in Slot : InFlight(x) => x = s
      BY <1>0, <1>2, <3>1 DEF Together
    <3> QED BY <2>1, <3>3, <3>4
  <2> QED BY <2>2, <2>3
<1>10. Issued'
  <2> SUFFICES ASSUME NEW x \in Slot, req'[x].sets \in Token
               PROVE  /\ sess[req'[x].sets].state \in {"live", "revoked"}
                      /\ jar'.session # req'[x].sets
                      /\ \A y \in Slot : req'[y].cookie # req'[x].sets
                      /\ \A y \in Slot \ {x} : req'[y].sets # req'[x].sets
    BY <1>2 DEF Issued
  <2> DEFINE t == req[x].sets
  <2>1. x # s /\ req'[x].sets = t /\ t \in Token /\ t # None
    BY <1>1, TokenAssumption, NoneAssumption DEF Stays
  <2>2. /\ sess[t].state \in {"live", "revoked"} /\ jar.session # t
        /\ \A y \in Slot : req[y].cookie # t
        /\ \A y \in Slot \ {x} : req[y].sets # t
    BY <1>0, <2>1 DEF Issued
  <2>3. jar'.session # t
    BY <1>3, <2>1, <2>2 DEF EmptyJar
  <2>4. \A y \in Slot : req'[y].cookie # t /\ (y # x => req'[y].sets # t)
    BY <1>1, <2>1, <2>2, TokenAssumption DEF Stays
  <2> QED BY <2>1, <2>2, <2>3, <2>4
<1>11. ARotationIsFollowed'
  <2> SUFFICES ASSUME jar'.session # None, sess[jar'.session].state = "rotated"
               PROVE  \/ jar'.session \in lost'
                      \/ \E x \in Slot : /\ req'[x].stage = "answered"
                                         /\ req'[x].cookie = jar'.session /\ req'[x].sets \in Token
    BY <1>2 DEF ARotationIsFollowed, At
  <2>1. jar' = jar
    BY <1>0, <1>3 DEF Issued, EmptyJar
  <2>2. CASE jar.session \in lost
    BY <2>1, <2>2 DEF FinishStep
  <2>3. CASE \E x \in Slot : /\ req[x].stage = "answered"
                             /\ req[x].cookie = jar.session /\ req[x].sets \in Token
    <3>1. PICK x \in Slot : /\ req[x].stage = "answered"
                            /\ req[x].cookie = jar.session /\ req[x].sets \in Token
      BY <2>3
    <3>2. CASE x # s
      BY <1>1, <2>1, <3>1, <3>2 DEF Stays
    <3>3. CASE x = s
      <4>1. jar' # CookiesAfter(s)
        <5> SUFFICES ASSUME jar' = CookiesAfter(s) PROVE FALSE
          OBVIOUS
        <5>1. jar'.session = req[s].sets
          BY <3>1, <3>3, CookiesAfterType
        <5> QED BY <1>0, <2>1, <3>1, <3>3, <5>1 DEF Issued
      <4> QED BY <2>1, <3>1, <3>3, <4>1 DEF FinishStep
    <3> QED BY <3>2, <3>3
  <2> QED BY <1>0, <2>1, <2>2, <2>3 DEF ARotationIsFollowed, At
<1> QED BY <1>4, <1>5, <1>6, <1>7, <1>8, <1>9, <1>10, <1>11 DEF IInv

\* What the tabs show stays what a tab may show.
TabsStay == tab' \in [Tab -> TabState] /\ \A t \in Tab : OfOneOrganization(tab'[t].doc)

\* Whatever of a tab an answer replaces.
LEMMA TabsShape ==
    ASSUME IInv, NEW t \in Tab
    PROVE  /\ tab' = tab => TabsStay
           /\ SignOutLocally(t) => TabsStay
           /\ \A error \in {"none", "expired", "failed"} :
                /\ tab' = [tab EXCEPT ![t].error = error] => TabsStay
                /\ \A d \in Document : OfOneOrganization(d) =>
                     /\ tab' = [tab EXCEPT ![t].doc = d, ![t].error = error] => TabsStay
                     /\ tab' = [tab EXCEPT ![t].doc = d, ![t].error = error, ![t].list = NoList] => TabsStay
                /\ tab' = [tab EXCEPT ![t] = [@ EXCEPT !.page = "app", !.error = error]] => TabsStay
                /\ tab' = [tab EXCEPT ![t] = [@ EXCEPT !.page = "app", !.challenge = None,
                                                       !.error = error]] => TabsStay
           /\ tab' = [tab EXCEPT ![t].page = "login"] => TabsStay
           /\ \A l \in List : tab' = [tab EXCEPT ![t].list = l] => TabsStay
           /\ \A u \in Token :
                tab' = [tab EXCEPT ![t] = [@ EXCEPT !.page = "mfa", !.challenge = u]] => TabsStay
<1>1. /\ tab \in [Tab -> TabState] /\ \A u \in Tab : OfOneOrganization(tab[u].doc)
      /\ tab[t] \in TabState
  BY DEF IInv, TypeOK, Documents
<1>2. ASSUME NEW q \in TabState, OfOneOrganization(q.doc), tab' = [tab EXCEPT ![t] = q]
      PROVE  TabsStay
  <2>1. \A u \in Tab : tab'[u] = IF u = t THEN q ELSE tab[u]
    BY <1>1, <1>2
  <2> QED BY <1>1, <1>2, <2>1 DEF TabsStay
<1>3. tab' = tab => TabsStay
  BY <1>1 DEF TabsStay
<1>4. SignOutLocally(t) => TabsStay
  <2> DEFINE q == [page |-> "login", challenge |-> None, doc |-> Blank,
                   error |-> "none", list |-> NoList]
  <2>1. q \in TabState /\ OfOneOrganization(q.doc)
    BY BlankType DEF TabState
  <2> HIDE DEF q
  <2>2. SignOutLocally(t) => tab' = [tab EXCEPT ![t] = q]
    BY DEF SignOutLocally, q
  <2> QED BY <1>2, <2>1, <2>2
<1>5. ASSUME NEW error \in {"none", "expired", "failed"}
      PROVE  /\ tab' = [tab EXCEPT ![t].error = error] => TabsStay
             /\ \A d \in Document : OfOneOrganization(d) =>
                  /\ tab' = [tab EXCEPT ![t].doc = d, ![t].error = error] => TabsStay
                  /\ tab' = [tab EXCEPT ![t].doc = d, ![t].error = error, ![t].list = NoList] => TabsStay
             /\ tab' = [tab EXCEPT ![t] = [@ EXCEPT !.page = "app", !.error = error]] => TabsStay
             /\ tab' = [tab EXCEPT ![t] = [@ EXCEPT !.page = "app", !.challenge = None,
                                                    !.error = error]] => TabsStay
  <2>1. tab' = [tab EXCEPT ![t].error = error] => TabsStay
    <3> DEFINE q == [tab[t] EXCEPT !.error = error]
    <3>1. q \in TabState /\ OfOneOrganization(q.doc)
      BY <1>1 DEF TabState
    <3>2. tab' = [tab EXCEPT ![t].error = error] => tab' = [tab EXCEPT ![t] = q]
      OBVIOUS
    <3> HIDE DEF q
    <3> QED BY <1>2, <3>1, <3>2
  <2>2. ASSUME NEW d \in Document, OfOneOrganization(d)
        PROVE  /\ tab' = [tab EXCEPT ![t].doc = d, ![t].error = error] => TabsStay
               /\ tab' = [tab EXCEPT ![t].doc = d, ![t].error = error, ![t].list = NoList] => TabsStay
    <3> DEFINE q == [tab[t] EXCEPT !.doc = d, !.error = error]
               p == [tab[t] EXCEPT !.doc = d, !.error = error, !.list = NoList]
    <3>1. q \in TabState /\ q.doc = d
      BY <1>1 DEF TabState
    <3>2. p \in TabState /\ p.doc = d
      BY <1>1, BlankType DEF TabState
    <3>3. /\ tab' = [tab EXCEPT ![t].doc = d, ![t].error = error] => tab' = [tab EXCEPT ![t] = q]
          /\ tab' = [tab EXCEPT ![t].doc = d, ![t].error = error, ![t].list = NoList]
               => tab' = [tab EXCEPT ![t] = p]
      OBVIOUS
    <3> HIDE DEF q, p
    <3> QED BY <1>2, <2>2, <3>1, <3>2, <3>3
  <2>3. tab' = [tab EXCEPT ![t] = [@ EXCEPT !.page = "app", !.error = error]] => TabsStay
    <3> DEFINE q == [tab[t] EXCEPT !.page = "app", !.error = error]
    <3>1. q \in TabState /\ OfOneOrganization(q.doc)
      BY <1>1 DEF TabState
    <3>2. tab' = [tab EXCEPT ![t] = [@ EXCEPT !.page = "app", !.error = error]]
            => tab' = [tab EXCEPT ![t] = q]
      OBVIOUS
    <3> HIDE DEF q
    <3> QED BY <1>2, <3>1, <3>2
  <2>4. tab' = [tab EXCEPT ![t] = [@ EXCEPT !.page = "app", !.challenge = None, !.error = error]]
          => TabsStay
    <3> DEFINE q == [tab[t] EXCEPT !.page = "app", !.challenge = None, !.error = error]
    <3>1. q \in TabState /\ OfOneOrganization(q.doc)
      BY <1>1 DEF TabState
    <3>2. tab' = [tab EXCEPT ![t] = [@ EXCEPT !.page = "app", !.challenge = None, !.error = error]]
            => tab' = [tab EXCEPT ![t] = q]
      OBVIOUS
    <3> HIDE DEF q
    <3> QED BY <1>2, <3>1, <3>2
  <2> QED BY <2>1, <2>2, <2>3, <2>4
<1>6. tab' = [tab EXCEPT ![t].page = "login"] => TabsStay
  <2> DEFINE q == [tab[t] EXCEPT !.page = "login"]
  <2>1. q \in TabState /\ OfOneOrganization(q.doc)
    BY <1>1 DEF TabState
  <2>2. tab' = [tab EXCEPT ![t].page = "login"] => tab' = [tab EXCEPT ![t] = q]
    OBVIOUS
  <2> HIDE DEF q
  <2> QED BY <1>2, <2>1, <2>2
<1>7. ASSUME NEW l \in List, tab' = [tab EXCEPT ![t].list = l] PROVE TabsStay
  <2> DEFINE q == [tab[t] EXCEPT !.list = l]
  <2>1. q \in TabState /\ OfOneOrganization(q.doc)
    BY <1>1 DEF TabState
  <2>2. tab' = [tab EXCEPT ![t] = q]
    BY <1>7
  <2> HIDE DEF q
  <2> QED BY <1>2, <2>1, <2>2
<1>8. ASSUME NEW u \in Token, tab' = [tab EXCEPT ![t] = [@ EXCEPT !.page = "mfa", !.challenge = u]]
      PROVE TabsStay
  <2> DEFINE q == [tab[t] EXCEPT !.page = "mfa", !.challenge = u]
  <2>1. q \in TabState /\ OfOneOrganization(q.doc)
    BY <1>1 DEF TabState
  <2>2. tab' = [tab EXCEPT ![t] = q]
    BY <1>8
  <2> HIDE DEF q
  <2> QED BY <1>2, <2>1, <2>2
<1> QED BY <1>3, <1>4, <1>5, <1>6, <1>7, <1>8

\* Every answer is such a step, and so is the loss of one.
LEMMA AnswersFinish ==
    ASSUME IInv, NEW s \in Slot, Answered(s) \/ Lose(s)
    PROVE  FinishStep(s)
<1>1. /\ req[s] \in Request /\ tab \in [Tab -> TabState] /\ lost \subseteq Token /\ misled \subseteq Tab
      /\ req[s].doc \in Document /\ OfOneOrganization(req[s].doc) /\ req[s].list \in List
      /\ req[s].pending \in Token \cup {None} /\ req[s].tab \in Tab \cup {None}
      /\ req[s].cookie \in Token \cup {None}
  <2>1. req[s] \in Request /\ tab \in [Tab -> TabState] /\ lost \subseteq Token /\ misled \subseteq Tab
    BY DEF IInv, TypeOK
  <2> QED BY <2>1 DEF Request, IInv, Documents
<1>2. Overtaken(s) \subseteq Tab
  BY DEF Overtaken
<1>3. ASSUME NEW routes, Arrives(s, routes), TabsStay,
             misled' \subseteq Tab, \E dropped : req' = Over(s, dropped),
             \/ out' \in {out, "revokeSession"}
             \/ /\ out' = "logout" /\ req[s].route = "logout" /\ req[s].status = "ok" /\ req[s].alone
      PROVE  FinishStep(s)
  BY <1>1, <1>3 DEF Arrives, At, InFlight, FinishStep, TabsStay
<1>4. ASSUME NEW routes, Arrives(s, routes) PROVE req[s].tab \in Tab
  BY <1>1, <1>4 DEF Arrives
<1>5. CASE LogoutAnswered(s)
  <2>1. /\ Arrives(s, {"logout"}) /\ SignOutLocally(req[s].tab) /\ req' = Over(s, Reads)
        /\ misled' = misled \cup Overtaken(s) /\ out' = SignedOut(s) /\ req[s].route = "logout"
    BY <1>5 DEF LogoutAnswered, Arrives
  <2>2. TabsStay
    BY <1>4, <2>1, TabsShape
  <2>3. \/ out' \in {out, "revokeSession"}
        \/ out' = "logout" /\ req[s].route = "logout" /\ req[s].status = "ok" /\ req[s].alone
    BY <2>1 DEF SignedOut
  <2> QED BY <1>1, <1>2, <1>3, <2>1, <2>2, <2>3
<1>6. CASE LoginAnswered(s)
  <2> DEFINE t == req[s].tab
  <2>1. /\ Arrives(s, {"login"}) /\ req' = Over(s, {}) /\ out' = out
        /\ misled' = misled \cup Overtaken(s) \cup {t} /\ t \in Tab
    BY <1>4, <1>6 DEF LoginAnswered
  <2>2. TabsStay
    <3>1. PICK error \in {"none", tab[t].error} :
            tab' = [tab EXCEPT ![t] =
                      IF req[s].pending # None
                        THEN [@ EXCEPT !.page = "mfa", !.challenge = req[s].pending]
                        ELSE [@ EXCEPT !.page = "app", !.error = error]]
      BY <1>6 DEF LoginAnswered
    <3>2. error \in {"none", "expired", "failed"}
      BY <1>1, <2>1 DEF TabState
    <3>3. CASE req[s].pending # None
      <4> DEFINE u == req[s].pending
      <4>1. u \in Token /\ tab' = [tab EXCEPT ![t] = [@ EXCEPT !.page = "mfa", !.challenge = u]]
        BY <1>1, <3>1, <3>3
      <4> HIDE DEF u, t
      <4> QED BY <2>1, <4>1, TabsShape
    <3>4. CASE req[s].pending = None
      <4>1. tab' = [tab EXCEPT ![t] = [@ EXCEPT !.page = "app", !.error = error]]
        BY <3>1, <3>4
      <4> HIDE DEF t
      <4> QED BY <2>1, <3>2, <4>1, TabsShape
    <3> QED BY <3>3, <3>4
  <2> QED BY <1>1, <1>2, <1>3, <2>1, <2>2
<1>7. CASE MfaAnswered(s)
  <2> DEFINE t == req[s].tab
  <2>1. /\ Arrives(s, {"mfaVerify"}) /\ req' = Over(s, {}) /\ out' = out
        /\ misled' = misled \cup Overtaken(s) \cup {t} /\ t \in Tab
    BY <1>4, <1>7 DEF MfaAnswered
  <2>2. TabsStay
    <3>1. PICK error \in {"none", tab[t].error} :
            tab' = [tab EXCEPT ![t] = [@ EXCEPT !.page = "app", !.challenge = None, !.error = error]]
      BY <1>7 DEF MfaAnswered
    <3>2. error \in {"none", "expired", "failed"}
      BY <1>1, <2>1 DEF TabState
    <3> HIDE DEF t
    <3> QED BY <2>1, <3>1, <3>2, TabsShape
  <2> QED BY <1>1, <1>2, <1>3, <2>1, <2>2
<1>8. CASE SessionAnswered(s)
  <2> DEFINE t == req[s].tab
  <2>1. Arrives(s, {"session"}) /\ req' = Over(s, {}) /\ out' = out /\ t \in Tab
    BY <1>4, <1>8 DEF SessionAnswered
  <2>2. misled' \subseteq Tab
    BY <1>1, <1>8, <2>1 DEF SessionAnswered
  <2>3. TabsStay
    <3> DEFINE d == req[s].doc
               error == IF req[s].status = "expired" THEN "expired" ELSE "failed"
    <3>1. \/ tab' = tab
          \/ tab' = [tab EXCEPT ![t].doc = d, ![t].error = "none"]
          \/ tab' = [tab EXCEPT ![t].error = error]
      BY <1>8 DEF SessionAnswered
    <3>2. d \in Document /\ OfOneOrganization(d) /\ error \in {"none", "expired", "failed"}
      BY <1>1
    <3> HIDE DEF t, d, error
    <3> QED BY <2>1, <3>1, <3>2, TabsShape
  <2> QED BY <1>3, <2>1, <2>2, <2>3
<1>9. CASE SwitchAnswered(s)
  <2> DEFINE t == req[s].tab  d == req[s].doc
  <2>1. /\ Arrives(s, {"switch"}) /\ req' = Over(s, {"sessions"}) /\ out' = out
        /\ misled' = (misled \cup Overtaken(s)) \ {t} /\ t \in Tab
        /\ tab' = [tab EXCEPT ![t].doc = d, ![t].error = "none", ![t].list = NoList]
    BY <1>4, <1>9 DEF SwitchAnswered, DocumentWritten
  <2>2. d \in Document /\ OfOneOrganization(d)
    BY <1>1
  <2>3. TabsStay
    <3> HIDE DEF t, d
    <3> QED BY <2>1, <2>2, TabsShape
  <2> QED BY <1>1, <1>2, <1>3, <2>1, <2>3
<1>10. CASE SessionsAnswered(s)
  <2> DEFINE t == req[s].tab  l == req[s].list
  <2>1. /\ Arrives(s, {"sessions"}) /\ req' = Over(s, {}) /\ out' = out /\ misled' = misled
        /\ t \in Tab /\ (tab' = tab \/ tab' = [tab EXCEPT ![t].list = l]) /\ l \in List
    BY <1>1, <1>4, <1>10 DEF SessionsAnswered
  <2>2. TabsStay
    <3> HIDE DEF t, l
    <3> QED BY <2>1, TabsShape
  <2> QED BY <1>1, <1>3, <2>1, <2>2
<1>11. CASE RevokeSessionAnswered(s)
  <2> DEFINE t == req[s].tab
  <2>1. /\ Arrives(s, {"revokeSession"}) /\ req[s].route = "revokeSession"
        /\ misled' = misled \cup Overtaken(s)
        /\ t \in Tab /\ (tab' = tab \/ SignOutLocally(t)) /\ (out' = out \/ out' = SignedOut(s))
        /\ \E dropped : req' = Over(s, dropped)
    BY <1>4, <1>11 DEF RevokeSessionAnswered, Arrives
  <2>2. TabsStay
    <3> HIDE DEF t
    <3> QED BY <2>1, TabsShape
  <2>3. out' \in {out, "revokeSession"}
    BY <2>1 DEF SignedOut
  <2> QED BY <1>1, <1>2, <1>3, <2>1, <2>2, <2>3
<1>12. CASE OtherAnswered(s)
  <2>1. PICK routes : Arrives(s, routes)
    BY <1>12 DEF OtherAnswered
  <2>2. /\ misled' = misled \cup Overtaken(s) /\ tab' = tab /\ out' = out
        /\ req' = Over(s, {}) /\ req[s].tab \in Tab
    BY <1>4, <1>12, <2>1 DEF OtherAnswered
  <2>3. TabsStay
    BY <2>2, TabsShape
  <2> QED BY <1>1, <1>2, <1>3, <2>1, <2>2, <2>3
<1>13. CASE ForeignAnswered(s)
  <2>1. tab' \in [Tab -> TabState] /\ \A t \in Tab : OfOneOrganization(tab'[t].doc)
    BY <1>13 DEF ForeignAnswered, IInv, TypeOK, Documents
  <2> QED BY <1>1, <1>13, <2>1 DEF ForeignAnswered, FinishStep, At, InFlight
<1>14. CASE Lose(s)
  <2> DEFINE t == req[s].tab
  <2>1. /\ InFlight(s) /\ t \in Tab
        /\ \E dropped : req' = Over(s, dropped)
        /\ UNCHANGED <<race, jar, sess, account, misled, out>>
    BY <1>1, <1>14 DEF Lose, At, InFlight
  <2>2. tab' = tab \/ SignOutLocally(t) \/ tab' = [tab EXCEPT ![t].error = "failed"]
    <3>1. CASE req[s].route = "logout"
      BY <1>14, <3>1 DEF Lose
    <3>2. CASE req[s].route # "logout" /\ req[s].route = "session" /\ req[s].heard
      BY <1>14, <3>2 DEF Lose
    <3>3. CASE req[s].route # "logout" /\ ~(req[s].route = "session" /\ req[s].heard)
      BY <1>14, <3>3 DEF Lose
    <3> QED BY <3>1, <3>2, <3>3
  <2>3. TabsStay
    <3> HIDE DEF t
    <3> QED BY <2>1, <2>2, TabsShape
  <2>4. /\ lost' \subseteq Token /\ lost \subseteq lost'
        /\ req[s].sets \in Token /\ req[s].cookie # None => req[s].cookie \in lost'
    BY <1>1, <1>14 DEF Lose
  <2> QED BY <1>1, <2>1, <2>3, <2>4 DEF FinishStep, TabsStay
<1> QED BY <1>5, <1>6, <1>7, <1>8, <1>9, <1>10, <1>11, <1>12, <1>13, <1>14 DEF Answered

\* A redirect to the login page, by which reads find nobody listening.
LEMMA RedirectKeepsIInv == ASSUME IInv, NEW t \in Tab, ShellRedirects(t) PROVE IInv'
<1>0. /\ TypeOK /\ SwitchesNameOrganizations /\ Unjudged
      /\ Twins /\ HeadersAreRead /\ CsrfRefusesOnlyStraddlers
      /\ ActionsLandWhereShown
      /\ CookiesAreUsed /\ Principals /\ Documents
      /\ Together /\ LogoutsClear /\ SignedOutForGood
      /\ Issued /\ ARotationIsFollowed
  BY DEF IInv
<1>1. TabsStay
  BY TabsShape DEF ShellRedirects
<1>2. \A x \in Slot : req'[x] = req[x] \/ req'[x] = [req[x] EXCEPT !.heard = FALSE]
  BY DEF ShellRedirects
<1>3. \A x \in Slot : Stays(x) /\ req'[x] \in Request
  BY <1>0, <1>2, StaysOrListens DEF TypeOK
<1>4. \A x \in Slot : req'[x].alone = req[x].alone
  <2>1. ASSUME NEW r \in Request PROVE [r EXCEPT !.heard = FALSE].alone = r.alone
    BY DEF Request
  <2>2. \A x \in Slot : req[x] \in Request
    BY <1>0 DEF TypeOK
  <2> QED BY <1>2, <2>1, <2>2
<1>5. req' \in [Slot -> Request]
  BY <1>3 DEF ShellRedirects
<1>6. UNCHANGED <<race, jar, sess, account, lost, misled, out>>
  BY DEF ShellRedirects
<1>7. TypeOK' /\ Twins' /\ SwitchesNameOrganizations' /\ Unjudged'
  BY <1>0, <1>1, <1>3, <1>5, <1>6
     DEF TypeOK, Twins, SwitchesNameOrganizations, Unjudged, Stays, Fixed, TabsStay
<1>8. HeadersAreRead' /\ CsrfRefusesOnlyStraddlers' /\ ActionsLandWhereShown' /\ Principals'
  BY <1>0, <1>3, <1>6 DEF HeadersAreRead, CsrfRefusesOnlyStraddlers, ActionsLandWhereShown,
                          Principals, InFlight, Stays, Fixed
<1>9. Documents' /\ Together' /\ LogoutsClear' /\ CookiesAreUsed'
  BY <1>0, <1>1, <1>3, <1>4, <1>6 DEF Documents, TabsStay, Together, LogoutsClear, CookiesAreUsed,
                                     Used, InFlight, Stays, Fixed
<1>10. SignedOutForGood' /\ Issued' /\ ARotationIsFollowed'
  BY <1>0, <1>3, <1>6 DEF SignedOutForGood, Harmless, EmptyJar, Issued, ARotationIsFollowed, At, InFlight,
                          Stays, Fixed
<1> QED BY <1>7, <1>8, <1>9, <1>10 DEF IInv

\* What every screen does, and another site's page: it composes one request.
LEMMA BrowsesCompose ==
    ASSUME IInv, NEW s \in Slot, Browses(s)
    PROVE  \E t \in Tab \cup {None}, route \in DOMAIN Routes, path \in Org \cup {None},
              target \in Token \cup Org \cup {None} :
                /\ route = "switch" => target \in Org \cup {None}
                /\ t = None => Routes[route].unsafe
                /\ Compose(s, t, route, path, target)
<1> DEFINE Composes(t, route, path, target) ==
             /\ t \in Tab \cup {None} /\ route \in DOMAIN Routes /\ path \in Org \cup {None}
             /\ target \in Token \cup Org \cup {None}
             /\ route = "switch" => target \in Org \cup {None}
             /\ t = None => Routes[route].unsafe
             /\ Compose(s, t, route, path, target)
<1> SUFFICES \E t, route, path, target : Composes(t, route, path, target)
  OBVIOUS
<1>1. \A t \in Tab : /\ tab[t].challenge \in Token \cup {None} /\ tab[t].doc.org \in Org \cup {None}
                    /\ t # None
  BY NoneAssumption DEF IInv, TypeOK, TabState, Document
<1>2. ASSUME NEW t \in Tab,
             \/ LoginScreen(s, t) \/ RegisterScreen(s, t)
             \/ VerifyEmailScreen(s, t) \/ ResendForm(s, t)
             \/ ForgotPasswordScreen(s, t) \/ ResetPasswordScreen(s, t)
             \/ SessionQuery(s, t) \/ SignOutButton(s, t) \/ SessionsPanel(s, t)
             \/ PasswordPanel(s, t) \/ MfaPanel(s, t)
      PROVE  \E route : Composes(t, route, None, None)
  BY <1>1, <1>2 DEF LoginScreen, RegisterScreen, VerifyEmailScreen, ResendForm, ForgotPasswordScreen,
              ResetPasswordScreen, SessionQuery, SignOutButton, SessionsPanel, PasswordPanel, MfaPanel,
              StartEnrolment, ConfirmEnrolment, RegenerateCodes, DisableMfa, Routes
<1>3. ASSUME NEW t \in Tab, MfaScreen(s, t)
      PROVE  \E target : Composes(t, "mfaVerify", None, target)
  <2>1. Compose(s, t, "mfaVerify", None, tab[t].challenge)
    BY <1>3 DEF MfaScreen
  <2> QED BY <1>1, <2>1, RoutesDeclare
<1>4. ASSUME NEW t \in Tab, NEW route \in DOMAIN Routes, route # "switch", Members(s, t, route)
      PROVE  \E path : Composes(t, route, path, None)
  <2>1. Compose(s, t, route, tab[t].doc.org, None)
    BY <1>4 DEF Members
  <2> QED BY <1>1, <1>4, <2>1
<1>5. ASSUME NEW t \in Tab,
             \/ MemberList(s, t) \/ MemberRow(s, t) \/ InvitationList(s, t)
             \/ InvitationRow(s, t) \/ InviteForm(s, t)
      PROVE  \E route, path : Composes(t, route, path, None)
  <2>1. PICK route \in {"members", "updateRole", "removeMember", "invitations",
                        "revokeInvitation", "invite"} : Members(s, t, route)
    BY <1>5 DEF MemberList, MemberRow, InvitationList, InvitationRow, InviteForm
  <2>2. route \in DOMAIN Routes /\ route # "switch"
    BY DEF Routes
  <2> QED BY <1>4, <2>1, <2>2
<1>6. ASSUME NEW t \in Tab, OtherCalls(s, t)
      PROVE  \E route, path, target : Composes(t, route, path, target)
  <2>1. CASE \E route \in {"organizations", "roles", "create", "accept"}, o \in Org :
               Compose(s, t, route, None, o)
    BY <1>1, <2>1 DEF Routes
  <2>2. CASE \E route \in {"organization", "rename", "delete"} :
               Compose(s, t, route, tab[t].doc.org, None)
    BY <1>1, <2>2 DEF Routes
  <2> QED BY <1>6, <2>1, <2>2 DEF OtherCalls
<1>7. ASSUME NEW t \in Tab, NEW o \in Org, OrganizationSwitcher(s, t, o)
      PROVE  Composes(t, "switch", None, o)
  BY <1>1, <1>7 DEF OrganizationSwitcher, Routes
<1>8. ASSUME NEW t \in Tab, NEW id \in Token, SessionRow(s, t, id)
      PROVE  Composes(t, "revokeSession", None, id)
  BY <1>1, <1>8 DEF SessionRow, Routes
<1>9. ASSUME NEW route \in race[s] \cap DOMAIN Routes, ForeignPage(s, route)
      PROVE  Composes(None, route, None, None)
  BY <1>9 DEF ForeignPage
<1> HIDE DEF Composes
<1> QED BY <1>2, <1>3, <1>5, <1>6, <1>7, <1>8, <1>9 DEF Browses

\* What happens elsewhere keeps the invariant.
LEMMA ElsewhereKeepsIInv ==
    ASSUME IInv, NEW s \in Slot,
           \/ \E t \in Token : SessionEnds(s, t)
           \/ \E o \in Org : MembershipEnds(s, o) \/ OrganizationSuspended(s, o)
    PROVE  IInv'
<1>0. /\ TypeOK /\ SwitchesNameOrganizations /\ Unjudged
      /\ Twins /\ HeadersAreRead /\ CsrfRefusesOnlyStraddlers
      /\ ActionsLandWhereShown
      /\ CookiesAreUsed /\ Principals /\ Documents
      /\ Together /\ LogoutsClear /\ SignedOutForGood
      /\ Issued /\ ARotationIsFollowed
  BY DEF IInv
<1>1. /\ req[s].stage = "idle" /\ req' = [req EXCEPT ![s].stage = "done"]
      /\ UNCHANGED <<race, jar, tab, lost, misled, out>>
  BY DEF SessionEnds, MembershipEnds, OrganizationSuspended, Happens, To, At
<1>2. /\ req' \in [Slot -> Request] /\ req'[s].stage = "done"
      /\ \A x \in Slot : x # s => req'[x] = req[x]
      /\ Fixed(s) /\ req'[s].cookie = req[s].cookie /\ req'[s].tenant = req[s].tenant
      /\ req'[s].role = req[s].role /\ req'[s].status = req[s].status /\ req'[s].sets = req[s].sets
      /\ req'[s].doc = req[s].doc /\ req'[s].landed = req[s].landed /\ req'[s].alone = req[s].alone
  <2> DEFINE q == [req[s] EXCEPT !.stage = "done"]
  <2>1. req \in [Slot -> Request] /\ req' = [req EXCEPT ![s] = q]
    BY <1>0, <1>1 DEF TypeOK
  <2>2. q \in Request
    BY <2>1, StageStays
  <2>3. SameBut(q, req[s], {"stage"}) /\ q.stage = "done"
    BY <2>1 DEF SameBut, Fields, Request
  <2> HIDE DEF q
  <2>4. Moves(s, {"stage"}) /\ req'[s] = q
    BY <2>1, <2>2, <2>3, OneMoves
  <2> QED BY <2>3, <2>4 DEF Moves, SameBut, Fields, Fixed
<1>3. /\ sess \in [Token -> Session] /\ jar \in Jar /\ account \in Account
      /\ \A x \in Slot : req[x].cookie \in Token \cup {None} /\ req[x].sets \in Token \cup {"keep", "clear"}
  BY <1>0 DEF TypeOK, Request
<1>4. /\ SessionsGoOn
      /\ \A t \in Token : sess'[t].state = "rotated" => sess[t].state = "rotated"
  <2>1. CASE sess' = sess
    BY <1>3, <2>1 DEF SessionsGoOn, Used
  <2>2. CASE \E t \in Token : sess' = [sess EXCEPT ![t].state = "revoked"] /\ Live(t)
    <3>1. PICK t \in Token : sess' = [sess EXCEPT ![t].state = "revoked"] /\ Live(t)
      BY <2>2
    <3>2. \A u \in Token : /\ sess'[u] \in Session /\ sess'[u].org = sess[u].org
                           /\ u # t => sess'[u] = sess[u]
                           /\ sess'[t].state = "revoked"
      BY <1>3, <3>1 DEF Session
    <3> QED BY <1>3, <3>1, <3>2 DEF SessionsGoOn, Used
  <2> QED BY <2>1, <2>2 DEF SessionEnds, MembershipEnds, OrganizationSuspended
<1>5. account' \in Account
  BY <1>3 DEF SessionEnds, MembershipEnds, OrganizationSuspended, Account
<1>6. TypeOK' /\ Twins' /\ SwitchesNameOrganizations' /\ Unjudged'
  BY <1>0, <1>1, <1>2, <1>4, <1>5
     DEF TypeOK, Twins, SwitchesNameOrganizations, Unjudged, Fixed, SessionsGoOn
<1>7. HeadersAreRead' /\ CsrfRefusesOnlyStraddlers' /\ ActionsLandWhereShown' /\ LogoutsClear'
  BY <1>0, <1>1, <1>2 DEF HeadersAreRead, CsrfRefusesOnlyStraddlers, ActionsLandWhereShown,
                          LogoutsClear, InFlight, Fixed
<1>8. Documents' /\ Together'
  BY <1>0, <1>1, <1>2 DEF Documents, Together, InFlight
<1>9. CookiesAreUsed' /\ Principals'
  BY <1>0, <1>1, <1>2, <1>3, <1>4 DEF CookiesAreUsed, Principals, SessionsGoOn, Jar
<1>10. SignedOutForGood'
  BY <1>0, <1>1, <1>2 DEF SignedOutForGood, Harmless, InFlight, EmptyJar, Fixed
<1>11. Issued'
  <2>1. ASSUME NEW t \in Token, sess[t].state \in {"live", "revoked"}
        PROVE  sess'[t].state \in {"live", "revoked"}
    BY <1>4, <2>1 DEF SessionsGoOn, Used
  <2>2. \A x \in Slot : req'[x].sets = req[x].sets /\ req'[x].cookie = req[x].cookie
    BY <1>2
  <2> QED BY <1>0, <1>1, <2>1, <2>2 DEF Issued
<1>12. ARotationIsFollowed'
  BY <1>0, <1>1, <1>2, <1>3, <1>4 DEF ARotationIsFollowed, At, Jar
<1> QED BY <1>6, <1>7, <1>8, <1>9, <1>10, <1>11, <1>12 DEF IInv

-----------------------------------------------------------------------------
(* The theorems. *)

\* Every step keeps the invariant.
LEMMA NextIInv == IInv /\ [Next]_vars => IInv'
<1> SUFFICES ASSUME IInv, [Next]_vars PROVE IInv'
  OBVIOUS
<1>1. ASSUME NEW s \in Slot, Browses(s) PROVE IInv'
  <2>1. PICK t \in Tab \cup {None}, route \in DOMAIN Routes, path \in Org \cup {None},
              target \in Token \cup Org \cup {None} :
                /\ route = "switch" => target \in Org \cup {None}
                /\ Compose(s, t, route, path, target)
    BY <1>1, BrowsesCompose
  <2> QED BY <2>1, ComposeKeepsIInv
<1>2. ASSUME NEW s \in Slot, Send(s) PROVE IInv'
  BY <1>2, SendKeepsIInv
<1>3. ASSUME NEW s \in Slot, Serves(s) PROVE IInv'
  <2>1. CASE Admit(s)
    BY <2>1, AdmitKeepsIInv
  <2>2. CASE ~Admit(s)
    <3>1. HandlerStep(s)
      BY <1>3, <2>2, PlainHandlers, IssuingHandlers DEF Serves
    <3> QED BY <3>1, HandlerKeepsIInv
  <2> QED BY <2>1, <2>2
<1>4. ASSUME NEW s \in Slot, Answered(s) \/ Lose(s) PROVE IInv'
  BY <1>4, AnswersFinish, FinishKeepsIInv
<1>5. ASSUME NEW t \in Tab, ShellRedirects(t) PROVE IInv'
  BY <1>5, RedirectKeepsIInv
<1>6. ASSUME NEW s \in Slot,
             \/ \E t \in Token : SessionEnds(s, t)
             \/ \E o \in Org : MembershipEnds(s, o) \/ OrganizationSuspended(s, o)
      PROVE  IInv'
  BY <1>6, ElsewhereKeepsIInv
<1>7. CASE UNCHANGED vars
  BY <1>7 DEF vars, IInv, TypeOK, SwitchesNameOrganizations, Unjudged, Twins, HeadersAreRead,
              CsrfRefusesOnlyStraddlers, ActionsLandWhereShown, CookiesAreUsed, Used, Principals,
              Documents, Together, InFlight, LogoutsClear, SignedOutForGood, Harmless, Issued,
              ARotationIsFollowed, At
<1> QED BY <1>1, <1>2, <1>3, <1>4, <1>5, <1>6, <1>7 DEF Next

\* The invariant holds of every behaviour.
LEMMA Invariance == Spec => []IInv
BY InitIInv, NextIInv, PTL DEF Spec

\* The variables have the values they were declared for.
THEOREM TypeCorrect == Spec => []TypeOK
<1>1. IInv => TypeOK
  BY DEF IInv
<1> QED BY <1>1, Invariance, PTL

\* The CSRF guard refuses a request of the application only when the session
\* cookie was replaced between the screen's reading it and the request's leaving.
THEOREM CsrfIsExact == Spec => []CsrfRefusesOnlyStraddlers
<1>1. IInv => CsrfRefusesOnlyStraddlers
  BY DEF IInv
<1> QED BY <1>1, Invariance, PTL

\* A screen names one organisation, and offers what may be done in that one.
THEOREM ScreensAreOfOneOrganization == Spec => []AScreenIsOfOneOrganization
<1>1. IInv => AScreenIsOfOneOrganization
  BY DEF IInv, Documents, OfOneOrganization, AScreenIsOfOneOrganization
<1> QED BY <1>1, Invariance, PTL

\* What a screen does is done in the organisation it showed, or refused.
THEOREM ActionsLand == Spec => []ActionsLandWhereShown
<1>1. IInv => ActionsLandWhereShown
  BY DEF IInv
<1> QED BY <1>1, Invariance, PTL

\* A confirmed logout with nothing beside it leaves no cookie behind, whatever
\* the other tabs go on to send, until somebody signs in.
THEOREM LogoutIsFinal == Spec => []SignOutIsFinal
<1>1. IInv => SignOutIsFinal
  BY DEF IInv, SignedOutForGood, SignOutIsFinal
<1> QED BY <1>1, Invariance, PTL

\* The browser is left with a rotated session only while the answer is on its
\* way, or when it was lost.
THEOREM RotationsAreFollowed == Spec => []ARotationIsFollowed
<1>1. IInv => ARotationIsFollowed
  BY DEF IInv
<1> QED BY <1>1, Invariance, PTL

-----------------------------------------------------------------------------
(* The document a tab shows. *)

\* The organisation of a document, in a tab that nothing has overtaken, is the
\* one the session of the cookie acts in, whatever else is under way.
ShownIsCurrent ==
    \A t \in Tab \ misled :
        tab[t].doc.from # None /\ jar.session # None => tab[t].doc.org = sess[jar.session].org

\* A cookie on its way signs somebody in, or takes the place of the request's
\* own: in the organisation of the document beside it, or where that one acts.
Succeeds(s) ==
    /\ req[s].tab # None
    /\ \/ req[s].route \in {"login", "mfaVerify"}
       \/ req[s].route = "switch" /\ req[s].doc.org = sess[req[s].sets].org
       \/ /\ req[s].route = "changePassword" /\ req[s].cookie # None
          /\ sess[req[s].sets].org = sess[req[s].cookie].org

\* What an answer's cookies and its document are of.
AnswerIsOf(s) ==
    /\ req[s].sets # "keep" => req[s].stage = "answered" /\ req[s].status = "ok"
    /\ req[s].sets \in Token => Succeeds(s)
    /\ req[s].tab = None => req[s].cookie = None
    /\ req[s].stage = "answered" /\ req[s].status = "ok" =>
         /\ req[s].route = "session" =>
              req[s].cookie # None /\ req[s].doc.org = sess[req[s].cookie].org
         /\ req[s].route = "switch" => req[s].sets \in Token

Current == ShownIsCurrent /\ \A s \in Slot : AnswerIsOf(s)

\* At first a document is of the one session, and nothing is under way.
LEMMA InitCurrent == Init => Current
<1> SUFFICES ASSUME Init PROVE Current
  OBVIOUS
<1>1. \A s \in Slot : /\ req[s].stage = "idle" /\ req[s].sets = "keep" /\ req[s].cookie = None
  BY DEF Init, NoRequest, NewRequest
<1>2. \A s \in Slot : AnswerIsOf(s)
  BY <1>1, TokenAssumption DEF AnswerIsOf
<1>3. PICK t \in Token \cup {None}, o \in {x \in Org : account.role[x] # None} \cup {None} :
        /\ jar = SetCookies(t)
        /\ t # None => sess[t].org = o
        /\ \A u \in Tab : tab[u].doc \in {Blank, DocumentFor(t, o, o, RoleIn(o))}
  <2>1. PICK t \in Token \cup {None}, o \in {x \in Org : account.role[x] # None} \cup {None} :
          /\ jar = SetCookies(t)
          /\ sess = [u \in Token |-> [state |-> IF u = t THEN "live" ELSE "unused",
                                      org |-> IF u = t THEN o ELSE None]]
          /\ LET page == [page |-> IF t = None THEN "login" ELSE "app", challenge |-> None,
                          doc |-> Blank, error |-> "none", list |-> NoList] IN
             tab \in [Tab -> {page, IF t = None THEN page
                                    ELSE [page EXCEPT !.doc = DocumentFor(t, o, o, RoleIn(o)),
                                                      !.list = [current |-> t, ids |-> {t}]]}]
    BY DEF Init
  <2> DEFINE d == DocumentFor(t, o, o, RoleIn(o))
             page == [page |-> IF t = None THEN "login" ELSE "app", challenge |-> None,
                      doc |-> Blank, error |-> "none", list |-> NoList]
             used == [page EXCEPT !.doc = d, !.list = [current |-> t, ids |-> {t}]]
  <2>2. page.doc = Blank /\ used.doc = d
    OBVIOUS
  <2>3. \A u \in Tab : tab[u] \in {page, used}
    BY <2>1
  <2> HIDE DEF page, used
  <2>4. \A u \in Tab : tab[u].doc \in {Blank, d}
    BY <2>2, <2>3
  <2>5. t # None => sess[t].org = o
    BY <2>1
  <2> QED BY <2>1, <2>4, <2>5
<1>4. DocumentFor(t, o, o, RoleIn(o)).org = o /\ Blank.from = None /\ jar.session = t
  BY <1>3 DEF DocumentFor, Blank, SetCookies
<1>5. ShownIsCurrent
  BY <1>3, <1>4 DEF ShownIsCurrent
<1> QED BY <1>2, <1>5 DEF Current

\* What an answer is of stays so, while its request stays where it is.
LEMMA AnswersStay ==
    ASSUME IInv, SessionsGoOn, NEW x \in Slot, AnswerIsOf(x), Stays(x)
    PROVE  AnswerIsOf(x)'
<1>1. req[x].cookie \in Token \cup {None} /\ req[x].sets \in Token \cup {"keep", "clear"}
  BY DEF IInv, TypeOK, Request
<1>2. req[x].cookie # None => sess'[req[x].cookie].org = sess[req[x].cookie].org
  BY <1>1 DEF IInv, CookiesAreUsed, SessionsGoOn
<1>3. req[x].sets \in Token => sess'[req[x].sets].org = sess[req[x].sets].org
  BY DEF IInv, Issued, Used, SessionsGoOn
<1> QED BY <1>1, <1>2, <1>3 DEF AnswerIsOf, Succeeds, Stays, Fixed

\* What a tab shows stays current, while it and the cookies stay.
LEMMA ShownStays ==
    ASSUME IInv, ShownIsCurrent, SessionsGoOn, UNCHANGED <<jar, misled>>,
           \A t \in Tab : tab'[t].doc \in {tab[t].doc, Blank}
    PROVE  ShownIsCurrent'
<1>1. jar.session # None => sess'[jar.session].org = sess[jar.session].org
  BY DEF IInv, TypeOK, Jar, CookiesAreUsed, SessionsGoOn
<1>2. Blank.from = None
  BY DEF Blank
<1> QED BY <1>1, <1>2 DEF ShownIsCurrent

\* Nothing changes among the sessions.
LEMMA SessionsStay == IInv /\ UNCHANGED sess => SessionsGoOn
BY DEF IInv, TypeOK, SessionsGoOn, Used

\* A request that is not answered sets no cookies, and that is all there is to it.
LEMMA UnansweredIsOf ==
    ASSUME NEW s \in Slot, req'[s].sets = "keep",
           req'[s].stage # "answered" \/ req'[s].status # "ok",
           req'[s].tab = None => req'[s].cookie = None
    PROVE  AnswerIsOf(s)'
BY TokenAssumption DEF AnswerIsOf

-----------------------------------------------------------------------------
(* The steps before an answer. *)

\* A screen that sends, or another site's page, keeps documents current.
LEMMA ComposeKeepsCurrent ==
    ASSUME IInv, Current, NEW s \in Slot, Browses(s)
    PROVE  Current'
<1>1. PICK t \in Tab \cup {None}, route \in DOMAIN Routes, path \in Org \cup {None},
            target \in Token \cup Org \cup {None} :
              /\ t = None => Routes[route].unsafe
              /\ Compose(s, t, route, path, target)
  BY BrowsesCompose
<1>2. /\ req'[s].stage \in {"composed", "sent"} /\ req'[s].tab = t
      /\ Routes[route].unsafe => req'[s].cookie = None
      /\ req'[s].sets = "keep" /\ \A x \in Slot \ {s} : Stays(x)
  BY <1>1, ComposeShape
<1>3. UNCHANGED <<jar, sess, tab, misled>>
  BY <1>1 DEF Compose
<1>4. SessionsGoOn
  BY <1>3, SessionsStay
<1>5. ShownIsCurrent'
  BY <1>3, <1>4, ShownStays DEF Current
<1>6. AnswerIsOf(s)'
  BY <1>1, <1>2, UnansweredIsOf
<1>7. \A x \in Slot \ {s} : AnswerIsOf(x)'
  BY <1>2, <1>4, AnswersStay DEF Current
<1> QED BY <1>5, <1>6, <1>7 DEF Current

\* A step of one request.
LEMMA MovesLeave == ASSUME NEW s \in Slot, NEW changed, Moves(s, changed)
                    PROVE  \A x \in Slot \ {s} : Stays(x)
BY DEF Moves, Stays, Fixed

\* So does a request that leaves the browser.
LEMMA SendKeepsCurrent == ASSUME IInv, Current, NEW s \in Slot, Send(s) PROVE Current'
<1> DEFINE cookie == IF req[s].tab = None THEN None ELSE jar.session
<1>1. /\ req[s].stage = "composed" /\ req' = [To(s, "sent") EXCEPT ![s].cookie = cookie]
      /\ UNCHANGED <<jar, sess, tab, misled>>
  BY DEF Send, At
<1>2. req \in [Slot -> Request] /\ cookie \in Token \cup {None} /\ (req[s].tab = None => cookie = None)
  BY DEF IInv, TypeOK, Jar
<1> HIDE DEF cookie
<1>3. Moves(s, {"stage", "cookie"}) /\ req'[s].stage = "sent" /\ req'[s].cookie = cookie
  BY <1>1, <1>2, SentShape
<1>4. req'[s].sets = req[s].sets /\ req'[s].tab = req[s].tab
  BY <1>3 DEF Moves, SameBut, Fields
<1>5. req[s].sets = "keep"
  BY <1>1 DEF Current, AnswerIsOf
<1>6. AnswerIsOf(s)'
  BY <1>2, <1>3, <1>4, <1>5, UnansweredIsOf
<1>7. SessionsGoOn
  BY <1>1, SessionsStay
<1>8. ShownIsCurrent'
  BY <1>1, <1>7, ShownStays DEF Current
<1>9. \A x \in Slot \ {s} : AnswerIsOf(x)'
  BY <1>3, <1>7, MovesLeave, AnswersStay DEF Current
<1> QED BY <1>6, <1>8, <1>9 DEF Current

\* So do the guards.
LEMMA AdmitKeepsCurrent == ASSUME IInv, Current, NEW s \in Slot, Admit(s) PROVE Current'
<1>1. /\ req[s].stage = "sent" /\ Moves(s, {"stage", "status", "tenant", "role"})
      /\ req'[s].status = Verdict(req[s])
  BY AdmitShape
<1>2. Verdict(req[s]) # "ok"
  BY DEF Verdict
<1>3. UNCHANGED <<jar, sess, tab, misled>>
  BY DEF Admit
<1>4. req'[s].sets = req[s].sets /\ req'[s].tab = req[s].tab /\ req'[s].cookie = req[s].cookie
  BY <1>1 DEF Moves, SameBut, Fields
<1>5. req[s].sets = "keep" /\ (req[s].tab = None => req[s].cookie = None)
  BY <1>1 DEF Current, AnswerIsOf
<1>6. AnswerIsOf(s)'
  BY <1>1, <1>2, <1>4, <1>5, UnansweredIsOf
<1>7. SessionsGoOn
  BY <1>3, SessionsStay
<1>8. ShownIsCurrent'
  BY <1>3, <1>7, ShownStays DEF Current
<1>9. \A x \in Slot \ {s} : AnswerIsOf(x)'
  BY <1>1, <1>7, MovesLeave, AnswersStay DEF Current
<1> QED BY <1>6, <1>8, <1>9 DEF Current

-----------------------------------------------------------------------------
(* What a handler answers. *)

\* The status, the cookies and the document of an answer are the handler's.
LEMMA AnswerSays ==
    ASSUME req \in [Slot -> Request], NEW s \in Slot, NEW status \in {"ok", "expired", "refused"},
           NEW sets \in Token \cup {"keep", "clear"}
    PROVE  LET said == req'[s].status = status /\ req'[s].sets = sets IN
           /\ req' = Answer(s, status, sets) => said
           /\ \A d : req' = [Answer(s, status, sets) EXCEPT ![s].doc = d] => said /\ req'[s].doc = d
           /\ \A l : req' = [Answer(s, status, sets) EXCEPT ![s].list = l] => said
           /\ \A t : req' = [Answer(s, status, sets) EXCEPT ![s].pending = t] => said
           /\ \A o : req' = [Answer(s, status, sets) EXCEPT ![s].landed = o] => said
<1> DEFINE q == AnsweredAs(req[s], status, sets)
<1>1. q \in Request /\ q.status = status /\ q.sets = sets
  BY AnsweredShape
<1>2. Answer(s, status, sets) = [req EXCEPT ![s] = q]
  BY DEF Answer, To, AnsweredAs
<1> HIDE DEF q
<1>3. ASSUME NEW v
      PROVE  /\ [q EXCEPT !.doc = v].status = status /\ [q EXCEPT !.doc = v].sets = sets
             /\ [q EXCEPT !.doc = v].doc = v
             /\ [q EXCEPT !.list = v].status = status /\ [q EXCEPT !.list = v].sets = sets
             /\ [q EXCEPT !.pending = v].status = status /\ [q EXCEPT !.pending = v].sets = sets
             /\ [q EXCEPT !.landed = v].status = status /\ [q EXCEPT !.landed = v].sets = sets
  BY <1>1 DEF Request
<1>4. ASSUME NEW v
      PROVE  /\ [Answer(s, status, sets) EXCEPT ![s].doc = v] = [req EXCEPT ![s] = [q EXCEPT !.doc = v]]
             /\ [Answer(s, status, sets) EXCEPT ![s].list = v] = [req EXCEPT ![s] = [q EXCEPT !.list = v]]
             /\ [Answer(s, status, sets) EXCEPT ![s].pending = v] = [req EXCEPT ![s] = [q EXCEPT !.pending = v]]
             /\ [Answer(s, status, sets) EXCEPT ![s].landed = v] = [req EXCEPT ![s] = [q EXCEPT !.landed = v]]
  BY <1>2
<1>5. ASSUME req' = [req EXCEPT ![s] = q] PROVE req'[s].status = status /\ req'[s].sets = sets
  BY <1>1, <1>5
<1>6. ASSUME NEW p, req' = [req EXCEPT ![s] = p] PROVE req'[s] = p
  BY <1>6
<1>7. ASSUME NEW d, req' = [Answer(s, status, sets) EXCEPT ![s].doc = d]
      PROVE  req'[s].status = status /\ req'[s].sets = sets /\ req'[s].doc = d
  <2> DEFINE p == [q EXCEPT !.doc = d]
  <2>1. p.status = status /\ p.sets = sets /\ p.doc = d
    BY <1>3
  <2>2. req' = [req EXCEPT ![s] = p]
    BY <1>4, <1>7
  <2> HIDE DEF p
  <2> QED BY <1>6, <2>1, <2>2
<1>8. ASSUME NEW l, req' = [Answer(s, status, sets) EXCEPT ![s].list = l]
      PROVE  req'[s].status = status /\ req'[s].sets = sets
  <2> DEFINE p == [q EXCEPT !.list = l]
  <2>1. p.status = status /\ p.sets = sets
    BY <1>3
  <2>2. req' = [req EXCEPT ![s] = p]
    BY <1>4, <1>8
  <2> HIDE DEF p
  <2> QED BY <1>6, <2>1, <2>2
<1>9. ASSUME NEW t, req' = [Answer(s, status, sets) EXCEPT ![s].pending = t]
      PROVE  req'[s].status = status /\ req'[s].sets = sets
  <2> DEFINE p == [q EXCEPT !.pending = t]
  <2>1. p.status = status /\ p.sets = sets
    BY <1>3
  <2>2. req' = [req EXCEPT ![s] = p]
    BY <1>4, <1>9
  <2> HIDE DEF p
  <2> QED BY <1>6, <2>1, <2>2
<1>10. ASSUME NEW o, req' = [Answer(s, status, sets) EXCEPT ![s].landed = o]
      PROVE  req'[s].status = status /\ req'[s].sets = sets
  <2> DEFINE p == [q EXCEPT !.landed = o]
  <2>1. p.status = status /\ p.sets = sets
    BY <1>3
  <2>2. req' = [req EXCEPT ![s] = p]
    BY <1>4, <1>10
  <2> HIDE DEF p
  <2> QED BY <1>6, <2>1, <2>2
<1> QED BY <1>2, <1>5, <1>7, <1>8, <1>9, <1>10

\* The handlers that give no cookie and no document: they clear the cookies, if
\* anything, and only when they succeed.
Curt(s) ==
    \/ Declines(s) \/ LogoutHandled(s) \/ SessionsHandled(s) \/ RevokeSessionHandled(s)
    \/ RevokeOthersHandled(s) \/ ResetHandled(s) \/ VerifyEmailHandled(s) \/ FactorHandled(s)
    \/ JoinHandled(s) \/ ScopedHandled(s) \/ OthersHandled(s)

\* What they say.
LEMMA CurtAnswers ==
    ASSUME IInv, NEW s \in Slot, Curt(s)
    PROVE  /\ req[s].route \notin {"session", "switch"}
           /\ req'[s].sets \in {"keep", "clear"}
           /\ req'[s].sets # "keep" => req'[s].status = "ok"
<1>1. req \in [Slot -> Request]
  BY DEF IInv, TypeOK
<1>2. CASE Declines(s)
  <2>1. req[s].route \notin {"session", "switch"} /\ req' = Answer(s, "refused", "keep")
    BY <1>2 DEF Declines, Declinable, Handles
  <2> QED BY <1>1, <2>1, AnswerSays
<1>3. CASE LogoutHandled(s)
  <2>1. req[s].route = "logout" /\ req' = Answer(s, "ok", "clear")
    BY <1>3 DEF LogoutHandled, LogoutCookies, Handles
  <2> QED BY <1>1, <2>1, AnswerSays
<1>4. CASE SessionsHandled(s)
  <2>1. /\ req[s].route = "sessions"
        /\ \E l : req' = [Answer(s, "ok", "keep") EXCEPT ![s].list = l]
    BY <1>4 DEF SessionsHandled, Handles
  <2> QED BY <1>1, <2>1, AnswerSays
<1>5. CASE RevokeSessionHandled(s)
  <2>1. /\ req[s].route = "revokeSession"
        /\ req' = Answer(s, "ok", "clear") \/ req' = Answer(s, "ok", "keep")
    BY <1>5 DEF RevokeSessionHandled, Handles
  <2> QED BY <1>1, <2>1, AnswerSays
<1>6. CASE RevokeOthersHandled(s) \/ ResetHandled(s) \/ VerifyEmailHandled(s) \/ FactorHandled(s)
           \/ JoinHandled(s) \/ OthersHandled(s)
  <2>1. req[s].route \notin {"session", "switch"} /\ req' = Answer(s, "ok", "keep")
    BY <1>6 DEF RevokeOthersHandled, ResetHandled, VerifyEmailHandled, FactorHandled, JoinHandled,
                OthersHandled, Handles
  <2> QED BY <1>1, <2>1, AnswerSays
<1>7. CASE ScopedHandled(s)
  <2>1. \/ req' = Answer(s, "refused", "keep")
        \/ req' = [Answer(s, "ok", "keep") EXCEPT ![s].landed = req[s].tenant]
    BY <1>7 DEF ScopedHandled
  <2>2. req[s].route \notin {"session", "switch"}
    BY <1>7 DEF ScopedHandled, Handles, Scoped
  <2> QED BY <1>1, <2>1, <2>2, AnswerSays
<1> QED
  <2> HIDE DEF Declines, LogoutHandled, SessionsHandled, RevokeSessionHandled, ScopedHandled
  <2> QED BY <1>2, <1>3, <1>4, <1>5, <1>6, <1>7 DEF Curt

\* What a switch says: it gives a cookie when it succeeds, of a session in the
\* organisation of the document beside it.
LEMMA SwitchAnswers ==
    ASSUME IInv, NEW s \in Slot, NEW t \in Token, SwitchHandled(s, t)
    PROVE  /\ req'[s].sets # "keep" => req'[s].status = "ok"
           /\ req'[s].status = "ok" => req'[s].sets \in Token
           /\ req'[s].sets \in Token => req'[s].doc.org = sess'[req'[s].sets].org
<1>1. req \in [Slot -> Request]
  BY DEF IInv, TypeOK
<1> DEFINE o == req[s].target  base == Ended({req[s].cookie}, "rotated")
<1>2. CASE \E status \in {"refused", "expired"} : req' = Answer(s, status, "keep")
  BY <1>1, <1>2, AnswerSays, TokenAssumption
<1>3. CASE /\ sess' = [base EXCEPT ![t] = NewSession(t, o)]
           /\ req' = [Answer(s, "ok", t) EXCEPT ![s].doc = SwitchedTo(s, t, o)]
  <2>1. req'[s].status = "ok" /\ req'[s].sets = t /\ req'[s].doc = SwitchedTo(s, t, o)
    BY <1>1, <1>3, AnswerSays
  <2>2. sess'[t] = NewSession(t, o)
    BY <1>3 DEF Ended
  <2> QED BY <2>1, <2>2 DEF SwitchedTo, DocumentFor, NewSession
<1> QED BY <1>2, <1>3 DEF SwitchHandled

\* What a change of password says: it gives a cookie of a session that acts
\* where the request's own does.
LEMMA ChangeAnswers ==
    ASSUME IInv, NEW s \in Slot, NEW t \in Token, ChangeHandled(s, t)
    PROVE  /\ req'[s].status = "ok"
           /\ req'[s].sets \in Token => /\ req[s].cookie # None
                                        /\ sess'[req'[s].sets].org = sess[req[s].cookie].org
<1>1. req \in [Slot -> Request]
  BY DEF IInv, TypeOK
<1> DEFINE cookie == req[s].cookie  others == Ended(Token \ {cookie}, "revoked")
           o == sess[cookie].org
<1>2. CASE req' = Answer(s, "ok", "clear")
  BY <1>1, <1>2, AnswerSays, TokenAssumption
<1>3. CASE /\ Live(cookie)
           /\ sess' = [others EXCEPT ![cookie].state = "rotated", ![t] = NewSession(t, o)]
           /\ req' = Answer(s, "ok", t)
  <2>1. req'[s].status = "ok" /\ req'[s].sets = t
    BY <1>1, <1>3, AnswerSays
  <2>2. sess'[t] = NewSession(t, o)
    BY <1>3 DEF Ended
  <2> QED BY <1>3, <2>1, <2>2 DEF NewSession, Live
<1> QED BY <1>2, <1>3 DEF ChangeHandled, RotatedTo

\* A login and a second factor give a cookie when they succeed, or none.
LEMMA LoginAnswers ==
    ASSUME IInv, NEW s \in Slot, NEW t \in Token, LoginHandled(s, t) \/ VerifyHandled(s, t)
    PROVE  /\ req[s].route \in {"login", "mfaVerify"}
           /\ req'[s].status = "ok" /\ req'[s].sets \in Token \cup {"keep"}
<1>1. req \in [Slot -> Request]
  BY DEF IInv, TypeOK
<1>2. \/ req' = Answer(s, "ok", t)
      \/ req' = [Answer(s, "ok", "keep") EXCEPT ![s].pending = t]
  BY DEF LoginHandled, VerifyHandled
<1>3. req[s].route \in {"login", "mfaVerify"}
  BY DEF LoginHandled, VerifyHandled, Handles
<1>4. CASE req' = Answer(s, "ok", t)
  BY <1>1, <1>3, <1>4, AnswerSays
<1>5. CASE req' = [Answer(s, "ok", "keep") EXCEPT ![s].pending = t]
  BY <1>1, <1>3, <1>5, AnswerSays
<1> QED BY <1>2, <1>4, <1>5

\* A read of the session describes the one it came with.
LEMMA ReadAnswers ==
    ASSUME IInv, NEW s \in Slot, SessionHandled(s)
    PROVE  /\ req[s].route = "session" /\ req'[s].sets = "keep" /\ sess' = sess
           /\ req'[s].doc.org = sess[req[s].cookie].org
<1>1. req \in [Slot -> Request]
  BY DEF IInv, TypeOK
<1> DEFINE d == DocumentFor(req[s].cookie, sess[req[s].cookie].org, req[s].tenant, req[s].role)
<1>2. req' = [Answer(s, "ok", "keep") EXCEPT ![s].doc = d]
  BY DEF SessionHandled
<1>3. d.org = sess[req[s].cookie].org
  BY DEF DocumentFor
<1>4. req[s].route = "session" /\ sess' = sess
  BY DEF SessionHandled, Handles
<1> HIDE DEF d
<1>5. req'[s].sets = "keep" /\ req'[s].doc = d
  <2>1. \A v : req' = [Answer(s, "ok", "keep") EXCEPT ![s].doc = v] =>
                 req'[s].sets = "keep" /\ req'[s].doc = v
    BY <1>1, AnswerSays
  <2> QED BY ONLY <1>2, <2>1
<1> QED BY <1>3, <1>4, <1>5

\* A handler keeps documents current: it changes none that is shown, and its
\* answer is of the session that it gives or of the one it came with.
LEMMA HandlersKeepCurrent ==
    ASSUME IInv, Current, NEW s \in Slot, Serves(s), ~Admit(s)
    PROVE  Current'
<1>1. HandlerStep(s)
  BY PlainHandlers, IssuingHandlers DEF Serves
<1>2. /\ req[s].stage = "admitted" /\ req'[s].stage = "answered"
      /\ SessionsGoOn /\ UNCHANGED <<jar, tab, misled>>
      /\ req'[s].tab = req[s].tab /\ req'[s].cookie = req[s].cookie /\ req'[s].route = req[s].route
      /\ \A x \in Slot \ {s} : Stays(x)
  BY <1>1, MovesLeave DEF HandlerStep, browser, Moves, SameBut, Fields
<1>3. ShownIsCurrent'
  BY <1>2, ShownStays DEF Current
<1>4. \A x \in Slot \ {s} : AnswerIsOf(x)'
  BY <1>2, AnswersStay DEF Current
<1>5. /\ req[s].tab = None => req[s].cookie = None
      /\ req[s].route \in {"session", "switch", "changePassword"} => req[s].cookie # None
      /\ req[s].route \in {"login", "mfaVerify"} => req[s].tab # None
  BY <1>2, RoutesDeclare DEF IInv, Principals, Current, AnswerIsOf
<1>6. /\ req'[s].sets # "keep" => req'[s].status = "ok"
      /\ req'[s].sets \in Token =>
           \/ req[s].route \in {"login", "mfaVerify"}
           \/ req[s].route = "switch" /\ req'[s].doc.org = sess'[req'[s].sets].org
           \/ /\ req[s].route = "changePassword"
              /\ sess'[req'[s].sets].org = sess'[req[s].cookie].org
      /\ req'[s].status = "ok" =>
           /\ req[s].route = "session" => req'[s].doc.org = sess'[req[s].cookie].org
           /\ req[s].route = "switch" => req'[s].sets \in Token
  <2>1. CASE Curt(s)
    BY <2>1, CurtAnswers, TokenAssumption
  <2>2. CASE SessionHandled(s)
    BY <2>2, ReadAnswers, TokenAssumption
  <2>3. CASE \E t \in Token : LoginHandled(s, t) \/ VerifyHandled(s, t)
    BY <2>3, LoginAnswers, TokenAssumption
  <2>4. CASE \E t \in Token : SwitchHandled(s, t)
    <3>1. req[s].route = "switch"
      BY <2>4 DEF SwitchHandled, Handles
    <3> QED BY <2>4, <3>1, SwitchAnswers
  <2>5. CASE \E t \in Token : ChangeHandled(s, t)
    <3>1. req[s].route = "changePassword"
      BY <2>5 DEF ChangeHandled, Handles
    <3>2. /\ req'[s].status = "ok"
          /\ req'[s].sets \in Token => /\ req[s].cookie # None
                                       /\ sess'[req'[s].sets].org = sess[req[s].cookie].org
      BY <2>5, ChangeAnswers
    <3>3. req[s].cookie \in Token /\ Used(req[s].cookie)
      BY <1>5, <3>1 DEF IInv, TypeOK, Request, CookiesAreUsed
    <3>4. sess'[req[s].cookie].org = sess[req[s].cookie].org
      BY <1>2, <3>3 DEF SessionsGoOn
    <3> QED BY <3>1, <3>2, <3>4
  <2> QED BY <2>1, <2>2, <2>3, <2>4, <2>5 DEF Serves, Curt
<1>7. AnswerIsOf(s)'
  BY <1>2, <1>5, <1>6 DEF AnswerIsOf, Succeeds
<1> QED BY <1>3, <1>4, <1>7 DEF Current

-----------------------------------------------------------------------------
(* The answers, and the theorem. *)

\* An answer that gives a cookie passes by a tab: it does not overtake it, and
\* is not the tab's own to replace its document.
PassesBy(s, t) ==
    req[s].sets \in Token =>
        /\ t \notin Overtaken(s)
        /\ req[s].tab = t => req[s].route \notin {"login", "mfaVerify", "switch"}

\* The cookies an answer sets are of the organisation of the document in every
\* tab that it passes by.
LEMMA CookiesKeepUp ==
    ASSUME IInv, Current, NEW s \in Slot, jar' = CookiesAfter(s),
           NEW t \in Tab \ misled, PassesBy(s, t),
           tab[t].doc.from # None, jar'.session # None
    PROVE  tab[t].doc.org = sess[jar'.session].org
<1>1. CASE jar' = jar
  BY <1>1 DEF Current, ShownIsCurrent
<1>2. CASE req[s].sets \in Token /\ jar'.session = req[s].sets
  <2>1. req[s].sets # "keep"
    BY <1>2, TokenAssumption
  <2>2. req[s].tab = t /\ req[s].cookie = jar.session
    BY <1>2, <2>1 DEF PassesBy, Overtaken
  <2>3. req[s].cookie # None /\ sess[req[s].sets].org = sess[req[s].cookie].org
    BY <1>2, <2>2 DEF PassesBy, Current, AnswerIsOf, Succeeds
  <2> QED BY <1>2, <2>2, <2>3 DEF Current, ShownIsCurrent
<1> QED BY <1>1, <1>2, CookiesAfterType DEF EmptyJar

\* What an answer does to a tab that it leaves current: nothing, or it empties
\* its cache.
LEMMA AnswerLeavesCurrent ==
    ASSUME IInv, Current, NEW s \in Slot, jar' = CookiesAfter(s), UNCHANGED sess,
           NEW t \in Tab \ misled',
           \/ tab'[t].doc = Blank
           \/ t \notin misled /\ PassesBy(s, t) /\ tab'[t].doc = tab[t].doc,
           tab'[t].doc.from # None, jar'.session # None
    PROVE  tab'[t].doc.org = sess'[jar'.session].org
<1>1. tab'[t].doc # Blank
  BY DEF Blank
<1> QED BY <1>1, CookiesKeepUp

\* The documents of the other tabs are left alone, and of this one but for what
\* it is told.
LEMMA DocumentsAfter ==
    ASSUME IInv, NEW t \in Tab
    PROVE  /\ SignOutLocally(t) => /\ tab'[t].doc = Blank
                                   /\ \A u \in Tab \ {t} : tab'[u].doc = tab[u].doc
           /\ \A d, error, list :
                tab' = [tab EXCEPT ![t].doc = d, ![t].error = error, ![t].list = list] =>
                    tab'[t].doc = d /\ \A u \in Tab \ {t} : tab'[u].doc = tab[u].doc
           /\ \A d, error :
                tab' = [tab EXCEPT ![t].doc = d, ![t].error = error] =>
                    tab'[t].doc = d /\ \A u \in Tab \ {t} : tab'[u].doc = tab[u].doc
           /\ \A error : tab' = [tab EXCEPT ![t].error = error] =>
                    \A u \in Tab : tab'[u].doc = tab[u].doc
           /\ \A list : tab' = [tab EXCEPT ![t].list = list] =>
                    \A u \in Tab : tab'[u].doc = tab[u].doc
           /\ tab' = [tab EXCEPT ![t].page = "login"] =>
                    \A u \in Tab : tab'[u].doc = tab[u].doc
<1>1. tab \in [Tab -> TabState] /\ tab[t] \in TabState
  BY DEF IInv, TypeOK
<1>2. ASSUME NEW q, tab' = [tab EXCEPT ![t] = q]
      PROVE  tab'[t] = q /\ \A u \in Tab \ {t} : tab'[u] = tab[u]
  BY <1>1, <1>2
<1>3. ASSUME NEW d, NEW error, NEW list
      PROVE  /\ [tab[t] EXCEPT !.doc = d, !.error = error, !.list = list].doc = d
             /\ [tab[t] EXCEPT !.doc = d, !.error = error].doc = d
             /\ [tab[t] EXCEPT !.error = error].doc = tab[t].doc
             /\ [tab[t] EXCEPT !.list = list].doc = tab[t].doc
             /\ [tab[t] EXCEPT !.page = "login"].doc = tab[t].doc
  BY <1>1 DEF TabState
<1>4. SignOutLocally(t) => /\ tab'[t].doc = Blank
                           /\ \A u \in Tab \ {t} : tab'[u].doc = tab[u].doc
  BY <1>1 DEF SignOutLocally
<1>5. ASSUME NEW d, NEW error, NEW list,
             tab' = [tab EXCEPT ![t].doc = d, ![t].error = error, ![t].list = list]
      PROVE  tab'[t].doc = d /\ \A u \in Tab \ {t} : tab'[u].doc = tab[u].doc
  <2> DEFINE q == [tab[t] EXCEPT !.doc = d, !.error = error, !.list = list]
  <2>1. q.doc = d
    BY <1>3
  <2>2. tab' = [tab EXCEPT ![t] = q]
    BY <1>5
  <2> HIDE DEF q
  <2> QED BY <1>2, <2>1, <2>2
<1>6. ASSUME NEW d, NEW error, tab' = [tab EXCEPT ![t].doc = d, ![t].error = error]
      PROVE  tab'[t].doc = d /\ \A u \in Tab \ {t} : tab'[u].doc = tab[u].doc
  <2> DEFINE q == [tab[t] EXCEPT !.doc = d, !.error = error]
  <2>1. tab' = [tab EXCEPT ![t] = q] /\ q.doc = d
    BY <1>3, <1>6
  <2> HIDE DEF q
  <2> QED BY <1>2, <2>1
<1>7. ASSUME NEW q, q.doc = tab[t].doc, tab' = [tab EXCEPT ![t] = q]
      PROVE  \A u \in Tab : tab'[u].doc = tab[u].doc
  BY <1>2, <1>7
<1>8. ASSUME NEW error, tab' = [tab EXCEPT ![t].error = error]
      PROVE  \A u \in Tab : tab'[u].doc = tab[u].doc
  <2> DEFINE q == [tab[t] EXCEPT !.error = error]
  <2>1. tab' = [tab EXCEPT ![t] = q] /\ q.doc = tab[t].doc
    BY <1>3, <1>8
  <2> HIDE DEF q
  <2> QED BY <1>7, <2>1
<1>9. ASSUME NEW list, tab' = [tab EXCEPT ![t].list = list]
      PROVE  \A u \in Tab : tab'[u].doc = tab[u].doc
  <2> DEFINE q == [tab[t] EXCEPT !.list = list]
  <2>1. tab' = [tab EXCEPT ![t] = q] /\ q.doc = tab[t].doc
    BY <1>3, <1>9
  <2> HIDE DEF q
  <2> QED BY <1>7, <2>1
<1>10. ASSUME tab' = [tab EXCEPT ![t].page = "login"]
       PROVE  \A u \in Tab : tab'[u].doc = tab[u].doc
  <2> DEFINE q == [tab[t] EXCEPT !.page = "login"]
  <2>1. tab' = [tab EXCEPT ![t] = q] /\ q.doc = tab[t].doc
    BY <1>3, <1>10
  <2> HIDE DEF q
  <2> QED BY <1>7, <2>1
<1> QED BY <1>4, <1>5, <1>6, <1>8, <1>9, <1>10

\* An answer, or the loss of one, keeps documents current.
LEMMA AnswersKeepCurrent ==
    ASSUME IInv, Current, NEW s \in Slot, Answered(s) \/ Lose(s)
    PROVE  Current'
<1>1. FinishStep(s)
  BY AnswersFinish
<1>2. /\ sess' = sess /\ SessionsGoOn /\ InFlight(s)
      /\ req'[s].stage = "done" /\ req'[s].cookie = None /\ req'[s].sets = "keep"
      /\ \A x \in Slot \ {s} : Stays(x)
  BY <1>1, OverShape, SessionsStay DEF FinishStep, IInv, TypeOK
<1>3. \A x \in Slot : AnswerIsOf(x)'
  BY <1>2, AnswersStay, UnansweredIsOf DEF Current
<1>4. /\ req[s].tab \in Tab \cup {None} /\ req[s].sets \in Token \cup {"keep", "clear"}
      /\ req[s].status \in {"none", "ok", "expired", "forged", "refused"}
  BY DEF IInv, TypeOK, Request
<1> SUFFICES ASSUME NEW u \in Tab \ misled', tab'[u].doc.from # None, jar'.session # None
             PROVE  tab'[u].doc.org = sess'[jar'.session].org
  BY <1>3 DEF Current, ShownIsCurrent
<1> DEFINE t == req[s].tab
           Same == tab'[u].doc = tab[u].doc
           Goal == tab'[u].doc.org = sess'[jar'.session].org
<1> SUFFICES Goal
  OBVIOUS
<1>5. ASSUME NEW routes, Arrives(s, routes)
      PROVE  /\ jar' = CookiesAfter(s) /\ t \in Tab
             /\ req[s].stage = "answered" /\ req[s].route \in routes
  BY <1>4, <1>5 DEF Arrives, At
<1>6. ASSUME req[s].sets \in Token
      PROVE  /\ req[s].stage = "answered" /\ req[s].status = "ok" /\ t # None
             /\ req[s].route \in {"login", "mfaVerify", "switch", "changePassword"}
  BY <1>6, TokenAssumption DEF Current, AnswerIsOf, Succeeds
<1>7. ASSUME jar' = CookiesAfter(s),
             tab'[u].doc = Blank \/ (u \notin misled /\ PassesBy(s, u) /\ Same)
      PROVE  Goal
  BY <1>2, <1>7, AnswerLeavesCurrent
<1>8. CASE LogoutAnswered(s) \/ RevokeSessionAnswered(s)
  <2>1. jar' = CookiesAfter(s) /\ t \in Tab /\ req[s].route \in {"logout", "revokeSession"}
    BY <1>5, <1>8 DEF LogoutAnswered, RevokeSessionAnswered
  <2>2. PassesBy(s, u)
    BY <1>6, <2>1 DEF PassesBy
  <2>3. u \notin misled /\ (SignOutLocally(t) \/ tab' = tab)
    BY <1>8 DEF LogoutAnswered, RevokeSessionAnswered
  <2>4. tab'[u].doc = Blank \/ Same
    BY <2>1, <2>3, DocumentsAfter
  <2> QED BY <1>7, <2>1, <2>2, <2>3, <2>4
<1>9. CASE LoginAnswered(s) \/ MfaAnswered(s)
  <2>1. jar' = CookiesAfter(s) /\ t \in Tab
    BY <1>5, <1>9 DEF LoginAnswered, MfaAnswered
  <2>2. u \notin misled /\ u # t /\ u \notin Overtaken(s)
    BY <1>9 DEF LoginAnswered, MfaAnswered
  <2>3. PassesBy(s, u)
    BY <2>2 DEF PassesBy
  <2>4. \E q : tab' = [tab EXCEPT ![t] = q]
    BY <1>9 DEF LoginAnswered, MfaAnswered
  <2>5. Same
    BY <2>2, <2>4 DEF IInv, TypeOK
  <2> QED BY <1>7, <2>1, <2>2, <2>3, <2>5
<1>10. CASE SessionAnswered(s)
  <2>1. /\ jar' = CookiesAfter(s) /\ t \in Tab
        /\ req[s].stage = "answered" /\ req[s].route = "session"
    BY <1>5, <1>10 DEF SessionAnswered
  <2>2. PassesBy(s, u) /\ req[s].sets \notin Token
    BY <1>6, <2>1 DEF PassesBy
  <2>3. CASE ~req[s].heard \/ ~Succeeded(s)
    <3>1. u \notin misled /\ (tab' = tab \/ \E e : tab' = [tab EXCEPT ![t].error = e])
      BY <1>10, <2>3 DEF SessionAnswered
    <3>2. Same
      BY <2>1, <3>1, DocumentsAfter
    <3> QED BY <1>7, <2>1, <2>2, <3>1, <3>2
  <2>4. CASE req[s].heard /\ Succeeded(s)
    <3>1. /\ tab' = [tab EXCEPT ![t].doc = req[s].doc, ![t].error = "none"]
          /\ u = t => req[s].cookie = jar.session
          /\ u # t => u \notin misled
      BY <1>10, <2>4 DEF SessionAnswered
    <3>2. tab'[t].doc = req[s].doc /\ \A x \in Tab \ {t} : tab'[x].doc = tab[x].doc
      BY <2>1, <3>1, DocumentsAfter
    <3>3. CASE u = t
      <4>1. req[s].cookie = jar.session /\ req[s].doc.org = sess[req[s].cookie].org
        BY <2>1, <2>4, <3>1, <3>3 DEF Succeeded, Current, AnswerIsOf
      <4>2. jar' = jar
        BY <2>1, <2>2, CookiesAfterType DEF EmptyJar
      <4> QED BY <1>2, <3>2, <3>3, <4>1, <4>2
    <3>4. CASE u # t
      BY <1>7, <2>1, <2>2, <3>1, <3>2, <3>4
    <3> QED BY <3>3, <3>4
  <2> QED BY <2>3, <2>4
<1>11. CASE SwitchAnswered(s)
  <2>1. /\ jar' = CookiesAfter(s) /\ t \in Tab
        /\ req[s].stage = "answered" /\ req[s].route = "switch"
    BY <1>5, <1>11 DEF SwitchAnswered
  <2>2. /\ tab' = [tab EXCEPT ![t].doc = req[s].doc, ![t].error = "none", ![t].list = NoList]
        /\ Succeeded(s) /\ (u # t => u \notin misled /\ u \notin Overtaken(s))
    BY <1>11 DEF SwitchAnswered, DocumentWritten
  <2>3. tab'[t].doc = req[s].doc /\ \A x \in Tab \ {t} : tab'[x].doc = tab[x].doc
    BY <2>1, <2>2, DocumentsAfter
  <2>4. CASE u = t
    <3>1. req[s].sets \in Token /\ req[s].doc.org = sess[req[s].sets].org
      BY <2>1, <2>2 DEF Succeeded, Current, AnswerIsOf, Succeeds
    <3>2. jar'.session = req[s].sets
      BY <2>1, <3>1, CookiesAfterType
    <3> QED BY <1>2, <2>3, <2>4, <3>1, <3>2
  <2>5. CASE u # t
    <3>1. PassesBy(s, u)
      BY <2>2, <2>5 DEF PassesBy
    <3> QED BY <1>7, <2>1, <2>2, <2>3, <2>5, <3>1
  <2> QED BY <2>4, <2>5
<1>12. CASE SessionsAnswered(s)
  <2>1. jar' = CookiesAfter(s) /\ t \in Tab /\ req[s].route = "sessions"
    BY <1>5, <1>12 DEF SessionsAnswered
  <2>2. PassesBy(s, u)
    BY <1>6, <2>1 DEF PassesBy
  <2>3. u \notin misled /\ (tab' = tab \/ tab' = [tab EXCEPT ![t].list = req[s].list])
    BY <1>12 DEF SessionsAnswered
  <2>4. Same
    BY <2>1, <2>3, DocumentsAfter
  <2> QED BY <1>7, <2>1, <2>2, <2>3, <2>4
<1>13. CASE OtherAnswered(s)
  <2>1. PICK routes : Arrives(s, routes) /\ (routes \cap Shown = {} \/ ~Succeeded(s))
    BY <1>13 DEF OtherAnswered
  <2>2. jar' = CookiesAfter(s) /\ req[s].route \in routes
    BY <1>5, <2>1
  <2>3. u \notin misled /\ u \notin Overtaken(s) /\ tab' = tab
    BY <1>13 DEF OtherAnswered
  <2>4. PassesBy(s, u)
    BY <1>6, <2>1, <2>2, <2>3 DEF PassesBy, Shown, Succeeded
  <2> QED BY <1>7, <2>2, <2>3, <2>4
<1>14. CASE ForeignAnswered(s)
  <2>1. jar' = CookiesAfter(s) /\ t = None /\ tab' = tab /\ misled' = misled
    BY <1>14 DEF ForeignAnswered
  <2>2. PassesBy(s, u)
    BY <1>6, <2>1 DEF PassesBy
  <2> QED BY <1>7, <2>1, <2>2
<1>15. CASE Lose(s)
  <2>1. jar' = jar /\ misled' = misled /\ t \in Tab
    BY <1>4, <1>15 DEF Lose
  <2>2. SignOutLocally(t) \/ tab' = tab \/ tab' = [tab EXCEPT ![t].error = "failed"]
    <3>1. CASE req[s].route = "logout"
      BY <1>15, <3>1 DEF Lose
    <3>2. CASE req[s].route # "logout" /\ req[s].route = "session" /\ req[s].heard
      BY <1>15, <3>2 DEF Lose
    <3>3. CASE req[s].route # "logout" /\ ~(req[s].route = "session" /\ req[s].heard)
      BY <1>15, <3>3 DEF Lose
    <3> QED BY <3>1, <3>2, <3>3
  <2>3. \A x \in Tab : tab'[x].doc \in {tab[x].doc, Blank}
    BY <2>1, <2>2, DocumentsAfter
  <2>4. ShownIsCurrent'
    BY <1>2, <2>1, <2>3, ShownStays DEF Current
  <2> QED BY <2>4 DEF ShownIsCurrent
<1> QED BY <1>8, <1>9, <1>10, <1>11, <1>12, <1>13, <1>14, <1>15 DEF Answered

\* What happens elsewhere, and a redirect, keep documents current.
LEMMA OthersKeepCurrent ==
    ASSUME IInv, Current,
           \/ \E t \in Tab : ShellRedirects(t)
           \/ \E s \in Slot, t \in Token : SessionEnds(s, t)
           \/ \E s \in Slot, o \in Org : MembershipEnds(s, o) \/ OrganizationSuspended(s, o)
           \/ UNCHANGED vars
    PROVE  Current'
<1>1. CASE \E t \in Tab : ShellRedirects(t)
  <2>1. PICK t \in Tab : ShellRedirects(t)
    BY <1>1
  <2>2. \A x \in Slot : req'[x] = req[x] \/ req'[x] = [req[x] EXCEPT !.heard = FALSE]
    BY <2>1 DEF ShellRedirects
  <2>3. \A x \in Slot : Stays(x)
    BY <2>2, StaysOrListens DEF IInv, TypeOK
  <2>4. UNCHANGED <<jar, sess, misled>> /\ \A x \in Tab : tab'[x].doc = tab[x].doc
    BY <2>1, DocumentsAfter DEF ShellRedirects
  <2>5. SessionsGoOn
    BY <2>4, SessionsStay
  <2> QED BY <2>3, <2>4, <2>5, ShownStays, AnswersStay DEF Current
<1>2. ASSUME NEW s \in Slot,
             \/ \E t \in Token : SessionEnds(s, t)
             \/ \E o \in Org : MembershipEnds(s, o) \/ OrganizationSuspended(s, o)
      PROVE  Current'
  <2>1. /\ req[s].stage = "idle" /\ req' = [req EXCEPT ![s].stage = "done"]
        /\ UNCHANGED <<jar, tab, misled>>
    BY <1>2 DEF SessionEnds, MembershipEnds, OrganizationSuspended, Happens, To, At
  <2>2. SessionsGoOn
    <3>1. CASE sess' = sess
      BY <3>1, SessionsStay
    <3>2. CASE \E t \in Token : sess' = [sess EXCEPT ![t].state = "revoked"] /\ Live(t)
      <4>1. PICK t \in Token : sess' = [sess EXCEPT ![t].state = "revoked"] /\ Live(t)
        BY <3>2
      <4>2. sess \in [Token -> Session]
        BY DEF IInv, TypeOK
      <4>3. \A u \in Token : /\ sess'[u] \in Session /\ sess'[u].org = sess[u].org
                             /\ u # t => sess'[u] = sess[u]
                             /\ sess'[t].state = "revoked"
        BY <4>1, <4>2 DEF Session
      <4> QED BY <4>1, <4>2, <4>3 DEF SessionsGoOn, Used
    <3> QED BY <1>2, <3>1, <3>2 DEF SessionEnds, MembershipEnds, OrganizationSuspended
  <2>3. ShownIsCurrent'
    BY <2>1, <2>2, ShownStays DEF Current
  <2>4. /\ \A x \in Slot \ {s} : Stays(x)
        /\ req'[s].stage = "done" /\ req'[s].sets = req[s].sets
        /\ req'[s].tab = req[s].tab /\ req'[s].cookie = req[s].cookie
    <3>1. req \in [Slot -> Request] /\ \A x \in Slot \ {s} : req'[x] = req[x]
      BY <2>1 DEF IInv, TypeOK
    <3> QED BY <2>1, <3>1 DEF Stays, Fixed, Request
  <2>5. req[s].sets = "keep" /\ (req[s].tab = None => req[s].cookie = None)
    BY <2>1 DEF Current, AnswerIsOf
  <2>6. AnswerIsOf(s)'
    BY <2>4, <2>5, UnansweredIsOf
  <2>7. \A x \in Slot \ {s} : AnswerIsOf(x)'
    BY <2>2, <2>4, AnswersStay DEF Current
  <2> QED BY <2>3, <2>6, <2>7 DEF Current
<1>3. CASE UNCHANGED vars
  BY <1>3 DEF vars, Current, ShownIsCurrent, AnswerIsOf, Succeeds
<1> QED BY <1>1, <1>2, <1>3

\* Every step keeps them current.
LEMMA NextCurrent == IInv /\ Current /\ [Next]_vars => Current'
<1> SUFFICES ASSUME IInv, Current, [Next]_vars PROVE Current'
  OBVIOUS
<1>1. ASSUME NEW s \in Slot, Browses(s) \/ Send(s) \/ Serves(s) \/ Answered(s) \/ Lose(s)
      PROVE  Current'
  BY <1>1, ComposeKeepsCurrent, SendKeepsCurrent, AdmitKeepsCurrent, HandlersKeepCurrent,
     AnswersKeepCurrent
<1> QED BY <1>1, OthersKeepCurrent DEF Next

\* A tab that shows the application shows the organisation its session acts in,
\* unless something has overtaken it.
THEOREM ScreensFollow == Spec => []ScreensKeepUp
<1>1. Current => ScreensKeepUp
  BY DEF Current, ShownIsCurrent, ScreensKeepUp, Showing
<1> QED BY <1>1, InitCurrent, NextCurrent, Invariance, PTL DEF Spec

=============================================================================
