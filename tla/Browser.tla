------------------------------ MODULE Browser ------------------------------
(***************************************************************************)
(* One user's browser: tabs of the web application, the two cookies they   *)
(* share, and their requests to the API.                                   *)
(*                                                                         *)
(* A request is composed by a screen, which reads the CSRF cookie; leaves  *)
(* the browser, which attaches the session cookie; passes the guards; is   *)
(* handled; and its answer arrives, or never does.  Requests overtake each *)
(* other between any two of these.  What a handler does inside is left to  *)
(* the modules of the services: here it is one step.                       *)
(***************************************************************************)
EXTENDS Permissions, FiniteSets, Integers

CONSTANTS
    Tab,
    Token,         \* sessions, each standing for its id, its token and the CSRF token derived
    Org,
    None,
    Slot,          \* the requests there may be, and what may happen elsewhere instead
    Races,         \* which routes each of them may go to
    Accounts,      \* what may be true of the user at first
    RequireMfa     \* the organisations whose policy asks for a second factor

VARIABLES
    race,          \* the routes of each request
    jar,           \* the cookies
    sess,          \* the sessions
    account,       \* what the guards and handlers read about the user
    tab,           \* what each tab shows and remembers
    req,           \* the requests
    lost,          \* history: sessions whose rotation was never answered
    misled,        \* history: tabs that something has overtaken
    out            \* history: the last thing the browser did was to sign out, by this route

vars == <<race, jar, sess, account, tab, req, lost, misled, out>>

-----------------------------------------------------------------------------
(* The routes, as their decorators declare them. *)

Route(access, permission, unsafe, flags) ==
    [access |-> access, permission |-> permission, unsafe |-> unsafe, flags |-> flags]

Public(flags)               == Route("public", None, TRUE, flags)
AuthenticatedOnly(unsafe)   == Route("authenticated", None, unsafe, {})
RequirePermission(p, unsafe) == Route("permission", p, unsafe, {})
RefuseCrossSite             == {"same-site"}
RequireVerifiedEmail(route) == [route EXCEPT !.flags = @ \cup {"verified"}]

Register       == Public({})
VerifyEmail    == Public({})
Resend         == Public({})
Login          == Public(RefuseCrossSite)
Forgot         == Public(RefuseCrossSite)
Reset          == Public(RefuseCrossSite)
MfaVerify      == Public(RefuseCrossSite)
Logout         == AuthenticatedOnly(TRUE)
ReadSession    == AuthenticatedOnly(FALSE)
ListSessions   == AuthenticatedOnly(FALSE)
RevokeOthers   == AuthenticatedOnly(TRUE)
RevokeSession  == AuthenticatedOnly(TRUE)
Switch         == AuthenticatedOnly(TRUE)
ChangePassword == AuthenticatedOnly(TRUE)
MfaEnroll      == AuthenticatedOnly(TRUE)
MfaConfirm     == AuthenticatedOnly(TRUE)
MfaDisable     == AuthenticatedOnly(TRUE)
MfaRegenerate  == AuthenticatedOnly(TRUE)
Accept         == AuthenticatedOnly(TRUE)
Create         == RequireVerifiedEmail(AuthenticatedOnly(TRUE))
ListOrganizations == AuthenticatedOnly(FALSE)
ReadOrganization  == RequirePermission("organization.read", FALSE)
Rename            == RequirePermission("organization.manage_members", TRUE)
DeleteOrganization == RequirePermission("organization.delete", TRUE)
ListRoles         == RequirePermission("organization.read", FALSE)
ListMembers       == RequirePermission("organization.manage_members", FALSE)
UpdateRole        == RequirePermission("organization.manage_members", TRUE)
RemoveMember      == RequirePermission("organization.manage_members", TRUE)
Invite            == RequireVerifiedEmail(RequirePermission("organization.manage_members", TRUE))
ListInvitations   == RequirePermission("organization.manage_members", FALSE)
RevokeInvitation  == RequirePermission("organization.manage_members", TRUE)

Routes ==
    [register |-> Register, verifyEmail |-> VerifyEmail, resend |-> Resend, login |-> Login,
     forgot |-> Forgot, reset |-> Reset, mfaVerify |-> MfaVerify, logout |-> Logout,
     session |-> ReadSession, sessions |-> ListSessions, revokeOthers |-> RevokeOthers,
     revokeSession |-> RevokeSession, switch |-> Switch, changePassword |-> ChangePassword,
     enroll |-> MfaEnroll, confirm |-> MfaConfirm, disable |-> MfaDisable,
     regenerate |-> MfaRegenerate, accept |-> Accept, create |-> Create,
     organizations |-> ListOrganizations, organization |-> ReadOrganization,
     rename |-> Rename, delete |-> DeleteOrganization, roles |-> ListRoles,
     members |-> ListMembers, updateRole |-> UpdateRole, removeMember |-> RemoveMember,
     invite |-> Invite, invitations |-> ListInvitations, revokeInvitation |-> RevokeInvitation]

\* The routes whose path names an organisation.
Scoped == {"organization", "rename", "delete", "members", "updateRole", "removeMember",
           "invite", "invitations", "revokeInvitation"}

ASSUME NoneAssumption == None \notin Token \cup Org \cup Tab \cup SYSTEM_ROLES \cup DOMAIN Routes
ASSUME TokenAssumption == Token \cap {"keep", "clear"} = {}
ASSUME AccountsAssumption ==
    Accounts \subseteq [verified : BOOLEAN, factor : BOOLEAN, suspended : SUBSET Org,
                        role : [Org -> SYSTEM_ROLES \cup {None}]]
ASSUME RacesAssumption == Races \subseteq [Slot -> SUBSET (DOMAIN Routes \cup {"elsewhere"})]

-----------------------------------------------------------------------------
(* Data. *)

\* The CSRF cookie is an HMAC of the session token, which no two share: it is
\* named by the token it derives from.
Jar == [session : Token \cup {None}, csrf : Token \cup {None}]

EmptyJar == [session |-> None, csrf |-> None]

SessionCookieOnly(sets) == [session |-> sets, csrf |-> None]       \* mutant: the second cookie is forgotten
SetCookies(sets) == [session |-> sets, csrf |-> sets]

\* `rotated` and `revoked` sessions are refused alike; `pending` ones await the
\* second factor.
Session == [state : {"unused", "pending", "live", "rotated", "revoked"}, org : Org \cup {None}]

Account == [verified : BOOLEAN, factor : BOOLEAN, suspended : SUBSET Org,
            role : [Org -> SYSTEM_ROLES \cup {None}]]

\* The session document: the active organisation, and what may be done in `of`.
\* `from` is history, the session it describes.
Document == [org : Org \cup {None}, of : Org \cup {None}, may : SUBSET PERMISSIONS,
             from : Token \cup {None}]

Blank == [org |-> None, of |-> None, may |-> {}, from |-> None]

\* The list of sessions a tab has loaded, and the one it shows as this device.
List == [current : Token \cup {None}, ids : SUBSET Token]

NoList == [current |-> None, ids |-> {}]

TabState == [page : {"login", "mfa", "app"}, challenge : Token \cup {None},
             doc : Document, error : {"none", "expired", "failed"},
             list : List]

\* A request on its way, and its answer.  `path` is the organisation in its URL,
\* `target` what else it names, `landed` the organisation its handler acted in;
\* `began` and `alone` are history: the session cookie when it was composed, and
\* whether no other request was ever under way with it.
Request == [stage : {"idle", "composed", "sent", "admitted", "answered", "done"},
            route : DOMAIN Routes \cup {None}, tab : Tab \cup {None}, path : Org \cup {None},
            target : Token \cup Org \cup {None}, csrf : Token \cup {None},
            cookie : Token \cup {None}, tenant : Org \cup {None},
            role : SYSTEM_ROLES \cup {None}, heard : BOOLEAN,
            status : {"none", "ok", "expired", "forged", "refused"},
            sets : Token \cup {"keep", "clear"}, doc : Document, list : List,
            pending : Token \cup {None}, landed : Org \cup {None},
            began : Token \cup {None}, alone : BOOLEAN]

NewRequest(stage, route, t, path, target, csrf, cookie, began, alone) ==
    [stage |-> stage, route |-> route, tab |-> t, path |-> path, target |-> target,
     csrf |-> csrf, cookie |-> cookie, tenant |-> None, role |-> None, heard |-> TRUE,
     status |-> "none", sets |-> "keep", doc |-> Blank, list |-> NoList, pending |-> None,
     landed |-> None, began |-> began, alone |-> alone]

NoRequest == NewRequest("idle", None, None, None, None, None, None, None, TRUE)

Live(t) == t # None /\ sess[t].state = "live"
InFlight(s) == req[s].stage \notin {"idle", "done"}
Quiet == \A s \in Slot : ~InFlight(s)
At(s, stage) == req[s].stage = stage
To(s, stage) == [req EXCEPT ![s].stage = stage]

\* resolveTenant, for a session acting in o.
Resolved(o) == o # None /\ account.role[o] # None /\ o \notin account.suspended

\* forPrincipal: the session's own organisation, and the permissions of the
\* tenant it is given.
DocumentFor(t, o, tenant, role) ==
    [org |-> o, of |-> tenant, from |-> t,
     may |-> IF tenant = None THEN {} ELSE ROLE_PERMISSIONS[role]]

RoleIn(o) == IF o = None THEN None ELSE account.role[o]

-----------------------------------------------------------------------------
\* A browser that has been used: nobody signed in, or one session, with tabs
\* that show it and its list of sessions or have yet to load them.
Init ==
    /\ race \in Races /\ account \in Accounts
    /\ req = [s \in Slot |-> NoRequest]
    /\ \E t \in Token \cup {None}, o \in {x \in Org : account.role[x] # None} \cup {None} :
         LET page == [page |-> IF t = None THEN "login" ELSE "app", challenge |-> None,
                      doc |-> Blank, error |-> "none", list |-> NoList] IN
         /\ t = None => o = None
         /\ jar = SetCookies(t)
         /\ sess = [u \in Token |->
                      [state |-> IF u = t THEN "live" ELSE "unused",
                       org |-> IF u = t THEN o ELSE None]]
         /\ tab \in [Tab -> {page, IF t = None THEN page
                                   ELSE [page EXCEPT !.doc = DocumentFor(t, o, o, RoleIn(o)),
                                                     !.list = [current |-> t, ids |-> {t}]]}]
    /\ lost = {} /\ misled = {} /\ out = None

-----------------------------------------------------------------------------
(* The browser: composing a request, and sending it. *)

\* ApiClient.request: an unsafe method carries the CSRF cookie as a header.
Header(route) == IF Routes[route].unsafe THEN jar.csrf ELSE None

Compose(s, t, route, path, target) ==
    /\ At(s, "idle") /\ route \in race[s]
    /\ LET now == ~Routes[route].unsafe IN
       req' = [x \in Slot |->
                 IF x = s
                   THEN NewRequest(IF now THEN "sent" ELSE "composed", route, t, path, target,
                                   Header(route), IF now THEN jar.session ELSE None,
                                   jar.session, Quiet)
                   ELSE [req[x] EXCEPT !.alone = @ /\ ~InFlight(x)]]
    /\ out' = IF t # None /\ route \in {"login", "mfaVerify"} THEN None ELSE out
    /\ UNCHANGED <<race, jar, sess, account, tab, lost, misled>>

\* The session cookie is attached when the request leaves: at once for a GET,
\* which needs no preflight, and after that for the others.  SameSite=Lax keeps
\* it off what another site's page posts.
Send(s) ==
    /\ At(s, "composed")
    /\ req' = [To(s, "sent") EXCEPT ![s].cookie = IF req[s].tab = None THEN None ELSE jar.session]
    /\ UNCHANGED <<race, jar, sess, account, tab, lost, misled, out>>

-----------------------------------------------------------------------------
(* The screens. *)

On(t, page) == tab[t].page = page

\* AppShell draws its children: a document is there and its last read did not fail.
Showing(t) == On(t, "app") /\ tab[t].doc.from # None /\ tab[t].error = "none"

Asks(t, route) ==
    \E s \in Slot : /\ InFlight(s) /\ req[s].heard
                    /\ req[s].tab = t /\ req[s].route = route

LoginScreen(s, t) == On(t, "login") /\ Compose(s, t, "login", None, None)
MfaScreen(s, t) ==
    /\ On(t, "mfa") /\ tab[t].challenge # None
    /\ Compose(s, t, "mfaVerify", None, tab[t].challenge)

RegisterScreen(s, t)       == On(t, "login") /\ Compose(s, t, "register", None, None)
VerifyEmailScreen(s, t)    == On(t, "login") /\ Compose(s, t, "verifyEmail", None, None)
ResendForm(s, t)           == On(t, "login") /\ Compose(s, t, "resend", None, None)
ForgotPasswordScreen(s, t) == On(t, "login") /\ Compose(s, t, "forgot", None, None)
ResetPasswordScreen(s, t)  == On(t, "login") /\ Compose(s, t, "reset", None, None)

\* The shell's one query for the session: on mounting, on focus, when stale.
SessionQuery(s, t) ==
    On(t, "app") /\ ~Asks(t, "session") /\ Compose(s, t, "session", None, None)

SignOutButton(s, t) == Showing(t) /\ Compose(s, t, "logout", None, None)

OrganizationSwitcher(s, t, o) ==
    /\ Showing(t) /\ o # tab[t].doc.org /\ ~Asks(t, "switch")
    /\ Compose(s, t, "switch", None, o)

SessionsPanel(s, t) ==
    /\ Showing(t)
    /\ \/ Compose(s, t, "sessions", None, None)
       \/ Compose(s, t, "revokeOthers", None, None)

SessionRow(s, t, id) ==
    Showing(t) /\ id \in tab[t].list.ids /\ Compose(s, t, "revokeSession", None, id)

PasswordPanel(s, t) == Showing(t) /\ Compose(s, t, "changePassword", None, None)

StartEnrolment(s, t)   == Compose(s, t, "enroll", None, None)
ConfirmEnrolment(s, t) == Compose(s, t, "confirm", None, None)
RegenerateCodes(s, t)  == Compose(s, t, "regenerate", None, None)
DisableMfa(s, t)       == Compose(s, t, "disable", None, None)
MfaPanel(s, t) ==
    /\ Showing(t)
    /\ \/ StartEnrolment(s, t) \/ ConfirmEnrolment(s, t)
       \/ RegenerateCodes(s, t) \/ DisableMfa(s, t)

\* MembersScreen names the organisation of the document in every path.
Members(s, t, route) ==
    Showing(t) /\ tab[t].doc.org # None /\ Compose(s, t, route, tab[t].doc.org, None)

Can(t, permission) == permission \in tab[t].doc.may

MemberList(s, t) == Members(s, t, "members")
MemberRow(s, t) ==
    /\ Can(t, "organization.manage_members")
    /\ \E route \in {"updateRole", "removeMember"} : Members(s, t, route)

InvitationList(s, t) == Members(s, t, "invitations")
InvitationRow(s, t) ==
    Can(t, "organization.manage_members") /\ Members(s, t, "revokeInvitation")
InviteForm(s, t) == Can(t, "organization.manage_members") /\ Members(s, t, "invite")

\* Routes that no screen calls yet, by a caller that names what its tab shows.
OtherCalls(s, t) ==
    /\ Showing(t)
    /\ \/ \E route \in {"organizations", "roles", "create", "accept"}, o \in Org :
              Compose(s, t, route, None, o)
       \/ \E route \in {"organization", "rename", "delete"} :
              Compose(s, t, route, tab[t].doc.org, None)

\* A page of another site: it can post, and reads no cookie.
ForeignPage(s, route) == Routes[route].unsafe /\ Compose(s, None, route, None, None)

-----------------------------------------------------------------------------
(* The guards, in the order they are registered. *)

Declared(r) == Routes[r.route]

\* AuthenticationGuard: a session that cannot be resolved is a 401.
Unauthenticated(r) == Declared(r).access # "public" /\ ~Live(r.cookie)

\* TenantContextGuard: the tenant of the session, where it resolves to one.
TenantOf(r) ==
    IF /\ Declared(r).access # "public" /\ Live(r.cookie)
       /\ Resolved(sess[r.cookie].org)
    THEN sess[r.cookie].org ELSE None
TenantRefuses(r) == Declared(r).access = "permission" /\ TenantOf(r) = None

\* CsrfGuard: the header against the cookie of the request itself.
CsrfRefuses(r) ==
    /\ Declared(r).access # "public" /\ Declared(r).unsafe /\ r.cookie # None
    /\ r.tab = None \/ r.csrf # r.cookie

CrossSiteRefuses(r) == "same-site" \in Declared(r).flags /\ r.tab = None
EmailRefuses(r) == "verified" \in Declared(r).flags /\ ~account.verified
MfaRefuses(r) ==
    Declared(r).access = "permission" /\ TenantOf(r) \in RequireMfa /\ ~account.factor
AuthorizationRefuses(r) ==
    /\ Declared(r).access = "permission"
    /\ Declared(r).permission \notin ROLE_PERMISSIONS[account.role[TenantOf(r)]]

Verdict(r) ==
    CASE Unauthenticated(r) -> "expired"
      [] ~Unauthenticated(r) /\ TenantRefuses(r) -> "refused"
      [] ~Unauthenticated(r) /\ ~TenantRefuses(r) /\ CsrfRefuses(r) -> "forged"
      [] OTHER -> IF CrossSiteRefuses(r) \/ EmailRefuses(r) \/ MfaRefuses(r) \/ AuthorizationRefuses(r)
                      THEN "refused" ELSE "none"

\* The request's principal and tenant are fixed here, before its handler runs.
Admit(s) ==
    /\ At(s, "sent")
    /\ LET verdict == Verdict(req[s]) IN
       req' = [req EXCEPT ![s].stage = IF verdict = "none" THEN "admitted" ELSE "answered",
                          ![s].status = verdict, ![s].tenant = TenantOf(req[s]),
                          ![s].role = RoleIn(TenantOf(req[s]))]
    /\ UNCHANGED <<race, jar, sess, account, tab, lost, misled, out>>

-----------------------------------------------------------------------------
(* The handlers, one step each. *)

Handles(s, routes) == At(s, "admitted") /\ req[s].route \in routes

Answer(s, status, sets) ==
    [To(s, "answered") EXCEPT ![s].status = status, ![s].sets = sets]

browser == <<jar, tab, lost, misled, out>>      \* what no handler can see

NewSession(t, o) == [state |-> "live", org |-> o]

Ended(tokens, how) ==
    [t \in Token |-> IF t \in tokens /\ sess[t].state \in {"live", "pending"}
                       THEN [sess[t] EXCEPT !.state = how] ELSE sess[t]]

\* A validation error, a wrong password or code, a conflict: nothing is written.
\* An organisation is never deleted: its audit trail refuses.
Declinable == DOMAIN Routes \ {"logout", "session", "sessions", "revokeOthers", "switch",
                                "organizations", "organization", "roles", "members", "invitations"}

Declines(s) ==
    /\ Handles(s, Declinable)
    /\ req' = Answer(s, "refused", "keep")
    /\ UNCHANGED <<race, sess, account, browser>>

\* A session, or with a second factor a pending one whose token is in the body.
LoginHandled(s, t) ==
    /\ Handles(s, {"login"}) /\ sess[t].state = "unused"
    /\ \/ /\ account.factor
          /\ sess' = [sess EXCEPT ![t].state = "pending"]
          /\ req' = [Answer(s, "ok", "keep") EXCEPT ![s].pending = t]
       \/ /\ ~account.factor
          /\ sess' = [sess EXCEPT ![t] = NewSession(t, None)]
          /\ req' = Answer(s, "ok", t)
    /\ UNCHANGED <<race, account, browser>>

VerifyHandled(s, t) ==
    /\ Handles(s, {"mfaVerify"}) /\ req[s].target # None /\ sess[t].state = "unused"
    /\ sess[req[s].target].state = "pending"
    /\ sess' = [Ended({req[s].target}, "rotated") EXCEPT ![t] = NewSession(t, None)]
    /\ req' = Answer(s, "ok", t)
    /\ UNCHANGED <<race, account, browser>>

CookiesStay == "keep"                   \* mutant: logout revokes and leaves them
LogoutCookies == "clear"
LogoutHandled(s) ==
    /\ Handles(s, {"logout"})
    /\ sess' = Ended({req[s].cookie}, "revoked")
    /\ req' = Answer(s, "ok", LogoutCookies)
    /\ UNCHANGED <<race, account, browser>>

SessionHandled(s) ==
    /\ Handles(s, {"session"})
    /\ req' = [Answer(s, "ok", "keep") EXCEPT
                 ![s].doc = DocumentFor(req[s].cookie, sess[req[s].cookie].org,
                                         req[s].tenant, req[s].role)]
    /\ UNCHANGED <<race, sess, account, browser>>

SessionsHandled(s) ==
    /\ Handles(s, {"sessions"})
    /\ LET live == {t \in Token : Live(t)} IN
       req' = [Answer(s, "ok", "keep") EXCEPT
                 ![s].list = [current |-> IF req[s].cookie \in live THEN req[s].cookie ELSE None,
                              ids |-> live]]
    /\ UNCHANGED <<race, sess, account, browser>>

\* One that has ended already is a success too; the cookies go with their own.
RevokeSessionHandled(s) ==
    /\ Handles(s, {"revokeSession"})
    /\ sess' = Ended({req[s].target}, "revoked")
    /\ req' = Answer(s, "ok", IF req[s].target = req[s].cookie THEN "clear" ELSE "keep")
    /\ UNCHANGED <<race, account, browser>>

RevokeOthersHandled(s) ==
    /\ Handles(s, {"revokeOthers"})
    /\ sess' = Ended(Token \ {req[s].cookie}, "revoked")
    /\ req' = Answer(s, "ok", "keep")
    /\ UNCHANGED <<race, account, browser>>

\* Refused without a membership or while suspended; else the session rotates,
\* unless it has ended since the guard read it.
OfTheRequest(s, t, o) == DocumentFor(t, o, req[s].tenant, req[s].role)  \* mutant
SwitchedTo(s, t, o) == DocumentFor(t, o, o, RoleIn(o))

SwitchHandled(s, t) ==
    LET o == req[s].target  cookie == req[s].cookie IN
    /\ Handles(s, {"switch"})
    /\ \/ /\ o = None \/ ~Resolved(o)
          /\ req' = Answer(s, "refused", "keep")
          /\ UNCHANGED sess
       \/ /\ o # None /\ Resolved(o) /\ Live(cookie) /\ sess[t].state = "unused"
          /\ sess' = [Ended({cookie}, "rotated") EXCEPT ![t] = NewSession(t, o)]
          /\ req' = [Answer(s, "ok", t) EXCEPT ![s].doc = SwitchedTo(s, t, o)]
       \/ /\ o # None /\ Resolved(o) /\ ~Live(cookie)
          /\ req' = Answer(s, "expired", "keep")
          /\ UNCHANGED sess
    /\ UNCHANGED <<race, account, browser>>

NotFollowed(t) == "keep"                \* mutant: the new session's cookies are not set
RotatedTo(t) == t

\* Every other session is revoked, then this one rotated; one that has ended
\* since leaves the caller signed out.
ChangeHandled(s, t) ==
    LET cookie == req[s].cookie  others == Ended(Token \ {req[s].cookie}, "revoked") IN
    /\ Handles(s, {"changePassword"})
    /\ \/ /\ Live(cookie) /\ sess[t].state = "unused"
          /\ sess' = [others EXCEPT ![cookie].state = "rotated",
                                    ![t] = NewSession(t, sess[cookie].org)]
          /\ req' = Answer(s, "ok", RotatedTo(t))
       \/ /\ ~Live(cookie)
          /\ sess' = others
          /\ req' = Answer(s, "ok", "clear")
    /\ UNCHANGED <<race, account, browser>>

ResetHandled(s) ==
    /\ Handles(s, {"reset"})
    /\ sess' = Ended(Token, "revoked")
    /\ req' = Answer(s, "ok", "keep")
    /\ UNCHANGED <<race, account, browser>>

VerifyEmailHandled(s) ==
    /\ Handles(s, {"verifyEmail"})
    /\ account' = [account EXCEPT !.verified = TRUE]
    /\ req' = Answer(s, "ok", "keep")
    /\ UNCHANGED <<race, sess, browser>>

FactorHandled(s) ==
    /\ \/ Handles(s, {"confirm"}) /\ ~account.factor /\ account' = [account EXCEPT !.factor = TRUE]
       \/ Handles(s, {"disable"}) /\ account.factor /\ account' = [account EXCEPT !.factor = FALSE]
    /\ req' = Answer(s, "ok", "keep")
    /\ UNCHANGED <<race, sess, browser>>

\* Creating an organisation makes an owner, accepting an invitation a member;
\* the session goes on acting where it did.
JoinHandled(s) ==
    LET o == req[s].target IN
    /\ Handles(s, {"create", "accept"}) /\ o # None /\ account.role[o] = None
    /\ account' = [account EXCEPT !.role[o] =
                      IF req[s].route = "create" THEN "OWNER" ELSE "MEMBER"]
    /\ req' = Answer(s, "ok", "keep")
    /\ UNCHANGED <<race, sess, browser>>

\* assertPathIsActiveTenant, then the action in the tenant of the session.
AnyPathWillDo(s) == TRUE                \* mutant: the path is not compared
PathIsActiveTenant(s) == req[s].path = req[s].tenant

ScopedHandled(s) ==
    /\ Handles(s, Scoped)
    /\ \/ /\ PathIsActiveTenant(s) /\ req[s].route # "delete"
          /\ req' = [Answer(s, "ok", "keep") EXCEPT ![s].landed = req[s].tenant]
       \/ /\ ~PathIsActiveTenant(s)
          /\ req' = Answer(s, "refused", "keep")
    /\ UNCHANGED <<race, sess, account, browser>>

\* The rest read, or change what this module leaves out.
OthersHandled(s) ==
    /\ Handles(s, {"register", "resend", "forgot", "enroll", "regenerate", "organizations", "roles"})
    /\ req' = Answer(s, "ok", "keep")
    /\ UNCHANGED <<race, sess, account, browser>>

-----------------------------------------------------------------------------
(* The answers. *)

CookiesAfter(s) ==
    CASE req[s].sets = "keep"  -> jar
      [] req[s].sets = "clear" -> EmptyJar
      [] OTHER                 -> SetCookies(req[s].sets)

\* Cookies that change under the other tabs, and under the one that asked when
\* its request left with an older session than the one they replace.
Overtaken(s) ==
    {t \in Tab : req[s].sets # "keep" /\ (t = req[s].tab => req[s].cookie # jar.session)}

\* The request is over, and the reads `dropped` find nobody listening.
Over(s, dropped) ==
    [x \in Slot |-> CASE x = s -> [NoRequest EXCEPT !.stage = "done"]
                      [] x # s /\ InFlight(x) /\ req[x].tab = req[s].tab /\ req[x].route \in dropped
                             -> [req[x] EXCEPT !.heard = FALSE]
                      [] OTHER -> req[x]]

Reads == {"session", "sessions"}

\* signOutLocally: the cache is emptied, and the login page replaces this one.
SignOutLocally(t) ==
    tab' = [tab EXCEPT ![t] = [page |-> "login", challenge |-> None, doc |-> Blank,
                               error |-> "none", list |-> NoList]]

\* SignedOut records a sign-out that the server confirmed, with nothing beside it.
SignedOut(s) == IF req[s].status = "ok" /\ req[s].alone THEN req[s].route ELSE out

Arrives(s, routes) ==
    /\ At(s, "answered") /\ req[s].route \in routes /\ req[s].tab # None
    /\ jar' = CookiesAfter(s)
    /\ UNCHANGED <<race, sess, account, lost>>

Succeeded(s) == req[s].status = "ok"

\* Whatever came of it: the button's `finally`.
LogoutAnswered(s) ==
    /\ Arrives(s, {"logout"})
    /\ SignOutLocally(req[s].tab)
    /\ req' = Over(s, Reads)
    /\ misled' = misled \cup Overtaken(s) /\ out' = SignedOut(s)

\* A challenge goes to the second factor; a session to the application, over
\* whatever the tab had cached.
LoginAnswered(s) ==
    LET t == req[s].tab IN
    /\ Arrives(s, {"login"}) /\ Succeeded(s)
    /\ \E remembered \in {"none", tab[t].error} :
         tab' = [tab EXCEPT ![t] =
                   IF req[s].pending # None
                     THEN [@ EXCEPT !.page = "mfa", !.challenge = req[s].pending]
                     ELSE [@ EXCEPT !.page = "app", !.error = remembered]]
    /\ req' = Over(s, {})
    /\ misled' = misled \cup Overtaken(s) \cup {t} /\ UNCHANGED out

MfaAnswered(s) ==
    LET t == req[s].tab IN
    /\ Arrives(s, {"mfaVerify"}) /\ Succeeded(s)
    /\ \E remembered \in {"none", tab[t].error} :
         tab' = [tab EXCEPT ![t] = [@ EXCEPT !.page = "app", !.challenge = None,
                                            !.error = remembered]]
    /\ req' = Over(s, {})
    /\ misled' = misled \cup Overtaken(s) \cup {t} /\ UNCHANGED out

\* The query keeps the document it had when a later read of it fails.
SessionAnswered(s) ==
    LET t == req[s].tab IN
    /\ Arrives(s, {"session"})
    /\ \/ ~req[s].heard /\ UNCHANGED <<tab, misled>>
       \/ /\ req[s].heard /\ Succeeded(s)
          /\ tab' = [tab EXCEPT ![t].doc = req[s].doc, ![t].error = "none"]
          /\ misled' = IF req[s].cookie = jar.session THEN misled \ {t} ELSE misled \cup {t}
       \/ /\ req[s].heard /\ ~Succeeded(s)
          /\ tab' = [tab EXCEPT ![t].error = IF req[s].status = "expired" THEN "expired" ELSE "failed"]
          /\ UNCHANGED misled
    /\ req' = Over(s, {}) /\ UNCHANGED out

\* AppShell: a 401 replaces the page by the login page, and empties no cache.
ShellRedirects(t) ==
    /\ On(t, "app") /\ tab[t].error = "expired"
    /\ tab' = [tab EXCEPT ![t].page = "login"]
    /\ req' = [x \in Slot |-> IF InFlight(x) /\ req[x].tab = t /\ req[x].route \in Reads
                                 THEN [req[x] EXCEPT !.heard = FALSE] ELSE req[x]]
    /\ UNCHANGED <<race, jar, sess, account, lost, misled, out>>

\* The answer is the new document; every other query is reset.
DocumentStays(t, doc) == tab[t].doc     \* mutant: left to the next read
DocumentWritten(t, doc) == doc

SwitchAnswered(s) ==
    LET t == req[s].tab IN
    /\ Arrives(s, {"switch"}) /\ Succeeded(s)
    /\ tab' = [tab EXCEPT ![t].doc = DocumentWritten(t, req[s].doc), ![t].error = "none",
                          ![t].list = NoList]
    /\ req' = Over(s, {"sessions"})
    /\ misled' = (misled \cup Overtaken(s)) \ {t} /\ UNCHANGED out

SessionsAnswered(s) ==
    /\ Arrives(s, {"sessions"})
    /\ tab' = IF req[s].heard /\ Succeeded(s) THEN [tab EXCEPT ![req[s].tab].list = req[s].list]
                                             ELSE tab
    /\ req' = Over(s, {}) /\ UNCHANGED <<misled, out>>

\* The row the list marks as this device is a sign-out; another is not.
RevokeSessionAnswered(s) ==
    LET t == req[s].tab IN
    /\ Arrives(s, {"revokeSession"}) /\ Succeeded(s)
    /\ \/ /\ req[s].target = tab[t].list.current
          /\ SignOutLocally(t)
          /\ req' = Over(s, Reads) /\ out' = SignedOut(s)
       \/ /\ req[s].target # tab[t].list.current
          /\ req' = Over(s, {}) /\ UNCHANGED <<tab, out>>
    /\ misled' = misled \cup Overtaken(s)

\* The other answers, and a refusal on any screen but those above, are only shown.
Shown == {"login", "mfaVerify", "switch", "revokeSession"}
OtherAnswered(s) ==
    /\ \/ Arrives(s, Shown) /\ ~Succeeded(s)
       \/ Arrives(s, DOMAIN Routes \ (Shown \cup Reads \cup {"logout"}))
    /\ req' = Over(s, {})
    /\ misled' = misled \cup Overtaken(s) /\ UNCHANGED <<tab, out>>

\* Another site's page reads no answer; its cookies would be stored.
ForeignAnswered(s) ==
    /\ At(s, "answered") /\ req[s].tab = None
    /\ jar' = CookiesAfter(s) /\ req' = Over(s, {})
    /\ UNCHANGED <<race, sess, account, tab, lost, misled, out>>

\* The network fails before the request is handled or after, or the server
\* does after it committed.  A session query shows its error; logging out goes on.
Lose(s) ==
    LET t == req[s].tab IN
    /\ At(s, "sent") \/ At(s, "answered")
    /\ t # None
    /\ CASE req[s].route = "logout" -> SignOutLocally(t)
         [] req[s].route = "session" /\ req[s].heard -> tab' = [tab EXCEPT ![t].error = "failed"]
         [] OTHER -> UNCHANGED tab
    /\ req' = Over(s, IF req[s].route = "logout" THEN Reads ELSE {})
    /\ lost' = IF req[s].sets \in Token THEN lost \cup ({req[s].cookie} \ {None}) ELSE lost
    /\ UNCHANGED <<race, jar, sess, account, misled, out>>

-----------------------------------------------------------------------------
(* Elsewhere: another device, an administrator, the passage of time. *)

Happens(s) ==
    /\ At(s, "idle") /\ "elsewhere" \in race[s]
    /\ req' = To(s, "done")
    /\ UNCHANGED <<race, jar, tab, lost, misled, out>>

SessionEnds(s, t) ==
    /\ Happens(s) /\ Live(t)
    /\ sess' = [sess EXCEPT ![t].state = "revoked"] /\ UNCHANGED account

MembershipEnds(s, o) ==
    /\ Happens(s) /\ account.role[o] # None
    /\ account' = [account EXCEPT !.role[o] = None] /\ UNCHANGED sess

OrganizationSuspended(s, o) ==
    /\ Happens(s) /\ o \notin account.suspended
    /\ account' = [account EXCEPT !.suspended = @ \cup {o}] /\ UNCHANGED sess

-----------------------------------------------------------------------------
Browses(s) ==
    \/ \E t \in Tab :
         \/ LoginScreen(s, t) \/ MfaScreen(s, t) \/ RegisterScreen(s, t)
         \/ VerifyEmailScreen(s, t) \/ ResendForm(s, t)
         \/ ForgotPasswordScreen(s, t) \/ ResetPasswordScreen(s, t)
         \/ SessionQuery(s, t) \/ SignOutButton(s, t) \/ SessionsPanel(s, t)
         \/ PasswordPanel(s, t) \/ MfaPanel(s, t)
         \/ MemberList(s, t) \/ MemberRow(s, t) \/ InvitationList(s, t) \/ InvitationRow(s, t)
         \/ InviteForm(s, t) \/ OtherCalls(s, t)
         \/ \E o \in Org : OrganizationSwitcher(s, t, o)
         \/ \E id \in Token : SessionRow(s, t, id)
    \/ \E route \in race[s] \cap DOMAIN Routes : ForeignPage(s, route)

Serves(s) ==
    \/ Admit(s) \/ Declines(s) \/ LogoutHandled(s) \/ SessionHandled(s) \/ SessionsHandled(s)
    \/ RevokeSessionHandled(s) \/ RevokeOthersHandled(s) \/ ResetHandled(s)
    \/ VerifyEmailHandled(s) \/ FactorHandled(s) \/ JoinHandled(s) \/ ScopedHandled(s)
    \/ OthersHandled(s)
    \/ \E t \in Token :
         LoginHandled(s, t) \/ VerifyHandled(s, t) \/ SwitchHandled(s, t) \/ ChangeHandled(s, t)

Answered(s) ==
    \/ LogoutAnswered(s) \/ LoginAnswered(s) \/ MfaAnswered(s) \/ SessionAnswered(s)
    \/ SwitchAnswered(s) \/ SessionsAnswered(s) \/ RevokeSessionAnswered(s)
    \/ OtherAnswered(s) \/ ForeignAnswered(s)

Next ==
    \/ \E s \in Slot : Browses(s) \/ Send(s) \/ Serves(s) \/ Answered(s) \/ Lose(s)
    \/ \E t \in Tab : ShellRedirects(t)
    \/ \E s \in Slot, t \in Token : SessionEnds(s, t)
    \/ \E s \in Slot, o \in Org : MembershipEnds(s, o) \/ OrganizationSuspended(s, o)

Spec == Init /\ [][Next]_vars

-----------------------------------------------------------------------------
TypeOK ==
    /\ race \in Races
    /\ jar \in Jar
    /\ sess \in [Token -> Session]
    /\ account \in Account
    /\ tab \in [Tab -> TabState]
    /\ req \in [Slot -> Request]
    /\ lost \subseteq Token /\ misled \subseteq Tab
    /\ out \in {None, "logout", "revokeSession"}

\* The CSRF guard refuses a request of the application only when the session
\* cookie was replaced after the screen read the other one: whatever rotates,
\* ends or overtakes, both cookies move together.
CsrfRefusesOnlyStraddlers ==
    \A s \in Slot : req[s].status = "forged" =>
        req[s].tab = None \/ req[s].began # req[s].cookie

\* A screen names one organisation and offers what may be done in that one,
\* though the session's organisation and the tenant are read separately.
AScreenIsOfOneOrganization ==
    \A t \in Tab : tab[t].doc.of \in {None, tab[t].doc.org}

\* What a screen does is done in the organisation it showed, or refused, even
\* after another tab has switched the session they share.
ActionsLandWhereShown ==
    \A s \in Slot : req[s].landed # None => req[s].landed = req[s].path

\* A confirmed logout with nothing beside it leaves no cookie behind, whatever
\* the other tabs go on to send, until somebody signs in.
SignOutIsFinal == out = "logout" => jar = EmptyJar

\* The browser is left with a session that was rotated only while the answer is
\* on its way, or when it was lost.
ARotationIsFollowed ==
    jar.session # None /\ sess[jar.session].state = "rotated" =>
        \/ jar.session \in lost
        \/ \E s \in Slot : At(s, "answered") /\ req[s].cookie = jar.session /\ req[s].sets \in Token

\* With nothing under way, a tab that shows the application shows the
\* organisation its session acts in, unless another tab, a login over a cached
\* document, an older read or the answer to a request of an older session has
\* overtaken it.
ScreensKeepUp ==
    Quiet => \A t \in Tab \ misled :
        Showing(t) /\ jar.session # None => tab[t].doc.org = sess[jar.session].org

\* sign-out.ts: what the browser shows as a sign-out is one the server has
\* performed, by either of its two routes.
EverySignOutIsFinal == out # None => jar.session = None \/ ~Live(jar.session)
=============================================================================
