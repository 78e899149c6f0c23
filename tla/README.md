# Verification of the Sentinel API

TLA+ models of the logic of this repository that has to be right under concurrency, TLC
runs that check them on small instances, and TLAPS proofs of what holds for every
instance. `PROJECT.json` lists the components, runs, mutants, hazards and theorems, and
maps every definition to the lines it models. Check a run with `tlc -config X.cfg M`, the
module and configuration `PROJECT.json` names for it, and a proof module `P` with
`tlapm P.tla`.

## 1. Inventory

The repository is a multi-tenant SaaS: a NestJS API (`apps/api`) over Postgres and
Redis, a Next.js front end (`apps/web`) and shared packages. Requests run on any number of
instances, so two may interleave between any two statements. Transactions run under READ
COMMITTED, Postgres' default, which no caller changes.

| Component | State | Operations | What makes it correct | Module |
|---|---|---|---|---|
| Session machine (`session.service.ts`, `session.repository.ts`) | `Session` rows: status, organisation, two expiry clocks, lineage, `revokedAt` | issue, resolve (with renewal), rotate, revoke, bulk revocations, paged list | a revoked session answers no request; a rotation leaves one session where there was one and buys no time; nobody is signed out early | `SessionService`, refining `SessionTable` |
| Session cache (`session.cache.ts`) | Redis keys with a TTL: a session or a tombstone | read, write-unless-tombstone, tombstone | a stale hit is impossible while Redis answers, bounded when it does not | `SessionService` |
| Session flows (`login`, `mfa-verification`, `organization-switch`, `password-change`, `password-reset`, `membership.remove`, `session-management`, `logout`) | `Credential`, `Membership`, sessions, audit timestamps | issue-then-recheck, rotate-then-recheck, commit-then-sweep | nothing that a replaced password or a lost membership vouched for stays in use; the sessions form chains | `SessionFlows`, refining `SessionTable` |
| Login and lockout (`login.service.ts`, `lockout.ts`) | `failedLoginCount`, `lockedUntil` | count a failure, lock on a ladder, reset on success | no guess is free, no lock is shortened, no success slips past a lock | `Lockout` |
| Verification tokens (`token.service.ts`), registration, email verification, password reset | `User`, `Credential`, `VerificationToken` | register, issue (superseding), consume, verify, reset | one live token per purpose, used at most once, and never without its effect | `EmailTokens`, refining `SingleUseToken` |
| Second factor (`mfa-*.ts`, `recovery-codes.service.ts`, `totp.ts`) | factor, last accepted step, recovery codes, failure rows | enrol, confirm, disable, regenerate, spend, fail, promote | no step and no code is accepted twice; the failure at the limit ends the pending session | `SecondFactor` |
| Memberships, invitations, organisations (`membership.service.ts`, `invitation.service.ts`, the cascade, `organization.service.ts`) | `Organization`, `Membership`, `Invitation` | found, invite, accept, revoke, change a role, remove | an organisation keeps an owner; nobody grants, now or later, what they do not hold; an invitation ends once; overlapping requests are as good as requests one at a time | `Organizations`, refining `Roster` |
| Roles (`permissions.ts` of the contract) | none | inclusion of permission sets | | `Permissions` |
| Guards (`authentication`, `tenant-context`, `csrf`, `cross-site`, `require-mfa`, `authorization`), controllers, web application | cookies, the session document and lists that a tab caches | every route, every request a screen sends | cookies, session and screen stay together; an action lands where the screen showed it | `Browser` |
| Rate limiting (`rate-limit.guard.ts`, `sliding-window.ts`) | Redis sorted sets | consume | never more than the limit in a window; fail mode as declared | `RateLimiter` |
| Tenant isolation (`tenant-scope.ts`, `tenant-transaction.ts`, the policies) | a setting on a pooled connection | scope an operation, run it | an organisation's rows are its own, by either layer alone | `TenantIsolation` |
| Password hashing, mail, audit trail, health, storage, observability, contracts, configuration, OpenAPI, build scripts | none, or held by the platform | | | not modelled, section 6 |

How they interact: the flows share tables and nothing else, so what one module leaves to
another is a step that commits. `SessionFlows` takes a session as a row, its cache being
`SessionService`'s; `Lockout`, `SecondFactor` and `EmailTokens` end where a session is
issued, promoted or swept, which is `SessionFlows`'; `Browser` has every handler as one
step, whose inside is the other modules', and adds what surrounds it: the cookies a
request left with, the guards, the answer and the screen it arrives at.

What is hard here: rows read before an `await` and acted on after it; a cache filled from
a row that has meanwhile been revoked; tombstones that expire; Redis lost and back,
possibly empty; bulk `UPDATE`s whose snapshot is older than their writes; rotations, which
move a session from a row a sweep sees to one it does not; timestamps taken before the
transaction that carries them commits; compare-and-set writes and unique indexes behind
reads that were not locked; a process that dies between a commit and what was to follow;
and two tabs that share cookies but not what they show. `PROJECT.json` lists each at its
line.

## 2. The modules

A request is a sequence of steps; `pc` names the one it takes next, `my` (or `req`,
`call`) what it holds between them. A step is what no other request can get between: one
statement of one request outside a transaction, and inside one a lock taken, a decision
read, or the commit, at which the writes show. A request runs at most once; `Races` says
which requests an instance lets race each other. A request that a process would run after
its death, or whose transaction fails, is an action of its own (`Die`, `Fail`, `Crash`).

### SessionService

One user's sessions. A row is absent, live or revoked, with the status, the two clocks,
the "remember me" and MFA marks and the predecessor. A cache key holds nothing, a snapshot
(`lastSeenAt`, `idleExpiresAt`: the only cached columns that move) or the tombstone, until
a time.

| Code | Actions |
|---|---|
| `issue` | `Issue` |
| `resolve` → `resolveFromDatabase` → `renew` → `writeLive` | `ResolveDueHit` or `ResolveMiss`; `Lookup`; `Touch` or `TouchMisses`; `Fill` |
| `revoke`, `revokeOwned` | `RevokeStart`, `PoisonOne`, `RevokeOne` |
| `rotate` | `RotateStart`, `PoisonOld`, `RotateCommit` or `RotateFails` |
| `revokeMany` | `SweepStart`, `PoisonNext`…, `PoisonedListed`, `SweepMatch`, `SweepWrite`, `PoisonNext`…, `PoisonedSwept` |
| Redis, time | `RedisFails`, `RedisReturns` (with its keys, or without), `Tick` |

A bulk `UPDATE` is two steps: under READ COMMITTED it works on the rows of the snapshot
taken when it starts and re-checks each as it reaches it. A resolve that answers at once
changes nothing and is no action. The clock counts abstract ticks; `MaxOp` bounds how long
a request takes. It is an assumption, not a fact about the code: neither Prisma nor the
Redis client has a command timeout, so the theorem about immediate revocation names it as
a hypothesis.

### SessionTable

What `SessionService` and `SessionFlows` both promise of the rows, in three atomic actions:
`Issue`, `Rotate` (one live row ends, its successor begins, in one step) and `Revoke` (of
any of those that are live). Both modules take it by `INSTANCE … WITH` and are checked and
proved to implement it (`RowsAreASessionTable`), so a session that `SessionService` models
with its clocks and its cache and `SessionFlows` as a bare row is the same thing. The
predecessor of a session is a column of `SessionService`'s row (`rotatedFromId`); the flows
keep it in the request that rotated, which `lineages` looks up.

### SessionFlows

The flows over the tables they share, one user. Sessions carry history fields that the
code does not store and no guard reads: the password that vouches for the session, the
kind of request that inserted it, and whether it or an ancestor was inserted between the
snapshot and the write of a bulk revocation (`straddled`).

| Code | Actions |
|---|---|
| `login` → `succeed` | `LoginVerify`, `LoginIssue`, then `Answer`, or `Refuse` and `Undo` |
| `verify` → `promote` | `PromoteStart`, `Rotate` or `RotateLost`, `Answer`, or `Refuse` and `Undo` |
| `switch` | `SwitchStart`, then as `promote` |
| `change` | `ChangeStart`, `Stamp`, `Replace` or `ReplaceLost`, `Match`, `Sweep`, `Rotate` or `RotateLost` |
| `reset` | `ResetStart`, `Stamp`, `Replace` or `ReplaceLost`, `Match`, `Sweep` |
| `remove` | `Remove`, `Match`, `Sweep` |
| `revokeOthers`; `revokeOne`, `logout` | `OthersStart`, `Match`, `Sweep`; `RevokeOne` |

`Stamp` is a step of its own because `Credential.updatedAt` and the audit row's `createdAt`
are taken when their statements run, before the transaction commits; both are one number
here. A login's rehash changes neither the password nor an audit row and is left out.

### Permissions, Organizations

`Permissions` is the contract's table, each permission standing for those that exactly the
same roles hold: authority is only ever compared by inclusion. `Organizations` runs the
requests over two tables under the organisation's row lock.

| Code | Actions |
|---|---|
| `organization.create` | `Found` |
| guards, then `invite`, `updateRole`, `remove`, `revoke`, `accept` | `InviteStart`, `RoleStart`, `RemoveStart`, `RevokeStart`, `AcceptStart` |
| `lockOrganization`; what the transaction reads and decides | `Lock`; `Read` with `InviteDecides`, `RoleDecides`, `RemoveDecides`, `RevokeDecides`, `AcceptDecides` |
| the writes and the commit, the cascade included | `WriteInvitation`, `WriteMembership`, `WriteRevocation`, `WriteAcceptance` |
| rollback; time | `Fail`; `Expire` |

`Roster` is what these steps promise together: members and invitations on which a founding,
an invitation, a change of role or a removal with its cascade, a revocation and an
acceptance each happen at one moment, on what is true at that moment. `Organizations`
implements it (`RequestsAreAtomic`): a request takes effect where it commits; the decisions
it read before, the locks, the row versions and the expiry do not show. `Roster` adds
nothing to the policy of who may do what to a member, which `RoleDecides` and its like
decide; it has what must not be lost between that decision and the commit.

A unique index that would refuse a write leads to a step `"conflict"` that `TypeOK` does not
allow: that it is never reached is part of what is checked and proved.

### EmailTokens and SingleUseToken

`SingleUseToken` is the promise of an emailed link: of each purpose only the newest works,
and once. `EmailTokens` is the tables and statements that keep it. A statement waits for
the rows that an uncommitted transaction has written, and looks again.

| Code | Actions |
|---|---|
| `register`, `createAccount` | `RegisterStart`, `CreateAccount`, `Mail` |
| `resend`, `request` → `issueInTransaction` | `IssueStart`, `Lock`, `Supersede`, `Insert`, `Mail` |
| `verify` → `consumeInTransaction` | `RedeemStart`, `Consume`, `VerifyApply` |
| `reset` | `RedeemStart`, `Consume`, `ResetRead`, `ResetApply` |
| a signed-in change of the password | `ChangeStart`, `ChangeApply` |
| rollback or death; time | `Fail`; `Expire` |

The refinement (`Promise`, an `INSTANCE … WITH`) maps `newest` to the unconsumed row of each purpose and
`redeemed` to the rows that a redemption consumed; an issue is `Insert` or `CreateAccount`, a redemption is
`VerifyApply` or `ResetApply`, and everything else stutters.

### Lockout

| Code | Actions |
|---|---|
| `login`: read the account; verify, and refuse if locked; take the time again | `Read`; `Verify`; `Judge` |
| `recordFailure`, `succeed`, in a transaction that looks at the lock again | `Fail`, `Succeed` |
| a completed reset of the password; time | `Reset`; `TimePasses` |

Its names are apart from `RateLimiter`'s, as one module proves about both.

### SecondFactor

| Code | Actions |
|---|---|
| `verify`: resolve the pending session; read the factor or the codes | `VerifyStart`; `ReadTotp`, `ReadRecovery`, `ReadNothing` |
| spend; promote | `SpendTotp`, `SpendRecovery`; `Promote` |
| `recordFailure`; the revocation after its commit | `Fail`; `Revoke` |
| `enroll`, `confirm`, `disable`, `regenerate`: the read before the lock; the lock; the decision; the commit | `EnrolmentStart`; `Lock`; `Decide`; `Commit` |
| death; time | `Die`; `Tick` |

### RateLimiter

| Code | Actions |
|---|---|
| the guard's stage that has a scope of the class; its clock | `Arrive` |
| `CONSUME_SCRIPT` run and answered; run, and its reply lost | `Consume`; `LoseReply`, which the client sends again |
| a command that fails, `applyFailMode` | `CommandFails` |
| time, and keys that expire | `Tick` |

Each instance has its own clock (`Skew`); the reading is a step before the script that uses
it. `Spread` is how far apart two scripts' readings of one moment can be. An entry's member,
drawn at random by the code, is the number of its request. `entries` is what Redis holds,
`charged` who truly took a slot and when: the properties are about the second, the script
decides by the first.

### TenantIsolation

`decideScope` is the client extension's plan for every operation on every kind of model,
with any condition and any key in the data. `Begin`, `SetConfig`, `Operate` and `End` are
`withTenantTransaction` on a pooled connection; `Plain` is the unscoped client. A `nested`
operation is a relation the extension does not see.

### Browser

One user's tabs, the two cookies they share, and the requests. A CSRF token is named by
the session token it derives from.

| Code | Actions |
|---|---|
| the screens, `ApiClient.request` | one action a screen (`LoginScreen` … `InviteForm`), `OtherCalls` for the routes no screen calls yet, `ForeignPage` for another site; each with `Compose`, which reads the CSRF cookie |
| the browser attaches the session cookie | `Send` (a GET leaves at once) |
| the guards in their order, over every route's decorators | `Admit` by `Verdict` |
| the handlers, one step each | `LoginHandled` … `OthersHandled`, `Declines` |
| what a screen does with an answer | `LogoutAnswered` … `OtherAnswered`, `ShellRedirects`, `ForeignAnswered` |
| the network or the server fails; another device, an administrator | `Lose`; `SessionEnds`, `MembershipEnds`, `OrganizationSuspended` |

## 3. What the runs show

| Run | Instance | What holds, or fails |
|---|---|---|
| `healthy` | 3 sessions from one login, 2 requests, `CacheTTL` 3, `MaxOp` 1, 3 ticks, Redis up | the cache never answers for a revoked session outside a sweep's second pass; a rotation starts no lifetime; losers of a race leave a revoked row as it is; the rows implement `SessionTable` |
| `clocks` | 1 session, 2 requests, 2 outages, `CacheTTL` 2, `IdleTimeout` 6, 7 ticks | a stale hit is gone a TTL and a request after the revocation, whenever Redis is lost or restarts empty; a hit expires nobody whose row has not expired |
| `races` | 3 races of 4 requests, 4 sessions of which 2 may stand already, 2 passwords, one crash | three ways, named in the properties, and no other, lead a session past a replaced password or a lost membership; the rows implement `SessionTable` |
| `organizations` | 6 races of 3 requests, 2 organisations (one to be founded), 3 users, 3 roles, 2 invitations | an owner remains; live invitations are backed by their issuer's role of now; members are not invited; the requests implement `Roster`; no unique index is met |
| `email_tokens` | 6 races of 3 requests, 4 tokens | the tables implement `SingleUseToken`; a token is spent with its effect or not at all; every request ends |
| `lockout` | 5 attempts of which one knows the password, threshold 2, ladder 1, 2, 6 ticks | every failure counts; counted failures are a rung apart; a live lock stands |
| `second_factor` | 6 races of 4 requests, 2 sessions, limit 2, 2 codes, 3 steps, one crash | every promotion has a step or a code of its own; one set of codes; the session at the limit goes; accepted steps rise |
| `rate_limiter` | 3 calls, one of which is unlucky with Redis, 2 instances a tick apart, a window of 2 seconds of 2 ticks, scripts up to 1 tick late, 10 ticks | a window overflows by no more than the clocks' disagreement; an address is bounded; classes that fail closed pay; refusals are earned; waiting `Retry-After` is enough |
| `tenant_isolation` | 2 organisations, 3 rows, 1 connection, 2 tasks; every model, operation, condition and key | each of the two layers isolates alone, and neither hides an own row |
| `browser` | 8 races of 3 requests and one of 4, 2 tabs, 3 session tokens, 2 organisations of which one requires MFA, 3 accounts | CSRF refuses only across a change of cookie; a screen is of one organisation and acts there; sign-out is final; rotations are followed; screens keep up |
| `reset_misses` | a reset against a switch | finding 1: `ResetRevokesEverySession` fails |
| `sign_out` | the `browser` instance | finding 2: `EverySignOutIsFinal` fails |

`CHECK_DEADLOCK FALSE` where a request runs once and an instance ends when all have.

**Bounds.** The hazards of `PROJECT.json` need two requests, or three where one moves a
session out of another's snapshot; the instances of the flows have one more. Three sessions are a
predecessor, its successor and the next; two organisations are the one acted in and
another; the roles are the owner's, one that manages members beneath it and one that does
not; a threshold of two has one failure below it, one at it and the rest above; a
ladder of two rungs has one that is stepped over and the cap. The clocks run past the
longest interval an instance compares (a TTL and a request after the last outage, a window
and a wait after it). `Races` brings together the kinds that write the same rows or read
what the other writes; the proofs hold for any races. `healthy` explores one chain of rotations (`OneLogin`): a second
login adds no row that the first one's chain reads. The mutants show that the bounds are
large enough for each property to fail: each is one plausible slip of the code, and TLC
finds it within these instances. Where a proof exists, section 4, no bound matters.

**Findings.**

1. *A reset does not revoke every session* (`reset_misses`). `password-reset.service.ts:436`
   says that a reset revokes every session there is, and `session.service.ts:817-819` that
   an `updateMany` sees what was created meanwhile. The statement works on the rows of its
   snapshot. A switch that commits between the snapshot and the write leaves the
   predecessor revoked, so skipped, and the successor absent from the snapshot, so live;
   and a switch looks again at the membership, not at the password. A change's own rotation
   does the same. `OnlyStraddlersEscape` says that nothing else does.
2. *A sign-out that signs nobody out* (`sign_out`). The settings page tells "this device"
   by the last list it read. A changed password rotates the session and leaves that list
   in the cache, so the row is the predecessor's: its revocation answers 200, the cookies
   stay, and the browser shows the login page while still signed in. `SignOutIsFinal` says
   that the logout button does what it says.

**Excused windows.** A property that excuses a state names it. `Evicting` and `Removing`
excuse the time between a commit and its sweep, and so a process that dies there: the
code has no retry, and the sessions of the old password stay until they expire. So does
`LockedOutSessionsGo` for a process that dies between the failure at the limit and the
revocation. `OnlyACarriedSessionStays` excuses a change of the password that carries a
session across a removal; the guards resolve the membership again at each request, so such
a session acts in no organisation.

**Fairness.** Safety needs none, and no other specification states any. `EmailTokens` has
`WF_vars(Step(f))`: a request that is running is run by its event loop, and a statement
that waits for a row or a lock gets it when the holder's transaction ends, which Postgres
wakes it for; `Fail` is not fair and may end a request at any step. `RequestsEnd` then
says that locks and row waits form no cycle: the requests take their locks in one order.

## 4. What is proved

Each theorem is for every value of the constants, under the named assumptions of its
module: `None` is no value of the sets it joins, lengths, limits and bounds are natural
numbers (positive where the code divides by them or counts to them), the lockout ladder is
not empty, `Races` holds requests that exist, the roles are
among the contract's and one is the owner. Every invariant is inductive: `InitIInv` or its
like, one lemma for each action or kind of action, `NextIInv`, and a temporal step.

- **`SessionServiceProofs`**: `TypeCorrect`; `RevokedStaysFrozen` and `RotationStaysLinear`
  from `RowEffects`, which says once for all actions what a step may do to a row.
  `StalenessIsBounded` from `Bounded`: a fill in flight began no later than the revocation
  it may outlive. `RevocationTakesEffectAtOnce`, under `MaxOutages = 0` and
  `2 * MaxOp < CacheTTL`, from `Poisoned`, which follows a tombstone from the request that
  wrote it (`PoisonHolds`) to the revocation that relies on it (`TombstoneOutlives`). The
  factor two is real: a tombstone may be a request old when the row is written, and a
  resolve may have read the row a request before it fills. `LifetimesNeverRestart`
  from what a step may do to a row's absolute end and its predecessor (`KeepsTerms`): only
  a promotion sets it anew, and a rotation copies it from a live row. `NoHitExpiresEarly`,
  under `EntriesAreBrief`, two entries' lives and two requests fitting in the idle timeout,
  from `Clocks`: what is cached was renewed less than half the timeout before the request
  that filled it began. The hypothesis is of the configuration: `env.ts:231,249` default to a
  day and a minute, but the schema bounds each alone, and TLC refutes the property on an
  instance whose idle timeout is a tick longer than its TTL.
  `RowsStayASessionTable`, the refinement of `SessionTable`: a step that writes a row is an
  issue, a rotation of a live row into an absent one, or ends live rows (`Swept`, the
  re-checked predicate of the bulk `UPDATE`, is what makes a sweep one); an absent row has
  no predecessor (`UnissuedIsBlank`), so an issue changes no lineage.
- **`SessionFlowsProofs`**: the three escape properties. The invariant `Reached` says, of
  each session, who still owes its revocation (`Awaited`, `Departing`: a sweep that will
  match it, or has) or who will still look at it again. A replacement makes every session
  `Awaited`, a snapshot keeps it so, a write ends it; a rotation passes it on, unless it
  straddles a sweep, because nobody's snapshot holds a row that does not exist yet; an
  answer is given only to what stands. Two further conjuncts are what makes this inductive:
  a session has one issuer, and a pending one is of no organisation. `RowsStayASessionTable`,
  the same refinement, needs them and one more (`Unrotated`): a request with its rotation
  ahead of it holds no successor, so a rotation extends one chain and rewrites none. What
  follows of the table follows of the flows: `ChainsOnly`, no session has two successors or
  lives on beside one.
- **`OrganizationsProofs`**: `TypeCorrect`, with which no request meets a unique index;
  `OwnersRemain`, `NoInvitationIsUnbacked`, `MembersAreNotInvited`,
  `InvitationsAreSpentOnce`, that what has ended stays as it ended. A decision taken under
  the row lock still stands at the commit (`Decided`), as whatever it rests on is only
  written under that lock. `RequestsTakeEffectAtOnce`, the
  refinement of `Roster`, puts these together: a commit is the atomic request, on the tables
  of that moment, and every other step stutters; a rejected or rolled-back request leaves
  none. `Decided` gives the guard of the atomic request at the commit; what `WriteInvitation`
  supersedes and what the cascade revokes are all that `Roster` ends in the same moment.
- **`EmailTokensProofs`**: `TypeCorrect`; `TokensAreSingleUse`, the refinement of
  `SingleUseToken`, step by step; `TokensBuyTheirEffect`. One unconsumed token a purpose
  (`UniqueLive`) rests on the issuing lock, on the row that one transaction at a time may
  have written (`RowsExclusive`), and on there being no token without an account.
- **`ThrottlesProofs`**, of `Lockout`: `NoFailureIsLost`, `Paced`, `LockHolds`,
  `LockoutTypeCorrect`; besides, no attempt judges by a time that has not come.
- **`ThrottlesProofs`**, of `RateLimiter`, for any requests, limits and clocks one of which
  is furthest ahead: `EntriesStandForSlots` is the invariant behind the rest. No count can be
  carried from one moment to the next, for a window moves with time; what a step keeps are
  two injections. Each slot that no clock takes for old (`Recent`) has its own entry
  (`RecentHold`, `RecentDiffer`), and each entry that some clock counts has its own slot
  (`EntriesWerePaid`, `EntriesDiffer`). The first bounds the recent slots by the members of
  the sorted set, whence `WindowsHold`: what a step adds to the history is of that moment,
  so only windows that end now can grow. The second makes the entries a caller is refused
  for true slots, `EveryRefusalIsEarned`. A script that runs a second time finds its entry
  because the reply was lost at most `MaxLag` ago, and a key outlives its last slot by a
  window (`KeysOutlive`). `AddressesHold` adds a third: a slot of an account goes with one
  that the address paid first, at the only two keys that the request names (`OneKeyAScope`).
  `RetryAfterHolds` rests on `RoomIsNear` (the oldest entry goes by the time the caller was
  told, the rounding and the clamp of `resetSeconds` included), `ClosedStayClosed` on what a
  request owes (`TodoIsDue`).
- **`SecondFactorProofs`**: `PromotionsPaid`, `OneSet`, `LockedOutGo`, `StepsRiseAlways`,
  `TypeCorrect`. The centre is `Gone`: what was spent cannot be spent again, because the
  factor's last step has passed it or its code is deleted, and ids of factors and sets are
  drawn once, so a factor that is enrolled anew revives nothing.
- **`TenantIsolationProofs`**: `PoolIsClean`, `ExtensionAlone`, `PoliciesAlone`,
  `NothingOfItsOwnIsHidden`: the plan of `decideScope` by cases over kinds of models and
  operations; the connection's setting is the organisation of the transaction that runs.
- **`BrowserProofs`**: `CsrfIsExact`, `ScreensAreOfOneOrganization`, `ActionsLand`,
  `LogoutIsFinal`, `RotationsAreFollowed`, `TypeCorrect`. Both cookies are of one session
  (`Twins`), a header is what its screen read, and after a confirmed logout every request
  still in flight is `Harmless`. `ScreensFollow`, for
  `ScreensKeepUp`, from `Current`: the document of a tab that nothing has overtaken is of the
  organisation its cookie's session acts in, whatever is under way, and an answer with a
  cookie takes the place of its own request's session or signs somebody in. Without the
  last the proof fails, and showed that an answer to a request of an older session overtakes
  its own tab too (`Overtaken`), which takes four requests; `browser` has that race.

## 5. What is only model-checked

`RequestsEnd`, liveness being out of TLAPS' reach; and the two properties of the findings,
which do not hold. What is proved is proved of the models: `SignOutIsFinal` and its
neighbours of a browser whose page caches as the query library is used in `apps/web`.

## 6. Not modelled

- **Components**: password hashing and the breach check (a comparison, to the flows); mail,
  fire and forget; the audit trail, append only, but for the timestamps that a promotion
  compares; health, storage, observability; contracts and configuration, whose bounds are
  assumptions; OpenAPI, generated; build scripts and migrations, whose constraints are used
  where a module relies on them.
- **Of the modelled ones**: paged lists; cached payloads that do not parse, which the code
  takes for a miss; the clocks of different instances, one everywhere but in `RateLimiter`;
  Postgres failing for good. A Redis command that fails without effect is an outage;
  `SessionService` takes one whose effect happened and whose reply was lost as the same, as
  the code only logs it. Of the web application: forms, layout, wording and the lists no
  property is about.
- **Windows seen and left without a property**, because nothing in the repository promises
  otherwise: a renewal may move an idle clock back by as long as a request lasts
  (`session.repository.ts:178`); `rotate` poisons its predecessor's key before a transaction
  that may fail, and a live session is then refused until the tombstone expires
  (`session.service.ts:684`); a logout's audit row is written after its revocation and may
  be missing (`logout.service.ts:97`); `regenerate` does not read the factor again under its
  lock (`mfa-enrolment.service.ts:359`), so codes may outlive a factor that was disabled
  meanwhile; login reads whether a factor is confirmed before it issues
  (`login.service.ts:590`), so a session may be active that a factor confirmed in between
  would have made pending.
