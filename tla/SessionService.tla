--------------------------- MODULE SessionService ---------------------------
(***************************************************************************)
(* The session machine: SessionService over the Session table (Postgres)   *)
(* and the Redis lookup cache, for the sessions of one user.               *)
(*                                                                         *)
(* Requests run concurrently on any number of API instances.  Every call   *)
(* to Postgres or to Redis is one step; anything may happen between two    *)
(* steps of a request.  What a row and a cached snapshot carry that never  *)
(* changes after the insert (owner, organisation, address) is left out.    *)
(***************************************************************************)
EXTENDS Integers, FiniteSets

CONSTANTS
    Session,          \* session ids, each with its own token and cache key
    Request,          \* requests that may be in flight together
    None,             \* no session
    CacheTTL,         \* policy.cacheTtlSeconds
    IdleTimeout,      \* policy.idleTimeoutSeconds
    AbsoluteLifetime, \* policy.absoluteLifetimeSeconds
    RememberLifetime, \* policy.rememberMeLifetimeSeconds
    PendingLifetime,  \* policy.pendingMfaLifetimeSeconds
    Logins,           \* the <<status, rememberMe>> a login may issue
    MaxOp,            \* bound: how long one request may take
    MaxOutages,       \* bound: how often Redis becomes unreachable
    MaxTime           \* bound: the last tick of the clock

ASSUME NoneAssumption == None \notin Session
ASSUME PolicyAssumption ==
    /\ CacheTTL \in Nat \ {0}
    /\ IdleTimeout \in Nat \ {0}
    /\ AbsoluteLifetime \in Nat \ {0}
    /\ RememberLifetime \in Nat \ {0}
    /\ PendingLifetime \in Nat \ {0}
    /\ Logins \subseteq {"PENDING_MFA", "ACTIVE"} \X BOOLEAN
ASSUME BoundAssumption == MaxOp \in Nat /\ MaxOutages \in Nat /\ MaxTime \in Nat

VARIABLES
    now,      \* the wall clock
    row,      \* the Session table
    cache,    \* the Redis keys session:v1:<tokenHash>
    redisUp,  \* Redis answers
    outages,  \* how often it has stopped answering
    pc,       \* the step each request takes next
    on,       \* the session a request works on (or, in a sweep, spares)
    began,    \* the `now` a request captured
    held,     \* the snapshot a resolve is about to renew or to cache
    listed,   \* the sessions a sweep enumerated
    todo      \* the sessions a sweep still has to poison or to revoke

store    == <<row, cache>>
outage   == <<redisUp, outages>>
locals   == <<on, began, held, listed, todo>>
vars     == <<now, row, cache, redisUp, outages, pc, on, began, held, listed, todo>>

-----------------------------------------------------------------------------
(* Data. *)

Status == {"PENDING_MFA", "ACTIVE"}

\* What renewal moves.  The other cached columns never change after the insert.
Snapshot == [seen : Nat, idle : Nat]

\* A row is absent, live (revokedAt IS NULL) or revoked.  revokedAt is the
\* moment the row was written, 0 before.
Row == [state : {"absent", "live", "revoked"}, status : Status, remember : BOOLEAN,
        mfa : BOOLEAN, seen : Nat, idle : Nat, absolute : Nat,
        from : Session \cup {None}, revokedAt : Nat]

\* A key holds nothing, an encoded session or SESSION_TOMBSTONE, until it expires.
Entry == [kind : {"none", "live", "tomb"}, snap : Snapshot, until : Nat]

Steps == {"idle", "lookup", "touchHit", "touchRow", "fill",
          "poisonOne", "revokeOne", "poisonOld", "commit",
          "poisonListed", "match", "sweep", "poisonSwept"}

NoSnapshot == [seen |-> 0, idle |-> 0]
NoRow == [state |-> "absent", status |-> "ACTIVE", remember |-> FALSE, mfa |-> FALSE,
          seen |-> 0, idle |-> 0, absolute |-> 0, from |-> None, revokedAt |-> 0]
NoEntry == [kind |-> "none", snap |-> NoSnapshot, until |-> 0]

IsLive(s)    == row[s].state = "live"
IsRevoked(s) == row[s].state = "revoked"
LiveRows     == {s \in Session : IsLive(s)}
SnapshotOf(s) == [seen |-> row[s].seen, idle |-> row[s].idle]

\* The entry a GET returns: Redis drops a key once its TTL has passed.
Valid(s)      == now < cache[s].until
HoldsLive(s)  == Valid(s) /\ cache[s].kind = "live"
HoldsTomb(s)  == Valid(s) /\ cache[s].kind = "tomb"

-----------------------------------------------------------------------------
(* Clocks. *)

\* absoluteLifetimeSeconds
LifetimeOf(status, remember) ==
    CASE status = "PENDING_MFA" -> PendingLifetime
      [] status = "ACTIVE" /\ remember -> RememberLifetime
      [] OTHER -> AbsoluteLifetime

\* isRenewalDue
RenewalDue(snap, at) == 2 * (at - snap.seen) >= IdleTimeout

\* expiryOf: both clocks, and the instant itself is expired.
Expired(snap, absolute, at) == absolute <= at \/ snap.idle <= at

\* idleExpiryFrom
IdleFrom(at, absolute) ==
    IF at + IdleTimeout > absolute THEN absolute ELSE at + IdleTimeout

Renewed(at, absolute) == [seen |-> at, idle |-> IdleFrom(at, absolute)]

NewRow(status, remember, mfa, at, absolute, from) ==
    [state |-> "live", status |-> status, remember |-> remember, mfa |-> mfa,
     seen |-> at, idle |-> IdleFrom(at, absolute), absolute |-> absolute,
     from |-> from, revokedAt |-> 0]

RevokedRow(s) == [row[s] EXCEPT !.state = "revoked", !.revokedAt = now]
TouchedRow(s, snap) == [row[s] EXCEPT !.seen = snap.seen, !.idle = snap.idle]

-----------------------------------------------------------------------------
Init ==
    /\ now = 0
    /\ row = [s \in Session |-> NoRow]
    /\ cache = [s \in Session |-> NoEntry]
    /\ redisUp = TRUE
    /\ outages = 0
    /\ pc = [p \in Request |-> "idle"]
    /\ on = [p \in Request |-> None]
    /\ began = [p \in Request |-> 0]
    /\ held = [p \in Request |-> NoSnapshot]
    /\ listed = [p \in Request |-> {}]
    /\ todo = [p \in Request |-> {}]

\* A request starts on session s at step `step`, capturing the clock.
Start(p, s, step) ==
    /\ pc[p] = "idle"
    /\ pc' = [pc EXCEPT ![p] = step]
    /\ on' = [on EXCEPT ![p] = s]
    /\ began' = [began EXCEPT ![p] = now]

Goto(p, step) == pc' = [pc EXCEPT ![p] = step]

\* A finished request forgets what it held.
Finish(p) ==
    /\ Goto(p, "idle")
    /\ on' = [on EXCEPT ![p] = None]
    /\ began' = [began EXCEPT ![p] = 0]
    /\ held' = [held EXCEPT ![p] = NoSnapshot]
    /\ listed' = [listed EXCEPT ![p] = {}]
    /\ todo' = [todo EXCEPT ![p] = {}]

-----------------------------------------------------------------------------
(* The cache port: RedisSessionCache. *)

MayWriteLiveBlindly(s) == redisUp   \* mutant: a plain SET

\* writeLive: the Lua script refuses to run over a tombstone; an unreachable
\* Redis writes nothing.
MayWriteLive(s) == redisUp /\ ~HoldsTomb(s)

WriteLive(s, snap) ==
    cache' = IF MayWriteLive(s)
               THEN [cache EXCEPT ![s] = [kind |-> "live", snap |-> snap,
                                          until |-> now + CacheTTL]]
               ELSE cache

\* writeTombstone: unconditional, and again nothing when Redis is unreachable.
WriteTombstone(s) ==
    cache' = IF redisUp
               THEN [cache EXCEPT ![s] = [kind |-> "tomb", snap |-> NoSnapshot,
                                          until |-> now + CacheTTL]]
               ELSE cache

-----------------------------------------------------------------------------
(* issue: the row is inserted and the cache is not warmed. *)

Issue(s, status, remember) ==
    /\ row[s].state = "absent"
    /\ row' = [row EXCEPT ![s] =
                 NewRow(status, remember, FALSE, now, now + LifetimeOf(status, remember), None)]
    /\ UNCHANGED <<now, cache, outage, pc, locals>>

-----------------------------------------------------------------------------
(* resolve: the cache, then Postgres.  A request that can be answered at    *)
(* once (a tombstone, an expired or a fresh hit) changes nothing.           *)

\* A valid live entry whose renewal is due: renew through the row.
ResolveDueHit(p, s) ==
    /\ redisUp /\ HoldsLive(s)
    /\ ~Expired(cache[s].snap, row[s].absolute, now)
    /\ RenewalDue(cache[s].snap, now)
    /\ Start(p, s, "touchHit")
    /\ held' = [held EXCEPT ![p] = cache[s].snap]
    /\ UNCHANGED <<now, store, outage, listed, todo>>

\* No entry, or no Redis to ask.
ResolveMiss(p, s) ==
    /\ row[s].state # "absent"
    /\ ~redisUp \/ ~Valid(s)
    /\ Start(p, s, "lookup")
    /\ UNCHANGED <<now, store, outage, held, listed, todo>>

AcceptsForgetful(s, at) ==              \* mutant: revokedAt is not looked at
    row[s].state # "absent" /\ ~Expired(SnapshotOf(s), row[s].absolute, at)

\* resolveFromDatabase: unknown, revoked and expired rows are refused ...
Accepts(s, at) == IsLive(s) /\ ~Expired(SnapshotOf(s), row[s].absolute, at)

\* ... and an accepted one goes on to the renewal or to the cache fill.
Lookup(p) ==
    LET s == on[p] IN
    /\ pc[p] = "lookup"
    /\ UNCHANGED <<now, store, outage>>
    /\ \/ ~Accepts(s, began[p]) /\ Finish(p)
       \/ /\ Accepts(s, began[p])
          /\ held' = [held EXCEPT ![p] = SnapshotOf(s)]
          /\ Goto(p, IF RenewalDue(SnapshotOf(s), began[p]) THEN "touchRow" ELSE "fill")
          /\ UNCHANGED <<on, began, listed, todo>>

\* touch: UPDATE ... WHERE id AND revokedAt IS NULL.
TouchMatches(s) == IsLive(s)

TouchCachingOld(p) ==                   \* mutant: caches what it replaces
    LET s == on[p] IN
    /\ pc[p] \in {"touchHit", "touchRow"} /\ TouchMatches(s)
    /\ row' = [row EXCEPT ![s] = TouchedRow(s, Renewed(began[p], row[s].absolute))]
    /\ Goto(p, "fill")
    /\ UNCHANGED <<now, cache, outage, locals>>

Touch(p) ==
    LET s == on[p]  renewed == Renewed(began[p], row[s].absolute) IN
    /\ pc[p] \in {"touchHit", "touchRow"} /\ TouchMatches(s)
    /\ row' = [row EXCEPT ![s] = TouchedRow(s, renewed)]
    /\ held' = [held EXCEPT ![p] = renewed]
    /\ Goto(p, "fill")
    /\ UNCHANGED <<now, cache, outage, on, began, listed, todo>>

\* No live row: a hit goes back to Postgres for the accurate refusal, and a
\* request that came from Postgres answers revoked.
TouchMisses(p) ==
    /\ pc[p] \in {"touchHit", "touchRow"} /\ ~TouchMatches(on[p])
    /\ \/ /\ pc[p] = "touchHit" /\ Goto(p, "lookup")
          /\ UNCHANGED locals
       \/ pc[p] = "touchRow" /\ Finish(p)
    /\ UNCHANGED <<now, store, outage>>

\* The answer came from Postgres; whether it could be cached changes nothing.
Fill(p) ==
    /\ pc[p] = "fill"
    /\ WriteLive(on[p], held[p])
    /\ Finish(p)
    /\ UNCHANGED <<now, row, outage>>

-----------------------------------------------------------------------------
(* revoke and revokeOwned: poison the key, then write the row. *)

RevokeStart(p, s) ==
    /\ row[s].state # "absent"
    /\ Start(p, s, "poisonOne")
    /\ UNCHANGED <<now, store, outage, held, listed, todo>>

PoisonOne(p) ==
    /\ pc[p] = "poisonOne"
    /\ WriteTombstone(on[p])
    /\ Goto(p, "revokeOne")
    /\ UNCHANGED <<now, row, outage, locals>>

\* revokeById: UPDATE ... WHERE id AND revokedAt IS NULL; the count decides.
RevokeOne(p) ==
    /\ pc[p] = "revokeOne"
    /\ row' = IF IsLive(on[p]) THEN [row EXCEPT ![on[p]] = RevokedRow(on[p])] ELSE row
    /\ Finish(p)
    /\ UNCHANGED <<now, cache, outage>>

-----------------------------------------------------------------------------
(* rotate: read the predecessor, poison its key, then supersede it and      *)
(* insert the successor in one transaction.  Every caller asks for ACTIVE,  *)
(* and the one that rotates a PENDING_MFA session brings mfaCompletedAt.    *)

RotateStart(p, s) ==
    /\ IsLive(s) /\ ~Expired(SnapshotOf(s), row[s].absolute, now)
    /\ Start(p, s, "poisonOld")
    /\ UNCHANGED <<now, store, outage, held, listed, todo>>

PoisonOld(p) ==
    /\ pc[p] = "poisonOld"
    /\ WriteTombstone(on[p])
    /\ Goto(p, "commit")
    /\ UNCHANGED <<now, row, outage, locals>>

SuccessorAbsoluteAnew(s, at) == at + LifetimeOf("ACTIVE", row[s].remember) \* mutant

\* The absolute clock is inherited, except when a real session starts.
SuccessorAbsolute(s, at) ==
    IF row[s].status = "PENDING_MFA"
      THEN at + LifetimeOf("ACTIVE", row[s].remember)
      ELSE row[s].absolute

RotateAdmitsRevoked(s) == row[s].state # "absent" \* mutant: no revokedAt IS NULL

\* The affected-row count of the transaction's UPDATE admits the rotation.
RotateAdmits(s) == IsLive(s)

RotateCommit(p, t) ==
    LET s == on[p] IN
    /\ pc[p] = "commit" /\ RotateAdmits(s) /\ row[t].state = "absent"
    /\ row' = [row EXCEPT
                 ![s] = RevokedRow(s),
                 ![t] = NewRow("ACTIVE", row[s].remember,
                               row[s].mfa \/ row[s].status = "PENDING_MFA",
                               began[p], SuccessorAbsolute(s, began[p]), s)]
    /\ Finish(p)
    /\ UNCHANGED <<now, cache, outage>>

\* The race was lost, or the transaction failed: the key stays poisoned.
RotateFails(p) ==
    /\ pc[p] = "commit"
    /\ Finish(p)
    /\ UNCHANGED <<now, store, outage>>

-----------------------------------------------------------------------------
(* revokeMany: enumerate, poison, one UPDATE, poison what it revoked.       *)
(* Under READ COMMITTED the UPDATE sees the rows committed when it starts   *)
(* and re-checks each of them when it reaches it, so it is two steps.       *)

\* The rows a bulk statement matches; x is exceptSessionId, or None.
Matching(x) == {s \in LiveRows : s # x}

\* listLiveForUser
SweepStart(p, x) ==
    /\ Start(p, x, "poisonListed")
    /\ listed' = [listed EXCEPT ![p] = Matching(x)]
    /\ todo' = [todo EXCEPT ![p] = Matching(x)]
    /\ UNCHANGED <<now, store, outage, held>>

\* One iteration of poison's loop, before the write or after it.
PoisonNext(p, s) ==
    /\ pc[p] \in {"poisonListed", "poisonSwept"}
    /\ s \in todo[p]
    /\ WriteTombstone(s)
    /\ todo' = [todo EXCEPT ![p] = @ \ {s}]
    /\ UNCHANGED <<now, row, outage, pc, on, began, held, listed>>

PoisonedListed(p) ==
    /\ pc[p] = "poisonListed" /\ todo[p] = {}
    /\ Goto(p, "match")
    /\ UNCHANGED <<now, store, outage, locals>>

\* revokeLiveForUser's UPDATE takes its snapshot of the committed rows ...
SweepMatch(p) ==
    /\ pc[p] = "match"
    /\ todo' = [todo EXCEPT ![p] = Matching(on[p])]
    /\ Goto(p, "sweep")
    /\ UNCHANGED <<now, store, outage, on, began, held, listed>>

SweptUnchecked(p) == todo[p]            \* mutant: the listed ids, whatever their state

\* ... and writes those of them that are still live, reporting which.
Swept(p) == {s \in todo[p] : IsLive(s)}

SweepWrite(p) ==
    /\ pc[p] = "sweep"
    /\ row' = [s \in Session |-> IF s \in Swept(p) THEN RevokedRow(s) ELSE row[s]]
    /\ todo' = [todo EXCEPT ![p] = Swept(p)]
    /\ Goto(p, "poisonSwept")
    /\ UNCHANGED <<now, cache, outage, on, began, held, listed>>

PoisonedSwept(p) ==
    /\ pc[p] = "poisonSwept" /\ todo[p] = {}
    /\ Finish(p)
    /\ UNCHANGED <<now, store, outage>>

-----------------------------------------------------------------------------
(* The environment. *)

\* Time passes, and no request outlasts MaxOp.
Tick ==
    /\ now < MaxTime
    /\ \A p \in Request : pc[p] # "idle" => now < began[p] + MaxOp
    /\ now' = now + 1
    /\ UNCHANGED <<store, outage, pc, locals>>

RedisFails ==
    /\ redisUp /\ outages < MaxOutages
    /\ redisUp' = FALSE
    /\ outages' = outages + 1
    /\ UNCHANGED <<now, store, pc, locals>>

\* Redis answers again, with its keys or, restarted empty, without them.
RedisReturns ==
    /\ ~redisUp
    /\ redisUp' = TRUE
    /\ cache' \in {cache, [s \in Session |-> NoEntry]}
    /\ UNCHANGED <<now, row, outages, pc, locals>>

Resolving(p) ==
    \/ \E s \in Session : ResolveDueHit(p, s) \/ ResolveMiss(p, s)
    \/ Lookup(p) \/ Touch(p) \/ TouchMisses(p) \/ Fill(p)

Revoking(p) == (\E s \in Session : RevokeStart(p, s)) \/ PoisonOne(p) \/ RevokeOne(p)

Rotating(p) ==
    \/ \E s \in Session : RotateStart(p, s) \/ RotateCommit(p, s)
    \/ PoisonOld(p) \/ RotateFails(p)

Sweeping(p) ==
    \/ \E x \in Session \cup {None} : SweepStart(p, x)
    \/ \E s \in Session : PoisonNext(p, s)
    \/ PoisonedListed(p) \/ SweepMatch(p) \/ SweepWrite(p) \/ PoisonedSwept(p)

Issuing == \E s \in Session, login \in Logins : Issue(s, login[1], login[2])

Next ==
    \/ Issuing
    \/ \E p \in Request : Resolving(p) \/ Revoking(p) \/ Rotating(p) \/ Sweeping(p)
    \/ Tick \/ RedisFails \/ RedisReturns

Spec == Init /\ [][Next]_vars
-----------------------------------------------------------------------------
(* Properties. *)

\* Every table, key and local has its type; in particular no clock of a row
\* ever falls before the start of time.
TypeOK ==
    /\ now \in Nat
    /\ row \in [Session -> Row]
    /\ cache \in [Session -> Entry]
    /\ redisUp \in BOOLEAN
    /\ outages \in Nat
    /\ pc \in [Request -> Steps]
    /\ on \in [Request -> Session \cup {None}]
    /\ began \in [Request -> Nat]
    /\ held \in [Request -> Snapshot]
    /\ listed \in [Request -> SUBSET Session]
    /\ todo \in [Request -> SUBSET Session]

\* A sweep has revoked s, which it had not enumerated, and has not reached s
\* with its second poison pass yet.
AwaitingSecondPass(s) ==
    \E p \in Request : pc[p] = "poisonSwept" /\ s \in todo[p] \ listed[p]

\* With Redis reachable throughout and no request outlasting half the cache
\* TTL, the cache never answers for a revoked session: what the tombstones are
\* for.  The one window left is a sweep's own second pass.
RevocationIsImmediate ==
    \A s \in Session : IsRevoked(s) /\ HoldsLive(s) => AwaitingSecondPass(s)

\* However often Redis is lost, or restarts empty, an entry that outlives its
\* session's revocation is gone one cache TTL (and one request) later: "an
\* entry cached before the outage, for at most SESSION_CACHE_TTL_SECONDS".
StaleHitIsBounded ==
    \A s \in Session :
        IsRevoked(s) /\ cache[s].kind = "live"
            => cache[s].until <= row[s].revokedAt + MaxOp + CacheTTL

\* A session is rotated at most once, and only by giving it up: no two
\* successors, and no predecessor that lives beside its successor.
RotationIsLinear ==
    \A t, u \in Session :
        row[t].from # None =>
            /\ row[row[t].from].state = "revoked"
            /\ row[u].from = row[t].from => u = t

\* Renewals, revocations, rotations and sweeps that lose their race leave a
\* revoked row exactly as the winner wrote it.
RevokedRowIsFrozen ==
    [][\A s \in Session : IsRevoked(s) => row'[s] = row[s]]_row

\* Rotating buys no time: a chain of ACTIVE sessions ends when its first one
\* would have ended, whoever raced whom.
LifetimeNeverRestarts ==
    \A t \in Session :
        LET s == row[t].from IN
        s # None => \/ row[t].absolute = row[s].absolute
                    \/ row[s].status = "PENDING_MFA" /\ row[t].mfa

\* A hit never signs out a user whose row has not expired: the renewal is
\* written before the snapshot that is cached.
NoEarlyExpiry ==
    \A s \in Session :
        HoldsLive(s) /\ IsLive(s) /\ Expired(cache[s].snap, row[s].absolute, now)
            => Expired(SnapshotOf(s), row[s].absolute, now)

\* The rows are the SessionTable that the requests of the other modules share:
\* renewals, outages of Redis and lost races do not show, and every revocation
\* and rotation, with whatever it raced, is one step on live rows.
states   == [s \in Session |-> row[s].state]
lineages == [s \in Session |-> row[s].from]

Table == INSTANCE SessionTable WITH state <- states, from <- lineages
RowsAreASessionTable == Table!Spec
=============================================================================
