------------------------ MODULE SessionServiceProofs ------------------------
(***************************************************************************)
(* What SessionService guarantees for every number of sessions, requests   *)
(* and outages, and for every policy.                                      *)
(***************************************************************************)
EXTENDS SessionService, TLAPS

-----------------------------------------------------------------------------
(* Lemmas about the clocks and about the rows the operations write. *)

\* absoluteLifetimeSeconds is a whole number of seconds for every status.
LEMMA LifetimeIsNat ==
    ASSUME NEW status \in Status, NEW remember \in BOOLEAN
    PROVE  LifetimeOf(status, remember) \in Nat
BY PolicyAssumption DEF LifetimeOf, Status

\* idleExpiryFrom, the earlier of the idle and the absolute end, is a time.
LEMMA IdleFromIsNat ==
    ASSUME NEW at \in Nat, NEW absolute \in Nat
    PROVE  IdleFrom(at, absolute) \in Nat
BY PolicyAssumption DEF IdleFrom

\* What issue and rotate insert is a row of the Session table.
LEMMA NewRowIsRow ==
    ASSUME NEW status \in Status, NEW remember \in BOOLEAN, NEW mfa \in BOOLEAN,
           NEW at \in Nat, NEW absolute \in Nat, NEW from \in Session \cup {None}
    PROVE  NewRow(status, remember, mfa, at, absolute, from) \in Row
BY IdleFromIsNat DEF NewRow, Row

\* What a revocation writes is a row, revoked, stamped now, of the same lineage.
LEMMA RevokedRowIsRow ==
    ASSUME TypeOK, NEW s \in Session
    PROVE  /\ RevokedRow(s) \in Row
           /\ RevokedRow(s).state = "revoked"
           /\ RevokedRow(s).revokedAt = now
           /\ RevokedRow(s).from = row[s].from
<1>1. row[s] \in Row /\ now \in Nat
  BY DEF TypeOK
<1>2. ASSUME NEW r \in Row, NEW n \in Nat
      PROVE  [r EXCEPT !.state = "revoked", !.revokedAt = n] \in Row
  BY DEF Row
<1>3. RevokedRow(s) \in Row
  BY <1>1, <1>2 DEF RevokedRow
<1>4. /\ RevokedRow(s).state = "revoked"
      /\ RevokedRow(s).revokedAt = now
      /\ RevokedRow(s).from = row[s].from
  BY <1>1 DEF RevokedRow, Row
<1> QED BY <1>3, <1>4

\* What a renewal writes is a row that keeps its state and its lineage.
LEMMA TouchedRowIsRow ==
    ASSUME TypeOK, NEW s \in Session, NEW snap \in Snapshot
    PROVE  /\ TouchedRow(s, snap) \in Row
           /\ TouchedRow(s, snap).state = row[s].state
           /\ TouchedRow(s, snap).revokedAt = row[s].revokedAt
           /\ TouchedRow(s, snap).from = row[s].from
<1>1. row[s] \in Row
  BY DEF TypeOK
<1>2. ASSUME NEW r \in Row, NEW n \in Nat, NEW m \in Nat
      PROVE  [r EXCEPT !.seen = n, !.idle = m] \in Row
  BY DEF Row
<1>3. snap.seen \in Nat /\ snap.idle \in Nat
  BY DEF Snapshot
<1>4. TouchedRow(s, snap) \in Row
  BY <1>1, <1>2, <1>3 DEF TouchedRow
<1>5. /\ TouchedRow(s, snap).state = row[s].state
      /\ TouchedRow(s, snap).revokedAt = row[s].revokedAt
      /\ TouchedRow(s, snap).from = row[s].from
  BY <1>1 DEF TouchedRow, Row
<1> QED BY <1>4, <1>5

\* The absolute clock rotate gives a successor is a time.
LEMMA SuccessorAbsoluteIsNat ==
    ASSUME TypeOK, NEW s \in Session, NEW at \in Nat
    PROVE  SuccessorAbsolute(s, at) \in Nat
<1>1. LifetimeOf("ACTIVE", row[s].remember) \in Nat
  BY LifetimeIsNat DEF TypeOK, Row, Status
<1> QED BY <1>1 DEF TypeOK, Row, SuccessorAbsolute

-----------------------------------------------------------------------------
(* Type correctness. *)

\* The empty tables and the idle requests of the start have their types.
LEMMA TypeInit == Init => TypeOK
BY NoneAssumption DEF Init, TypeOK, NoRow, NoEntry, NoSnapshot, Row, Entry, Snapshot, Status, Steps

\* writeTombstone leaves every cache key a well-formed entry.
LEMMA WriteTombstoneType ==
    ASSUME TypeOK, NEW s \in Session, WriteTombstone(s)
    PROVE  cache' \in [Session -> Entry]
BY PolicyAssumption DEF TypeOK, WriteTombstone, Entry, NoSnapshot, Snapshot

\* writeLive leaves every cache key a well-formed entry.
LEMMA WriteLiveType ==
    ASSUME TypeOK, NEW s \in Session, NEW snap \in Snapshot, WriteLive(s, snap)
    PROVE  cache' \in [Session -> Entry]
BY PolicyAssumption DEF TypeOK, WriteLive, Entry

\* What the local variables of a request can become.
LEMMA StartType ==
    ASSUME TypeOK, NEW p \in Request, NEW s \in Session \cup {None}, NEW step \in Steps,
           Start(p, s, step)
    PROVE  /\ pc' \in [Request -> Steps]
           /\ on' \in [Request -> Session \cup {None}]
           /\ began' \in [Request -> Nat]
BY DEF TypeOK, Start

\* A request that takes its next step is at a step.
LEMMA GotoType ==
    ASSUME TypeOK, NEW p \in Request, NEW step \in Steps, Goto(p, step)
    PROVE  pc' \in [Request -> Steps]
BY DEF TypeOK, Goto

\* A finished request has well-typed, empty locals.
LEMMA FinishType ==
    ASSUME TypeOK, NEW p \in Request, Finish(p)
    PROVE  /\ pc' \in [Request -> Steps]
           /\ on' \in [Request -> Session \cup {None}]
           /\ began' \in [Request -> Nat]
           /\ held' \in [Request -> Snapshot]
           /\ listed' \in [Request -> SUBSET Session]
           /\ todo' \in [Request -> SUBSET Session]
BY DEF TypeOK, Finish, Goto, Steps, NoSnapshot, Snapshot

\* The steps that work on a session; a sweep's steps may spare none.
OneSession == {"lookup", "touchHit", "touchRow", "fill",
               "poisonOne", "revokeOne", "poisonOld", "commit"}

WorksOnSession == \A p \in Request : pc[p] \in OneSession => on[p] \in Session

Typed == TypeOK /\ WorksOnSession

\* resolve's steps keep the types, and a session to work on.
LEMMA TypedResolve ==
    ASSUME Typed, NEW p \in Request, Resolving(p) PROVE Typed'
<1> USE DEF Typed, OneSession
<1>1. ASSUME NEW s \in Session, ResolveDueHit(p, s) PROVE Typed'
  <2>1. cache[s].snap \in Snapshot
    BY DEF TypeOK, Entry
  <2>2. Start(p, s, "touchHit") BY <1>1 DEF ResolveDueHit
  <2>3. WorksOnSession' BY <2>2 DEF WorksOnSession, Start, TypeOK
  <2>4. "touchHit" \in Steps BY DEF Steps
  <2> QED BY <1>1, <2>1, <2>2, <2>3, <2>4, StartType DEF ResolveDueHit, TypeOK, store, outage
<1>2. ASSUME NEW s \in Session, ResolveMiss(p, s) PROVE Typed'
  <2>1. Start(p, s, "lookup") BY <1>2 DEF ResolveMiss
  <2>2. WorksOnSession' BY <2>1 DEF WorksOnSession, Start, TypeOK
  <2>3. "lookup" \in Steps BY DEF Steps
  <2> QED BY <1>2, <2>1, <2>2, <2>3, StartType DEF ResolveMiss, TypeOK, store, outage
<1>3. ASSUME Lookup(p) PROVE Typed'
  <2>1. on[p] \in Session BY <1>3 DEF Lookup, WorksOnSession
  <2>2. CASE Finish(p)
    <3>1. WorksOnSession' BY <2>2 DEF WorksOnSession, Finish, Goto, TypeOK
    <3> QED BY <1>3, <2>2, <3>1, FinishType DEF Lookup, TypeOK, store, outage
  <2>3. CASE ~Finish(p)
    <3>1. SnapshotOf(on[p]) \in Snapshot
      BY <2>1 DEF SnapshotOf, Snapshot, TypeOK, Row
    <3>2. \E step \in {"touchRow", "fill"} : Goto(p, step)
      BY <1>3, <2>3 DEF Lookup
    <3>3. pc' \in [Request -> Steps]
      BY <3>2, GotoType DEF Steps
    <3>4. /\ held' = [held EXCEPT ![p] = SnapshotOf(on[p])]
          /\ UNCHANGED <<now, row, cache, redisUp, outages, on, began, listed, todo>>
      BY <1>3, <2>3 DEF Lookup, store, outage
    <3>5. WorksOnSession' BY <2>1, <3>2, <3>4 DEF WorksOnSession, Goto, TypeOK
    <3> QED BY <3>1, <3>3, <3>4, <3>5 DEF TypeOK
  <2> QED BY <2>2, <2>3
<1>4. ASSUME Touch(p) PROVE Typed'
  <2> DEFINE renewed == Renewed(began[p], row[on[p]].absolute)
  <2>1. on[p] \in Session BY <1>4 DEF Touch, WorksOnSession
  <2>2. renewed \in Snapshot
    <3>1. began[p] \in Nat /\ row[on[p]].absolute \in Nat BY <2>1 DEF TypeOK, Row
    <3> QED BY <3>1, IdleFromIsNat DEF Renewed, Snapshot
  <2>3. row' \in [Session -> Row]
    <3>1. TouchedRow(on[p], renewed) \in Row BY <2>1, <2>2, TouchedRowIsRow
    <3> QED BY <1>4, <3>1 DEF Touch, TypeOK
  <2>4. Goto(p, "fill") BY <1>4 DEF Touch
  <2>5. "fill" \in Steps BY DEF Steps
  <2>6. WorksOnSession' BY <1>4, <2>1, <2>4 DEF Touch, WorksOnSession, Goto, TypeOK
  <2> QED BY <1>4, <2>2, <2>3, <2>4, <2>5, <2>6, GotoType DEF Touch, TypeOK, outage
<1>5. ASSUME TouchMisses(p) PROVE Typed'
  <2>1. CASE Finish(p)
    <3>1. WorksOnSession' BY <2>1 DEF WorksOnSession, Finish, Goto, TypeOK
    <3> QED BY <1>5, <2>1, <3>1, FinishType DEF TouchMisses, TypeOK, store, outage
  <2>2. CASE Goto(p, "lookup") /\ UNCHANGED locals
    <3>1. on[p] \in Session BY <1>5 DEF TouchMisses, WorksOnSession
    <3>2. WorksOnSession' BY <2>2, <3>1 DEF WorksOnSession, Goto, TypeOK, locals
    <3>3. "lookup" \in Steps BY DEF Steps
    <3> QED BY <1>5, <2>2, <3>2, <3>3, GotoType DEF TouchMisses, TypeOK, store, outage, locals
  <2> QED BY <1>5, <2>1, <2>2 DEF TouchMisses
<1>6. ASSUME Fill(p) PROVE Typed'
  <2>1. on[p] \in Session /\ held[p] \in Snapshot BY <1>6 DEF Fill, WorksOnSession, TypeOK
  <2>2. cache' \in [Session -> Entry] BY <1>6, <2>1, WriteLiveType DEF Fill
  <2>3. WorksOnSession' BY <1>6 DEF Fill, WorksOnSession, Finish, Goto, TypeOK
  <2> QED BY <1>6, <2>2, <2>3, FinishType DEF Fill, TypeOK, outage
<1> QED BY <1>1, <1>2, <1>3, <1>4, <1>5, <1>6 DEF Resolving

\* revoke's steps keep the types, and a session to work on.
LEMMA TypedRevoke ==
    ASSUME Typed, NEW p \in Request, Revoking(p) PROVE Typed'
<1> USE DEF Typed, OneSession
<1>1. ASSUME NEW s \in Session, RevokeStart(p, s) PROVE Typed'
  <2>1. Start(p, s, "poisonOne") BY <1>1 DEF RevokeStart
  <2>2. WorksOnSession' BY <2>1 DEF WorksOnSession, Start, TypeOK
  <2>3. "poisonOne" \in Steps BY DEF Steps
  <2> QED BY <1>1, <2>1, <2>2, <2>3, StartType DEF RevokeStart, TypeOK, store, outage
<1>2. ASSUME PoisonOne(p) PROVE Typed'
  <2>1. on[p] \in Session BY <1>2 DEF PoisonOne, WorksOnSession
  <2>2. cache' \in [Session -> Entry] BY <1>2, <2>1, WriteTombstoneType DEF PoisonOne
  <2>3. "revokeOne" \in Steps BY DEF Steps
  <2>4. WorksOnSession'
    BY <1>2, <2>1 DEF PoisonOne, WorksOnSession, Goto, TypeOK, locals
  <2> QED BY <1>2, <2>2, <2>3, <2>4, GotoType DEF PoisonOne, TypeOK, outage, locals
<1>3. ASSUME RevokeOne(p) PROVE Typed'
  <2>1. on[p] \in Session BY <1>3 DEF RevokeOne, WorksOnSession
  <2>2. row' \in [Session -> Row]
    BY <1>3, <2>1, RevokedRowIsRow DEF RevokeOne, TypeOK
  <2>3. WorksOnSession' BY <1>3 DEF RevokeOne, WorksOnSession, Finish, Goto, TypeOK
  <2> QED BY <1>3, <2>2, <2>3, FinishType DEF RevokeOne, TypeOK, outage
<1> QED BY <1>1, <1>2, <1>3 DEF Revoking

\* The successor a rotation inserts, and what the transaction leaves behind.
Successor(p) == NewRow("ACTIVE", row[on[p]].remember,
                       row[on[p]].mfa \/ row[on[p]].status = "PENDING_MFA",
                       began[p], SuccessorAbsolute(on[p], began[p]), on[p])

\* The successor rotate inserts is a live row that names its predecessor.
LEMMA SuccessorIsRow ==
    ASSUME TypeOK, NEW p \in Request, on[p] \in Session
    PROVE  /\ Successor(p) \in Row
           /\ Successor(p).state = "live"
           /\ Successor(p).from = on[p]
           /\ Successor(p).revokedAt = 0
<1>1. SuccessorAbsolute(on[p], began[p]) \in Nat
  BY SuccessorAbsoluteIsNat DEF TypeOK
<1>2. /\ row[on[p]].remember \in BOOLEAN
      /\ (row[on[p]].mfa \/ row[on[p]].status = "PENDING_MFA") \in BOOLEAN
      /\ began[p] \in Nat
  BY DEF TypeOK, Row
<1>3. "ACTIVE" \in Status BY DEF Status
<1>4. Successor(p) \in Row
  BY <1>1, <1>2, <1>3, NewRowIsRow DEF Successor
<1> QED BY <1>4 DEF Successor, NewRow

\* rotate's transaction changes two rows: the one superseded and the one inserted.
LEMMA RotateCommitRows ==
    ASSUME Typed, NEW p \in Request, NEW t \in Session, RotateCommit(p, t)
    PROVE  /\ on[p] \in Session /\ on[p] # t
           /\ IsLive(on[p]) /\ row[t].state = "absent"
           /\ row' = [row EXCEPT ![on[p]] = RevokedRow(on[p]), ![t] = Successor(p)]
BY DEF RotateCommit, Typed, WorksOnSession, OneSession, RotateAdmits, IsLive, Successor

\* rotate's steps keep the types, and a session to work on.
LEMMA TypedRotate ==
    ASSUME Typed, NEW p \in Request, Rotating(p) PROVE Typed'
<1> USE DEF Typed, OneSession
<1>1. ASSUME NEW s \in Session, RotateStart(p, s) PROVE Typed'
  <2>1. Start(p, s, "poisonOld") BY <1>1 DEF RotateStart
  <2>2. WorksOnSession' BY <2>1 DEF WorksOnSession, Start, TypeOK
  <2>3. "poisonOld" \in Steps BY DEF Steps
  <2> QED BY <1>1, <2>1, <2>2, <2>3, StartType DEF RotateStart, TypeOK, store, outage
<1>2. ASSUME PoisonOld(p) PROVE Typed'
  <2>1. on[p] \in Session BY <1>2 DEF PoisonOld, WorksOnSession
  <2>2. cache' \in [Session -> Entry] BY <1>2, <2>1, WriteTombstoneType DEF PoisonOld
  <2>3. "commit" \in Steps BY DEF Steps
  <2>4. WorksOnSession'
    BY <1>2, <2>1 DEF PoisonOld, WorksOnSession, Goto, TypeOK, locals
  <2> QED BY <1>2, <2>2, <2>3, <2>4, GotoType DEF PoisonOld, TypeOK, outage, locals
<1>3. ASSUME NEW t \in Session, RotateCommit(p, t) PROVE Typed'
  <2>1. /\ on[p] \in Session
        /\ row' = [row EXCEPT ![on[p]] = RevokedRow(on[p]), ![t] = Successor(p)]
    BY <1>3, RotateCommitRows
  <2>2. RevokedRow(on[p]) \in Row /\ Successor(p) \in Row
    BY <2>1, RevokedRowIsRow, SuccessorIsRow
  <2>3. row' \in [Session -> Row] BY <2>1, <2>2 DEF TypeOK
  <2>4. WorksOnSession' BY <1>3 DEF RotateCommit, WorksOnSession, Finish, Goto, TypeOK
  <2>5. Finish(p) /\ UNCHANGED <<now, cache, redisUp, outages>>
    BY <1>3 DEF RotateCommit, outage
  <2> QED BY <2>3, <2>4, <2>5, FinishType DEF TypeOK
<1>4. ASSUME RotateFails(p) PROVE Typed'
  <2>1. WorksOnSession' BY <1>4 DEF RotateFails, WorksOnSession, Finish, Goto, TypeOK
  <2> QED BY <1>4, <2>1, FinishType DEF RotateFails, TypeOK, store, outage
<1> QED BY <1>1, <1>2, <1>3, <1>4 DEF Rotating

\* revokeMany's steps keep the types.
LEMMA TypedSweep ==
    ASSUME Typed, NEW p \in Request, Sweeping(p) PROVE Typed'
<1> USE DEF Typed, OneSession
<1>1. ASSUME NEW x \in Session \cup {None}, SweepStart(p, x) PROVE Typed'
  <2>1. Start(p, x, "poisonListed") BY <1>1 DEF SweepStart
  <2>2. WorksOnSession' BY <2>1 DEF WorksOnSession, Start, TypeOK
  <2>3. "poisonListed" \in Steps BY DEF Steps
  <2>4. Matching(x) \in SUBSET Session BY DEF Matching, LiveRows
  <2> QED BY <1>1, <2>1, <2>2, <2>3, <2>4, StartType DEF SweepStart, TypeOK, store, outage
<1>2. ASSUME NEW s \in Session, PoisonNext(p, s) PROVE Typed'
  <2>1. cache' \in [Session -> Entry] BY <1>2, WriteTombstoneType DEF PoisonNext
  <2>2. todo' \in [Request -> SUBSET Session] BY <1>2 DEF PoisonNext, TypeOK
  <2>3. /\ UNCHANGED <<now, row, redisUp, outages, pc, on, began, held, listed>>
    BY <1>2 DEF PoisonNext, outage
  <2>4. WorksOnSession' BY <2>3 DEF WorksOnSession
  <2> QED BY <2>1, <2>2, <2>3, <2>4 DEF TypeOK
<1>3. ASSUME PoisonedListed(p) PROVE Typed'
  <2>1. "match" \in Steps BY DEF Steps
  <2>2. WorksOnSession' BY <1>3 DEF PoisonedListed, WorksOnSession, Goto, TypeOK, locals
  <2> QED BY <1>3, <2>1, <2>2, GotoType DEF PoisonedListed, TypeOK, store, outage, locals
<1>4. ASSUME SweepMatch(p) PROVE Typed'
  <2>1. "sweep" \in Steps BY DEF Steps
  <2>2. WorksOnSession' BY <1>4 DEF SweepMatch, WorksOnSession, Goto, TypeOK
  <2>3. Matching(on[p]) \in SUBSET Session BY DEF Matching, LiveRows
  <2> QED BY <1>4, <2>1, <2>2, <2>3, GotoType DEF SweepMatch, TypeOK, store, outage
<1>5. ASSUME SweepWrite(p) PROVE Typed'
  <2>1. "poisonSwept" \in Steps BY DEF Steps
  <2>2. WorksOnSession' BY <1>5 DEF SweepWrite, WorksOnSession, Goto, TypeOK
  <2>3. Swept(p) \in SUBSET Session BY DEF Swept, TypeOK
  <2>4. row' \in [Session -> Row]
    BY <1>5, RevokedRowIsRow DEF SweepWrite, TypeOK
  <2> QED BY <1>5, <2>1, <2>2, <2>3, <2>4, GotoType DEF SweepWrite, TypeOK, outage
<1>6. ASSUME PoisonedSwept(p) PROVE Typed'
  <2>1. WorksOnSession' BY <1>6 DEF PoisonedSwept, WorksOnSession, Finish, Goto, TypeOK
  <2> QED BY <1>6, <2>1, FinishType DEF PoisonedSwept, TypeOK, store, outage
<1> QED BY <1>1, <1>2, <1>3, <1>4, <1>5, <1>6 DEF Sweeping

\* Every step of every request, of the clock and of Redis keeps the types.
LEMMA TypedNext == Typed /\ [Next]_vars => Typed'
<1> SUFFICES ASSUME Typed, [Next]_vars PROVE Typed'
  OBVIOUS
<1> USE DEF Typed
<1>1. ASSUME NEW s \in Session, NEW login \in Logins, Issue(s, login[1], login[2])
      PROVE  Typed'
  <2> DEFINE lifetime == LifetimeOf(login[1], login[2])
             fresh == NewRow(login[1], login[2], FALSE, now, now + lifetime, None)
  <2>1. login[1] \in Status /\ login[2] \in BOOLEAN
    BY PolicyAssumption DEF Status
  <2>2. lifetime \in Nat BY <2>1, LifetimeIsNat
  <2>3. now \in Nat /\ now + lifetime \in Nat BY <2>2 DEF TypeOK
  <2>4. fresh \in Row
    <3> HIDE DEF lifetime
    <3> QED BY <2>1, <2>3, NewRowIsRow
  <2>5. row' \in [Session -> Row] BY <1>1, <2>4 DEF Issue, TypeOK
  <2>6. UNCHANGED <<now, cache, redisUp, outages, pc, on, began, held, listed, todo>>
    BY <1>1 DEF Issue, outage, locals
  <2>7. WorksOnSession' BY <2>6 DEF WorksOnSession
  <2> QED BY <2>5, <2>6, <2>7 DEF TypeOK
<1>2. CASE Tick
  BY <1>2 DEF Tick, TypeOK, WorksOnSession, store, outage, locals
<1>3. CASE RedisFails
  <2>1. UNCHANGED <<now, row, cache, pc, on, began, held, listed, todo>>
    BY <1>3 DEF RedisFails, store, locals
  <2>2. outages' \in Nat BY <1>3 DEF RedisFails, TypeOK
  <2>3. redisUp' \in BOOLEAN BY <1>3, Zenon DEF RedisFails
  <2>4. WorksOnSession' BY <2>1 DEF WorksOnSession
  <2> QED BY <2>1, <2>2, <2>3, <2>4 DEF TypeOK
<1>4. CASE RedisReturns
  <2>1. UNCHANGED <<now, row, outages, pc, on, began, held, listed, todo>>
    BY <1>4 DEF RedisReturns, locals
  <2>2. cache' \in [Session -> Entry]
    BY <1>4 DEF RedisReturns, TypeOK, Entry, NoEntry, NoSnapshot, Snapshot
  <2>3. redisUp' \in BOOLEAN BY <1>4, Zenon DEF RedisReturns
  <2>4. WorksOnSession' BY <2>1 DEF WorksOnSession
  <2> QED BY <2>1, <2>2, <2>3, <2>4 DEF TypeOK
<1>5. CASE UNCHANGED vars
  BY <1>5 DEF vars, TypeOK, WorksOnSession
<1> QED
  BY <1>1, <1>2, <1>3, <1>4, <1>5, TypedResolve, TypedRevoke, TypedRotate, TypedSweep
     DEF Next, Issuing

\* The types hold at the start.
LEMMA TypedInit == Init => Typed
BY TypeInit DEF Typed, WorksOnSession, OneSession, Init

\* The types hold throughout, and a request past its start has its session.
LEMMA AlwaysTyped == Spec => []Typed
BY TypedInit, TypedNext, PTL DEF Spec

\* Every variable keeps its type, whatever the requests, clock and Redis do.
THEOREM TypeCorrect == Spec => []TypeOK
BY AlwaysTyped, PTL DEF Typed

-----------------------------------------------------------------------------
(* What one step may do to a row.  Everything below about rows follows from *)
(* this, and not from the actions.                                          *)

RowStep(s) ==
    /\ IsRevoked(s) => row'[s] = row[s]
    /\ IsLive(s) => /\ row'[s].state \in {"live", "revoked"}
                    /\ row'[s].from = row[s].from
                    /\ row'[s].state = "revoked" => row'[s].revokedAt = now
    /\ row[s].state = "absent" => row'[s] = row[s] \/ row'[s].state = "live"

Inserted(t) == row[t].state = "absent" /\ row'[t].state # "absent"

\* An inserted row comes from a login or supersedes a live one.
InsertStep(t) ==
    Inserted(t) =>
        /\ row'[t].from # None => /\ row'[t].from \in Session
                                  /\ row[row'[t].from].state = "live"
                                  /\ row'[row'[t].from].state = "revoked"
        /\ \A u \in Session : Inserted(u) => u = t

RowEffect == \A s \in Session : RowStep(s) /\ InsertStep(s)

\* A step that leaves the table alone does to a row what a step may.
LEMMA SameRows ==
    ASSUME TypeOK, UNCHANGED row PROVE RowEffect
BY DEF RowEffect, RowStep, InsertStep, Inserted, IsLive, IsRevoked, TypeOK, Row

\* issue inserts a row without a predecessor and touches no other.
LEMMA RowEffectIssue ==
    ASSUME Typed, NEW s \in Session, NEW status, NEW remember, Issue(s, status, remember)
    PROVE  RowEffect
<1> DEFINE fresh == NewRow(status, remember, FALSE, now,
                           now + LifetimeOf(status, remember), None)
<1>1. row[s].state = "absent" /\ row' = [row EXCEPT ![s] = fresh]
  BY DEF Issue
<1>2. fresh.state = "live" /\ fresh.from = None
  BY DEF NewRow
<1>3. row \in [Session -> Row] BY DEF Typed, TypeOK
<1> HIDE DEF fresh
<1> QED
  BY <1>1, <1>2, <1>3 DEF RowEffect, RowStep, InsertStep, Inserted, IsLive, IsRevoked, Row

\* A renewal writes a live row and leaves it live.
LEMMA RowEffectTouch ==
    ASSUME Typed, NEW p \in Request, Touch(p) PROVE RowEffect
<1> DEFINE renewed == Renewed(began[p], row[on[p]].absolute)
           touched == TouchedRow(on[p], renewed)
<1>1. on[p] \in Session
  BY DEF Touch, Typed, WorksOnSession, OneSession
<1>2. renewed \in Snapshot
  <2>1. began[p] \in Nat /\ row[on[p]].absolute \in Nat BY <1>1 DEF Typed, TypeOK, Row
  <2> QED BY <2>1, IdleFromIsNat DEF Renewed, Snapshot
<1>3. row[on[p]].state = "live" /\ row' = [row EXCEPT ![on[p]] = touched]
  BY DEF Touch, TouchMatches, IsLive
<1>4. touched.state = row[on[p]].state /\ touched.from = row[on[p]].from
  BY <1>1, <1>2, TouchedRowIsRow DEF Typed
<1>5. row \in [Session -> Row] BY DEF Typed, TypeOK
<1> HIDE DEF touched
<1> QED
  BY <1>1, <1>3, <1>4, <1>5
     DEF RowEffect, RowStep, InsertStep, Inserted, IsLive, IsRevoked, Row

\* revoke writes a row only while it is live.
LEMMA RowEffectRevoke ==
    ASSUME Typed, NEW p \in Request, RevokeOne(p) PROVE RowEffect
<1>1. on[p] \in Session
  BY DEF RevokeOne, Typed, WorksOnSession, OneSession
<1>2. CASE ~IsLive(on[p])
  BY <1>2, SameRows DEF RevokeOne, Typed
<1>3. CASE IsLive(on[p])
  <2>1. row' = [row EXCEPT ![on[p]] = RevokedRow(on[p])]
    BY <1>3 DEF RevokeOne
  <2>2. /\ RevokedRow(on[p]).state = "revoked"
        /\ RevokedRow(on[p]).revokedAt = now
        /\ RevokedRow(on[p]).from = row[on[p]].from
    BY <1>1, RevokedRowIsRow DEF Typed
  <2>3. row \in [Session -> Row] BY DEF Typed, TypeOK
  <2> QED
    BY <1>1, <1>3, <2>1, <2>2, <2>3
       DEF RowEffect, RowStep, InsertStep, Inserted, IsLive, IsRevoked, Row
<1> QED BY <1>2, <1>3

\* rotate supersedes a live row and inserts the one that names it.
LEMMA RowEffectRotate ==
    ASSUME Typed, NEW p \in Request, NEW t \in Session, RotateCommit(p, t) PROVE RowEffect
<1>1. /\ on[p] \in Session /\ on[p] # t
      /\ row[on[p]].state = "live" /\ row[t].state = "absent"
      /\ row' = [row EXCEPT ![on[p]] = RevokedRow(on[p]), ![t] = Successor(p)]
  BY RotateCommitRows DEF IsLive
<1>2. /\ RevokedRow(on[p]).state = "revoked"
      /\ RevokedRow(on[p]).revokedAt = now
      /\ RevokedRow(on[p]).from = row[on[p]].from
  BY <1>1, RevokedRowIsRow DEF Typed
<1>3. Successor(p).state = "live" /\ Successor(p).from = on[p]
  BY <1>1, SuccessorIsRow DEF Typed
<1>4. row \in [Session -> Row] BY DEF Typed, TypeOK
<1>5. /\ row'[on[p]] = RevokedRow(on[p])
      /\ row'[t] = Successor(p)
      /\ \A u \in Session \ {on[p], t} : row'[u] = row[u]
  BY <1>1, <1>4
<1>6. \A u \in Session : RowStep(u)
  BY <1>1, <1>2, <1>3, <1>5 DEF RowStep, IsLive, IsRevoked
<1>7. \A u \in Session : InsertStep(u)
  BY <1>1, <1>2, <1>3, <1>5 DEF InsertStep, Inserted
<1> QED BY <1>6, <1>7 DEF RowEffect

\* revokeMany's UPDATE writes only rows that are still live.
LEMMA RowEffectSweep ==
    ASSUME Typed, NEW p \in Request, SweepWrite(p) PROVE RowEffect
<1>1. \A s \in Session :
        row'[s] = IF s \in todo[p] /\ row[s].state = "live" THEN RevokedRow(s) ELSE row[s]
  BY DEF SweepWrite, Swept, IsLive
<1>2. \A s \in Session : /\ RevokedRow(s).state = "revoked"
                         /\ RevokedRow(s).revokedAt = now
                         /\ RevokedRow(s).from = row[s].from
  BY RevokedRowIsRow DEF Typed
<1>3. \A s \in Session : row[s].state \in {"absent", "live", "revoked"}
  BY DEF Typed, TypeOK, Row
<1> QED
  BY <1>1, <1>2, <1>3 DEF RowEffect, RowStep, InsertStep, Inserted, IsLive, IsRevoked

\* Whatever the step, rows change only as RowStep and InsertStep say.
LEMMA RowEffects == Typed /\ [Next]_vars => RowEffect
<1> SUFFICES ASSUME Typed, [Next]_vars PROVE RowEffect
  OBVIOUS
<1> USE DEF store
<1>1. ASSUME NEW p \in Request, Resolving(p) PROVE RowEffect
  BY <1>1, SameRows, RowEffectTouch
     DEF Resolving, ResolveDueHit, ResolveMiss, Lookup, TouchMisses, Fill, Typed
<1>2. ASSUME NEW p \in Request, Revoking(p) PROVE RowEffect
  BY <1>2, SameRows, RowEffectRevoke DEF Revoking, RevokeStart, PoisonOne, Typed
<1>3. ASSUME NEW p \in Request, Rotating(p) PROVE RowEffect
  BY <1>3, SameRows, RowEffectRotate DEF Rotating, RotateStart, PoisonOld, RotateFails, Typed
<1>4. ASSUME NEW p \in Request, Sweeping(p) PROVE RowEffect
  BY <1>4, SameRows, RowEffectSweep
     DEF Sweeping, SweepStart, PoisonNext, PoisonedListed, SweepMatch, PoisonedSwept, Typed
<1>5. CASE Issuing
  BY <1>5, RowEffectIssue DEF Issuing
<1>6. CASE Tick \/ RedisFails \/ RedisReturns \/ UNCHANGED vars
  BY <1>6, SameRows DEF Tick, RedisFails, RedisReturns, vars, Typed
<1> QED BY <1>1, <1>2, <1>3, <1>4, <1>5, <1>6 DEF Next

-----------------------------------------------------------------------------
(* Rows: what revocation and rotation promise. *)

\* Once revoked, a row is never written again: no race between renewals,
\* revocations, rotations and sweeps can revive it or restamp it.
THEOREM RevokedStaysFrozen == Spec => RevokedRowIsFrozen
<1>1. Typed /\ [Next]_vars => [\A s \in Session : IsRevoked(s) => row'[s] = row[s]]_row
  BY RowEffects DEF RowEffect, RowStep
<1> QED BY <1>1, AlwaysTyped, PTL DEF Spec, RevokedRowIsFrozen

\* Linear rotation, strengthened: an id not yet issued has no predecessor.
UnissuedIsBlank == \A t \in Session : row[t].state = "absent" => row[t].from = None

Linear == RotationIsLinear /\ UnissuedIsBlank

\* A step keeps lineages linear: the superseded row was live, so it had no successor.
LEMMA LinearNext == Typed /\ Linear /\ [Next]_vars => Linear'
<1> SUFFICES ASSUME Typed, Linear, [Next]_vars PROVE Linear'
  OBVIOUS
<1>1. RowEffect BY RowEffects
<1>2. \A s \in Session : /\ row[s].state \in {"absent", "live", "revoked"}
                         /\ row[s].from \in Session \cup {None}
  BY DEF Typed, TypeOK, Row
<1>3. UnissuedIsBlank'
  BY <1>1, <1>2 DEF RowEffect, RowStep, Linear, UnissuedIsBlank, IsLive, IsRevoked
<1>4. \A t \in Session : ~Inserted(t) => row'[t].from = row[t].from
  BY <1>1, <1>2 DEF RowEffect, RowStep, Inserted, IsLive, IsRevoked
<1>5. ASSUME NEW t \in Session, row'[t].from # None
      PROVE  row'[row'[t].from].state = "revoked"
  <2>1. CASE Inserted(t) BY <1>1, <1>5, <2>1 DEF RowEffect, InsertStep
  <2>2. CASE ~Inserted(t)
    <3>1. row[t].from \in Session /\ row'[t].from = row[t].from
      BY <1>2, <1>4, <1>5, <2>2
    <3>2. row[row[t].from].state = "revoked"
      BY <1>5, <3>1 DEF Linear, RotationIsLinear
    <3> QED BY <1>1, <3>1, <3>2 DEF RowEffect, RowStep, IsRevoked
  <2> QED BY <2>1, <2>2
<1>6. ASSUME NEW t \in Session, NEW u \in Session,
             row'[t].from # None, row'[u].from = row'[t].from
      PROVE  u = t
  <2>1. CASE ~Inserted(t) /\ ~Inserted(u)
    BY <1>4, <1>6, <2>1 DEF Linear, RotationIsLinear
  <2>2. CASE Inserted(t) /\ Inserted(u)
    BY <1>1, <2>2 DEF RowEffect, InsertStep
  <2>3. ASSUME NEW a \in Session, NEW b \in Session, Inserted(a), ~Inserted(b),
               row'[a].from = row'[b].from, row'[a].from # None
        PROVE  FALSE
    <3>1. row[row'[a].from].state = "live" BY <1>1, <2>3 DEF RowEffect, InsertStep
    <3>2. row[b].from = row'[a].from BY <1>4, <2>3
    <3>3. row[row'[a].from].state = "revoked"
      BY <2>3, <3>2 DEF Linear, RotationIsLinear
    <3> QED BY <3>1, <3>3
  <2> QED BY <1>6, <2>1, <2>2, <2>3
<1>7. RotationIsLinear' BY <1>5, <1>6 DEF RotationIsLinear
<1> QED BY <1>3, <1>7 DEF Linear

\* With no rows there is no lineage.
LEMMA LinearInit == Init => Linear
BY DEF Init, NoRow, Linear, RotationIsLinear, UnissuedIsBlank

\* However requests race, a session has at most one successor and is revoked
\* when it has one.
THEOREM RotationStaysLinear == Spec => []RotationIsLinear
BY LinearInit, LinearNext, AlwaysTyped, PTL DEF Spec, Linear

-----------------------------------------------------------------------------
(* The rows are a SessionTable.                                            *)

\* Rows that keep their state and their predecessor show no change.
LEMMA StillTable ==
    ASSUME \A s \in Session : row'[s].state = row[s].state /\ row'[s].from = row[s].from
    PROVE  UNCHANGED Table!vars
BY DEF Table!vars, states, lineages

\* Live rows that become revoked, and nothing else, are one revocation.
LEMMA TableRevokes ==
    ASSUME NEW S \in SUBSET LiveRows,
           \A s \in Session : /\ row'[s].state = IF s \in S THEN "revoked" ELSE row[s].state
                              /\ row'[s].from = row[s].from
    PROVE  Table!Next
<1>1. S \in SUBSET Table!Live
  BY DEF LiveRows, IsLive, Table!Live, states
<1>2. states' = [s \in Session |-> IF s \in S THEN "revoked" ELSE states[s]]
  BY DEF states
<1>3. lineages' = lineages
  BY DEF lineages
<1> QED BY <1>1, <1>2, <1>3 DEF Table!Next, Table!Revoke

\* issue inserts one live row without a predecessor.
LEMMA TableIssues ==
    ASSUME Typed, Linear, NEW t \in Session, NEW status, NEW remember, Issue(t, status, remember)
    PROVE  Table!Next
<1> DEFINE fresh == NewRow(status, remember, FALSE, now,
                           now + LifetimeOf(status, remember), None)
<1>1. row[t].state = "absent" /\ row' = [row EXCEPT ![t] = fresh]
  BY DEF Issue
<1>2. fresh.state = "live" /\ fresh.from = None /\ row[t].from = None
  BY <1>1 DEF NewRow, Linear, UnissuedIsBlank
<1>3. row \in [Session -> Row] BY DEF Typed, TypeOK
<1> HIDE DEF fresh
<1>4. states' = [states EXCEPT ![t] = "live"]
  BY <1>1, <1>2, <1>3 DEF states
<1>5. lineages' = lineages
  BY <1>1, <1>2, <1>3 DEF lineages
<1>6. Table!Issue(t)
  BY <1>1, <1>4, <1>5 DEF Table!Issue, states
<1> QED BY <1>6 DEF Table!Next

\* rotate ends one live row and begins its successor.
LEMMA TableRotates ==
    ASSUME Typed, NEW p \in Request, NEW t \in Session, RotateCommit(p, t)
    PROVE  Table!Next
<1>1. /\ on[p] \in Session /\ on[p] # t
      /\ row[on[p]].state = "live" /\ row[t].state = "absent"
      /\ row' = [row EXCEPT ![on[p]] = RevokedRow(on[p]), ![t] = Successor(p)]
  BY RotateCommitRows DEF IsLive
<1>2. PICK s \in Session : s = on[p]
  BY <1>1
<1> DEFINE old == RevokedRow(s)
           new == Successor(p)
<1>3. old.state = "revoked" /\ old.from = row[s].from
  BY <1>2, RevokedRowIsRow DEF Typed
<1>4. new.state = "live" /\ new.from = s
  BY <1>1, <1>2, SuccessorIsRow DEF Typed
<1>5. s # t /\ row[s].state = "live" /\ row[t].state = "absent"
  BY <1>1, <1>2
<1>6. \A u \in Session : row'[u] = IF u = t THEN new ELSE IF u = s THEN old ELSE row[u]
  <2>1. row \in [Session -> Row] BY DEF Typed, TypeOK
  <2>2. row' = [row EXCEPT ![s] = old, ![t] = new]
    BY <1>1, <1>2
  <2> HIDE DEF old, new
  <2> QED BY <1>5, <2>1, <2>2
<1> HIDE DEF old, new
<1>7. states' = [states EXCEPT ![s] = "revoked", ![t] = "live"]
  <2>1. \A u \in Session :
          row'[u].state = IF u = t THEN "live" ELSE IF u = s THEN "revoked" ELSE row[u].state
    BY <1>3, <1>4, <1>6
  <2>2. states' = [u \in Session |-> IF u = t THEN "live"
                                     ELSE IF u = s THEN "revoked" ELSE row[u].state]
    BY <2>1 DEF states
  <2> QED BY <1>5, <2>2 DEF states
<1>8. lineages' = [lineages EXCEPT ![t] = s]
  <2>1. \A u \in Session : row'[u].from = IF u = t THEN s ELSE row[u].from
    BY <1>3, <1>4, <1>6
  <2>2. lineages' = [u \in Session |-> IF u = t THEN s ELSE row[u].from]
    BY <2>1 DEF lineages
  <2> QED BY <2>2 DEF lineages
<1>9. Table!Rotate(s, t)
  BY <1>5, <1>7, <1>8 DEF Table!Rotate, Table!Live, states
<1> QED BY <1>9 DEF Table!Next

\* A renewal, a lost race: nothing shows.  A revocation of one, or of a sweep.
LEMMA TableEnds ==
    ASSUME Typed, NEW p \in Request, Touch(p) \/ RevokeOne(p) \/ SweepWrite(p)
    PROVE  Table!Next \/ UNCHANGED Table!vars
<1>0. row \in [Session -> Row] BY DEF Typed, TypeOK
<1>1. ASSUME Touch(p) PROVE UNCHANGED Table!vars
  <2> DEFINE renewed == Renewed(began[p], row[on[p]].absolute)
             touched == TouchedRow(on[p], renewed)
  <2>1. on[p] \in Session
    BY <1>1 DEF Touch, Typed, WorksOnSession, OneSession
  <2>2. renewed \in Snapshot
    <3>1. began[p] \in Nat /\ row[on[p]].absolute \in Nat BY <2>1 DEF Typed, TypeOK, Row
    <3> QED BY <3>1, IdleFromIsNat DEF Renewed, Snapshot
  <2>3. row' = [row EXCEPT ![on[p]] = touched]
    BY <1>1 DEF Touch
  <2>4. touched.state = row[on[p]].state /\ touched.from = row[on[p]].from
    BY <2>1, <2>2, TouchedRowIsRow DEF Typed
  <2> HIDE DEF touched
  <2>5. \A s \in Session : row'[s].state = row[s].state /\ row'[s].from = row[s].from
    BY <1>0, <2>1, <2>3, <2>4
  <2> QED BY <2>5, StillTable
<1>2. ASSUME RevokeOne(p) PROVE Table!Next \/ UNCHANGED Table!vars
  <2>1. on[p] \in Session
    BY <1>2 DEF RevokeOne, Typed, WorksOnSession, OneSession
  <2>2. CASE ~IsLive(on[p])
    BY <1>2, <2>2, StillTable DEF RevokeOne
  <2>3. CASE IsLive(on[p])
    <3>1. row' = [row EXCEPT ![on[p]] = RevokedRow(on[p])]
      BY <1>2, <2>3 DEF RevokeOne
    <3>2. RevokedRow(on[p]).state = "revoked" /\ RevokedRow(on[p]).from = row[on[p]].from
      BY <2>1, RevokedRowIsRow DEF Typed
    <3>3. {on[p]} \in SUBSET LiveRows
      BY <2>1, <2>3 DEF LiveRows
    <3>4. \A s \in Session :
            /\ row'[s].state = IF s \in {on[p]} THEN "revoked" ELSE row[s].state
            /\ row'[s].from = row[s].from
      BY <1>0, <2>1, <3>1, <3>2
    <3> QED BY <3>3, <3>4, TableRevokes
  <2> QED BY <2>2, <2>3
<1>3. ASSUME SweepWrite(p) PROVE Table!Next
  <2>1. \A s \in Session : row'[s] = IF s \in Swept(p) THEN RevokedRow(s) ELSE row[s]
    BY <1>3 DEF SweepWrite
  <2>2. \A s \in Session : RevokedRow(s).state = "revoked" /\ RevokedRow(s).from = row[s].from
    BY RevokedRowIsRow DEF Typed
  <2>3. Swept(p) \in SUBSET LiveRows
    BY DEF Swept, LiveRows, Typed, TypeOK
  <2> QED BY <2>1, <2>2, <2>3, TableRevokes
<1> QED BY <1>1, <1>2, <1>3

\* Every step is a step of the table, or shows nothing.
LEMMA StepIsTables == Typed /\ Linear /\ [Next]_vars => [Table!Next]_(Table!vars)
<1> SUFFICES ASSUME Typed, Linear, [Next]_vars PROVE [Table!Next]_(Table!vars)
  OBVIOUS
<1> USE DEF store
<1>1. \/ UNCHANGED row
      \/ Issuing
      \/ \E p \in Request : Touch(p) \/ RevokeOne(p) \/ SweepWrite(p)
      \/ \E p \in Request, t \in Session : RotateCommit(p, t)
  BY DEF Next, Resolving, ResolveDueHit, ResolveMiss, Lookup, TouchMisses, Fill,
         Revoking, RevokeStart, PoisonOne, Rotating, RotateStart, PoisonOld, RotateFails,
         Sweeping, SweepStart, PoisonNext, PoisonedListed, SweepMatch, PoisonedSwept,
         Tick, RedisFails, RedisReturns, vars
<1>2. CASE UNCHANGED row
  BY <1>2, StillTable
<1>3. CASE Issuing
  BY <1>3, TableIssues DEF Issuing
<1> QED BY <1>1, <1>2, <1>3, TableEnds, TableRotates

\* The empty table.
LEMMA InitIsTables == Init => Table!Init
BY DEF Init, NoRow, Table!Init, states, lineages

\* SessionService keeps what the session table promises to whoever rotates or
\* revokes: for any requests, outages and clocks, it implements SessionTable.
THEOREM RowsStayASessionTable == Spec => RowsAreASessionTable
<1>1. Typed /\ Linear /\ [Next]_vars => [Table!Next]_(Table!vars)
  BY StepIsTables
<1> QED BY InitIsTables, <1>1, LinearInit, LinearNext, AlwaysTyped, PTL
     DEF Spec, RowsAreASessionTable, Table!Spec

-----------------------------------------------------------------------------
(* What one step may do to a request and to a cache key.                    *)

\* A request starts, ends, or goes on under the clock it captured; it comes
\* to a cache fill only through a row it saw live.
RequestStep(p) ==
    \/ pc'[p] = "idle"
    \/ pc[p] = "idle" /\ began'[p] = now /\ pc'[p] # "fill"
    \/ /\ pc[p] # "idle" /\ pc'[p] # "idle" /\ began'[p] = began[p] /\ on'[p] = on[p]
       /\ pc'[p] = "fill" => pc[p] = "fill" \/ row'[on[p]].state = "live"

TombWritten(s) ==
    redisUp /\ cache'[s].kind = "tomb" /\ cache'[s].until = now + CacheTTL

LiveWritten(s) ==
    /\ redisUp /\ ~HoldsTomb(s)
    /\ cache'[s].kind = "live" /\ cache'[s].until = now + CacheTTL
    /\ \E p \in Request : pc[p] = "fill" /\ on[p] = s

KeyStep(s) ==
    \/ cache'[s] = cache[s]
    \/ TombWritten(s)
    \/ LiveWritten(s)
    \/ ~redisUp /\ cache'[s] = NoEntry

\* The clock moves only while every request still has time.
ClockStep ==
    \/ now' = now
    \/ /\ now' = now + 1
       /\ \A p \in Request : pc[p] # "idle" => now < began[p] + MaxOp
       /\ UNCHANGED <<row, cache, pc, began, on>>

Effect == /\ \A p \in Request : RequestStep(p)
          /\ \A s \in Session : KeyStep(s)
          /\ ClockStep

\* writeTombstone with Redis reachable leaves a tombstone for a whole TTL.
LEMMA TombstoneStep ==
    ASSUME Typed, NEW s \in Session, WriteTombstone(s)
    PROVE  /\ \A u \in Session : KeyStep(u)
           /\ redisUp => TombWritten(s)
           /\ \A u \in Session \ {s} : cache'[u] = cache[u]
BY DEF Typed, TypeOK, WriteTombstone, KeyStep, TombWritten

\* resolve's cache fill writes a live entry only over no tombstone, for a whole TTL.
LEMMA FillStep ==
    ASSUME Typed, NEW p \in Request, Fill(p)
    PROVE  \A u \in Session : KeyStep(u)
BY DEF Typed, TypeOK, Fill, WriteLive, MayWriteLive, KeyStep, LiveWritten

\* The three ways an action moves its request.
LEMMA StartStep ==
    ASSUME Typed, NEW p \in Request, NEW s, NEW step \in Steps \ {"fill"}, Start(p, s, step)
    PROVE  \A q \in Request : RequestStep(q)
BY DEF Typed, TypeOK, Start, RequestStep

\* A request that goes on keeps its clock, and does not come to a fill by itself.
LEMMA GotoStep ==
    ASSUME Typed, NEW p \in Request, NEW step \in Steps, Goto(p, step), pc[p] # "idle",
           UNCHANGED <<began, on>>, step = "fill" => row'[on[p]].state = "live"
    PROVE  \A q \in Request : RequestStep(q)
BY DEF Typed, TypeOK, Goto, RequestStep

\* A request that ends is idle, and the others go on as they were.
LEMMA FinishStep ==
    ASSUME Typed, NEW p \in Request, Finish(p)
    PROVE  \A q \in Request : RequestStep(q)
BY DEF Typed, TypeOK, Finish, Goto, RequestStep

\* A step that leaves the requests alone moves none of them.
LEMMA WaitStep ==
    ASSUME Typed, UNCHANGED <<pc, began, on>>
    PROVE  \A q \in Request : RequestStep(q)
BY DEF RequestStep

\* resolve's steps do to requests, keys and clock what a step may.
LEMMA EffectResolve ==
    ASSUME Typed, NEW p \in Request, Resolving(p) PROVE Effect
<1> USE DEF ClockStep, KeyStep, store
<1>1. ASSUME NEW s \in Session, ResolveDueHit(p, s) PROVE Effect
  BY <1>1, StartStep DEF ResolveDueHit, Effect, Steps
<1>2. ASSUME NEW s \in Session, ResolveMiss(p, s) PROVE Effect
  BY <1>2, StartStep DEF ResolveMiss, Effect, Steps
<1>3. ASSUME Lookup(p) PROVE Effect
  <2>1. CASE Finish(p) BY <1>3, <2>1, FinishStep DEF Lookup, Effect
  <2>2. CASE ~Finish(p)
    <3>1. /\ \E step \in {"touchRow", "fill"} : Goto(p, step)
          /\ UNCHANGED <<began, on, row>> /\ pc[p] # "idle" /\ row[on[p]].state = "live"
      BY <1>3, <2>2 DEF Lookup, Accepts, IsLive
    <3>2. \A q \in Request : RequestStep(q)
      BY <3>1, GotoStep DEF Steps
    <3> QED BY <1>3, <3>2 DEF Lookup, Effect
  <2> QED BY <2>1, <2>2
<1>4. ASSUME Touch(p) PROVE Effect
  <2> DEFINE renewed == Renewed(began[p], row[on[p]].absolute)
             touched == TouchedRow(on[p], renewed)
  <2>1. on[p] \in Session BY <1>4 DEF Touch, Typed, WorksOnSession, OneSession
  <2>2. renewed \in Snapshot
    <3>1. began[p] \in Nat /\ row[on[p]].absolute \in Nat BY <2>1 DEF Typed, TypeOK, Row
    <3> QED BY <3>1, IdleFromIsNat DEF Renewed, Snapshot
  <2>3. touched.state = "live"
    BY <1>4, <2>1, <2>2, TouchedRowIsRow DEF Typed, Touch, TouchMatches, IsLive
  <2>4. row'[on[p]].state = "live"
    BY <1>4, <2>1, <2>3 DEF Touch, Typed, TypeOK
  <2>5. \A q \in Request : RequestStep(q)
    BY <1>4, <2>4, GotoStep DEF Touch, Steps
  <2> QED BY <1>4, <2>5 DEF Touch, Effect
<1>5. ASSUME TouchMisses(p) PROVE Effect
  <2>1. CASE Finish(p) BY <1>5, <2>1, FinishStep DEF TouchMisses, Effect
  <2>2. CASE Goto(p, "lookup") /\ UNCHANGED locals
    BY <1>5, <2>2, GotoStep DEF TouchMisses, Effect, Steps, locals
  <2> QED BY <1>5, <2>1, <2>2 DEF TouchMisses
<1>6. ASSUME Fill(p) PROVE Effect
  BY <1>6, FillStep, FinishStep DEF Fill, Effect
<1> QED BY <1>1, <1>2, <1>3, <1>4, <1>5, <1>6 DEF Resolving

\* revoke's and rotate's steps do to requests, keys and clock what a step may.
LEMMA EffectRevoke ==
    ASSUME Typed, NEW p \in Request, Revoking(p) \/ Rotating(p) PROVE Effect
<1> USE DEF ClockStep, KeyStep, store
<1>1. ASSUME NEW s \in Session, RevokeStart(p, s) \/ RotateStart(p, s) PROVE Effect
  BY <1>1, StartStep DEF RevokeStart, RotateStart, Effect, Steps
<1>2. ASSUME PoisonOne(p) \/ PoisonOld(p) PROVE Effect
  <2>1. on[p] \in Session
    BY <1>2 DEF PoisonOne, PoisonOld, Typed, WorksOnSession, OneSession
  <2>2. \A u \in Session : KeyStep(u)
    BY <1>2, <2>1, TombstoneStep DEF PoisonOne, PoisonOld
  <2>3. \A q \in Request : RequestStep(q)
    BY <1>2, GotoStep DEF PoisonOne, PoisonOld, Steps, locals
  <2> QED BY <1>2, <2>2, <2>3 DEF PoisonOne, PoisonOld, Effect
<1>3. ASSUME RevokeOne(p) \/ RotateFails(p) PROVE Effect
  BY <1>3, FinishStep DEF RevokeOne, RotateFails, Effect
<1>4. ASSUME NEW t \in Session, RotateCommit(p, t) PROVE Effect
  BY <1>4, FinishStep DEF RotateCommit, Effect
<1> QED BY <1>1, <1>2, <1>3, <1>4 DEF Revoking, Rotating

\* revokeMany's steps do to requests, keys and clock what a step may.
LEMMA EffectSweep ==
    ASSUME Typed, NEW p \in Request, Sweeping(p) PROVE Effect
<1> USE DEF ClockStep, KeyStep, store
<1>1. ASSUME NEW x \in Session \cup {None}, SweepStart(p, x) PROVE Effect
  BY <1>1, StartStep DEF SweepStart, Effect, Steps
<1>2. ASSUME NEW s \in Session, PoisonNext(p, s) PROVE Effect
  BY <1>2, TombstoneStep, WaitStep DEF PoisonNext, Effect
<1>3. ASSUME PoisonedListed(p) \/ SweepMatch(p) \/ SweepWrite(p) PROVE Effect
  <2>1. \A q \in Request : RequestStep(q)
    BY <1>3, GotoStep DEF PoisonedListed, SweepMatch, SweepWrite, Steps, locals
  <2> QED BY <1>3, <2>1 DEF PoisonedListed, SweepMatch, SweepWrite, Effect
<1>4. ASSUME PoisonedSwept(p) PROVE Effect
  BY <1>4, FinishStep DEF PoisonedSwept, Effect
<1> QED BY <1>1, <1>2, <1>3, <1>4 DEF Sweeping

\* Whatever the step, requests, keys and clock change only as Effect says.
LEMMA Effects == Typed /\ [Next]_vars => Effect
<1> SUFFICES ASSUME Typed, [Next]_vars PROVE Effect
  OBVIOUS
<1> USE DEF ClockStep, KeyStep, store, locals
<1>1. CASE Issuing BY <1>1, WaitStep DEF Issuing, Issue, Effect
<1>2. CASE Tick BY <1>2, WaitStep DEF Tick, Effect
<1>3. CASE RedisFails BY <1>3, WaitStep DEF RedisFails, Effect
<1>4. CASE RedisReturns BY <1>4, WaitStep DEF RedisReturns, Effect
<1>5. CASE UNCHANGED vars BY <1>5, WaitStep DEF vars, Effect
<1> QED
  BY <1>1, <1>2, <1>3, <1>4, <1>5, EffectResolve, EffectRevoke, EffectSweep DEF Next

-----------------------------------------------------------------------------
(* Staleness is bounded, whatever Redis does.                               *)

InTime == \A p \in Request : pc[p] # "idle" => began[p] <= now /\ now <= began[p] + MaxOp

RevokedInPast == \A s \in Session : IsRevoked(s) => row[s].revokedAt <= now

\* A fill still in flight began before its session was revoked.
FillsAreOlder ==
    \A p \in Request : pc[p] = "fill" /\ IsRevoked(on[p]) => began[p] <= row[on[p]].revokedAt

TTLBound == \A s \in Session : cache[s].until <= now + CacheTTL

Bounded == InTime /\ RevokedInPast /\ FillsAreOlder /\ TTLBound /\ StaleHitIsBounded

\* With nothing cached and nothing revoked the bound holds.
LEMMA BoundedInit == Init => Bounded
BY PolicyAssumption, BoundAssumption
   DEF Init, Bounded, InTime, RevokedInPast, FillsAreOlder, TTLBound, StaleHitIsBounded,
       NoRow, NoEntry, IsRevoked

\* A step keeps the bound: a fill began before the revocation it may outlive.
LEMMA BoundedNext == Typed /\ Bounded /\ [Next]_vars => Bounded'
<1> SUFFICES ASSUME Typed, Bounded, [Next]_vars PROVE Bounded'
  OBVIOUS
<1> USE PolicyAssumption, BoundAssumption
<1>1. RowEffect /\ Effect BY RowEffects, Effects
<1>2. Typed' BY TypedNext
<1>3. now' \in {now, now + 1} /\ now \in Nat
  BY <1>1 DEF Effect, ClockStep, Typed, TypeOK
<1>4. /\ \A p \in Request : began[p] \in Nat /\ began'[p] \in Nat
      /\ \A s \in Session : /\ row[s].revokedAt \in Nat /\ row'[s].revokedAt \in Nat
                            /\ row[s].state \in {"absent", "live", "revoked"}
                            /\ cache[s].until \in Nat /\ cache'[s].until \in Nat
      /\ \A p \in Request : pc[p] = "fill" => on[p] \in Session
      /\ \A p \in Request : pc'[p] = "fill" => on'[p] \in Session
  BY <1>2 DEF Typed, TypeOK, Row, Entry, WorksOnSession, OneSession
<1>5. InTime'
  <2>1. CASE now' = now
    BY <1>1, <1>3, <1>4, <2>1 DEF Bounded, InTime, Effect, RequestStep
  <2>2. CASE now' # now
    BY <1>1, <1>3, <1>4, <2>2 DEF Bounded, InTime, Effect, ClockStep
  <2> QED BY <2>1, <2>2
\* How a session comes to be revoked: now, or it was.
<1>6. ASSUME NEW s \in Session, row'[s].state = "revoked"
      PROVE  \/ row[s].state = "revoked" /\ row'[s] = row[s]
             \/ row[s].state = "live" /\ row'[s].revokedAt = now
  BY <1>1, <1>4, <1>6 DEF RowEffect, RowStep, IsRevoked, IsLive
<1>7. RevokedInPast'
  BY <1>3, <1>4, <1>6 DEF Bounded, RevokedInPast, IsRevoked
<1>8. FillsAreOlder'
  <2> SUFFICES ASSUME NEW p \in Request, pc'[p] = "fill", row'[on'[p]].state = "revoked"
               PROVE  began'[p] <= row'[on'[p]].revokedAt
    BY DEF FillsAreOlder, IsRevoked
  <2>1. pc[p] = "fill" /\ began'[p] = began[p] /\ on'[p] = on[p]
    BY <1>1 DEF Effect, RequestStep
  <2>2. on[p] \in Session BY <1>4, <2>1
  <2>3. CASE row[on[p]].state = "revoked" /\ row'[on[p]] = row[on[p]]
    BY <2>1, <2>3 DEF Bounded, FillsAreOlder, IsRevoked
  <2>4. CASE row'[on[p]].revokedAt = now
    BY <2>1, <2>4 DEF Bounded, InTime
  <2> QED BY <1>6, <2>1, <2>2, <2>3, <2>4
<1>9. TTLBound'
  BY <1>1, <1>3, <1>4 DEF Effect, KeyStep, TombWritten, LiveWritten, NoEntry, Bounded, TTLBound
<1>10. StaleHitIsBounded'
  <2> SUFFICES ASSUME NEW s \in Session, row'[s].state = "revoked", cache'[s].kind = "live"
               PROVE  cache'[s].until <= row'[s].revokedAt + MaxOp + CacheTTL
    BY DEF StaleHitIsBounded, IsRevoked
  <2>1. CASE row[s].state = "live" /\ row'[s].revokedAt = now
    <3>1. now' = now
      BY <1>1, <2>1 DEF Effect, ClockStep
    <3> QED BY <1>3, <1>4, <1>9, <2>1, <3>1 DEF TTLBound
  <2>2. CASE row[s].state = "revoked" /\ row'[s] = row[s]
    <3>1. CASE cache'[s] = cache[s]
      BY <2>2, <3>1 DEF Bounded, StaleHitIsBounded, IsRevoked
    <3>2. CASE LiveWritten(s)
      <4>1. PICK p \in Request : pc[p] = "fill" /\ on[p] = s BY <3>2 DEF LiveWritten
      <4>2. began[p] <= row[s].revokedAt
        BY <2>2, <4>1 DEF Bounded, FillsAreOlder, IsRevoked
      <4>3. now <= began[p] + MaxOp BY <4>1 DEF Bounded, InTime
      <4> QED BY <1>3, <1>4, <2>2, <3>2, <4>2, <4>3 DEF LiveWritten
    <3> QED BY <1>1, <3>1, <3>2 DEF Effect, KeyStep, TombWritten, NoEntry
  <2> QED BY <1>6, <2>1, <2>2
<1> QED BY <1>5, <1>7, <1>8, <1>9, <1>10 DEF Bounded

\* The bound on staleness and what it rests on hold throughout.
LEMMA AlwaysBounded == Spec => []Bounded
BY BoundedInit, BoundedNext, AlwaysTyped, PTL DEF Spec

\* Through any number of outages, and restarts that lose every key, a cached
\* session outlives its revocation by no more than one TTL and one request.
THEOREM StalenessIsBounded == Spec => []StaleHitIsBounded
BY AlwaysBounded, PTL DEF Bounded

-----------------------------------------------------------------------------
(* With Redis reachable, and requests quicker than half the TTL, revocation *)
(* is immediate.  A request that has poisoned a key relies on its tombstone *)
(* outliving the request, and a revocation on it outliving every request    *)
(* that may have seen the row live.                                         *)

HealthyAndQuick == MaxOutages = 0 /\ 2 * MaxOp < CacheTTL

\* The keys a request in flight has poisoned and whose rows it may revoke.
PoisonedBy(p) ==
    CASE pc[p] \in {"revokeOne", "commit"} -> {on[p]}
      [] pc[p] = "poisonListed" -> listed[p] \ todo[p]
      [] pc[p] \in {"match", "sweep", "poisonSwept"} -> listed[p]
      [] OTHER -> {}

NoOutage == redisUp /\ outages = 0

PoisonHolds ==
    \A p \in Request : \A s \in PoisonedBy(p) :
        cache[s].kind = "tomb" /\ cache[s].until >= began[p] + CacheTTL

TombstoneOutlives ==
    \A s \in Session :
        IsRevoked(s) /\ ~AwaitingSecondPass(s)
            => cache[s].kind = "tomb" /\ cache[s].until + MaxOp >= row[s].revokedAt + CacheTTL

Poisoned == NoOutage /\ PoisonHolds /\ TombstoneOutlives

\* What one step may do to the keys a request counts on, and to a revocation.
PoisonStep(p) ==
    \A s \in PoisonedBy(p)' :
        /\ s \in Session /\ pc[p] # "idle" /\ began'[p] = began[p]
        /\ s \in PoisonedBy(p) \/ TombWritten(s)

RevokeStep(s) ==
    /\ row[s].state = "live" /\ row'[s].state = "revoked"
         => \/ \E p \in Request : pc[p] # "idle" /\ s \in PoisonedBy(p)
            \/ AwaitingSecondPass(s)'
    /\ AwaitingSecondPass(s) => AwaitingSecondPass(s)' \/ TombWritten(s)

PoisonEffect == /\ \A p \in Request : PoisonStep(p)
                /\ \A s \in Session : RevokeStep(s)

OthersWait(p) ==
    \A q \in Request \ {p} : /\ pc'[q] = pc[q] /\ on'[q] = on[q] /\ began'[q] = began[q]
                             /\ listed'[q] = listed[q] /\ todo'[q] = todo[q]

NoneRevoked == \A s \in Session : row[s].state = "live" => row'[s].state # "revoked"

\* A request that waits still has the keys it has poisoned.
LEMMA OthersKeepPoison ==
    ASSUME Typed, NEW p \in Request, OthersWait(p)
    PROVE  \A q \in Request \ {p} : PoisonStep(q)
BY DEF OthersWait, PoisonStep, PoisonedBy, Typed, TypeOK, WorksOnSession, OneSession

\* An action that neither poisons nor revokes: p moves to a step with nothing
\* poisoned, from one that leaves no key to its second pass.
LEMMA PoisonFrame ==
    ASSUME Typed, NEW p \in Request, OthersWait(p), NoneRevoked,
           PoisonedBy(p)' = {}, pc[p] = "poisonSwept" => todo[p] = {}
    PROVE  PoisonEffect
<1>1. PoisonStep(p) BY DEF PoisonStep
<1>2. \A s \in Session : RevokeStep(s)
  BY DEF RevokeStep, AwaitingSecondPass, NoneRevoked, OthersWait
<1> QED BY <1>1, <1>2, OthersKeepPoison DEF PoisonEffect

\* A step outside any request.
LEMMA PoisonIdle ==
    ASSUME Typed, UNCHANGED <<pc, on, began, listed, todo>>, NoneRevoked
    PROVE  PoisonEffect
<1>1. \A p \in Request : PoisonStep(p)
  BY DEF PoisonStep, PoisonedBy, Typed, TypeOK, WorksOnSession, OneSession
<1>2. \A s \in Session : RevokeStep(s)
  BY DEF RevokeStep, AwaitingSecondPass, NoneRevoked
<1> QED BY <1>1, <1>2 DEF PoisonEffect

\* resolve's steps poison nothing and revoke nothing.
LEMMA PoisonResolve ==
    ASSUME Typed, NEW p \in Request, Resolving(p) PROVE PoisonEffect
<1> USE DEF store, locals
<1>1. NoneRevoked
  <2>1. CASE UNCHANGED row BY <2>1 DEF NoneRevoked
  <2>2. CASE Touch(p)
    <3>1. on[p] \in Session BY <2>2 DEF Touch, Typed, WorksOnSession, OneSession
    <3>2. began[p] \in Nat /\ row[on[p]].absolute \in Nat BY <3>1 DEF Typed, TypeOK, Row
    <3>3. Renewed(began[p], row[on[p]].absolute) \in Snapshot
      BY <3>2, IdleFromIsNat DEF Renewed, Snapshot
    <3>4. TouchedRow(on[p], Renewed(began[p], row[on[p]].absolute)).state = row[on[p]].state
      BY <3>1, <3>3, TouchedRowIsRow DEF Typed
    <3> QED BY <2>2, <3>1, <3>4 DEF Touch, NoneRevoked, Typed, TypeOK
  <2> QED
    BY <2>1, <2>2 DEF Resolving, ResolveDueHit, ResolveMiss, Lookup, TouchMisses, Fill
<1>2. OthersWait(p)
  BY DEF Resolving, ResolveDueHit, ResolveMiss, Lookup, Touch, TouchMisses, Fill,
         Start, Goto, Finish, OthersWait, Typed, TypeOK
<1>3. pc[p] # "poisonSwept"
  BY DEF Resolving, ResolveDueHit, ResolveMiss, Lookup, Touch, TouchMisses, Fill, Start
<1>4. pc'[p] \in {"touchHit", "touchRow", "lookup", "fill", "idle"}
  BY DEF Resolving, ResolveDueHit, ResolveMiss, Lookup, Touch, TouchMisses, Fill,
         Start, Goto, Finish, Typed, TypeOK
<1> QED BY <1>1, <1>2, <1>3, <1>4, PoisonFrame DEF PoisonedBy

\* revoke and rotate revoke only the session whose key they have poisoned.
LEMMA PoisonRevoke ==
    ASSUME Typed, redisUp, NEW p \in Request, Revoking(p) \/ Rotating(p) PROVE PoisonEffect
<1> USE DEF store, locals
<1>0. OthersWait(p)
  BY DEF Revoking, Rotating, RevokeStart, PoisonOne, RevokeOne, RotateStart, PoisonOld,
         RotateCommit, RotateFails, Start, Goto, Finish, OthersWait, Typed, TypeOK
<1>1. ASSUME NEW s \in Session, RevokeStart(p, s) \/ RotateStart(p, s) PROVE PoisonEffect
  <2>1. pc[p] = "idle" /\ pc'[p] \in {"poisonOne", "poisonOld"} /\ NoneRevoked
    BY <1>1 DEF RevokeStart, RotateStart, Start, NoneRevoked, Typed, TypeOK
  <2> QED BY <1>0, <2>1, PoisonFrame DEF PoisonedBy
<1>2. ASSUME PoisonOne(p) \/ PoisonOld(p) PROVE PoisonEffect
  <2>1. on[p] \in Session
    BY <1>2 DEF PoisonOne, PoisonOld, Typed, WorksOnSession, OneSession
  <2>2. TombWritten(on[p])
    BY <1>2, <2>1, TombstoneStep DEF PoisonOne, PoisonOld
  <2>3. /\ pc[p] \in {"poisonOne", "poisonOld"} /\ pc'[p] \in {"revokeOne", "commit"}
        /\ UNCHANGED <<row, on, began, listed, todo>>
    BY <1>2 DEF PoisonOne, PoisonOld, Goto, Typed, TypeOK
  <2>4. PoisonStep(p) BY <2>1, <2>2, <2>3 DEF PoisonStep, PoisonedBy
  <2>5. \A s \in Session : RevokeStep(s)
    BY <1>0, <2>3 DEF RevokeStep, AwaitingSecondPass, OthersWait
  <2> QED BY <1>0, <2>4, <2>5, OthersKeepPoison DEF PoisonEffect
<1>3. ASSUME RevokeOne(p) \/ \E t \in Session : RotateCommit(p, t) PROVE PoisonEffect
  <2>1. /\ pc[p] \in {"revokeOne", "commit"} /\ pc'[p] = "idle" /\ on[p] \in Session
    BY <1>3 DEF RevokeOne, RotateCommit, Finish, Goto, Typed, TypeOK, WorksOnSession, OneSession
  <2>2. PoisonStep(p) BY <2>1 DEF PoisonStep, PoisonedBy
  <2>3. \A s \in Session : row[s].state = "live" /\ row'[s].state = "revoked" => s = on[p]
    <3>1. CASE RevokeOne(p)
      BY <2>1, <3>1 DEF RevokeOne, Typed, TypeOK
    <3>2. ASSUME NEW t \in Session, RotateCommit(p, t) PROVE <2>3!:
      BY <3>2, RotateCommitRows DEF Typed, TypeOK
    <3> QED BY <1>3, <3>1, <3>2
  <2>4. \A s \in Session : RevokeStep(s)
    BY <1>0, <2>1, <2>3 DEF RevokeStep, AwaitingSecondPass, OthersWait, PoisonedBy
  <2> QED BY <1>0, <2>2, <2>4, OthersKeepPoison DEF PoisonEffect
<1>4. ASSUME RotateFails(p) PROVE PoisonEffect
  <2>1. pc[p] = "commit" /\ pc'[p] = "idle" /\ NoneRevoked
    BY <1>4 DEF RotateFails, Finish, Goto, NoneRevoked, Typed, TypeOK
  <2> QED BY <1>0, <2>1, PoisonFrame DEF PoisonedBy
<1> QED BY <1>1, <1>2, <1>3, <1>4 DEF Revoking, Rotating

\* revokeMany revokes what it poisoned, or owes a second poison pass.
LEMMA PoisonSweep ==
    ASSUME Typed, redisUp, NEW p \in Request, Sweeping(p) PROVE PoisonEffect
<1> USE DEF store, locals
<1>0. OthersWait(p)
  BY DEF Sweeping, SweepStart, PoisonNext, PoisonedListed, SweepMatch, SweepWrite,
         PoisonedSwept, Start, Goto, Finish, OthersWait, Typed, TypeOK
<1>1. ASSUME NEW x \in Session \cup {None}, SweepStart(p, x) PROVE PoisonEffect
  <2>1. /\ pc[p] = "idle" /\ pc'[p] = "poisonListed" /\ listed'[p] = todo'[p] /\ NoneRevoked
    BY <1>1 DEF SweepStart, Start, NoneRevoked, Typed, TypeOK
  <2> QED BY <1>0, <2>1, PoisonFrame DEF PoisonedBy
<1>2. ASSUME NEW s \in Session, PoisonNext(p, s) PROVE PoisonEffect
  <2>1. /\ TombWritten(s)
        /\ UNCHANGED <<row, pc, on, began, listed>>
        /\ pc[p] \in {"poisonListed", "poisonSwept"}
        /\ todo'[p] = todo[p] \ {s}
        /\ listed[p] \in SUBSET Session
    BY <1>2, TombstoneStep DEF PoisonNext, Typed, TypeOK
  <2>2. PoisonStep(p) BY <2>1 DEF PoisonStep, PoisonedBy
  <2>3. \A u \in Session : RevokeStep(u)
    BY <1>0, <2>1 DEF RevokeStep, AwaitingSecondPass, OthersWait
  <2> QED BY <1>0, <2>2, <2>3, OthersKeepPoison DEF PoisonEffect
<1>3. ASSUME PoisonedListed(p) \/ SweepMatch(p) PROVE PoisonEffect
  <2>1. /\ \/ pc[p] = "poisonListed" /\ todo[p] = {} /\ pc'[p] = "match"
           \/ pc[p] = "match" /\ pc'[p] = "sweep"
        /\ UNCHANGED <<row, on, began, listed>>
        /\ listed[p] \in SUBSET Session
    BY <1>3 DEF PoisonedListed, SweepMatch, Goto, Typed, TypeOK
  <2>2. PoisonStep(p) BY <2>1 DEF PoisonStep, PoisonedBy
  <2>3. \A s \in Session : RevokeStep(s)
    BY <1>0, <2>1 DEF RevokeStep, AwaitingSecondPass, OthersWait
  <2> QED BY <1>0, <2>2, <2>3, OthersKeepPoison DEF PoisonEffect
<1>4. ASSUME SweepWrite(p) PROVE PoisonEffect
  <2>1. /\ pc[p] = "sweep" /\ pc'[p] = "poisonSwept"
        /\ UNCHANGED <<on, began, listed>>
        /\ todo'[p] = {s \in todo[p] : row[s].state = "live"}
        /\ listed[p] \in SUBSET Session
    BY <1>4 DEF SweepWrite, Swept, IsLive, Goto, Typed, TypeOK
  <2>2. \A s \in Session : row[s].state = "live" /\ row'[s].state = "revoked" => s \in todo'[p]
    BY <1>4, <2>1 DEF SweepWrite, Swept, IsLive
  <2>3. PoisonStep(p) BY <2>1 DEF PoisonStep, PoisonedBy
  <2>4. \A s \in Session : RevokeStep(s)
    BY <1>0, <2>1, <2>2 DEF RevokeStep, AwaitingSecondPass, OthersWait, PoisonedBy
  <2> QED BY <1>0, <2>3, <2>4, OthersKeepPoison DEF PoisonEffect
<1>5. ASSUME PoisonedSwept(p) PROVE PoisonEffect
  <2>1. pc[p] = "poisonSwept" /\ todo[p] = {} /\ pc'[p] = "idle" /\ NoneRevoked
    BY <1>5 DEF PoisonedSwept, Finish, Goto, NoneRevoked, Typed, TypeOK
  <2> QED BY <1>0, <2>1, PoisonFrame DEF PoisonedBy
<1> QED BY <1>1, <1>2, <1>3, <1>4, <1>5 DEF Sweeping

\* While Redis answers, no step revokes a session without its key being seen to.
LEMMA PoisonEffects == Typed /\ redisUp /\ [Next]_vars => PoisonEffect
<1> SUFFICES ASSUME Typed, redisUp, [Next]_vars PROVE PoisonEffect
  OBVIOUS
<1> USE DEF store, locals
<1>1. CASE Issuing
  <2>1. PICK s \in Session, login \in Logins : Issue(s, login[1], login[2])
    BY <1>1 DEF Issuing
  <2>2. UNCHANGED <<pc, on, began, listed, todo>> BY <2>1 DEF Issue
  <2>3. NoneRevoked BY <2>1 DEF Issue, NoneRevoked, NewRow, Typed, TypeOK
  <2> QED BY <2>2, <2>3, PoisonIdle
<1>2. CASE Tick \/ RedisFails \/ RedisReturns \/ UNCHANGED vars
  BY <1>2, PoisonIdle DEF Tick, RedisFails, RedisReturns, vars, NoneRevoked
<1> QED BY <1>1, <1>2, PoisonResolve, PoisonRevoke, PoisonSweep DEF Next

\* With nothing poisoned and nothing revoked the tombstones are all there.
LEMMA PoisonedInit == Init => Poisoned
<1> SUFFICES ASSUME Init PROVE Poisoned
  OBVIOUS
<1>1. NoOutage BY Zenon DEF Init, NoOutage
<1>2. \A p \in Request : PoisonedBy(p) = {} BY DEF Init, PoisonedBy
<1>3. \A s \in Session : ~IsRevoked(s) BY DEF Init, IsRevoked, NoRow
<1> QED BY <1>1, <1>2, <1>3 DEF Poisoned, PoisonHolds, TombstoneOutlives

\* With no outage allowed, Redis keeps answering.
LEMMA NoOutageNext ==
    ASSUME HealthyAndQuick, NoOutage, [Next]_vars PROVE NoOutage'
<1> USE DEF HealthyAndQuick, NoOutage, outage
<1>1. ASSUME NEW p \in Request, Resolving(p) PROVE UNCHANGED <<redisUp, outages>>
  BY <1>1 DEF Resolving, ResolveDueHit, ResolveMiss, Lookup, Touch, TouchMisses, Fill
<1>2. ASSUME NEW p \in Request, Revoking(p) \/ Rotating(p) PROVE UNCHANGED <<redisUp, outages>>
  BY <1>2 DEF Revoking, RevokeStart, PoisonOne, RevokeOne,
              Rotating, RotateStart, PoisonOld, RotateCommit, RotateFails
<1>3. ASSUME NEW p \in Request, Sweeping(p) PROVE UNCHANGED <<redisUp, outages>>
  BY <1>3 DEF Sweeping, SweepStart, PoisonNext, PoisonedListed, SweepMatch, SweepWrite,
              PoisonedSwept
<1>4. CASE Issuing \/ Tick \/ UNCHANGED vars
  BY <1>4 DEF Issuing, Issue, Tick, vars
<1>5. ~RedisFails BY DEF RedisFails
<1>6. ~RedisReturns BY DEF RedisReturns
<1> QED BY <1>1, <1>2, <1>3, <1>4, <1>5, <1>6 DEF Next

\* A step keeps every tombstone a request or a revocation relies on.
LEMMA PoisonedNext ==
    HealthyAndQuick /\ Typed /\ Bounded /\ Poisoned /\ [Next]_vars => Poisoned'
<1> SUFFICES ASSUME HealthyAndQuick, Typed, Bounded, Poisoned, [Next]_vars PROVE Poisoned'
  OBVIOUS
<1>1. RowEffect /\ Effect /\ PoisonEffect
  BY RowEffects, Effects, PoisonEffects DEF Poisoned, NoOutage
<1>2. NoOutage' BY NoOutageNext DEF Poisoned
<1>3. Typed' BY TypedNext
<1>4. /\ MaxOp \in Nat /\ CacheTTL \in Nat /\ 2 * MaxOp < CacheTTL /\ now \in Nat
      /\ \A p \in Request : began[p] \in Nat
      /\ \A s \in Session : /\ row[s].revokedAt \in Nat
                            /\ row[s].state \in {"absent", "live", "revoked"}
                            /\ cache[s].until \in Nat
  BY PolicyAssumption, BoundAssumption DEF HealthyAndQuick, Typed, TypeOK, Row, Entry
\* A key changes only by a new tombstone, or by a fill over no tombstone.
<1>5. \A s \in Session : cache'[s] = cache[s] \/ TombWritten(s) \/ LiveWritten(s)
  BY <1>1 DEF Effect, KeyStep, Poisoned, NoOutage
<1>6. ASSUME NEW p \in Request, NEW s \in PoisonedBy(p)'
      PROVE  cache'[s].kind = "tomb" /\ cache'[s].until >= began'[p] + CacheTTL
  <2>1. /\ s \in Session /\ pc[p] # "idle" /\ began'[p] = began[p]
        /\ s \in PoisonedBy(p) \/ TombWritten(s)
    BY <1>1 DEF PoisonEffect, PoisonStep
  <2>2. began[p] <= now /\ now <= began[p] + MaxOp
    BY <2>1 DEF Bounded, InTime
  <2>3. CASE TombWritten(s)
    BY <1>4, <2>1, <2>2, <2>3 DEF TombWritten
  <2>4. CASE s \in PoisonedBy(p) /\ ~TombWritten(s)
    <3>1. cache[s].kind = "tomb" /\ cache[s].until >= began[p] + CacheTTL
      BY <2>4 DEF Poisoned, PoisonHolds
    <3>2. HoldsTomb(s)
      BY <1>4, <2>1, <2>2, <3>1 DEF HoldsTomb, Valid
    <3> QED BY <1>5, <2>1, <2>4, <3>1, <3>2 DEF LiveWritten
  <2> QED BY <2>1, <2>3, <2>4
<1>7. ASSUME NEW s \in Session, row'[s].state = "revoked", ~AwaitingSecondPass(s)'
      PROVE  cache'[s].kind = "tomb" /\ cache'[s].until + MaxOp >= row'[s].revokedAt + CacheTTL
  <2>1. \/ row[s].state = "revoked" /\ row'[s] = row[s]
        \/ row[s].state = "live" /\ row'[s].revokedAt = now
    BY <1>1, <1>4, <1>7 DEF RowEffect, RowStep, IsRevoked, IsLive
  <2>2. row'[s].revokedAt <= now /\ row'[s].revokedAt \in Nat
    BY <1>4, <2>1 DEF Bounded, RevokedInPast, IsRevoked
  <2>3. CASE TombWritten(s)
    BY <1>4, <2>2, <2>3 DEF TombWritten
  <2>4. CASE row[s].state = "revoked" /\ row'[s] = row[s] /\ ~TombWritten(s)
    <3>1. ~AwaitingSecondPass(s)
      BY <1>1, <1>7, <2>4 DEF PoisonEffect, RevokeStep
    <3>2. cache[s].kind = "tomb" /\ cache[s].until + MaxOp >= row[s].revokedAt + CacheTTL
      BY <2>4, <3>1 DEF Poisoned, TombstoneOutlives, IsRevoked
    <3>3. ~LiveWritten(s)
      <4> SUFFICES ASSUME LiveWritten(s) PROVE FALSE
        OBVIOUS
      <4>1. PICK p \in Request : pc[p] = "fill" /\ on[p] = s BY DEF LiveWritten
      <4>2. began[p] <= row[s].revokedAt /\ now <= began[p] + MaxOp
        BY <2>4, <4>1 DEF Bounded, FillsAreOlder, InTime, IsRevoked
      <4>3. now < cache[s].until
        BY <1>4, <3>2, <4>2
      <4> QED BY <3>2, <4>3 DEF LiveWritten, HoldsTomb, Valid
    <3> QED BY <1>5, <2>4, <3>2, <3>3
  <2>5. CASE row[s].state = "live" /\ row'[s].revokedAt = now /\ ~TombWritten(s)
    <3>1. PICK p \in Request : pc[p] # "idle" /\ s \in PoisonedBy(p)
      BY <1>1, <1>7, <2>5 DEF PoisonEffect, RevokeStep
    <3>2. cache[s].kind = "tomb" /\ cache[s].until >= began[p] + CacheTTL
      BY <3>1 DEF Poisoned, PoisonHolds
    <3>3. began[p] <= now /\ now <= began[p] + MaxOp
      BY <3>1 DEF Bounded, InTime
    <3>4. HoldsTomb(s)
      BY <1>4, <3>2, <3>3 DEF HoldsTomb, Valid
    <3>5. cache'[s] = cache[s]
      BY <1>5, <2>5, <3>4 DEF LiveWritten
    <3> QED BY <1>4, <2>5, <3>2, <3>3, <3>5
  <2> QED BY <2>1, <2>3, <2>4, <2>5
<1>8. PoisonHolds' BY <1>6 DEF PoisonHolds
<1>9. TombstoneOutlives' BY <1>7 DEF TombstoneOutlives, IsRevoked
<1> QED BY <1>2, <1>8, <1>9 DEF Poisoned

\* While Redis answers and no request takes half a TTL, nothing the cache
\* serves is revoked, save for a sweep's own second pass: revocation is
\* immediate.
THEOREM RevocationTakesEffectAtOnce ==
    ASSUME HealthyAndQuick
    PROVE  Spec => []RevocationIsImmediate
<1>1. Typed /\ Bounded /\ Poisoned /\ [Next]_vars => Poisoned'
  BY PoisonedNext
<1>2. Poisoned => RevocationIsImmediate
  BY DEF Poisoned, TombstoneOutlives, RevocationIsImmediate, HoldsLive
<1> QED BY <1>1, <1>2, PoisonedInit, AlwaysTyped, AlwaysBounded, PTL DEF Spec

-----------------------------------------------------------------------------
(* What one step may do to the clocks and the lineage of a row.             *)

\* A snapshot and a row renewed at one instant: idle follows seen.
Current(snap, absolute) == snap.idle = IdleFrom(snap.seen, absolute)

\* What was settled when a row was inserted stays.
KeepsTerms(s) ==
    row[s].state # "absent" =>
        /\ row'[s].state # "absent"
        /\ row'[s].absolute = row[s].absolute /\ row'[s].status = row[s].status
        /\ row'[s].mfa = row[s].mfa /\ row'[s].from = row[s].from

\* Its idle clock is left alone or renewed with the time it was seen.
KeepsClocks(s) ==
    row'[s].state # "absent" =>
        \/ /\ row[s].state # "absent"
           /\ row'[s].seen = row[s].seen /\ row'[s].idle = row[s].idle
        \/ row'[s].idle = IdleFrom(row'[s].seen, row'[s].absolute)

\* An inserted row has the absolute end of the one it supersedes, or starts a
\* real session.
Inherits(t) ==
    Inserted(t) /\ row'[t].from # None =>
        \/ row'[t].absolute = row[row'[t].from].absolute
        \/ row[row'[t].from].status = "PENDING_MFA" /\ row'[t].mfa

TermsStep(s) == KeepsTerms(s) /\ KeepsClocks(s) /\ Inherits(s)
TermsEffect == \A s \in Session : TermsStep(s)

\* A step that leaves a row alone keeps its terms.
LEMMA SameTerms ==
    ASSUME NEW s \in Session, row'[s] = row[s] PROVE TermsStep(s)
BY DEF TermsStep, KeepsTerms, KeepsClocks, Inherits, Inserted

\* A revocation keeps a row's terms and clocks.
LEMMA RevokedKeepsTerms ==
    ASSUME TypeOK, NEW s \in Session, row[s].state # "absent", row'[s] = RevokedRow(s)
    PROVE  TermsStep(s)
<1>1. row[s] \in Row /\ row'[s] = [row[s] EXCEPT !.state = "revoked", !.revokedAt = now]
  BY DEF TypeOK, RevokedRow
<1>2. ASSUME NEW r \in Row, NEW n
      PROVE  LET e == [r EXCEPT !.state = "revoked", !.revokedAt = n]
             IN  /\ e.state = "revoked" /\ e.absolute = r.absolute /\ e.status = r.status
                 /\ e.mfa = r.mfa /\ e.from = r.from /\ e.seen = r.seen /\ e.idle = r.idle
  BY ONLY r \in Row DEF Row
<1>3. /\ row'[s].state = "revoked" /\ row'[s].absolute = row[s].absolute
      /\ row'[s].status = row[s].status /\ row'[s].mfa = row[s].mfa
      /\ row'[s].from = row[s].from /\ row'[s].seen = row[s].seen /\ row'[s].idle = row[s].idle
  BY <1>1, <1>2
<1> QED BY <1>3 DEF TermsStep, KeepsTerms, KeepsClocks, Inherits, Inserted

\* A renewal moves seen and idle together.
LEMMA TermsTouch ==
    ASSUME Typed, NEW p \in Request, Touch(p) PROVE TermsEffect
<1> DEFINE s == on[p]
           renewed == Renewed(began[p], row[s].absolute)
<1>1. s \in Session /\ row[s] \in Row /\ row \in [Session -> Row] /\ row[s].state = "live"
  BY DEF Touch, TouchMatches, IsLive, Typed, TypeOK, WorksOnSession, OneSession
<1>2. row' = [row EXCEPT ![s] = TouchedRow(s, renewed)]
  BY DEF Touch
<1>3. row'[s] = [row[s] EXCEPT !.seen = renewed.seen, !.idle = renewed.idle]
  BY <1>1, <1>2 DEF TouchedRow
<1>4. ASSUME NEW r \in Row, NEW n, NEW m
      PROVE  LET e == [r EXCEPT !.seen = n, !.idle = m]
             IN  /\ e.state = r.state /\ e.absolute = r.absolute /\ e.status = r.status
                 /\ e.mfa = r.mfa /\ e.from = r.from /\ e.seen = n /\ e.idle = m
  BY ONLY r \in Row DEF Row
<1>5. renewed.idle = IdleFrom(renewed.seen, row[s].absolute)
  BY DEF Renewed
<1> HIDE DEF renewed
<1>6. /\ row'[s].state = row[s].state /\ row'[s].absolute = row[s].absolute
      /\ row'[s].status = row[s].status /\ row'[s].mfa = row[s].mfa
      /\ row'[s].from = row[s].from
      /\ row'[s].seen = renewed.seen /\ row'[s].idle = renewed.idle
  BY <1>1, <1>3, <1>4
<1>7. TermsStep(s)
  BY <1>1, <1>5, <1>6 DEF TermsStep, KeepsTerms, KeepsClocks, Inherits, Inserted
<1>8. \A u \in Session : u # s => row'[u] = row[u]
  BY <1>1, <1>2
<1> QED BY <1>7, <1>8, SameTerms DEF TermsEffect

\* issue starts a row on clocks of its own.
LEMMA TermsIssue ==
    ASSUME Typed, NEW s \in Session, NEW status, NEW remember, Issue(s, status, remember)
    PROVE  TermsEffect
<1> DEFINE end == now + LifetimeOf(status, remember)
           fresh == NewRow(status, remember, FALSE, now, end, None)
<1>1. row[s].state = "absent" /\ row' = [row EXCEPT ![s] = fresh]
  BY DEF Issue
<1>2. /\ fresh.state = "live" /\ fresh.from = None
      /\ fresh.idle = IdleFrom(fresh.seen, fresh.absolute)
  BY DEF NewRow
<1>3. row \in [Session -> Row] BY DEF Typed, TypeOK
<1> HIDE DEF fresh
<1>4. row'[s] = fresh /\ \A u \in Session : u # s => row'[u] = row[u]
  BY <1>1, <1>3
<1>5. TermsStep(s)
  BY <1>1, <1>2, <1>4 DEF TermsStep, KeepsTerms, KeepsClocks, Inherits, Inserted
<1> QED BY <1>4, <1>5, SameTerms DEF TermsEffect

\* rotate hands the absolute end on, or starts a real session.
LEMMA TermsRotate ==
    ASSUME Typed, NEW p \in Request, NEW t \in Session, RotateCommit(p, t) PROVE TermsEffect
<1> DEFINE s == on[p]
<1>1. /\ s \in Session /\ s # t /\ row[s].state = "live" /\ row[t].state = "absent"
      /\ row' = [row EXCEPT ![s] = RevokedRow(s), ![t] = Successor(p)]
  BY RotateCommitRows DEF IsLive
<1>2. row \in [Session -> Row] BY DEF Typed, TypeOK
<1>3. /\ row'[s] = RevokedRow(s) /\ row'[t] = Successor(p)
      /\ \A u \in Session \ {s, t} : row'[u] = row[u]
  BY <1>1, <1>2
<1>4. TermsStep(s)
  BY <1>1, <1>3, RevokedKeepsTerms DEF Typed
<1>5. /\ row'[t].state = "live" /\ row'[t].from = s
      /\ row'[t].idle = IdleFrom(row'[t].seen, row'[t].absolute)
      /\ row'[t].absolute = SuccessorAbsolute(s, began[p])
      /\ row'[t].mfa = (row[s].mfa \/ row[s].status = "PENDING_MFA")
  BY <1>3 DEF Successor, NewRow
<1>6. \/ row'[t].absolute = row[s].absolute
      \/ row[s].status = "PENDING_MFA" /\ row'[t].mfa
  <2>1. CASE row[s].status = "PENDING_MFA"
    <3>1. row'[t].mfa = TRUE
      BY <1>5, <2>1
    <3> QED BY <2>1, <3>1
  <2>2. CASE row[s].status # "PENDING_MFA"
    BY <1>5, <2>2 DEF SuccessorAbsolute
  <2> QED BY <2>1, <2>2
<1>7. TermsStep(t)
  BY <1>1, <1>5, <1>6 DEF TermsStep, KeepsTerms, KeepsClocks, Inherits, Inserted
<1> QED BY <1>3, <1>4, <1>7, SameTerms DEF TermsEffect

\* revoke and revokeMany write revocations and nothing else.
LEMMA TermsRevoke ==
    ASSUME Typed, NEW p \in Request, RevokeOne(p) \/ SweepWrite(p) PROVE TermsEffect
<1>1. \A s \in Session : \/ row'[s] = row[s]
                         \/ row[s].state = "live" /\ row'[s] = RevokedRow(s)
  <2>1. row \in [Session -> Row] BY DEF Typed, TypeOK
  <2>2. CASE RevokeOne(p)
    <3>1. on[p] \in Session
      BY <2>2 DEF RevokeOne, Typed, WorksOnSession, OneSession
    <3> QED BY <2>1, <2>2, <3>1 DEF RevokeOne, IsLive
  <2>3. CASE SweepWrite(p)
    BY <2>3 DEF SweepWrite, Swept, IsLive
  <2> QED BY <2>2, <2>3
<1> QED BY <1>1, SameTerms, RevokedKeepsTerms DEF TermsEffect, Typed

\* Whatever the step, the terms and clocks of a row change only as TermsStep says.
LEMMA TermsEffects == Typed /\ [Next]_vars => TermsEffect
<1> SUFFICES ASSUME Typed, [Next]_vars PROVE TermsEffect
  OBVIOUS
<1> USE DEF store
<1>0. row' = row => TermsEffect
  BY SameTerms DEF TermsEffect
<1>1. ASSUME NEW p \in Request, Resolving(p) PROVE TermsEffect
  BY <1>0, <1>1, TermsTouch
     DEF Resolving, ResolveDueHit, ResolveMiss, Lookup, TouchMisses, Fill
<1>2. ASSUME NEW p \in Request, Revoking(p) PROVE TermsEffect
  BY <1>0, <1>2, TermsRevoke DEF Revoking, RevokeStart, PoisonOne
<1>3. ASSUME NEW p \in Request, Rotating(p) PROVE TermsEffect
  BY <1>0, <1>3, TermsRotate DEF Rotating, RotateStart, PoisonOld, RotateFails
<1>4. ASSUME NEW p \in Request, Sweeping(p) PROVE TermsEffect
  BY <1>0, <1>4, TermsRevoke
     DEF Sweeping, SweepStart, PoisonNext, PoisonedListed, SweepMatch, PoisonedSwept
<1>5. CASE Issuing
  BY <1>5, TermsIssue DEF Issuing
<1>6. CASE Tick \/ RedisFails \/ RedisReturns \/ UNCHANGED vars
  BY <1>0, <1>6 DEF Tick, RedisFails, RedisReturns, vars
<1> QED BY <1>1, <1>2, <1>3, <1>4, <1>5, <1>6 DEF Next

-----------------------------------------------------------------------------
(* Rotation buys no time. *)

\* A step keeps the ends of a lineage: what a successor inherited, neither row
\* changes afterwards.
LEMMA LifetimeNext ==
    Typed /\ Linear /\ LifetimeNeverRestarts /\ [Next]_vars => LifetimeNeverRestarts'
<1> SUFFICES ASSUME Typed, Linear, LifetimeNeverRestarts, [Next]_vars,
                    NEW t \in Session, row'[t].from # None
             PROVE  LET s == row'[t].from IN
                      \/ row'[t].absolute = row'[s].absolute
                      \/ row'[s].status = "PENDING_MFA" /\ row'[t].mfa
  BY DEF LifetimeNeverRestarts
<1>1. RowEffect /\ TermsEffect
  BY RowEffects, TermsEffects
<1>2. CASE Inserted(t)
  <2>1. row'[t].from \in Session /\ row[row'[t].from].state = "live"
    BY <1>1, <1>2 DEF RowEffect, InsertStep
  <2>2. KeepsTerms(row'[t].from) /\ Inherits(t)
    BY <1>1, <2>1 DEF TermsEffect, TermsStep
  <2> QED BY <1>2, <2>1, <2>2 DEF KeepsTerms, Inherits
<1>3. CASE row[t].state # "absent"
  <2>1. /\ row'[t].from = row[t].from /\ row'[t].absolute = row[t].absolute
        /\ row'[t].mfa = row[t].mfa
    BY <1>1, <1>3 DEF TermsEffect, TermsStep, KeepsTerms
  <2>2. row[t].from \in Session /\ row[row[t].from].state = "revoked"
    <3>1. row[t].from \in Session \cup {None}
      BY DEF Typed, TypeOK, Row
    <3> QED BY <2>1, <3>1 DEF Linear, RotationIsLinear
  <2>3. KeepsTerms(row[t].from)
    BY <1>1, <2>2 DEF TermsEffect, TermsStep
  <2> QED BY <2>1, <2>2, <2>3 DEF KeepsTerms, LifetimeNeverRestarts
<1>4. CASE row[t].state = "absent" /\ row'[t].state = "absent"
  <2>1. row'[t] = row[t]
    BY <1>1, <1>4 DEF RowEffect, RowStep
  <2> QED BY <1>4, <2>1 DEF Linear, UnissuedIsBlank
<1> QED BY <1>2, <1>3, <1>4 DEF Inserted

\* Whatever the policy and whoever races whom, a chain of rotations ends when
\* its first real session would have ended.
THEOREM LifetimesNeverRestart == Spec => []LifetimeNeverRestarts
<1>1. Init => LifetimeNeverRestarts
  BY DEF Init, NoRow, LifetimeNeverRestarts
<1>2. Typed /\ Linear /\ [Next]_vars => Linear'
  BY LinearNext
<1> QED BY <1>1, <1>2, LinearInit, LifetimeNext, AlwaysTyped, PTL DEF Spec

-----------------------------------------------------------------------------
(* What a fill holds, and what an entry was filled with. *)

\* A request comes to a cache fill with the row it read, not yet due for a
\* renewal, or with the renewal it has just written; it waits there with that.
HeldStep(p) ==
    pc'[p] = "fill" =>
        /\ on'[p] = on[p] /\ began'[p] = began[p]
        /\ \/ pc[p] = "fill" /\ held'[p] = held[p]
           \/ /\ row[on[p]].state = "live" /\ row'[on[p]].state = "live"
              /\ held'[p] = SnapshotOf(on[p]) /\ ~RenewalDue(held'[p], began[p])
           \/ /\ row[on[p]].state = "live" /\ row'[on[p]].state = "live"
              /\ held'[p] = Renewed(began[p], row[on[p]].absolute)

\* A live entry is what a fill held.
EntryStep(s) ==
    \/ cache'[s] = cache[s]
    \/ cache'[s].kind # "live"
    \/ \E p \in Request : /\ pc[p] = "fill" /\ on[p] = s
                          /\ cache'[s].snap = held[p] /\ cache'[s].until = now + CacheTTL

HeldEffect == (\A p \in Request : HeldStep(p)) /\ (\A s \in Session : EntryStep(s))

\* The requests that do not move hold what they held.
LEMMA OthersHold ==
    ASSUME NEW p \in Request, HeldStep(p),
           \A q \in Request : q # p => /\ pc'[q] = pc[q] /\ held'[q] = held[q]
                                       /\ on'[q] = on[q] /\ began'[q] = began[q]
    PROVE  \A q \in Request : HeldStep(q)
BY DEF HeldStep

\* A request that starts, ends or goes on elsewhere comes to no fill.
LEMMA StartHolds ==
    ASSUME Typed, NEW p \in Request, NEW s, NEW step \in Steps \ {"fill"}, Start(p, s, step),
           \A q \in Request : q # p => held'[q] = held[q]
    PROVE  \A q \in Request : HeldStep(q)
<1>1. pc'[p] # "fill"
  BY DEF Typed, TypeOK, Start
<1>2. \A q \in Request : q # p => pc'[q] = pc[q] /\ on'[q] = on[q] /\ began'[q] = began[q]
  BY DEF Typed, TypeOK, Start
<1> QED BY <1>1, <1>2, OthersHold DEF HeldStep

\* A request that ends comes to no fill.
LEMMA FinishHolds ==
    ASSUME Typed, NEW p \in Request, Finish(p) PROVE \A q \in Request : HeldStep(q)
<1>1. pc'[p] # "fill"
  BY DEF Typed, TypeOK, Finish, Goto
<1>2. \A q \in Request : q # p => /\ pc'[q] = pc[q] /\ held'[q] = held[q]
                                  /\ on'[q] = on[q] /\ began'[q] = began[q]
  BY DEF Typed, TypeOK, Finish, Goto
<1> QED BY <1>1, <1>2, OthersHold DEF HeldStep

\* Nor does one that goes on to another step.
LEMMA GotoHolds ==
    ASSUME Typed, NEW p \in Request, NEW step \in Steps \ {"fill"}, Goto(p, step),
           UNCHANGED <<held, on, began>>
    PROVE  \A q \in Request : HeldStep(q)
<1>1. pc'[p] # "fill" /\ \A q \in Request : q # p => pc'[q] = pc[q]
  BY DEF Typed, TypeOK, Goto
<1> QED BY <1>1, OthersHold DEF HeldStep

\* Requests that nothing moves wait with what they hold.
LEMMA WaitHolds ==
    ASSUME UNCHANGED <<pc, held, on, began>> PROVE \A q \in Request : HeldStep(q)
BY DEF HeldStep

\* A tombstone is no live entry.
LEMMA TombstoneEntry ==
    ASSUME Typed, NEW s \in Session, WriteTombstone(s) PROVE \A u \in Session : EntryStep(u)
BY DEF Typed, TypeOK, WriteTombstone, EntryStep

\* resolve fills the cache with what it holds.
LEMMA FillEntry ==
    ASSUME Typed, NEW p \in Request, Fill(p) PROVE \A u \in Session : EntryStep(u)
BY DEF Typed, TypeOK, Fill, WriteLive, EntryStep

\* resolve comes to a fill with the row it read or with the renewal it wrote.
LEMMA HeldResolve ==
    ASSUME Typed, NEW p \in Request, Resolving(p) PROVE HeldEffect
<1> USE DEF store
<1>0. cache' = cache => \A u \in Session : EntryStep(u)
  BY DEF EntryStep
<1>a. held \in [Request -> Snapshot] /\ pc \in [Request -> Steps]
  BY DEF Typed, TypeOK
<1>1. ASSUME NEW s \in Session, ResolveDueHit(p, s) \/ ResolveMiss(p, s) PROVE HeldEffect
  <2>1. \A q \in Request : q # p => held'[q] = held[q]
    BY <1>a, <1>1 DEF ResolveDueHit, ResolveMiss
  <2>2. \E step \in Steps \ {"fill"} : Start(p, s, step)
    BY <1>1 DEF ResolveDueHit, ResolveMiss, Steps
  <2> QED BY <1>0, <1>1, <2>1, <2>2, StartHolds DEF ResolveDueHit, ResolveMiss, HeldEffect
<1>2. ASSUME Lookup(p) PROVE HeldEffect
  <2>1. CASE Finish(p) BY <1>0, <1>2, <2>1, FinishHolds DEF Lookup, HeldEffect
  <2>2. CASE ~Finish(p)
    <3>1. /\ held' = [held EXCEPT ![p] = SnapshotOf(on[p])] /\ UNCHANGED <<on, began, row, cache>>
          /\ Goto(p, IF RenewalDue(SnapshotOf(on[p]), began[p]) THEN "touchRow" ELSE "fill")
          /\ row[on[p]].state = "live"
      BY <1>2, <2>2 DEF Lookup, Accepts, IsLive
    <3>2. held'[p] = SnapshotOf(on[p]) /\ \A q \in Request : q # p => held'[q] = held[q]
      BY <1>a, <3>1
    <3>3. /\ pc'[p] = (IF RenewalDue(SnapshotOf(on[p]), began[p]) THEN "touchRow" ELSE "fill")
          /\ \A q \in Request : q # p => pc'[q] = pc[q]
      BY <1>a, <3>1 DEF Goto
    <3>4. HeldStep(p)
      BY <3>1, <3>2, <3>3 DEF HeldStep
    <3> QED BY <1>0, <3>1, <3>2, <3>3, <3>4, OthersHold DEF HeldEffect
  <2> QED BY <2>1, <2>2
<1>3. ASSUME Touch(p) PROVE HeldEffect
  <2>1. /\ held' = [held EXCEPT ![p] = Renewed(began[p], row[on[p]].absolute)]
        /\ pc' = [pc EXCEPT ![p] = "fill"] /\ UNCHANGED <<on, began, cache>>
        /\ on[p] \in Session /\ row[on[p]].state = "live"
    BY <1>3 DEF Touch, TouchMatches, IsLive, Goto, Typed, WorksOnSession, OneSession
  <2>2. /\ held'[p] = Renewed(began[p], row[on[p]].absolute)
        /\ \A q \in Request : q # p => held'[q] = held[q] /\ pc'[q] = pc[q]
    BY <1>a, <2>1
  <2>3. row'[on[p]].state = "live"
    <3>1. KeepsTerms(on[p]) /\ RowStep(on[p])
      BY <1>3, <2>1, TermsTouch, RowEffectTouch DEF TermsEffect, TermsStep, RowEffect
    <3>2. Renewed(began[p], row[on[p]].absolute) \in Snapshot
      <4>1. began[p] \in Nat /\ row[on[p]].absolute \in Nat BY <2>1 DEF Typed, TypeOK, Row
      <4> QED BY <4>1, IdleFromIsNat DEF Renewed, Snapshot
    <3>3. TouchedRow(on[p], Renewed(began[p], row[on[p]].absolute)).state = "live"
      BY <2>1, <3>2, TouchedRowIsRow DEF Typed
    <3> QED BY <1>3, <2>1, <3>3 DEF Touch, Typed, TypeOK
  <2>4. HeldStep(p)
    BY <2>1, <2>2, <2>3 DEF HeldStep
  <2> QED BY <1>0, <2>1, <2>2, <2>4, OthersHold DEF HeldEffect
<1>4. ASSUME TouchMisses(p) PROVE HeldEffect
  <2>1. CASE Finish(p) BY <1>0, <1>4, <2>1, FinishHolds DEF TouchMisses, HeldEffect
  <2>2. CASE Goto(p, "lookup") /\ UNCHANGED locals
    BY <1>0, <1>4, <2>2, GotoHolds DEF TouchMisses, HeldEffect, Steps, locals
  <2> QED BY <1>4, <2>1, <2>2 DEF TouchMisses
<1>5. ASSUME Fill(p) PROVE HeldEffect
  BY <1>5, FillEntry, FinishHolds DEF Fill, HeldEffect
<1> QED BY <1>1, <1>2, <1>3, <1>4, <1>5 DEF Resolving

\* revoke and rotate come to no fill, and cache nothing but tombstones.
LEMMA HeldRevoke ==
    ASSUME Typed, NEW p \in Request, Revoking(p) \/ Rotating(p) PROVE HeldEffect
<1> USE DEF store
<1>0. cache' = cache => \A u \in Session : EntryStep(u)
  BY DEF EntryStep
<1>1. ASSUME NEW s \in Session, RevokeStart(p, s) \/ RotateStart(p, s) PROVE HeldEffect
  BY <1>0, <1>1, StartHolds DEF RevokeStart, RotateStart, HeldEffect, Steps
<1>2. ASSUME PoisonOne(p) \/ PoisonOld(p) PROVE HeldEffect
  <2>1. on[p] \in Session
    BY <1>2 DEF PoisonOne, PoisonOld, Typed, WorksOnSession, OneSession
  <2>2. \A u \in Session : EntryStep(u)
    BY <1>2, <2>1, TombstoneEntry DEF PoisonOne, PoisonOld
  <2>3. \A q \in Request : HeldStep(q)
    BY <1>2, GotoHolds DEF PoisonOne, PoisonOld, Steps, locals
  <2> QED BY <2>2, <2>3 DEF HeldEffect
<1>3. ASSUME RevokeOne(p) \/ RotateFails(p) PROVE HeldEffect
  BY <1>0, <1>3, FinishHolds DEF RevokeOne, RotateFails, HeldEffect
<1>4. ASSUME NEW t \in Session, RotateCommit(p, t) PROVE HeldEffect
  BY <1>0, <1>4, FinishHolds DEF RotateCommit, HeldEffect
<1> QED BY <1>1, <1>2, <1>3, <1>4 DEF Revoking, Rotating

\* Nor does revokeMany.
LEMMA HeldSweep ==
    ASSUME Typed, NEW p \in Request, Sweeping(p) PROVE HeldEffect
<1> USE DEF store
<1>0. cache' = cache => \A u \in Session : EntryStep(u)
  BY DEF EntryStep
<1>1. ASSUME NEW x \in Session \cup {None}, SweepStart(p, x) PROVE HeldEffect
  BY <1>0, <1>1, StartHolds DEF SweepStart, HeldEffect, Steps
<1>2. ASSUME NEW s \in Session, PoisonNext(p, s) PROVE HeldEffect
  BY <1>2, TombstoneEntry, WaitHolds DEF PoisonNext, HeldEffect
<1>3. ASSUME PoisonedListed(p) \/ SweepMatch(p) \/ SweepWrite(p) PROVE HeldEffect
  <2>1. \A q \in Request : HeldStep(q)
    BY <1>3, GotoHolds DEF PoisonedListed, SweepMatch, SweepWrite, Steps, locals
  <2> QED BY <1>0, <1>3, <2>1 DEF PoisonedListed, SweepMatch, SweepWrite, HeldEffect
<1>4. ASSUME PoisonedSwept(p) PROVE HeldEffect
  BY <1>0, <1>4, FinishHolds DEF PoisonedSwept, HeldEffect
<1> QED BY <1>1, <1>2, <1>3, <1>4 DEF Sweeping

\* Whatever the step, fills and entries change only as HeldEffect says.
LEMMA HeldEffects == Typed /\ [Next]_vars => HeldEffect
<1> SUFFICES ASSUME Typed, [Next]_vars PROVE HeldEffect
  OBVIOUS
<1> USE DEF store, locals
<1>0. cache' = cache => \A u \in Session : EntryStep(u)
  BY DEF EntryStep
<1>1. CASE Issuing BY <1>0, <1>1, WaitHolds DEF Issuing, Issue, HeldEffect
<1>2. CASE Tick BY <1>0, <1>2, WaitHolds DEF Tick, HeldEffect
<1>3. CASE RedisFails BY <1>0, <1>3, WaitHolds DEF RedisFails, HeldEffect
<1>4. CASE RedisReturns
  <2>1. \A u \in Session : EntryStep(u)
    BY <1>4 DEF RedisReturns, EntryStep, NoEntry
  <2> QED BY <1>4, <2>1, WaitHolds DEF RedisReturns, HeldEffect
<1>5. CASE UNCHANGED vars BY <1>0, <1>5, WaitHolds DEF vars, HeldEffect
<1> QED
  BY <1>1, <1>2, <1>3, <1>4, <1>5, HeldResolve, HeldRevoke, HeldSweep DEF Next

-----------------------------------------------------------------------------
(* A hit never signs out early.  An entry is filled with a snapshot whose   *)
(* idle clock has more than half its time to run, and with an idle timeout  *)
(* that is twice the life of an entry it is gone before that clock is out.  *)

EntriesAreBrief == 2 * (CacheTTL + MaxOp) <= IdleTimeout

\* The idle end a row has is the one its last use gave it.
IdleFollows == \A s \in Session : row[s].state # "absent" => Current(row[s], row[s].absolute)

\* What is about to be cached was renewed less than half the timeout ago.
FillsAreFresh ==
    \A p \in Request : pc[p] = "fill" =>
        /\ row[on[p]].state # "absent" /\ Current(held[p], row[on[p]].absolute)
        /\ 2 * (began[p] - held[p].seen) < IdleTimeout

EntriesAreFresh ==
    \A s \in Session : cache[s].kind = "live" =>
        /\ row[s].state # "absent" /\ Current(cache[s].snap, row[s].absolute)
        /\ 2 * (cache[s].until - CacheTTL - MaxOp - cache[s].snap.seen) < IdleTimeout

Clocks == IdleFollows /\ FillsAreFresh /\ EntriesAreFresh

\* Without rows, requests and entries no clock runs.
LEMMA ClocksInit == Init => Clocks
BY DEF Init, NoRow, NoEntry, Clocks, IdleFollows, FillsAreFresh, EntriesAreFresh

\* A step keeps the clocks: a row's two move together, and a fill is fresh
\* because it read a row that was not due or renewed the one that was.
LEMMA ClocksNext == Typed /\ Bounded /\ Clocks /\ [Next]_vars => Clocks'
<1> SUFFICES ASSUME Typed, Bounded, Clocks, [Next]_vars PROVE Clocks'
  OBVIOUS
<1>1. TermsEffect /\ HeldEffect
  BY TermsEffects, HeldEffects
<1>2. /\ now \in Nat
      /\ \A p \in Request : pc[p] = "fill" => on[p] \in Session
      /\ \A p \in Request : began[p] \in Nat /\ held[p].seen \in Nat
      /\ \A s \in Session : row[s].absolute \in Nat /\ row[s].seen \in Nat
  BY DEF Typed, TypeOK, Row, Snapshot, WorksOnSession, OneSession
<1>3. IdleFollows'
  <2> SUFFICES ASSUME NEW s \in Session, row'[s].state # "absent"
               PROVE  row'[s].idle = IdleFrom(row'[s].seen, row'[s].absolute)
    BY DEF IdleFollows, Current
  <2> QED BY <1>1 DEF TermsEffect, TermsStep, KeepsTerms, KeepsClocks, Clocks, IdleFollows, Current
<1>4. FillsAreFresh'
  <2> SUFFICES ASSUME NEW p \in Request, pc'[p] = "fill"
               PROVE  /\ row'[on'[p]].state # "absent" /\ Current(held'[p], row'[on'[p]].absolute)
                      /\ 2 * (began'[p] - held'[p].seen) < IdleTimeout
    BY DEF FillsAreFresh, Current
  <2>1. HeldStep(p) /\ on'[p] = on[p] /\ began'[p] = began[p]
    BY <1>1 DEF HeldEffect, HeldStep
  <2>2. on[p] \in Session
    <3>1. Typed' BY TypedNext
    <3> QED BY <2>1, <3>1 DEF Typed, WorksOnSession, OneSession
  <2>3. KeepsTerms(on[p])
    BY <1>1, <2>2 DEF TermsEffect, TermsStep
  <2>4. CASE pc[p] = "fill" /\ held'[p] = held[p]
    BY <2>1, <2>3, <2>4 DEF Clocks, FillsAreFresh, KeepsTerms
  <2>5. CASE /\ row[on[p]].state = "live"
             /\ held'[p] = SnapshotOf(on[p]) /\ ~RenewalDue(held'[p], began[p])
    <3>1. held'[p].seen = row[on[p]].seen /\ held'[p].idle = row[on[p]].idle
      BY <2>5 DEF SnapshotOf
    <3>2. Current(held'[p], row[on[p]].absolute)
      BY <2>2, <2>5, <3>1 DEF Clocks, IdleFollows, Current
    <3>3. 2 * (began[p] - held'[p].seen) < IdleTimeout
      BY <1>2, <2>2, <2>5, <3>1, PolicyAssumption DEF RenewalDue
    <3> QED BY <2>1, <2>3, <2>5, <3>2, <3>3 DEF KeepsTerms
  <2>6. CASE /\ row[on[p]].state = "live"
             /\ held'[p] = Renewed(began[p], row[on[p]].absolute)
    <3>1. held'[p].seen = began[p] /\ held'[p].idle = IdleFrom(began[p], row[on[p]].absolute)
      BY <2>6 DEF Renewed
    <3>2. 2 * (began[p] - held'[p].seen) < IdleTimeout
      BY <1>2, <3>1, PolicyAssumption
    <3> QED BY <2>1, <2>3, <2>6, <3>1, <3>2 DEF KeepsTerms, Current
  <2> QED BY <2>1, <2>4, <2>5, <2>6 DEF HeldStep
<1>5. EntriesAreFresh'
  <2> SUFFICES ASSUME NEW s \in Session, cache'[s].kind = "live"
               PROVE  /\ row'[s].state # "absent" /\ Current(cache'[s].snap, row'[s].absolute)
                      /\ 2 * (cache'[s].until - CacheTTL - MaxOp - cache'[s].snap.seen) < IdleTimeout
    BY DEF EntriesAreFresh, Current
  <2>1. EntryStep(s) /\ KeepsTerms(s)
    BY <1>1 DEF HeldEffect, TermsEffect, TermsStep
  <2>2. CASE cache'[s] = cache[s]
    BY <2>1, <2>2 DEF Clocks, EntriesAreFresh, KeepsTerms
  <2>3. ASSUME NEW p \in Request, pc[p] = "fill", on[p] = s,
               cache'[s].snap = held[p], cache'[s].until = now + CacheTTL
        PROVE  /\ row'[s].state # "absent" /\ Current(cache'[s].snap, row'[s].absolute)
               /\ 2 * (cache'[s].until - CacheTTL - MaxOp - cache'[s].snap.seen) < IdleTimeout
    <3>1. /\ row[s].state # "absent" /\ Current(held[p], row[s].absolute)
          /\ 2 * (began[p] - held[p].seen) < IdleTimeout
      BY <2>3 DEF Clocks, FillsAreFresh
    <3>2. now <= began[p] + MaxOp
      BY <2>3 DEF Bounded, InTime
    <3>3. 2 * (cache'[s].until - CacheTTL - MaxOp - cache'[s].snap.seen) < IdleTimeout
      BY <1>2, <2>3, <3>1, <3>2, PolicyAssumption, BoundAssumption
    <3>4. row'[s].state # "absent" /\ row'[s].absolute = row[s].absolute
      BY <2>1, <3>1 DEF KeepsTerms
    <3> QED BY <2>3, <3>1, <3>3, <3>4
  <2> QED BY <2>1, <2>2, <2>3 DEF EntryStep
<1> QED BY <1>3, <1>4, <1>5 DEF Clocks

\* While the idle timeout is twice what an entry and a request last, a live
\* entry has run out only when its row has: no hit signs a user out early.
THEOREM NoHitExpiresEarly ==
    ASSUME EntriesAreBrief
    PROVE  Spec => []NoEarlyExpiry
<1>1. Typed /\ Clocks => NoEarlyExpiry
  <2> SUFFICES ASSUME Typed, Clocks, NEW s \in Session, HoldsLive(s), IsLive(s),
                      Expired(cache[s].snap, row[s].absolute, now)
               PROVE  Expired(SnapshotOf(s), row[s].absolute, now)
    BY DEF NoEarlyExpiry
  <2> DEFINE snap == cache[s].snap
  <2>1. /\ now \in Nat /\ cache[s].until \in Nat /\ snap.seen \in Nat /\ snap.idle \in Nat
        /\ row[s].absolute \in Nat
    BY DEF Typed, TypeOK, Entry, Snapshot, Row
  <2>2. /\ now < cache[s].until /\ snap.idle = IdleFrom(snap.seen, row[s].absolute)
        /\ 2 * (cache[s].until - CacheTTL - MaxOp - snap.seen) < IdleTimeout
    BY DEF HoldsLive, Valid, Clocks, EntriesAreFresh, Current
  <2> HIDE DEF snap
  <2>3. ASSUME snap.idle <= now PROVE row[s].absolute <= now
    <3>1. now < snap.seen + IdleTimeout
      BY <2>1, <2>2, EntriesAreBrief, PolicyAssumption, BoundAssumption DEF EntriesAreBrief
    <3> QED BY <2>1, <2>2, <2>3, <3>1, PolicyAssumption DEF IdleFrom
  <2> QED BY <2>3 DEF Expired, snap
<1>2. Typed /\ Bounded /\ Clocks /\ [Next]_vars => Clocks'
  BY ClocksNext
<1> QED BY <1>1, <1>2, ClocksInit, AlwaysTyped, AlwaysBounded, PTL DEF Spec

=============================================================================
