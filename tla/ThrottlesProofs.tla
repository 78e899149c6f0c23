---------------------------- MODULE ThrottlesProofs ----------------------------
(***************************************************************************)
(* What keeps an attempt from being repeated at will: the lock on an       *)
(* account, for any number of parallel attempts, any threshold and any     *)
(* ladder, and the rate limiter, for any requests, clocks and limits.      *)
(***************************************************************************)
EXTENDS Lockout, RateLimiter, FiniteSetTheorems, FunctionTheorems, WellFoundedInduction, TLAPS

-----------------------------------------------------------------------------
(* The lock on an account.                                                 *)

\* No request judges by a time that has not come.
JudgedInThePast == \A a \in Attempt : my[a].now =< time

LockInv == LockoutTypeOK /\ JudgedInThePast /\ EveryFailureCounts

\* A rung of the ladder, capped at its last, is a number of seconds.
LEMMA RungIsNat ==
    ASSUME NEW n \in Nat, n >= LOCKOUT_THRESHOLD
    PROVE  Rung(n) \in Nat
<1> DEFINE rung == n - LOCKOUT_THRESHOLD + 1
<1>1. LADDER \in Seq(Nat) /\ Len(LADDER) \in Nat \ {0}
  BY LadderAssumption
<1>2. rung \in Nat \ {0}
  BY ThresholdAssumption
<1>3. (IF rung < Len(LADDER) THEN rung ELSE Len(LADDER)) \in 1 .. Len(LADDER)
  BY <1>1, <1>2
<1> QED BY <1>1, <1>3 DEF Rung

-----------------------------------------------------------------------------
(* Each step. *)

\* A fresh account satisfies the invariant.
LEMMA LockInit == LockoutInit => LockInv
BY ThresholdAssumption
   DEF LockoutInit, LockInv, LockoutTypeOK, JudgedInThePast, EveryFailureCounts, NothingRead, Local, Steps

\* A request that finishes has let go of what it read.
LEMMA FinishLetsGo ==
    ASSUME LockoutTypeOK, JudgedInThePast, NEW a \in Attempt, Finish(a), UNCHANGED time
    PROVE  /\ pc' \in [Attempt -> Steps]
           /\ my' \in [Attempt -> Local]
           /\ JudgedInThePast'
BY DEF Finish, Goto, LockoutTypeOK, JudgedInThePast, Local, Steps, NothingRead

\* The steps that write nothing to the account.
LEMMA ReadersKeepLock ==
    ASSUME LockInv, NEW a \in Attempt, Read(a) \/ Verify(a) \/ Judge(a)
    PROVE  LockInv' /\ UNCHANGED account
<1> USE DEF LockInv
<1>1. UNCHANGED account
  BY DEF Read, Verify, Judge
<1>2. EveryFailureCounts'
  BY <1>1 DEF EveryFailureCounts, account, Rung
<1>3. CASE Read(a)
  <2>1. LockoutTypeOK'
    BY <1>3 DEF Read, Goto, account, LockoutTypeOK, Local, Steps
  <2>2. JudgedInThePast'
    BY <1>3 DEF Read, LockoutTypeOK, JudgedInThePast, Local
  <2> QED BY <1>1, <1>2, <2>1, <2>2
<1>4. CASE Verify(a)
  <2>1. CASE IsLocked(my[a].lockedUntil, time)
    BY <1>1, <1>2, <1>4, <2>1, FinishLetsGo DEF Verify, account, LockoutTypeOK
  <2>2. CASE ~IsLocked(my[a].lockedUntil, time)
    BY <1>1, <1>2, <1>4, <2>2 DEF Verify, Goto, account, LockoutTypeOK, JudgedInThePast, Steps
  <2> QED BY <1>1, <2>1, <2>2
<1>5. CASE Judge(a)
  <2>1. LockoutTypeOK'
    BY <1>5 DEF Judge, Goto, account, LockoutTypeOK, Local, Steps
  <2>2. JudgedInThePast'
    BY <1>5 DEF Judge, LockoutTypeOK, JudgedInThePast, Local
  <2> QED BY <1>1, <1>2, <2>1, <2>2
<1> QED BY <1>3, <1>4, <1>5

\* A failure that is counted adds one to the count and sets the lock it earns.
LEMMA FailKeepsLock ==
    ASSUME LockInv, NEW a \in Attempt, Fail(a)
    PROVE  LockInv'
<1>0. LockoutTypeOK /\ JudgedInThePast /\ EveryFailureCounts
  BY DEF LockInv
<1>1. /\ pc' \in [Attempt -> Steps]
      /\ my' \in [Attempt -> Local]
      /\ JudgedInThePast'
      /\ time' = time
  BY <1>0, FinishLetsGo DEF Fail
<1>2. CASE NotLockedNow(a)
  <2> DEFINE now == my[a].now
  <2>1. now \in Nat
    BY <1>0 DEF LockoutTypeOK, Local
  <2>2. /\ failed \in Nat /\ failed = Len(counted)
        /\ failed' = failed + 1
        /\ counted' = Append(counted, now)
    BY <1>0, <1>2 DEF LockoutTypeOK, EveryFailureCounts, Fail, Increment
  <2>3. /\ counted' \in Seq(Nat)
        /\ Len(counted') = failed'
        /\ counted'[failed'] = now
    BY <1>0, <2>1, <2>2 DEF LockoutTypeOK
  <2>4. CASE failed' >= LOCKOUT_THRESHOLD
    <3>1. Rung(failed') \in Nat
      BY <2>2, <2>4, RungIsNat
    <3>2. lockedUntil' = LockedUntilFor(failed', now)
      BY <1>2, <2>4 DEF Fail
    <3>3. lockedUntil' = now + Rung(failed')
      BY <2>2, <2>4, <3>2, ThresholdAssumption DEF LockedUntilFor
    <3>4. EveryFailureCounts'
      BY <2>2, <2>3, <2>4, <3>3, ThresholdAssumption DEF EveryFailureCounts, Rung
    <3>5. LockoutTypeOK'
      BY <1>0, <1>1, <2>1, <2>2, <2>3, <3>1, <3>3 DEF LockoutTypeOK
    <3> QED BY <1>1, <3>4, <3>5 DEF LockInv
  <2>5. CASE failed' < LOCKOUT_THRESHOLD
    <3>1. lockedUntil' = 0
      BY <1>0, <1>2, <2>2, <2>5, ThresholdAssumption DEF Fail, EveryFailureCounts
    <3>2. EveryFailureCounts'
      BY <2>2, <2>3, <2>5, <3>1, ThresholdAssumption DEF EveryFailureCounts
    <3>3. LockoutTypeOK'
      BY <1>0, <1>1, <2>2, <2>3, <3>1 DEF LockoutTypeOK
    <3> QED BY <1>1, <3>2, <3>3 DEF LockInv
  <2> QED BY <2>2, <2>4, <2>5, ThresholdAssumption
<1>3. CASE ~NotLockedNow(a)
  <2>1. UNCHANGED account
    BY <1>3 DEF Fail
  <2> QED BY <1>0, <1>1, <2>1 DEF LockInv, account, LockoutTypeOK, EveryFailureCounts, Rung
<1> QED BY <1>2, <1>3

\* A reset of the account, by a sign-in or by a new password, forgets them all.
LEMMA ForgettingKeepsLock ==
    ASSUME LockInv, failed' = 0, lockedUntil' = 0, counted' = <<>>,
           time' = time, pc' \in [Attempt -> Steps], my' \in [Attempt -> Local],
           JudgedInThePast'
    PROVE  LockInv'
BY ThresholdAssumption DEF LockInv, LockoutTypeOK, EveryFailureCounts

\* A right password keeps the invariant: it clears what it counts.
LEMMA SucceedKeepsLock ==
    ASSUME LockInv, NEW a \in Attempt, Succeed(a)
    PROVE  LockInv'
<1>0. LockoutTypeOK /\ JudgedInThePast /\ EveryFailureCounts
  BY DEF LockInv
<1>1. /\ pc' \in [Attempt -> Steps]
      /\ my' \in [Attempt -> Local]
      /\ JudgedInThePast'
      /\ time' = time
  BY <1>0, FinishLetsGo DEF Succeed
<1>2. CASE NotLockedNow(a)
  BY <1>1, <1>2, ForgettingKeepsLock DEF Succeed
<1>3. CASE ~NotLockedNow(a)
  <2>1. UNCHANGED account
    BY <1>3 DEF Succeed
  <2> QED BY <1>0, <1>1, <2>1 DEF LockInv, account, LockoutTypeOK, EveryFailureCounts, Rung
<1> QED BY <1>2, <1>3

\* Doing nothing keeps the invariant.
LEMMA StutterKeepsLock == LockInv /\ UNCHANGED lockoutVars => LockInv'
BY DEF LockInv, lockoutVars, LockoutTypeOK, JudgedInThePast, EveryFailureCounts, Rung

\* Every step keeps the invariant.
LEMMA LockNext == LockInv /\ [LockoutNext]_lockoutVars => LockInv'
<1> SUFFICES ASSUME LockInv, [LockoutNext]_lockoutVars PROVE LockInv'
  OBVIOUS
<1>1. CASE UNCHANGED lockoutVars
  BY <1>1, StutterKeepsLock
<1>2. CASE Reset
  BY <1>2, ForgettingKeepsLock DEF Reset, LockInv, LockoutTypeOK, JudgedInThePast
<1>3. CASE TimePasses
  <2>1. EveryFailureCounts'
    BY <1>3 DEF TimePasses, account, LockInv, EveryFailureCounts, Rung
  <2> QED BY <1>3, <2>1 DEF TimePasses, account, LockInv, LockoutTypeOK, JudgedInThePast, Local
<1>4. ASSUME NEW a \in Attempt, Read(a) \/ Verify(a) \/ Judge(a) \/ Fail(a) \/ Succeed(a)
      PROVE  LockInv'
  BY <1>4, ReadersKeepLock, FailKeepsLock, SucceedKeepsLock
<1> QED BY <1>1, <1>2, <1>3, <1>4 DEF LockoutNext
-----------------------------------------------------------------------------
(* The failures that are counted are paced, and a live lock holds.         *)

\* A failure counted from the threshold on is judged after the lock of the
\* one before it: that is what recordFailure's condition asks.
LEMMA PacedNext == LockInv /\ FailuresArePaced /\ [LockoutNext]_lockoutVars => FailuresArePaced'
<1> SUFFICES ASSUME LockInv, FailuresArePaced, [LockoutNext]_lockoutVars PROVE FailuresArePaced'
  OBVIOUS
<1>0. LockoutTypeOK /\ EveryFailureCounts
  BY DEF LockInv
<1>1. ASSUME counted' = counted PROVE FailuresArePaced'
  BY <1>1 DEF FailuresArePaced, Rung
<1>2. ASSUME counted' = <<>> PROVE FailuresArePaced'
  BY <1>2, ThresholdAssumption DEF FailuresArePaced
<1>3. ASSUME NEW a \in Attempt, Fail(a), NotLockedNow(a) PROVE FailuresArePaced'
  <2> DEFINE now == my[a].now
  <2>1. /\ now \in Nat /\ lockedUntil \in Nat /\ lockedUntil =< now
        /\ failed \in Nat /\ failed = Len(counted)
        /\ counted \in Seq(Nat) /\ counted' = Append(counted, now)
    BY <1>0, <1>3 DEF LockoutTypeOK, Local, EveryFailureCounts, Fail, NotLockedNow, IsLocked
  <2>2. /\ Len(counted') = failed + 1 /\ counted'[failed + 1] = now
        /\ \A k \in 1 .. failed : counted'[k] = counted[k]
    BY <2>1
  <2> SUFFICES ASSUME NEW k \in LOCKOUT_THRESHOLD .. Len(counted') - 1
               PROVE  counted'[k + 1] >= counted'[k] + Rung(k)
    BY DEF FailuresArePaced, Rung
  <2>3. k \in 1 .. failed /\ k >= LOCKOUT_THRESHOLD
    BY <2>1, <2>2, ThresholdAssumption
  <2>4. CASE k = failed
    <3>1. lockedUntil = counted[failed] + Rung(failed)
      BY <1>0, <2>1, <2>3, <2>4 DEF EveryFailureCounts
    <3> QED BY <2>1, <2>2, <2>3, <2>4, <3>1
  <2>5. CASE k < failed
    <3>1. k \in LOCKOUT_THRESHOLD .. Len(counted) - 1
      BY <2>1, <2>3, <2>5, ThresholdAssumption
    <3>2. counted[k + 1] >= counted[k] + Rung(k)
      BY <3>1 DEF FailuresArePaced
    <3> QED BY <2>1, <2>2, <2>3, <2>5, <3>2
  <2> QED BY <2>1, <2>3, <2>4, <2>5
<1>4. \/ counted' = counted
      \/ counted' = <<>>
      \/ \E a \in Attempt : Fail(a) /\ NotLockedNow(a)
  BY DEF LockoutNext, lockoutVars, TimePasses, Reset, Read, Verify, Judge, Fail, Succeed, account
<1> QED BY <1>1, <1>2, <1>3, <1>4

\* Whoever moves has read a time that is past, and so sees the lock.
LEMMA LockStep ==
    ASSUME LockInv, [LockoutNext]_lockoutVars, NEW a \in Attempt,
           IsLocked(lockedUntil, time), pc'[a] # pc[a]
    PROVE  UNCHANGED account
<1>0. LockoutTypeOK /\ JudgedInThePast
  BY DEF LockInv
<1>1. CASE TimePasses \/ Reset \/ UNCHANGED lockoutVars
  BY <1>1 DEF TimePasses, Reset, lockoutVars
<1>2. ASSUME NEW b \in Attempt, Read(b) \/ Verify(b) \/ Judge(b)
      PROVE  UNCHANGED account
  BY <1>2 DEF Read, Verify, Judge
<1>3. ASSUME NEW b \in Attempt, Fail(b) \/ Succeed(b)
      PROVE  UNCHANGED account
  <2>1. my[b].now \in Nat /\ my[b].now =< time /\ time \in Nat /\ lockedUntil \in Nat
    BY <1>0 DEF LockoutTypeOK, JudgedInThePast, Local
  <2>2. ~NotLockedNow(b)
    BY <2>1 DEF NotLockedNow, IsLocked
  <2> QED BY <1>3, <2>2 DEF Fail, Succeed
<1> QED BY <1>1, <1>2, <1>3 DEF LockoutNext

-----------------------------------------------------------------------------
\* The columns keep their types: the count of failures is never negative.
THEOREM LockoutTypeCorrect == LockoutSpec => []LockoutTypeOK
<1>1. LockInv => LockoutTypeOK
  BY DEF LockInv
<1> QED BY LockInit, LockNext, <1>1, PTL DEF LockoutSpec

\* Whatever verifies in parallel, no counted failure is lost and the lock is
\* the one the last of them earned: recordFailure's increment and lock are one
\* transaction on the row.
THEOREM NoFailureIsLost == LockoutSpec => []EveryFailureCounts
<1>1. LockInv => EveryFailureCounts
  BY DEF LockInv
<1> QED BY LockInit, LockNext, <1>1, PTL DEF LockoutSpec

\* However many requests read the row unlocked, the failures that are counted
\* past the threshold are as far apart as the ladder says.
THEOREM Paced == LockoutSpec => []FailuresArePaced
<1>1. LockoutInit => FailuresArePaced
  BY ThresholdAssumption DEF LockoutInit, FailuresArePaced
<1> QED BY LockInit, LockNext, PacedNext, <1>1, PTL DEF LockoutSpec

\* While the lock is live no request moves the count or the lock, a stalled one
\* and one that read the row before it was locked included.
THEOREM LockHolds == LockoutSpec => LiveLockHolds
<1>1. LockInv /\ [LockoutNext]_lockoutVars =>
        [\A a \in Attempt :
           IsLocked(lockedUntil, time) /\ pc'[a] # pc[a] => UNCHANGED account]_lockoutVars
  BY LockStep
<1> QED BY LockInit, LockNext, <1>1, PTL DEF LockoutSpec, LiveLockHolds

-----------------------------------------------------------------------------
(* The rate limiter: its arithmetic, its keys and what a request holds.    *)

\* The window is a positive number of ticks.
LEMMA WindowIsPositive == Window \in Nat \ {0}
BY WindowAssumption DEF Window

\* No clock is further ahead than Ahead, nor two clocks further apart.
LEMMA SpreadCovers ==
    /\ Ahead \in Nat /\ MaxLag \in Nat /\ Spread = MaxLag + Ahead
    /\ \A i \in Instance : Skew[i] \in Nat /\ Skew[i] =< Ahead
<1>1. PICK i \in Instance : \A j \in Instance : Skew[j] =< Skew[i]
  BY SkewAssumption
<1>2. \E s \in {Skew[j] : j \in Instance} : \A j \in Instance : s >= Skew[j]
  BY <1>1, SkewAssumption
<1>3. Ahead \in {Skew[j] : j \in Instance} /\ \A j \in Instance : Ahead >= Skew[j]
  BY <1>2 DEF Ahead
<1> QED BY <1>3, SkewAssumption, WindowAssumption DEF Spread

\* Among any numbers there is a least one.
LEMMA LeastOf ==
    ASSUME NEW T \in SUBSET Nat, T # {}
    PROVE  \E m \in T : \A n \in T : m =< n
<1> DEFINE R == OpToRel(<, Nat)
<1>1. IsWellFoundedOn(R, Nat)
  BY NatLessThanWellFounded
<1>2. PICK m \in T : \A n \in T : <<n, m>> \notin R
  BY <1>1, WFMin
<1>3. ASSUME NEW n \in T PROVE m =< n
  <2>1. m \in Nat /\ n \in Nat /\ ~(n < m)
    BY <1>2 DEF OpToRel
  <2> QED BY <2>1
<1> QED BY <1>3

\* A key is a class, a scope of it and an identifier of that scope.
LEMMA KeyShape ==
    ASSUME NEW k \in Key
    PROVE  /\ k[1] \in Class /\ k[2] \in DOMAIN Limit[k[1]] /\ k[2] \in Scope
           /\ k = <<k[1], k[2], k[3]>> /\ LimitOf(k) \in Nat \ {0}
<1>1. PICK class \in Class : k \in UNION {{<<class, scope, id>> : id \in Identifier[scope]}
                                          : scope \in DOMAIN Limit[class]}
  BY DEF Key
<1>2. PICK scope \in DOMAIN Limit[class] : k \in {<<class, scope, id>> : id \in Identifier[scope]}
  BY <1>1
<1> QED BY <1>2, LimitAssumption DEF LimitOf

\* Each identifier of a scope has a key.
LEMMA KeyIn ==
    ASSUME NEW class \in Class, NEW scope \in DOMAIN Limit[class], NEW id \in Identifier[scope]
    PROVE  <<class, scope, id>> \in Key
BY DEF Key

\* A request names an identifier, or none, for each scope of its class.
LEMMA RequestShape ==
    ASSUME NEW request \in Requests
    PROVE  /\ request.class \in Class
           /\ DOMAIN request.id = DOMAIN Limit[request.class]
           /\ \A s \in DOMAIN Limit[request.class] : request.id[s] \in Resolves(request.class, s)
           /\ Resolvable(request) \subseteq Scope
           /\ Resolvable(request) \subseteq DOMAIN Limit[request.class]
           /\ "perIp" \in DOMAIN Limit[request.class] =>
                request.id["perIp"] \in Address /\ "perIp" \in Resolvable(request)
           /\ \A s \in Resolvable(request) : <<request.class, s, request.id[s]>> \in Key
<1>1. PICK class \in Class :
        request \in { [class |-> class, id |-> id] :
                id \in {f \in [DOMAIN Limit[class] -> UNION {Resolves(class, s) : s \in DOMAIN Limit[class]}] :
                          \A s \in DOMAIN Limit[class] : f[s] \in Resolves(class, s)} }
  BY DEF Requests
<1>2. /\ request.class = class /\ DOMAIN request.id = DOMAIN Limit[class]
      /\ \A s \in DOMAIN Limit[class] : request.id[s] \in Resolves(class, s)
  BY <1>1
<1>3. Resolvable(request) \subseteq DOMAIN Limit[class] /\ DOMAIN Limit[class] \subseteq Scope
  BY <1>2, LimitAssumption DEF Resolvable
<1>4. "perIp" \in DOMAIN Limit[class] =>
        request.id["perIp"] \in Address /\ "perIp" \in Resolvable(request)
  BY <1>2, NoneAssumption DEF Resolves, Identifier, Resolvable
<1>5. ASSUME NEW s \in Resolvable(request)
      PROVE  <<class, s, request.id[s]>> \in Key
  <2>1. request.id[s] \in Resolves(class, s) /\ request.id[s] # None /\ s \in DOMAIN Limit[class]
    BY <1>2, <1>3 DEF Resolvable
  <2>2. request.id[s] \in Identifier[s]
    BY <2>1 DEF Resolves, Identifier
  <2> QED BY <2>1, <2>2, KeyIn
<1> QED BY <1>2, <1>3, <1>4, <1>5

\* A request at the guard is one there; elsewhere it is in another state.
LEMMA CallShape ==
    ASSUME TypeOK, NEW c \in Call
    PROVE  /\ call[c].at \in {"waiting", "guard", "handler", "refused"}
           /\ call[c].at = "waiting" <=> call[c] = Waiting
           /\ call[c].at = "guard" <=> call[c] \in Guarded
           /\ call[c].at = "handler" <=> call[c] \in Handled
<1>1. call[c] \in {Waiting, Refused} \cup Guarded \cup Handled
  BY DEF TypeOK
<1> QED BY <1>1 DEF Waiting, Refused, Guarded, Handled

-----------------------------------------------------------------------------
(* What a step does. *)

\* At the guard a request has spent what it does not owe any more.
TodoIsDue ==
    \A c \in Call : call[c].at = "guard" =>
        /\ call[c].todo # {}
        /\ call[c].spent \cup call[c].todo = Resolvable(call[c].request)

\* An entry is of a request that has come, by the clock it read.
EntriesAreRequests ==
    \A k \in Key : \A e \in entries[k] :
        /\ call[e.member].at # "waiting"
        /\ call[e.member].at = "guard" => e.score = call[e.member].now

Kept(c) == InWindow(entries[KeyOf(call[c])], call[c].now)
EntryOf(c) == [score |-> call[c].now, member |-> c]
StampOf(c) == [at |-> clock, by |-> CameFrom(call[c].request), call |-> c]

\* A script either turns the request away, or takes it a slot, or finds the one
\* it took.
TurnsAway(c) ==
    LET key == KeyOf(call[c])
    IN  /\ Cardinality(Kept(c)) >= LimitOf(key)
        /\ entries'[key] = Kept(c) /\ charged'[key] = charged[key]
        /\ refused'[key] = Refusal(Kept(c), call[c].now)
Takes(c) ==
    LET key == KeyOf(call[c])
    IN  /\ Cardinality(Kept(c)) < LimitOf(key)
        /\ \A e \in Kept(c) : e.member # c
        /\ entries'[key] = Kept(c) \cup {EntryOf(c)}
        /\ charged'[key] = charged[key] \cup {StampOf(c)}
        /\ refused'[key] = None
FindsItsOwn(c) ==
    LET key == KeyOf(call[c])
    IN  /\ Cardinality(Kept(c)) < LimitOf(key)
        /\ EntryOf(c) \in Kept(c)
        /\ entries'[key] = Kept(c) /\ charged'[key] = charged[key]
        /\ refused'[key] = None

RunEffect(c) ==
    LET key == KeyOf(call[c])
    IN  /\ call[c].at = "guard" /\ clock' = clock
        /\ entries' = [k \in Key |-> entries'[k]] /\ expires' = [k \in Key |-> expires'[k]]
        /\ charged' = [k \in Key |-> charged'[k]] /\ refused' = [k \in Key |-> refused'[k]]
        /\ \A k \in Key \ {key} :
             /\ entries'[k] = entries[k] /\ expires'[k] = expires[k]
             /\ charged'[k] = charged[k] /\ refused'[k] = refused[k]
        /\ expires'[key] = clock + Window
        /\ TurnsAway(c) \/ Takes(c) \/ FindsItsOwn(c)

\* The window a request goes to next is one of its own.
LEMMA NextKey ==
    ASSUME TypeOK, TodoIsDue, NEW c \in Call, call[c].at = "guard"
    PROVE  LET m == call[c]
           IN  /\ m \in Guarded
               /\ NextScope(m.todo) \in m.todo
               /\ m.todo \subseteq Resolvable(m.request)
               /\ "perIp" \in m.todo => NextScope(m.todo) = "perIp"
               /\ KeyOf(m) = <<m.request.class, NextScope(m.todo), m.request.id[NextScope(m.todo)]>>
               /\ KeyOf(m) \in Key
<1> DEFINE m == call[c]
<1>1. m \in Guarded
  BY CallShape
<1>2. m.request \in Requests /\ m.todo # {} /\ m.todo \subseteq Resolvable(m.request)
  BY <1>1 DEF Guarded, TodoIsDue
<1>3. NextScope(m.todo) \in m.todo /\ ("perIp" \in m.todo => NextScope(m.todo) = "perIp")
  BY <1>2 DEF NextScope
<1>4. KeyOf(m) = <<m.request.class, NextScope(m.todo), m.request.id[NextScope(m.todo)]>>
  BY DEF KeyOf
<1>5. <<m.request.class, NextScope(m.todo), m.request.id[NextScope(m.todo)]>> \in Key
  BY <1>2, <1>3, RequestShape
<1> QED BY <1>1, <1>2, <1>3, <1>4, <1>5

\* CONSUME_SCRIPT, by what it finds.
LEMMA RunShape ==
    ASSUME TypeOK, TodoIsDue, EntriesAreRequests, NEW c \in Call, Runs(c)
    PROVE  RunEffect(c)
<1> DEFINE m == call[c]
           key == KeyOf(m)
           outcome == Consumed(key, m.now, c)
<1>1. m.at = "guard"
  BY DEF Runs
<1>2. m \in Guarded /\ key \in Key
  BY <1>1, NextKey
<1>3. /\ entries' = [entries EXCEPT ![key] = outcome.set]
      /\ expires' = [expires EXCEPT ![key] = clock + Window]
      /\ charged' = IF outcome.allowed /\ c \notin {e.member : e \in Kept(c)}
                    THEN [charged EXCEPT ![key] = @ \cup {StampOf(c)}] ELSE charged
      /\ refused' = [refused EXCEPT ![key] =
                       IF outcome.allowed THEN None ELSE Refusal(outcome.set, m.now)]
      /\ clock' = clock
  BY DEF Runs, Kept, StampOf
<1>4. /\ DOMAIN entries = Key /\ DOMAIN expires = Key
      /\ DOMAIN charged = Key /\ DOMAIN refused = Key
      /\ entries[key] \subseteq [score : Nat, member : Call]
      /\ IsFiniteSet(entries[key]) /\ LimitOf(key) \in Nat
  BY <1>2, KeyShape DEF TypeOK
<1>5. Cardinality(Kept(c)) \in Nat
  BY <1>4, FS_Subset, FS_CardinalityType DEF Kept, InWindow
<1>6. /\ entries'[key] = outcome.set /\ expires'[key] = clock + Window
      /\ refused'[key] = IF outcome.allowed THEN None ELSE Refusal(outcome.set, m.now)
  BY <1>2, <1>3, <1>4
<1>7. /\ entries' = [k \in Key |-> entries'[k]] /\ expires' = [k \in Key |-> expires'[k]]
      /\ charged' = [k \in Key |-> charged'[k]] /\ refused' = [k \in Key |-> refused'[k]]
      /\ \A k \in Key \ {key} :
             /\ entries'[k] = entries[k] /\ expires'[k] = expires[k]
             /\ charged'[k] = charged[k] /\ refused'[k] = refused[k]
  <2>1. /\ entries' = [k \in Key |-> entries'[k]] /\ expires' = [k \in Key |-> expires'[k]]
        /\ refused' = [k \in Key |-> refused'[k]]
    BY <1>3, <1>4 DEF TypeOK
  <2>2. charged' = [k \in Key |-> charged'[k]]
    BY <1>3, <1>4 DEF TypeOK
  <2>3. ASSUME NEW k \in Key \ {key}
        PROVE  /\ entries'[k] = entries[k] /\ expires'[k] = expires[k]
               /\ charged'[k] = charged[k] /\ refused'[k] = refused[k]
    BY <1>3, <1>4
  <2> QED BY <2>1, <2>2, <2>3
<1>8. CASE Cardinality(Kept(c)) >= LimitOf(key)
  <2>1. outcome.set = Kept(c) /\ outcome.allowed = FALSE
    BY <1>4, <1>5, <1>8 DEF Consumed, HasRoom, Kept
  <2>2. TurnsAway(c)
    BY <1>3, <1>6, <1>8, <2>1 DEF TurnsAway
  <2> QED BY <1>1, <1>3, <1>6, <1>7, <2>2 DEF RunEffect
<1>9. CASE Cardinality(Kept(c)) < LimitOf(key)
  <2>1. outcome.set = Kept(c) \cup {EntryOf(c)} /\ outcome.allowed = TRUE
    BY <1>4, <1>5, <1>9 DEF Consumed, HasRoom, Kept, Taken, EntryOf
  <2>2. CASE \A e \in Kept(c) : e.member # c
    <3>1. charged'[key] = charged[key] \cup {StampOf(c)}
      BY <1>2, <1>3, <1>4, <2>1, <2>2
    <3>2. Takes(c)
      BY <1>6, <1>9, <2>1, <2>2, <3>1 DEF Takes
    <3> QED BY <1>1, <1>3, <1>6, <1>7, <3>2 DEF RunEffect
  <2>3. CASE \E e \in Kept(c) : e.member = c
    <3>1. PICK e \in Kept(c) : e.member = c
      BY <2>3
    <3>2. e \in entries[key] /\ e \in [score : Nat, member : Call]
      BY <1>4, <3>1 DEF Kept, InWindow
    <3>3. e.score = m.now
      BY <1>1, <1>2, <3>1, <3>2 DEF EntriesAreRequests
    <3>4. e = EntryOf(c)
      BY <3>1, <3>2, <3>3 DEF EntryOf
    <3>5. charged'[key] = charged[key] /\ Kept(c) \cup {EntryOf(c)} = Kept(c)
      BY <1>3, <2>3, <3>1, <3>4
    <3>6. FindsItsOwn(c)
      BY <1>6, <1>9, <2>1, <3>1, <3>4, <3>5 DEF FindsItsOwn
    <3> QED BY <1>1, <1>3, <1>6, <1>7, <3>6 DEF RunEffect
  <2> QED BY <2>2, <2>3
<1> QED BY <1>4, <1>5, <1>8, <1>9

\* What a request is after a window answered it.
LEMMA ContinuedShape ==
    ASSUME NEW m \in Guarded, NEW scope \in m.todo, NEW allowed \in BOOLEAN,
           m.spent \cup m.todo = Resolvable(m.request)
    PROVE  LET n == Continued(m, scope, allowed)
           IN  /\ n \in {Refused} \cup Guarded \cup Handled
               /\ n.at = "guard" =>
                    /\ allowed /\ n.request = m.request /\ n.instance = m.instance /\ n.now = m.now
                    /\ n.todo = m.todo \ {scope} /\ n.todo # {} /\ n.spent = m.spent \cup {scope}
               /\ n.at = "handler" =>
                    n.class = m.request.class /\ n.spent = n.due /\ n.due = Resolvable(m.request)
<1> DEFINE n == Continued(m, scope, allowed)
           left == m.todo \ {scope}
           spent == IF allowed THEN m.spent \cup {scope} ELSE m.spent
           next == [m EXCEPT !.todo = left, !.sent = FALSE,
                             !.spent = IF allowed THEN @ \cup {scope} ELSE @]
<1>1. /\ m.request \in Requests /\ m.spent \in SUBSET Scope /\ m.todo \in SUBSET Scope
      /\ m.at = "guard" /\ m.request.class \in Class /\ Resolvable(m.request) \in SUBSET Scope
  BY RequestShape DEF Guarded
<1>2. spent \in SUBSET Scope /\ left \in SUBSET Scope
  BY <1>1
<1>3. /\ next \in Guarded /\ next.at = "guard" /\ next.todo = left /\ next.spent = spent
      /\ next.request = m.request /\ next.instance = m.instance /\ next.now = m.now
  BY <1>2 DEF Guarded
<1>4. CASE GoesOn(allowed, left)
  <2>1. n = next
    BY <1>4 DEF Continued
  <2>2. allowed /\ left # {}
    BY <1>4 DEF GoesOn
  <2> QED BY <1>3, <2>1, <2>2
<1>5. CASE ~GoesOn(allowed, left) /\ spent = Resolvable(m.request)
  <2>1. n = Passed(m.request, spent)
    BY <1>3, <1>5 DEF Continued
  <2> QED BY <1>1, <1>2, <1>5, <2>1 DEF Passed, Handled
<1>6. CASE ~GoesOn(allowed, left) /\ spent # Resolvable(m.request)
  <2>1. n = Refused
    BY <1>3, <1>6 DEF Continued
  <2> QED BY <2>1 DEF Refused
<1> QED BY <1>4, <1>5, <1>6

\* A request that stays at the guard stays the one it is.
SameCall(n, m) ==
    /\ n.request = m.request /\ n.instance = m.instance /\ n.now = m.now

\* Requests come, and go; only a new one reads the clock.
CallEffect ==
    /\ call' \in [Call -> {Waiting, Refused} \cup Guarded \cup Handled]
    /\ \A d \in Call : call[d].at # "waiting" => call'[d].at # "waiting"
    /\ \A d \in Call : call'[d].at = "guard" =>
         /\ call'[d].todo # {}
         /\ call'[d].spent \cup call'[d].todo = Resolvable(call'[d].request)
         /\ \/ /\ call[d].at = "waiting" /\ call'[d].spent = {}
               /\ call'[d].now = Now(call'[d].instance)
            \/ call[d].at = "guard" /\ SameCall(call'[d], call[d])
    /\ \A d \in Call : call'[d].at = "handler" =>
         \/ call'[d] = call[d]
         \/ FailsOpen(call'[d].class)
         \/ call'[d].spent = call'[d].due /\ call'[d].due # {}

\* One call moves to a state of its own.
LEMMA OneCallMoves ==
    ASSUME TypeOK, TodoIsDue, NEW c \in Call, NEW n, call' = [call EXCEPT ![c] = n],
           n \in {Refused} \cup Guarded \cup Handled,
           n.at = "guard" =>
             /\ n.todo # {} /\ n.spent \cup n.todo = Resolvable(n.request)
             /\ \/ call[c].at = "waiting" /\ n.spent = {} /\ n.now = Now(n.instance)
                \/ call[c].at = "guard" /\ SameCall(n, call[c]),
           n.at = "handler" => FailsOpen(n.class) \/ (n.spent = n.due /\ n.due # {})
    PROVE  CallEffect
<1>1. call \in [Call -> {Waiting, Refused} \cup Guarded \cup Handled]
  BY DEF TypeOK
<1>2. call' \in [Call -> {Waiting, Refused} \cup Guarded \cup Handled]
  BY <1>1
<1>3. call'[c] = n /\ \A d \in Call \ {c} : call'[d] = call[d]
  BY <1>1
<1>4. n.at # "waiting"
  BY DEF Refused, Guarded, Handled
<1>5. ASSUME NEW d \in Call, call'[d].at = "guard"
      PROVE  /\ call'[d].todo # {}
             /\ call'[d].spent \cup call'[d].todo = Resolvable(call'[d].request)
             /\ \/ /\ call[d].at = "waiting" /\ call'[d].spent = {}
                   /\ call'[d].now = Now(call'[d].instance)
                \/ call[d].at = "guard" /\ SameCall(call'[d], call[d])
  <2>1. CASE d = c
    BY <1>3, <1>5, <2>1
  <2>2. CASE d # c
    BY <1>3, <1>5, <2>2 DEF TodoIsDue, SameCall
  <2> QED BY <2>1, <2>2
<1>6. ASSUME NEW d \in Call, call'[d].at = "handler"
      PROVE  \/ call'[d] = call[d]
             \/ FailsOpen(call'[d].class)
             \/ call'[d].spent = call'[d].due /\ call'[d].due # {}
  BY <1>3, <1>6
<1>7. \A d \in Call : call[d].at # "waiting" => call'[d].at # "waiting"
  BY <1>3, <1>4
<1> QED BY <1>2, <1>5, <1>6, <1>7 DEF CallEffect

\* The steps of the guard, as they move the requests.
LEMMA CallsMove ==
    ASSUME TypeOK, TodoIsDue, [Next]_vars
    PROVE  CallEffect
<1>0. call \in [Call -> {Waiting, Refused} \cup Guarded \cup Handled] /\ clock \in Nat
  BY DEF TypeOK
<1>1. CASE UNCHANGED call
  BY <1>0, <1>1 DEF CallEffect, TodoIsDue, SameCall
<1>2. ASSUME NEW c \in Call, Arrive(c) PROVE CallEffect
  <2>1. PICK request \in Requests, i \in Instance :
         call' = [call EXCEPT ![c] =
            CASE Resolvable(request) # {} ->
                   [at |-> "guard", request |-> request, spent |-> {}, instance |-> i,
                    now |-> Now(i), todo |-> Resolvable(request), sent |-> FALSE]
              [] Resolvable(request) = {} /\ FailsOpen(request.class) -> Passed(request, {})
              [] OTHER -> Refused]
    BY <1>2 DEF Arrive
  <2>2. call[c].at = "waiting"
    BY <1>2 DEF Arrive, Waiting
  <2>3. Resolvable(request) \in SUBSET Scope /\ request.class \in Class /\ Now(i) \in Nat
    BY <1>0, RequestShape, SpreadCovers DEF Now
  <2>4. CASE Resolvable(request) # {}
    <3> DEFINE n == [at |-> "guard", request |-> request, spent |-> {}, instance |-> i,
                     now |-> Now(i), todo |-> Resolvable(request), sent |-> FALSE]
    <3>1. call' = [call EXCEPT ![c] = n]
      BY <2>1, <2>4
    <3>2. n \in Guarded
      BY <2>3 DEF Guarded
    <3> HIDE DEF n
    <3>3. /\ n.todo # {} /\ n.spent \cup n.todo = Resolvable(n.request)
          /\ n.spent = {} /\ n.now = Now(n.instance) /\ n.at = "guard"
      BY <2>4 DEF n
    <3> QED BY <2>2, <3>1, <3>2, <3>3, OneCallMoves
  <2>5. CASE Resolvable(request) = {} /\ FailsOpen(request.class)
    <3> DEFINE n == Passed(request, {})
    <3>1. call' = [call EXCEPT ![c] = n]
      BY <2>1, <2>5
    <3>2. n \in Handled /\ n.at = "handler" /\ n.class = request.class
      BY <2>3 DEF Handled, Passed
    <3> HIDE DEF n
    <3>3. n.at # "guard" /\ FailsOpen(n.class)
      BY <2>5, <3>2
    <3> QED BY <3>1, <3>2, <3>3, OneCallMoves
  <2>6. CASE Resolvable(request) = {} /\ ~FailsOpen(request.class)
    <3>1. call' = [call EXCEPT ![c] = Refused]
      BY <2>1, <2>6
    <3> QED BY <3>1, OneCallMoves DEF Refused
  <2> QED BY <2>4, <2>5, <2>6
<1>3. ASSUME NEW c \in Call, Consume(c) PROVE CallEffect
  <2> DEFINE m == call[c]
             allowed == Consumed(KeyOf(m), m.now, c).allowed
             n == Continued(m, NextScope(m.todo), allowed)
  <2>1. m.at = "guard" /\ call' = [call EXCEPT ![c] = n]
    BY <1>3 DEF Consume, Runs
  <2>2. m \in Guarded /\ NextScope(m.todo) \in m.todo
        /\ m.spent \cup m.todo = Resolvable(m.request) /\ m.todo # {}
    BY <2>1, NextKey DEF TodoIsDue
  <2>3. allowed \in BOOLEAN
    BY DEF Consumed
  <2> HIDE DEF m, allowed
  <2>4. /\ n \in {Refused} \cup Guarded \cup Handled
        /\ n.at = "guard" =>
             /\ allowed /\ n.request = m.request /\ n.instance = m.instance /\ n.now = m.now
             /\ n.todo = m.todo \ {NextScope(m.todo)} /\ n.todo # {}
             /\ n.spent = m.spent \cup {NextScope(m.todo)}
        /\ n.at = "handler" =>
             n.class = m.request.class /\ n.spent = n.due /\ n.due = Resolvable(m.request)
    BY <2>2, <2>3, ContinuedShape
  <2> HIDE DEF n
  <2>5. n.at = "guard" => /\ n.todo # {} /\ n.spent \cup n.todo = Resolvable(n.request)
                          /\ SameCall(n, m)
    BY <2>2, <2>4 DEF SameCall
  <2>6. n.at = "handler" => n.spent = n.due /\ n.due # {}
    BY <2>2, <2>4
  <2> QED BY <2>1, <2>4, <2>5, <2>6, OneCallMoves DEF m
<1>4. ASSUME NEW c \in Call, LoseReply(c) PROVE CallEffect
  <2> DEFINE m == call[c]
             n == [m EXCEPT !.sent = TRUE]
  <2>1. m.at = "guard" /\ call' = [call EXCEPT ![c] = n]
    BY <1>4 DEF LoseReply, Runs
  <2>2. m \in Guarded
    BY <2>1, CallShape
  <2>3. /\ n \in Guarded /\ n.request = m.request /\ n.instance = m.instance /\ n.now = m.now
        /\ n.todo = m.todo /\ n.spent = m.spent /\ n.at = "guard"
    BY <2>2 DEF Guarded
  <2> HIDE DEF n
  <2>4. n.todo # {} /\ n.spent \cup n.todo = Resolvable(n.request) /\ SameCall(n, m)
    BY <2>1, <2>3 DEF TodoIsDue, SameCall
  <2> QED BY <2>1, <2>3, <2>4, OneCallMoves
<1>5. ASSUME NEW c \in Call, CommandFails(c) PROVE CallEffect
  <2> DEFINE m == call[c]
  <2>1. m.at = "guard" /\ m \in Guarded
    BY <1>5, CallShape DEF CommandFails
  <2>2. m.request \in Requests /\ m.spent \in SUBSET Scope
    BY <2>1 DEF Guarded
  <2>3. m.request.class \in Class /\ Resolvable(m.request) \in SUBSET Scope
    BY <2>2, RequestShape
  <2>4. CASE FailsOpen(m.request.class)
    <3> DEFINE n == Passed(m.request, m.spent)
    <3>1. call' = [call EXCEPT ![c] = n]
      BY <1>5, <2>4 DEF CommandFails
    <3>2. n \in Handled /\ n.at = "handler" /\ n.class = m.request.class
      BY <2>2, <2>3 DEF Handled, Passed
    <3> HIDE DEF n
    <3>3. n.at # "guard" /\ FailsOpen(n.class)
      BY <2>4, <3>2
    <3> QED BY <3>1, <3>2, <3>3, OneCallMoves
  <2>5. CASE ~FailsOpen(m.request.class)
    <3>1. call' = [call EXCEPT ![c] = Refused]
      BY <1>5, <2>5 DEF CommandFails
    <3> QED BY <3>1, OneCallMoves DEF Refused
  <2> QED BY <2>4, <2>5
<1>6. CASE Tick \/ UNCHANGED vars
  BY <1>1, <1>6 DEF Tick, vars
<1> QED BY <1>2, <1>3, <1>4, <1>5, <1>6 DEF Next

-----------------------------------------------------------------------------
(* The invariant.  What the counts of a window rest on is that an entry and *)
(* the slot it stands for are as far apart in time as two clocks and a late *)
(* script can be, and that the entry of a recent slot is still there.       *)

\* When a request read its clock, in true time; it is not long ago.
ReadAt(c) == call[c].now - Skew[call[c].instance]
RequestsAreBrief ==
    \A c \in Call : call[c].at = "guard" => ReadAt(c) =< clock /\ clock =< ReadAt(c) + MaxLag

ChargesArePast ==
    \A k \in Key : \A x \in charged[k] :
        /\ x.at =< clock /\ call[x.call].at # "waiting"
        /\ call[x.call].at = "guard" => ReadAt(x.call) =< x.at
ChargesAreFinite == \A k \in Key : IsFiniteSet(charged[k])

\* A key outlives its last slot by a window.
KeysOutlive ==
    \A k \in Key : \A x \in charged[k] : entries[k] # {} => x.at + Window =< expires[k]

\* The slots that no clock takes for old: their entries are there, one each.
Recent(k) == {x \in charged[k] : x.at > clock - (Window - Spread)}
RecentHold ==
    \A k \in Key : \A x \in Recent(k) :
        \E e \in entries[k] : e.member = x.call /\ e.score >= x.at - MaxLag
RecentDiffer ==
    \A k \in Key : \A x, y \in Recent(k) : x.call = y.call => x = y

\* The entries that some clock does not take for old: a slot was taken for
\* each, and each is of another request.
EntriesWerePaid ==
    \A k \in Key : \A e \in entries[k] :
        e.score > clock - MaxLag - Window =>
            \E x \in charged[k] : x.call = e.member /\ x.at >= e.score - Ahead
EntriesDiffer ==
    \A k \in Key : \A e, f \in entries[k] : e.member = f.member => e = f

\* After a refusal there is room, or will be when the caller was told to come.
RoomIsNear ==
    \A k \in Key : refused[k] # None /\ ~refused[k].ahead =>
        \/ Cardinality(entries[k]) < LimitOf(k)
        \/ \E e \in entries[k] : e.score + Window =< refused[k].until

\* A request pays its address first, ...
AddressKey(c) == <<call[c].request.class, "perIp", call[c].request.id["perIp"]>>
AddressesArePaid ==
    \A c \in Call : call[c].at = "guard" /\ "perIp" \in call[c].spent =>
        \E w \in charged[AddressKey(c)] : w.call = c /\ w.at >= ReadAt(c)
AddressesWerePaid ==
    \A k \in Key : \A y \in charged[k] :
        /\ k[2] = "perPrincipal" /\ "perIp" \in DOMAIN Limit[k[1]]
        /\ y.at > clock - (Window - Spread - MaxLag)
        => /\ y.by \in Address
           /\ \E w \in charged[<<k[1], "perIp", y.by>>] : w.call = y.call /\ w.at >= y.at - MaxLag
\* ... and only at the keys it names, one a scope.
ChargesAreOwn ==
    \A k \in Key : \A x \in charged[k] : call[x.call].at = "guard" =>
        k[1] = call[x.call].request.class /\ k[3] = call[x.call].request.id[k[2]]
OneKeyAScope ==
    \A k, l \in Key : \A x \in charged[k], y \in charged[l] :
        x.call = y.call /\ k[2] = l[2] => k = l

Requested == TypeOK /\ TodoIsDue /\ EntriesAreRequests /\ RequestsAreBrief
Paid ==
    /\ ChargesArePast /\ ChargesAreFinite /\ KeysOutlive
    /\ RecentHold /\ RecentDiffer /\ EntriesWerePaid /\ EntriesDiffer
OwnKeys == AddressesArePaid /\ AddressesWerePaid /\ ChargesAreOwn /\ OneKeyAScope

-----------------------------------------------------------------------------
(* Each kind of step. *)

\* A step runs a script, lets time pass, or leaves the windows alone.
LEMMA StepCases ==
    ASSUME TypeOK, TodoIsDue, EntriesAreRequests, [Next]_vars
    PROVE  \/ \E c \in Call : RunEffect(c)
           \/ Tick
           \/ UNCHANGED <<clock, entries, expires, charged, refused>>
BY RunShape DEF Next, vars, Arrive, Consume, LoseReply, CommandFails

\* What time does to a key.
LEMMA TickShape ==
    ASSUME TypeOK, Tick, NEW k \in Key
    PROVE  /\ clock' = clock + 1
           /\ \/ expires[k] =< clock' /\ entries'[k] = {} /\ expires'[k] = 0
              \/ expires[k] > clock' /\ entries'[k] = entries[k] /\ expires'[k] = expires[k]
           /\ charged'[k] = {x \in charged[k] : x.at > clock - Window - Spread}
           /\ refused'[k] = None \/ refused'[k] = refused[k]
BY DEF Tick, Retained, TypeOK

\* A refusal tells its caller a time by which the oldest entry has gone.
LEMMA RefusalShape ==
    ASSUME NEW S, S \subseteq [score : Nat, member : Call], S # {}, NEW now \in Nat,
           \A e \in S : e.score > now - Window
    PROVE  /\ Refusal(S, now) \in [now : Nat, until : Nat, ahead : BOOLEAN]
           /\ Refusal(S, now).now = now
           /\ ~Refusal(S, now).ahead => \E e \in S : e.score + Window =< Refusal(S, now).until
<1> DEFINE scores == {e.score : e \in S}
           wait == Oldest(S) + Window - now
           q == Ceil(wait)
<1>1. Window \in Nat \ {0} /\ Second \in Nat \ {0} /\ WindowSeconds \in Nat \ {0}
  BY WindowIsPositive, WindowAssumption
<1>2. scores \in SUBSET Nat /\ scores # {}
  OBVIOUS
<1>3. \E m \in scores : \A n \in scores : m =< n
  BY <1>2, LeastOf
<1>4. Oldest(S) \in scores /\ \A n \in scores : Oldest(S) =< n
  BY <1>3 DEF Oldest
<1>5. PICK e \in S : e.score = Oldest(S)
  BY <1>4
<1>6. Oldest(S) \in Nat /\ wait \in Nat \ {0}
  BY <1>1, <1>2, <1>4, <1>5
<1>7. q \in Nat /\ wait =< Second * q
  <2> DEFINE a == wait + Second - 1
  <2>1. a \in Nat
    BY <1>1, <1>6
  <2>2. q = a \div Second
    BY DEF Ceil
  <2> HIDE DEF a, wait, q
  <2>3. a \div Second \in Nat /\ a < Second * (a \div Second) + Second
    BY <1>1, <2>1
  <2>4. Second * q \in Nat /\ a < Second * q + Second
    BY <1>1, <2>2, <2>3
  <2> QED BY <1>1, <1>6, <2>2, <2>3, <2>4 DEF a
<1> HIDE DEF wait, q
<1>8. /\ Clamp(q) \in Nat
      /\ Oldest(S) =< now => wait =< Second * Clamp(q)
  <2>1. CASE q > WindowSeconds
    <3>1. Clamp(q) = WindowSeconds
      BY <2>1 DEF Clamp
    <3>2. Second * WindowSeconds = Window
      BY <1>1 DEF Window
    <3> QED BY <1>1, <1>6, <3>1, <3>2 DEF wait
  <2>2. CASE q =< WindowSeconds /\ q < 1
    <3>1. q = 0 /\ Second * 0 = 0
      BY <1>1, <1>7, <2>2
    <3> QED BY <1>6, <1>7, <3>1
  <2>3. CASE q =< WindowSeconds /\ q >= 1
    BY <1>1, <1>7, <2>3 DEF Clamp
  <2> QED BY <1>1, <1>7, <2>1, <2>2, <2>3
<1>9. Refusal(S, now) = [now |-> now, until |-> now + Second * Clamp(q), ahead |-> Oldest(S) > now]
  BY DEF Refusal, RetryAfter, wait, q
<1>10. Second * Clamp(q) \in Nat
  BY <1>1, <1>8
<1>11. ASSUME ~Refusal(S, now).ahead PROVE e.score + Window =< Refusal(S, now).until
  <2> DEFINE late == Oldest(S) > now
  <2> HIDE DEF late
  <2>0. Refusal(S, now).ahead = late
    BY <1>9 DEF late
  <2>1. Oldest(S) =< now
    <3>1. ~late
      BY <1>11, <2>0
    <3> QED BY <1>6, <3>1 DEF late
  <2>2. now + wait = e.score + Window
    BY <1>1, <1>5, <1>6 DEF wait
  <2> QED BY <1>6, <1>8, <1>9, <1>10, <2>1, <2>2
<1> QED BY <1>5, <1>9, <1>10, <1>11

\* Facts about the window a script runs on.
LEMMA RunTypes ==
    ASSUME Requested, NEW c \in Call, RunEffect(c)
    PROVE  LET key == KeyOf(call[c])
           IN  /\ key \in Key /\ call[c] \in Guarded /\ clock \in Nat /\ call[c].now \in Nat
               /\ LimitOf(key) \in Nat \ {0}
               /\ Kept(c) \subseteq entries[key]
               /\ Kept(c) = {e \in entries[key] : e.score > call[c].now - Window}
               /\ Kept(c) \subseteq [score : Nat, member : Call]
               /\ EntryOf(c) \in [score : Nat, member : Call]
               /\ EntryOf(c).score = call[c].now /\ EntryOf(c).member = c
               /\ StampOf(c) \in [at : Nat, by : Address \cup {None}, call : Call]
               /\ StampOf(c).at = clock /\ StampOf(c).call = c
               /\ StampOf(c).by = CameFrom(call[c].request)
               /\ IsFiniteSet(Kept(c)) /\ Cardinality(Kept(c)) \in Nat
               /\ Cardinality(Kept(c)) =< Cardinality(entries[key])
               /\ call[c].now >= clock - MaxLag /\ call[c].now =< clock + Ahead
               /\ ReadAt(c) =< clock /\ clock =< ReadAt(c) + MaxLag /\ ReadAt(c) \in Int
<1> DEFINE m == call[c]
           key == KeyOf(m)
<1>1. m.at = "guard"
  BY DEF RunEffect
<1>2. key \in Key /\ m \in Guarded
  BY <1>1, NextKey DEF Requested
<1>3. /\ m.request \in Requests /\ m.instance \in Instance /\ m.now \in Nat /\ clock \in Nat
      /\ entries[key] \subseteq [score : Nat, member : Call]
      /\ IsFiniteSet(entries[key]) /\ LimitOf(key) \in Nat \ {0}
  BY <1>2, KeyShape DEF Guarded, Requested, TypeOK
<1>4. Kept(c) = {e \in entries[key] : e.score > m.now - Window}
  BY DEF Kept, InWindow
<1>5. Kept(c) \in SUBSET entries[key]
  BY <1>4
<1>6. /\ IsFiniteSet(Kept(c)) /\ Cardinality(Kept(c)) \in Nat
      /\ Cardinality(Kept(c)) =< Cardinality(entries[key])
  BY <1>3, <1>5, FS_Subset, FS_CardinalityType
<1>7. CameFrom(m.request) \in Address \cup {None}
  BY <1>3, RequestShape DEF CameFrom
<1>8. ReadAt(c) =< clock /\ clock =< ReadAt(c) + MaxLag
  BY <1>1 DEF Requested, RequestsAreBrief
<1>9. /\ Skew[m.instance] \in Nat /\ Skew[m.instance] =< Ahead /\ Ahead \in Nat /\ MaxLag \in Nat
      /\ ReadAt(c) = m.now - Skew[m.instance]
  BY <1>3, SpreadCovers DEF ReadAt
<1>10. m.now >= clock - MaxLag /\ m.now =< clock + Ahead
  BY <1>3, <1>8, <1>9
<1> QED
  BY <1>2, <1>3, <1>4, <1>5, <1>6, <1>7, <1>8, <1>9, <1>10 DEF EntryOf, StampOf

\* Every variable keeps its type: a script adds an entry only where there is
\* room for one.
LEMMA TypeNext ==
    ASSUME Requested, [Next]_vars
    PROVE  TypeOK'
<1> DEFINE Entries == SUBSET [score : Nat, member : Call]
           Charges == SUBSET [at : Nat, by : Address \cup {None}, call : Call]
           Refusals == {None} \cup [now : Nat, until : Nat, ahead : BOOLEAN]
<1>0. /\ TypeOK /\ TodoIsDue /\ EntriesAreRequests
      /\ clock \in Nat /\ entries \in [Key -> Entries] /\ expires \in [Key -> Nat]
      /\ charged \in [Key -> Charges] /\ refused \in [Key -> Refusals]
      /\ \A k \in Key : IsFiniteSet(entries[k]) /\ Cardinality(entries[k]) =< LimitOf(k)
  BY DEF Requested, TypeOK
<1>1. call' \in [Call -> {Waiting, Refused} \cup Guarded \cup Handled]
  BY <1>0, CallsMove DEF CallEffect
<1>2. ASSUME NEW c \in Call, RunEffect(c) PROVE TypeOK'
  <2> DEFINE key == KeyOf(call[c])
  <2>1. /\ key \in Key /\ call[c].now \in Nat /\ LimitOf(key) \in Nat \ {0}
        /\ Kept(c) \in Entries /\ EntryOf(c) \in [score : Nat, member : Call]
        /\ Kept(c) = {e \in entries[key] : e.score > call[c].now - Window}
        /\ StampOf(c) \in [at : Nat, by : Address \cup {None}, call : Call]
        /\ IsFiniteSet(Kept(c)) /\ Cardinality(Kept(c)) \in Nat
        /\ Cardinality(Kept(c)) =< Cardinality(entries[key])
        /\ EntryOf(c).member = c
    BY <1>2, RunTypes
  <2>2. /\ clock' = clock /\ expires'[key] = clock + Window
        /\ entries' = [k \in Key |-> entries'[k]] /\ expires' = [k \in Key |-> expires'[k]]
        /\ charged' = [k \in Key |-> charged'[k]] /\ refused' = [k \in Key |-> refused'[k]]
        /\ \A k \in Key \ {key} :
             /\ entries'[k] = entries[k] /\ expires'[k] = expires[k]
             /\ charged'[k] = charged[k] /\ refused'[k] = refused[k]
        /\ TurnsAway(c) \/ Takes(c) \/ FindsItsOwn(c)
    BY <1>2 DEF RunEffect
  <2> HIDE DEF key
  <2>3. /\ entries'[key] \in Entries /\ charged'[key] \in Charges /\ refused'[key] \in Refusals
        /\ IsFiniteSet(entries'[key]) /\ Cardinality(entries'[key]) =< LimitOf(key)
    <3>1. charged[key] \in Charges /\ Cardinality(entries[key]) =< LimitOf(key)
          /\ IsFiniteSet(entries[key])
      BY <1>0, <2>1
    <3>2. CASE TurnsAway(c)
      <4>1. Cardinality(Kept(c)) >= LimitOf(key) /\ refused'[key] = Refusal(Kept(c), call[c].now)
            /\ entries'[key] = Kept(c) /\ charged'[key] = charged[key]
        BY <3>2 DEF TurnsAway, key
      <4>2. Kept(c) # {}
        BY <2>1, <4>1, FS_EmptySet
      <4>3. Refusal(Kept(c), call[c].now) \in Refusals
        BY <2>1, <4>2, RefusalShape
      <4>4. Cardinality(entries[key]) \in Nat
        BY <3>1, FS_CardinalityType
      <4> QED BY <2>1, <3>1, <4>1, <4>3, <4>4
    <3>3. CASE Takes(c)
      <4>1. /\ Cardinality(Kept(c)) < LimitOf(key) /\ refused'[key] = None
            /\ entries'[key] = Kept(c) \cup {EntryOf(c)}
            /\ charged'[key] = charged[key] \cup {StampOf(c)}
            /\ \A e \in Kept(c) : e.member # c
        BY <3>3 DEF Takes, key
      <4>2. IsFiniteSet(Kept(c) \cup {EntryOf(c)})
            /\ Cardinality(Kept(c) \cup {EntryOf(c)}) = Cardinality(Kept(c)) + 1
        BY <2>1, <4>1, FS_AddElement
      <4> QED BY <2>1, <3>1, <4>1, <4>2
    <3>4. CASE FindsItsOwn(c)
      <4>1. /\ Cardinality(Kept(c)) < LimitOf(key) /\ refused'[key] = None
            /\ entries'[key] = Kept(c) /\ charged'[key] = charged[key]
        BY <3>4 DEF FindsItsOwn, key
      <4> QED BY <2>1, <3>1, <4>1
    <3> QED BY <2>2, <3>2, <3>3, <3>4
  <2>4. entries' \in [Key -> Entries] /\ charged' \in [Key -> Charges]
    BY <1>0, <2>2, <2>3
  <2>5. refused' \in [Key -> Refusals]
    BY <1>0, <2>2, <2>3
  <2>6. expires' \in [Key -> Nat]
    BY <1>0, <2>1, <2>2, WindowIsPositive
  <2>7. \A k \in Key : IsFiniteSet(entries'[k]) /\ Cardinality(entries'[k]) =< LimitOf(k)
    BY <1>0, <2>2, <2>3
  <2> QED BY <1>0, <1>1, <2>2, <2>4, <2>5, <2>6, <2>7 DEF TypeOK, LimitOf
<1>3. CASE Tick
  <2>1. clock' \in Nat
    BY <1>0, <1>3 DEF Tick
  <2>2. /\ entries' = [k \in Key |-> IF expires[k] =< clock' THEN {} ELSE entries[k]]
        /\ expires' = [k \in Key |-> IF expires[k] =< clock' THEN 0 ELSE expires[k]]
        /\ charged' = [k \in Key |-> Retained(charged[k])]
        /\ refused' = [k \in Key |-> IF refused[k] # None /\ refused[k].until < clock - Spread
                                     THEN None ELSE refused[k]]
    BY <1>3 DEF Tick
  <2>3. entries' \in [Key -> Entries]
    BY <1>0, <2>2
  <2>4. expires' \in [Key -> Nat]
    BY <1>0, <2>2
  <2>5. charged' \in [Key -> Charges]
    BY <1>0, <2>2 DEF Retained
  <2>6. refused' \in [Key -> Refusals]
    BY <1>0, <2>2
  <2>7. ASSUME NEW k \in Key
        PROVE  IsFiniteSet(entries'[k]) /\ Cardinality(entries'[k]) =< LimitOf(k)
    <3>1. LimitOf(k) \in Nat \ {0}
      BY KeyShape
    <3>2. CASE entries'[k] = {}
      BY <3>1, <3>2, FS_EmptySet
    <3>3. CASE entries'[k] = entries[k]
      BY <1>0, <3>3
    <3> QED BY <2>2, <3>2, <3>3
  <2> QED BY <1>1, <2>1, <2>3, <2>4, <2>5, <2>6, <2>7 DEF TypeOK, LimitOf
<1>4. CASE UNCHANGED <<clock, entries, expires, charged, refused>>
  BY <1>0, <1>1, <1>4 DEF TypeOK, LimitOf
<1> QED BY <1>0, <1>2, <1>3, <1>4, StepCases

\* What a request holds is what it found when it came.
LEMMA RequestedNext ==
    ASSUME Requested, [Next]_vars
    PROVE  Requested'
<1>0. TypeOK /\ TodoIsDue /\ EntriesAreRequests /\ RequestsAreBrief /\ clock \in Nat
  BY DEF Requested, TypeOK
<1>1. CallEffect /\ TypeOK'
  BY <1>0, CallsMove, TypeNext
<1>2. TodoIsDue'
  BY <1>1 DEF CallEffect, TodoIsDue
<1>3. ASSUME NEW k \in Key, NEW e \in entries'[k],
             call[e.member].at # "waiting", e.member \in Call,
             call[e.member].at = "guard" => e.score = call[e.member].now
      PROVE  /\ call'[e.member].at # "waiting"
             /\ call'[e.member].at = "guard" => e.score = call'[e.member].now
  BY <1>1, <1>3 DEF CallEffect, SameCall
<1>4. ASSUME NEW k \in Key, NEW e \in entries'[k]
      PROVE  /\ e.member \in Call /\ call[e.member].at # "waiting"
             /\ call[e.member].at = "guard" => e.score = call[e.member].now
  <2>1. e.member \in Call
    BY <1>1, <1>4 DEF TypeOK
  <2>2. CASE e \in entries[k]
    BY <1>0, <2>1, <2>2 DEF EntriesAreRequests
  <2>3. ASSUME NEW c \in Call, RunEffect(c), e \notin entries[k]
        PROVE  e = EntryOf(c) /\ call[c].at = "guard"
    <3>1. Kept(c) \subseteq entries[KeyOf(call[c])] /\ KeyOf(call[c]) \in Key
      BY <2>3, RunTypes
    <3>2. CASE k # KeyOf(call[c])
      BY <2>3, <3>2 DEF RunEffect
    <3>3. CASE k = KeyOf(call[c])
      BY <1>4, <2>3, <3>1, <3>3 DEF RunEffect, TurnsAway, Takes, FindsItsOwn
    <3> QED BY <3>2, <3>3
  <2>4. ASSUME NEW c \in Call, e = EntryOf(c), call[c].at = "guard"
        PROVE  /\ call[e.member].at # "waiting"
               /\ call[e.member].at = "guard" => e.score = call[e.member].now
    BY <2>4 DEF EntryOf
  <2>5. ASSUME Tick, e \notin entries[k] PROVE FALSE
    BY <1>0, <1>4, <2>5, TickShape
  <2>6. ASSUME UNCHANGED entries, e \notin entries[k] PROVE FALSE
    BY <1>4, <2>6
  <2> QED BY <1>0, <2>1, <2>2, <2>3, <2>4, <2>5, <2>6, StepCases
<1>5. EntriesAreRequests'
  BY <1>3, <1>4 DEF EntriesAreRequests
<1>6. ASSUME NEW d \in Call, call'[d].at = "guard"
      PROVE  ReadAt(d)' =< clock' /\ clock' =< ReadAt(d)' + MaxLag
  <2>1. /\ call'[d].instance \in Instance /\ call'[d].now \in Nat
        /\ Skew[call'[d].instance] \in Nat /\ MaxLag \in Nat
    <3>1. call'[d] \in Guarded
      BY <1>1, <1>6 DEF CallEffect, Waiting, Refused, Handled
    <3> QED BY <3>1, SpreadCovers DEF Guarded
  <2>2. CASE clock' = clock /\ call[d].at = "waiting"
    <3>1. call'[d].now = clock + Skew[call'[d].instance]
      BY <1>1, <1>6, <2>2 DEF CallEffect, Now
    <3> QED BY <1>0, <2>1, <2>2, <3>1 DEF ReadAt
  <2>3. CASE clock' = clock /\ call[d].at = "guard"
    <3>1. ReadAt(d)' = ReadAt(d)
      BY <1>1, <1>6, <2>3 DEF CallEffect, SameCall, ReadAt
    <3> QED BY <1>0, <2>3, <3>1 DEF RequestsAreBrief
  <2>4. CASE Tick
    <3>1. call' = call /\ clock' = clock + 1 /\ clock - ReadAt(d) < MaxLag
      BY <1>6, <2>4 DEF Tick, ReadAt
    <3>2. ReadAt(d)' = ReadAt(d) /\ ReadAt(d) =< clock /\ ReadAt(d) \in Int
      BY <1>0, <1>6, <2>1, <3>1 DEF ReadAt, RequestsAreBrief
    <3> QED BY <1>0, <2>1, <3>1, <3>2
  <2>5. call[d].at = "waiting" \/ call[d].at = "guard"
    BY <1>1, <1>6 DEF CallEffect
  <2>6. clock' = clock \/ Tick
    BY <1>0, StepCases DEF RunEffect
  <2> QED BY <2>2, <2>3, <2>4, <2>5, <2>6
<1>7. RequestsAreBrief'
  BY <1>6 DEF RequestsAreBrief
<1> QED BY <1>1, <1>2, <1>5, <1>7 DEF Requested

\* What a script does to the windows: it adds at most the request's entry and
\* its slot, and drops what the request's clock takes for old.
LEMMA RunSlots ==
    ASSUME Requested, NEW c \in Call, RunEffect(c), NEW k \in Key
    PROVE  /\ clock' = clock
           /\ charged[k] \subseteq charged'[k]
           /\ \A x \in charged'[k] : x \notin charged[k] =>
                Takes(c) /\ k = KeyOf(call[c]) /\ x = StampOf(c)
           /\ \A e \in entries'[k] : e \notin entries[k] =>
                Takes(c) /\ k = KeyOf(call[c]) /\ e = EntryOf(c)
           /\ \A e \in entries[k] : e \notin entries'[k] => e.score =< clock + Ahead - Window
           /\ Takes(c) /\ k = KeyOf(call[c]) =>
                /\ StampOf(c) \in charged'[k] /\ EntryOf(c) \in entries'[k]
                /\ charged'[k] = charged[k] \cup {StampOf(c)}
                /\ \A e \in entries'[k] : e.member = c => e = EntryOf(c)
                /\ \A e \in entries[k] : e.member = c => e.score =< clock + Ahead - Window
<1>1. /\ Kept(c) = {e \in entries[KeyOf(call[c])] : e.score > call[c].now - Window}
      /\ call[c].now \in Nat /\ call[c].now =< clock + Ahead
      /\ clock \in Nat /\ Window \in Nat /\ Ahead \in Nat
      /\ \A e \in entries[k] : e.score \in Nat
  BY RunTypes, WindowIsPositive, SpreadCovers DEF Requested, TypeOK
<1>2. CASE k # KeyOf(call[c])
  BY <1>2 DEF RunEffect
<1>3. CASE k = KeyOf(call[c])
  <2>1. \A e \in entries[k] : e \notin Kept(c) => e.score =< clock + Ahead - Window
    BY <1>1, <1>3
  <2>2. CASE TurnsAway(c)
    <3>1. entries'[k] = Kept(c) /\ charged'[k] = charged[k] /\ ~Takes(c)
      BY <1>3, <2>2, RunTypes DEF TurnsAway, Takes
    <3> QED BY <1>1, <1>3, <2>1, <3>1 DEF RunEffect
  <2>3. CASE Takes(c)
    <3>1. /\ entries'[k] = Kept(c) \cup {EntryOf(c)} /\ charged'[k] = charged[k] \cup {StampOf(c)}
          /\ \A e \in Kept(c) : e.member # c
      BY <1>3, <2>3 DEF Takes
    <3> QED BY <1>1, <1>3, <2>1, <2>3, <3>1 DEF RunEffect
  <2>4. CASE FindsItsOwn(c)
    <3>1. entries'[k] = Kept(c) /\ charged'[k] = charged[k] /\ ~Takes(c)
      <4>1. EntryOf(c) \in Kept(c) /\ EntryOf(c).member = c
        BY <2>4, RunTypes DEF FindsItsOwn
      <4> QED BY <1>3, <2>4, <4>1 DEF FindsItsOwn, Takes
    <3> QED BY <1>1, <1>3, <2>1, <3>1 DEF RunEffect
  <2> QED BY <2>2, <2>3, <2>4 DEF RunEffect
<1> QED BY <1>2, <1>3

\* The numbers and records the steps below compare.
LEMMA Numbers ==
    ASSUME TypeOK
    PROVE  /\ clock \in Nat /\ Window \in Nat \ {0} /\ Ahead \in Nat /\ MaxLag \in Nat
           /\ Spread = MaxLag + Ahead
           /\ \A k \in Key :
                /\ LimitOf(k) \in Nat \ {0} /\ expires[k] \in Nat
                /\ IsFiniteSet(entries[k]) /\ Cardinality(entries[k]) =< LimitOf(k)
                /\ \A e \in entries[k] : e \in [score : Nat, member : Call]
                /\ \A x \in charged[k] : x \in [at : Nat, by : Address \cup {None}, call : Call]
BY WindowIsPositive, SpreadCovers, KeyShape DEF TypeOK, LimitOf

\* A script keeps the account of the slots.
LEMMA PaidRun ==
    ASSUME Requested, Requested', Paid, CallEffect, NEW c \in Call, RunEffect(c)
    PROVE  Paid'
<1> DEFINE key == KeyOf(call[c])
<1>0. /\ clock \in Nat /\ Window \in Nat \ {0} /\ Ahead \in Nat /\ MaxLag \in Nat
      /\ Spread = MaxLag + Ahead /\ clock' = clock
      /\ \A k \in Key : \A e \in entries[k] : e \in [score : Nat, member : Call]
      /\ \A k \in Key : \A x \in charged[k] : x \in [at : Nat, by : Address \cup {None}, call : Call]
      /\ key \in Key
  BY Numbers, RunTypes DEF Requested, RunEffect
<1>1. /\ ChargesArePast /\ ChargesAreFinite /\ KeysOutlive
      /\ RecentHold /\ RecentDiffer /\ EntriesWerePaid /\ EntriesDiffer
  BY DEF Paid
<1>2. /\ StampOf(c) \in [at : Nat, by : Address \cup {None}, call : Call]
      /\ StampOf(c).at = clock /\ StampOf(c).call = c
      /\ EntryOf(c).score = call[c].now /\ EntryOf(c).member = c /\ call[c].now \in Nat
      /\ call[c].now >= clock - MaxLag /\ call[c].now =< clock + Ahead
      /\ ReadAt(c) =< clock /\ call[c].at = "guard"
  BY RunTypes DEF RunEffect
<1>3. ChargesArePast'
  <2> SUFFICES ASSUME NEW k \in Key, NEW x \in charged'[k]
               PROVE  /\ x.at =< clock /\ call'[x.call].at # "waiting"
                      /\ call'[x.call].at = "guard" => ReadAt(x.call)' =< x.at
    BY <1>0 DEF ChargesArePast
  <2>1. /\ x.at =< clock /\ call[x.call].at # "waiting" /\ x.call \in Call
        /\ call[x.call].at = "guard" => ReadAt(x.call) =< x.at
    <3>1. CASE x \in charged[k]
      BY <1>0, <1>1, <3>1 DEF ChargesArePast
    <3>2. CASE x \notin charged[k]
      <4>1. x = StampOf(c)
        BY <3>2, RunSlots
      <4> QED BY <1>0, <1>2, <4>1
    <3> QED BY <3>1, <3>2
  <2>2. call'[x.call].at = "guard" =>
          call[x.call].at = "guard" /\ ReadAt(x.call)' = ReadAt(x.call)
    BY <2>1 DEF CallEffect, SameCall, ReadAt
  <2> QED BY <2>1, <2>2 DEF CallEffect
<1>4. ChargesAreFinite'
  <2> SUFFICES ASSUME NEW k \in Key PROVE IsFiniteSet(charged'[k])
    BY DEF ChargesAreFinite
  <2>1. IsFiniteSet(charged[k] \cup {StampOf(c)})
    BY <1>1, FS_AddElement DEF ChargesAreFinite
  <2>2. charged'[k] \subseteq charged[k] \cup {StampOf(c)}
    BY RunSlots
  <2> QED BY <2>1, <2>2, FS_Subset
<1>5. KeysOutlive'
  <2> SUFFICES ASSUME NEW k \in Key, NEW x \in charged'[k], entries'[k] # {}
               PROVE  x.at + Window =< expires'[k]
    BY DEF KeysOutlive, Window
  <2>1. CASE k = key
    <3>1. x.at =< clock /\ x.at \in Nat
      BY <1>0, <1>1, <1>2, RunSlots DEF ChargesArePast
    <3>2. expires'[k] = clock + Window
      BY <2>1 DEF RunEffect
    <3> QED BY <1>0, <3>1, <3>2
  <2>2. CASE k # key
    BY <1>1, <2>2 DEF RunEffect, KeysOutlive
  <2> QED BY <2>1, <2>2
<1>6. RecentHold'
  <2> SUFFICES ASSUME NEW k \in Key, NEW x \in charged'[k], x.at > clock - (Window - Spread)
               PROVE  \E e \in entries'[k] : e.member = x.call /\ e.score >= x.at - MaxLag
    BY <1>0 DEF RecentHold, Recent, Window, Spread, Ahead
  <2>1. CASE x \in charged[k]
    <3>1. PICK e \in entries[k] : e.member = x.call /\ e.score >= x.at - MaxLag
      BY <1>1, <2>1 DEF RecentHold, Recent
    <3>2. e \in entries'[k]
      <4>1. e.score > clock + Ahead - Window
        BY <1>0, <2>1, <3>1
      <4>2. e \notin entries'[k] => e.score =< clock + Ahead - Window
        BY RunSlots
      <4> QED BY <1>0, <4>1, <4>2
    <3> QED BY <3>1, <3>2
  <2>2. CASE x \notin charged[k]
    <3>1. Takes(c) /\ k = key /\ x = StampOf(c)
      BY <2>2, RunSlots
    <3>2. EntryOf(c) \in entries'[k]
      BY <3>1, RunSlots
    <3> QED BY <1>0, <1>2, <3>1, <3>2
  <2> QED BY <2>1, <2>2
<1>7. \* a slot of the request's own, taken lately, would have been found
      ASSUME NEW y \in charged[key], y.at > clock - (Window - Spread), y.call = c, Takes(c)
      PROVE  FALSE
  <2>1. PICK e \in entries[key] : e.member = c /\ e.score >= y.at - MaxLag
    BY <1>0, <1>1, <1>7 DEF RecentHold, Recent
  <2>2. e.score =< clock + Ahead - Window
    BY <1>0, <1>7, <2>1, RunSlots
  <2> QED BY <1>0, <1>7, <2>1, <2>2
<1>8. RecentDiffer'
  <2> SUFFICES ASSUME NEW k \in Key, NEW x \in charged'[k], NEW y \in charged'[k],
                      x.at > clock - (Window - Spread), y.at > clock - (Window - Spread),
                      x.call = y.call
               PROVE  x = y
    BY <1>0 DEF RecentDiffer, Recent, Window, Spread, Ahead
  <2>1. CASE x \in charged[k] /\ y \in charged[k]
    BY <1>1, <2>1 DEF RecentDiffer, Recent
  <2>2. CASE x \notin charged[k]
    <3>1. Takes(c) /\ k = key /\ x = StampOf(c)
      BY <2>2, RunSlots
    <3>2. CASE y \in charged[k]
      BY <1>2, <1>7, <3>1, <3>2
    <3>3. CASE y \notin charged[k]
      BY <3>1, <3>3, RunSlots
    <3> QED BY <3>2, <3>3
  <2>3. CASE y \notin charged[k] /\ x \in charged[k]
    <3>1. Takes(c) /\ k = key /\ y = StampOf(c)
      BY <2>3, RunSlots
    <3> QED BY <1>2, <1>7, <2>3, <3>1
  <2> QED BY <2>1, <2>2, <2>3
<1>9. EntriesWerePaid'
  <2> SUFFICES ASSUME NEW k \in Key, NEW e \in entries'[k], e.score > clock - MaxLag - Window
               PROVE  \E x \in charged'[k] : x.call = e.member /\ x.at >= e.score - Ahead
    BY <1>0 DEF EntriesWerePaid, Window, Ahead
  <2>1. CASE e \in entries[k]
    <3>1. PICK x \in charged[k] : x.call = e.member /\ x.at >= e.score - Ahead
      BY <1>1, <2>1 DEF EntriesWerePaid
    <3> QED BY <3>1, RunSlots
  <2>2. CASE e \notin entries[k]
    <3>1. Takes(c) /\ k = key /\ e = EntryOf(c)
      BY <2>2, RunSlots
    <3>2. StampOf(c) \in charged'[k]
      BY <3>1, RunSlots
    <3> QED BY <1>0, <1>2, <3>1, <3>2
  <2> QED BY <2>1, <2>2
<1>10. EntriesDiffer'
  <2> SUFFICES ASSUME NEW k \in Key, NEW e \in entries'[k], NEW f \in entries'[k],
                      e.member = f.member
               PROVE  e = f
    BY DEF EntriesDiffer
  <2>1. CASE e \in entries[k] /\ f \in entries[k]
    BY <1>1, <2>1 DEF EntriesDiffer
  <2>2. CASE e \notin entries[k] \/ f \notin entries[k]
    <3>1. Takes(c) /\ k = key /\ (e = EntryOf(c) \/ f = EntryOf(c))
      BY <2>2, RunSlots
    <3> QED BY <1>2, <3>1, RunSlots
  <2> QED BY <2>1, <2>2
<1> QED BY <1>3, <1>4, <1>5, <1>6, <1>8, <1>9, <1>10 DEF Paid

\* So does time: what it drops of either is dropped of both.
LEMMA PaidTick ==
    ASSUME Requested, Requested', Paid, Tick
    PROVE  Paid'
<1>0. /\ clock \in Nat /\ Window \in Nat \ {0} /\ Ahead \in Nat /\ MaxLag \in Nat
      /\ Spread = MaxLag + Ahead /\ clock' = clock + 1 /\ call' = call
      /\ \A k \in Key : \A e \in entries[k] : e \in [score : Nat, member : Call]
      /\ \A k \in Key : \A x \in charged[k] : x \in [at : Nat, by : Address \cup {None}, call : Call]
      /\ \A k \in Key : expires[k] \in Nat
  BY Numbers DEF Requested, Tick
<1>1. /\ ChargesArePast /\ ChargesAreFinite /\ KeysOutlive
      /\ RecentHold /\ RecentDiffer /\ EntriesWerePaid /\ EntriesDiffer
  BY DEF Paid
<1>2. ASSUME NEW k \in Key
      PROVE  /\ \/ expires[k] =< clock' /\ entries'[k] = {} /\ expires'[k] = 0
                \/ expires[k] > clock' /\ entries'[k] = entries[k] /\ expires'[k] = expires[k]
             /\ charged'[k] = {x \in charged[k] : x.at > clock - Window - Spread}
  BY TickShape DEF Requested
<1>3. ChargesArePast'
  BY <1>0, <1>1, <1>2 DEF ChargesArePast, ReadAt
<1>4. ChargesAreFinite'
  <2> SUFFICES ASSUME NEW k \in Key PROVE IsFiniteSet(charged'[k])
    BY DEF ChargesAreFinite
  <2> QED BY <1>1, <1>2, FS_Subset DEF ChargesAreFinite
<1>5. KeysOutlive'
  BY <1>1, <1>2 DEF KeysOutlive, Window
<1>6. RecentHold'
  <2> SUFFICES ASSUME NEW k \in Key, NEW x \in charged'[k], x.at > clock' - (Window - Spread)
               PROVE  \E e \in entries'[k] : e.member = x.call /\ e.score >= x.at - MaxLag
    BY <1>0 DEF RecentHold, Recent, Window, Spread, Ahead
  <2>1. x \in charged[k] /\ x.at \in Nat /\ x.at > clock - (Window - Spread)
    BY <1>0, <1>2
  <2>2. PICK e \in entries[k] : e.member = x.call /\ e.score >= x.at - MaxLag
    BY <1>1, <2>1 DEF RecentHold, Recent
  <2>3. x.at + Window =< expires[k]
    BY <1>1, <2>1, <2>2 DEF KeysOutlive
  <2>4. expires[k] > clock'
    BY <1>0, <2>1, <2>3
  <2> QED BY <1>0, <1>2, <2>2, <2>4
<1>7. RecentDiffer'
  <2> SUFFICES ASSUME NEW k \in Key, NEW x \in charged'[k], NEW y \in charged'[k],
                      x.at > clock' - (Window - Spread), y.at > clock' - (Window - Spread),
                      x.call = y.call
               PROVE  x = y
    BY <1>0 DEF RecentDiffer, Recent, Window, Spread, Ahead
  <2>1. x \in charged[k] /\ x.at \in Nat /\ y \in charged[k] /\ y.at \in Nat
    BY <1>0, <1>2
  <2>2. x.at > clock - (Window - Spread) /\ y.at > clock - (Window - Spread)
    BY <1>0, <2>1
  <2> QED BY <1>1, <2>1, <2>2 DEF RecentDiffer, Recent
<1>8. EntriesWerePaid'
  <2> SUFFICES ASSUME NEW k \in Key, NEW e \in entries'[k], e.score > clock' - MaxLag - Window
               PROVE  \E x \in charged'[k] : x.call = e.member /\ x.at >= e.score - Ahead
    BY <1>0 DEF EntriesWerePaid, Window, Ahead
  <2>1. e \in entries[k] /\ e.score \in Nat
    BY <1>0, <1>2
  <2>2. PICK x \in charged[k] : x.call = e.member /\ x.at >= e.score - Ahead
    BY <1>0, <1>1, <2>1 DEF EntriesWerePaid
  <2>3. x.at > clock - Window - Spread
    BY <1>0, <2>1, <2>2
  <2> QED BY <1>2, <2>2, <2>3
<1>9. EntriesDiffer'
  BY <1>1, <1>2 DEF EntriesDiffer
<1> QED BY <1>3, <1>4, <1>5, <1>6, <1>7, <1>8, <1>9 DEF Paid

\* And every other step leaves it, the requests' comings and goings aside.
LEMMA PaidNext ==
    ASSUME Requested, Paid, [Next]_vars
    PROVE  Paid'
<1>0. Requested' /\ CallEffect /\ TypeOK /\ TodoIsDue /\ EntriesAreRequests
  BY RequestedNext, CallsMove DEF Requested
<1>1. CASE UNCHANGED <<clock, entries, expires, charged, refused>>
  <2>1. ChargesArePast'
    <3> SUFFICES ASSUME NEW k \in Key, NEW x \in charged[k]
                 PROVE  /\ x.at =< clock /\ call'[x.call].at # "waiting"
                        /\ call'[x.call].at = "guard" => ReadAt(x.call)' =< x.at
      BY <1>1 DEF ChargesArePast
    <3>1. /\ x.at =< clock /\ call[x.call].at # "waiting" /\ x.call \in Call
          /\ call[x.call].at = "guard" => ReadAt(x.call) =< x.at
      BY <1>0, Numbers DEF Paid, ChargesArePast
    <3>2. call'[x.call].at = "guard" =>
            call[x.call].at = "guard" /\ ReadAt(x.call)' = ReadAt(x.call)
      BY <1>0, <3>1 DEF CallEffect, SameCall, ReadAt
    <3> QED BY <1>0, <3>1, <3>2 DEF CallEffect
  <2>2. /\ ChargesAreFinite' /\ KeysOutlive' /\ RecentHold' /\ RecentDiffer'
        /\ EntriesWerePaid' /\ EntriesDiffer'
    BY <1>1 DEF Paid, ChargesAreFinite, KeysOutlive, RecentHold, RecentDiffer, Recent,
                EntriesWerePaid, EntriesDiffer, Spread, Ahead, Window
  <2> QED BY <2>1, <2>2 DEF Paid
<1> QED BY <1>0, <1>1, PaidRun, PaidTick, StepCases

-----------------------------------------------------------------------------
(* The bound on a window. *)

\* The recent slots of a window are no more than its limit: their entries are
\* there, and each has its own.
LEMMA RecentBound ==
    ASSUME TypeOK, RecentHold, RecentDiffer, ChargesAreFinite, NEW k \in Key
    PROVE  IsFiniteSet(Recent(k)) /\ Cardinality(Recent(k)) =< LimitOf(k)
<1> DEFINE entry(x) == CHOOSE e \in entries[k] : e.member = x.call
           f == [x \in Recent(k) |-> entry(x)]
<1>1. \A x \in Recent(k) : f[x] \in entries[k] /\ f[x].member = x.call
  BY DEF RecentHold
<1>2. f \in Injection(Recent(k), entries[k])
  <2>1. f \in [Recent(k) -> entries[k]]
    BY <1>1
  <2>2. \A x, y \in Recent(k) : f[x] = f[y] => x = y
    BY <1>1 DEF RecentDiffer
  <2> HIDE DEF f
  <2> QED BY <2>1, <2>2, Fun_IsInj
<1>3. IsFiniteSet(entries[k]) /\ Cardinality(entries[k]) =< LimitOf(k) /\ LimitOf(k) \in Nat
  BY Numbers
<1>4. IsFiniteSet(Recent(k)) /\ Cardinality(Recent(k)) =< Cardinality(entries[k])
  BY <1>2, <1>3, FS_Injection
<1> QED BY <1>3, <1>4, FS_CardinalityType

\* What the bound on a window comes from, at any moment.
RecentAreFew == \A k \in Key : IsFiniteSet(Recent(k)) /\ Cardinality(Recent(k)) =< LimitOf(k)

\* What a step adds to the history is of that moment.
LEMMA HistoryGrows ==
    ASSUME Requested, Requested', Paid', [Next]_vars, NEW k \in Key, NEW x \in charged'[k]
    PROVE  /\ x \in charged[k] \/ x.at = clock'
           /\ x.at =< clock' /\ x.at \in Nat /\ clock' \in Nat
<1>0. TypeOK /\ TodoIsDue /\ EntriesAreRequests
  BY DEF Requested
<1>1. x.at =< clock' /\ x.at \in Nat /\ clock' \in Nat
  BY DEF Requested, TypeOK, Paid, ChargesArePast
<1>2. ASSUME NEW c \in Call, RunEffect(c), x \notin charged[k] PROVE x.at = clock'
  BY <1>2, RunSlots, RunTypes
<1>3. CASE Tick
  BY <1>0, <1>1, <1>3, TickShape
<1> QED BY <1>0, <1>1, <1>2, <1>3, StepCases

\* A step keeps the bound: what it adds ends a window of recent slots.
LEMMA OverflowNext ==
    ASSUME Requested, Requested', Paid, Paid', RecentAreFew', NoWindowOverflows, [Next]_vars
    PROVE  NoWindowOverflows'
<1>1. Window \in Nat /\ Spread \in Nat /\ Window' = Window /\ Spread' = Spread
  BY Numbers DEF Requested, Window, Spread, Ahead
<1> SUFFICES ASSUME NEW k \in Key, NEW x \in charged'[k]
             PROVE  Cardinality(Within(charged'[k], x.at - (Window - Spread), x.at)) =< LimitOf(k)
  BY <1>1 DEF NoWindowOverflows, LimitOf
<1> DEFINE new == Within(charged'[k], x.at - (Window - Spread), x.at)
           old == Within(charged[k], x.at - (Window - Spread), x.at)
<1>2. x.at =< clock' /\ x.at \in Nat /\ clock' \in Nat /\ LimitOf(k) \in Nat
  BY HistoryGrows, KeyShape
<1>3. CASE x.at = clock'
  <2>1. new \subseteq Recent(k)'
    BY <1>1, <1>3 DEF Within, Recent
  <2>2. IsFiniteSet(Recent(k)') /\ Cardinality(Recent(k)') =< LimitOf(k)
    BY DEF RecentAreFew, LimitOf
  <2> QED BY <1>2, <2>1, <2>2, FS_Subset, FS_CardinalityType
<1>4. CASE x.at < clock'
  <2>1. x \in charged[k]
    BY <1>2, <1>4, HistoryGrows
  <2>2. new \subseteq old
    <3>1. \A y \in new : y \in charged[k]
      BY <1>2, <1>4, HistoryGrows DEF Within
    <3> QED BY <3>1 DEF Within
  <2>3. IsFiniteSet(old)
    BY FS_Subset DEF Within, Paid, ChargesAreFinite
  <2>4. Cardinality(old) =< LimitOf(k)
    BY <2>1 DEF NoWindowOverflows
  <2> QED BY <1>2, <2>2, <2>3, <2>4, FS_Subset, FS_CardinalityType
<1> QED BY <1>2, <1>3, <1>4

-----------------------------------------------------------------------------
(* What an address pays. *)

\* Only a window that let the request in adds to what it has spent.
LEMMA SpentGrows ==
    ASSUME TypeOK, TodoIsDue, EntriesAreRequests, [Next]_vars, NEW d \in Call,
           call'[d].at = "guard", NEW s \in call'[d].spent
    PROVE  /\ call[d].at = "guard" /\ SameCall(call'[d], call[d])
           /\ \/ s \in call[d].spent
              \/ RunEffect(d) /\ ~TurnsAway(d) /\ NextScope(call[d].todo) = s
<1>0. CallEffect
  BY CallsMove
<1>1. call[d].at = "guard" /\ SameCall(call'[d], call[d])
  BY <1>0 DEF CallEffect
<1>2. call \in [Call -> {Waiting, Refused} \cup Guarded \cup Handled]
  BY DEF TypeOK
<1>3. CASE call'[d] = call[d]
  BY <1>1, <1>3
<1>4. ASSUME NEW c \in Call, Arrive(c) PROVE call'[d] = call[d]
  BY <1>1, <1>2, <1>4 DEF Arrive, Waiting
<1>5. ASSUME NEW c \in Call, LoseReply(c) PROVE s \in call[d].spent
  <2>1. CASE c # d
    BY <1>2, <1>5, <2>1 DEF LoseReply
  <2>2. CASE c = d
    <3>1. call[d] \in Guarded
      BY <1>1, CallShape
    <3>2. call'[d] = [call[d] EXCEPT !.sent = TRUE]
      BY <1>2, <1>5, <2>2 DEF LoseReply
    <3> QED BY <3>1, <3>2 DEF Guarded
  <2> QED BY <2>1, <2>2
<1>6. ASSUME NEW c \in Call, CommandFails(c) PROVE call'[d] = call[d]
  BY <1>2, <1>6 DEF CommandFails, Passed, Refused
<1>7. ASSUME NEW c \in Call, Consume(c), c # d PROVE call'[d] = call[d]
  BY <1>2, <1>7 DEF Consume
<1>8. ASSUME Consume(d)
      PROVE  s \in call[d].spent \/ (RunEffect(d) /\ ~TurnsAway(d) /\ NextScope(call[d].todo) = s)
  <2> DEFINE m == call[d]
             scope == NextScope(m.todo)
             allowed == Consumed(KeyOf(m), m.now, d).allowed
  <2>1. call'[d] = Continued(m, scope, allowed) /\ Runs(d)
    BY <1>2, <1>8 DEF Consume
  <2>2. m \in Guarded /\ scope \in m.todo /\ m.spent \cup m.todo = Resolvable(m.request)
    BY <1>1, NextKey DEF TodoIsDue
  <2>3. allowed \in BOOLEAN
    BY DEF Consumed
  <2>4. RunEffect(d)
    BY <2>1, RunShape
  <2>5. allowed => ~TurnsAway(d)
    <3>1. allowed => Cardinality(Kept(d)) < LimitOf(KeyOf(m))
      BY DEF Consumed, Kept, HasRoom
    <3>2. Cardinality(Kept(d)) \in Nat /\ LimitOf(KeyOf(m)) \in Nat
      <4>1. KeyOf(m) \in Key
        BY <1>1, NextKey
      <4>2. IsFiniteSet(entries[KeyOf(m)])
        BY <4>1 DEF TypeOK
      <4>3. Kept(d) \subseteq entries[KeyOf(m)]
        BY DEF Kept, InWindow
      <4> QED BY <4>1, <4>2, <4>3, FS_Subset, FS_CardinalityType, KeyShape
    <3> HIDE DEF m, allowed
    <3> QED BY <3>1, <3>2 DEF TurnsAway, m
  <2> HIDE DEF m, scope, allowed
  <2>6. Continued(m, scope, allowed).at = "guard" =>
          allowed /\ Continued(m, scope, allowed).spent = m.spent \cup {scope}
    BY <2>2, <2>3, ContinuedShape
  <2>7. allowed /\ (s \in m.spent \/ s = scope)
    BY <2>1, <2>6
  <2> QED BY <2>4, <2>5, <2>7 DEF m, scope
<1>9. CASE Tick \/ UNCHANGED vars
  BY <1>3, <1>9 DEF Tick, vars
<1> QED BY <1>1, <1>3, <1>4, <1>5, <1>6, <1>7, <1>8, <1>9 DEF Next

\* A window that let a request in holds a slot of it, and one that was taken
\* after the request read its clock.
LEMMA LetInIsPaid ==
    ASSUME Requested, Paid, NEW c \in Call, RunEffect(c), ~TurnsAway(c)
    PROVE  \E w \in charged'[KeyOf(call[c])] : w.call = c /\ w.at >= ReadAt(c)
<1> DEFINE key == KeyOf(call[c])
<1>0. /\ key \in Key /\ clock \in Nat /\ Window \in Nat \ {0} /\ MaxLag \in Nat
      /\ call[c].now \in Nat /\ call[c].now >= clock - MaxLag /\ ReadAt(c) =< clock
      /\ Kept(c) \subseteq entries[key] /\ call[c].at = "guard"
      /\ EntryOf(c).score = call[c].now /\ EntryOf(c).member = c
      /\ StampOf(c).at = clock /\ StampOf(c).call = c
  BY RunTypes, WindowIsPositive, SpreadCovers DEF RunEffect
<1>1. CASE Takes(c)
  <2>1. StampOf(c) \in charged'[key]
    BY <1>0, <1>1, RunSlots
  <2> QED BY <1>0, <2>1
<1>2. CASE FindsItsOwn(c)
  <2>1. EntryOf(c) \in entries[key]
    BY <1>0, <1>2 DEF FindsItsOwn
  <2>2. EntryOf(c).score > clock - MaxLag - Window
    BY <1>0
  <2>3. PICK x \in charged[key] : x.call = c
    BY <1>0, <2>1, <2>2 DEF Paid, EntriesWerePaid
  <2>4. ReadAt(c) =< x.at /\ x.at \in Nat /\ ReadAt(c) \in Int
    BY <1>0, <2>3, RunTypes, Numbers DEF Requested, Paid, ChargesArePast
  <2>5. x \in charged'[key]
    BY <1>0, RunSlots
  <2> QED BY <2>3, <2>4, <2>5
<1> QED BY <1>1, <1>2 DEF RunEffect

\* A step drops no slot that is younger than a window and the spread.
LEMMA YoungSlotsStay ==
    ASSUME Requested, [Next]_vars, NEW k \in Key, NEW w \in charged[k],
           w.at > clock - Window - Spread
    PROVE  w \in charged'[k]
<1>0. TypeOK /\ TodoIsDue /\ EntriesAreRequests
  BY DEF Requested
<1>1. ASSUME NEW c \in Call, RunEffect(c) PROVE w \in charged'[k]
  BY <1>1, RunSlots
<1>2. CASE Tick
  BY <1>0, <1>2, TickShape
<1> QED BY <1>0, <1>1, <1>2, StepCases

\* A request whose address pays has a slot at the address's window, ...
LEMMA AddressesPay ==
    ASSUME Requested, Requested', Paid, AddressesArePaid, [Next]_vars
    PROVE  AddressesArePaid'
<1>0. TypeOK /\ TodoIsDue /\ EntriesAreRequests /\ CallEffect
  BY CallsMove DEF Requested
<1> SUFFICES ASSUME NEW d \in Call, call'[d].at = "guard", "perIp" \in call'[d].spent
             PROVE  \E w \in charged'[AddressKey(d)'] : w.call = d /\ w.at >= ReadAt(d)'
  BY DEF AddressesArePaid
<1>1. /\ call[d].at = "guard" /\ SameCall(call'[d], call[d])
      /\ \/ "perIp" \in call[d].spent
         \/ RunEffect(d) /\ ~TurnsAway(d) /\ NextScope(call[d].todo) = "perIp"
  BY <1>0, SpentGrows
<1>2. AddressKey(d)' = AddressKey(d) /\ ReadAt(d)' = ReadAt(d)
  BY <1>1 DEF SameCall, AddressKey, ReadAt
<1>3. CASE "perIp" \in call[d].spent
  <2>1. PICK w \in charged[AddressKey(d)] : w.call = d /\ w.at >= ReadAt(d)
    BY <1>1, <1>3 DEF AddressesArePaid
  <2>2. AddressKey(d) \in Key
    <3>1. call[d] \in Guarded /\ "perIp" \in Resolvable(call[d].request)
      BY <1>0, <1>1, <1>3, CallShape DEF TodoIsDue
    <3> QED BY <3>1, RequestShape DEF Guarded, AddressKey
  <2>3. /\ clock \in Nat /\ clock =< ReadAt(d) + MaxLag /\ ReadAt(d) \in Int /\ w.at \in Nat
        /\ Window \in Nat \ {0} /\ MaxLag \in Nat /\ Spread = MaxLag + Ahead /\ Ahead \in Nat
    <3>1. call[d].now \in Nat /\ Skew[call[d].instance] \in Nat
      BY <1>0, <1>1, CallShape, SpreadCovers DEF Guarded
    <3>2. clock =< ReadAt(d) + MaxLag
      BY <1>1 DEF Requested, RequestsAreBrief
    <3>3. ReadAt(d) \in Int
      BY <3>1 DEF ReadAt
    <3>4. /\ clock \in Nat /\ Window \in Nat \ {0} /\ MaxLag \in Nat
          /\ Spread = MaxLag + Ahead /\ Ahead \in Nat
      BY <1>0, Numbers
    <3>5. w.at \in Nat
      BY <1>0, <2>1, <2>2, Numbers
    <3> QED BY <3>2, <3>3, <3>4, <3>5
  <2>4. w.at > clock - Window - Spread
    BY <2>1, <2>3
  <2>5. w \in charged'[AddressKey(d)]
    BY <2>2, <2>4, YoungSlotsStay
  <2> QED BY <1>2, <2>1, <2>5
<1>4. CASE RunEffect(d) /\ ~TurnsAway(d) /\ NextScope(call[d].todo) = "perIp"
  <2>1. AddressKey(d) = KeyOf(call[d])
    BY <1>0, <1>1, <1>4, NextKey DEF AddressKey
  <2> QED BY <1>2, <1>4, <2>1, LetInIsPaid
<1> QED BY <1>1, <1>3, <1>4

\* ... which a slot of an account it names is taken after, ...
LEMMA AddressesPaid ==
    ASSUME Requested, Requested', Paid, AddressesArePaid, AddressesWerePaid, [Next]_vars
    PROVE  AddressesWerePaid'
<1>0. /\ TypeOK /\ TodoIsDue /\ EntriesAreRequests
      /\ Window \in Nat \ {0} /\ Ahead \in Nat /\ MaxLag \in Nat /\ Spread = MaxLag + Ahead
      /\ clock \in Nat /\ (clock' = clock \/ clock' = clock + 1)
      /\ Window' = Window /\ Spread' = Spread
  <2>1. TypeOK /\ TodoIsDue /\ EntriesAreRequests
    BY DEF Requested
  <2> QED BY <2>1, Numbers, StepCases DEF Tick, RunEffect, Window, Spread, Ahead
<1> SUFFICES ASSUME NEW k \in Key, NEW y \in charged'[k],
                    k[2] = "perPrincipal", "perIp" \in DOMAIN Limit[k[1]],
                    y.at > clock' - (Window - Spread - MaxLag)
             PROVE  /\ y.by \in Address
                    /\ \E w \in charged'[<<k[1], "perIp", y.by>>] :
                         w.call = y.call /\ w.at >= y.at - MaxLag
  BY <1>0 DEF AddressesWerePaid
<1>1. y.at \in Nat
  BY DEF Requested, TypeOK
<1>2. ASSUME y.by \in Address
      PROVE  <<k[1], "perIp", y.by>> \in Key
  BY <1>2, KeyShape, KeyIn DEF Identifier
<1>3. CASE y \in charged[k]
  <2>1. /\ y.by \in Address
        /\ \E w \in charged[<<k[1], "perIp", y.by>>] : w.call = y.call /\ w.at >= y.at - MaxLag
    BY <1>0, <1>1, <1>3 DEF AddressesWerePaid
  <2>2. PICK w \in charged[<<k[1], "perIp", y.by>>] : w.call = y.call /\ w.at >= y.at - MaxLag
    BY <2>1
  <2>3. w.at \in Nat
    BY <1>0, <1>2, <2>1, Numbers
  <2>4. w.at > clock - Window - Spread
    BY <1>0, <1>1, <2>2, <2>3
  <2> QED BY <1>2, <2>1, <2>2, <2>4, YoungSlotsStay
<1>4. ASSUME NEW c \in Call, RunEffect(c), y \notin charged[k]
      PROVE  /\ y.by \in Address
             /\ \E w \in charged'[<<k[1], "perIp", y.by>>] :
                  w.call = y.call /\ w.at >= y.at - MaxLag
  <2> DEFINE m == call[c]
  <2>1. k = KeyOf(m) /\ y = StampOf(c)
    BY <1>4, RunSlots
  <2>2. /\ y.at = clock /\ y.call = c /\ y.by = CameFrom(m.request) /\ m.at = "guard"
        /\ ReadAt(c) \in Int /\ clock =< ReadAt(c) + MaxLag
    BY <1>4, <2>1, RunTypes DEF RunEffect
  <2>3. /\ m \in Guarded /\ m.request \in Requests
        /\ k = <<m.request.class, NextScope(m.todo), m.request.id[NextScope(m.todo)]>>
        /\ "perIp" \in m.todo => NextScope(m.todo) = "perIp"
        /\ m.spent \cup m.todo = Resolvable(m.request)
    BY <1>0, <2>1, <2>2, NextKey DEF Guarded, TodoIsDue
  <2>4. k[1] = m.request.class /\ "perIp" \notin m.todo
    BY <2>3
  <2>5. /\ m.request.id["perIp"] \in Address /\ "perIp" \in Resolvable(m.request)
        /\ "perIp" \in DOMAIN m.request.id
    BY <2>3, <2>4, RequestShape
  <2>6. y.by = m.request.id["perIp"] /\ "perIp" \in m.spent
    BY <2>2, <2>3, <2>4, <2>5 DEF CameFrom
  <2>7. PICK w \in charged[AddressKey(c)] : w.call = c /\ w.at >= ReadAt(c)
    BY <2>2, <2>6 DEF AddressesArePaid
  <2>8. AddressKey(c) = <<k[1], "perIp", y.by>>
    BY <2>4, <2>6 DEF AddressKey
  <2>9. y.by \in Address /\ <<k[1], "perIp", y.by>> \in Key
    BY <1>2, <2>5, <2>6
  <2>10. w.at \in Nat
    BY <1>0, <2>7, <2>8, <2>9, Numbers
  <2>11. w \in charged'[<<k[1], "perIp", y.by>>]
    BY <1>4, <2>7, <2>8, <2>9, RunSlots
  <2> QED BY <1>0, <2>2, <2>7, <2>9, <2>10, <2>11
<1>5. CASE Tick
  BY <1>0, <1>3, <1>5, TickShape
<1>6. CASE UNCHANGED <<clock, entries, expires, charged, refused>>
  BY <1>3, <1>6
<1> QED BY <1>0, <1>3, <1>4, <1>5, <1>6, StepCases

\* ... at the keys it names, one a scope.
LEMMA KeysAreOwn ==
    ASSUME Requested, Paid, ChargesAreOwn, OneKeyAScope, [Next]_vars
    PROVE  ChargesAreOwn' /\ OneKeyAScope'
<1>0. TypeOK /\ TodoIsDue /\ EntriesAreRequests /\ CallEffect
  BY CallsMove DEF Requested
<1>1. ASSUME NEW k \in Key, NEW x \in charged'[k]
      PROVE  \/ x \in charged[k]
             \/ \E c \in Call : RunEffect(c) /\ k = KeyOf(call[c]) /\ x.call = c
  <2>1. ASSUME NEW c \in Call, RunEffect(c), x \notin charged[k]
        PROVE  k = KeyOf(call[c]) /\ x.call = c
    BY <2>1, RunSlots, RunTypes
  <2>2. CASE Tick
    BY <1>0, <2>2, TickShape
  <2> QED BY <1>0, <2>1, <2>2, StepCases
<1>2. ASSUME NEW c \in Call, RunEffect(c)
      PROVE  /\ call[c].at = "guard"
             /\ KeyOf(call[c])[1] = call[c].request.class
             /\ KeyOf(call[c])[3] = call[c].request.id[KeyOf(call[c])[2]]
  <2>1. call[c].at = "guard"
    BY <1>2 DEF RunEffect
  <2> QED BY <1>0, <2>1, NextKey
<1>3. ASSUME NEW k \in Key, NEW x \in charged'[k], call[x.call].at = "guard"
      PROVE  /\ k[1] = call[x.call].request.class
             /\ k[3] = call[x.call].request.id[k[2]]
  BY <1>1, <1>2, <1>3 DEF ChargesAreOwn
<1>4. ChargesAreOwn'
  <2> SUFFICES ASSUME NEW k \in Key, NEW x \in charged'[k], call'[x.call].at = "guard"
               PROVE  k[1] = call'[x.call].request.class /\ k[3] = call'[x.call].request.id[k[2]]
    BY DEF ChargesAreOwn
  <2>1. x.call \in Call /\ call[x.call].at # "waiting"
    BY <1>0, <1>1, <1>2, Numbers DEF Paid, ChargesArePast
  <2>2. call[x.call].at = "guard" /\ SameCall(call'[x.call], call[x.call])
    BY <1>0, <2>1 DEF CallEffect
  <2> QED BY <1>3, <2>2 DEF SameCall
<1>5. OneKeyAScope'
  <2> SUFFICES ASSUME NEW k \in Key, NEW l \in Key, NEW x \in charged'[k], NEW y \in charged'[l],
                      x.call = y.call, k[2] = l[2]
               PROVE  k = l
    BY DEF OneKeyAScope
  <2>1. CASE x \in charged[k] /\ y \in charged[l]
    BY <2>1 DEF OneKeyAScope
  <2>2. CASE call[x.call].at = "guard"
    <3>1. k[1] = l[1] /\ k[3] = l[3]
      BY <1>3, <2>2
    <3> QED BY <3>1, KeyShape
  <2> QED BY <1>1, <1>2, <2>1, <2>2
<1> QED BY <1>4, <1>5

\* Together: what an address pays for.
LEMMA OwnKeysNext ==
    ASSUME Requested, Requested', Paid, OwnKeys, [Next]_vars
    PROVE  OwnKeys'
BY AddressesPay, AddressesPaid, KeysAreOwn DEF OwnKeys

\* The classes whose address pays too, and what the accounts' recent slots are
\* for one address of theirs.
Both == {class \in Class : {"perIp", "perPrincipal"} \subseteq DOMAIN Limit[class]}
RecentBy(class, a) == {y \in TakenBy(class, a) : y[2].at > clock - (Window - Spread - MaxLag)}
BoundTo(class, a, at) ==
    {y \in TakenBy(class, a) : at - (Window - Spread - MaxLag) < y[2].at /\ y[2].at =< at}
RecentByAreFew ==
    \A class \in Both, a \in Address :
        IsFiniteSet(RecentBy(class, a)) /\ Cardinality(RecentBy(class, a)) =< Limit[class]["perIp"]
AddressesAreBounded ==
    \A class \in Both, a \in Address : \A z \in TakenBy(class, a) :
        /\ IsFiniteSet(BoundTo(class, a, z[2].at))
        /\ Cardinality(BoundTo(class, a, z[2].at)) =< Limit[class]["perIp"]

\* A slot that an address took is one of an account's window.
LEMMA TakenShape ==
    ASSUME NEW class, NEW a, NEW y
    PROVE  y \in TakenBy(class, a) <=>
             /\ y = <<y[1], y[2]>> /\ y[1] \in Account
             /\ y[2] \in charged[<<class, "perPrincipal", y[1]>>] /\ y[2].by = a
<1> DEFINE by(id) == {x \in charged[<<class, "perPrincipal", id>>] : x.by = a}
           taken(id) == {<<id, x>> : x \in by(id)}
<1>1. y \in TakenBy(class, a) <=>
        \E id \in Account : \E x \in charged[<<class, "perPrincipal", id>>] : x.by = a /\ y = <<id, x>>
  <2>1. y \in TakenBy(class, a) <=> \E id \in Account : y \in taken(id)
    <3>1. TakenBy(class, a) = UNION {taken(id) : id \in Account}
      BY DEF TakenBy
    <3> HIDE DEF taken
    <3> QED BY <3>1
  <2>2. ASSUME NEW id
        PROVE  y \in taken(id) <=> \E x \in by(id) : y = <<id, x>>
    OBVIOUS
  <2> QED BY <2>1, <2>2
<1>2. ASSUME NEW id \in Account, NEW x \in charged[<<class, "perPrincipal", id>>],
             x.by = a, y = <<id, x>>
      PROVE  /\ y = <<y[1], y[2]>> /\ y[1] \in Account
             /\ y[2] \in charged[<<class, "perPrincipal", y[1]>>] /\ y[2].by = a
  <2>1. y[1] = id /\ y[2] = x
    BY <1>2
  <2> QED BY <1>2, <2>1
<1>3. ASSUME y = <<y[1], y[2]>>, y[1] \in Account,
             y[2] \in charged[<<class, "perPrincipal", y[1]>>], y[2].by = a
      PROVE  y \in TakenBy(class, a)
  BY <1>1, <1>3
<1> QED BY <1>1, <1>2, <1>3

\* Where both pay, each has its windows.
LEMMA BothHaveKeys ==
    ASSUME NEW class \in Both, NEW a \in Address
    PROVE  /\ class \in Class /\ "perIp" \in DOMAIN Limit[class]
           /\ \A id \in Account : <<class, "perPrincipal", id>> \in Key
           /\ <<class, "perIp", a>> \in Key /\ LimitOf(<<class, "perIp", a>>) = Limit[class]["perIp"]
<1>1. class \in Class /\ "perIp" \in DOMAIN Limit[class] /\ "perPrincipal" \in DOMAIN Limit[class]
  BY DEF Both
<1>2. (\A id \in Account : <<class, "perPrincipal", id>> \in Key) /\ <<class, "perIp", a>> \in Key
  BY <1>1, KeyIn DEF Identifier
<1>3. LimitOf(<<class, "perIp", a>>) = Limit[class]["perIp"]
  BY DEF LimitOf
<1> QED BY <1>1, <1>2, <1>3

\* Each recent slot that an address took of an account has one of the
\* address's own, so these are no more than the address's limit.
LEMMA RecentByBound ==
    ASSUME Requested, Paid, OwnKeys
    PROVE  RecentByAreFew
<1>0. /\ TypeOK /\ clock \in Nat /\ Window \in Nat \ {0} /\ Ahead \in Nat /\ MaxLag \in Nat
      /\ Spread = MaxLag + Ahead
  BY Numbers DEF Requested
<1> SUFFICES ASSUME NEW class \in Both, NEW a \in Address
             PROVE  /\ IsFiniteSet(RecentBy(class, a))
                    /\ Cardinality(RecentBy(class, a)) =< Limit[class]["perIp"]
  BY DEF RecentByAreFew
<1> DEFINE ip == <<class, "perIp", a>>
           S == RecentBy(class, a)
           f == [y \in S |-> CHOOSE w \in Recent(ip) : w.call = y[2].call]
<1>1. ip \in Key /\ LimitOf(ip) = Limit[class]["perIp"] /\ class \in Class
      /\ "perIp" \in DOMAIN Limit[class]
  BY BothHaveKeys
<1> HIDE DEF f
<1>2. ASSUME NEW y \in S
      PROVE  /\ y = <<y[1], y[2]>> /\ y[1] \in Account
             /\ <<class, "perPrincipal", y[1]>> \in Key
             /\ y[2] \in Recent(<<class, "perPrincipal", y[1]>>)
             /\ \E w \in Recent(ip) : w.call = y[2].call
  <2> DEFINE k == <<class, "perPrincipal", y[1]>>
  <2>1. /\ y = <<y[1], y[2]>> /\ y[1] \in Account /\ k \in Key
        /\ y[2] \in charged[k] /\ y[2].by = a
        /\ y[2].at > clock - (Window - Spread - MaxLag)
    <3>1. y \in TakenBy(class, a) /\ y[2].at > clock - (Window - Spread - MaxLag)
      BY DEF RecentBy
    <3>2. /\ y = <<y[1], y[2]>> /\ y[1] \in Account
          /\ y[2] \in charged[k] /\ y[2].by = a
      BY <3>1, TakenShape
    <3>3. k \in Key
      BY <3>2, BothHaveKeys
    <3> HIDE DEF k
    <3> QED BY <3>1, <3>2, <3>3
  <2>2. y[2].at \in Nat
    BY <1>0, <2>1, Numbers
  <2>3. y[2] \in Recent(k)
    BY <1>0, <2>1, <2>2 DEF Recent
  <2>4. PICK w \in charged[ip] : w.call = y[2].call /\ w.at >= y[2].at - MaxLag
    <3>1. k[1] = class /\ k[2] = "perPrincipal"
      OBVIOUS
    <3> QED BY <1>1, <2>1, <3>1 DEF OwnKeys, AddressesWerePaid
  <2>5. w.at \in Nat
    BY <1>0, <1>1, <2>4, Numbers
  <2>6. w \in Recent(ip)
    BY <1>0, <2>1, <2>2, <2>4, <2>5 DEF Recent
  <2> QED BY <2>1, <2>3, <2>4, <2>6
<1> HIDE DEF S
<1>3. ASSUME NEW y \in S PROVE f[y] \in Recent(ip) /\ f[y].call = y[2].call
  BY <1>2 DEF f
<1>4. f \in Injection(S, Recent(ip))
  <2>1. f \in [S -> Recent(ip)]
    BY <1>3 DEF f
  <2>2. ASSUME NEW y \in S, NEW z \in S, f[y] = f[z] PROVE y = z
    <3>1. y[2].call = z[2].call
      BY <1>3, <2>2
    <3>2. <<class, "perPrincipal", y[1]>> = <<class, "perPrincipal", z[1]>>
      <4> DEFINE k == <<class, "perPrincipal", y[1]>>
                 l == <<class, "perPrincipal", z[1]>>
      <4>1. k \in Key /\ l \in Key /\ k[2] = l[2]
        BY <1>2
      <4>2. y[2] \in charged[k] /\ z[2] \in charged[l]
        BY <1>2 DEF Recent
      <4> QED BY <3>1, <4>1, <4>2 DEF OwnKeys, OneKeyAScope
    <3>3. y[1] = z[1]
      BY <3>2
    <3>4. y[2] = z[2]
      BY <1>2, <3>1, <3>3 DEF Paid, RecentDiffer
    <3> QED BY <1>2, <3>3, <3>4
  <2> QED BY <2>1, <2>2, Fun_IsInj
<1>5. IsFiniteSet(Recent(ip)) /\ Cardinality(Recent(ip)) =< LimitOf(ip) /\ LimitOf(ip) \in Nat
  BY <1>0, <1>1, RecentBound, KeyShape DEF Paid
<1>6. IsFiniteSet(S) /\ Cardinality(S) =< Cardinality(Recent(ip))
  BY <1>4, <1>5, FS_Injection
<1> QED BY <1>1, <1>5, <1>6, FS_CardinalityType DEF S

\* A step keeps the address's bound, as it keeps a window's.
LEMMA AddressNext ==
    ASSUME Requested, Requested', Paid', RecentByAreFew', AddressesAreBounded, [Next]_vars
    PROVE  AddressesAreBounded'
<1>0. /\ TypeOK /\ Window \in Nat /\ Spread \in Nat /\ MaxLag \in Nat
      /\ Window' = Window /\ Spread' = Spread
  BY Numbers DEF Requested, Window, Spread, Ahead
<1> SUFFICES ASSUME NEW class \in Both, NEW a \in Address, NEW z \in TakenBy(class, a)'
             PROVE  /\ IsFiniteSet(BoundTo(class, a, z[2].at)')
                    /\ Cardinality(BoundTo(class, a, z[2].at)') =< Limit[class]["perIp"]
  BY DEF AddressesAreBounded, Both, BoundTo, Class
<1> DEFINE at == z[2].at
<1>1. ASSUME NEW y \in TakenBy(class, a)'
      PROVE  /\ y \in TakenBy(class, a) \/ y[2].at = clock'
             /\ y[2].at =< clock' /\ y[2].at \in Nat /\ clock' \in Nat
  <2> DEFINE k == <<class, "perPrincipal", y[1]>>
  <2>1. /\ y = <<y[1], y[2]>> /\ y[1] \in Account
        /\ y[2] \in charged'[k] /\ y[2].by = a
    <3>1. \E id \in Account : \E x \in charged'[<<class, "perPrincipal", id>>] :
             x.by = a /\ y = <<id, x>>
      BY DEF TakenBy
    <3> QED BY <3>1
  <2>2. k \in Key
    BY <2>1, BothHaveKeys
  <2>3. y[2] \in charged[k] \/ y[2].at = clock'
    BY <2>1, <2>2, HistoryGrows
  <2>4. y[2].at =< clock' /\ y[2].at \in Nat /\ clock' \in Nat
    BY <2>1, <2>2, HistoryGrows
  <2> QED BY <2>1, <2>3, <2>4, TakenShape
<1>2. Limit[class]["perIp"] \in Nat
  BY LimitAssumption DEF Both
<1>3. CASE at = clock'
  <2>1. BoundTo(class, a, at)' \subseteq RecentBy(class, a)'
    BY <1>0, <1>3 DEF BoundTo, RecentBy
  <2>2. IsFiniteSet(RecentBy(class, a)') /\ Cardinality(RecentBy(class, a)') =< Limit[class]["perIp"]
    BY DEF RecentByAreFew, Both, Class
  <2> QED BY <1>2, <2>1, <2>2, FS_Subset, FS_CardinalityType
<1>4. CASE at < clock'
  <2>1. z \in TakenBy(class, a)
    BY <1>1, <1>4
  <2>2. BoundTo(class, a, at)' \subseteq BoundTo(class, a, at)
    <3> SUFFICES ASSUME NEW y \in BoundTo(class, a, at)'
                 PROVE  y \in BoundTo(class, a, at)
      OBVIOUS
    <3>1. /\ y \in TakenBy(class, a)' /\ y[2].at =< at
          /\ at - (Window - Spread - MaxLag) < y[2].at
      BY <1>0 DEF BoundTo
    <3>2. y \in TakenBy(class, a)
      BY <1>1, <1>4, <3>1
    <3> QED BY <3>1, <3>2 DEF BoundTo
  <2>3. IsFiniteSet(BoundTo(class, a, at)) /\ Cardinality(BoundTo(class, a, at)) =< Limit[class]["perIp"]
    BY <2>1 DEF AddressesAreBounded
  <2> QED BY <1>2, <2>2, <2>3, FS_Subset, FS_CardinalityType
<1> QED BY <1>1, <1>3, <1>4

-----------------------------------------------------------------------------
(* The refusals. *)

\* A refusal is a script's.
LEMMA RefusalIsARun ==
    ASSUME Requested, [Next]_vars, NEW k \in Key,
           refused'[k] # None, refused'[k] # refused[k]
    PROVE  \E c \in Call : RunEffect(c) /\ k = KeyOf(call[c]) /\ TurnsAway(c)
<1>0. TypeOK /\ TodoIsDue /\ EntriesAreRequests
  BY DEF Requested
<1>1. ASSUME NEW c \in Call, RunEffect(c) PROVE k = KeyOf(call[c]) /\ TurnsAway(c)
  BY <1>1 DEF RunEffect, Takes, FindsItsOwn
<1>2. CASE Tick
  BY <1>0, <1>2, TickShape
<1> QED BY <1>0, <1>1, <1>2, StepCases

\* The entries a caller is refused for are as many slots, taken lately.
LEMMA EarnedNext ==
    ASSUME Requested, Paid, [Next]_vars, NEW k \in Key,
           refused'[k] \notin {None, refused[k]}
    PROVE  Cardinality(Within(charged[k], clock - (Window + Spread), clock)) >= LimitOf(k)
<1>1. PICK c \in Call : RunEffect(c) /\ k = KeyOf(call[c]) /\ TurnsAway(c)
  BY RefusalIsARun
<1> DEFINE lately == Within(charged[k], clock - (Window + Spread), clock)
           f == [e \in Kept(c) |-> CHOOSE x \in lately : x.call = e.member]
<1> HIDE DEF f
<1>2. /\ clock \in Nat /\ Window \in Nat \ {0} /\ Ahead \in Nat /\ MaxLag \in Nat
      /\ Spread = MaxLag + Ahead /\ LimitOf(k) \in Nat
      /\ Kept(c) = {e \in entries[k] : e.score > call[c].now - Window}
      /\ call[c].now \in Nat /\ call[c].now >= clock - MaxLag
      /\ \A e \in entries[k] : e.score \in Nat
      /\ \A x \in charged[k] : x.at \in Nat
      /\ IsFiniteSet(Kept(c)) /\ Cardinality(Kept(c)) \in Nat
      /\ Cardinality(Kept(c)) >= LimitOf(k)
  BY <1>1, RunTypes, Numbers DEF Requested, TurnsAway
<1>3. ASSUME NEW e \in Kept(c)
      PROVE  \E x \in lately : x.call = e.member
  <2>1. e \in entries[k] /\ e.score \in Nat /\ e.score > clock - MaxLag - Window
    BY <1>2
  <2>2. PICK x \in charged[k] : x.call = e.member /\ x.at >= e.score - Ahead
    BY <2>1 DEF Paid, EntriesWerePaid
  <2>3. x.at =< clock /\ x.at \in Nat
    BY <1>2 DEF Paid, ChargesArePast
  <2>4. x \in lately
    BY <1>2, <2>1, <2>2, <2>3 DEF Within
  <2> QED BY <2>2, <2>4
<1> HIDE DEF lately
<1>4. \A e \in Kept(c) : f[e] \in lately /\ f[e].call = e.member
  BY <1>3 DEF f
<1>5. f \in Injection(Kept(c), lately)
  <2>1. f \in [Kept(c) -> lately]
    BY <1>4 DEF f
  <2>2. \A d, e \in Kept(c) : f[d] = f[e] => d = e
    BY <1>2, <1>4 DEF Paid, EntriesDiffer
  <2> QED BY <2>1, <2>2, Fun_IsInj
<1>6. IsFiniteSet(lately)
  BY FS_Subset DEF lately, Within, Paid, ChargesAreFinite
<1>7. Cardinality(Kept(c)) =< Cardinality(lately) /\ Cardinality(lately) \in Nat
  BY <1>5, <1>6, FS_Injection, FS_CardinalityType
<1> QED BY <1>2, <1>7 DEF lately

\* After a refusal there is room by the time the caller was told, or the oldest
\* entry goes by then.
LEMMA RoomNext ==
    ASSUME Requested, Requested', RoomIsNear, [Next]_vars
    PROVE  RoomIsNear'
<1>0. TypeOK /\ TodoIsDue /\ EntriesAreRequests
  BY DEF Requested
<1> SUFFICES ASSUME NEW k \in Key, refused'[k] # None, ~refused'[k].ahead
             PROVE  \/ Cardinality(entries'[k]) < LimitOf(k)
                    \/ \E e \in entries'[k] : e.score + Window =< refused'[k].until
  BY DEF RoomIsNear, LimitOf, Window
<1>1. CASE refused'[k] = refused[k] /\ entries'[k] = entries[k]
  BY <1>1 DEF RoomIsNear
<1>2. CASE Tick
  <2>1. CASE entries'[k] = {}
    BY <2>1, FS_EmptySet, KeyShape
  <2>2. CASE entries'[k] = entries[k]
    BY <1>0, <1>1, <1>2, <2>2, TickShape
  <2> QED BY <1>0, <1>2, <2>1, <2>2, TickShape
<1>3. ASSUME NEW c \in Call, RunEffect(c)
      PROVE  \/ refused'[k] = refused[k] /\ entries'[k] = entries[k]
             \/ \E e \in entries'[k] : e.score + Window =< refused'[k].until
  <2>1. CASE k # KeyOf(call[c])
    BY <1>3, <2>1 DEF RunEffect
  <2>2. CASE k = KeyOf(call[c])
    <3>1. TurnsAway(c)
      BY <1>3, <2>2 DEF RunEffect, Takes, FindsItsOwn
    <3>2. /\ entries'[k] = Kept(c) /\ refused'[k] = Refusal(Kept(c), call[c].now)
          /\ Cardinality(Kept(c)) >= LimitOf(k)
      BY <2>2, <3>1 DEF TurnsAway
    <3>3. /\ Kept(c) \subseteq [score : Nat, member : Call] /\ call[c].now \in Nat
          /\ \A e \in Kept(c) : e.score > call[c].now - Window
          /\ LimitOf(k) \in Nat \ {0}
      BY <1>3, <2>2, RunTypes
    <3>4. Kept(c) # {}
      <4>1. Cardinality(Kept(c)) \in Nat \ {0}
        BY <1>3, <2>2, <3>2, <3>3, RunTypes
      <4>2. Cardinality({}) = 0
        BY FS_EmptySet
      <4> QED BY <4>1, <4>2
    <3> QED BY <3>2, <3>3, <3>4, RefusalShape
  <2> QED BY <2>1, <2>2
<1> QED BY <1>0, <1>1, <1>2, <1>3, StepCases

\* So a caller that came when it was told to would find fewer entries than the
\* limit.
LEMMA RetryNext ==
    ASSUME Requested, RoomIsNear, [Next]_vars, NEW k \in Key,
           refused[k] # None, refused'[k] # None, refused'[k] # refused[k], ~refused[k].ahead
    PROVE  refused'[k].now < refused[k].until
<1>1. PICK c \in Call : RunEffect(c) /\ k = KeyOf(call[c]) /\ TurnsAway(c)
  BY RefusalIsARun
<1>2. /\ call[c].now \in Nat /\ Window \in Nat /\ LimitOf(k) \in Nat
      /\ Kept(c) = {e \in entries[k] : e.score > call[c].now - Window}
      /\ Kept(c) \subseteq [score : Nat, member : Call]
      /\ \A e \in entries[k] : e.score \in Nat
      /\ Cardinality(Kept(c)) >= LimitOf(k) /\ Cardinality(Kept(c)) \in Nat
      /\ Cardinality(Kept(c)) =< Cardinality(entries[k])
      /\ IsFiniteSet(entries[k]) /\ Cardinality(entries[k]) =< LimitOf(k)
      /\ Cardinality(entries[k]) \in Nat
      /\ refused'[k] = Refusal(Kept(c), call[c].now)
      /\ \A e \in Kept(c) : e.score > call[c].now - Window
  BY <1>1, RunTypes, Numbers, FS_CardinalityType DEF Requested, TurnsAway
<1>3. Refusal(Kept(c), call[c].now).now = call[c].now
  BY DEF Refusal
<1>4. refused[k].until \in Nat
  BY DEF Requested, TypeOK
<1>5. PICK e \in entries[k] : e.score + Window =< refused[k].until
  BY <1>2 DEF RoomIsNear
<1>6. ASSUME call[c].now >= refused[k].until PROVE FALSE
  <2>1. e \notin Kept(c)
    BY <1>2, <1>4, <1>5, <1>6
  <2>2. IsFiniteSet(entries[k] \ {e}) /\ Cardinality(entries[k] \ {e}) = Cardinality(entries[k]) - 1
    BY <1>2, <1>5, FS_RemoveElement
  <2>3. Kept(c) \subseteq entries[k] \ {e}
    BY <1>2, <2>1
  <2>4. Cardinality(Kept(c)) =< Cardinality(entries[k]) - 1
    BY <2>2, <2>3, FS_Subset
  <2> QED BY <1>2, <2>4
<1> QED BY <1>2, <1>3, <1>4, <1>6

-----------------------------------------------------------------------------
(* The theorems. *)

\* The handlers of a class that fails closed are paid for as they are reached.
LEMMA ClosedNext ==
    ASSUME CallEffect, ClosedClassesPay
    PROVE  ClosedClassesPay'
<1> SUFFICES ASSUME NEW d \in Call, call'[d].at = "handler", call'[d].class \in Closed
             PROVE  call'[d].spent # {} /\ call'[d].spent = call'[d].due
  BY DEF ClosedClassesPay
<1>1. CASE call'[d] = call[d]
  BY <1>1 DEF ClosedClassesPay
<1>2. CASE call'[d] # call[d]
  BY <1>2 DEF CallEffect, FailsOpen
<1> QED BY <1>1, <1>2

\* The first requests find nothing taken, and nothing refused.
LEMMA InitLimiter ==
    ASSUME Init
    PROVE  /\ Requested /\ Paid /\ OwnKeys /\ RoomIsNear
           /\ NoWindowOverflows /\ AddressesAreBounded /\ ClosedClassesPay
<1>1. /\ clock = Window /\ entries = [k \in Key |-> {}] /\ expires = [k \in Key |-> 0]
      /\ call = [c \in Call |-> Waiting] /\ charged = [k \in Key |-> {}]
      /\ refused = [k \in Key |-> None]
  BY DEF Init
<1>2. TypeOK
  <2>1. \A k \in Key : IsFiniteSet(entries[k]) /\ Cardinality(entries[k]) =< LimitOf(k)
    BY <1>1, KeyShape, FS_EmptySet
  <2> QED BY <1>1, <2>1, WindowIsPositive DEF TypeOK
<1>3. Requested
  BY <1>1, <1>2 DEF Requested, TodoIsDue, EntriesAreRequests, RequestsAreBrief, Waiting
<1>4. Paid
  BY <1>1, FS_EmptySet DEF Paid, ChargesArePast, ChargesAreFinite, KeysOutlive, RecentHold,
                           RecentDiffer, Recent, EntriesWerePaid, EntriesDiffer
<1>5. OwnKeys
  BY <1>1 DEF OwnKeys, AddressesArePaid, AddressesWerePaid, ChargesAreOwn, OneKeyAScope, Waiting
<1>6. RoomIsNear /\ NoWindowOverflows /\ ClosedClassesPay
  BY <1>1 DEF RoomIsNear, NoWindowOverflows, ClosedClassesPay, Waiting
<1>7. AddressesAreBounded
  <2> SUFFICES ASSUME NEW class \in Both, NEW a \in Address, NEW z \in TakenBy(class, a)
               PROVE  FALSE
    BY DEF AddressesAreBounded
  <2>1. z[1] \in Account /\ z[2] \in charged[<<class, "perPrincipal", z[1]>>]
    BY TakenShape
  <2>2. <<class, "perPrincipal", z[1]>> \in Key
    BY <2>1, BothHaveKeys
  <2> QED BY <1>1, <2>1, <2>2
<1> QED BY <1>3, <1>4, <1>5, <1>6, <1>7

\* What the sorted sets hold, beside what was truly given: each recent slot has
\* its entry, each entry that counts its slot, and an address pays before the
\* accounts it names.
THEOREM EntriesStandForSlots == Spec => [](Requested /\ Paid /\ OwnKeys)
<1>1. Init => Requested /\ Paid /\ OwnKeys
  BY InitLimiter
<1>2. Requested /\ Paid /\ OwnKeys /\ [Next]_vars => (Requested /\ Paid /\ OwnKeys)'
  BY RequestedNext, PaidNext, OwnKeysNext
<1> QED BY <1>1, <1>2, PTL DEF Spec

\* Every key has its type, and no window more members than its limit.
THEOREM LimiterTypeCorrect == Spec => []TypeOK
<1>1. Requested => TypeOK
  BY DEF Requested
<1> QED BY <1>1, EntriesStandForSlots, PTL

\* A window gives no more slots than its limit in any stretch of time shorter
\* than it by the spread of the clocks and the delay of the scripts.
THEOREM WindowsHold == Spec => []NoWindowOverflows
<1>1. Init => NoWindowOverflows
  BY InitLimiter
<1>2. Requested /\ Paid => RecentAreFew
  BY RecentBound DEF RecentAreFew, Requested, Paid
<1>3. /\ Requested /\ Requested' /\ Paid /\ Paid' /\ RecentAreFew'
      /\ NoWindowOverflows /\ [Next]_vars
      => NoWindowOverflows'
  BY OverflowNext
<1> QED BY <1>1, <1>2, <1>3, EntriesStandForSlots, PTL DEF Spec

\* An address takes no more slots of the accounts it names than its own limit.
THEOREM AddressesHold == Spec => []AnAddressIsBounded
<1>1. Init => AddressesAreBounded
  BY InitLimiter
<1>2. Requested /\ Paid /\ OwnKeys => RecentByAreFew
  BY RecentByBound
<1>3. /\ Requested /\ Requested' /\ Paid' /\ RecentByAreFew'
      /\ AddressesAreBounded /\ [Next]_vars
      => AddressesAreBounded'
  BY AddressNext
<1>4. AddressesAreBounded => AnAddressIsBounded
  BY DEF AddressesAreBounded, AnAddressIsBounded, Both, BoundTo
<1> QED BY <1>1, <1>2, <1>3, <1>4, EntriesStandForSlots, PTL DEF Spec

\* A class that fails closed lets nobody in without a slot of every window that
\* applies, whenever Redis went.
THEOREM ClosedStayClosed == Spec => []ClosedClassesPay
<1>1. Init => ClosedClassesPay
  BY InitLimiter
<1>2. Requested /\ ClosedClassesPay /\ [Next]_vars => ClosedClassesPay'
  BY CallsMove, ClosedNext DEF Requested
<1> QED BY <1>1, <1>2, EntriesStandForSlots, PTL DEF Spec

\* A caller is refused only where the limit's worth of slots was taken lately.
THEOREM EveryRefusalIsEarned == Spec => RefusalsAreEarned
<1>1. Requested /\ Paid /\ [Next]_vars =>
        [\A k \in Key :
           refused'[k] \notin {None, refused[k]}  =>
             Cardinality(Within(charged[k], clock - (Window + Spread), clock)) >= LimitOf(k)]_refused
  BY EarnedNext
<1> QED BY <1>1, EntriesStandForSlots, PTL DEF Spec, RefusalsAreEarned

\* Who waits as long as it was told is not refused for what it waited for.
THEOREM RetryAfterHolds == Spec => RetryAfterIsEnough
<1>1. Init => RoomIsNear
  BY InitLimiter
<1>2. Requested /\ Requested' /\ RoomIsNear /\ [Next]_vars => RoomIsNear'
  BY RoomNext
<1>3. Requested /\ RoomIsNear /\ [Next]_vars =>
        [\A k \in Key :
           /\ refused[k] # None /\ refused'[k] # None
           /\ refused'[k] # refused[k] /\ ~refused[k].ahead
           => refused'[k].now < refused[k].until]_refused
  BY RetryNext
<1> QED BY <1>1, <1>2, <1>3, EntriesStandForSlots, PTL DEF Spec, RetryAfterIsEnough
=============================================================================
