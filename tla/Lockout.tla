------------------------------- MODULE Lockout -------------------------------
(***************************************************************************)
(* Password attempts on one account, in parallel, and the lock they climb  *)
(* to.                                                                     *)
(*                                                                         *)
(* A login reads the account, verifies the password for as long as that    *)
(* takes, and then writes in one transaction that looks at the lock again: *)
(* each reading of the clock, of the row and each commit is a step.  What  *)
(* a successful login issues afterwards is SessionFlows'.                  *)
(* The names are apart from RateLimiter's, so that ThrottlesProofs extends *)
(* both.                                                                   *)
(***************************************************************************)
EXTENDS Integers, Sequences

CONSTANTS
    LOCKOUT_THRESHOLD,  \* the count at which the first lock is set
    LADDER,             \* the windows of that lock and of those after it
    Attempt,            \* the login requests
    Guess,              \* what those that run try: "right" or "wrong" passwords
    MaxTime             \* bound: how long the clock runs

ASSUME ThresholdAssumption == LOCKOUT_THRESHOLD \in Nat \ {0}
ASSUME LadderAssumption ==
    /\ LADDER \in Seq(Nat) /\ LADDER # <<>>
    /\ \A i, j \in 1 .. Len(LADDER) : i < j => LADDER[i] =< LADDER[j]
ASSUME GuessAssumption == Guess \in [Attempt -> {"right", "wrong"}]
ASSUME TimeAssumption == MaxTime \in Nat

VARIABLES
    time,         \* the time
    failed,       \* failedLoginCount
    lockedUntil,  \* 0 for null: no lock is set at time 0
    counted,      \* history: when each failure since the last reset was judged
    pc,           \* the step each request takes next
    my            \* what each has read

lockoutVars == <<time, failed, lockedUntil, counted, pc, my>>

-----------------------------------------------------------------------------
Local == [now : Nat, lockedUntil : Nat, failed : Nat]

Steps == {"ready", "verify", "judge", "fail", "succeed", "done"}

\* lockedUntilFor: the rung is capped at the last of the ladder.
Rung(n) == LET rung == n - LOCKOUT_THRESHOLD + 1
           IN  LADDER[IF rung < Len(LADDER) THEN rung ELSE Len(LADDER)]
LockedUntilFor(n, now) == IF n < LOCKOUT_THRESHOLD THEN 0 ELSE now + Rung(n)

IsLocked(until, now) == until > now

-----------------------------------------------------------------------------
NothingRead == [now |-> 0, lockedUntil |-> 0, failed |-> 0]

LockoutInit ==
    /\ time = 1
    /\ failed = 0 /\ lockedUntil = 0
    /\ counted = <<>>
    /\ pc = [a \in Attempt |-> "ready"]
    /\ my = [a \in Attempt |-> NothingRead]

Goto(a, step) == pc' = [pc EXCEPT ![a] = step]

\* A request that has answered holds nothing.
Finish(a) == Goto(a, "done") /\ my' = [my EXCEPT ![a] = NothingRead]
account == <<failed, lockedUntil, counted>>

TimePasses ==
    /\ time < MaxTime
    /\ time' = time + 1
    /\ UNCHANGED <<account, pc, my>>

\* The row is read before the password is verified.
Read(a) ==
    /\ pc[a] = "ready"
    /\ my' = [my EXCEPT ![a].lockedUntil = lockedUntil, ![a].failed = failed]
    /\ Goto(a, "verify")
    /\ UNCHANGED <<time, account>>

\* Verified either way, the attempt is refused with nothing written when the
\* row that was read is locked.  A failure takes its time again.
Verify(a) ==
    /\ pc[a] = "verify"
    /\ IF IsLocked(my[a].lockedUntil, time) THEN Finish(a)
                                              ELSE Goto(a, "judge") /\ UNCHANGED my
    /\ UNCHANGED <<time, account>>

Judge(a) ==
    /\ pc[a] = "judge"
    /\ my' = [my EXCEPT ![a].now = time]
    /\ Goto(a, IF Guess[a] = "right" THEN "succeed" ELSE "fail")
    /\ UNCHANGED <<time, account>>

TrustsItsRead(a) == TRUE                \* mutant: the lock is not looked at again
NotLockedNow(a) == ~IsLocked(lockedUntil, my[a].now)

Absolute(a) == my[a].failed + 1         \* mutant: the count that was read, plus one
Increment(a) == failed + 1

\* recordFailure: counted by the database, and locked in the same transaction.
Fail(a) ==
    /\ pc[a] = "fail"
    /\ IF NotLockedNow(a)
           THEN /\ failed' = Increment(a)
                /\ lockedUntil' = IF failed' >= LOCKOUT_THRESHOLD
                                    THEN LockedUntilFor(failed', my[a].now) ELSE lockedUntil
                /\ counted' = Append(counted, my[a].now)
           ELSE UNCHANGED account
    /\ Finish(a)
    /\ UNCHANGED time

\* succeed: the same condition, or the account is locked after all.
Succeed(a) ==
    /\ pc[a] = "succeed"
    /\ IF NotLockedNow(a)
           THEN failed' = 0 /\ lockedUntil' = 0 /\ counted' = <<>>
           ELSE UNCHANGED account
    /\ Finish(a)
    /\ UNCHANGED time

\* A completed password reset clears both columns without asking.
Reset ==
    /\ failed # 0
    /\ failed' = 0 /\ lockedUntil' = 0 /\ counted' = <<>>
    /\ UNCHANGED <<time, pc, my>>

LockoutNext ==
    \/ TimePasses \/ Reset
    \/ \E a \in Attempt : Read(a) \/ Verify(a) \/ Judge(a) \/ Fail(a) \/ Succeed(a)

LockoutSpec == LockoutInit /\ [][LockoutNext]_lockoutVars

-----------------------------------------------------------------------------
\* Every column has its type: the count is never negative.
LockoutTypeOK ==
    /\ time \in Nat
    /\ failed \in Nat /\ lockedUntil \in Nat
    /\ counted \in Seq(Nat)
    /\ pc \in [Attempt -> Steps]
    /\ my \in [Attempt -> Local]

\* No failure is lost: the count is that of the failures since the last reset
\* and the lock is the one the last of them earned, however many attempts
\* verified in parallel.
EveryFailureCounts ==
    /\ failed = Len(counted)
    /\ failed < LOCKOUT_THRESHOLD => lockedUntil = 0
    /\ failed >= LOCKOUT_THRESHOLD => lockedUntil = counted[failed] + Rung(failed)

\* From the threshold on, counted failures are as far apart as the ladder
\* says, by the times they were judged at.
FailuresArePaced ==
    \A k \in LOCKOUT_THRESHOLD .. Len(counted) - 1 :
        counted[k + 1] >= counted[k] + Rung(k)

\* While a lock is live nothing moves it and nobody signs in: not an attempt
\* that read the row before the lock was set, nor one that stalled since.
LiveLockHolds ==
    [][\A a \in Attempt :
         IsLocked(lockedUntil, time) /\ pc'[a] # pc[a] => UNCHANGED account]_lockoutVars
=============================================================================
