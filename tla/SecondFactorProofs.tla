------------------------- MODULE SecondFactorProofs -------------------------
(***************************************************************************)
(* What holds of a second factor whatever requests race and die: every     *)
(* promotion is paid with a code of its own, a factor's steps rise, there  *)
(* is one set of recovery codes, and a session at the limit is on its way  *)
(* out.                                                                    *)
(***************************************************************************)
EXTENDS SecondFactor, TLAPS

-----------------------------------------------------------------------------
(* The invariant. *)

\* The advisory lock is one request's.
Holds(f) == f \notin dead /\ pc[f] \in {"decide", "commit"}
LockExclusive == \A f, g \in Flow : Holds(f) /\ Holds(g) => f = g

\* What a request knows at each of its steps.
Request(f) ==
    /\ pc[f] \in {"read", "spend", "promote", "fail", "revoke"} =>
         kind[f] \in Verifications /\ my[f].session # None
    /\ pc[f] \in {"spend", "promote"} =>
         \/ kind[f] = "totp" /\ my[f].factor # None
         \/ kind[f] = "recovery" /\ my[f].code \in Code
    /\ pc[f] \in {"lock", "decide", "commit"} =>
         /\ kind[f] \notin Verifications
         /\ kind[f] = "confirm" => my[f].factor # None /\ my[f].step > NEVER_ACCEPTED_STEP
Requests == \A f \in Flow : Request(f)

\* What the holder of the lock has decided is still so when it commits.
Stands(f) ==
    /\ kind[f] = "enroll" => ~Confirmed(factor)
    /\ kind[f] = "confirm" => /\ factor # None /\ ~factor.confirmed
                              /\ factor.id = my[f].factor.id
    /\ kind[f] # "enroll" => codes \subseteq my[f].matched
Decided == \A f \in Flow : Holds(f) /\ pc[f] = "commit" => Stands(f)

\* Ids are drawn once, and a factor that awaits its confirmation accepted nothing.
Drawn ==
    /\ factor # None => /\ factor.id <= drawn
                        /\ factor.last >= NEVER_ACCEPTED_STEP
                        /\ ~factor.confirmed => factor.last = NEVER_ACCEPTED_STEP
    /\ \A c \in codes : c.set <= drawn

\* What was spent cannot be spent again.
Gone(p) ==
    /\ p[2] <= drawn
    /\ p[1] = "totp" /\ factor # None /\ factor.id = p[2] => p[3] <= factor.last
    /\ p[1] = "code" => \A c \in codes : ~(c.set = p[2] /\ c.n = p[3])

\* What is being paid, and what was.
Paying ==
    /\ \A f \in Flow : pc[f] = "promote" => Gone(Spent(f))
    /\ \A f, g \in Flow : pc[f] = "promote" /\ pc[g] = "promote" /\ f # g => Spent(f) # Spent(g)
Paid ==
    /\ paid \in [Session -> Payment \cup {None}]
    /\ \A s \in Session : paid[s] # None =>
         /\ Gone(paid[s])
         /\ \A f \in Flow : pc[f] = "promote" => Spent(f) # paid[s]

IInv ==
    /\ TypeOK /\ LockExclusive /\ Requests /\ Decided /\ Drawn
    /\ Paying /\ Paid
    /\ PromotionsArePaid /\ OneSetOfCodes /\ LockedOutSessionsGo

-----------------------------------------------------------------------------
(* Data. *)

\* What a request spends is a payment.
LEMMA SpentShape ==
    ASSUME TypeOK, Requests, NEW f \in Flow, pc[f] \in {"spend", "promote"}
    PROVE  /\ Spent(f) \in Payment /\ Spent(f) # None
           /\ kind[f] = "totp" => /\ my[f].factor \in Factor /\ my[f].step \in Int
                                  /\ Spent(f)[1] = "totp" /\ Spent(f)[2] = my[f].factor.id
                                  /\ Spent(f)[3] = my[f].step
           /\ kind[f] # "totp" => /\ kind[f] = "recovery" /\ my[f].code \in Code
                                  /\ Spent(f)[1] = "code" /\ Spent(f)[2] = my[f].code.set
                                  /\ Spent(f)[3] = my[f].code.n
<1>1. my[f] \in Local
  BY DEF TypeOK
<1>2. CASE kind[f] = "totp"
  <2>1. my[f].factor \in Factor /\ my[f].step \in Int
    BY <1>1, <1>2 DEF Local, Requests, Request
  <2>2. my[f].factor.id \in Nat
    BY <2>1 DEF Factor
  <2>3. Spent(f) = <<"totp", my[f].factor.id, my[f].step>>
    BY <1>2 DEF Spent
  <2> QED BY <1>2, <2>1, <2>2, <2>3, NoneAssumption DEF Payment
<1>3. CASE kind[f] # "totp"
  <2>1. kind[f] = "recovery" /\ my[f].code \in Code
    BY <1>1, <1>3 DEF Local, Requests, Request
  <2>2. my[f].code.set \in Nat /\ my[f].code.n \in Int
    BY <2>1 DEF Code
  <2>3. Spent(f) = <<"code", my[f].code.set, my[f].code.n>>
    BY <1>3 DEF Spent
  <2> QED BY <1>3, <2>1, <2>2, <2>3, NoneAssumption DEF Payment
<1> QED BY <1>2, <1>3

\* The codes of a new set.
LEMMA NewSetShape ==
    ASSUME NEW k \in Nat
    PROVE  /\ NewSet(k) \subseteq Code
           /\ \A c \in NewSet(k) : c.set = k
BY DEF NewSet, Code

\* A request that holds nothing.
LEMMA NoRequestShape == NoRequest \in Local
BY DEF NoRequest, Local, NEVER_ACCEPTED_STEP

-----------------------------------------------------------------------------
\* Every initial state satisfies the invariant.
LEMMA InitIInv == Init => IInv
<1> SUFFICES ASSUME Init PROVE IInv
  OBVIOUS
<1>1. /\ factor \in Factor \cup {None}
      /\ factor # None => factor.id = 1 /\ factor.last = -1
  BY DEF Init, Factor, NEVER_ACCEPTED_STEP
<1>2. codes = {} \/ codes = NewSet(1)
  BY DEF Init
<1>3. TypeOK
  BY <1>1, <1>2, NewSetShape, NoRequestShape DEF Init, TypeOK, Steps
<1>4. LockExclusive /\ Requests /\ Decided /\ Paying
  BY DEF Init, LockExclusive, Holds, Requests, Request, Decided, Paying
<1>5. Drawn
  BY <1>1, <1>2, NewSetShape DEF Init, Drawn, NEVER_ACCEPTED_STEP
<1>6. Paid /\ PromotionsArePaid
  BY DEF Init, Paid, PromotionsArePaid
<1>7. OneSetOfCodes
  BY <1>2, NewSetShape DEF OneSetOfCodes
<1>8. LockedOutSessionsGo
  BY BoundsAssumption DEF Init, LockedOutSessionsGo
<1> QED BY <1>3, <1>4, <1>5, <1>6, <1>7, <1>8 DEF IInv

-----------------------------------------------------------------------------
(* Steps that touch no table. *)

\* One request moves, and it is not one that promotes or revokes.
Moves(f) ==
    /\ kind' = kind /\ pc' \in [Flow -> Steps] /\ my' \in [Flow -> Local]
    /\ \A g \in Flow : g # f => pc'[g] = pc[g] /\ my'[g] = my[g]

\* The requests that do not move know what they knew.
LEMMA OthersKnow ==
    ASSUME NEW f \in Flow, Moves(f), Requests, Request(f)'
    PROVE  /\ Requests'
           /\ \A g \in Flow : g # f => Spent(g)' = Spent(g)
<1>1. \A g \in Flow : g # f => Request(g)'
  BY DEF Moves, Requests, Request
<1>2. \A g \in Flow : g # f => Spent(g)' = Spent(g)
  BY DEF Moves, Spent
<1> QED BY <1>1, <1>2 DEF Requests

\* The lock stays exclusive if the one that takes it finds it free.
LEMMA LockMoves ==
    ASSUME NEW f \in Flow, Moves(f), dead' = dead, LockExclusive, Holds(f)' => Holds(f) \/ LockIsFree
    PROVE  LockExclusive'
<1>1. \A g \in Flow : g # f => (Holds(g)' <=> Holds(g))
  BY DEF Moves, Holds
<1>2. LockIsFree => \A g \in Flow : ~Holds(g)
  BY DEF LockIsFree, Holds
<1> QED BY <1>1, <1>2 DEF LockExclusive

\* A step that writes nothing keeps the invariant if the request that takes
\* it still knows what it must.
LEMMA QuietStep ==
    ASSUME IInv, NEW f \in Flow, Moves(f), dead' = dead, now' = now,
           UNCHANGED <<mfa, sessions>>,
           Request(f)', pc[f] # "revoke", pc'[f] # "promote",
           Holds(f)' => Holds(f) \/ LockIsFree,
           Holds(f)' /\ pc'[f] = "commit" => Stands(f)'
    PROVE  IInv'
<1> USE DEF mfa, sessions
<1>1. TypeOK'
  BY DEF IInv, TypeOK, Moves
<1>2. LockExclusive'
  BY LockMoves DEF IInv
<1>3. Requests' /\ \A g \in Flow : g # f => Spent(g)' = Spent(g)
  BY OthersKnow DEF IInv
<1>4. \A g \in Flow : g # f => (Holds(g)' <=> Holds(g)) /\ (Stands(g)' <=> Stands(g))
  BY DEF Moves, Holds, Stands, Confirmed
<1>5. Decided'
  BY <1>4 DEF IInv, Decided, Moves
<1>6. Drawn' /\ PromotionsArePaid' /\ OneSetOfCodes'
  BY DEF IInv, Drawn, PromotionsArePaid, OneSetOfCodes
<1>7. \A p : Gone(p)' <=> Gone(p)
  BY DEF Gone
<1>8. \A g \in Flow : pc'[g] = "promote" => g # f /\ pc[g] = "promote"
  BY DEF Moves
<1>9. Paying' /\ Paid'
  BY <1>3, <1>7, <1>8 DEF IInv, Paying, Paid
<1>10. LockedOutSessionsGo'
  BY DEF IInv, LockedOutSessionsGo, Moves
<1> QED BY <1>1, <1>2, <1>3, <1>5, <1>6, <1>9, <1>10 DEF IInv

\* Starting, reading, locking and deciding write nothing.
LEMMA StartStep ==
    ASSUME IInv, NEW f \in Flow, NEW s \in Session, VerifyStart(f, s)
    PROVE  IInv'
<1>1. Moves(f) /\ my'[f].session = s /\ pc'[f] = "read"
  BY DEF IInv, TypeOK, VerifyStart, Goto, Moves, Steps, Local
<1>2. Request(f)'
  BY <1>1, NoneAssumption DEF VerifyStart, Request
<1> QED BY <1>1, <1>2, QuietStep DEF VerifyStart, At, Holds

\* A step is read with the factor that accepts it.
LEMMA ReadTotpStep ==
    ASSUME IInv, NEW f \in Flow, NEW step \in now - 1 .. now + 1, ReadTotp(f, step)
    PROVE  IInv'
<1>1. factor \in Factor /\ factor # None /\ step \in Int
  BY DEF IInv, TypeOK, ReadTotp, Confirmed
<1>2. /\ my' = [my EXCEPT ![f] = [my[f] EXCEPT !.factor = factor, !.step = step]]
      /\ my[f] \in Local
  BY DEF IInv, TypeOK, ReadTotp
<1>3. /\ [my[f] EXCEPT !.factor = factor, !.step = step] \in Local
      /\ [my[f] EXCEPT !.factor = factor, !.step = step].factor = factor
      /\ [my[f] EXCEPT !.factor = factor, !.step = step].session = my[f].session
  BY <1>1, <1>2 DEF Local
<1>4. Moves(f) /\ pc'[f] = "spend" /\ my'[f].factor = factor /\ my'[f].session = my[f].session
  BY <1>2, <1>3 DEF IInv, TypeOK, ReadTotp, Goto, Moves, Steps
<1>5. Request(f)'
  BY <1>1, <1>4 DEF IInv, Requests, Request, ReadTotp, At
<1> QED BY <1>4, <1>5, QuietStep DEF ReadTotp, At, Holds

\* A code is read among the unused ones.
LEMMA ReadRecoveryStep ==
    ASSUME IInv, NEW f \in Flow, NEW c \in codes, ReadRecovery(f, c)
    PROVE  IInv'
<1>1. c \in Code
  BY DEF IInv, TypeOK
<1>2. /\ my' = [my EXCEPT ![f] = [my[f] EXCEPT !.code = c]]
      /\ my[f] \in Local
  BY DEF IInv, TypeOK, ReadRecovery
<1>3. Moves(f) /\ pc'[f] = "spend" /\ my'[f].code = c /\ my'[f].session = my[f].session
  BY <1>1, <1>2 DEF IInv, TypeOK, ReadRecovery, Goto, Moves, Steps, Local
<1>4. Request(f)'
  BY <1>1, <1>3 DEF IInv, Requests, Request, ReadRecovery, At
<1> QED BY <1>3, <1>4, QuietStep DEF ReadRecovery, At, Holds

\* A verification that reads nothing it can spend goes on to its failure.
LEMMA ReadNothingStep ==
    ASSUME IInv, NEW f \in Flow, ReadNothing(f)
    PROVE  IInv'
<1>1. Moves(f) /\ pc'[f] = "fail" /\ my' = my
  BY DEF IInv, TypeOK, ReadNothing, Goto, Moves, Steps
<1>2. Request(f)'
  BY <1>1 DEF IInv, Requests, Request, ReadNothing, At
<1> QED BY <1>1, <1>2, QuietStep DEF ReadNothing, At, Holds

\* What an answer leaves of a request.
LEMMA Answered ==
    ASSUME IInv, NEW f \in Flow, Finish(f), kind' = kind
    PROVE  Moves(f) /\ pc'[f] = "done" /\ Request(f)'
<1>1. Moves(f) /\ pc'[f] = "done"
  BY NoRequestShape DEF IInv, TypeOK, Finish, Goto, Moves, Steps
<1> QED BY <1>1 DEF Request

\* An enrolment request admitted by its first read, or answered.
LEMMA EnrolmentStartStep ==
    ASSUME IInv, NEW f \in Flow, NEW step \in now - 1 .. now + 1, EnrolmentStart(f, step)
    PROVE  IInv'
<1> USE DEF EnrolmentStart, At
<1>1. CASE Admits(f)
  <2>1. /\ factor \in Factor \cup {None} /\ step \in Int
        /\ kind[f] = "confirm" => factor # None /\ step > NEVER_ACCEPTED_STEP
    <3>1. factor \in Factor \cup {None} /\ now \in Nat /\ step \in Int
      BY DEF IInv, TypeOK
    <3>2. kind[f] = "confirm" => factor # None
      BY <1>1 DEF Admits
    <3>3. kind[f] = "confirm" => step > factor.last
      BY <1>1 DEF Acceptable
    <3>4. factor # None => factor.last >= NEVER_ACCEPTED_STEP /\ factor.last \in Int
      BY <3>1 DEF IInv, Drawn, Factor
    <3> QED BY <3>1, <3>2, <3>3, <3>4 DEF NEVER_ACCEPTED_STEP
  <2>2. /\ my' = [my EXCEPT ![f] = [my[f] EXCEPT !.factor = factor, !.step = step]]
        /\ my[f] \in Local
    BY <1>1 DEF IInv, TypeOK
  <2>3. /\ [my[f] EXCEPT !.factor = factor, !.step = step] \in Local
        /\ [my[f] EXCEPT !.factor = factor, !.step = step].factor = factor
        /\ [my[f] EXCEPT !.factor = factor, !.step = step].step = step
    BY <2>1, <2>2 DEF Local
  <2>4. Moves(f) /\ pc'[f] = "lock" /\ my'[f].factor = factor /\ my'[f].step = step
    BY <1>1, <2>2, <2>3 DEF IInv, TypeOK, Goto, Moves, Steps
  <2>5. Request(f)'
    BY <2>1, <2>4 DEF Request
  <2> QED BY <2>4, <2>5, QuietStep DEF Holds
<1>2. CASE ~Admits(f)
  <2>1. Finish(f)
    BY <1>2
  <2> QED BY <2>1, Answered, QuietStep DEF Holds
<1> QED BY <1>1, <1>2

\* The advisory lock is taken when it is free.
LEMMA LockStep ==
    ASSUME IInv, NEW f \in Flow, Lock(f)
    PROVE  IInv'
<1>1. Moves(f) /\ pc'[f] = "decide" /\ my' = my
  BY DEF IInv, TypeOK, Lock, Goto, Moves, Steps
<1>2. Request(f)'
  BY <1>1 DEF IInv, Requests, Request, Lock, At
<1> QED BY <1>1, <1>2, QuietStep DEF Lock, At

\* The decision of the lock's holder stands when it is taken.
LEMMA DecideStep ==
    ASSUME IInv, NEW f \in Flow, Decide(f)
    PROVE  IInv'
<1> USE DEF Decide, At
<1>1. CASE Decides(f)
  <2> DEFINE m == IF kind[f] = "enroll" THEN {} ELSE codes
  <2>1. m \in SUBSET Code /\ my[f] \in Local /\ my' = [my EXCEPT ![f] = [my[f] EXCEPT !.matched = m]]
    BY <1>1 DEF IInv, TypeOK
  <2> HIDE DEF m
  <2>2. /\ [my[f] EXCEPT !.matched = m] \in Local
        /\ [my[f] EXCEPT !.matched = m].matched = m
        /\ [my[f] EXCEPT !.matched = m].factor = my[f].factor
        /\ [my[f] EXCEPT !.matched = m].step = my[f].step
    BY <2>1 DEF Local
  <2>3. /\ Moves(f) /\ pc'[f] = "commit"
        /\ my'[f].matched = m /\ my'[f].factor = my[f].factor /\ my'[f].step = my[f].step
    BY <1>1, <2>1, <2>2 DEF IInv, TypeOK, Goto, Moves, Steps
  <2>4. Request(f)'
    BY <2>3 DEF IInv, Requests, Request
  <2>5. Stands(f)'
    BY <1>1, <2>3 DEF Decides, Stands, m, Confirmed, mfa
  <2> QED BY <2>3, <2>4, <2>5, QuietStep DEF Holds
<1>2. CASE ~Decides(f)
  <2>1. Finish(f)
    BY <1>2
  <2> QED BY <2>1, Answered, QuietStep DEF Holds
<1> QED BY <1>1, <1>2

-----------------------------------------------------------------------------
(* Spending. *)

\* What is being paid and what was stay apart if what was gone stays gone, and
\* what a request has just spent was not.
LEMMA PaymentsStand ==
    ASSUME IInv, NEW f \in Flow, Moves(f), paid' = paid,
           \A g \in Flow : g # f => Spent(g)' = Spent(g),
           \A p \in Payment : Gone(p) => Gone(p)',
           \/ pc'[f] # "promote"
           \/ /\ Spent(f)' = Spent(f) /\ pc[f] = "spend"
              /\ Gone(Spent(f)) ' /\ \A p \in Payment : Gone(p) => p # Spent(f)
    PROVE  Paying' /\ Paid'
<1>1. \A g \in Flow : pc[g] = "promote" => Spent(g) \in Payment /\ Gone(Spent(g))
  BY SpentShape DEF IInv, Paying
<1>2. \A g \in Flow : pc'[g] = "promote" /\ g # f => pc[g] = "promote" /\ Spent(g)' = Spent(g)
  BY DEF Moves
<1>3. \A s \in Session : paid[s] # None => paid[s] \in Payment /\ Gone(paid[s])
  BY DEF IInv, Paid
<1>4. \A g \in Flow : pc'[g] = "promote" => Gone(Spent(g))'
  <2> SUFFICES ASSUME NEW g \in Flow, pc'[g] = "promote" PROVE Gone(Spent(g))'
    OBVIOUS
  <2>1. CASE g # f
    <3>1. Gone(Spent(g)) /\ Spent(g) \in Payment /\ Spent(g)' = Spent(g)
      BY <1>1, <1>2, <2>1
    <3>2. \A p \in Payment : Gone(p)' /\ p = Spent(g)' => Gone(Spent(g))'
      BY DEF Gone
    <3> QED BY <3>1, <3>2
  <2> QED BY <2>1
<1>5. \A g, h \in Flow : pc'[g] = "promote" /\ pc'[h] = "promote" /\ g # h => Spent(g)' # Spent(h)'
  <2> SUFFICES ASSUME NEW g \in Flow, NEW h \in Flow, pc'[g] = "promote", pc'[h] = "promote", g # h
               PROVE  Spent(g)' # Spent(h)'
    OBVIOUS
  <2>1. CASE g # f /\ h # f
    BY <1>2, <2>1 DEF IInv, Paying
  <2>2. CASE g = f
    BY <1>1, <1>2, <2>2
  <2>3. CASE h = f
    BY <1>1, <1>2, <2>3
  <2> QED BY <2>1, <2>2, <2>3
<1>6. Paid'
  <2> SUFFICES ASSUME NEW s \in Session, paid[s] # None
               PROVE  Gone(paid[s])' /\ \A g \in Flow : pc'[g] = "promote" => Spent(g)' # paid[s]
    BY DEF IInv, Paid
  <2>1. paid[s] \in Payment /\ Gone(paid[s])
    BY <1>3
  <2>2. \A g \in Flow : pc'[g] = "promote" => Spent(g)' # paid[s]
    BY <1>2, <2>1 DEF IInv, Paid
  <2>3. Gone(paid[s])'
    BY <2>1 DEF Gone
  <2> QED BY <2>2, <2>3
<1> QED BY <1>4, <1>5, <1>6 DEF Paying

\* A verification that spends moves on, and holds what it held.
LEMMA Spends ==
    ASSUME IInv, NEW f \in Flow, At(f, "spend"), my' = my, kind' = kind, dead' = dead,
           Goto(f, "promote") \/ Goto(f, "fail")
    PROVE  /\ Moves(f) /\ Request(f)' /\ Spent(f)' = Spent(f)
           /\ Requests' /\ \A g \in Flow : g # f => Spent(g)' = Spent(g)
           /\ LockExclusive' /\ \A g \in Flow : Holds(g)' <=> Holds(g)
           /\ \A g \in Flow : Holds(g) => (pc'[g] = "commit" <=> pc[g] = "commit")
           /\ Spent(f) \in Payment
<1>1. Moves(f) /\ pc'[f] \in {"promote", "fail"}
  BY DEF IInv, TypeOK, Goto, Moves, Steps
<1>2. Request(f)'
  BY <1>1 DEF IInv, Requests, Request, At
<1>3. ~Holds(f) /\ ~Holds(f)' /\ \A g \in Flow : Holds(g) => (pc'[g] = "commit" <=> pc[g] = "commit")
  BY <1>1 DEF Holds, At, Moves
<1>4. LockExclusive' /\ \A g \in Flow : Holds(g)' <=> Holds(g)
  BY <1>1, <1>3, LockMoves DEF IInv, Moves, Holds
<1>5. Spent(f)' = Spent(f)
  BY DEF Spent
<1>6. Spent(f) \in Payment
  BY SpentShape DEF IInv, At
<1> QED BY <1>1, <1>2, <1>3, <1>4, <1>5, <1>6, OthersKnow DEF IInv

\* A step is spent once, over an older one, and no confirmation is under way.
LEMMA SpendTotpStep ==
    ASSUME IInv, NEW f \in Flow, SpendTotp(f)
    PROVE  IInv'
<1>1. /\ Moves(f) /\ Request(f)' /\ Spent(f)' = Spent(f)
      /\ Requests' /\ \A g \in Flow : g # f => Spent(g)' = Spent(g)
      /\ LockExclusive' /\ \A g \in Flow : Holds(g)' <=> Holds(g)
      /\ \A g \in Flow : Holds(g) => (pc'[g] = "commit" <=> pc[g] = "commit")
      /\ Spent(f) \in Payment
  BY Spends DEF SpendTotp, sessions
<1>2. CASE ~ReplaySpendWhere(f)
  <2>1. pc'[f] = "fail"
    BY <1>2 DEF SpendTotp, Goto, IInv, TypeOK
  <2> QED BY <1>1, <1>2, <2>1, QuietStep DEF SpendTotp, At, Holds, mfa
<1>3. CASE ReplaySpendWhere(f)
  <2>1. /\ my[f].factor \in Factor /\ my[f].step \in Int
        /\ Spent(f)[1] = "totp" /\ Spent(f)[2] = my[f].factor.id /\ Spent(f)[3] = my[f].step
    BY SpentShape DEF IInv, SpendTotp, At
  <2>2. /\ factor \in Factor /\ factor # None /\ factor.confirmed
        /\ factor.id = my[f].factor.id /\ factor.last < my[f].step
    BY <1>3 DEF IInv, TypeOK, ReplaySpendWhere, Confirmed
  <2>3. factor' = [factor EXCEPT !.last = my[f].step]
    BY <1>3 DEF SpendTotp
  <2>4. /\ factor' \in Factor /\ factor'.id = factor.id /\ factor'.confirmed
        /\ factor'.last = my[f].step
    BY <2>1, <2>2, <2>3 DEF Factor
  <2> HIDE <2>3
  <2>5. UNCHANGED <<kind, now, codes, drawn, row, failures, paid, my, dead>> /\ At(f, "spend")
    BY DEF SpendTotp, sessions
  <2>6. TypeOK'
    BY <1>1, <2>4, <2>5 DEF IInv, TypeOK, Moves
  <2>7. \A g \in Flow : Holds(g) /\ pc[g] = "commit" => kind[g] \notin {"confirm", "disable"}
    BY DEF SpendTotp, FactorIsWritten, Holds, At
  <2>8. Decided'
    BY <1>1, <2>2, <2>5, <2>7 DEF IInv, Decided, Stands, Confirmed
  <2>9. Drawn'
    BY <2>1, <2>2, <2>4, <2>5 DEF IInv, Drawn, Factor, NEVER_ACCEPTED_STEP
  <2>10. ASSUME NEW p \in Payment, Gone(p) PROVE Gone(p)' /\ p # Spent(f)
    <3>1. p[3] \in Int
      BY DEF Payment
    <3>2. factor.last \in Int /\ factor'.last \in Int
      BY <2>2, <2>4 DEF Factor
    <3>3. p[1] = "totp" /\ p[2] = factor.id => p[3] <= factor.last
      BY <2>2, <2>10 DEF Gone
    <3>4. p # Spent(f)
      BY <2>1, <2>2, <3>1, <3>2, <3>3
    <3>5. p[1] = "totp" /\ p[2] = factor.id => p[3] <= factor'.last
      BY <2>1, <2>2, <2>4, <3>1, <3>2, <3>3
    <3>6. Gone(p)'
      BY <2>4, <2>5, <2>10, <3>5 DEF Gone
    <3> QED BY <3>4, <3>6
  <2>11. Gone(Spent(f))'
    <3>1. Spent(f)[2] <= drawn
      BY <2>1, <2>2 DEF IInv, Drawn
    <3>2. Spent(f)[3] <= factor'.last
      BY <2>1, <2>4
    <3> QED BY <1>1, <2>1, <2>5, <3>1, <3>2 DEF Gone
  <2>12. Paying' /\ Paid'
    BY <1>1, <2>5, <2>10, <2>11, PaymentsStand DEF At
  <2>13. PromotionsArePaid' /\ OneSetOfCodes'
    BY <2>5 DEF IInv, PromotionsArePaid, OneSetOfCodes
  <2>14. LockedOutSessionsGo'
    BY <1>1, <2>5 DEF IInv, LockedOutSessionsGo, Moves, At
  <2> QED BY <1>1, <2>6, <2>8, <2>9, <2>12, <2>13, <2>14 DEF IInv
<1> QED BY <1>2, <1>3

\* A code is spent once: the row it deletes is no longer there.
LEMMA SpendRecoveryStep ==
    ASSUME IInv, NEW f \in Flow, SpendRecovery(f)
    PROVE  IInv'
<1>1. /\ Moves(f) /\ Request(f)' /\ Spent(f)' = Spent(f)
      /\ Requests' /\ \A g \in Flow : g # f => Spent(g)' = Spent(g)
      /\ LockExclusive' /\ \A g \in Flow : Holds(g)' <=> Holds(g)
      /\ \A g \in Flow : Holds(g) => (pc'[g] = "commit" <=> pc[g] = "commit")
      /\ Spent(f) \in Payment
  BY Spends DEF SpendRecovery, sessions
<1>2. CASE ~Unused(my[f].code)
  <2>1. pc'[f] = "fail"
    BY <1>2 DEF SpendRecovery, Goto, IInv, TypeOK
  <2> QED BY <1>1, <1>2, <2>1, QuietStep DEF SpendRecovery, At, Holds, mfa
<1>3. CASE Unused(my[f].code)
  <2> DEFINE c == my[f].code
  <2>1. /\ c \in Code /\ c \in codes
        /\ Spent(f)[1] = "code" /\ Spent(f)[2] = c.set /\ Spent(f)[3] = c.n
    BY <1>3, SpentShape DEF IInv, SpendRecovery, At, Unused
  <2>2. codes' = codes \ {c}
    BY <1>3 DEF SpendRecovery
  <2>3. UNCHANGED <<kind, now, factor, drawn, row, failures, paid, my, dead>> /\ At(f, "spend")
    BY DEF SpendRecovery, sessions
  <2> HIDE DEF c
  <2>4. TypeOK'
    BY <1>1, <2>2, <2>3 DEF IInv, TypeOK, Moves
  <2>5. Decided'
    BY <1>1, <2>2, <2>3 DEF IInv, Decided, Stands, Confirmed
  <2>6. Drawn'
    BY <2>2, <2>3 DEF IInv, Drawn
  <2>7. ASSUME NEW p \in Payment, Gone(p) PROVE Gone(p)' /\ p # Spent(f)
    <3>1. p # Spent(f)
      BY <2>1, <2>7 DEF Gone
    <3> QED BY <2>2, <2>3, <2>7, <3>1 DEF Gone
  <2>8. Gone(Spent(f))'
    <3>1. Spent(f)[2] <= drawn
      BY <2>1 DEF IInv, Drawn
    <3>2. \A d \in codes' : ~(d.set = c.set /\ d.n = c.n)
      BY <2>1, <2>2 DEF IInv, TypeOK, Code
    <3> QED BY <1>1, <2>1, <2>3, <3>1, <3>2 DEF Gone
  <2>9. Paying' /\ Paid'
    BY <1>1, <2>3, <2>7, <2>8, PaymentsStand DEF At
  <2>10. PromotionsArePaid' /\ OneSetOfCodes'
    BY <2>2, <2>3 DEF IInv, PromotionsArePaid, OneSetOfCodes
  <2>11. LockedOutSessionsGo'
    BY <1>1, <2>3 DEF IInv, LockedOutSessionsGo, Moves, At
  <2> QED BY <1>1, <2>4, <2>5, <2>6, <2>9, <2>10, <2>11 DEF IInv
<1> QED BY <1>2, <1>3

-----------------------------------------------------------------------------
(* The end of a verification. *)

\* A verification that ends or fails leaves the locks and the tables of the
\* factor as they are.
LEMMA Leaves ==
    ASSUME IInv, NEW f \in Flow, Moves(f), Request(f)', pc[f] \in {"promote", "fail", "revoke"},
           pc'[f] \in {"done", "revoke"}, UNCHANGED <<kind, now, factor, codes, drawn, dead>>
    PROVE  /\ LockExclusive' /\ Requests' /\ Decided' /\ Drawn' /\ OneSetOfCodes' /\ Paying'
           /\ \A g \in Flow : g # f => Spent(g)' = Spent(g)
           /\ \A p : Gone(p)' <=> Gone(p)
<1>1. ~Holds(f)' /\ LockExclusive'
  BY LockMoves DEF IInv, Holds
<1>2. Requests' /\ \A g \in Flow : g # f => Spent(g)' = Spent(g)
  BY OthersKnow DEF IInv
<1>3. \A g \in Flow : g # f => (Holds(g)' <=> Holds(g)) /\ (Stands(g)' <=> Stands(g))
  BY DEF Moves, Holds, Stands, Confirmed
<1>4. Decided'
  BY <1>1, <1>3 DEF IInv, Decided, Moves
<1>5. Drawn' /\ OneSetOfCodes'
  BY DEF IInv, Drawn, OneSetOfCodes
<1>6. \A p : Gone(p)' <=> Gone(p)
  BY DEF Gone
<1>7. \A g \in Flow : pc'[g] = "promote" => g # f /\ pc[g] = "promote"
  BY DEF Moves
<1>8. Paying'
  BY <1>2, <1>6, <1>7 DEF IInv, Paying
<1> QED BY <1>1, <1>2, <1>4, <1>5, <1>6, <1>8

\* A promotion is paid with what its request has spent.
LEMMA PromoteStep ==
    ASSUME IInv, NEW f \in Flow, Promote(f)
    PROVE  IInv'
<1> DEFINE s == my[f].session
<1>1. /\ pc[f] = "promote" /\ Finish(f)
      /\ UNCHANGED <<kind, now, factor, codes, drawn, failures, dead>>
  BY DEF Promote, At, mfa
<1>2. Moves(f) /\ Request(f)' /\ pc'[f] = "done"
  BY <1>1, Answered
<1>3. /\ LockExclusive' /\ Requests' /\ Decided' /\ Drawn' /\ OneSetOfCodes' /\ Paying'
      /\ \A g \in Flow : g # f => Spent(g)' = Spent(g)
      /\ \A p : Gone(p)' <=> Gone(p)
  BY <1>1, <1>2, Leaves
<1>4. Spent(f) \in Payment /\ Spent(f) # None
  BY <1>1, SpentShape DEF IInv
<1>5. \A g \in Flow : pc'[g] = "promote" => g # f /\ pc[g] = "promote" /\ Spent(g)' = Spent(g)
  BY <1>2, <1>3 DEF Moves
<1>6. s \in Session
  BY <1>1 DEF IInv, TypeOK, Local, Requests, Request
<1>7. \/ row' = row /\ paid' = paid
      \/ row' = [row EXCEPT ![s] = "active"] /\ paid' = [paid EXCEPT ![s] = Spent(f)]
  BY DEF Promote
<1>8. row \in [Session -> {"pending", "active", "revoked"}] /\ paid \in [Session -> Payment \cup {None}]
  BY DEF IInv, TypeOK, Paid
<1> HIDE DEF s
<1>9. TypeOK'
  BY <1>1, <1>2, <1>6, <1>7, <1>8 DEF IInv, TypeOK, Moves
<1>10. Gone(Spent(f)) /\ \A g \in Flow : g # f /\ pc[g] = "promote" => Spent(g) # Spent(f)
  BY <1>1 DEF IInv, Paying
<1>11. Paid'
  BY <1>3, <1>4, <1>5, <1>6, <1>7, <1>8, <1>10 DEF IInv, Paid
<1>12. PromotionsArePaid'
  BY <1>1, <1>4, <1>6, <1>7, <1>8 DEF IInv, PromotionsArePaid, Paid
<1>13. LockedOutSessionsGo'
  BY <1>1, <1>2, <1>6, <1>7, <1>8 DEF IInv, LockedOutSessionsGo, Moves
<1> QED BY <1>3, <1>9, <1>11, <1>12, <1>13 DEF IInv

\* The failure that makes the limit is followed by its own revocation.
LEMMA FailStep ==
    ASSUME IInv, NEW f \in Flow, Fail(f)
    PROVE  IInv'
<1> DEFINE s == my[f].session
<1>1. /\ pc[f] = "fail" /\ failures' = [failures EXCEPT ![s] = @ + 1]
      /\ UNCHANGED <<kind, now, factor, codes, drawn, row, paid, dead>>
  BY DEF Fail, At, mfa
<1>2. s \in Session /\ failures \in [Session -> Nat]
  BY <1>1 DEF IInv, TypeOK, Local, Requests, Request
<1>3. \/ failures[s] + 1 = MFA_ATTEMPT_LIMIT /\ Goto(f, "revoke") /\ my' = my
      \/ failures[s] + 1 # MFA_ATTEMPT_LIMIT /\ Finish(f)
  BY DEF Fail, CountedWithItsOwn
<1>4. Moves(f) /\ Request(f)' /\ pc'[f] \in {"done", "revoke"}
  <2>1. CASE Finish(f)
    BY <1>1, <2>1, Answered
  <2>2. CASE Goto(f, "revoke") /\ my' = my
    <3>1. Moves(f) /\ pc'[f] = "revoke"
      BY <1>1, <2>2 DEF IInv, TypeOK, Goto, Moves, Steps
    <3> QED BY <1>1, <2>2, <3>1 DEF IInv, Requests, Request
  <2> QED BY <1>3, <2>1, <2>2
<1>5. /\ LockExclusive' /\ Requests' /\ Decided' /\ Drawn' /\ OneSetOfCodes' /\ Paying'
      /\ \A g \in Flow : g # f => Spent(g)' = Spent(g)
      /\ \A p : Gone(p)' <=> Gone(p)
  BY <1>1, <1>4, Leaves
<1>6. failures[s] + 1 = MFA_ATTEMPT_LIMIT => pc'[f] = "revoke" /\ my'[f].session = s
  BY <1>3 DEF Goto, IInv, TypeOK
<1> HIDE DEF s
<1>7. TypeOK'
  BY <1>1, <1>2, <1>4 DEF IInv, TypeOK, Moves
<1>8. \A g \in Flow : pc'[g] = "promote" => g # f /\ pc[g] = "promote"
  BY <1>4 DEF Moves
<1>9. Paid' /\ PromotionsArePaid'
  BY <1>1, <1>5, <1>8 DEF IInv, Paid, PromotionsArePaid
<1>10. LockedOutSessionsGo'
  <2> SUFFICES ASSUME NEW t \in Session, row[t] = "pending", failures'[t] >= MFA_ATTEMPT_LIMIT
               PROVE  \E g \in Flow : pc'[g] = "revoke" /\ my'[g].session = t
    BY <1>1 DEF LockedOutSessionsGo
  <2>1. CASE failures[t] >= MFA_ATTEMPT_LIMIT
    BY <1>1, <1>4, <2>1 DEF IInv, LockedOutSessionsGo, Moves
  <2>2. CASE ~(failures[t] >= MFA_ATTEMPT_LIMIT)
    <3>1. t = s /\ failures[s] + 1 = MFA_ATTEMPT_LIMIT
      BY <1>1, <1>2, <2>2, BoundsAssumption
    <3> QED BY <1>6, <3>1
  <2> QED BY <2>1, <2>2
<1> QED BY <1>5, <1>7, <1>9, <1>10 DEF IInv

\* The revocation that the limit owes spares a session promoted meanwhile.
LEMMA RevokeStep ==
    ASSUME IInv, NEW f \in Flow, Revoke(f)
    PROVE  IInv'
<1> DEFINE s == my[f].session
<1>1. /\ pc[f] = "revoke" /\ Finish(f) /\ row' = [row EXCEPT ![s] = IF @ = "pending" THEN "revoked" ELSE @]
      /\ UNCHANGED <<kind, now, factor, codes, drawn, failures, paid, dead>>
  BY DEF Revoke, At, mfa
<1>2. s \in Session /\ row \in [Session -> {"pending", "active", "revoked"}]
  BY <1>1 DEF IInv, TypeOK, Local, Requests, Request
<1>3. Moves(f) /\ Request(f)' /\ pc'[f] = "done"
  BY <1>1, Answered
<1>4. /\ LockExclusive' /\ Requests' /\ Decided' /\ Drawn' /\ OneSetOfCodes' /\ Paying'
      /\ \A g \in Flow : g # f => Spent(g)' = Spent(g)
      /\ \A p : Gone(p)' <=> Gone(p)
  BY <1>1, <1>3, Leaves
<1>5. \A t \in Session : /\ row'[t] \in {"pending", "active", "revoked"}
                         /\ row'[t] = "active" => row[t] = "active"
                         /\ row'[t] = "pending" => t # s /\ row[t] = "pending"
  BY <1>1, <1>2
<1>6. row' \in [Session -> {"pending", "active", "revoked"}]
  BY <1>1, <1>2
<1>7. TypeOK'
  BY <1>1, <1>3, <1>6 DEF IInv, TypeOK, Moves
<1>8. \A g \in Flow : pc'[g] = "promote" => g # f /\ pc[g] = "promote"
  BY <1>3 DEF Moves
<1>9. Paid' /\ PromotionsArePaid'
  BY <1>1, <1>4, <1>5, <1>8 DEF IInv, Paid, PromotionsArePaid
<1>10. LockedOutSessionsGo'
  <2> SUFFICES ASSUME NEW t \in Session, row'[t] = "pending", failures[t] >= MFA_ATTEMPT_LIMIT
               PROVE  \E g \in Flow : pc'[g] = "revoke" /\ my'[g].session = t
    BY <1>1 DEF LockedOutSessionsGo
  <2>1. PICK g \in Flow : pc[g] = "revoke" /\ my[g].session = t
    BY <1>5 DEF IInv, LockedOutSessionsGo
  <2>2. g # f
    BY <1>5, <2>1
  <2> QED BY <1>3, <2>1, <2>2 DEF Moves
<1> QED BY <1>4, <1>7, <1>9, <1>10 DEF IInv

-----------------------------------------------------------------------------
(* Enrolment's commits. *)

\* What the four transactions make of the factor: theirs is new, or the one
\* there was, with a later step if it changed.
LEMMA FactorAfterShape ==
    ASSUME IInv, NEW f \in Flow, At(f, "commit")
    PROVE  /\ FactorAfter(f) \in Factor \cup {None}
           /\ FactorAfter(f) # None =>
                /\ \/ FactorAfter(f).id = drawn + 1
                   \/ FactorAfter(f) = factor
                   \/ /\ factor # None /\ FactorAfter(f).id = factor.id
                      /\ FactorAfter(f).confirmed /\ FactorAfter(f).last > factor.last
                /\ FactorAfter(f).last >= NEVER_ACCEPTED_STEP
                /\ ~FactorAfter(f).confirmed => FactorAfter(f).last = NEVER_ACCEPTED_STEP
<1> DEFINE h == my[f].factor
<1>1. /\ drawn \in Nat /\ factor \in Factor \cup {None} /\ my[f] \in Local
      /\ kind[f] \in Kinds \ Verifications /\ Stands(f) /\ Request(f) /\ pc[f] = "commit"
  <2>1. kind[f] \in Kinds
    BY RacesAssumption DEF IInv, TypeOK
  <2> QED BY <2>1 DEF IInv, TypeOK, At, Requests, Request, Decided, Holds
<1>2. factor # None => factor.last >= NEVER_ACCEPTED_STEP
                       /\ (~factor.confirmed => factor.last = NEVER_ACCEPTED_STEP)
  BY DEF IInv, Drawn
<1>3. CASE kind[f] = "enroll"
  <2>1. FactorAfter(f) = [id |-> drawn + 1, confirmed |-> FALSE, last |-> NEVER_ACCEPTED_STEP]
    BY <1>3 DEF FactorAfter
  <2> QED BY <1>1, <2>1 DEF Factor, NEVER_ACCEPTED_STEP
<1>4. CASE kind[f] = "confirm"
  <2>1. /\ h \in Factor /\ my[f].step \in Int /\ my[f].step > NEVER_ACCEPTED_STEP
        /\ factor \in Factor /\ factor # None /\ ~factor.confirmed /\ factor.id = h.id
    BY <1>1, <1>4 DEF Request, Stands, Local
  <2>2. FactorAfter(f) = [h EXCEPT !.confirmed = TRUE, !.last = my[f].step]
    BY <1>4 DEF FactorAfter
  <2> HIDE DEF h
  <2>3. FactorAfter(f) \in Factor /\ FactorAfter(f).id = h.id /\ FactorAfter(f).confirmed
        /\ FactorAfter(f).last = my[f].step
    BY <2>1, <2>2 DEF Factor
  <2>4. factor.last = NEVER_ACCEPTED_STEP
    BY <1>2, <2>1
  <2> QED BY <2>1, <2>3, <2>4 DEF NEVER_ACCEPTED_STEP
<1>5. CASE kind[f] = "disable"
  <2>1. FactorAfter(f) = None
    BY <1>5 DEF FactorAfter
  <2> QED BY <2>1
<1>6. CASE kind[f] = "regenerate"
  <2>1. FactorAfter(f) = factor
    BY <1>6 DEF FactorAfter
  <2> QED BY <1>1, <1>2, <2>1
<1> QED BY <1>1, <1>3, <1>4, <1>5, <1>6 DEF Kinds, Verifications

\* A commit adds no code to those there are, or leaves at most a set of its own, and
\* meets no confirmed factor it would double.
LEMMA CommitShape ==
    ASSUME IInv, NEW f \in Flow, Commit(f)
    PROVE  /\ factor' = FactorAfter(f) /\ drawn' = drawn + 1 /\ Finish(f)
           /\ codes' \subseteq codes \/ codes' \subseteq NewSet(drawn + 1)
<1>1. Stands(f) /\ kind[f] \in Kinds \ Verifications
  <2>1. kind[f] \in Kinds
    BY RacesAssumption DEF IInv, TypeOK
  <2> QED BY <2>1 DEF IInv, Commit, At, Requests, Request, Decided, Holds
<1>2. ~(kind[f] = "enroll" /\ Confirmed(factor))
  BY <1>1 DEF Stands
<1>3. /\ factor' = FactorAfter(f) /\ drawn' = drawn + 1 /\ Finish(f)
      /\ codes' = CodesKept(f) \cup (IF IssuesCodes(f) THEN NewSet(drawn + 1) ELSE {})
  BY <1>2 DEF Commit
<1>4. CASE kind[f] = "enroll"
  <2>1. ~IssuesCodes(f)
    BY <1>4 DEF IssuesCodes
  <2>2. codes' \subseteq codes
    BY <1>3, <2>1 DEF CodesKept
  <2> QED BY <1>3, <2>2
<1>5. CASE kind[f] # "enroll"
  <2>1. codes \subseteq my[f].matched
    BY <1>1, <1>5 DEF Stands
  <2> QED BY <1>3, <2>1 DEF CodesKept
<1> QED BY <1>3, <1>4, <1>5

\* A commit leaves what was spent gone, whatever it makes of the factor.
LEMMA CommitStep ==
    ASSUME IInv, NEW f \in Flow, Commit(f)
    PROVE  IInv'
<1> DEFINE after == FactorAfter(f)
<1>1. /\ factor' = after /\ drawn' = drawn + 1 /\ Finish(f)
      /\ codes' \subseteq codes \/ codes' \subseteq NewSet(drawn + 1)
  BY CommitShape
<1>2. At(f, "commit") /\ UNCHANGED <<kind, now, row, failures, paid, dead>>
  BY DEF Commit, sessions
<1>3. /\ after \in Factor \cup {None}
      /\ after # None =>
           /\ \/ after.id = drawn + 1
              \/ after = factor
              \/ factor # None /\ after.id = factor.id /\ after.confirmed /\ after.last > factor.last
           /\ after.last >= NEVER_ACCEPTED_STEP
           /\ ~after.confirmed => after.last = NEVER_ACCEPTED_STEP
  BY <1>2, FactorAfterShape
<1> HIDE DEF after
<1>4. /\ drawn \in Nat /\ factor \in Factor \cup {None} /\ codes \subseteq Code
      /\ factor # None => factor.id <= drawn
      /\ \A c \in codes : c.set <= drawn
  BY DEF IInv, TypeOK, Drawn
<1>5. /\ NewSet(drawn + 1) \subseteq Code
      /\ \A c \in NewSet(drawn + 1) : c.set = drawn + 1
  BY <1>4, NewSetShape
<1>6. codes' \subseteq Code
  BY <1>1, <1>4, <1>5
<1>7. Moves(f) /\ Request(f)' /\ pc'[f] = "done"
  BY <1>1, <1>2, Answered
<1>8. TypeOK'
  BY <1>1, <1>2, <1>3, <1>4, <1>6, <1>7 DEF IInv, TypeOK, Moves
<1>9. LockExclusive' /\ Requests' /\ \A g \in Flow : g # f => Spent(g)' = Spent(g)
  BY <1>2, <1>7, LockMoves, OthersKnow DEF IInv, Holds
<1>10. Decided'
  <2>1. \A g \in Flow : g # f => ~Holds(g)'
    BY <1>2, <1>7 DEF IInv, LockExclusive, Holds, At, Moves
  <2> QED BY <1>7, <2>1 DEF Decided
<1>11. Drawn'
  <2>1. after # None => after.id <= drawn + 1
    BY <1>3, <1>4 DEF Factor
  <2>2. \A c \in codes' : c.set <= drawn + 1
    BY <1>1, <1>4, <1>5 DEF Code
  <2> QED BY <1>1, <1>3, <2>1, <2>2 DEF Drawn
<1>12. ASSUME NEW p \in Payment, Gone(p) PROVE Gone(p)'
  <2>1. p[2] \in Nat /\ p[3] \in Int /\ p[2] <= drawn
    BY <1>12 DEF Payment, Gone
  <2>2. p[1] = "totp" /\ after # None /\ after.id = p[2] => p[3] <= after.last
    <3> SUFFICES ASSUME p[1] = "totp", after # None, after.id = p[2] PROVE p[3] <= after.last
      OBVIOUS
    <3>1. after.id # drawn + 1
      BY <1>4, <2>1
    <3>2. factor # None /\ factor.id = p[2] /\ (after = factor \/ after.last > factor.last)
      BY <1>3, <3>1
    <3>3. p[3] <= factor.last
      BY <1>12, <3>2 DEF Gone
    <3>4. after.last \in Int /\ factor.last \in Int
      BY <1>3, <1>4, <3>2 DEF Factor
    <3> QED BY <2>1, <3>2, <3>3, <3>4
  <2>3. p[1] = "code" => \A c \in codes' : ~(c.set = p[2] /\ c.n = p[3])
    <3>1. CASE codes' \subseteq codes
      BY <1>12, <3>1 DEF Gone
    <3>2. CASE codes' \subseteq NewSet(drawn + 1)
      BY <1>4, <1>5, <2>1, <3>2
    <3> QED BY <1>1, <3>1, <3>2
  <2>4. p[2] <= drawn'
    BY <1>1, <1>4, <2>1
  <2> QED BY <1>1, <2>2, <2>3, <2>4 DEF Gone
<1>13. Paying' /\ Paid'
  BY <1>2, <1>7, <1>9, <1>12, PaymentsStand
<1>14. PromotionsArePaid'
  BY <1>2 DEF IInv, PromotionsArePaid
<1>15. OneSetOfCodes'
  BY <1>1, <1>5 DEF IInv, OneSetOfCodes
<1>16. LockedOutSessionsGo'
  BY <1>2, <1>7 DEF IInv, LockedOutSessionsGo, Moves, At
<1> QED BY <1>8, <1>9, <1>10, <1>11, <1>13, <1>14, <1>15, <1>16 DEF IInv

-----------------------------------------------------------------------------
(* The environment, and the next-state relation. *)

\* A process that dies gives the lock up, and leaves its tables as they are.
LEMMA DieStep ==
    ASSUME IInv, NEW f \in Flow, Die(f)
    PROVE  IInv'
<1>1. UNCHANGED <<kind, now, factor, codes, drawn, row, failures, paid, pc, my>> /\ dead' = dead \cup {f}
  BY DEF Die, mfa, sessions
<1>2. TypeOK'
  BY <1>1 DEF IInv, TypeOK
<1>3. LockExclusive' /\ Requests' /\ Decided'
  BY <1>1 DEF IInv, LockExclusive, Holds, Requests, Request, Decided, Stands, Confirmed
<1>4. Drawn' /\ PromotionsArePaid' /\ OneSetOfCodes' /\ LockedOutSessionsGo'
  BY <1>1 DEF IInv, Drawn, PromotionsArePaid, OneSetOfCodes, LockedOutSessionsGo
<1>5. (\A p : Gone(p)' <=> Gone(p)) /\ (\A g \in Flow : Spent(g)' = Spent(g))
  BY <1>1 DEF Gone, Spent
<1>6. Paying' /\ Paid'
  BY <1>1, <1>5 DEF IInv, Paying, Paid
<1> QED BY <1>2, <1>3, <1>4, <1>6 DEF IInv

\* The clock, and a step that changes nothing.
LEMMA IdleStep ==
    ASSUME IInv, UNCHANGED <<kind, mfa, sessions, pc, my, dead>>, now' \in Nat
    PROVE  IInv'
<1>1. UNCHANGED <<kind, factor, codes, drawn, row, failures, paid, pc, my, dead>>
  BY DEF mfa, sessions
<1>2. TypeOK'
  BY <1>1 DEF IInv, TypeOK
<1>3. LockExclusive' /\ Requests' /\ Decided'
  BY <1>1 DEF IInv, LockExclusive, Holds, Requests, Request, Decided, Stands, Confirmed
<1>4. Drawn' /\ PromotionsArePaid' /\ OneSetOfCodes' /\ LockedOutSessionsGo'
  BY <1>1 DEF IInv, Drawn, PromotionsArePaid, OneSetOfCodes, LockedOutSessionsGo
<1>5. (\A p : Gone(p)' <=> Gone(p)) /\ (\A g \in Flow : Spent(g)' = Spent(g))
  BY <1>1 DEF Gone, Spent
<1>6. Paying' /\ Paid'
  BY <1>1, <1>5 DEF IInv, Paying, Paid
<1> QED BY <1>2, <1>3, <1>4, <1>6 DEF IInv

\* Every step keeps the invariant.
LEMMA NextIInv == IInv /\ [Next]_vars => IInv'
<1> SUFFICES ASSUME IInv, [Next]_vars PROVE IInv'
  OBVIOUS
<1>1. ASSUME NEW f \in Flow, Step(f) PROVE IInv'
  BY <1>1, ReadTotpStep, ReadRecoveryStep, ReadNothingStep, SpendTotpStep, SpendRecoveryStep,
     PromoteStep, FailStep, RevokeStep, LockStep, DecideStep, CommitStep DEF Step
<1>2. ASSUME NEW f \in Flow, Die(f) PROVE IInv'
  BY <1>2, DieStep
<1>3. ASSUME NEW f \in Flow, NEW s \in Session, VerifyStart(f, s) PROVE IInv'
  BY <1>3, StartStep
<1>4. ASSUME NEW f \in Flow, NEW step \in now - 1 .. now + 1, EnrolmentStart(f, step) PROVE IInv'
  BY <1>4, EnrolmentStartStep
<1>5. CASE Tick
  <2>1. now' \in Nat
    BY <1>5 DEF Tick, IInv, TypeOK
  <2> QED BY <1>5, <2>1, IdleStep DEF Tick
<1>6. CASE UNCHANGED vars
  <2>1. now' \in Nat /\ UNCHANGED <<kind, mfa, sessions, pc, my, dead>>
    BY <1>6 DEF vars, mfa, sessions, IInv, TypeOK
  <2> QED BY <2>1, IdleStep
<1> QED BY <1>1, <1>2, <1>3, <1>4, <1>5, <1>6 DEF Next

\* A step of the protocol moves a factor's last accepted step forward.
LEMMA StepsRise ==
    ASSUME IInv, [Next]_vars
    PROVE  factor # None /\ factor' # None /\ factor'.id = factor.id /\ factor' # factor
             => factor'.last > factor.last
<1> SUFFICES ASSUME factor # None, factor' # None, factor'.id = factor.id, factor' # factor
             PROVE  factor'.last > factor.last
  OBVIOUS
<1>1. factor \in Factor /\ drawn \in Nat /\ factor.id <= drawn
  BY DEF IInv, TypeOK, Drawn
<1>2. PICK f \in Flow : SpendTotp(f) \/ Commit(f)
  BY DEF Next, Step, vars, mfa, Die, Tick, VerifyStart, EnrolmentStart, ReadTotp, ReadRecovery,
         ReadNothing, SpendRecovery, Promote, Fail, Revoke, Lock, Decide
<1>3. CASE SpendTotp(f)
  <2>1. ReplaySpendWhere(f) /\ factor' = [factor EXCEPT !.last = my[f].step]
    BY <1>3 DEF SpendTotp
  <2>2. factor'.last = my[f].step
    BY <1>1, <2>1 DEF Factor
  <2>3. my[f].step \in Int
    BY <1>3, SpentShape DEF IInv, SpendTotp, At
  <2> QED BY <1>1, <2>1, <2>2, <2>3 DEF ReplaySpendWhere, Factor
<1>4. CASE Commit(f)
  <2>1. factor' = FactorAfter(f) /\ At(f, "commit")
    BY <1>4, CommitShape DEF Commit
  <2>2. factor'.id # drawn + 1
    BY <1>1 DEF Factor
  <2> QED BY <2>1, <2>2, FactorAfterShape
<1> QED BY <1>2, <1>3, <1>4

-----------------------------------------------------------------------------
\* The invariant holds in every reachable state.
THEOREM Invariant == Spec => []IInv
BY InitIInv, NextIInv, PTL DEF Spec

\* Every table keeps its type and no enrolment meets the unique index on the
\* user's factor, however enrolments race.
THEOREM TypeCorrect == Spec => []TypeOK
<1>1. IInv => TypeOK
  BY DEF IInv
<1> QED BY <1>1, Invariant, PTL

\* No TOTP step and no recovery code promotes two sessions, whatever requests
\* verify, regenerate, remove and confirm at once.
THEOREM PromotionsPaid == Spec => []PromotionsArePaid
<1>1. IInv => PromotionsArePaid
  BY DEF IInv
<1> QED BY <1>1, Invariant, PTL

\* There is one set of recovery codes, whatever requests regenerate at once.
THEOREM OneSet == Spec => []OneSetOfCodes
<1>1. IInv => OneSetOfCodes
  BY DEF IInv
<1> QED BY <1>1, Invariant, PTL

\* A pending session that reached the limit of failures is being revoked,
\* unless the process that would revoke it has died.
THEOREM LockedOutGo == Spec => []LockedOutSessionsGo
<1>1. IInv => LockedOutSessionsGo
  BY DEF IInv
<1> QED BY <1>1, Invariant, PTL

\* A factor accepts its steps in order, across its confirmation too.
THEOREM StepsRiseAlways == Spec => AcceptedStepsRise
<1>1. IInv /\ [Next]_vars =>
        [factor # None /\ factor' # None /\ factor'.id = factor.id /\ factor' # factor
           => factor'.last > factor.last]_vars
  BY StepsRise
<1> QED BY <1>1, Invariant, PTL DEF Spec, AcceptedStepsRise

=============================================================================
