------------------------- MODULE SessionFlowsProofs -------------------------
(***************************************************************************)
(* What holds of the flows for any number of sessions, requests and        *)
(* organisations, and whichever processes die: the three ways a session    *)
(* may outlast the password or the membership it rests on are the only     *)
(* ones, and the sessions form chains, as the SessionTable promises.       *)
(***************************************************************************)
EXTENDS SessionFlows, TLAPS

-----------------------------------------------------------------------------
(* The invariant. *)

\* A bulk revocation that is owed, dead or not, and will find s.
Due(f, s) ==
    \/ pc[f] = "match" /\ s # my[f].old
    \/ pc[f] = "sweep" /\ s \in my[f].matched
Awaited(s) == \E f \in Flow : kind[f] \in {"reset", "change"} /\ Due(f, s)
Departing(s) == \E f \in Flow : kind[f] = "remove" /\ my[f].org = row[s].org /\ Due(f, s)

\* What a request knows at each of its steps.
Request(f) ==
    /\ my[f].old # None => row[my[f].old].state # "absent" /\ row[my[f].old].given
    /\ my[f].new # None => row[my[f].new].state # "absent"
    /\ pc[f] = "ready" => my[f].old = None /\ my[f].new = None
    /\ kind[f] \in {"reset", "remove"} => my[f].old = None
    /\ kind[f] = "promote" /\ my[f].old # None => row[my[f].old].status = "PENDING_MFA"
    /\ kind[f] = "promote" /\ my[f].new # None => my[f].old # None
    /\ pc[f] = "issue" => kind[f] = "login"
    /\ pc[f] = "rotate" => kind[f] \in {"promote", "switch", "change"} /\ my[f].old # None
    /\ pc[f] \in {"recheck", "undo"} =>
         /\ kind[f] \in {"login", "promote", "switch"} /\ my[f].new # None
         /\ ~row[my[f].new].given /\ row[my[f].new].by = kind[f]
         /\ kind[f] = "login" => row[my[f].new].password = my[f].password
         /\ kind[f] = "switch" => row[my[f].new].org = my[f].org
    /\ pc[f] \in {"stamp", "replace"} =>
         kind[f] \in {"reset", "change"} /\ (kind[f] = "change" => my[f].old # None)
    /\ pc[f] = "replace" => my[f].stamp \in 1 .. stamps
    /\ pc[f] \in {"match", "sweep"} => kind[f] \in {"reset", "change", "remove", "others"}
    /\ pc[f] \in {"match", "sweep"} /\ kind[f] = "change" => my[f].old # None
Requests == \A f \in Flow : Request(f)

\* A session is issued by one request.
IssuedOnce == \A f, g \in Flow : my[f].new # None /\ my[f].new = my[g].new => f = g

\* A pending session is of no organisation, and the credential's time is 0 or
\* that of a replacement.
Rows == /\ \A s \in Session : row[s].status = "PENDING_MFA" => row[s].org = None
        /\ cred.updatedAt \in replaced \cup {0}

\* A live session that rests on another password, unless it or an ancestor
\* straddled a sweep, is one a login has yet to look at again or one that a
\* replacement will revoke.
Rests(s) == row[s].password = cred.password
PasswordReaches(s) ==
    Live(s) /\ ~Rests(s) /\ ~row[s].straddled =>
        (row[s].by = "login" /\ ~row[s].given) \/ Awaited(s)

\* One scoped to an organisation that was left is one a switch has yet to look
\* at again, one that the removal will revoke, or one that a change carried.
Left(s) == row[s].org # None /\ ~member[row[s].org]
RemovalReaches(s) ==
    Live(s) /\ Left(s) =>
        \/ row[s].by = "switch" /\ ~row[s].given
        \/ row[s].by = "change" /\ row[s].straddled
        \/ Departing(s)

\* A promoted session that its request has answered, straddling or not, is
\* reached by every replacement but those the timestamps hid.
PromotionReaches(f) ==
    LET s == my[f].new IN
    kind[f] = "promote" /\ s # None /\ Live(s) /\ row[s].given /\ ~Rests(s) =>
        Awaited(s) \/ cred.updatedAt <= row[my[f].old].birth

Reached == /\ \A s \in Session : PasswordReaches(s) /\ RemovalReaches(s)
           /\ \A f \in Flow : PromotionReaches(f)
IInv == TypeOK /\ Requests /\ IssuedOnce /\ Rows /\ Reached

-----------------------------------------------------------------------------
\* What Init and the requests insert is a row.
LEMMA IsARow ==
    ASSUME NEW state \in {"absent", "live", "revoked"}, NEW status \in {"PENDING_MFA", "ACTIVE"},
           NEW o \in Org \cup {None}, NEW p \in Password, NEW n \in Nat,
           NEW g \in BOOLEAN, NEW x \in BOOLEAN, NEW k \in Kinds
    PROVE  [state |-> state, status |-> status, org |-> o, password |-> p,
            birth |-> n, given |-> g, straddled |-> x, by |-> k] \in Row
BY DEF Row

\* Every initial state satisfies the invariant.
LEMMA InitIInv == Init => IInv
<1> SUFFICES ASSUME Init PROVE IInv
  OBVIOUS
<1>1. PICK p \in Password, standing \in SUBSET Standing, org \in [Standing -> Org \cup {None}] :
        /\ cred = [hash |-> 0, password |-> p, updatedAt |-> 0]
        /\ member = [o \in Org |-> TRUE]
        /\ row = [s \in Session |->
                    [state |-> IF s \in standing THEN "live" ELSE "absent",
                     status |-> "ACTIVE", password |-> p, birth |-> 0,
                     org |-> IF s \in standing THEN org[s] ELSE None,
                     given |-> s \in standing, straddled |-> FALSE, by |-> "login"]]
        /\ stamps = 0
        /\ replaced = {}
        /\ pc = [f \in Flow |-> "ready"]
        /\ my = [f \in Flow |-> [old |-> None, new |-> None, org |-> None, hash |-> 0,
                                 password |-> p, stamp |-> 0, matched |-> {}]]
        /\ dead = {}
  BY DEF Init
<1>2. \A s \in Session : row[s] \in Row
  <2> SUFFICES ASSUME NEW s \in Session PROVE row[s] \in Row
    OBVIOUS
  <2> DEFINE state == IF s \in standing THEN "live" ELSE "absent"
             o     == IF s \in standing THEN org[s] ELSE None
             given == s \in standing
  <2>1. row[s] = [state |-> state, status |-> "ACTIVE", org |-> o, password |-> p,
                  birth |-> 0, given |-> given, straddled |-> FALSE, by |-> "login"]
    BY <1>1
  <2>2. state \in {"absent", "live", "revoked"} /\ o \in Org \cup {None} /\ given \in BOOLEAN
    BY StandingAssumption
  <2>3. /\ "login" \in Kinds /\ "ACTIVE" \in {"PENDING_MFA", "ACTIVE"}
        /\ 0 \in Nat /\ FALSE \in BOOLEAN
    BY DEF Kinds
  <2> HIDE DEF state, o, given
  <2>4. [state |-> state, status |-> "ACTIVE", org |-> o, password |-> p,
         birth |-> 0, given |-> given, straddled |-> FALSE, by |-> "login"] \in Row
    BY <2>2, <2>3, IsARow
  <2> QED BY <2>1, <2>4
<1>3. /\ \A f \in Flow : /\ pc[f] = "ready" /\ my[f] \in Local
                         /\ my[f].old = None /\ my[f].new = None
      /\ pc \in [Flow -> Steps] /\ my \in [Flow -> Local]
  BY <1>1 DEF Local, Steps
<1>4. cred \in Credential /\ cred.password = p /\ cred.updatedAt = 0
  BY <1>1 DEF Credential
<1>5. kind \in Races
  BY DEF Init
<1>6. TypeOK
  <2>1. row \in [Session -> Row]
    BY <1>1, <1>2
  <2>2. member \in [Org -> BOOLEAN] /\ stamps \in Nat /\ replaced \subseteq 1 .. stamps /\ dead \subseteq Flow
    BY <1>1
  <2> QED BY <1>3, <1>4, <1>5, <2>1, <2>2 DEF TypeOK
<1>7. Requests /\ IssuedOnce
  BY <1>3 DEF Requests, Request, IssuedOnce
<1>8. \A s \in Session : row[s].password = p /\ row[s].status = "ACTIVE" /\ row[s].org \in Org \cup {None}
  BY <1>1, <1>2 DEF Row
<1>9. Rows
  BY <1>4, <1>8 DEF Rows
<1>10. Reached
  BY <1>1, <1>3, <1>4, <1>8 DEF Reached, PasswordReaches, RemovalReaches, PromotionReaches, Rests, Left
<1> QED BY <1>6, <1>7, <1>9, <1>10 DEF IInv

-----------------------------------------------------------------------------
(* One request moves. *)

Moves(f) ==
    /\ kind' = kind /\ pc' \in [Flow -> Steps] /\ my' \in [Flow -> Local]
    /\ \A g \in Flow : g # f => pc'[g] = pc[g] /\ my'[g] = my[g]

\* What is settled when a row is inserted.
Settled(s) ==
    /\ row'[s].state # "absent"
    /\ row'[s].status = row[s].status /\ row'[s].org = row[s].org
    /\ row'[s].birth = row[s].birth /\ row'[s].straddled = row[s].straddled
    /\ row'[s].by = row[s].by
    /\ row[s].given => row'[s].given
Enduring == \A s \in Session : row[s].state # "absent" => Settled(s)

\* Only its own request touches a session that no client has.
Private(f) ==
    \A s \in Session : row[s].state # "absent" /\ ~row[s].given /\ s # my[f].new =>
        ~row'[s].given /\ row'[s].password = row[s].password

\* The requests that do not move know what they knew.
LEMMA OthersKnow ==
    ASSUME IInv, NEW f \in Flow, Moves(f), Enduring, Private(f),
           stamps' \in Nat, stamps' >= stamps, Request(f)'
    PROVE  Requests'
<1> SUFFICES ASSUME NEW g \in Flow, g # f PROVE Request(g)'
  BY DEF Requests
<1>1. /\ Request(g) /\ my[g] \in Local /\ stamps \in Nat
      /\ pc'[g] = pc[g] /\ my'[g] = my[g] /\ kind' = kind
  BY DEF IInv, TypeOK, Requests, Moves
<1>2. my[g].old # None => /\ my[g].old \in Session /\ row[my[g].old].state # "absent"
                          /\ Settled(my[g].old) /\ row[my[g].old].given
  BY <1>1 DEF Request, Enduring, Local
<1>3. my[g].new # None => /\ my[g].new \in Session /\ row[my[g].new].state # "absent"
                          /\ Settled(my[g].new) /\ my[g].new # my[f].new
  BY <1>1 DEF Request, Enduring, Local, IInv, IssuedOnce
<1>4. my[g].new # None /\ ~row[my[g].new].given =>
        ~row'[my[g].new].given /\ row'[my[g].new].password = row[my[g].new].password
  BY <1>3 DEF Private
<1>5. my[g].stamp \in 1 .. stamps => my[g].stamp \in 1 .. stamps'
  BY <1>1
<1> QED BY <1>1, <1>2, <1>3, <1>4, <1>5 DEF Request, Settled

\* Who issued what, when the one that moves issues at most an absent session.
LEMMA StillIssuedOnce ==
    ASSUME IInv, NEW f \in Flow, Moves(f),
           \/ my'[f].new = my[f].new
           \/ my'[f].new \in Session /\ row[my'[f].new].state = "absent"
    PROVE  IssuedOnce'
<1>1. \A g \in Flow : my[g].new # None => row[my[g].new].state # "absent"
  BY DEF IInv, Requests, Request
<1> QED BY <1>1 DEF IInv, IssuedOnce, Moves

\* The revocations that are owed, when the one that moves does not drop them.
LEMMA StillDue ==
    ASSUME IInv, NEW f \in Flow, Moves(f), NEW s \in Session, row'[s].org = row[s].org,
           Due(f, s) /\ kind[f] \in {"reset", "change"} => Due(f, s)',
           Due(f, s) /\ kind[f] = "remove" /\ my[f].org = row[s].org => Due(f, s)' /\ my'[f].org = my[f].org
    PROVE  /\ Awaited(s) => Awaited(s)'
           /\ Departing(s) => Departing(s)'
<1>1. \A g \in Flow : g # f => (Due(g, s) <=> Due(g, s)') /\ my'[g] = my[g]
  BY DEF Moves, Due
<1>2. kind' = kind
  BY DEF Moves
<1> QED BY <1>1, <1>2 DEF Awaited, Departing

\* A session that lives on, as it was.
Unchanged(s) ==
    /\ Live(s) /\ row'[s].password = row[s].password /\ row'[s].given = row[s].given
    /\ Settled(s)

\* What reached a session reaches it as long as it lives on as it was.
LEMMA StillReaches ==
    ASSUME IInv, NEW s \in Session, cred' = cred, member' = member,
           Live(s)' => /\ Unchanged(s)
                       /\ Awaited(s) => Awaited(s)'
                       /\ Departing(s) => Departing(s)'
    PROVE  PasswordReaches(s)' /\ RemovalReaches(s)'
<1>1. PasswordReaches(s) /\ RemovalReaches(s)
  BY DEF IInv, Reached
<1>2. PasswordReaches(s)'
  BY <1>1 DEF PasswordReaches, Unchanged, Settled, Rests
<1>3. RemovalReaches(s)'
  BY <1>1 DEF RemovalReaches, Unchanged, Settled, Left
<1> QED BY <1>2, <1>3

\* And what reached a promoted one.
LEMMA StillPromoted ==
    ASSUME IInv, NEW g \in Flow, Enduring, cred' = cred, kind'[g] = kind[g],
           my'[g].new = my[g].new,
           my'[g].old = my[g].old \/ my[g].new = None,
           \A s \in Session : s = my[g].new /\ Live(s)' =>
               Unchanged(s) /\ (Awaited(s) => Awaited(s)')
    PROVE  PromotionReaches(g)'
<1> SUFFICES ASSUME kind'[g] = "promote", my'[g].new # None,
                    Live(my[g].new)', row'[my'[g].new].given, ~Rests(my[g].new)'
             PROVE  Awaited(my[g].new)' \/ cred'.updatedAt <= row'[my'[g].old].birth
  BY DEF PromotionReaches
<1>1. my[g].new \in Session
  BY DEF IInv, TypeOK, Local
<1>2. my'[g].old = my[g].old /\ my[g].old # None
  BY DEF IInv, Requests, Request
<1> DEFINE s == my[g].new
<1>3. Live(s)' /\ ~Rests(s)' /\ row'[s].given
  BY DEF Live, Rests
<1>4. Unchanged(s) /\ (Awaited(s) => Awaited(s)')
  <2> HIDE DEF s
  <2> QED BY <1>1, <1>3 DEF s
<1>5. Awaited(s) \/ cred.updatedAt <= row[my[g].old].birth
  BY <1>1, <1>3, <1>4 DEF IInv, Reached, PromotionReaches, Unchanged, Rests
<1>6. my[g].old \in Session /\ row'[my[g].old].birth = row[my[g].old].birth
  BY <1>2 DEF IInv, TypeOK, Local, Requests, Request, Enduring, Settled
<1>7. Awaited(s)' => Awaited(my[g].new)'
  OBVIOUS
<1> QED BY <1>2, <1>4, <1>5, <1>6, <1>7

\* What f owes to the sessions that live on, it still owes.
StillOwes(f) ==
    \A s \in Session : Live(s)' =>
        /\ Due(f, s) /\ kind[f] \in {"reset", "change"} => Due(f, s)'
        /\ Due(f, s) /\ kind[f] = "remove" /\ my[f].org = row[s].org =>
             Due(f, s)' /\ my'[f].org = my[f].org

\* The tables of the password and of the memberships stay as they are.
TablesStand ==
    /\ cred' = cred /\ member' = member /\ replaced' = replaced
    /\ stamps' \in Nat /\ stamps' >= stamps /\ dead' \subseteq Flow

\* A move that issues, answers, replaces and leaves nothing keeps the invariant.
LEMMA Undisturbed ==
    ASSUME IInv, NEW f \in Flow, Moves(f), Enduring, Private(f), TablesStand, Request(f)',
           row' \in [Session -> Row],
           \A s \in Session : Live(s)' => Unchanged(s),
           \A s \in Session : row'[s].status = row[s].status /\ row'[s].org = row[s].org,
           my'[f].new = my[f].new,
           my'[f].old = my[f].old \/ pc[f] = "ready",
           StillOwes(f)
    PROVE  IInv'
<1>1. Requests'
  BY OthersKnow DEF TablesStand
<1>2. IssuedOnce'
  BY StillIssuedOnce
<1>3. TypeOK'
  <2>1. \A g \in Flow : pc'[g] = "rotate" => my'[g].old # None
    BY <1>1 DEF Requests, Request
  <2>2. replaced' \subseteq 1 .. stamps'
    BY DEF IInv, TypeOK, TablesStand
  <2> QED BY <2>1, <2>2 DEF IInv, TypeOK, TablesStand, Moves
<1>4. Rows'
  BY DEF IInv, Rows, TablesStand
<1>5. \A s \in Session : Live(s)' => (Awaited(s) => Awaited(s)') /\ (Departing(s) => Departing(s)')
  <2> SUFFICES ASSUME NEW s \in Session, Live(s)'
               PROVE  (Awaited(s) => Awaited(s)') /\ (Departing(s) => Departing(s)')
    OBVIOUS
  <2>1. /\ Due(f, s) /\ kind[f] \in {"reset", "change"} => Due(f, s)'
        /\ Due(f, s) /\ kind[f] = "remove" /\ my[f].org = row[s].org =>
             Due(f, s)' /\ my'[f].org = my[f].org
    BY DEF StillOwes
  <2> QED BY <2>1, StillDue
<1>6. Reached'
  <2>1. \A s \in Session : PasswordReaches(s)' /\ RemovalReaches(s)'
    BY <1>5, StillReaches DEF TablesStand
  <2>2. ASSUME NEW g \in Flow PROVE PromotionReaches(g)'
    <3>1. my[f].new # None => pc[f] # "ready"
      BY DEF IInv, Requests, Request
    <3>2. /\ my'[g].new = my[g].new /\ kind'[g] = kind[g]
          /\ my'[g].old = my[g].old \/ my[g].new = None
      BY <3>1 DEF Moves
    <3> QED BY <1>5, <3>2, StillPromoted DEF TablesStand
  <2> QED BY <2>1, <2>2 DEF Reached
<1> QED BY <1>1, <1>2, <1>3, <1>4, <1>6 DEF IInv

\* One that leaves every row as it is.
LEMMA Quiet ==
    ASSUME IInv, NEW f \in Flow, Moves(f), row' = row, TablesStand, Request(f)',
           my'[f].new = my[f].new,
           my'[f].old = my[f].old \/ pc[f] = "ready",
           StillOwes(f)
    PROVE  IInv'
<1>1. \A s \in Session : row[s] \in Row
  BY DEF IInv, TypeOK
<1>2. \A s \in Session : Live(s)' => Live(s)
  BY DEF Live
<1>3. Enduring
  BY <1>1 DEF Enduring, Settled
<1>4. \A s \in Session : Live(s)' => Unchanged(s)
  BY <1>2, <1>3 DEF Unchanged, Enduring, Live
<1>5. Private(f) /\ row' \in [Session -> Row]
  BY DEF Private, IInv, TypeOK
<1> QED BY <1>3, <1>4, <1>5, Undisturbed

\* One that revokes some of them.
LEMMA Withdrawn ==
    ASSUME IInv, NEW f \in Flow, Moves(f), NEW S, row' = Revoked(S), TablesStand, Request(f)',
           my'[f].new = my[f].new, my'[f].old = my[f].old,
           StillOwes(f)
    PROVE  IInv'
<1>1. \A s \in Session :
        /\ row[s] \in Row /\ row'[s] \in Row
        /\ row'[s].state = (IF s \in S /\ Live(s) THEN "revoked" ELSE row[s].state)
        /\ row'[s].status = row[s].status /\ row'[s].org = row[s].org
        /\ row'[s].password = row[s].password /\ row'[s].birth = row[s].birth
        /\ row'[s].given = row[s].given /\ row'[s].straddled = row[s].straddled
        /\ row'[s].by = row[s].by
  BY DEF IInv, TypeOK, Revoked, Row
<1>2. \A s \in Session : Live(s)' => Live(s)
  BY <1>1 DEF Live
<1>3. Enduring
  BY <1>1 DEF Enduring, Settled, Live
<1>4. \A s \in Session : Live(s)' => Unchanged(s)
  BY <1>1, <1>2, <1>3 DEF Unchanged, Enduring, Live
<1>5. Private(f)
  BY <1>1 DEF Private
<1>6. row' \in [Session -> Row]
  BY <1>1 DEF Revoked
<1> QED BY <1>1, <1>3, <1>4, <1>5, <1>6, Undisturbed

-----------------------------------------------------------------------------
(* The moves that only read, and the crash. *)

\* What the invariant says of the request that moves.
LEMMA Known ==
    ASSUME IInv, NEW f \in Flow
    PROVE  /\ Request(f) /\ my[f] \in Local /\ pc[f] \in Steps /\ kind[f] \in Kinds
           /\ pc \in [Flow -> Steps] /\ my \in [Flow -> Local]
           /\ stamps \in Nat /\ dead \subseteq Flow /\ cred \in Credential
           /\ \A s \in Session : row[s] \in Row
<1>1. kind \in [Flow -> Kinds]
  BY RacesAssumption DEF IInv, TypeOK
<1> QED BY <1>1 DEF IInv, TypeOK, Requests

\* A login that has verified a password has written nothing.
LEMMA LoginVerifyKeeps == ASSUME IInv, NEW f \in Flow, LoginVerify(f) PROVE IInv'
<1> USE DEF LoginVerify, Begins, At, Goto, tables
<1>1. /\ Request(f) /\ my[f] \in Local /\ my \in [Flow -> Local] /\ pc \in [Flow -> Steps]
      /\ stamps \in Nat /\ dead \subseteq Flow /\ cred.password \in Password
  BY Known DEF Credential
<1>2. /\ my'[f].new = my[f].new /\ my'[f].old = my[f].old /\ pc'[f] = "issue" /\ my'[f] \in Local
  BY <1>1 DEF Local
<1>3. Moves(f)
  BY <1>1, <1>2 DEF Moves, Steps
<1>4. Request(f)'
  BY <1>1, <1>2 DEF Request
<1>5. TablesStand /\ StillOwes(f)
  BY <1>1 DEF TablesStand, StillOwes, Due
<1> QED BY <1>2, <1>3, <1>4, <1>5, Quiet

\* A promotion starts from a pending session its client holds.
LEMMA PromoteStartKeeps ==
    ASSUME IInv, NEW f \in Flow, NEW s \in Session, PromoteStart(f, s) PROVE IInv'
<1> USE DEF PromoteStart, Begins, At, Goto, tables
<1>1. /\ Request(f) /\ my[f] \in Local /\ my \in [Flow -> Local] /\ pc \in [Flow -> Steps]
      /\ stamps \in Nat /\ dead \subseteq Flow
  BY Known
<1>2. /\ my'[f].new = my[f].new /\ my'[f].old = s /\ pc'[f] = "rotate" /\ my'[f] \in Local
  BY <1>1 DEF Local
<1>3. Moves(f)
  BY <1>1, <1>2 DEF Moves, Steps
<1>4. Request(f)'
  BY <1>1, <1>2, NoneAssumption DEF Request, Held, Live
<1>5. TablesStand /\ StillOwes(f)
  BY <1>1 DEF TablesStand, StillOwes, Due
<1> QED BY <1>2, <1>3, <1>4, <1>5, Quiet

\* A switch starts from an active one, and a membership that it has read.
LEMMA SwitchStartKeeps ==
    ASSUME IInv, NEW f \in Flow, NEW s \in Session, NEW o \in Org, SwitchStart(f, s, o) PROVE IInv'
<1> USE DEF SwitchStart, Begins, At, Goto, tables
<1>1. /\ Request(f) /\ my[f] \in Local /\ my \in [Flow -> Local] /\ pc \in [Flow -> Steps]
      /\ stamps \in Nat /\ dead \subseteq Flow
  BY Known
<1>2. /\ my'[f].new = my[f].new /\ my'[f].old = s /\ pc'[f] = "rotate" /\ my'[f] \in Local
  BY <1>1 DEF Local
<1>3. Moves(f)
  BY <1>1, <1>2 DEF Moves, Steps
<1>4. Request(f)'
  BY <1>1, <1>2, NoneAssumption DEF Request, Held, Live
<1>5. TablesStand /\ StillOwes(f)
  BY <1>1 DEF TablesStand, StillOwes, Due
<1> QED BY <1>2, <1>3, <1>4, <1>5, Quiet

\* A reset reads the hash that it is to replace.
LEMMA ResetStartKeeps ==
    ASSUME IInv, NEW f \in Flow, NEW p \in Password, ResetStart(f, p) PROVE IInv'
<1> USE DEF ResetStart, Begins, At, Goto, tables
<1>1. /\ Request(f) /\ my[f] \in Local /\ my \in [Flow -> Local] /\ pc \in [Flow -> Steps]
      /\ stamps \in Nat /\ dead \subseteq Flow /\ cred.hash \in Nat
  BY Known DEF Credential
<1>2. /\ my'[f].new = my[f].new /\ my'[f].old = my[f].old /\ pc'[f] = "stamp" /\ my'[f] \in Local
  BY <1>1 DEF Local
<1>3. Moves(f)
  BY <1>1, <1>2 DEF Moves, Steps
<1>4. Request(f)'
  BY <1>1, <1>2 DEF Request
<1>5. TablesStand /\ StillOwes(f)
  BY <1>1 DEF TablesStand, StillOwes, Due
<1> QED BY <1>2, <1>3, <1>4, <1>5, Quiet

\* So does a change, which keeps the session it came with.
LEMMA ChangeStartKeeps ==
    ASSUME IInv, NEW f \in Flow, NEW s \in Session, NEW p \in Password, ChangeStart(f, s, p) PROVE IInv'
<1> USE DEF ChangeStart, Begins, At, Goto, tables
<1>1. /\ Request(f) /\ my[f] \in Local /\ my \in [Flow -> Local] /\ pc \in [Flow -> Steps]
      /\ stamps \in Nat /\ dead \subseteq Flow /\ cred.hash \in Nat
  BY Known DEF Credential
<1>2. /\ my'[f].new = my[f].new /\ my'[f].old = s /\ pc'[f] = "stamp" /\ my'[f] \in Local
  BY <1>1 DEF Local
<1>3. Moves(f)
  BY <1>1, <1>2 DEF Moves, Steps
<1>4. Request(f)'
  BY <1>1, <1>2, NoneAssumption DEF Request, Held, Live
<1>5. TablesStand /\ StillOwes(f)
  BY <1>1 DEF TablesStand, StillOwes, Due
<1> QED BY <1>2, <1>3, <1>4, <1>5, Quiet

\* The timestamp of a replacement is one that was taken.
LEMMA StampKeeps == ASSUME IInv, NEW f \in Flow, Stamp(f) PROVE IInv'
<1> USE DEF Stamp, At, Goto
<1>1. /\ Request(f) /\ my[f] \in Local /\ my \in [Flow -> Local] /\ pc \in [Flow -> Steps]
      /\ stamps \in Nat /\ dead \subseteq Flow
  BY Known
<1>2. /\ my'[f].new = my[f].new /\ my'[f].old = my[f].old /\ my'[f].stamp = stamps + 1
      /\ pc'[f] = "replace" /\ my'[f] \in Local
  BY <1>1 DEF Local
<1>3. Moves(f)
  BY <1>1, <1>2 DEF Moves, Steps
<1>4. my'[f].stamp \in 1 .. stamps'
  BY <1>1, <1>2
<1>5. Request(f)'
  BY <1>1, <1>2, <1>4 DEF Request
<1>6. TablesStand
  BY <1>1 DEF TablesStand
<1>7. StillOwes(f)
  BY DEF StillOwes, Due
<1> QED BY <1>2, <1>3, <1>5, <1>6, <1>7, Quiet

\* A revocation of the others spares the session it came with.
LEMMA OthersStartKeeps ==
    ASSUME IInv, NEW f \in Flow, NEW s \in Session, OthersStart(f, s) PROVE IInv'
<1> USE DEF OthersStart, Begins, At, Goto, tables
<1>1. /\ Request(f) /\ my[f] \in Local /\ my \in [Flow -> Local] /\ pc \in [Flow -> Steps]
      /\ stamps \in Nat /\ dead \subseteq Flow
  BY Known
<1>2. /\ my'[f].new = my[f].new /\ my'[f].old = s /\ pc'[f] = "match" /\ my'[f] \in Local
  BY <1>1 DEF Local
<1>3. Moves(f)
  BY <1>1, <1>2 DEF Moves, Steps
<1>4. Request(f)'
  BY <1>1, <1>2, NoneAssumption DEF Request, Held, Live
<1>5. TablesStand /\ StillOwes(f)
  BY <1>1 DEF TablesStand, StillOwes, Due
<1> QED BY <1>2, <1>3, <1>4, <1>5, Quiet

\* The moves that give up, or go on to revoke what they wrote.
LEMMA LostKeeps ==
    ASSUME IInv, NEW f \in Flow, RotateLost(f) \/ Refuse(f) \/ ReplaceLost(f) PROVE IInv'
<1> USE DEF RotateLost, Refuse, ReplaceLost, At, Goto, tables
<1>1. /\ Request(f) /\ my[f] \in Local /\ my \in [Flow -> Local] /\ pc \in [Flow -> Steps]
      /\ stamps \in Nat /\ dead \subseteq Flow
  BY Known
<1>2. /\ my' = my /\ pc[f] \in {"rotate", "recheck", "replace"} /\ pc'[f] \in {"done", "undo"}
      /\ pc'[f] = "undo" => pc[f] = "recheck"
  BY <1>1
<1>3. Moves(f)
  BY <1>1, <1>2 DEF Moves, Steps
<1>4. Request(f)'
  BY <1>1, <1>2 DEF Request
<1>5. TablesStand /\ StillOwes(f)
  BY <1>1 DEF TablesStand, StillOwes, Due
<1> QED BY <1>2, <1>3, <1>4, <1>5, Quiet

\* What a request that died owes is owed still.
LEMMA CrashKeeps == ASSUME IInv, NEW f \in Flow, Crash(f) PROVE IInv'
<1> USE DEF Crash, tables
<1>1. /\ Request(f) /\ my \in [Flow -> Local] /\ pc \in [Flow -> Steps]
      /\ stamps \in Nat /\ dead \subseteq Flow
  BY Known
<1>2. Moves(f)
  BY <1>1 DEF Moves
<1>3. Request(f)'
  BY <1>1 DEF Request
<1>4. TablesStand /\ StillOwes(f)
  BY <1>1 DEF TablesStand, StillOwes, Due
<1> QED BY <1>2, <1>3, <1>4, Quiet

\* The snapshot of a bulk revocation takes in every live session it is for.
LEMMA MatchKeeps == ASSUME IInv, NEW f \in Flow, Match(f) PROVE IInv'
<1> USE DEF Match, At, Goto, tables
<1>1. /\ Request(f) /\ my[f] \in Local /\ my \in [Flow -> Local] /\ pc \in [Flow -> Steps]
      /\ stamps \in Nat /\ dead \subseteq Flow
  BY Known
<1>2. /\ my'[f].new = my[f].new /\ my'[f].old = my[f].old /\ my'[f].org = my[f].org
      /\ my'[f].matched = {s \in Session : Live(s) /\ Sweeps(f, s)}
      /\ pc'[f] = "sweep" /\ my'[f] \in Local
  BY <1>1 DEF Local
<1>3. Moves(f)
  BY <1>1, <1>2 DEF Moves, Steps
<1>4. Request(f)'
  BY <1>1, <1>2 DEF Request
<1>5. TablesStand
  BY <1>1 DEF TablesStand
<1>6. StillOwes(f)
  <2> SUFFICES ASSUME NEW s \in Session, Live(s)'
               PROVE  /\ Due(f, s) /\ kind[f] \in {"reset", "change"} => Due(f, s)'
                      /\ Due(f, s) /\ kind[f] = "remove" /\ my[f].org = row[s].org =>
                           Due(f, s)' /\ my'[f].org = my[f].org
    BY DEF StillOwes
  <2> QED BY <1>2 DEF Due, Sweeps, Live
<1> QED BY <1>2, <1>3, <1>4, <1>5, <1>6, Quiet

-----------------------------------------------------------------------------
(* The moves that revoke. *)

\* Revoking changes nothing but the state, and makes no row absent.
LEMMA RevokingRows ==
    ASSUME IInv, NEW S, row' = Revoked(S), NEW s \in Session
    PROVE  /\ row'[s].state # "absent" <=> row[s].state # "absent"
           /\ Live(s)' <=> Live(s) /\ s \notin S
           /\ row'[s].given = row[s].given /\ row'[s].status = row[s].status
           /\ row'[s].org = row[s].org /\ row'[s].by = row[s].by
           /\ row'[s].password = row[s].password
<1>1. row[s] \in Row
  BY DEF IInv, TypeOK
<1> QED BY <1>1 DEF Revoked, Row, Live

\* So a request that knew what its sessions are still knows, whatever its step
\* among those after it has written them.
LEMMA StillKnows ==
    ASSUME IInv, NEW f \in Flow, NEW S, row' = Revoked(S), kind' = kind, stamps' = stamps,
           my' = my, pc'[f] = "done" \/ (pc'[f] = "rotate" /\ pc[f] = "sweep" /\ kind[f] = "change"),
           pc[f] # "ready" \/ pc'[f] = "done"
    PROVE  Request(f)'
<1>1. Request(f) /\ my[f] \in Local
  BY Known
<1>2. my[f].old # None => /\ my[f].old \in Session
                          /\ row'[my[f].old].state # "absent" /\ row'[my[f].old].given
                          /\ row'[my[f].old].status = row[my[f].old].status
  BY <1>1, RevokingRows DEF Request, Local
<1>3. my[f].new # None => my[f].new \in Session /\ row'[my[f].new].state # "absent"
  BY <1>1, RevokingRows DEF Request, Local
<1> QED BY <1>1, <1>2, <1>3 DEF Request

\* A request that did not stand revokes what it issued.
LEMMA UndoKeeps == ASSUME IInv, NEW f \in Flow, Undo(f) PROVE IInv'
<1> USE DEF Undo, At, Goto, tables
<1>1. /\ my \in [Flow -> Local] /\ pc \in [Flow -> Steps] /\ stamps \in Nat /\ dead \subseteq Flow
  BY Known
<1>2. Moves(f) /\ pc'[f] = "done"
  BY <1>1 DEF Moves, Steps
<1>3. Request(f)'
  BY <1>2, StillKnows
<1>4. TablesStand /\ StillOwes(f)
  BY <1>1 DEF TablesStand, StillOwes, Due
<1> QED BY <1>2, <1>3, <1>4, Withdrawn

\* A logout revokes one session.
LEMMA RevokeOneKeeps ==
    ASSUME IInv, NEW f \in Flow, NEW s \in Session, RevokeOne(f, s) PROVE IInv'
<1> USE DEF RevokeOne, Begins, At, Goto, tables
<1>1. /\ my \in [Flow -> Local] /\ pc \in [Flow -> Steps] /\ stamps \in Nat /\ dead \subseteq Flow
  BY Known
<1>2. Moves(f) /\ pc'[f] = "done"
  BY <1>1 DEF Moves, Steps
<1>3. Request(f)'
  BY <1>2, StillKnows
<1>4. TablesStand /\ StillOwes(f)
  BY <1>1 DEF TablesStand, StillOwes, Due
<1> QED BY <1>2, <1>3, <1>4, Withdrawn

\* What a bulk revocation matched and has now revoked is owed no longer.
LEMMA SweepKeeps == ASSUME IInv, NEW f \in Flow, Sweep(f) PROVE IInv'
<1> USE DEF Sweep, At, Goto, tables
<1>1. /\ my \in [Flow -> Local] /\ pc \in [Flow -> Steps] /\ stamps \in Nat /\ dead \subseteq Flow
  BY Known
<1>2. Moves(f) /\ pc'[f] = (IF kind[f] = "change" THEN "rotate" ELSE "done")
  BY <1>1 DEF Moves, Steps
<1>3. Request(f)'
  BY <1>2, StillKnows
<1>4. TablesStand
  BY <1>1 DEF TablesStand
<1>5. StillOwes(f)
  <2> SUFFICES ASSUME NEW s \in Session, Live(s)' PROVE ~Due(f, s)
    BY DEF StillOwes
  <2>1. s \notin my[f].matched
    BY RevokingRows
  <2> QED BY <2>1 DEF Due
<1> QED BY <1>2, <1>3, <1>4, <1>5, Withdrawn

-----------------------------------------------------------------------------
(* The moves that issue a session. *)

\* All but what reaches the sessions, when the one that moves knows what it did.
LEMMA StillStanding ==
    ASSUME IInv, NEW f \in Flow, Moves(f), Enduring, Private(f), Request(f)',
           row' \in [Session -> Row], cred' \in Credential, member' \in [Org -> BOOLEAN],
           stamps' = stamps, replaced' \subseteq 1 .. stamps, dead' = dead, Rows',
           \/ my'[f].new = my[f].new
           \/ my'[f].new \in Session /\ row[my'[f].new].state = "absent"
    PROVE  TypeOK' /\ Requests' /\ IssuedOnce' /\ Rows'
<1>1. Requests'
  BY Known, OthersKnow
<1>2. IssuedOnce'
  BY StillIssuedOnce
<1>3. \A g \in Flow : pc'[g] = "rotate" => my'[g].old # None
  BY <1>1 DEF Requests, Request
<1>4. TypeOK'
  BY <1>3 DEF IInv, TypeOK, Moves
<1> QED BY <1>1, <1>2, <1>4

\* What another owes is owed still.
LEMMA OthersOwe ==
    ASSUME IInv, NEW f \in Flow, Moves(f), pc[f] \notin {"match", "sweep"},
           NEW s \in Session, row'[s].org = row[s].org
    PROVE  (Awaited(s) => Awaited(s)') /\ (Departing(s) => Departing(s)')
BY StillDue DEF Due

\* A login's session is nobody's until the login has looked again.
LEMMA LoginIssueKeeps ==
    ASSUME IInv, NEW f \in Flow, NEW t \in Session, NEW status \in {"PENDING_MFA", "ACTIVE"},
           LoginIssue(f, t, status)
    PROVE  IInv'
<1> USE DEF LoginIssue, At, Goto, tables
<1>1. /\ Request(f) /\ my[f] \in Local /\ my \in [Flow -> Local] /\ pc \in [Flow -> Steps]
      /\ stamps \in Nat /\ dead \subseteq Flow /\ \A s \in Session : row[s] \in Row
  BY Known
<1>2. /\ my'[f].new = t /\ my'[f].old = my[f].old /\ my'[f].password = my[f].password
      /\ pc'[f] = "recheck" /\ my'[f] \in Local
  BY <1>1 DEF Local
<1>3. Inserted(t, status, None, my[f].password, FALSE, "login") \in Row
  BY <1>1 DEF Inserted, Row, Local, Kinds
<1>4. row' \in [Session -> Row] /\ \A s \in Session : s # t => row'[s] = row[s]
  BY <1>3 DEF IInv, TypeOK
<1>5. /\ row'[t].state = "live" /\ row'[t].org = None /\ row'[t].password = my[f].password
      /\ row'[t].given = FALSE /\ row'[t].by = "login"
  BY DEF Inserted, IInv, TypeOK
<1>6. Moves(f)
  BY <1>1, <1>2 DEF Moves, Steps
<1>7. Enduring
  BY <1>1, <1>4 DEF Enduring, Settled
<1>8. Private(f)
  BY <1>4 DEF Private
<1>9. Request(f)'
  <2>1. my[f].old # None => my[f].old \in Session /\ row'[my[f].old] = row[my[f].old]
    BY <1>1, <1>4 DEF Request, Local
  <2> QED BY <1>1, <1>2, <1>5, <2>1, NoneAssumption DEF Request
<1>10. TypeOK' /\ Requests' /\ IssuedOnce' /\ Rows'
  <2>1. Rows'
    BY <1>4, <1>5 DEF Rows, IInv
  <2> QED BY <1>2, <1>4, <1>6, <1>7, <1>8, <1>9, <2>1, StillStanding DEF IInv, TypeOK
<1>11. ASSUME NEW s \in Session, s # t, Live(s)'
       PROVE  Unchanged(s) /\ (Awaited(s) => Awaited(s)') /\ (Departing(s) => Departing(s)')
  <2>1. Unchanged(s)
    BY <1>4, <1>7, <1>11 DEF Unchanged, Enduring, Live
  <2> QED BY <1>4, <1>6, <1>11, <2>1, OthersOwe
<1>12. ASSUME NEW s \in Session PROVE PasswordReaches(s)' /\ RemovalReaches(s)'
  <2>1. CASE s = t
    BY <1>5, <2>1 DEF PasswordReaches, RemovalReaches, Left
  <2>2. CASE s # t
    BY <1>11, <2>2, StillReaches
  <2> QED BY <2>1, <2>2
<1>13. ASSUME NEW g \in Flow PROVE PromotionReaches(g)'
  <2>1. CASE g = f
    BY <1>2, <1>5, <2>1 DEF PromotionReaches
  <2>2. CASE g # f
    <3>1. my[g].new # t /\ my'[g] = my[g] /\ kind' = kind
      BY <1>6, <2>2, NoneAssumption DEF IInv, Requests, Request, Moves
    <3> QED BY <1>7, <1>11, <3>1, StillPromoted
  <2> QED BY <2>1, <2>2
<1> QED BY <1>10, <1>12, <1>13 DEF IInv, Reached

\* A rotation hands on what its predecessor rested on: a revocation that was
\* owed to the predecessor and is yet to take its snapshot will find the
\* successor, and one that has taken it makes the successor a straddler.
LEMMA RotateKeeps == ASSUME IInv, NEW f \in Flow, NEW t \in Session, Rotate(f, t) PROVE IInv'
<1> USE DEF Rotate, At, Goto, tables
<1> DEFINE s == my[f].old
<1>1. /\ Request(f) /\ my[f] \in Local /\ my \in [Flow -> Local] /\ pc \in [Flow -> Steps]
      /\ stamps \in Nat /\ dead \subseteq Flow /\ \A u \in Session : row[u] \in Row
      /\ kind[f] \in {"promote", "switch", "change"}
  BY Known DEF Request
<1>2. /\ s \in Session /\ s # t /\ s # None /\ t # None
      /\ row[s].given /\ Live(s) /\ row[t].state = "absent"
  BY <1>1, NoneAssumption DEF Request, RotateAdmits, Live, Local
<1>3. /\ my'[f].new = t /\ my'[f].old = s /\ my'[f].org = my[f].org
      /\ pc'[f] \in {"done", "recheck"} /\ (pc'[f] = "recheck" => kind[f] # "change")
      /\ my'[f] \in Local
  BY <1>1 DEF Local
<1> DEFINE new == [Inserted(t, "ACTIVE", SuccessorOrg(f), row[s].password,
                            row[s].straddled \/ StraddlesASweep, kind[f])
                     EXCEPT !.given = kind[f] = "change"]
<1>4. SuccessorOrg(f) \in Org \cup {None} /\ row[s].straddled \in BOOLEAN /\ row[s].password \in Password
  BY <1>1, <1>2 DEF SuccessorOrg, Local, Row
<1>5. new = [state |-> "live", status |-> "ACTIVE", org |-> SuccessorOrg(f),
             password |-> row[s].password, birth |-> stamps, given |-> kind[f] = "change",
             straddled |-> row[s].straddled \/ StraddlesASweep, by |-> kind[f]]
  BY DEF Inserted
<1>6. new \in Row
  <2>1. (row[s].straddled \/ StraddlesASweep) \in BOOLEAN /\ (kind[f] = "change") \in BOOLEAN
    BY <1>4 DEF StraddlesASweep
  <2>2. kind[f] \in Kinds
    BY <1>1 DEF Kinds
  <2> HIDE DEF new
  <2> QED BY <1>1, <1>4, <1>5, <2>1, <2>2, IsARow
<1>7. /\ row' \in [Session -> Row] /\ row'[t] = new
      /\ row'[s] = [row[s] EXCEPT !.state = "revoked"]
      /\ \A u \in Session : u # s /\ u # t => row'[u] = row[u]
  <2>0. ASSUME NEW r \in Row PROVE [r EXCEPT !.state = "revoked"] \in Row
    BY ONLY r \in Row DEF Row
  <2>1. [row[s] EXCEPT !.state = "revoked"] \in Row
    BY <1>1, <1>2, <2>0
  <2> HIDE DEF new
  <2>2. row' = [row EXCEPT ![s].state = "revoked", ![t] = new]
    BY DEF new
  <2> QED BY <1>2, <1>6, <2>1, <2>2 DEF IInv, TypeOK
<1>8. /\ row'[t].state = "live" /\ row'[t].org = SuccessorOrg(f)
      /\ row'[t].password = row[s].password /\ row'[t].given = (kind[f] = "change")
      /\ row'[t].straddled = (row[s].straddled \/ StraddlesASweep) /\ row'[t].by = kind[f]
      /\ row'[t].status = "ACTIVE"
  <2> HIDE DEF Rotate, new
  <2> QED BY ONLY <1>5, <1>7
<1>9. /\ row'[s].state = "revoked" /\ row'[s].status = row[s].status
      /\ row'[s].given = row[s].given /\ row'[s].org = row[s].org
      /\ row'[s].birth = row[s].birth /\ row'[s].straddled = row[s].straddled
      /\ row'[s].by = row[s].by /\ row'[s].password = row[s].password
  <2>1. row[s] \in Row /\ row'[s] = [row[s] EXCEPT !.state = "revoked"]
    BY <1>1, <1>2, <1>7
  <2>2. ASSUME NEW r \in Row
        PROVE  LET e == [r EXCEPT !.state = "revoked"]
               IN  /\ e.state = "revoked" /\ e.status = r.status /\ e.given = r.given
                   /\ e.org = r.org /\ e.birth = r.birth /\ e.straddled = r.straddled
                   /\ e.by = r.by /\ e.password = r.password
    BY ONLY r \in Row DEF Row
  <2> HIDE DEF Rotate, new, s
  <2> QED BY <2>1, <2>2
<1>10. kind' = kind /\ cred' = cred /\ member' = member /\ pc[f] = "rotate" /\ replaced' = replaced
  OBVIOUS
<1> HIDE DEF new, s
<1>11. Moves(f)
  BY <1>1, <1>3 DEF Moves, Steps
<1>12. Enduring
  <2> HIDE DEF Rotate
  <2> QED BY <1>2, <1>7, <1>9 DEF Enduring, Settled
<1>13. Private(f)
  <2> HIDE DEF Rotate
  <2> QED BY <1>2, <1>7, <1>9 DEF Private
<1>14. Request(f)'
  <2>1. kind[f] = "promote" => row[s].status = "PENDING_MFA"
    BY <1>1, <1>2 DEF Request, s
  <2>2. kind[f] = "switch" => row'[t].org = my[f].org
    BY <1>8 DEF SuccessorOrg
  <2> HIDE DEF Rotate
  <2>3. /\ row'[s].state = "revoked" /\ row'[s].given /\ row'[s].status = row[s].status
        /\ row'[t].state = "live" /\ row'[t].given = (kind[f] = "change") /\ row'[t].by = kind[f]
    BY <1>2, <1>8, <1>9
  <2>4. /\ pc'[f] = "recheck" => row'[t].given = FALSE
        /\ kind[f] # "login" /\ kind[f] # "reset" /\ kind[f] # "remove"
    BY <1>1, <1>3, <2>3
  <2> QED BY ONLY <1>1, <1>2, <1>3, <1>10, <2>1, <2>2, <2>3, <2>4 DEF Request
<1>15. TypeOK' /\ Requests' /\ IssuedOnce' /\ Rows'
  <2>1. Rows'
    <3> HIDE DEF Rotate, tables
    <3>1. \A u \in Session : row'[u].status = "PENDING_MFA" => row'[u].org = None
      <4> SUFFICES ASSUME NEW u \in Session, u # t
                   PROVE  row'[u].status = row[u].status /\ row'[u].org = row[u].org
        BY <1>8 DEF Rows, IInv
      <4> QED BY <1>7, <1>9
    <3> QED BY <1>10, <3>1 DEF Rows, IInv
  <2>2. /\ cred' \in Credential /\ member' \in [Org -> BOOLEAN]
        /\ stamps' = stamps /\ replaced' \subseteq 1 .. stamps /\ dead' = dead
    BY DEF IInv, TypeOK
  <2>3. my'[f].new \in Session /\ row[my'[f].new].state = "absent"
    BY <1>2, <1>3
  <2> HIDE DEF Rotate, tables
  <2> QED BY <1>7, <1>11, <1>12, <1>13, <1>14, <2>1, <2>2, <2>3, StillStanding
<1>16. ASSUME NEW u \in Session, u # t, Live(u)'
       PROVE  Unchanged(u) /\ (Awaited(u) => Awaited(u)') /\ (Departing(u) => Departing(u)')
  <2>1. u # s
    BY <1>9, <1>16 DEF Live
  <2>2. Unchanged(u)
    BY <1>7, <1>12, <1>16, <2>1 DEF Unchanged, Enduring, Live
  <2> QED BY <1>7, <1>11, <1>16, <1>10, <2>1, <2>2, OthersOwe
<1>17. PasswordReaches(t)'
  <2> SUFFICES ASSUME ~Rests(t)', ~row'[t].straddled PROVE Awaited(t)'
    BY DEF PasswordReaches
  <2>1. ~Rests(s) /\ ~row[s].straddled /\ ~StraddlesASweep
    BY <1>8 DEF Rests
  <2>2. Awaited(s)
    BY <1>2, <2>1 DEF IInv, Reached, PasswordReaches
  <2>3. PICK g \in Flow : kind[g] \in {"reset", "change"} /\ Due(g, s)
    BY <2>2 DEF Awaited
  <2>4. g # f /\ pc[g] = "match"
    BY <2>1, <2>3 DEF Due, StraddlesASweep
  <2>5. t # my[g].old
    BY <1>2 DEF IInv, Requests, Request
  <2>6. Due(g, t)' /\ kind' = kind
    BY <1>11, <2>4, <2>5 DEF Due, Moves
  <2> QED BY <2>3, <2>6 DEF Awaited
<1>18. RemovalReaches(t)'
  <2> SUFFICES ASSUME Left(t)', ~(row'[t].by = "switch" /\ ~row'[t].given),
                      ~(row'[t].by = "change" /\ row'[t].straddled)
               PROVE  Departing(t)'
    BY DEF RemovalReaches
  <2>1. kind[f] # "switch"
    BY <1>8
  <2>2. row'[t].org = row[s].org /\ Left(s)
    BY <1>8, <2>1 DEF SuccessorOrg, Left, s
  <2>3. kind[f] = "change"
    <3>1. kind[f] = "promote" => row[s].status = "PENDING_MFA"
      BY <1>1, <1>2 DEF Request, s
    <3> QED BY <1>1, <1>2, <2>1, <2>2, <3>1 DEF IInv, Rows, Left
  <2>4. ~row[s].straddled /\ ~StraddlesASweep
    BY <1>8, <2>3
  <2>5. Departing(s)
    BY <1>2, <2>2, <2>4 DEF IInv, Reached, RemovalReaches
  <2>6. PICK g \in Flow : kind[g] = "remove" /\ my[g].org = row[s].org /\ Due(g, s)
    BY <2>5 DEF Departing
  <2>7. g # f /\ pc[g] = "match"
    BY <2>3, <2>4, <2>6 DEF Due, StraddlesASweep
  <2>8. t # my[g].old
    BY <1>2 DEF IInv, Requests, Request
  <2>9. Due(g, t)' /\ kind' = kind /\ my'[g] = my[g]
    BY <1>11, <2>7, <2>8 DEF Due, Moves
  <2> QED BY <2>2, <2>6, <2>9 DEF Departing
<1>19. ASSUME NEW u \in Session PROVE PasswordReaches(u)' /\ RemovalReaches(u)'
  <2>1. CASE u = t
    BY <1>17, <1>18, <2>1
  <2>2. CASE u # t
    BY <1>16, <2>2, StillReaches
  <2> QED BY <2>1, <2>2
<1>20. ASSUME NEW g \in Flow PROVE PromotionReaches(g)'
  <2>1. CASE g = f
    <3>1. kind'[g] = "promote" => ~row'[my'[g].new].given
      BY <1>3, <1>8, <2>1
    <3> QED BY <3>1 DEF PromotionReaches
  <2>2. CASE g # f
    <3>1. my[g].new # t /\ my'[g] = my[g] /\ kind' = kind
      BY <1>2, <1>11, <2>2 DEF IInv, Requests, Request, Moves
    <3> QED BY <1>12, <1>16, <3>1, StillPromoted
  <2> QED BY <2>1, <2>2
<1> QED BY <1>15, <1>19, <1>20 DEF IInv, Reached

-----------------------------------------------------------------------------
(* The answer: what was looked at again is given to the client. *)

\* What is answered passed the second look: nothing excuses it any longer but a
\* revocation that is owed, or, for a promotion, the timestamps.
LEMMA AnswerKeeps == ASSUME IInv, NEW f \in Flow, Answer(f) PROVE IInv'
<1> USE DEF Answer, At, Goto, tables
<1>1. /\ Request(f) /\ my[f] \in Local /\ my \in [Flow -> Local] /\ pc \in [Flow -> Steps]
      /\ stamps \in Nat /\ dead \subseteq Flow /\ \A u \in Session : row[u] \in Row
  BY Known
<1>2. PICK t \in Session : t = my[f].new
  BY <1>1 DEF Request, Local
<1>3. /\ row[t].state # "absent" /\ row[t].by = kind[f]
      /\ kind[f] \in {"login", "promote", "switch"}
      /\ kind[f] = "login" => row[t].password = my[f].password
      /\ kind[f] = "switch" => row[t].org = my[f].org
  BY <1>2, <1>1 DEF Request
<1>4. /\ row' \in [Session -> Row] /\ row'[t].given
      /\ row'[t].state = row[t].state /\ row'[t].status = row[t].status
      /\ row'[t].org = row[t].org /\ row'[t].password = row[t].password
      /\ row'[t].birth = row[t].birth /\ row'[t].straddled = row[t].straddled
      /\ row'[t].by = row[t].by
      /\ \A u \in Session : u # t => row'[u] = row[u]
  <2>1. row[t] \in Row /\ row' = [row EXCEPT ![t].given = TRUE]
    BY <1>2, <1>1 DEF Given
  <2>2. [row[t] EXCEPT !.given = TRUE] \in Row
    BY <2>1 DEF Row
  <2>3. row' \in [Session -> Row] /\ row'[t] = [row[t] EXCEPT !.given = TRUE]
    BY <1>3, <2>1, <2>2 DEF IInv, TypeOK
  <2>4. \A u \in Session : u # t => row'[u] = row[u]
    BY <2>1 DEF IInv, TypeOK
  <2> QED BY <2>1, <2>3, <2>4 DEF Row
<1>5. /\ kind' = kind /\ cred' = cred /\ member' = member /\ replaced' = replaced
      /\ my' = my /\ pc[f] = "recheck" /\ pc'[f] = "done" /\ Stands(f)
  BY <1>1 DEF Answer
<1> HIDE DEF Answer
<1>6. Moves(f)
  BY <1>1, <1>5 DEF Moves, Steps, Answer
<1>7. Enduring
  BY <1>3, <1>4 DEF Enduring, Settled
<1>8. Private(f)
  BY <1>2, <1>4 DEF Private
<1>9. Request(f)'
  <2>1. my[f].old # None => /\ my[f].old \in Session /\ row'[my[f].old].state # "absent"
                            /\ row'[my[f].old].given
                            /\ row'[my[f].old].status = row[my[f].old].status
    BY <1>1, <1>4 DEF Request, Local
  <2> QED BY <1>2, <1>1, <1>3, <1>4, <1>5, <2>1, NoneAssumption DEF Request
<1>10. TypeOK' /\ Requests' /\ IssuedOnce' /\ Rows'
  <2>1. Rows'
    <3>1. \A u \in Session : row'[u].status = row[u].status /\ row'[u].org = row[u].org
      BY <1>4
    <3> QED BY <1>5, <3>1 DEF Rows, IInv
  <2> QED BY <1>4, <1>5, <1>6, <1>7, <1>8, <1>9, <2>1, StillStanding DEF IInv, TypeOK, Answer
<1>11. ASSUME NEW u \in Session
       PROVE  (Awaited(u) => Awaited(u)') /\ (Departing(u) => Departing(u)')
  <2>1. row'[u].org = row[u].org
    BY <1>4
  <2> QED BY <1>5, <1>6, <2>1, OthersOwe
<1>12. ASSUME NEW u \in Session, u # t, Live(u)' PROVE Unchanged(u)
  BY <1>4, <1>7, <1>12 DEF Unchanged, Enduring, Live
<1>13. PasswordReaches(t)'
  <2> SUFFICES ASSUME Live(t)', ~Rests(t)', ~row'[t].straddled PROVE Awaited(t)'
    BY DEF PasswordReaches
  <2>1. Live(t) /\ ~Rests(t) /\ ~row[t].straddled
    BY <1>4, <1>5 DEF Live, Rests
  <2>2. kind[f] # "login"
    BY <1>3, <1>5, <2>1 DEF Stands, LoginStands, Rests
  <2> QED BY <1>3, <1>11, <2>1, <2>2 DEF IInv, Reached, PasswordReaches
<1>14. RemovalReaches(t)'
  <2> SUFFICES ASSUME Live(t)', Left(t)', ~(row'[t].by = "change" /\ row'[t].straddled)
               PROVE  Departing(t)'
    BY DEF RemovalReaches
  <2>1. Live(t) /\ Left(t) /\ ~(row[t].by = "change" /\ row[t].straddled)
    BY <1>4, <1>5 DEF Live, Left
  <2>2. kind[f] # "switch"
    BY <1>3, <1>5, <2>1 DEF Stands, SwitchStands, Left
  <2> QED BY <1>3, <1>11, <2>1, <2>2 DEF IInv, Reached, RemovalReaches
<1>15. PromotionReaches(f)'
  <2> SUFFICES ASSUME kind[f] = "promote", t # None
               PROVE  cred.updatedAt <= row'[my[f].old].birth
    BY <1>2, <1>5 DEF PromotionReaches
  <2>1. my[f].old \in Session /\ row'[my[f].old].birth = row[my[f].old].birth
        /\ row[my[f].old].birth \in Nat
    BY <1>2, <1>1, <1>4 DEF Request, Local, Row
  <2>2. PromotionStands(f)
    BY <1>5 DEF Stands
  <2>3. cred.updatedAt \in replaced \cup {0}
    BY DEF IInv, Rows
  <2> QED BY <2>1, <2>2, <2>3 DEF PromotionStands
<1>16. ASSUME NEW u \in Session PROVE PasswordReaches(u)' /\ RemovalReaches(u)'
  <2>1. CASE u = t
    BY <1>13, <1>14, <2>1
  <2>2. CASE u # t
    BY <1>5, <1>11, <1>12, <2>2, StillReaches
  <2> QED BY <2>1, <2>2
<1>17. ASSUME NEW g \in Flow PROVE PromotionReaches(g)'
  <2>1. CASE g = f
    BY <1>15, <2>1
  <2>2. CASE g # f
    <3>1. my[g].new = None \/ my[g].new # t
      BY <1>2, <2>2 DEF IInv, IssuedOnce
    <3>2. t # None
      BY <1>3, NoneAssumption
    <3> QED BY <1>5, <1>7, <1>11, <1>12, <3>1, <3>2, StillPromoted
  <2> QED BY <2>1, <2>2
<1> QED BY <1>10, <1>16, <1>17 DEF IInv, Reached

-----------------------------------------------------------------------------
(* The replacement of the password, and the end of a membership. *)

\* From its commit on a replacement owes its revocation to every session but
\* the one it came with, which rests on the new password.
LEMMA ReplaceKeeps == ASSUME IInv, NEW f \in Flow, Replace(f) PROVE IInv'
<1> USE DEF Replace, At, Goto
<1> DEFINE s == my[f].old
           p == my[f].password
<1>1. /\ Request(f) /\ my[f] \in Local /\ my \in [Flow -> Local] /\ pc \in [Flow -> Steps]
      /\ stamps \in Nat /\ dead \subseteq Flow /\ \A u \in Session : row[u] \in Row
      /\ cred.hash \in Nat /\ my[f].stamp \in 1 .. stamps
  BY Known DEF Request, Credential
<1>2. /\ kind[f] \in {"reset", "change"} /\ p \in Password
      /\ kind[f] = "reset" => s = None
      /\ kind[f] = "change" => s \in Session /\ row[s].given
  BY <1>1 DEF Request, Local
<1>3. /\ cred' \in Credential /\ cred'.password = p /\ cred'.updatedAt = my[f].stamp
      /\ replaced' = replaced \cup {my[f].stamp} /\ replaced' \subseteq 1 .. stamps
  BY <1>1, <1>2 DEF Credential, IInv, TypeOK
<1>4. /\ kind' = kind /\ my' = my /\ member' = member /\ stamps' = stamps /\ dead' = dead
      /\ pc[f] = "replace" /\ pc'[f] = "match"
  BY <1>1
<1>5. row' = IF kind[f] = "change" THEN [row EXCEPT ![s].password = p] ELSE row
  OBVIOUS
<1> HIDE DEF Replace, s, p
<1>6. row' \in [Session -> Row]
  <2>1. kind[f] = "change" => [row[s] EXCEPT !.password = p] \in Row
    BY <1>1, <1>2 DEF Row
  <2>2. row \in [Session -> Row]
    BY DEF IInv, TypeOK
  <2>3. CASE kind[f] = "change"
    BY <1>2, <1>5, <2>1, <2>2, <2>3
  <2> QED BY <1>5, <2>2, <2>3
<1>7. ASSUME NEW u \in Session
      PROVE  /\ row'[u].password = (IF kind[f] = "change" /\ u = s THEN p ELSE row[u].password)
             /\ row'[u].state = row[u].state /\ row'[u].status = row[u].status
             /\ row'[u].org = row[u].org /\ row'[u].given = row[u].given
             /\ row'[u].birth = row[u].birth /\ row'[u].straddled = row[u].straddled
             /\ row'[u].by = row[u].by
  <2>1. row \in [Session -> Row] /\ row[u] \in Row
    BY <1>1 DEF IInv, TypeOK
  <2>2. CASE kind[f] = "change" /\ u = s
    <3>1. row'[u] = [row[u] EXCEPT !.password = p]
      BY <1>5, <2>1, <2>2
    <3> QED BY <2>1, <2>2, <3>1 DEF Row
  <2>3. CASE ~(kind[f] = "change" /\ u = s)
    <3>1. row'[u] = row[u]
      BY <1>5, <2>1, <2>3
    <3> QED BY <2>3, <3>1
  <2> QED BY <2>2, <2>3
<1>8. Moves(f)
  BY <1>1, <1>4 DEF Moves, Steps, Goto, Replace
<1>9. Enduring
  BY <1>7 DEF Enduring, Settled
<1>10. Private(f)
  BY <1>2, <1>7 DEF Private
<1>11. Request(f)'
  <2>1. my[f].old # None => /\ my[f].old \in Session /\ row'[my[f].old].state # "absent"
                            /\ row'[my[f].old].given
                            /\ row'[my[f].old].status = row[my[f].old].status
    BY <1>1, <1>7 DEF Request, Local
  <2>2. my[f].new # None => row'[my[f].new].state # "absent"
    BY <1>1, <1>7 DEF Request, Local
  <2> QED BY <1>1, <1>2, <1>4, <2>1, <2>2 DEF Request
<1>12. TypeOK' /\ Requests' /\ IssuedOnce' /\ Rows'
  <2>1. Rows'
    BY <1>3, <1>7 DEF Rows, IInv
  <2> QED BY <1>3, <1>4, <1>6, <1>8, <1>9, <1>10, <1>11, <2>1, StillStanding DEF IInv, TypeOK
<1>13. ASSUME NEW u \in Session PROVE Rests(u)' \/ Awaited(u)'
  <2>1. CASE u = s /\ kind[f] = "change"
    BY <1>3, <1>7, <2>1 DEF Rests
  <2>2. CASE u # my[f].old
    BY <1>2, <1>4, <2>2 DEF Awaited, Due
  <2>3. u # None
    BY NoneAssumption
  <2> QED BY <1>2, <2>1, <2>2, <2>3 DEF s
<1>14. ASSUME NEW u \in Session PROVE RemovalReaches(u)'
  <2>1. Departing(u) => Departing(u)'
    BY <1>4, <1>7, <1>8, OthersOwe
  <2>2. (Live(u)' <=> Live(u)) /\ (Left(u)' <=> Left(u))
    BY <1>4, <1>7 DEF Live, Left
  <2>3. RemovalReaches(u)
    BY DEF IInv, Reached
  <2> QED BY <1>7, <2>1, <2>2, <2>3 DEF RemovalReaches
<1>15. ASSUME NEW g \in Flow PROVE PromotionReaches(g)'
  <2>1. my'[g].new # None => my[g].new \in Session /\ my'[g].new = my[g].new
    BY <1>1, <1>4 DEF Local
  <2>2. my[g].new # None => Rests(my[g].new)' \/ Awaited(my[g].new)'
    <3> SUFFICES ASSUME my[g].new # None PROVE Rests(my[g].new)' \/ Awaited(my[g].new)'
      OBVIOUS
    <3>1. PICK u \in Session : u = my[g].new
      BY <1>4, <2>1
    <3>2. Rests(u)' \/ Awaited(u)'
      BY <1>13
    <3> QED BY <1>4, <3>1, <3>2
  <2> QED BY <1>4, <2>1, <2>2 DEF PromotionReaches
<1> QED BY <1>12, <1>13, <1>14, <1>15 DEF IInv, Reached, PasswordReaches

\* A removal, from its commit on, owes its own to every session of the
\* organisation.
LEMMA RemoveKeeps == ASSUME IInv, NEW f \in Flow, NEW o \in Org, Remove(f, o) PROVE IInv'
<1> USE DEF Remove, Begins, At, Goto
<1>1. /\ Request(f) /\ my[f] \in Local /\ my \in [Flow -> Local] /\ pc \in [Flow -> Steps]
      /\ stamps \in Nat /\ dead \subseteq Flow /\ \A u \in Session : row[u] \in Row
  BY Known
<1>2. /\ kind' = kind /\ row' = row /\ cred' = cred /\ stamps' = stamps /\ replaced' = replaced
      /\ dead' = dead /\ kind[f] = "remove" /\ pc[f] = "ready" /\ pc'[f] = "match"
      /\ my'[f].new = my[f].new /\ my'[f].old = my[f].old /\ my'[f].org = o
      /\ my'[f] \in Local
  BY <1>1 DEF Local
<1>3. member' \in [Org -> BOOLEAN] /\ \A q \in Org : q # o => member'[q] = member[q]
  BY DEF IInv, TypeOK
<1>4. Moves(f)
  BY <1>1, <1>2 DEF Moves, Steps
<1>5. Enduring /\ Private(f)
  BY <1>1, <1>2 DEF Enduring, Settled, Private
<1>6. Request(f)'
  BY <1>1, <1>2 DEF Request
<1>7. my[f].old = None /\ my[f].new = None
  BY <1>1, <1>2 DEF Request
<1> HIDE DEF Remove
<1>8. TypeOK' /\ Requests' /\ IssuedOnce' /\ Rows'
  <2>1. Rows'
    BY <1>2 DEF Rows, IInv
  <2> QED BY <1>2, <1>3, <1>4, <1>5, <1>6, <2>1, StillStanding DEF IInv, TypeOK
<1>9. ASSUME NEW u \in Session
      PROVE  (Awaited(u) => Awaited(u)') /\ (Departing(u) => Departing(u)')
  BY <1>2, <1>4, OthersOwe
<1>10. ASSUME NEW u \in Session PROVE PasswordReaches(u)'
  <2>1. (Live(u)' <=> Live(u)) /\ (Rests(u)' <=> Rests(u))
    BY <1>2 DEF Live, Rests
  <2>2. PasswordReaches(u)
    BY DEF IInv, Reached
  <2> QED BY <1>2, <1>9, <2>1, <2>2 DEF PasswordReaches
<1>11. ASSUME NEW u \in Session PROVE RemovalReaches(u)'
  <2>1. RemovalReaches(u) /\ row[u].org \in Org \cup {None} /\ u # None
    BY <1>1, NoneAssumption DEF IInv, Reached, Row
  <2>2. CASE row[u].org = o
    <3>1. Due(f, u)'
      BY <1>2, <1>7, <2>1 DEF Due
    <3>2. Departing(u)'
      BY <1>2, <2>2, <3>1 DEF Departing
    <3> QED BY <3>2 DEF RemovalReaches
  <2>3. CASE row[u].org # o
    <3>1. (Live(u)' <=> Live(u)) /\ (Left(u)' <=> Left(u))
      BY <1>2, <1>3, <2>1, <2>3 DEF Live, Left
    <3> QED BY <1>2, <1>9, <2>1, <3>1 DEF RemovalReaches
  <2> QED BY <2>2, <2>3
<1>12. ASSUME NEW g \in Flow PROVE PromotionReaches(g)'
  <2>1. /\ my'[g].new = my[g].new /\ kind'[g] = kind[g]
        /\ my'[g].old = my[g].old \/ my[g].new = None
    BY <1>2, <1>4 DEF Moves
  <2>2. ASSUME NEW u \in Session, Live(u)' PROVE Unchanged(u) /\ (Awaited(u) => Awaited(u)')
    BY <1>2, <1>5, <1>9, <2>2 DEF Unchanged, Enduring, Live
  <2> QED BY <1>2, <1>5, <2>1, <2>2, StillPromoted
<1> QED BY <1>8, <1>10, <1>11, <1>12 DEF IInv, Reached

-----------------------------------------------------------------------------
(* The theorems. *)

\* Every step keeps the invariant.
LEMMA NextIInv == IInv /\ [Next]_vars => IInv'
<1> SUFFICES ASSUME IInv, [Next]_vars PROVE IInv'
  OBVIOUS
<1>1. CASE UNCHANGED vars
  BY <1>1 DEF vars, IInv, TypeOK, Requests, Request, IssuedOnce, Rows, Reached,
     PasswordReaches, RemovalReaches, PromotionReaches, Rests, Left, Live, Awaited, Departing, Due
<1>2. CASE Next
  <2> SUFFICES ASSUME NEW f \in Flow, Begin(f) \/ Continue(f) \/ Crash(f) PROVE IInv'
    BY <1>2 DEF Next
  <2>1. CASE Begin(f)
    BY <2>1, LoginVerifyKeeps, PromoteStartKeeps, OthersStartKeeps, RevokeOneKeeps,
       SwitchStartKeeps, ChangeStartKeeps, ResetStartKeeps, RemoveKeeps DEF Begin
  <2>2. CASE Continue(f)
    BY <2>2, LoginIssueKeeps, RotateKeeps, LostKeeps, AnswerKeeps, UndoKeeps, StampKeeps,
       ReplaceKeeps, MatchKeeps, SweepKeeps DEF Continue
  <2>3. CASE Crash(f)
    BY <2>3, CrashKeeps
  <2> QED BY <2>1, <2>2, <2>3
<1> QED BY <1>1, <1>2

\* The invariant holds in every reachable state.
THEOREM Invariance == Spec => []IInv
BY InitIInv, NextIInv, PTL DEF Spec

\* What a session in a client's hands may owe its life to.
LEMMA Escapes ==
    IInv => OnlyStraddlersEscape /\ OnlyACarriedSessionStays /\ PromotionEscapesAcrossAStamp
<1> SUFFICES ASSUME IInv
             PROVE  OnlyStraddlersEscape /\ OnlyACarriedSessionStays /\ PromotionEscapesAcrossAStamp
  OBVIOUS
<1>1. \A s \in Session : Awaited(s) => Evicting
  BY DEF Awaited, Due, Evicting
<1>2. \A s \in Session : Departing(s) => Removing(row[s].org)
  BY DEF Departing, Due, Removing
<1>3. OnlyStraddlersEscape
  BY <1>1 DEF IInv, Reached, PasswordReaches, OnlyStraddlersEscape, Stale, Held, Rests
<1>4. OnlyACarriedSessionStays
  BY <1>2 DEF IInv, Reached, RemovalReaches, OnlyACarriedSessionStays, Foreign, Held, Left
<1>5. PromotionEscapesAcrossAStamp
  <2> SUFFICES ASSUME NEW f \in Flow, kind[f] = "promote", my[f].new # None, Stale(my[f].new)
               PROVE  Evicting \/ cred.updatedAt <= row[my[f].old].birth
    BY DEF PromotionEscapesAcrossAStamp
  <2>1. my[f].new \in Session
    BY Known DEF Local
  <2> QED BY <1>1, <2>1 DEF IInv, Reached, PromotionReaches, Stale, Held, Rests
<1> QED BY <1>3, <1>4, <1>5

\* Every table and every request's local has its type: only timestamps that
\* were taken are recorded, and whoever rotates knows what it rotates.
THEOREM TypeCorrect == Spec => []TypeOK
BY Invariance, PTL DEF IInv

\* Once a replaced password's revocations are done, the only sessions in use
\* that rest on the old one descend from a rotation between the snapshot and
\* the write of a bulk revocation.  No login escapes, and no other rotation.
THEOREM StraddlersOnly == Spec => []OnlyStraddlersEscape
BY Invariance, Escapes, PTL

\* Once a removal's revocations are done, no session of the organisation is in
\* use but one that a password change carried across.
THEOREM CarriedOnly == Spec => []OnlyACarriedSessionStays
BY Invariance, Escapes, PTL

\* A promotion that outlives a replacement was pending before its timestamp
\* was taken and looked again before it committed.
THEOREM AcrossAStampOnly == Spec => []PromotionEscapesAcrossAStamp
BY Invariance, Escapes, PTL

-----------------------------------------------------------------------------
(* The rows are a SessionTable.                                            *)

\* A request that has its rotation ahead of it holds no successor.
Unrotated == \A f \in Flow :
    pc[f] \in {"rotate", "stamp", "replace", "match", "sweep"} => my[f].new = None

\* How a move leaves what the lineages are read from: successors stay, and so
\* do predecessors once they are succeeded.  What a login issues succeeds nothing.
Lineal(f) ==
    /\ kind' = kind
    /\ kind[f] = "login" \/ my'[f].new = my[f].new
    /\ my'[f].old = my[f].old \/ my[f].new = None

\* What is true of no request is true of none after a move without a successor.
LEMMA StillUnrotated ==
    ASSUME IInv, Unrotated, NEW f \in Flow, Moves(f),
           pc'[f] \in {"rotate", "stamp", "replace", "match", "sweep"} => my'[f].new = None
    PROVE  Unrotated'
BY DEF Unrotated, Moves

\* The request that rotated a session into t is the one that holds t.
LEMMA TheOneThatRotated ==
    ASSUME NEW k, NEW m, NEW t, NEW f \in Flow, k[f] # "login", m[f].new = t,
           \A g \in Flow : m[g].new = t => g = f
    PROVE  m[CHOOSE g \in Flow : k[g] # "login" /\ m[g].new = t].old = m[f].old
<1>1. LET c == CHOOSE g \in Flow : k[g] # "login" /\ m[g].new = t
      IN  c \in Flow /\ m[c].new = t
  OBVIOUS
<1> QED BY <1>1

\* Before a step, and after it.
LEMMA Lineage ==
    ASSUME IInv, NEW t \in Session
    PROVE  /\ \A f \in Flow : Rotated(f, t) => lineages[t] = my[f].old
           /\ (\A f \in Flow : ~Rotated(f, t)) => lineages[t] = None
<1>1. ASSUME NEW f \in Flow, Rotated(f, t) PROVE lineages[t] = my[f].old
  <2>1. \A g \in Flow : my[g].new = t => g = f
    BY <1>1, NoneAssumption DEF IInv, IssuedOnce, Rotated
  <2>2. my[CHOOSE g \in Flow : kind[g] # "login" /\ my[g].new = t].old = my[f].old
    BY <1>1, <2>1, TheOneThatRotated DEF Rotated
  <2> QED BY <1>1, <2>2 DEF lineages, Rotated
<1> QED BY <1>1 DEF lineages

\* The same, of the state after a step.
LEMMA NextLineage ==
    ASSUME IInv', NEW t \in Session
    PROVE  /\ \A f \in Flow : Rotated(f, t)' => lineages'[t] = my'[f].old
           /\ (\A f \in Flow : ~Rotated(f, t)') => lineages'[t] = None
<1>1. ASSUME NEW f \in Flow, Rotated(f, t)' PROVE lineages'[t] = my'[f].old
  <2>1. \A g \in Flow : my'[g].new = t => g = f
    BY <1>1, NoneAssumption DEF IInv, IssuedOnce, Rotated
  <2>2. my'[CHOOSE g \in Flow : kind'[g] # "login" /\ my'[g].new = t].old = my'[f].old
    BY <1>1, <2>1, TheOneThatRotated DEF Rotated
  <2> QED BY <1>1, <2>2 DEF lineages, Rotated
<1> QED BY <1>1 DEF lineages

\* A move that keeps its successor, and the predecessor of one, shows no
\* lineage.
LEMMA SameLineages ==
    ASSUME IInv, IInv', NEW f \in Flow, Moves(f), Lineal(f)
    PROVE  lineages' = lineages
<1>1. ASSUME NEW t \in Session PROVE lineages'[t] = lineages[t]
  <2>1. \A g \in Flow : /\ Rotated(g, t)' <=> Rotated(g, t)
                        /\ Rotated(g, t) => my'[g].old = my[g].old
    BY NoneAssumption DEF Rotated, Lineal, Moves
  <2> QED BY <2>1, Lineage, NextLineage
<1>2. lineages = [t \in Session |-> lineages[t]] /\ lineages' = [t \in Session |-> lineages'[t]]
  BY DEF lineages
<1> QED BY <1>1, <1>2

\* Live rows that become revoked, and nothing else, are one revocation.
LEMMA TableRevokes ==
    ASSUME lineages' = lineages, NEW S \in SUBSET {s \in Session : Live(s)},
           \A s \in Session : row'[s].state = IF s \in S THEN "revoked" ELSE row[s].state
    PROVE  Table!Next
<1>1. S \in SUBSET Table!Live
  BY DEF Live, Table!Live, states
<1>2. states' = [s \in Session |-> IF s \in S THEN "revoked" ELSE states[s]]
  BY DEF states
<1> QED BY <1>1, <1>2 DEF Table!Next, Table!Revoke

\* What a move shows, whichever it is.
Keeps(f) == Moves(f) /\ Lineal(f) /\ Unrotated'

\* A request that starts, or dies, shows nothing.
LEMMA StartsQuietly ==
    ASSUME IInv, IInv', Unrotated, NEW f \in Flow,
           \/ LoginVerify(f) \/ Crash(f)
           \/ \E s \in Session : PromoteStart(f, s) \/ OthersStart(f, s)
           \/ \E s \in Session, o \in Org : SwitchStart(f, s, o)
           \/ \E s \in Session, p \in Password : ChangeStart(f, s, p)
           \/ \E p \in Password : ResetStart(f, p)
           \/ \E o \in Org : Remove(f, o)
    PROVE  Keeps(f) /\ row' = row
<1>1. /\ my \in [Flow -> Local] /\ my[f] \in Local /\ my' \in [Flow -> Local]
      /\ pc \in [Flow -> Steps] /\ pc' \in [Flow -> Steps]
      /\ pc[f] = "ready" => my[f].new = None
  BY Known DEF IInv, TypeOK, Requests, Request
<1>2. CASE Crash(f)
  <2>1. my' = my /\ pc' = pc /\ kind' = kind /\ row' = row
    BY <1>2 DEF Crash, tables
  <2> QED BY <1>1, <2>1 DEF Keeps, Moves, Lineal, Unrotated
<1>3. CASE ~Crash(f)
  <2>1. /\ pc[f] = "ready" /\ row' = row /\ kind' = kind
        /\ \A g \in Flow : g # f => pc'[g] = pc[g] /\ my'[g] = my[g]
    BY <1>1, <1>3 DEF LoginVerify, PromoteStart, OthersStart, SwitchStart, ChangeStart,
         ResetStart, Remove, Begins, At, Goto, tables
  <2>2. my'[f].new = my[f].new
    <3>1. CASE LoginVerify(f)
      BY <1>1, <3>1 DEF LoginVerify, Local
    <3>2. ASSUME NEW s \in Session, PromoteStart(f, s) \/ OthersStart(f, s)
          PROVE  my'[f].new = my[f].new
      BY <1>1, <3>2 DEF PromoteStart, OthersStart, Local
    <3>3. ASSUME NEW s \in Session, NEW o \in Org, SwitchStart(f, s, o)
          PROVE  my'[f].new = my[f].new
      BY <1>1, <3>3 DEF SwitchStart, Local
    <3>4. ASSUME NEW s \in Session, NEW p \in Password, ChangeStart(f, s, p)
          PROVE  my'[f].new = my[f].new
      BY <1>1, <3>4 DEF ChangeStart, Local
    <3>5. ASSUME NEW p \in Password, ResetStart(f, p)
          PROVE  my'[f].new = my[f].new
      BY <1>1, <3>5 DEF ResetStart, Local
    <3>6. ASSUME NEW o \in Org, Remove(f, o)
          PROVE  my'[f].new = my[f].new
      BY <1>1, <3>6 DEF Remove, Local
    <3> QED BY <1>3, <3>1, <3>2, <3>3, <3>4, <3>5, <3>6
  <2>3. Moves(f) /\ Lineal(f)
    BY <1>1, <2>1, <2>2 DEF Moves, Lineal
  <2> QED BY <1>1, <2>1, <2>2, <2>3, StillUnrotated DEF Keeps
<1> QED BY <1>2, <1>3

\* One that goes on keeps its sessions, unless it issues one.
LEMMA GoesOn ==
    ASSUME IInv, IInv', Unrotated, NEW f \in Flow,
           \/ RotateLost(f) \/ Answer(f) \/ Refuse(f) \/ Undo(f) \/ Stamp(f)
           \/ Replace(f) \/ ReplaceLost(f) \/ Match(f) \/ Sweep(f)
           \/ \E s \in Session : RevokeOne(f, s)
    PROVE  Keeps(f)
<1>1. /\ my \in [Flow -> Local] /\ my[f] \in Local /\ my' \in [Flow -> Local]
      /\ pc \in [Flow -> Steps] /\ pc' \in [Flow -> Steps]
  BY Known DEF IInv, TypeOK
<1>2. /\ kind' = kind
      /\ \A g \in Flow : g # f => pc'[g] = pc[g] /\ my'[g] = my[g]
      /\ \/ pc'[f] \in {"done", "undo"}
         \/ pc[f] \in {"stamp", "replace", "match", "sweep"}
  BY <1>1 DEF RotateLost, Answer, Refuse, Undo, Stamp, Replace, ReplaceLost, Match, Sweep,
       RevokeOne, Begins, At, Goto, tables
<1>3. my'[f].new = my[f].new /\ my'[f].old = my[f].old
  <2>1. CASE Stamp(f)
    BY <1>1, <2>1 DEF Stamp, Local
  <2>2. CASE Match(f)
    BY <1>1, <2>2 DEF Match, Local
  <2>3. CASE ~Stamp(f) /\ ~Match(f)
    BY <2>3 DEF RotateLost, Answer, Refuse, Undo, Replace, ReplaceLost, Sweep, RevokeOne, tables
  <2> QED BY <2>1, <2>2, <2>3
<1>4. Moves(f) /\ Lineal(f)
  BY <1>1, <1>2, <1>3 DEF Moves, Lineal
<1>5. pc'[f] \in {"rotate", "stamp", "replace", "match", "sweep"} => my'[f].new = None
  BY <1>2, <1>3 DEF Unrotated
<1> QED BY <1>4, <1>5, StillUnrotated DEF Keeps

\* An answer and a new password leave every session as live as it was.
LEMMA SameStates ==
    ASSUME IInv, NEW f \in Flow,
           \/ RotateLost(f) \/ Answer(f) \/ Refuse(f) \/ Stamp(f)
           \/ Replace(f) \/ ReplaceLost(f) \/ Match(f)
    PROVE  states' = states
<1>1. row \in [Session -> Row]
  BY DEF IInv, TypeOK
<1>2. \A s \in Session : row'[s].state = row[s].state
  BY <1>1 DEF RotateLost, Answer, Refuse, Stamp, Replace, ReplaceLost, Match, tables, Given, Row
<1> QED BY <1>2 DEF states

\* A refused session, a sign-out, a bulk revocation.
LEMMA TableEnds ==
    ASSUME IInv, NEW f \in Flow, lineages' = lineages,
           Undo(f) \/ Sweep(f) \/ \E s \in Session : RevokeOne(f, s)
    PROVE  Table!Next
<1>1. PICK S : row' = Revoked(S)
  BY DEF Undo, Sweep, RevokeOne
<1> DEFINE T == {s \in Session : s \in S /\ Live(s)}
<1>2. \A s \in Session : row[s] \in Row
  BY DEF IInv, TypeOK
<1>3. \A s \in Session : row'[s].state = IF s \in T THEN "revoked" ELSE row[s].state
  BY <1>1, <1>2 DEF Revoked, Row
<1>4. T \in SUBSET {s \in Session : Live(s)}
  OBVIOUS
<1> HIDE DEF T
<1> QED BY <1>3, <1>4, TableRevokes

\* A login issues one live session that succeeds none.
LEMMA TableIssues ==
    ASSUME IInv, IInv', Unrotated, NEW f \in Flow, NEW t \in Session,
           NEW status \in {"PENDING_MFA", "ACTIVE"}, LoginIssue(f, t, status)
    PROVE  Keeps(f) /\ Table!Next
<1> USE DEF LoginIssue, At, Goto, tables
<1>1. /\ my \in [Flow -> Local] /\ my[f] \in Local /\ my' \in [Flow -> Local]
      /\ pc \in [Flow -> Steps] /\ pc' \in [Flow -> Steps]
      /\ row \in [Session -> Row] /\ kind[f] = "login"
  BY Known DEF IInv, TypeOK, Request
<1>2. my'[f].old = my[f].old
  BY <1>1 DEF Local
<1>3. Moves(f) /\ Lineal(f)
  BY <1>1, <1>2 DEF Moves, Lineal
<1>4. pc'[f] = "recheck"
  BY <1>1
<1>5. Keeps(f)
  BY <1>3, <1>4, StillUnrotated DEF Keeps
<1>6. states' = [states EXCEPT ![t] = "live"]
  <2>1. Inserted(t, status, None, my[f].password, FALSE, "login").state = "live"
    BY DEF Inserted
  <2>2. \A u \in Session : row'[u].state = IF u = t THEN "live" ELSE row[u].state
    BY <1>1, <2>1
  <2> QED BY <2>2 DEF states
<1>7. lineages' = lineages
  BY <1>5, SameLineages DEF Keeps
<1>8. Table!Issue(t)
  BY <1>6, <1>7 DEF Table!Issue, states
<1> QED BY <1>5, <1>8 DEF Table!Next

\* A rotation ends one live session and begins its successor, which no other
\* request has issued and which the request had not rotated before.
LEMMA TableRotates ==
    ASSUME IInv, IInv', Unrotated, NEW f \in Flow, NEW t \in Session, Rotate(f, t)
    PROVE  Unrotated' /\ Table!Next
<1> USE DEF Rotate, At, Goto, tables
<1> DEFINE s == my[f].old
<1>1. /\ Request(f) /\ my \in [Flow -> Local] /\ my[f] \in Local /\ my' \in [Flow -> Local]
      /\ pc \in [Flow -> Steps] /\ pc' \in [Flow -> Steps]
      /\ row \in [Session -> Row] /\ kind[f] # "login"
  BY Known DEF IInv, TypeOK, Request
<1>2. s \in Session /\ Live(s) /\ s # t /\ row[t].state = "absent" /\ t # None
  BY <1>1, NoneAssumption DEF Request, RotateAdmits, Live, Local
<1>3. my'[f].new = t /\ my'[f].old = s
  BY <1>1 DEF Local
<1>4. Moves(f)
  BY <1>1 DEF Moves
<1>5. Unrotated'
  <2>1. pc'[f] \in {"done", "recheck"}
    BY <1>1
  <2> QED BY <1>4, <2>1, StillUnrotated
<1>6. states' = [states EXCEPT ![s] = "revoked", ![t] = "live"]
  <2> DEFINE new == [Inserted(t, "ACTIVE", SuccessorOrg(f), row[s].password,
                              row[s].straddled \/ StraddlesASweep, kind[f])
                       EXCEPT !.given = kind[f] = "change"]
             old == [row[s] EXCEPT !.state = "revoked"]
  <2>1. new.state = "live"
    BY DEF Inserted
  <2>2. old.state = "revoked"
    BY <1>1, <1>2 DEF Row
  <2>3. row' = [row EXCEPT ![s].state = "revoked", ![t] = new]
    OBVIOUS
  <2> HIDE DEF new
  <2>4. row' = [row EXCEPT ![s] = old, ![t] = new]
    BY <2>3
  <2> HIDE DEF old
  <2>5. \A u \in Session :
          row'[u].state = IF u = t THEN "live" ELSE IF u = s THEN "revoked" ELSE row[u].state
    BY <1>1, <1>2, <2>1, <2>2, <2>4
  <2>6. states' = [u \in Session |-> IF u = t THEN "live"
                                     ELSE IF u = s THEN "revoked" ELSE row[u].state]
    BY <2>5 DEF states
  <2> QED BY <1>2, <2>6 DEF states
<1>7. lineages' = [lineages EXCEPT ![t] = s]
  <2>1. \A g \in Flow : my[g].new # t
    <3>1. \A g \in Flow : Request(g)
      BY DEF IInv, Requests
    <3> HIDE DEF Rotate
    <3> QED BY <1>2, <3>1 DEF Request
  <2>2. my[f].new = None
    <3>1. pc[f] = "rotate"
      OBVIOUS
    <3> HIDE DEF Rotate
    <3> QED BY <3>1 DEF Unrotated
  <2>3. lineages'[t] = s
    BY <1>1, <1>3, NextLineage DEF Rotated
  <2>4. ASSUME NEW u \in Session, u # t PROVE lineages'[u] = lineages[u]
    <3>1. u # None
      BY NoneAssumption
    <3>2. \A g \in Flow : /\ Rotated(g, u)' <=> Rotated(g, u)
                          /\ Rotated(g, u) => my'[g].old = my[g].old
      BY <1>3, <1>4, <2>2, <2>4, <3>1 DEF Rotated, Moves
    <3> QED BY <3>2, Lineage, NextLineage
  <2>5. /\ lineages = [u \in Session |-> lineages[u]]
        /\ lineages' = [u \in Session |-> lineages'[u]]
    BY DEF lineages
  <2> QED BY <2>3, <2>4, <2>5
<1>8. Table!Rotate(s, t)
  BY <1>2, <1>6, <1>7 DEF Table!Rotate, Table!Live, states, Live
<1> QED BY <1>2, <1>5, <1>8 DEF Table!Next

\* Every step of the flows is a step of the table, or shows nothing.
LEMMA StepIsTables ==
    IInv /\ Unrotated /\ [Next]_vars => Unrotated' /\ [Table!Next]_(Table!vars)
<1> SUFFICES ASSUME IInv, Unrotated, [Next]_vars
             PROVE  Unrotated' /\ [Table!Next]_(Table!vars)
  OBVIOUS
<1>1. IInv'
  BY NextIInv
<1>2. ASSUME NEW f \in Flow, Keeps(f) PROVE Unrotated' /\ lineages' = lineages
  BY <1>1, <1>2, SameLineages DEF Keeps
<1>3. CASE UNCHANGED vars
  BY <1>3 DEF vars, Unrotated, Table!vars, states, lineages, Rotated
<1>4. CASE Next
  <2> SUFFICES ASSUME NEW f \in Flow, Begin(f) \/ Continue(f) \/ Crash(f)
               PROVE  Unrotated' /\ [Table!Next]_(Table!vars)
    BY <1>4 DEF Next
  <2>1. CASE \E s \in Session, status \in {"PENDING_MFA", "ACTIVE"} : LoginIssue(f, s, status)
    BY <1>1, <1>2, <2>1, TableIssues
  <2>2. CASE \E s \in Session : Rotate(f, s)
    BY <1>1, <2>2, TableRotates
  <2>3. CASE Undo(f) \/ Sweep(f) \/ \E s \in Session : RevokeOne(f, s)
    <3>1. Keeps(f)
      BY <1>1, <2>3, GoesOn
    <3> QED BY <1>2, <2>3, <3>1, TableEnds
  <2>4. CASE \/ RotateLost(f) \/ Answer(f) \/ Refuse(f) \/ Stamp(f)
             \/ Replace(f) \/ ReplaceLost(f) \/ Match(f)
    <3>1. Keeps(f)
      BY <1>1, <2>4, GoesOn
    <3> QED BY <1>2, <2>4, <3>1, SameStates DEF Table!vars
  <2>5. CASE \/ LoginVerify(f) \/ Crash(f)
             \/ \E s \in Session : PromoteStart(f, s) \/ OthersStart(f, s)
             \/ \E s \in Session, o \in Org : SwitchStart(f, s, o)
             \/ \E s \in Session, p \in Password : ChangeStart(f, s, p)
             \/ \E p \in Password : ResetStart(f, p)
             \/ \E o \in Org : Remove(f, o)
    <3>1. Keeps(f) /\ row' = row
      BY <1>1, <2>5, StartsQuietly
    <3> QED BY <1>2, <3>1 DEF Table!vars, states
  <2> QED BY <2>1, <2>2, <2>3, <2>4, <2>5 DEF Begin, Continue
<1> QED BY <1>3, <1>4

\* At first no request has rotated anything, and nothing is revoked.
LEMMA InitIsTables == Init => Unrotated /\ Table!Init
<1> SUFFICES ASSUME Init PROVE Unrotated /\ Table!Init
  OBVIOUS
<1>1. \A f \in Flow : my[f].new = None
  BY DEF Init
<1>2. states \in [Session -> {"absent", "live"}]
  BY DEF Init, states
<1>3. lineages = [t \in Session |-> None]
  BY <1>1, NoneAssumption DEF lineages, Rotated
<1> QED BY <1>1, <1>2, <1>3 DEF Unrotated, Table!Init

\* Requests that issue, rotate and revoke the sessions of a user keep what the
\* session table promises, in whatever order they come and whichever dies
\* half-way: they implement SessionTable.
THEOREM RowsStayASessionTable == Spec => RowsAreASessionTable
BY InitIsTables, StepIsTables, Invariance, PTL DEF Spec, RowsAreASessionTable, Table!Spec

\* What the table promises of every step it keeps.
LEMMA TableStaysLinear ==
    ASSUME states \in [Session -> {"absent", "live", "revoked"}],
           lineages \in [Session -> Session \cup {None}],
           Table!Linear, [Table!Next]_(Table!vars)
    PROVE  Table!Linear'
<1>1. CASE UNCHANGED Table!vars
  BY <1>1 DEF Table!vars, Table!Linear
<1>2. ASSUME NEW S \in SUBSET Table!Live, Table!Revoke(S) PROVE Table!Linear'
  BY <1>2 DEF Table!Live, Table!Revoke, Table!Linear
<1>3. ASSUME NEW t \in Session, Table!Issue(t) PROVE Table!Linear'
  BY <1>3 DEF Table!Issue, Table!Linear
<1>4. ASSUME NEW s \in Session, NEW t \in Session, Table!Rotate(s, t) PROVE Table!Linear'
  BY <1>4 DEF Table!Live, Table!Rotate, Table!Linear
<1> QED BY <1>1, <1>2, <1>3, <1>4 DEF Table!Next

\* Sessions of racing requests form chains: whoever promotes, switches or
\* changes a password, no session has two successors and none lives on beside
\* its successor.
THEOREM ChainsOnly == Spec => []Table!Linear
<1>1. IInv => /\ states \in [Session -> {"absent", "live", "revoked"}]
              /\ lineages \in [Session -> Session \cup {None}]
  <2> SUFFICES ASSUME IInv PROVE /\ states \in [Session -> {"absent", "live", "revoked"}]
                                 /\ lineages \in [Session -> Session \cup {None}]
    OBVIOUS
  <2>1. \A s \in Session : row[s] \in Row
    BY DEF IInv, TypeOK
  <2>2. \A f \in Flow : my[f].old \in Session \cup {None}
    BY DEF IInv, TypeOK, Local
  <2>3. \A t \in Session : lineages[t] \in Session \cup {None}
    BY <2>2, Lineage
  <2>4. lineages = [t \in Session |-> lineages[t]]
    BY DEF lineages
  <2> QED BY <2>1, <2>3, <2>4 DEF states, Row
<1>2. Table!Init => Table!Linear
  BY DEF Table!Init, Table!Linear
<1>3. IInv /\ Table!Linear /\ [Table!Next]_(Table!vars) => Table!Linear'
  BY <1>1, TableStaysLinear
<1> QED BY <1>2, <1>3, RowsStayASessionTable, Invariance, PTL
     DEF RowsAreASessionTable, Table!Spec

=============================================================================
