------------------------ MODULE TenantIsolationProofs ------------------------
(***************************************************************************)
(* What TenantIsolation guarantees for every set of organisations and rows *)
(* and every pool.                                                         *)
(***************************************************************************)
EXTENDS TenantIsolation, TLAPS

-----------------------------------------------------------------------------
(* The pool. *)

\* What a transaction runs, it runs under its own organisation's setting; what
\* runs in none, under none.
LastRanUnderItsOrganization ==
    last # Nothing =>
        /\ last.at \in {"scoped", "plain"} /\ last.model \in Model /\ last.op \in Operation
        /\ last.args \in Args
        /\ last.setting = last.org
        /\ last.at = "scoped" => last.org \in Organization
        /\ last.at = "plain" => last.org = None

IInv == TypeOK /\ LastRanUnderItsOrganization

\* An unused pool satisfies the invariant.
LEMMA InitIInv == Init => IInv
BY DEF Init, IInv, TypeOK, LastRanUnderItsOrganization, Nothing

\* A transaction is not the absence of one.
LEMMA NothingIsNone ==
    /\ Nothing.at = "none"
    /\ \A x \in Transaction : x # Nothing /\ x.at # "none"
BY DEF Nothing, Transaction

\* A transaction begins on a connection that is free, and so has no setting.
LEMMA BeginType ==
    ASSUME TypeOK, NEW t \in Task, Begin(t)
    PROVE  TypeOK'
<1>1. PICK c \in Connection, o \in Organization :
         /\ conn[c].by = None
         /\ conn' = [conn EXCEPT ![c].by = t]
         /\ task' = [task EXCEPT ![t] = [at |-> "begun", conn |-> c, org |-> o]]
  BY DEF Begin
<1>2. conn' \in [Connection -> [by : Task \cup {None}, setting : Organization \cup {None}]]
  BY <1>1 DEF TypeOK
<1>3. task' \in [Task -> {Nothing} \cup Transaction]
  BY <1>1 DEF TypeOK, Transaction
<1>4. ASSUME NEW u \in Task, task'[u] # Nothing
      PROVE  LET d == conn'[task'[u].conn]
             IN  d.by = u /\ d.setting = (IF task'[u].at = "scoped" THEN task'[u].org ELSE None)
  <2>1. CASE u = t
    BY <1>1, <2>1 DEF TypeOK
  <2>2. CASE u # t
    <3>1. task'[u] = task[u] /\ task[u] \in Transaction /\ conn[task[u].conn].by = u
      BY <1>1, <1>4, <2>2 DEF TypeOK
    <3>2. task[u].conn # c /\ task[u].conn \in Connection
      BY <1>1, <3>1, NoneAssumption DEF Transaction
    <3> QED BY <1>1, <1>4, <3>1, <3>2 DEF TypeOK
  <2> QED BY <2>1, <2>2
<1>5. \A d \in Connection : conn'[d].by = None => conn'[d].setting = None
  BY <1>1, NoneAssumption DEF TypeOK
<1> QED BY <1>2, <1>3, <1>4, <1>5 DEF TypeOK

\* The connection a transaction sets its organisation on is its own.
LEMMA SetConfigType ==
    ASSUME TypeOK, NEW t \in Task, SetConfig(t)
    PROVE  TypeOK'
<1> DEFINE c == task[t].conn
<1>1. /\ task[t] \in Transaction /\ task[t] # Nothing /\ conn[c].by = t /\ c \in Connection
      /\ conn' = [conn EXCEPT ![c].setting = task[t].org]
      /\ task' = [task EXCEPT ![t].at = "scoped"]
  BY NothingIsNone DEF SetConfig, TypeOK, Transaction
<1>2. conn' \in [Connection -> [by : Task \cup {None}, setting : Organization \cup {None}]]
  BY <1>1 DEF TypeOK, Transaction
<1>3. task' \in [Task -> {Nothing} \cup Transaction]
  BY <1>1 DEF TypeOK, Transaction
<1>4. ASSUME NEW u \in Task, task'[u] # Nothing
      PROVE  LET d == conn'[task'[u].conn]
             IN  d.by = u /\ d.setting = (IF task'[u].at = "scoped" THEN task'[u].org ELSE None)
  <2>1. CASE u = t
    BY <1>1, <2>1 DEF TypeOK, Transaction
  <2>2. CASE u # t
    <3>1. /\ task'[u] = task[u] /\ task[u] \in Transaction /\ conn[task[u].conn].by = u
          /\ task[u].conn \in Connection
      BY <1>1, <1>4, <2>2 DEF TypeOK, Transaction
    <3>2. task[u].conn # c
      BY <1>1, <2>2, <3>1
    <3> QED BY <1>1, <1>4, <3>1, <3>2 DEF TypeOK
  <2> QED BY <2>1, <2>2
<1>5. \A d \in Connection : conn'[d].by = None => conn'[d].setting = None
  BY <1>1, NoneAssumption DEF TypeOK
<1> QED BY <1>2, <1>3, <1>4, <1>5 DEF TypeOK

\* A connection goes back to the pool as it came: SET LOCAL ends with COMMIT.
LEMMA EndType ==
    ASSUME TypeOK, NEW t \in Task, End(t)
    PROVE  TypeOK'
<1> DEFINE c == task[t].conn
<1>1. /\ task[t] \in Transaction /\ task[t] # Nothing /\ conn[c].by = t /\ c \in Connection
      /\ conn' = [conn EXCEPT ![c] = [by |-> None, setting |-> None]]
      /\ task' = [task EXCEPT ![t] = Nothing]
  BY NothingIsNone DEF End, SettingAfter, TypeOK, Transaction
<1>2. conn' \in [Connection -> [by : Task \cup {None}, setting : Organization \cup {None}]]
  BY <1>1 DEF TypeOK
<1>3. task' \in [Task -> {Nothing} \cup Transaction]
  BY <1>1 DEF TypeOK
<1>4. ASSUME NEW u \in Task, task'[u] # Nothing
      PROVE  LET d == conn'[task'[u].conn]
             IN  d.by = u /\ d.setting = (IF task'[u].at = "scoped" THEN task'[u].org ELSE None)
  <2>1. /\ u # t /\ task'[u] = task[u] /\ task[u] \in Transaction
        /\ conn[task[u].conn].by = u /\ task[u].conn \in Connection
    BY <1>1, <1>4 DEF TypeOK, Transaction
  <2>2. task[u].conn # c
    BY <1>1, <2>1
  <2> QED BY <1>1, <1>4, <2>1, <2>2 DEF TypeOK
<1>5. \A d \in Connection : conn'[d].by = None => conn'[d].setting = None
  BY <1>1 DEF TypeOK
<1> QED BY <1>2, <1>3, <1>4, <1>5 DEF TypeOK

\* An operation runs under the setting its transaction has made, and a query of
\* no transaction on a connection that has none.
LEMMA RunsUnderItsOrganization ==
    ASSUME IInv, NEW t \in Task, Operate(t) \/ Plain(t)
    PROVE  LastRanUnderItsOrganization'
<1>0. TypeOK
  BY DEF IInv
<1>1. CASE Operate(t)
  <2>1. PICK model \in Model, op \in Operation, args \in Args, nested \in BOOLEAN :
          last' = [at |-> "scoped", org |-> task[t].org, setting |-> conn[task[t].conn].setting,
                   model |-> model, op |-> op, args |-> args, nested |-> nested]
    BY <1>1 DEF Operate
  <2>2. task[t].at = "scoped" /\ task[t] # Nothing /\ task[t] \in Transaction
    BY <1>0, <1>1, NothingIsNone DEF Operate, TypeOK
  <2>3. task[t].org \in Organization /\ conn[task[t].conn].setting = task[t].org
    BY <1>0, <2>2 DEF TypeOK, Transaction
  <2> QED BY <2>1, <2>3 DEF LastRanUnderItsOrganization
<1>2. CASE Plain(t)
  <2>1. PICK c \in Connection, model \in Model, op \in Operation, args \in Args :
          /\ conn[c].by = None
          /\ last' = [at |-> "plain", org |-> None, setting |-> conn[c].setting,
                      model |-> model, op |-> op, args |-> args, nested |-> FALSE]
    BY <1>2 DEF Plain
  <2>2. conn[c].setting = None
    BY <1>0, <2>1 DEF TypeOK
  <2> QED BY <2>1, <2>2 DEF LastRanUnderItsOrganization
<1> QED BY <1>1, <1>2

\* Every step keeps the invariant.
LEMMA NextIInv == IInv /\ [Next]_vars => IInv'
<1> SUFFICES ASSUME IInv, [Next]_vars PROVE IInv'
  OBVIOUS
<1>0. TypeOK /\ LastRanUnderItsOrganization
  BY DEF IInv
<1>1. CASE Answer \/ UNCHANGED vars
  BY <1>0, <1>1 DEF Answer, vars, IInv, TypeOK, LastRanUnderItsOrganization
<1>2. ASSUME NEW t \in Task, Begin(t) \/ SetConfig(t) \/ End(t)
      PROVE  IInv'
  <2>1. TypeOK'
    BY <1>0, <1>2, BeginType, SetConfigType, EndType
  <2>2. UNCHANGED last
    BY <1>2 DEF Begin, SetConfig, End
  <2> QED BY <1>0, <2>1, <2>2 DEF IInv, LastRanUnderItsOrganization
<1>3. ASSUME NEW t \in Task, Operate(t) \/ Plain(t)
      PROVE  IInv'
  <2>1. UNCHANGED <<conn, task>>
    BY <1>3 DEF Operate, Plain
  <2>2. TypeOK'
    BY <1>0, <2>1 DEF TypeOK
  <2> QED BY <1>3, <2>2, RunsUnderItsOrganization DEF IInv
<1> QED BY <1>1, <1>2, <1>3 DEF Next

-----------------------------------------------------------------------------
(* The two layers, each alone. *)

\* decideScope's plan selects only rows of its organisation, or checks them one
\* by one, and writes no other organisation's key.
LEMMA PlanIsScoped ==
    ASSUME NEW model \in Model \ {"global"}, NEW op \in Operation, NEW args \in Args,
           NEW organization \in Organization
    PROVE  LET plan == decideScope(model, op, args, organization)
           IN  /\ plan.key \in {None, organization}
               /\ \/ plan.kind \in {"refuse", "check"}
                  \/ plan.kind = "run" /\ (\/ op \in DataOperations
                                           \/ plan.where.keys \subseteq {organization})
<1>1. ScopedWhere(args.where, organization).keys \subseteq {organization}
  BY DEF Args, Where, ScopedWhere
<1>2. organization # None
  BY NoneAssumption
<1> QED BY <1>1, <1>2 DEF decideScope, Plan, ScopedData, Operation

\* The plan of the client extension reaches no key of another organisation.
LEMMA ExtensionSuffices ==
    ASSUME LastRanUnderItsOrganization
    PROVE  ExtensionIsolates
<1> SUFFICES ASSUME Tenant(last), last.at = "scoped", ~last.nested
             PROVE  KeysReached(last, PlanOf(last), Organization) \subseteq {last.org}
  BY DEF ExtensionIsolates
<1> DEFINE plan == PlanOf(last)
<1>1. /\ last.model \in Model \ {"global"} /\ last.op \in Operation /\ last.args \in Args
      /\ last.org \in Organization
  BY DEF LastRanUnderItsOrganization, Tenant, Nothing
<1>2. plan = decideScope(last.model, last.op, last.args, last.org)
  BY DEF PlanOf
<1>3. /\ plan.key \in {None, last.org}
      /\ \/ plan.kind \in {"refuse", "check"}
         \/ plan.kind = "run" /\ (\/ last.op \in DataOperations
                                  \/ plan.where.keys \subseteq {last.org})
  BY <1>1, <1>2, PlanIsScoped
<1> HIDE DEF plan
<1>4. \A row \in Reached(last.model, last.op, plan, Organization, last.org) :
         KeyOf(last.model, row) = last.org
  BY <1>3 DEF Reached, Selected
<1>5. Written(last.model, last.op, plan, Organization, last.org) \subseteq {last.org}
  BY <1>3, NoneAssumption DEF Written
<1> QED BY <1>4, <1>5 DEF KeysReached, plan

\* With the setting on the connection, the policies reach none either.
LEMMA PoliciesSuffice ==
    ASSUME LastRanUnderItsOrganization
    PROVE  PoliciesIsolate
<1> SUFFICES ASSUME Tenant(last)
             PROVE  KeysReached(last, Unscoped(last.args), Seen(last.model, last.setting))
                      \subseteq {last.org}
  BY DEF PoliciesIsolate
<1> DEFINE plan == Unscoped(last.args)
           seen == Seen(last.model, last.setting)
<1>1. seen \subseteq {last.org}
  BY DEF LastRanUnderItsOrganization, Tenant, Nothing, Seen, Visible
<1>2. plan.kind = "run"
  BY DEF Unscoped, Plan
<1> HIDE DEF plan, seen
<1>3. \A row \in Reached(last.model, last.op, plan, seen, last.org) :
         KeyOf(last.model, row) \in seen
  BY <1>2 DEF Reached, Selected
<1>4. Written(last.model, last.op, plan, seen, last.org) \subseteq seen
  BY DEF Written
<1> QED BY <1>1, <1>3, <1>4 DEF KeysReached, plan, seen

\* Together they leave every row of its own that an unscoped call would
\* reach.
LEMMA BothHideNothing ==
    ASSUME LastRanUnderItsOrganization
    PROVE  OwnRowsAreReached
<1> SUFFICES ASSUME Tenant(last), last.at = "scoped", last.op \in ManyOperations \cup FindUnique
             PROVE  Reached(last.model, last.op, PlanOf(last), Seen(last.model, last.setting),
                            last.org)
                      = {row \in Selected(last.model, last.args.where) :
                           KeyOf(last.model, row) = last.org}
  BY DEF OwnRowsAreReached
<1> DEFINE plan == PlanOf(last)
           mine == {row \in Selected(last.model, last.args.where) :
                      KeyOf(last.model, row) = last.org}
<1>1. /\ last.model # "global" /\ last.args \in Args
      /\ last.org \in Organization /\ last.org # None /\ last.setting = last.org
      /\ last.op \notin DataOperations
  BY NoneAssumption
     DEF LastRanUnderItsOrganization, Tenant, Nothing, ManyOperations, FindUnique, DataOperations
<1>2. Seen(last.model, last.setting) = {last.org}
  BY <1>1 DEF Seen, Visible
<1>3. \/ plan.kind = "run" /\ plan.where = last.args.where
      \/ plan.kind = "check" /\ plan.where = last.args.where
      \/ plan.kind = "run" /\ plan.where = ScopedWhere(last.args.where, last.org)
  BY <1>1 DEF PlanOf, Unscoped, decideScope, Plan, RootDisallowed, ManyOperations, FindUnique,
              DataOperations
<1>4. {row \in Selected(last.model, ScopedWhere(last.args.where, last.org)) :
         KeyOf(last.model, row) = last.org} = mine
  BY <1>1 DEF Selected, ScopedWhere, Args, Where
<1> HIDE DEF plan
<1> QED BY <1>1, <1>2, <1>3, <1>4 DEF Reached, plan

-----------------------------------------------------------------------------
\* A transaction has its connection to itself, under its own organisation's
\* setting, and what it gives back has none, whatever the size of the pool.
THEOREM PoolIsClean == Spec => []TypeOK
<1>1. IInv => TypeOK
  BY DEF IInv
<1> QED BY InitIInv, NextIInv, <1>1, PTL DEF Spec

\* decideScope alone keeps every top-level operation to its organisation.
THEOREM ExtensionAlone == Spec => []ExtensionIsolates
<1>1. IInv => ExtensionIsolates
  BY ExtensionSuffices DEF IInv
<1> QED BY InitIInv, NextIInv, <1>1, PTL DEF Spec

\* The row-level policies alone keep everything else to it, over every pooled
\* connection.
THEOREM PoliciesAlone == Spec => []PoliciesIsolate
<1>1. IInv => PoliciesIsolate
  BY PoliciesSuffice DEF IInv
<1> QED BY InitIInv, NextIInv, <1>1, PTL DEF Spec

\* The two together hide no row of the organisation from its own reads.
THEOREM NothingOfItsOwnIsHidden == Spec => []OwnRowsAreReached
<1>1. IInv => OwnRowsAreReached
  BY BothHideNothing DEF IInv
<1> QED BY InitIInv, NextIInv, <1>1, PTL DEF Spec
=============================================================================
