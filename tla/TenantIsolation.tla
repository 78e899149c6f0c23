--------------------------- MODULE TenantIsolation ---------------------------
(***************************************************************************)
(* The two layers that keep an organisation's rows to itself: the client   *)
(* extension that scopes each operation a handler runs, and the row-level  *)
(* security of the database, which acts on a setting of the connection.    *)
(*                                                                         *)
(* The connections are pooled: a transaction takes one, sets the           *)
(* organisation on it and gives it back, and the next request may get it.  *)
(***************************************************************************)
EXTENDS Integers, FiniteSets

CONSTANTS
    Organization,       \* the tenant root's rows
    Row, OwnerOf,       \* the rows of a tenant-owned model, and whose each is
    Connection, Task,   \* the pool, and the requests that use it
    None

ASSUME OwnerAssumption == OwnerOf \in [Row -> Organization]
ASSUME NoneAssumption == None \notin Organization \cup Task

VARIABLES
    conn,   \* by whom each connection is held, and its app.organization_id
    task,   \* the organisation and the connection of each transaction
    last    \* history: the last operation, and the setting it ran under

vars == <<conn, task, last>>

-----------------------------------------------------------------------------
(* The models: a tenant-owned one is scoped by organizationId, the root by *)
(* id, and what is deliberately global by nothing.                         *)

Model == {"owned", "root", "global"}
Rows(model) == IF model = "root" THEN Organization ELSE Row
KeyOf(model, row) == IF model = "root" THEN row ELSE OwnerOf[row]

\* A where clause is a conjunction: rows by their identity, and by the key.
Where == [ids : SUBSET Row \cup SUBSET Organization, keys : SUBSET Organization]
Selected(model, where) ==
    {row \in Rows(model) : row \in where.ids /\ KeyOf(model, row) \in where.keys}

ManyOperations ==
    {"findFirst", "findFirstOrThrow", "findMany", "count", "aggregate", "groupBy", "deleteMany"}
ManyWithData == {"updateMany", "updateManyAndReturn"}
DataOperations == {"create", "createMany", "createManyAndReturn"}
FindUnique == {"findUnique", "findUniqueOrThrow"}
RootDisallowed == DataOperations \cup {"upsert"}
Operation == ManyOperations \cup ManyWithData \cup DataOperations \cup FindUnique
             \cup {"delete", "update", "upsert", "anyOther"}

Writes(op) == op \in ManyWithData \cup DataOperations \cup {"update", "upsert"}

-----------------------------------------------------------------------------
(* decideScope.                                                            *)

\* withScopedWhere: both conditions hold, whatever the caller's says of the key.
Overwrites(where, organization) ==           \* mutant: the caller's condition is replaced
    [where EXCEPT !.keys = {organization}]
ScopedWhere(where, organization) == [where EXCEPT !.keys = @ \cap {organization}]

\* scopeUniqueWhere refuses another organisation's key and adds the caller's.
UniqueIsOurs(where, organization) == organization \in where.keys

\* withScopedData: the scope column of every row written.
KeepsTheCallers(key, organization) ==        \* mutant: only an absent column is filled in
    IF key = None THEN organization ELSE key
ScopedData(key, organization) == organization

Plan(kind, where, key) == [kind |-> kind, where |-> where, key |-> key]

decideScope(model, op, args, organization) ==
    LET where == ScopedWhere(args.where, organization)
        key == ScopedData(args.key, organization)
        refuse == Plan("refuse", args.where, None)
    IN  IF model = "global" THEN Plan("run", args.where, args.key)
        ELSE IF organization = None \/ (model = "root" /\ op \in RootDisallowed) THEN refuse
        ELSE CASE op \in FindUnique -> Plan("check", args.where, None)
               [] op \in ManyOperations -> Plan("run", where, None)
               [] op \in ManyWithData -> Plan("run", where, key)
               [] op \in {"delete", "update", "upsert"} ->
                    IF UniqueIsOurs(args.where, organization)
                    THEN Plan("run", where, key) ELSE refuse
               [] op \in DataOperations -> Plan("run", args.where, key)
               [] OTHER -> refuse

-----------------------------------------------------------------------------
(* What an operation does: the rows it reaches, and the keys of the rows   *)
(* it writes, when the database lets it see and write those of `seen`.     *)

Reached(model, op, plan, seen, organization) ==
    LET rows == IF op \in DataOperations THEN {}
                ELSE {row \in Selected(model, plan.where) : KeyOf(model, row) \in seen}
    IN  CASE plan.kind = "refuse" -> {}
          [] plan.kind = "check" -> {row \in rows : KeyOf(model, row) = organization}
          [] OTHER -> rows

\* An update that names no key leaves it; an insert without one is refused.
Written(model, op, plan, seen, organization) ==
    LET rows == Reached(model, op, plan, seen, organization)
        inserts == op \in DataOperations \/ (op = "upsert" /\ rows = {})
    IN  IF plan.kind = "refuse" \/ ~Writes(op) \/ plan.key \notin seen THEN {}
        ELSE IF inserts \/ rows # {} THEN {plan.key} ELSE {}

\* The policies: rows of the setting's organisation, and none without one. (A
\* setting that was never made reads NULL, and '' after SET LOCAL has ended; no
\* organisation has either for an id.)
Visible(setting) == {o \in Organization : o = setting}

\* Global models have no policy.
Seen(model, setting) == IF model = "global" THEN Organization ELSE Visible(setting)

-----------------------------------------------------------------------------
(* The pool.                                                               *)

Nothing == [at |-> "none"]
Transaction == [at : {"begun", "scoped"}, conn : Connection, org : Organization]

Init ==
    /\ conn = [c \in Connection |-> [by |-> None, setting |-> None]]
    /\ task = [t \in Task |-> Nothing]
    /\ last = Nothing

\* withTenantTransaction takes a connection and begins.
Begin(t) ==
    /\ task[t] = Nothing
    /\ \E c \in Connection, o \in Organization :
         /\ conn[c].by = None
         /\ conn' = [conn EXCEPT ![c].by = t]
         /\ task' = [task EXCEPT ![t] = [at |-> "begun", conn |-> c, org |-> o]]
    /\ UNCHANGED last

\* Its first statement sets the organisation, for the transaction.
SetConfig(t) ==
    /\ task[t].at = "begun"
    /\ conn' = [conn EXCEPT ![task[t].conn].setting = task[t].org]
    /\ task' = [task EXCEPT ![t].at = "scoped"]
    /\ UNCHANGED last

Args == [where : Where, key : Organization \cup {None}]

\* What a handler runs on the client it is given; `nested` is what the query
\* engine makes of a relation in it, which the extension does not see.
Operate(t) ==
    /\ task[t].at = "scoped" /\ last = Nothing
    /\ \E model \in Model, op \in Operation, args \in Args, nested \in BOOLEAN :
         last' = [at |-> "scoped", org |-> task[t].org, setting |-> conn[task[t].conn].setting,
                  model |-> model, op |-> op, args |-> args, nested |-> nested]
    /\ UNCHANGED <<conn, task>>

\* COMMIT or ROLLBACK: what was set for the transaction goes with it.
OutlivesTheTransaction(c) == conn[c].setting         \* mutant: SET, not SET LOCAL
SettingAfter(c) == None

End(t) ==
    /\ task[t].at \in {"begun", "scoped"}
    /\ conn' = [conn EXCEPT ![task[t].conn] =
                  [by |-> None, setting |-> SettingAfter(task[t].conn)]]
    /\ task' = [task EXCEPT ![t] = Nothing]
    /\ UNCHANGED last

\* A query of the unscoped client, on whatever connection is free.
Plain(t) ==
    /\ task[t] = Nothing /\ last = Nothing
    /\ \E c \in Connection, model \in Model, op \in Operation, args \in Args :
         /\ conn[c].by = None
         /\ last' = [at |-> "plain", org |-> None, setting |-> conn[c].setting,
                     model |-> model, op |-> op, args |-> args, nested |-> FALSE]
    /\ UNCHANGED <<conn, task>>

\* Its result is delivered, and the next operation may run.
Answer ==
    /\ last # Nothing
    /\ last' = Nothing
    /\ UNCHANGED <<conn, task>>

Next ==
    \/ Answer
    \/ \E t \in Task : Begin(t) \/ SetConfig(t) \/ Operate(t) \/ End(t) \/ Plain(t)

Spec == Init /\ [][Next]_vars

-----------------------------------------------------------------------------
Unscoped(args) == Plan("run", args.where, args.key)

\* The extension's plan for a top-level operation; the caller's own arguments
\* for the rest.
PlanOf(m) ==
    IF m.at = "scoped" /\ ~m.nested THEN decideScope(m.model, m.op, m.args, m.org)
    ELSE Unscoped(m.args)

KeysReached(m, plan, seen) ==
    {KeyOf(m.model, row) : row \in Reached(m.model, m.op, plan, seen, m.org)}
      \cup Written(m.model, m.op, plan, seen, m.org)

Tenant(m) == m.at # "none" /\ m.model # "global"

\* Types; a transaction has its connection to itself, with its own organisation
\* set from its first statement on, and a free connection has none.
TypeOK ==
    /\ conn \in [Connection -> [by : Task \cup {None}, setting : Organization \cup {None}]]
    /\ task \in [Task -> {Nothing} \cup Transaction]
    /\ \A t \in Task : task[t] # Nothing =>
         LET c == conn[task[t].conn]
         IN  c.by = t /\ c.setting = (IF task[t].at = "scoped" THEN task[t].org ELSE None)
    /\ \A c \in Connection : conn[c].by = None => conn[c].setting = None

\* The extension alone keeps a top-level operation to the rows of its
\* organisation, were there no policy in the database.
ExtensionIsolates ==
    Tenant(last) /\ last.at = "scoped" /\ ~last.nested =>
        KeysReached(last, PlanOf(last), Organization) \subseteq {last.org}

\* The policies alone keep everything a transaction does to its organisation,
\* a mistake of the extension and what it cannot see included; and what runs in
\* none, on a connection another request gave back, to no organisation at all.
PoliciesIsolate ==
    Tenant(last) =>
        KeysReached(last, Unscoped(last.args), Seen(last.model, last.setting))
          \subseteq {last.org}

\* Isolation hides nothing: a read returns every row of the organisation that
\* the caller's own condition selects, and none that it does not.
OwnRowsAreReached ==
    Tenant(last) /\ last.at = "scoped" /\ last.op \in ManyOperations \cup FindUnique =>
        Reached(last.model, last.op, PlanOf(last), Seen(last.model, last.setting), last.org)
          = {row \in Selected(last.model, last.args.where) : KeyOf(last.model, row) = last.org}
=============================================================================
