----------------------------- MODULE RateLimiter -----------------------------
(***************************************************************************)
(* The rate limiter: sliding windows that several instances of the API     *)
(* keep in Redis, each request charging them at the two stages of the      *)
(* guard pipeline.                                                         *)
(*                                                                         *)
(* A script is one step, for Redis runs it to completion.  The reading of  *)
(* the instance's clock, each script and its reply are steps of their own, *)
(* and Redis may be out of reach for any of them.                          *)
(***************************************************************************)
EXTENDS Integers, FiniteSets

CONSTANTS
    Instance, Skew,         \* the processes, and how far each one's clock is ahead
    Call,                   \* the requests, numbered in the order they arrive
    Unlucky,                \* bound: those whose connection may break under a command
    Address, Account, Organization,
    Limit,                  \* RATE_LIMIT_CLASSES: class to scope to limit
    FromBody,               \* the classes whose principal the body names
    Closed,                 \* the classes whose failMode is "closed"
    WindowSeconds, Second,  \* the window, and the ticks of a second
    None,                   \* no identifier, and no refusal
    MaxLag,                 \* bound: from a request's clock reading to its last script
    MaxClock                \* bound: how long the clock runs

Class == DOMAIN Limit
Scope == {"perIp", "perPrincipal", "perOrganization"}
Window == WindowSeconds * Second

ASSUME CallAssumption == Call \subseteq Nat
\* One of the clocks is furthest ahead.
ASSUME SkewAssumption ==
    /\ Skew \in [Instance -> Nat]
    /\ \E i \in Instance : \A j \in Instance : Skew[j] =< Skew[i]
ASSUME NoneAssumption == None \notin Address \cup Account \cup Organization
ASSUME WindowAssumption ==
    WindowSeconds \in Nat \ {0} /\ Second \in Nat \ {0} /\ MaxLag \in Nat /\ MaxClock \in Nat
ASSUME LimitAssumption ==
    \A class \in Class : \A scope \in DOMAIN Limit[class] :
        /\ scope \in Scope
        /\ Limit[class][scope] \in Nat \ {0}
\* No class of the table has scopes at both stages of the pipeline.
ASSUME OneStageAssumption ==
    \A class \in Class : "perOrganization" \in DOMAIN Limit[class] =>
        DOMAIN Limit[class] = {"perOrganization"}

VARIABLES
    clock,        \* the true time
    entries,      \* the sorted set under each key
    expires,      \* when each key goes
    call,         \* what each request is at
    charged,      \* history: who took each slot, and when
    refused       \* history: the last refusal at a key since a slot was taken

vars == <<clock, entries, expires, call, charged, refused>>

-----------------------------------------------------------------------------
\* slidingWindowKey: the class, the scope and the identifier.
Identifier == [perIp |-> Address, perPrincipal |-> Account, perOrganization |-> Organization]

\* resolveIdentifier: a body may lack the field, and no authenticated principal
\* is ever there to be read.
Resolves(class, scope) ==
    IF scope # "perPrincipal" THEN Identifier[scope]
    ELSE (IF class \in FromBody THEN Account ELSE {}) \cup {None}

Key == UNION { UNION { {<<class, scope, id>> : id \in Identifier[scope]}
                       : scope \in DOMAIN Limit[class] } : class \in Class }
LimitOf(key) == Limit[key[1]][key[2]]

Waiting == [at |-> "waiting"]
Refused == [at |-> "refused"]
Requests ==
    UNION { { [class |-> class, id |-> id] :
                id \in {f \in [DOMAIN Limit[class] -> UNION {Resolves(class, s) : s \in DOMAIN Limit[class]}] :
                          \A s \in DOMAIN Limit[class] : f[s] \in Resolves(class, s)} }
            : class \in Class }

\* A request between its clock and its answer, and one that was let through.
Guarded ==
    [at : {"guard"}, request : Requests, spent : SUBSET Scope, instance : Instance, now : Nat,
     todo : SUBSET Scope, sent : BOOLEAN]
Handled == [at : {"handler"}, class : Class, spent : SUBSET Scope, due : SUBSET Scope]

Now(instance) == clock + Skew[instance]

-----------------------------------------------------------------------------
(* The windows.                                                            *)

InWindow(set, now) == {e \in set : e.score > now - Window}

KeyedByTime(set, now, member) ==             \* mutant: two requests of one instant are one entry
    IF \E e \in set : e.score = now THEN set
    ELSE set \cup {[score |-> now, member |-> member]}
NewEachRun(set, now, member) ==              \* mutant: a script run again takes another entry
    set \cup {[score |-> now, member |-> member + 10 * Cardinality(set)]}
\* The member of a request is its own; a script run again finds it there.
Taken(set, now, member) == set \cup {[score |-> now, member |-> member]}

Oldest(set) == CHOOSE s \in {e.score : e \in set} : \A e \in set : s =< e.score

Floor(n) == n \div Second                    \* mutant: the wait is rounded down
Ceil(n) == (n + Second - 1) \div Second

Clamp(seconds) == IF seconds > WindowSeconds THEN WindowSeconds
                  ELSE IF seconds < 1 THEN 1 ELSE seconds

\* resetSeconds of a refusal.
RetryAfter(set, now) == Clamp(Ceil(Oldest(set) + Window - now))

HasRoom(set, limit) == Cardinality(set) < limit

\* CONSUME_SCRIPT: what key holds afterwards, and whether the request has a slot.
Consumed(key, now, member) ==
    LET kept == InWindow(entries[key], now)
    IN  IF HasRoom(kept, LimitOf(key))
        THEN [set |-> Taken(kept, now, member), allowed |-> TRUE]
        ELSE [set |-> kept, allowed |-> FALSE]

-----------------------------------------------------------------------------
(* The guard.                                                              *)

Init ==
    /\ clock = Window
    /\ entries = [k \in Key |-> {}] /\ expires = [k \in Key |-> 0]
    /\ call = [c \in Call |-> Waiting]
    /\ charged = [k \in Key |-> {}]
    /\ refused = [k \in Key |-> None]

Resolvable(request) == {s \in DOMAIN Limit[request.class] : request.id[s] # None}

\* applyFailMode.
AlwaysOpen(class) == TRUE                    \* mutant: an outage lifts every limit
FailsOpen(class) == class \notin Closed

Passed(request, spent) ==
    [at |-> "handler", class |-> request.class, spent |-> spent, due |-> Resolvable(request)]

\* The stage that has a scope of the class: it reads the clock, and ends there
\* when none of them resolves.
Arrive(c) ==
    /\ call[c] = Waiting /\ \A d \in Call : d < c => call[d] # Waiting
    /\ \E request \in Requests, i \in Instance :
         call' = [call EXCEPT ![c] =
            CASE Resolvable(request) # {} ->
                   [at |-> "guard", request |-> request, spent |-> {}, instance |-> i,
                    now |-> Now(i), todo |-> Resolvable(request), sent |-> FALSE]
              [] Resolvable(request) = {} /\ FailsOpen(request.class) -> Passed(request, {})
              [] OTHER -> Refused]
    /\ UNCHANGED <<clock, entries, expires, charged, refused>>

\* The scopes are taken in the order of RATE_LIMIT_SCOPES.
NextScope(todo) == IF "perIp" \in todo THEN "perIp" ELSE CHOOSE s \in todo : TRUE

ChargesTheRest(allowed, left) == left # {}   \* mutant: a refused request goes on
\* The loop leaves at the first refusal.
GoesOn(allowed, left) == allowed /\ left # {}

Continued(m, scope, allowed) ==
    LET left == m.todo \ {scope}
        next == [m EXCEPT !.todo = left, !.sent = FALSE,
                          !.spent = IF allowed THEN @ \cup {scope} ELSE @]
    IN  CASE GoesOn(allowed, left) -> next
          [] ~GoesOn(allowed, left) /\ next.spent = Resolvable(m.request) ->
               Passed(m.request, next.spent)
          [] OTHER -> Refused

CameFrom(request) == IF "perIp" \in DOMAIN request.id THEN request.id["perIp"] ELSE None

\* The window a request is to be charged to next.
KeyOf(m) == LET scope == NextScope(m.todo)
            IN  <<m.request.class, scope, m.request.id[scope]>>

Refusal(set, now) ==
    [now |-> now, until |-> now + Second * RetryAfter(set, now), ahead |-> Oldest(set) > now]

\* Redis runs the script: what it does to the key, whoever hears of it.
Runs(c) ==
    LET m == call[c]
        key == KeyOf(m)
        outcome == Consumed(key, m.now, c)
        kept == InWindow(entries[key], m.now)
    IN  /\ m.at = "guard"
        /\ entries' = [entries EXCEPT ![key] = outcome.set]
        /\ expires' = [expires EXCEPT ![key] = clock + Window]
        /\ charged' = IF outcome.allowed /\ c \notin {e.member : e \in kept}
                      THEN [charged EXCEPT ![key] =
                              @ \cup {[at |-> clock, by |-> CameFrom(m.request), call |-> c]}]
                      ELSE charged
        /\ refused' = [refused EXCEPT ![key] =
                         IF outcome.allowed THEN None ELSE Refusal(outcome.set, m.now)]
        /\ UNCHANGED clock

\* A command that reached Redis and came back.
Consume(c) ==
    /\ Runs(c)
    /\ LET m == call[c]
       IN  call' = [call EXCEPT ![c] =
                      Continued(m, NextScope(m.todo), Consumed(KeyOf(m), m.now, c).allowed)]

\* The script ran and the connection went before its reply: the client sends
\* the command again, once (maxRetriesPerRequest).
LoseReply(c) ==
    /\ c \in Unlucky /\ Runs(c)
    /\ ~call[c].sent
    /\ call' = [call EXCEPT ![c].sent = TRUE]

\* The command fails: the catch block, and the class's fail mode.
CommandFails(c) ==
    LET m == call[c]
    IN  /\ m.at = "guard"
        /\ call' = [call EXCEPT ![c] = IF FailsOpen(m.request.class) THEN Passed(m.request, m.spent) ELSE Refused]
        /\ UNCHANGED <<clock, entries, expires, charged, refused>>

-----------------------------------------------------------------------------
(* The environment.                                                        *)

Ahead == CHOOSE s \in {Skew[i] : i \in Instance} : \A i \in Instance : s >= Skew[i]
Spread == MaxLag + Ahead

Retained(set) == {x \in set : x.at > clock - Window - Spread}

Tick ==
    /\ clock < MaxClock
    /\ \A c \in Call : call[c].at = "guard" =>
         clock - (call[c].now - Skew[call[c].instance]) < MaxLag
    /\ clock' = clock + 1
    /\ entries' = [k \in Key |-> IF expires[k] =< clock' THEN {} ELSE entries[k]]
    /\ expires' = [k \in Key |-> IF expires[k] =< clock' THEN 0 ELSE expires[k]]
    /\ charged' = [k \in Key |-> Retained(charged[k])]
    /\ refused' = [k \in Key |-> IF refused[k] # None /\ refused[k].until < clock - Spread
                                  THEN None ELSE refused[k]]
    /\ UNCHANGED call

Next ==
    \/ Tick
    \/ \E c \in Call :
          \/ Arrive(c) \/ Consume(c) \/ LoseReply(c) \/ CommandFails(c)

Spec == Init /\ [][Next]_vars

-----------------------------------------------------------------------------
\* Every key has its type: no window ever holds more members than its limit, a
\* refused request being recorded nowhere.
TypeOK ==
    /\ clock \in Nat
    /\ entries \in [Key -> SUBSET [score : Nat, member : Call]]
    /\ \A k \in Key : IsFiniteSet(entries[k]) /\ Cardinality(entries[k]) =< LimitOf(k)
    /\ expires \in [Key -> Nat]
    /\ call \in [Call -> {Waiting, Refused} \cup Guarded \cup Handled]
    /\ charged \in [Key -> SUBSET [at : Nat, by : Address \cup {None}, call : Call]]
    /\ refused \in [Key -> {None} \cup [now : Nat, until : Nat, ahead : BOOLEAN]]

Within(set, from, to) == {x \in set : from < x.at /\ x.at =< to}

\* However the instances' clocks disagree and however late their scripts run, a
\* window gives no more slots than its limit in any stretch of time that is
\* shorter than it by that disagreement.
NoWindowOverflows ==
    \A k \in Key : \A x \in charged[k] :
        Cardinality(Within(charged[k], x.at - (Window - Spread), x.at)) =< LimitOf(k)

\* A caller is refused only when the limit's worth of slots was taken lately:
\* the requests that were turned away do not keep the door shut.
RefusalsAreEarned ==
    [][\A k \in Key :
         refused'[k] \notin {None, refused[k]}  =>
           Cardinality(Within(charged[k], clock - (Window + Spread), clock)) >= LimitOf(k)]_refused

\* A refused caller who waits as long as it was told, while nobody takes a
\* slot, is not refused again; unless the oldest entry was ahead of its clock.
RetryAfterIsEnough ==
    [][\A k \in Key :
         /\ refused[k] # None /\ refused'[k] # None
         /\ refused'[k] # refused[k] /\ ~refused[k].ahead
         => refused'[k].now < refused[k].until]_refused

\* The slots of accounts that requests from an address took.
TakenBy(class, a) ==
    UNION {{<<id, x>> : x \in {y \in charged[<<class, "perPrincipal", id>>] : y.by = a}}
           : id \in Account}

\* One address, whatever accounts it names, takes no more slots of theirs in a
\* window than its own limit: the damage one address can do is bounded.
AnAddressIsBounded ==
    \A class \in Class : {"perIp", "perPrincipal"} \subseteq DOMAIN Limit[class] =>
        \A a \in Address :
            \A z \in TakenBy(class, a) :
                Cardinality({y \in TakenBy(class, a) :
                    /\ z[2].at - (Window - Spread - MaxLag) < y[2].at
                    /\ y[2].at =< z[2].at}) =< Limit[class]["perIp"]

\* A request of a class that fails closed reaches its handler only with a slot
\* of every window that applies to it, and of one at least, whenever Redis went.
ClosedClassesPay ==
    \A c \in Call : call[c].at = "handler" /\ call[c].class \in Closed =>
        call[c].spent # {} /\ call[c].spent = call[c].due
=============================================================================
