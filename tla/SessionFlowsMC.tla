--------------------------- MODULE SessionFlowsMC ---------------------------
(* Instances of SessionFlows: which requests race each other. *)
EXTENDS SessionFlows, TLC

Race(a, b, c, d) == [first |-> a, second |-> b, third |-> c, fourth |-> d]
Flows == {"first", "second", "third", "fourth"}

AllRaces == {Race("login", "promote", "reset", "change"),
             Race("switch", "reset", "revoke", "revoke"),
             Race("switch", "change", "remove", "others")}
ResetAndSwitch    == {Race("reset", "switch", "revoke", "revoke")}

Symmetric == Permutations(Session \ Standing) \cup Permutations(Standing)

=============================================================================
