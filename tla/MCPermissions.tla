--------------------------- MODULE MCPermissions ---------------------------
EXTENDS Permissions

Act(t, p, r) == [type |-> t, place |-> p, risk |-> r]

\* Two edits of the planned file, which share their batch key; one that reaches
\* outside and rewrites the plan's own file; a read of a secret outside; write_plan.
E1 == [tool |-> "edit", args |-> 1, key |-> "f", acts |-> {Act("edit", "f", "low")}]
E2 == [E1 EXCEPT !.args = 2]
Out == [tool |-> "edit", args |-> 1, key |-> "out",
        acts |-> {Act("edit", "far", "low"), Act("edit", "plans", "low")}]
Secret == [tool |-> "read", args |-> 1, key |-> "secret", acts |-> {Act("read", "far", "secret")}]
WritePlan == [tool |-> "write_plan", args |-> 1, key |-> "plan", acts |-> {Act("plan", "plans", "low")}]

MCCalls == {E1, E2, Out, Secret, WritePlan}
MCResponses ==
  { <<c>> : c \in MCCalls } \cup
  { <<E1, E1>>, <<E1, E2>>, <<E1, Out>>, <<Out, E1>>, <<E1, Secret, E2>> }
============================================================================
