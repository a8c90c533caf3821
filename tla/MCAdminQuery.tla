---------------------------- MODULE MCAdminQuery ----------------------------
(* An instance of AdminQuery for TLC. *)
EXTENDS AdminQuery

\* A column that only some answers have, one that is unknown, a null, a value
\* twice.
MCReplies ==
  { [type |-> "table", headers |-> <<2>>, rows |-> << <<1>> >>],
    [type |-> "table", headers |-> <<1, 9, 2>>, rows |-> << <<Null, 1, 2>>, <<1, 1, 1>> >>] }

on(c, op, expr) == {Constraint(c, op, expr)}

\* The third set throws while servers are chosen, and otherwise uses no constraint.
MCConstraints ==
  { on(0, "LT", 1) \cup on(2, "EQ", 1), on(0, "GE", 1) \cup on(0, "NE", 0) \cup on(1, "EQ", 1),
    on(0, "EQ", Text) }
=============================================================================
