---------------------------- MODULE MCToolBatch ----------------------------
(* Small instances of ToolBatch for TLC. *)
EXTENDS ToolBatch

MCId    == [c \in 1..N |-> c]
MCNames == {"", "a", "A", "b"}
MCLower == [n \in MCNames |-> IF n = "A" THEN "a" ELSE n]
MCPlaces == {<<"", "a">>, <<"", "a", "b">>, <<"", "b">>}

File(op, p) == [kind |-> "File", path |-> p, operation |-> op]
Runs(accesses) == [accesses |-> accesses, stop |-> FALSE]

\* Read /a, Edit /A/ (another case, a trailing slash), Write /a/b and /b in
\* one plan, Write without a path, Grep, Bash, UpdateGoal (stops the batch).
MCPlans ==
    { Runs({File("Read", <<"", "a">>)}),
      Runs({File("ReadWrite", <<"", "A", "">>)}),
      Runs({File("Write", <<"", "a", "b">>), File("Write", <<"", "b">>)}),
      Runs({File("Write", NoPath)}),
      Runs({[kind |-> "Search", path |-> <<"", "a">>, operation |-> "Read"]}),
      Runs({[kind |-> "All", path |-> NoPath, operation |-> "ReadWrite"]}),
      [accesses |-> {}, stop |-> TRUE] }
=============================================================================
