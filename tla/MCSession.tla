----------------------------- MODULE MCSession ------------------------------
(***************************************************************************)
(* Session for TLC: two files or directories besides the root, every       *)
(* command on paths of up to four characters, and two names at once for    *)
(* the commands that take several.                                         *)
(***************************************************************************)
EXTENDS Session

a == "a"
b == "b"
slash == "/"
dot == "."

MCPaths ==
  {<<a>>, <<b>>, <<slash>>, <<dot>>, <<dot, dot>>, <<slash, a>>, <<a, slash>>,
   <<a, slash, b>>, <<slash, a, slash, b>>, <<a, slash, dot, dot>>,
   <<a, slash, slash, b>>, <<slash, a, b>>, <<dot, slash, a>>}

MCCharacters == {a, b, slash, dot, " ", "0", "1"}

On(ops, argss) == [op : ops, words : argss]

MCLines ==
  On({"?", "pwd", "ls", "lsr", "checkfs", "catr", "touch", "quit", "other"}, {<<>>})
  \cup On({"cd", "ls", "lsr", "catr", "stat", "cat", "touch", "mkdir", "rm"},
          {<<p>> : p \in MCPaths \cup {<<>>}})
  \cup On({"touch", "stat", "cat"},
          {<<<<a>>, p>> : p \in {<<b>>, <<slash, b>>, <<a, slash, b>>}})
  \cup On({"mkdir", "rm", "cd", "ls", "checkfs", "pwd", "catr", "quit"}, {<<<<a>>, <<b>>>>})
  \cup On({"write"}, {<<p, <<b>>>> : p \in {<<a>>, <<a, slash, b>>, <<dot>>}})
  \cup On({"owrite"}, {<<p, n, <<b>>>> : p \in {<<a>>, <<a, slash, b>>}, n \in {<<"1">>, <<b>>}})
  \cup On({"oread"}, {<<p, <<"0">>, n>> : p \in {<<a>>, <<a, slash, b>>},
                                           n \in {<<"0">>, <<"1">>, <<b>>}})
=============================================================================
