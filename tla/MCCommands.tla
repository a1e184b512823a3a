----------------------------- MODULE MCCommands -----------------------------
(* Up to two lines on each stream, through pipes of one line; one retry, and a *)
(* workspace whose name, as a regular expression, matches another's too; three *)
(* builds; a remote directory of up to three files; a folder with a module in  *)
(* it, where another test has its state, in both, and its .terraform.          *)
EXTENDS Commands

MCMatchedBy == [n \in Workspaces |-> IF n = "a.c" THEN {"a.c", "abc"} ELSE {n}]

MCTree ==
  [p \in {<<"main.tf">>, <<"vars">>, <<"modules">>, <<"modules", "link">>} |->
     CASE p = <<"modules">> -> "dir" [] p = <<"modules", "link">> -> "link" [] OTHER -> "file"]
MCVolatile ==
  [p \in {<<".terraform">>, <<".terraform", "lock">>, <<"state">>, <<"modules", "state">>} |->
     IF p = <<".terraform">> THEN "dir" ELSE "file"]
=============================================================================
