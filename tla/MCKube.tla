------------------------------- MODULE MCKube -------------------------------
(* Two tests with three edits in all on a home config of two contexts, one of    *)
(* which may work on a copy; two nodes, and waits of up to three checks.       *)
EXTENDS Kube

MCBudgets == {-1, 0, 2}
MCHome == [contexts |-> [c \in {"a", "b"} |-> [cluster |-> c, user |-> "admin"]],
           clusters |-> {"a", "b"}, users |-> {"admin", "spare"}, current |-> "a"]
MCContexts == <<"a", "b">>
=============================================================================
