------------------------------ MODULE MCCloud ------------------------------
(* Two receivers of one queue with timeouts around the cycle of 20 seconds; a *)
(* bucket with three keys and pages of two entries; two images that share a   *)
(* snapshot; two tests on one instance; three instances, one without an    *)
(* address, in pages of two;                                                  *)
(* three regions, with a zone whose name contains the names of two of them.   *)
EXTENDS Cloud

MCTimeouts == {0, 2, 39}
MCBacking == [a \in Amis |-> IF a = "a1" THEN {"s1", "s2"} ELSE {"s2", "s3"}]
MCItems == {<<"ssh-keys", "anne">>, <<"ssh-keys", "bob">>, <<"tier", "web">>}
MCInstances == 1 .. 3
MCRegionsIn == [z \in {"east1-b", "east1-c", "east12-b"} |->
                  IF z = "east12-b" THEN {"east1", "east12"} ELSE {"east1"}]
=============================================================================
