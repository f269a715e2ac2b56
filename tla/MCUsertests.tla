---------------------------- MODULE MCUsertests ----------------------------
(* Instances of Usertests for TLC. *)
EXTENDS Usertests

\* The tree the tests start from: /echo, /cat and /README.
InitialTree ==
    [i \in 1..NInum |->
        CASE i = 1 -> [type |-> "dir", nlink |-> 1,
                       body |-> [x \in {".", "..", "echo", "cat", "README"} |->
                                   CASE x = "echo" -> 2 [] x = "cat" -> 3
                                     [] x = "README" -> 4 [] OTHER -> 1]]
          [] i \in 2..4 -> [type |-> "file", nlink |-> 1, body |-> <<"text">>]
          [] OTHER -> FreeDinode]

CONSTANT Tests  \* the tests to run
AllTests == DOMAIN Test \ {"movingaway"}

MCSpec == TestInit(Tests) /\ [][TestNext]_tvars
=============================================================================
