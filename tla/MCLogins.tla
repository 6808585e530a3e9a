------------------------------ MODULE MCLogins ------------------------------
(* An instance of Logins for TLC. *)
EXTENDS Logins

CONSTANTS l0, l1, l2, k1, b1, b2, s1, s2

Logins3 == {l0, l1, l2}
HereOnly == {l0, l1}
Setters == {k1}
Browsers == {b1, b2}
States == {s1, s2}

(* To start with, some of the others are over: l0 was killed before it had *)
(* stored the first file, l2 timed out, k1 has set its value, b2 came with *)
(* a state nobody waits for.  So either two commands authenticate, or one  *)
(* does beside a login from elsewhere or beside the first config set.      *)
Over == {{l2, k1, b2}, {l0, k1}, {l0, l2}}

InitLater ==
    \E over \in Over :
      /\ callbacks = [s \in State |-> NoChan]
      /\ writing = {}
      /\ overlapped = FALSE
      /\ login = [l \in Login |->
                    IF l \in over \ Here
                      THEN [pc |-> "refused", state |-> s1, got |-> "error"]
                      ELSE [pc |-> "new", state |-> NoState, got |-> "nothing"]]
      /\ browser = [b \in Browser |-> [pc |-> IF b \in over THEN "answered" ELSE "new",
                                       chan |-> NoChan, outcome |-> "nothing"]]
      /\ file = IF k1 \in over
                  THEN [state |-> "whole", cfg |-> [Blank EXCEPT !.setting = k1]]
                  ELSE [state |-> "missing", cfg |-> Blank]
      /\ command = [c \in Command |->
                      Nothing(IF c \notin over THEN "new" ELSE IF c = k1 THEN "done" ELSE "failed")]

FairSpecLater ==
    /\ InitLater
    /\ [][LoginsNext]_loginVars
    /\ LoginsFairness
=============================================================================
