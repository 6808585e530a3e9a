------------------------------ MODULE MCClient ------------------------------
(* Instances of Client for TLC. *)
EXTENDS Client, TLC

CONSTANTS h1, h2, cleaner, upload, alice, a1

TwoHandlers == {h1, h2}
Users == {upload, alice}
Addrs == {a1}

\* h1 and h2 are interchangeable; no CHOOSE of the model depends on them
Symmetry == Permutations(TwoHandlers)

ImageOps == {"ImageCreate", "ImageDone", "ImageDestroy", "Create"}
InstanceOps == {"Create", "Get", "Destroy", "Clean"}

(* The run about instances starts with image 1 created, finalised and      *)
(* ready, the state an idle server is in after the three image steps.      *)
InitReady ==
    /\ images = [i \in ImageId |-> IF i = 1 THEN "ready" ELSE "none"]
    /\ imageSeq = 1
    /\ instances = [n \in InstanceId |-> NoRow]
    /\ instanceSeq = 0
    /\ addresses = {}
    /\ uploads = [i \in ImageId |-> IF i = 1 THEN "sealed" ELSE "absent"]
    /\ snapshots = {1}
    /\ dirs = [n \in InstanceId |-> "absent"]
    /\ pg = [n \in InstanceId |-> 0]
    /\ revoked = {}
    /\ req = [h \in Proc |-> Idle]
    /\ faults = 0
    /\ cli = [h \in Handler |-> NoCommand]

SpecReady == InitReady /\ [][ClientNext]_clientVars
=============================================================================
