---------------------------- MODULE MCLifecycle ----------------------------
(* Instances of Lifecycle for TLC: who there is, and what a run may do.    *)
EXTENDS Lifecycle, TLC

CONSTANTS h1, h2, c, upload, alice, a1

OneHandler == {h1}
TwoHandlers == {h1, h2}
Users == {upload, alice}
Addrs == {a1}

\* h1 and h2 are interchangeable; no CHOOSE of the model depends on them
Symmetry == Permutations(TwoHandlers)

InstanceOps == {"Create", "Get", "Destroy", "Clean"}
CreateOps == {"Create"}
CleanOps == {"Create", "Destroy", "Clean"}
FirstImageOps == InstanceOps \cup {"ImageCreate", "ImageDone"}
PairOps == CleanOps \cup {"ImageDestroy"}
ImageDestroyOps == {"Create", "ImageDestroy"}

(* Most runs about instances start with image 1 created, finalised and     *)
(* ready, the state an idle server is in after the three image steps.      *)
InitReady ==
    /\ images = [i \in ImageId |-> IF i = 1 THEN "ready" ELSE "none"]
    /\ imageSeq = 1
    /\ instances = [n \in InstanceId |-> NoRow]
    /\ instanceSeq = 0
    /\ addresses = {}
    /\ uploads = [i \in ImageId |-> IF i = 1 THEN "sealed" ELSE "absent"]
    /\ snapshots = {1}
    /\ dirs = [n \in InstanceId |-> "absent"]
    /\ pg = [n \in InstanceId |-> 0]
    /\ revoked = {}
    /\ req = [h \in Proc |-> Idle]
    /\ faults = 0

SpecReady == InitReady /\ [][Next]_vars

FairSpecReady ==
    /\ SpecReady
    /\ \A h \in Proc : WF_vars(Proceeds(h))
    /\ WF_vars(Clean)
=============================================================================
