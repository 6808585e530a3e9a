------------------------------ MODULE MCSystem ------------------------------
(* An instance of System for TLC. *)
EXTENDS System

CONSTANTS h1, c, upload, alice, a1

OneHandler == {h1}
Users == {upload, alice}
Addrs == {a1}
None == {}
ServerOps == {"Create", "Destroy", "Clean"}

(* Image 1 is ready, and alice has an instance of it that she may connect  *)
(* to, as after the requests that lead there; the server has just started  *)
(* again.                                                                  *)
Row1 == [image |-> 1, port |-> MinPort, user |-> alice]

InitReady ==
    /\ images = [i \in ImageId |-> IF i = 1 THEN "ready" ELSE "none"]
    /\ imageSeq = 1
    /\ instances = [n \in InstanceId |-> IF n = 1 THEN Row1 ELSE NoRow]
    /\ instanceSeq = 1
    /\ addresses = {<<a1, 1>>}
    /\ uploads = [i \in ImageId |-> IF i = 1 THEN "sealed" ELSE "absent"]
    /\ snapshots = {1}
    /\ dirs = [n \in InstanceId |-> IF n = 1 THEN "certs" ELSE "absent"]
    /\ pg = [n \in InstanceId |-> IF n = 1 THEN MinPort ELSE 0]
    /\ revoked = {}
    /\ req = [h \in Proc |-> Idle]
    /\ faults = 0
    /\ chain = Rules
    /\ queue = 0
    /\ timer = "send"
    /\ recPc = "idle"
    /\ desired = {} /\ add = {} /\ remove = {}
    /\ missed = FALSE
    /\ wfaults = 0

FairSpecReady ==
    /\ InitReady
    /\ [][SystemNext]_systemVars
    /\ WhitelisterFairness
=============================================================================
