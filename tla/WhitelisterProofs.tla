------------------------- MODULE WhitelisterProofs -------------------------
(***************************************************************************)
(* Proofs about Whitelister, for any addresses, endpoints, callers, channel *)
(* capacity and number of failures, unannounced changes included.          *)
(***************************************************************************)
EXTENDS Whitelister, TLAPS

LEMMA InitType == Init => TypeOK
<1> SUFFICES ASSUME Init PROVE TypeOK
  OBVIOUS
<1>1. table \subseteq Rule /\ chain \subseteq Rule
  BY DEF Init, Rule
<1>2. missed \in BOOLEAN
  BY DEF Init
<1> QED BY <1>1, <1>2, WhitelisterAssumption DEF Init, TypeOK

(* What a finished reconcile leaves. *)
LEMMA ReturnType ==
    ASSUME TypeOK, NEW failed \in BOOLEAN, Return(failed)
    PROVE  /\ pc' = "idle" /\ desired' = {} /\ add' = {} /\ remove' = {}
           /\ missed' \in BOOLEAN
BY Zenon DEF TypeOK, Return

(* Deleting an instance only takes rules away. *)
LEMMA RemoveType ==
    ASSUME TypeOK, NEW e \in Endpoint, RemoveAddresses(e)
    PROVE  table' \subseteq Rule
BY DEF RemoveAddresses, TypeOK

LEMMA NextType ==
    ASSUME TypeOK, [Next]_vars
    PROVE  TypeOK'
<1> USE WhitelisterAssumption DEF rec
<1>1. CASE UNCHANGED vars
  BY <1>1 DEF vars, TypeOK
<1>2. ASSUME NEW c \in Caller, NEW r \in Rule, RecordAddress(c, r) PROVE TypeOK'
  BY <1>2 DEF RecordAddress, TypeOK
<1>3. ASSUME NEW c \in Caller, NEW e \in Endpoint, DestroyInstance(c, e) PROVE TypeOK'
  BY <1>3, RemoveType DEF DestroyInstance, TypeOK
<1>4. ASSUME NEW c \in Caller, ApplyWhitelist(c) PROVE TypeOK'
  BY <1>4 DEF ApplyWhitelist, Send, TypeOK
<1>5. ASSUME NEW e \in Endpoint, DestroySilently(e) PROVE TypeOK'
  <2>1. missed' \in BOOLEAN
    BY <1>5 DEF DestroySilently
  <2> QED BY <1>5, <2>1, RemoveType DEF DestroySilently, TypeOK
<1>6. CASE TimerSend \/ TimerFire
  BY <1>6 DEF TimerSend, TimerFire, Send, TypeOK
<1>7. CASE Receive \/ RetrieveExisting \/ AllAdded
  BY <1>7 DEF Receive, RetrieveExisting, sliceDifference, retrieveExistingRules, AllAdded, TypeOK
<1>8. CASE ListAddresses
  <2>1. missed' \in BOOLEAN
    BY <1>8 DEF ListAddresses, WhitelistedAddresses
  <2> QED BY <1>8, <2>1 DEF ListAddresses, WhitelistedAddresses, TypeOK
<1>9. ASSUME NEW r \in Rule, AppendRule(r) PROVE TypeOK'
  <2>1. CASE r[1] \in BadAddr
    BY <1>9, <2>1, ReturnType DEF AppendRule, TypeOK
  <2>2. CASE r[1] \notin BadAddr
    BY <1>9, <2>2 DEF AppendRule, TypeOK
  <2> QED BY <2>1, <2>2
<1>10. ASSUME NEW r \in Rule, DeleteRule(r) PROVE TypeOK'
  BY <1>10 DEF DeleteRule, TypeOK
<1>11. CASE AllRemoved
  <2>1. /\ pc' = "idle" /\ desired' = {} /\ add' = {} /\ remove' = {}
        /\ missed' \in BOOLEAN
    BY <1>11, ReturnType, Zenon DEF AllRemoved
  <2> QED BY <1>11, <2>1 DEF AllRemoved, TypeOK
<1>12. CASE ReconcileFault
  <2>1. /\ pc' = "idle" /\ desired' = {} /\ add' = {} /\ remove' = {}
        /\ missed' \in BOOLEAN
    BY <1>12, ReturnType, Zenon DEF ReconcileFault
  <2>2. faults' \in 0..MaxFaults
    BY <1>12 DEF ReconcileFault, TypeOK
  <2> QED BY <1>12, <2>1, <2>2 DEF ReconcileFault, TypeOK
<1>13. CASE Restart
  BY <1>13 DEF Restart, TypeOK
<1>14. ASSUME NEW r \in Rule, RecordSilently(r) PROVE TypeOK'
  <2>1. missed' \in BOOLEAN
    BY <1>14 DEF RecordSilently
  <2> QED BY <1>14, <2>1 DEF RecordSilently, TypeOK
<1>15. CASE ListTruncated
  <2>1. missed' \in BOOLEAN
    BY <1>15 DEF ListTruncated
  <2> QED BY <1>15, <2>1 DEF ListTruncated, WhitelistedAddresses, TypeOK
<1> QED BY <1>1, <1>2, <1>3, <1>4, <1>5, <1>6, <1>7, <1>8, <1>9, <1>10, <1>11, <1>12, <1>13,
           <1>14, <1>15 DEF Next, Api, Reconcile

(* The channel never holds more than its capacity, and every set of rules  *)
(* is one of rules.                                                        *)
THEOREM WhitelisterTyped == Spec => []TypeOK
BY InitType, NextType, PTL DEF Spec

(* NoLostTrigger alone is not inductive: that DeleteRule leaves the target *)
(* where it is takes knowing that all rules were added by then.            *)
AddedFirst == pc = "remove" => add = {}
WakeInv == NoLostTrigger /\ AddedFirst

LEMMA InitWake == Init => WakeInv
BY DEF Init, WakeInv, NoLostTrigger, AddedFirst, Triggered

LEMMA NextWake ==
    ASSUME TypeOK, WakeInv, [Next]_vars
    PROVE  WakeInv'
<1> USE DEF WakeInv, AddedFirst
<1>1. CASE UNCHANGED vars
  BY <1>1 DEF vars, rec, NoLostTrigger, Triggered, Target
<1>2. ASSUME NEW c \in Caller, NEW r \in Rule, RecordAddress(c, r) PROVE WakeInv'
  BY <1>2 DEF RecordAddress, rec, NoLostTrigger, Triggered, TypeOK
<1>3. ASSUME NEW c \in Caller, NEW e \in Endpoint, DestroyInstance(c, e) PROVE WakeInv'
  BY <1>3 DEF DestroyInstance, rec, NoLostTrigger, Triggered, TypeOK
<1>4. ASSUME NEW c \in Caller, ApplyWhitelist(c) PROVE WakeInv'
  BY <1>4 DEF ApplyWhitelist, Send, rec, NoLostTrigger, Triggered, TypeOK
<1>5. ASSUME NEW e \in Endpoint, DestroySilently(e) PROVE WakeInv'
  BY <1>5 DEF DestroySilently, rec, NoLostTrigger
<1>6. CASE TimerSend
  BY <1>6 DEF TimerSend, Send, rec, NoLostTrigger, Triggered, TypeOK
<1>7. CASE TimerFire
  BY <1>7 DEF TimerFire, rec, NoLostTrigger, Triggered
<1>8. CASE Receive
  BY <1>8 DEF Receive, NoLostTrigger, Triggered
<1>9. CASE ListAddresses
  BY <1>9 DEF ListAddresses, WhitelistedAddresses, NoLostTrigger, Target
<1>10. CASE RetrieveExisting
  <2>1. (chain \cup (desired \ chain)) \ (chain \ desired) = desired
    OBVIOUS
  <2>2. Target' = Target
    BY <1>10, <2>1 DEF RetrieveExisting, sliceDifference, retrieveExistingRules, Target
  <2> QED BY <1>10, <2>2 DEF RetrieveExisting, NoLostTrigger, Triggered
<1>11. ASSUME NEW r \in Rule, AppendRule(r) PROVE WakeInv'
  <2>1. CASE r[1] \in BadAddr
    BY <1>11, <2>1 DEF AppendRule, Return, NoLostTrigger
  <2>2. CASE r[1] \notin BadAddr
    <3>1. (chain \cup {r}) \cup (add \ {r}) = chain \cup add
      BY <1>11 DEF AppendRule
    <3>2. Target' = Target
      BY <1>11, <2>2, <3>1 DEF AppendRule, Target
    <3> QED BY <1>11, <2>2, <3>2 DEF AppendRule, NoLostTrigger, Triggered
  <2> QED BY <2>1, <2>2
<1>12. CASE AllAdded
  BY <1>12 DEF AllAdded, NoLostTrigger, Triggered, Target
<1>13. ASSUME NEW r \in Rule, DeleteRule(r) PROVE WakeInv'
  <2>1. add = {} /\ ((chain \ {r}) \cup add) \ (remove \ {r}) = (chain \cup add) \ remove
    BY <1>13 DEF DeleteRule
  <2>2. Target' = Target
    BY <1>13, <2>1 DEF DeleteRule, Target
  <2> QED BY <1>13, <2>2 DEF DeleteRule, NoLostTrigger, Triggered
<1>14. CASE AllRemoved
  <2>1. Target = chain
    BY <1>14 DEF AllRemoved, Target
  <2>2. Target' = chain
    BY <1>14 DEF AllRemoved, Return, Target
  <2> QED BY <1>14, <2>1, <2>2 DEF AllRemoved, Return, NoLostTrigger, Triggered, TypeOK
<1>15. CASE ReconcileFault
  BY <1>15 DEF ReconcileFault, Return, NoLostTrigger
<1>16. CASE Restart
  BY <1>16 DEF Restart, NoLostTrigger, Triggered
<1>17. ASSUME NEW r \in Rule, RecordSilently(r) PROVE WakeInv'
  BY <1>17 DEF RecordSilently, rec, NoLostTrigger
<1>18. CASE ListTruncated
  BY <1>18 DEF ListTruncated, NoLostTrigger
<1> QED BY <1>1, <1>2, <1>3, <1>4, <1>5, <1>6, <1>7, <1>8, <1>9, <1>10, <1>11, <1>12, <1>13,
           <1>14, <1>15, <1>16, <1>17, <1>18 DEF Next, Api, Reconcile

LEMMA Wakes == Spec => []WakeInv
BY InitWake, NextWake, WhitelisterTyped, PTL DEF Spec

(* No wake-up is lost between the handlers, the timer and reconcile,       *)
(* wherever the handler's change falls while a reconcile is running.       *)
THEOREM WakeUpsKept == Spec => []NoLostTrigger
<1>1. WakeInv => NoLostTrigger
  BY DEF WakeInv
<1> QED BY <1>1, Wakes, PTL
=============================================================================
