---------------------------- MODULE Whitelister ----------------------------
(***************************************************************************)
(* The IP whitelister (pkg/server/whitelister.go): a goroutine that makes  *)
(* the iptables chain DRAUPNIR-WHITELIST hold one rule for every row of    *)
(* whitelisted_addresses.  It is told to reconcile through a buffered      *)
(* channel, by a timer and by the API handlers once they have changed the  *)
(* table; the handlers block while the channel is full.  The cleaner and   *)
(* Images.Destroy delete instances too, and their addresses with them, but *)
(* send nothing.                                                           *)
(*                                                                         *)
(* A rule is an address with the endpoint (port and user) it may connect   *)
(* to.  List's order (created_at) is abstracted to any order.              *)
(***************************************************************************)
EXTENDS Integers, FiniteSets

CONSTANTS
    Addr,           \* client addresses
    BadAddr,        \* those of them iptables refuses (an IPv6 address)
    Endpoint,       \* port and user of an instance
    Caller,         \* goroutines that call ApplyWhitelist
    Capacity,       \* of reconcileTrigger: 100 in the code
    Silent,         \* may the table change without a trigger?
    MaxFaults       \* bound on failing statements and iptables calls, and crashes

ASSUME WhitelisterAssumption ==
    /\ BadAddr \subseteq Addr
    /\ Capacity \in Nat \ {0}
    /\ Silent \in BOOLEAN
    /\ MaxFaults \in Nat

Rule == Addr \X Endpoint

VARIABLES
    table,          \* whitelisted_addresses joined with instances: the rules wanted
    chain,          \* the rules of the iptables chain
    queue,          \* number of requests in reconcileTrigger
    caller,         \* [Caller -> "idle", or "send": in TriggerReconcile("api")]
    timer,          \* "wait", or "send": in TriggerReconcile("timer")
    pc,             \* where reconcile stands; "idle" outside of it
    desired, add, remove,   \* its variables of these names
    missed,         \* since the last List, a change came without a trigger or a
                    \* reconcile failed or took a part of the table for all of it
                    \* (not in the code; for the properties)
    faults

rec == <<pc, desired, add, remove>>
vars == <<table, chain, queue, caller, timer, rec, missed, faults>>

TypeOK ==
    /\ table \subseteq Rule
    /\ chain \subseteq Rule
    /\ queue \in 0..Capacity
    /\ caller \in [Caller -> {"idle", "send"}]
    /\ timer \in {"wait", "send"}
    /\ pc \in {"idle", "list", "existing", "add", "remove"}
    /\ desired \subseteq Rule
    /\ add \subseteq Rule
    /\ remove \subseteq Rule
    /\ missed \in BOOLEAN
    /\ faults \in 0..MaxFaults

(* Start: the chain is there (ensureChainPresent), with whatever rules an  *)
(* earlier process was able to install; the timer's first request is sent  *)
(* at once.                                                                *)
Init ==
    /\ table \in SUBSET Rule
    /\ chain \in SUBSET ((Addr \ BadAddr) \X Endpoint)
    /\ queue = 0
    /\ caller = [c \in Caller |-> "idle"]
    /\ timer = "send"
    /\ pc = "idle"
    /\ desired = {} /\ add = {} /\ remove = {}
    /\ missed = FALSE
    /\ faults = 0

-----------------------------------------------------------------------------
(* Instances.Create and Instances.Get record the address, then trigger.    *)
RecordAddress(c, r) ==
    /\ caller[c] = "idle"
    /\ table' = table \cup {r}
    /\ caller' = [caller EXCEPT ![c] = "send"]
    /\ UNCHANGED <<chain, queue, timer, rec, missed, faults>>

(* An instance is deleted and its addresses with it; a rule goes unless    *)
(* another instance has the same port and user and admits the address too. *)
RemoveAddresses(e) == \E gone \in SUBSET {r \in table : r[2] = e} : table' = table \ gone

\* mutant of DestroyInstance: the handler does not trigger a reconcile
DestroyInstanceUntold(c, e) ==
    /\ caller[c] = "idle"
    /\ RemoveAddresses(e)
    /\ UNCHANGED <<chain, queue, caller, timer, rec, missed, faults>>

(* Instances.Destroy deletes the row, which cascades, then triggers.       *)
DestroyInstance(c, e) ==
    /\ caller[c] = "idle"
    /\ RemoveAddresses(e)
    /\ caller' = [caller EXCEPT ![c] = "send"]
    /\ UNCHANGED <<chain, queue, timer, rec, missed, faults>>

(* InstanceCleaner.destroyInstance and Images.Destroy do not trigger; no   *)
(* more does Instances.Destroy when the answer of its DELETE is lost.      *)
DestroySilently(e) ==
    /\ Silent
    /\ RemoveAddresses(e)
    /\ table' # table
    /\ missed' = TRUE
    /\ UNCHANGED <<chain, queue, caller, timer, rec, faults>>

(* The answer of the INSERT is lost: the address is recorded, the handler  *)
(* returns an error before it triggers.                                    *)
RecordSilently(r) ==
    /\ Silent
    /\ r \notin table
    /\ table' = table \cup {r}
    /\ missed' = TRUE
    /\ UNCHANGED <<chain, queue, caller, timer, rec, faults>>

\* mutant of Send: a channel without a limit
SendUnbounded == queue' = queue + 1

(* TriggerReconcile: a send on the channel, which blocks while it is full. *)
Send == queue < Capacity /\ queue' = queue + 1

ApplyWhitelist(c) ==
    /\ caller[c] = "send"
    /\ Send
    /\ caller' = [caller EXCEPT ![c] = "idle"]
    /\ UNCHANGED <<table, chain, timer, rec, missed, faults>>

TimerSend ==
    /\ timer = "send"
    /\ Send
    /\ timer' = "wait"
    /\ UNCHANGED <<table, chain, caller, rec, missed, faults>>

\* mutant of TimerFire: only the first-time reconcile, none every interval
TimerFireNever == FALSE /\ UNCHANGED vars

TimerFire ==
    /\ timer = "wait"
    /\ timer' = "send"
    /\ UNCHANGED <<table, chain, queue, caller, rec, missed, faults>>

-----------------------------------------------------------------------------
(* One reconcile. *)
Receive ==
    /\ pc = "idle"
    /\ queue > 0
    /\ queue' = queue - 1
    /\ pc' = "list"
    /\ UNCHANGED <<table, chain, caller, timer, desired, add, remove, missed, faults>>

(* WhitelistedAddressStore.List: every address, with port and user of its  *)
(* instance.                                                               *)
WhitelistedAddresses == table

ListAddresses ==
    /\ pc = "list"
    /\ desired' = WhitelistedAddresses
    /\ missed' = FALSE
    /\ pc' = "existing"
    /\ UNCHANGED <<table, chain, queue, caller, timer, add, remove, faults>>

(* The entries of a that are not in b.                                     *)
sliceDifference(a, b) == a \ b

(* Reads back address, port and user of every rule of the chain: what      *)
(* buildRuleString wrote into them.                                        *)
retrieveExistingRules == chain

\* mutant of RetrieveExisting: sliceDifference with its arguments swapped
RetrieveExistingSwapped ==
    /\ pc = "existing"
    /\ add' = sliceDifference(desired, retrieveExistingRules)
    /\ remove' = sliceDifference(desired, retrieveExistingRules)
    /\ pc' = "add"
    /\ UNCHANGED <<table, chain, queue, caller, timer, desired, missed, faults>>

(* retrieveExistingRules, and sliceDifference both ways *)
RetrieveExisting ==
    /\ pc = "existing"
    /\ add' = sliceDifference(desired, retrieveExistingRules)
    /\ remove' = sliceDifference(retrieveExistingRules, desired)
    /\ pc' = "add"
    /\ UNCHANGED <<table, chain, queue, caller, timer, desired, missed, faults>>

\* mutant of Return: an error ends the reconciler's loop
ReturnFromLoop(failed) ==
    /\ pc' = IF failed THEN "ended" ELSE "idle"
    /\ desired' = {} /\ add' = {} /\ remove' = {}
    /\ missed' = (missed \/ failed)

(* The first error ends reconcile: it is logged, and that is all. *)
Return(failed) ==
    /\ pc' = "idle"
    /\ desired' = {} /\ add' = {} /\ remove' = {}
    /\ missed' = (missed \/ failed)

(* ipt.AppendUnique *)
AppendRule(r) ==
    /\ pc = "add"
    /\ r \in add
    /\ IF r[1] \in BadAddr
         THEN Return(TRUE) /\ UNCHANGED chain
         ELSE /\ chain' = chain \cup {r}
              /\ add' = add \ {r}
              /\ UNCHANGED <<pc, desired, remove, missed>>
    /\ UNCHANGED <<table, queue, caller, timer, faults>>

AllAdded ==
    /\ pc = "add"
    /\ add = {}
    /\ pc' = "remove"
    /\ UNCHANGED <<table, chain, queue, caller, timer, desired, add, remove, missed, faults>>

(* ipt.Delete *)
DeleteRule(r) ==
    /\ pc = "remove"
    /\ r \in remove
    /\ chain' = chain \ {r}
    /\ remove' = remove \ {r}
    /\ UNCHANGED <<table, queue, caller, timer, pc, desired, add, missed, faults>>

AllRemoved ==
    /\ pc = "remove"
    /\ remove = {}
    /\ Return(FALSE)
    /\ UNCHANGED <<table, chain, queue, caller, timer, faults>>

-----------------------------------------------------------------------------
(* The statement or an iptables call of reconcile fails. *)
ReconcileFault ==
    /\ pc # "idle"
    /\ faults < MaxFaults
    /\ faults' = faults + 1
    /\ Return(TRUE)
    /\ UNCHANGED <<table, chain, queue, caller, timer>>

(* The connection is lost while List goes through the rows; it does not    *)
(* look at rows.Err(), and reconcile takes those it got for all of them.   *)
ListTruncated ==
    /\ pc = "list"
    /\ faults < MaxFaults
    /\ faults' = faults + 1
    /\ \E seen \in SUBSET WhitelistedAddresses :
         seen # WhitelistedAddresses /\ desired' = seen
    /\ missed' = TRUE
    /\ pc' = "existing"
    /\ UNCHANGED <<table, chain, queue, caller, timer, add, remove>>

(* The server is restarted: table and chain survive, requests do not. *)
Restart ==
    /\ faults < MaxFaults
    /\ faults' = faults + 1
    /\ queue' = 0
    /\ caller' = [c \in Caller |-> "idle"]
    /\ timer' = "send"
    /\ pc' = "idle"
    /\ desired' = {} /\ add' = {} /\ remove' = {}
    /\ UNCHANGED <<table, chain, missed>>

Reconcile ==
    \/ Receive \/ ListAddresses \/ RetrieveExisting
    \/ \E r \in Rule : AppendRule(r) \/ DeleteRule(r)
    \/ AllAdded \/ AllRemoved

Api ==
    \E c \in Caller :
        \/ \E r \in Rule : RecordAddress(c, r)
        \/ \E e \in Endpoint : DestroyInstance(c, e)
        \/ ApplyWhitelist(c)

Next ==
    \/ Api
    \/ \E e \in Endpoint : DestroySilently(e)
    \/ \E r \in Rule : RecordSilently(r)
    \/ TimerSend \/ TimerFire
    \/ Reconcile
    \/ ReconcileFault \/ ListTruncated \/ Restart

Spec == Init /\ [][Next]_vars

(* The reconciler's goroutine runs and the timer fires.  Senders blocked   *)
(* on a Go channel are served in the order they came, so none is passed    *)
(* over for ever: strong fairness.                                         *)
FairSpec ==
    /\ Spec
    /\ WF_vars(Reconcile)
    /\ WF_vars(TimerFire)
    /\ SF_vars(TimerSend)
    /\ \A c \in Caller : SF_vars(ApplyWhitelist(c))

-----------------------------------------------------------------------------
(* A reconcile is still to come, or has not read the table yet. *)
Triggered ==
    \/ queue > 0
    \/ timer = "send"
    \/ \E c \in Caller : caller[c] = "send"
    \/ pc = "list"

(* What the chain will be when the reconcile under way is through. *)
Target ==
    CASE pc \in {"idle", "list"}  -> chain
      [] pc = "existing"          -> desired
      [] pc \in {"add", "remove"} -> (chain \cup add) \ remove

(* No lost wake-up: a reconcile that read the table before a handler       *)
(* changed it is followed by another one.  Only a reconcile that failed or *)
(* saw a part of the table, or a change nobody announced, leaves the chain *)
(* heading for anything but the table.                                     *)
NoLostTrigger == missed \/ Triggered \/ Target = table

(* A rule whose address is deleted for good is removed from the chain for  *)
(* good, whoever else keeps changing the table and although reconciles     *)
(* fail or the server restarts.                                            *)
ObsoleteRuleRemoved == \A r \in Rule : <>[](r \notin table) => <>[](r \notin chain)

(* An address that is recorded for good is admitted for good, under the    *)
(* same conditions: the timer makes up for a reconcile that failed.        *)
AddressAdmitted == \A r \in Rule : <>[](r \in table) => <>[](r \in chain)

(* A handler blocked on the full channel gets its request through.         *)
CallerUnblocked == \A c \in Caller : caller[c] = "send" ~> caller[c] = "idle"
=============================================================================
