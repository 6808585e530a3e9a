------------------------------- MODULE System -------------------------------
(***************************************************************************)
(* The server process as pkg/server/server.go wires it: the handlers and   *)
(* the cleaner of Lifecycle on one side, the whitelister of Whitelister on *)
(* the other.  They meet in the database, whose whitelisted_addresses the  *)
(* whitelister lists joined with instances, in the trigger channel, on     *)
(* which a handler may block, and in a crash, which ends all of them.      *)
(***************************************************************************)
EXTENDS Lifecycle

CONSTANTS
    BadAddr,        \* addresses iptables refuses
    Capacity        \* of the trigger channel

VARIABLES
    chain,          \* the rules of the iptables chain
    queue,          \* requests in reconcileTrigger
    timer,          \* the whitelister's timer goroutine
    recPc,          \* where reconcile stands, and its variables
    desired, add, remove,
    missed,         \* a change came without a trigger (for the properties)
    wfaults         \* those of the faults that hit the whitelister

reconciler == <<timer, recPc, desired, add, remove>>
whitelister == <<chain, queue, reconciler, missed, wfaults>>
systemVars == <<vars, whitelister>>

ASSUME SystemAssumption == BadAddr \subseteq Addr /\ Capacity \in Nat \ {0}

(* WhitelistedAddressStore.List joins the two tables: an address may talk  *)
(* to the port of its instance, in its user's name.                        *)
Rules == {<<t[1], <<instances[t[2]].port, instances[t[2]].user>>>> :
            t \in {s \in addresses : InstanceExists(s[2])}}

Trigger == [h \in Handler |-> IF req[h].pc = "apply" THEN "send" ELSE "idle"]

W == INSTANCE Whitelister WITH
        Endpoint <- Port \X User, Caller <- Handler, Silent <- TRUE,
        table <- Rules, caller <- Trigger, pc <- recPc, faults <- wfaults

SystemInit ==
    /\ Init
    /\ chain = {}
    /\ queue = 0
    /\ timer = "send"
    /\ recPc = "idle"
    /\ desired = {} /\ add = {} /\ remove = {}
    /\ missed = FALSE
    /\ wfaults = 0

-----------------------------------------------------------------------------
\* mutant of Announce: the handler answers without a trigger
AnnounceNothing(h) == UNCHANGED queue

(* The last step of a handler that has changed the table is to send a      *)
(* request, for which it may have to wait.                                 *)
Announce(h) == IF req[h].pc = "apply" THEN W!Send ELSE UNCHANGED queue

(* Rows that the cleaner and Images.Destroy delete take their addresses    *)
(* along without a word.                                                   *)
Silently(h) == req[h].pc = "delrow" /\ req[h].op # "Destroy"

Serve(h) ==
    /\ ImageStep(h) \/ InstanceStep(h) \/ Finish(h)
    /\ Announce(h)
    /\ missed' = (missed \/ (Silently(h) /\ Rules' # Rules))
    /\ UNCHANGED <<chain, reconciler, wfaults>>

(* Scripts and rules outlive the server; requests in the channel do not,   *)
(* and the new whitelister starts with a reconcile.                        *)
Restarted ==
    /\ queue' = 0
    /\ timer' = "send"
    /\ recPc' = "idle"
    /\ desired' = {} /\ add' = {} /\ remove' = {}
    /\ wfaults' = wfaults + 1
    /\ UNCHANGED <<chain, missed>>

CrashIdle ==
    /\ faults < MaxFaults
    /\ \A h \in Proc : req[h].pc = "idle"
    /\ faults' = faults + 1
    /\ UNCHANGED <<tables, disk, revoked, req>>

ServerCrash == (Crash \/ CrashIdle) /\ Restarted

Whitelist == UNCHANGED vars /\ W!Reconcile
TimerSend == UNCHANGED vars /\ W!TimerSend

\* mutant of TimerFire: a reconcile at the start, none every interval
TimerFireNever == FALSE /\ UNCHANGED systemVars

TimerFire == UNCHANGED vars /\ W!TimerFire

WhitelistFault ==
    /\ faults < MaxFaults
    /\ faults' = faults + 1
    /\ UNCHANGED <<tables, disk, revoked, req>>
    /\ W!ReconcileFault \/ W!ListTruncated

(* A statement takes effect, but the handler gets an error and sends no    *)
(* trigger.                                                                *)
Unannounced(h) ==
    /\ Unacknowledged(h) \/ CreateUnacknowledged(h)
    /\ missed' = (missed \/ Rules' # Rules)
    /\ UNCHANGED <<chain, queue, reconciler, wfaults>>

SystemNext ==
    \/ \E h \in Proc : Serve(h)
    \/ CleanerStep /\ UNCHANGED whitelister
    \/ \E u \in User : Revoke(u) /\ UNCHANGED whitelister
    \/ \E h \in Proc : /\ \/ ScriptFault(h) \/ StatementFault(h)
                          \/ TruncatedList(h) \/ Disconnect(h)
                       /\ UNCHANGED whitelister
    \/ \E h \in Proc : Unannounced(h)
    \/ ServerCrash
    \/ Whitelist \/ TimerSend \/ TimerFire
    \/ WhitelistFault

SystemSpec == SystemInit /\ [][SystemNext]_systemVars

(* Of the goroutines, the whitelister's and its timer's have to run; who   *)
(* waits to send gets his turn (see Whitelister).                          *)
WhitelisterFairness ==
    /\ WF_systemVars(Whitelist)
    /\ WF_systemVars(TimerFire)
    /\ SF_systemVars(TimerSend)

-----------------------------------------------------------------------------
(* The handlers, the cleaner and the tables are an environment of the      *)
(* whitelister as module Whitelister assumes it: with every announced      *)
(* change the trigger it counts on.                                        *)
ImplementsWhitelister == W!Spec

(* When the whitelister has nothing to do and no handler is about to tell  *)
(* it to, the chain is what the tables say, unless the last reconcile      *)
(* failed or was given a part of the addresses, or the tables were changed *)
(* silently since: the trigger a handler sends after its change cannot be  *)
(* swallowed by a reconcile that read the tables before it, nor by a       *)
(* restart.                                                                *)
AtRestInSync ==
    (/\ recPc = "idle" /\ queue = 0 /\ timer = "wait"
     /\ \A h \in Handler : req[h].pc # "apply"
     /\ ~missed)
        => chain = Rules

(* Once the last instance has been created and destroyed, the chain comes  *)
(* to be what the tables say, and stays it: no rule is left of an instance *)
(* that was destroyed, by whomever, none of one that exists is missing,    *)
(* whatever failed in between.                                             *)
ChainSettles == <>[](chain = Rules)
=============================================================================
