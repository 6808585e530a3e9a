---------------------------- MODULE SystemProofs ----------------------------
(***************************************************************************)
(* System implements Whitelister: for any number of handlers, addresses,   *)
(* instances, ports and faults, and although instances may share a port.   *)
(***************************************************************************)
EXTENDS System, FlowProofs

(* Addresses belong to rows that exist (the foreign key with its cascade), *)
(* rows have ids from the sequence, and the cleaner only cleans.           *)
Rooted ==
    /\ \A t \in addresses : instances[t[2]] # NoRow
    /\ \A n \in InstanceId : instances[n] # NoRow => n <= instanceSeq

AddressInv ==
    /\ Rooted
    /\ req[Cleaner].op \in {"none", "Clean"}
    /\ wfaults \in Nat /\ wfaults <= faults
    /\ missed \in BOOLEAN

wvars == <<Rules, chain, queue, Trigger, timer, <<recPc, desired, add, remove>>,
           missed, wfaults>>

WStep == [W!Next]_wvars

SameRows == UNCHANGED <<addresses, instances, instanceSeq>>

-----------------------------------------------------------------------------
(***************************************************************************)
(* What a step does to the requests.                                       *)
(***************************************************************************)

(* Only h moves on, and not to the trigger; a step of the cleaner is still *)
(* about cleaning.                                                         *)
Tame(h) ==
    /\ \A g \in Proc \ {h} : req'[g] = req[g]
    /\ req'[h].pc # "apply"
    /\ h \in Handler \/ req'[h].op \in {req[h].op, "none", "Clean"}

LEMMA ReqType ==
    ASSUME TypeInv, NEW h \in Proc
    PROVE  req \in [Proc -> Request] /\ req[h] \in Request
BY DEF TypeInv, TypeOK

LEMMA BecomeTame ==
    ASSUME TypeInv, NEW h \in Proc, NEW r, req' = [req EXCEPT ![h] = r],
           r.pc # "apply", h \in Handler \/ r.op \in {req[h].op, "none", "Clean"}
    PROVE  Tame(h)
BY ReqType DEF Tame

LEMMA GotoTame ==
    ASSUME TypeInv, NEW h \in Proc, NEW p, p # "apply", Goto(h, p)
    PROVE  Tame(h)
BY ReqType DEF Tame, Goto, Request

LEMMA ReplyTame ==
    ASSUME TypeInv, NEW h \in Proc, NEW s, Reply(h, s)
    PROVE  Tame(h)
BY ReqType DEF Tame, Reply, Replied, Request

LEMMA FailedTame ==
    ASSUME NEW r \in Request
    PROVE  Failed(r).pc \in {"reply", "next"} /\ Failed(r).op = r.op
BY DEF Failed, Replied, Request

LEMMA ErrorTame ==
    ASSUME NEW r \in Request
    PROVE  OnStatementError(r).pc # "apply" /\ OnStatementError(r).op = r.op
<1>1. /\ Replied(r, 200).pc = "reply" /\ Replied(r, 200).op = r.op
      /\ [r EXCEPT !.pc = "next"].pc = "next" /\ [r EXCEPT !.pc = "next"].op = r.op
  BY DEF Replied, Request
<1>2. Failed(r).pc # "apply" /\ Failed(r).op = r.op
  BY FailedTame
<1> QED BY <1>1, <1>2 DEF OnStatementError

LEMMA FailTame ==
    ASSUME TypeInv, NEW h \in Proc, Fail(h)
    PROVE  Tame(h)
BY ReqType, FailedTame, BecomeTame DEF Fail

LEMMA ScriptExitTame ==
    ASSUME TypeInv, NEW h \in Proc, NEW ok \in BOOLEAN, NEW next,
           ok => next.pc # "apply" /\ next.op = req[h].op,
           ScriptExit(h, ok, next)
    PROVE  Tame(h)
<1> DEFINE f == Failed([req[h] EXCEPT !.parent = "waiting"])
<1>1. [req[h] EXCEPT !.parent = "waiting"] \in Request
  BY ReqType DEF Request
<1>2. f.pc # "apply" /\ f.op = req[h].op
  BY <1>1, FailedTame, ReqType DEF Request
<1>3. Idle.pc # "apply" /\ Idle.op = "none"
  BY DEF Idle, New
<1> HIDE DEF f
<1>4. PICK r : /\ req' = [req EXCEPT ![h] = r]
               /\ r = f \/ r = Idle \/ (ok /\ r = next)
  BY DEF ScriptExit, f
<1> QED BY <1>2, <1>3, <1>4, BecomeTame

LEMMA ScriptFailTame ==
    ASSUME TypeInv, NEW h \in Proc, ScriptFail(h)
    PROVE  Tame(h)
BY ScriptExitTame DEF ScriptFail

LEMMA ScriptGotoTame ==
    ASSUME TypeInv, NEW h \in Proc, NEW p, p # "apply", ScriptGoto(h, p)
    PROVE  Tame(h)
BY ReqType, ScriptExitTame DEF ScriptGoto, Request

(* The steps of a request that do not touch the rows the rules come from.  *)
LEMMA PlainSteps ==
    ASSUME TypeInv, NEW h \in Proc,
           \/ InstanceCreate(h) \/ ChoosePort(h) \/ CloneSnapshot(h) \/ WriteCerts(h)
           \/ StartPostgres(h) \/ ValidateAndRestart(h) \/ InstanceGet(h)
           \/ RetrieveInstanceCredentials(h) \/ InstanceDestroy(h) \/ StopPostgres(h)
           \/ RemoveDir(h) \/ Finish(h)
    PROVE  /\ SameRows /\ UNCHANGED faults
           /\ Tame(h)
           /\ req[h].pc \notin {"apply", "delrow"}
<1> USE DEF SameRows, tables, instanceTable, imageTable, disk
<1>1. CASE InstanceCreate(h)
  <2>1. PICK i \in ImageId, u \in User :
          LET r == New("Create", "port", u, i, 0)
          IN  req' = [req EXCEPT ![h] =
                       CASE images[i] = "none"    -> Replied(r, 404)
                         [] images[i] = "unready" -> Replied(r, 422)
                         [] OTHER                 -> r]
    BY <1>1 DEF InstanceCreate
  <2> DEFINE r == New("Create", "port", u, i, 0)
  <2>2. r.pc # "apply" /\ Replied(r, 404).pc # "apply" /\ Replied(r, 422).pc # "apply"
    BY DEF New, Replied
  <2> HIDE DEF r
  <2>3. PICK q : q.pc # "apply" /\ req' = [req EXCEPT ![h] = q]
    BY <2>1, <2>2 DEF r
  <2> QED BY <1>1, <2>3, BecomeTame DEF InstanceCreate, Accepts
<1>2. CASE ChoosePort(h)
  <2>1. ASSUME NEW p \in Port, req' = [req EXCEPT ![h].pc = "insert", ![h].port = p]
        PROVE  Tame(h)
    BY <2>1, ReqType DEF Tame, Request
  <2> QED BY <1>2, <2>1, FailTame DEF ChoosePort, At
<1>3. CASE CloneSnapshot(h)
  BY <1>3, GotoTame, ScriptFailTame DEF CloneSnapshot
<1>4. CASE WriteCerts(h)
  BY <1>4, GotoTame, ScriptFailTame DEF WriteCerts
<1>5. CASE StartPostgres(h)
  BY <1>5, GotoTame, ScriptFailTame DEF StartPostgres
<1>6. CASE ValidateAndRestart(h)
  BY <1>6, ScriptGotoTame, ScriptFailTame DEF ValidateAndRestart
<1>7. CASE InstanceGet(h)
  <2>1. PICK n \in InstanceId, u \in User :
          LET r == New("Get", "creds", u, 0, n)
          IN  req' = [req EXCEPT ![h] =
                       IF InstanceExists(n) /\ instances[n].user = u
                         THEN r ELSE Replied(r, 404)]
    BY <1>7 DEF InstanceGet
  <2> DEFINE r == New("Get", "creds", u, 0, n)
  <2>2. r.pc # "apply" /\ Replied(r, 404).pc # "apply"
    BY DEF New, Replied
  <2> HIDE DEF r
  <2>3. PICK q : q.pc # "apply" /\ req' = [req EXCEPT ![h] = q]
    BY <2>1, <2>2 DEF r
  <2> QED BY <1>7, <2>3, BecomeTame DEF InstanceGet, Accepts
<1>8. CASE RetrieveInstanceCredentials(h)
  BY <1>8, GotoTame, ReplyTame DEF RetrieveInstanceCredentials
<1>9. CASE InstanceDestroy(h)
  <2>1. PICK n \in InstanceId, u \in User :
          LET r == New("Destroy", "stop", u, 0, n)
          IN  req' = [req EXCEPT ![h] =
                       IF InstanceExists(n) /\ u \in {Upload, instances[n].user}
                         THEN r ELSE Replied(r, 404)]
    BY <1>9 DEF InstanceDestroy
  <2> DEFINE r == New("Destroy", "stop", u, 0, n)
  <2>2. r.pc # "apply" /\ Replied(r, 404).pc # "apply"
    BY DEF New, Replied
  <2> HIDE DEF r
  <2>3. PICK q : q.pc # "apply" /\ req' = [req EXCEPT ![h] = q]
    BY <2>1, <2>2 DEF r
  <2> QED BY <1>9, <2>3, BecomeTame DEF InstanceDestroy, Accepts
<1>10. CASE StopPostgres(h)
  BY <1>10, GotoTame DEF StopPostgres
<1>11. CASE RemoveDir(h)
  BY <1>11, ScriptGotoTame, ScriptFailTame DEF RemoveDir
<1>12. CASE Finish(h)
  <2>1. Idle.pc # "apply" /\ Idle.op = "none"
    BY DEF Idle, New
  <2> QED BY <1>12, <2>1, BecomeTame DEF Finish
<1> QED BY <1>1, <1>2, <1>3, <1>4, <1>5, <1>6, <1>7, <1>8, <1>9, <1>10, <1>11, <1>12

-----------------------------------------------------------------------------
(***************************************************************************)
(* What a step does to the rules wanted and to the triggers.               *)
(***************************************************************************)
EndpointOf(row) == <<row.port, row.user>>

LEMMA RulesAre ==
    \A r : r \in Rules <=> \E t \in addresses : /\ instances[t[2]] # NoRow
                                                /\ r = <<t[1], EndpointOf(instances[t[2]])>>
BY DEF Rules, InstanceExists, EndpointOf

LEMMA RulesWillBe ==
    \A r : r \in Rules' <=> \E t \in addresses' : /\ instances'[t[2]] # NoRow
                                                  /\ r = <<t[1], EndpointOf(instances'[t[2]])>>
BY DEF Rules, InstanceExists, EndpointOf

LEMMA SameRules == ASSUME SameRows PROVE Rules' = Rules
BY DEF SameRows, Rules, InstanceExists

LEMMA RulesType ==
    ASSUME TypeInv
    PROVE  Rules \subseteq Addr \X (Port \X User)
<1> SUFFICES ASSUME NEW r \in Rules PROVE r \in Addr \X (Port \X User)
  OBVIOUS
<1>1. PICK t \in addresses : /\ instances[t[2]] # NoRow
                             /\ r = <<t[1], EndpointOf(instances[t[2]])>>
  BY RulesAre
<1>2. t[1] \in Addr /\ instances[t[2]] \in InstanceRow
  BY <1>1 DEF TypeInv, TypeOK, StoreTypeOK
<1> QED BY <1>1, <1>2 DEF InstanceRow, EndpointOf

(* A request that is not at its trigger, and does not come to it *)
LEMMA NoTrigger ==
    ASSUME NEW h \in Proc, Tame(h), req[h].pc # "apply"
    PROVE  Trigger' = Trigger
BY DEF Trigger, Tame, Proc

LEMMA Triggered ==
    ASSUME NEW h \in Handler, Tame(h)
    PROVE  Trigger' = [Trigger EXCEPT ![h] = "idle"]
BY DEF Trigger, Tame, Proc

LEMMA ToTrigger ==
    ASSUME TypeInv, NEW h \in Handler, Goto(h, "apply")
    PROVE  Trigger' = [Trigger EXCEPT ![h] = "send"]
<1>1. req'[h].pc = "apply" /\ \A g \in Proc \ {h} : req'[g] = req[g]
  BY ReqType DEF Goto, Proc, Request
<1> QED BY <1>1 DEF Trigger, Proc

(* The cleaner sends no trigger. *)
LEMMA TriggerOfHandler ==
    ASSUME TypeInv, AddressInv, NEW h \in Proc,
           req[h].pc \in {"apply", "whitelist"} \/ req[h].op = "Destroy"
    PROVE  h \in Handler
BY DEF TypeInv, Shape, Fits, AddressInv, Proc

LEMMA StillWhitelister ==
    ASSUME Rules' = Rules, Trigger' = Trigger, UNCHANGED whitelister
    PROVE  WStep
BY DEF WStep, wvars, whitelister, reconciler

-----------------------------------------------------------------------------
(***************************************************************************)
(* The steps of a request.                                                 *)
(***************************************************************************)

(* What Serve leaves of the whitelister's variables, when the row is not   *)
(* deleted silently                                                        *)
Beside == UNCHANGED <<chain, reconciler, wfaults>> /\ missed' = missed

LEMMA ServeBeside ==
    ASSUME AddressInv, NEW h \in Proc, Serve(h), ~Silently(h) \/ Rules' = Rules
    PROVE  Beside
<1>1. missed' = (missed \/ (Silently(h) /\ Rules' # Rules))
  BY DEF Serve
<1>2. missed \in BOOLEAN
  BY DEF AddressInv
<1>3. missed' = missed
  BY <1>1, <1>2
<1> QED BY <1>3 DEF Serve, Beside

LEMMA CalmAddress ==
    ASSUME AddressInv, TypeInv, SameRows, NEW h \in Proc, Tame(h),
           UNCHANGED <<wfaults, missed>>, faults' \in Nat, faults' >= faults
    PROVE  AddressInv'
<1>1. req'[Cleaner].op \in {"none", "Clean"}
  BY LifecycleAssumption DEF Tame, AddressInv, Proc
<1>2. Rooted'
  BY DEF AddressInv, Rooted, SameRows
<1>4. wfaults' \in Nat /\ wfaults' <= faults'
  BY DEF AddressInv, TypeInv, TypeOK
<1>5. missed' \in BOOLEAN
  BY DEF AddressInv
<1> QED BY <1>1, <1>2, <1>4, <1>5 DEF AddressInv

LEMMA FaultsNat == TypeInv => faults \in Nat
BY DEF TypeInv, TypeOK

LEMMA ServePlain ==
    ASSUME TypeInv, AddressInv, NEW h \in Proc, Serve(h), SameRows, Tame(h), UNCHANGED faults,
           req[h].pc \notin {"apply", "delrow"}
    PROVE  WStep /\ AddressInv'
<1>1. Beside /\ UNCHANGED queue
  BY ServeBeside DEF Silently, Serve, Announce
<1>2. AddressInv'
  BY <1>1, CalmAddress, FaultsNat DEF Beside
<1>3. UNCHANGED whitelister
  BY <1>1 DEF Beside, whitelister
<1> QED BY <1>2, <1>3, SameRules, NoTrigger, StillWhitelister

(* A new row has no addresses yet. *)
LEMMA InsertedRules ==
    ASSUME TypeInv, AddressInv, NEW h \in Proc, req[h].pc = "insert", UNCHANGED addresses,
           NEW n \in InstanceId, InsertInstance(n, req[h].image, req[h].port, req[h].user)
    PROVE  Rules' = Rules /\ Rooted'
<1> DEFINE row == [image |-> req[h].image, port |-> req[h].port, user |-> req[h].user]
<1>1. n = instanceSeq + 1 /\ instanceSeq' = n /\ instances' = [instances EXCEPT ![n] = row]
  BY DEF InsertInstance
<1>2. /\ instances \in [InstanceId -> InstanceRow \cup {NoRow}]
      /\ instanceSeq \in Nat
      /\ addresses \subseteq Addr \X InstanceId
      /\ instances' \in [InstanceId -> {row} \cup InstanceRow \cup {NoRow}]
  BY <1>1 DEF TypeInv, TypeOK, StoreTypeOK
<1>3. row # NoRow
  <2>1. row \in InstanceRow
    <3>1. req[h].image \in ImageId /\ req[h].port \in Port /\ req[h].user \in User
      BY ReqType DEF TypeInv, Shape, Fits, Request
    <3> QED BY <3>1 DEF InstanceRow
  <2> QED BY <2>1, StoreAssumption
<1> HIDE DEF row
<1>4. instances[n] = NoRow
  BY <1>1, <1>2 DEF AddressInv, Rooted
<1>5. \A t \in addresses : t[2] # n /\ t[2] \in InstanceId /\ instances'[t[2]] = instances[t[2]]
  BY <1>1, <1>2, <1>4 DEF AddressInv, Rooted
<1>6. Rules' = Rules
  <2>1. \A r : r \in Rules' <=> r \in Rules
    BY <1>5, RulesAre, RulesWillBe
  <2> QED BY <2>1 DEF Rules
<1>7. \A t \in addresses' : instances'[t[2]] # NoRow
  BY <1>5 DEF AddressInv, Rooted
<1>8. \A m \in InstanceId : instances'[m] # NoRow => m <= instanceSeq'
  BY <1>1, <1>2 DEF AddressInv, Rooted, InstanceId
<1> QED BY <1>6, <1>7, <1>8 DEF Rooted

LEMMA RecordedRules ==
    ASSUME TypeInv, AddressInv, NEW h \in Proc, req[h].pc = "whitelist", NEW a \in Addr,
           InsertAddress(a, req[h].inst), UNCHANGED <<instances, instanceSeq>>
    PROVE  Rooted' /\ \E r \in W!Rule : Rules' = Rules \cup {r}
<1> DEFINE n == req[h].inst
           r == <<a, EndpointOf(instances[n])>>
<1>1. instances[n] # NoRow /\ addresses' = addresses \cup {<<a, n>>}
  BY DEF InsertAddress, CanWhitelist
<1>2. Rules' = Rules \cup {r}
  <2> DEFINE Of(t) == <<t[1], EndpointOf(instances[t[2]])>>
  <2>0. Of(<<a, n>>) = r
    OBVIOUS
  <2>1. \A x : x \in Rules <=> \E t \in addresses : instances[t[2]] # NoRow /\ x = Of(t)
    BY RulesAre
  <2>2. \A x : x \in Rules' <=>
                \E t \in addresses \cup {<<a, n>>} : instances[t[2]] # NoRow /\ x = Of(t)
    BY <1>1, RulesWillBe
  <2>3. <<a, n>>[2] = n
    OBVIOUS
  <2> HIDE DEF Of, n, r
  <2>4. \A x : x \in Rules' <=> x \in Rules \cup {r}
    BY <1>1, <2>0, <2>1, <2>2, <2>3
  <2> QED BY <2>4 DEF Rules
<1>3. r \in W!Rule
  <2>1. n \in InstanceId
    BY DEF TypeInv, Shape, Fits
  <2>2. instances[n] \in InstanceRow
    BY <1>1, <2>1 DEF TypeInv, TypeOK, StoreTypeOK
  <2> QED BY <2>2 DEF W!Rule, InstanceRow, EndpointOf
<1>4. Rooted'
  BY <1>1 DEF AddressInv, Rooted
<1> HIDE DEF n, r
<1> QED BY <1>2, <1>3, <1>4

LEMMA ServeInsert ==
    ASSUME TypeInv, AddressInv, NEW h \in Proc, Serve(h), InsertRow(h)
    PROVE  WStep /\ AddressInv'
<1>0. At(h, "Create", "insert") /\ UNCHANGED <<addresses, faults>>
  BY DEF InsertRow
<1>1. CASE Reply(h, Aborted) /\ UNCHANGED instanceTable
  <2>1. SameRows /\ Tame(h)
    BY <1>0, <1>1, ReplyTame DEF SameRows, instanceTable
  <2> QED BY <1>0, <2>1, ServePlain DEF At
<1>2. ASSUME NEW n \in InstanceId, InsertInstance(n, req[h].image, req[h].port, req[h].user),
             req' = [req EXCEPT ![h].pc = "clone", ![h].inst = n]
      PROVE  WStep /\ AddressInv'
  <2>1. Tame(h)
    BY <1>2, ReqType DEF Tame, Request
  <2>2. Rules' = Rules /\ Rooted'
    BY <1>0, <1>2, InsertedRules DEF At
  <2>3. Beside /\ UNCHANGED queue
    BY <1>0, <2>2, ServeBeside DEF At, Serve, Announce
  <2>4. AddressInv'
    <3>1. req'[Cleaner].op \in {"none", "Clean"}
      BY <2>1, LifecycleAssumption DEF AddressInv, Tame, Proc
    <3>2. wfaults' \in Nat /\ wfaults' <= faults' /\ missed' \in BOOLEAN
      BY <1>0, <2>3 DEF AddressInv, Beside
    <3> QED BY <2>2, <3>1, <3>2 DEF AddressInv
  <2>5. Trigger' = Trigger
    BY <1>0, <2>1, NoTrigger DEF At
  <2>6. UNCHANGED whitelister
    BY <2>3 DEF Beside, whitelister
  <2> QED BY <2>2, <2>4, <2>5, <2>6, StillWhitelister
<1> QED BY <1>1, <1>2 DEF InsertRow

LEMMA ServeRecord ==
    ASSUME TypeInv, AddressInv, NEW h \in Proc, Serve(h), WhitelistAddress(h)
    PROVE  WStep /\ AddressInv'
<1>0. /\ req[h].pc = "whitelist"
      /\ UNCHANGED <<instances, instanceSeq, faults, queue>>
      /\ Beside
  BY ServeBeside DEF WhitelistAddress, Serve, Announce, Silently, instanceTable
<1>1. CASE Fail(h) /\ UNCHANGED addresses
  <2>1. SameRows /\ Tame(h)
    BY <1>0, <1>1, FailTame DEF SameRows
  <2> QED BY <1>0, <2>1, ServePlain
<1>2. ASSUME NEW a \in Addr, InsertAddress(a, req[h].inst), Goto(h, "apply")
      PROVE  WStep /\ AddressInv'
  <2>1. h \in Handler
    BY <1>0, TriggerOfHandler
  <2>2. PICK r \in W!Rule : Rules' = Rules \cup {r}
    BY <1>0, <1>2, RecordedRules
  <2>3. Rooted'
    BY <1>0, <1>2, RecordedRules
  <2>4. Trigger' = [Trigger EXCEPT ![h] = "send"]
    BY <1>2, <2>1, ToTrigger
  <2>5. Trigger[h] = "idle"
    BY <1>0, <2>1 DEF Trigger
  <2>6. AddressInv'
    <3>1. req'[Cleaner].op \in {"none", "Clean"}
      BY <1>2, <2>1, ReqType, LifecycleAssumption DEF AddressInv, Goto, Proc
    <3> QED BY <1>0, <2>3, <3>1 DEF AddressInv, Beside
  <2>7. W!RecordAddress(h, r)
    BY <1>0, <2>2, <2>4, <2>5 DEF W!RecordAddress, W!rec, Beside, reconciler
  <2> QED BY <2>1, <2>6, <2>7 DEF WStep, W!Next, W!Api
<1> QED BY <1>1, <1>2 DEF WhitelistAddress

LEMMA ServeApply ==
    ASSUME TypeInv, AddressInv, NEW h \in Proc, Serve(h), ApplyWhitelist(h)
    PROVE  WStep /\ AddressInv'
<1>0. req[h].pc = "apply" /\ SameRows /\ UNCHANGED faults /\ Tame(h)
  BY ReplyTame DEF ApplyWhitelist, SameRows, tables, instanceTable
<1>1. h \in Handler
  BY <1>0, TriggerOfHandler
<1>2. Beside /\ W!Send
  BY <1>0, ServeBeside DEF Silently, Serve, Announce
<1>3. AddressInv'
  BY <1>0, <1>2, CalmAddress, FaultsNat DEF Beside
<1>4. Trigger[h] = "send" /\ Trigger' = [Trigger EXCEPT ![h] = "idle"]
  BY <1>0, <1>1, Triggered DEF Trigger
<1>5. Rules' = Rules
  BY <1>0, SameRules
<1>6. W!ApplyWhitelist(h)
  BY <1>2, <1>4, <1>5 DEF W!ApplyWhitelist, W!rec, Beside, reconciler
<1> QED BY <1>1, <1>3, <1>6 DEF WStep, W!Next, W!Api

(* The rules that go with an instance are those of its port and user. *)
LEMMA DeletedRules ==
    ASSUME TypeInv, AddressInv, NEW n \in InstanceId, DeleteInstance(n)
    PROVE  \E e \in Port \X User : W!RemoveAddresses(e)
<1>0. /\ \A m \in InstanceId \ {n} : instances'[m] = instances[m]
      /\ instances'[n] = NoRow
      /\ addresses' = {t \in addresses : t[2] # n}
      /\ \A t \in addresses : t[2] \in InstanceId
  BY DEF DeleteInstance, TypeInv, TypeOK, StoreTypeOK
<1>1. \A r : r \in Rules' <=> \E t \in addresses : /\ t[2] # n
                                                   /\ instances[t[2]] # NoRow
                                                   /\ r = <<t[1], EndpointOf(instances[t[2]])>>
  BY <1>0, RulesWillBe
<1> DEFINE gone == {r \in Rules : r \notin Rules'}
<1>2. Rules' = Rules \ gone
  <2>1. \A r : r \in Rules' <=> r \in Rules \ gone
    BY <1>1, RulesAre
  <2> QED BY <2>1 DEF Rules
<1>3. PICK e \in Port \X User : gone \in SUBSET {r \in Rules : r[2] = e}
  <2>1. CASE instances[n] = NoRow
    <3>1. \A t \in addresses : t[2] # n
      BY <2>1 DEF AddressInv, Rooted
    <3>2. gone = {}
      BY <1>1, <3>1, RulesAre
    <3>3. <<MinPort, Upload>> \in Port \X User
      BY StoreAssumption DEF Port
    <3> QED BY <3>2, <3>3
  <2>2. CASE instances[n] # NoRow
    <3> DEFINE e == EndpointOf(instances[n])
    <3>1. e \in Port \X User
      BY <2>2 DEF TypeInv, TypeOK, StoreTypeOK, InstanceRow, EndpointOf
    <3>2. ASSUME NEW r \in gone PROVE r \in Rules /\ r[2] = e
      <4>1. PICK t \in addresses : /\ instances[t[2]] # NoRow
                                   /\ r = <<t[1], EndpointOf(instances[t[2]])>>
        BY <3>2, RulesAre
      <4>2. t[2] = n
        BY <1>1, <3>2, <4>1
      <4> QED BY <3>2, <4>1, <4>2
    <3> HIDE DEF e, gone
    <3> QED BY <3>1, <3>2
  <2> QED BY <2>1, <2>2
<1> HIDE DEF gone
<1> QED BY <1>2, <1>3 DEF W!RemoveAddresses

LEMMA DeletedRows ==
    ASSUME TypeInv, AddressInv, NEW n \in InstanceId, DeleteInstance(n)
    PROVE  Rooted'
<1>1. /\ \A m \in InstanceId : instances'[m] # NoRow => instances'[m] = instances[m]
      /\ \A t \in addresses' : t \in addresses /\ instances'[t[2]] = instances[t[2]]
      /\ UNCHANGED instanceSeq
  BY DEF DeleteInstance, TypeInv, TypeOK, StoreTypeOK
<1> QED BY <1>1 DEF AddressInv, Rooted

LEMMA ServeDelete ==
    ASSUME TypeInv, AddressInv, NEW h \in Proc, Serve(h), DeleteRow(h)
    PROVE  WStep /\ AddressInv'
<1> DEFINE n == req[h].inst
<1>0. /\ req[h].pc = "delrow"
      /\ n \in InstanceId
      /\ req[h].op \in {"Destroy", "Clean", "ImageDestroy"}
      /\ DeleteInstance(n)
      /\ UNCHANGED <<faults, queue, chain, reconciler, wfaults>>
      /\ missed' = (missed \/ (Silently(h) /\ Rules' # Rules))
  BY DEF DeleteRow, TypeInv, Shape, Fits, Serve, Announce
<1>1. PICK e \in Port \X User : W!RemoveAddresses(e)
  BY <1>0, DeletedRules
<1>2. AddressInv'
  <2>1. req'[Cleaner].op \in {"none", "Clean"}
    <3>1. req'[Cleaner].op = req[Cleaner].op
      BY <1>0, ReqType DEF DeleteRow, Goto, Proc, Request
    <3> QED BY <3>1 DEF AddressInv
  <2>2. wfaults' \in Nat /\ wfaults' <= faults'
    BY <1>0 DEF AddressInv
  <2>3. missed \in BOOLEAN
    BY DEF AddressInv
  <2>4. missed' \in BOOLEAN
    BY <1>0, <2>3
  <2> QED BY <1>0, <2>1, <2>2, <2>4, DeletedRows DEF AddressInv
<1>3. CASE req[h].op = "Destroy"
  <2>1. h \in Handler
    BY <1>3, TriggerOfHandler
  <2>2. Goto(h, "apply") /\ Beside
    BY <1>3, ServeBeside DEF DeleteRow, Silently
  <2>3. Trigger[h] = "idle" /\ Trigger' = [Trigger EXCEPT ![h] = "send"]
    BY <1>0, <2>1, <2>2, ToTrigger DEF Trigger
  <2>4. W!DestroyInstance(h, e)
    BY <1>0, <1>1, <2>2, <2>3 DEF W!DestroyInstance, W!rec, Beside, reconciler
  <2> QED BY <1>1, <1>2, <2>1, <2>4 DEF WStep, W!Next, W!Api
<1>4. CASE req[h].op # "Destroy"
  <2>1. Tame(h)
    <3>1. Goto(h, "next") \/ Goto(h, "stop")
      BY <1>0, <1>4 DEF DeleteRow
    <3> QED BY <3>1, GotoTame
  <2>2. Trigger' = Trigger
    BY <1>0, <2>1, NoTrigger
  <2>3. CASE Rules' = Rules
    <3>1. Beside
      BY <2>3, ServeBeside
    <3>2. UNCHANGED whitelister
      BY <1>0, <3>1 DEF Beside, whitelister
    <3> QED BY <1>2, <2>2, <2>3, <3>2, StillWhitelister
  <2>4. CASE Rules' # Rules
    <3>1. Silently(h)
      BY <1>0, <1>4 DEF Silently
    <3>2. missed' = TRUE
      BY <1>0, <2>4, <3>1
    <3>3. W!DestroySilently(e)
      BY <1>0, <1>1, <2>2, <2>4, <3>2 DEF W!DestroySilently, W!rec, reconciler
    <3> QED BY <1>1, <1>2, <3>3 DEF WStep, W!Next
  <2> QED BY <2>3, <2>4
<1> QED BY <1>3, <1>4

(* The handlers of images leave rows and addresses alone, and the trigger. *)
LEMMA ImageTame ==
    ASSUME TypeInv, NEW h \in Proc, ImageStep(h)
    PROVE  /\ SameRows /\ UNCHANGED faults /\ Tame(h)
           /\ req[h].pc \notin {"apply", "delrow"}
<1>1. /\ SameRows /\ UNCHANGED faults
      /\ req[h].pc \notin {"apply", "delrow", "whitelist"}
  BY DEF ImageStep, ImageCreate, CreateBtrfsSubvolume, ImageDone, BootImage, MarkStarted,
         SealImage, SnapshotImage, ImageMarkReady, ImageDestroy, ListInstances, NextInstance,
         ImageDeleteRow, RemoveSnapshot, RemoveUpload, tables, instanceTable, SameRows, At,
         Accepts
<1>2. Only(h) /\ Edge(req[h], req'[h])
  BY ImageStepFlow
<1>3. req'[h].pc # "apply"
  BY <1>1, <1>2 DEF Edge, Fresh, Fails, Moved, Flow, Answers, Advances, PortChosen, RowInserted,
                    Idle, New
<1>4. h \in Handler \/ req'[h].op \in {req[h].op, "none"}
  <2>1. CASE req[h].pc = "idle"
    BY <2>1, IdleStarts
  <2>2. CASE req[h].pc # "idle"
    BY <1>2, <2>2, OpEdge DEF Idle, New
  <2> QED BY <2>1, <2>2
<1> QED BY <1>1, <1>2, <1>3, <1>4 DEF Tame, Only

LEMMA ServeStep ==
    ASSUME TypeInv, AddressInv, NEW h \in Proc, Serve(h)
    PROVE  WStep /\ AddressInv'
<1>1. CASE InsertRow(h)
  BY <1>1, ServeInsert
<1>2. CASE WhitelistAddress(h)
  BY <1>2, ServeRecord
<1>3. CASE ApplyWhitelist(h)
  BY <1>3, ServeApply
<1>4. CASE DeleteRow(h)
  BY <1>4, ServeDelete
<1>5. ASSUME ~InsertRow(h), ~WhitelistAddress(h), ~ApplyWhitelist(h), ~DeleteRow(h)
      PROVE  WStep /\ AddressInv'
  <2>1. /\ SameRows /\ UNCHANGED faults /\ Tame(h)
        /\ req[h].pc \notin {"apply", "delrow"}
    BY <1>5, PlainSteps, ImageTame DEF Serve, InstanceStep
  <2> QED BY <2>1, ServePlain
<1> QED BY <1>1, <1>2, <1>3, <1>4, <1>5

-----------------------------------------------------------------------------
(***************************************************************************)
(* The other steps.                                                        *)
(***************************************************************************)
LEMMA CalmStep ==
    ASSUME TypeInv, AddressInv, SameRows, NEW h \in Proc, Tame(h), req[h].pc # "apply",
           UNCHANGED whitelister, faults' \in Nat, faults' >= faults
    PROVE  WStep /\ AddressInv'
<1>1. AddressInv'
  BY CalmAddress DEF whitelister
<1> QED BY <1>1, SameRules, NoTrigger, StillWhitelister

LEMMA CleanerSystem ==
    ASSUME TypeInv, TypeInv', AddressInv, CleanerStep, UNCHANGED whitelister
    PROVE  WStep /\ AddressInv'
<1>0. Cleaner \in Proc /\ req[Cleaner].pc # "apply" /\ req[Cleaner] \in Request
  BY ReqType DEF Proc, AddressInv, TypeInv, Shape, Fits
<1>1. SameRows
  BY DEF CleanerStep, Clean, CheckToken, CleanEnd, SameRows, tables, instanceTable
<1>2. faults' \in Nat /\ faults' >= faults
  <2>1. faults' = faults \/ faults' = faults + 1
    BY DEF CleanerStep, Clean, CheckToken, CleanEnd
  <2> QED BY <2>1, FaultsNat
<1>3. PICK r : r.pc # "apply" /\ r.op \in {"Clean", "none"} /\ req' = [req EXCEPT ![Cleaner] = r]
  <2>1. CASE Clean
    <3> DEFINE r == [New("Clean", "next", Upload, 0, 0) EXCEPT !.todo = InstanceList]
    <3>1. r.pc # "apply" /\ r.op = "Clean"
      BY DEF New
    <3> HIDE DEF r
    <3> QED BY <2>1, <3>1 DEF Clean, r
  <2>2. CASE CheckToken
    <3>1. PICK t \in req[Cleaner].todo :
            \/ req' = [req EXCEPT ![Cleaner] =
                         [[req[Cleaner] EXCEPT !.todo = @ \ {t}]
                            EXCEPT !.pc = "stop", !.inst = t[1]]]
            \/ req' = [req EXCEPT ![Cleaner] = [req[Cleaner] EXCEPT !.todo = @ \ {t}]]
      BY <2>2 DEF CheckToken
    <3> DEFINE rest == [req[Cleaner] EXCEPT !.todo = @ \ {t}]
               doomed == [rest EXCEPT !.pc = "stop", !.inst = t[1]]
    <3>2. rest.pc # "apply" /\ rest.op = "Clean" /\ doomed.pc # "apply" /\ doomed.op = "Clean"
      BY <1>0, <2>2 DEF CheckToken, At, Request
    <3> HIDE DEF rest, doomed
    <3> QED BY <3>1, <3>2 DEF rest, doomed
  <2>3. CASE CleanEnd
    <3>1. Idle.pc # "apply" /\ Idle.op = "none"
      BY DEF Idle, New
    <3> QED BY <2>3, <3>1 DEF CleanEnd
  <2> QED BY <2>1, <2>2, <2>3 DEF CleanerStep
<1>4. Tame(Cleaner)
  BY <1>0, <1>3, BecomeTame
<1> QED BY <1>0, <1>1, <1>2, <1>4, CalmStep

LEMMA FaultSystem ==
    ASSUME TypeInv, AddressInv, NEW h \in Proc, UNCHANGED whitelister,
           ScriptFault(h) \/ StatementFault(h) \/ TruncatedList(h) \/ Disconnect(h)
    PROVE  WStep /\ AddressInv'
<1>1. /\ SameRows
      /\ faults' \in Nat /\ faults' >= faults
      /\ req[h].pc # "apply"
  BY FaultsNat DEF ScriptFault, StatementFault, TruncatedList, Disconnect, SameRows, tables,
                   instanceTable, ScriptPc, CtxPc, DetachedPc, ServerPc, At
<1>2. Tame(h)
  <2>1. CASE ScriptFault(h)
    BY <2>1, ScriptFailTame, GotoTame DEF ScriptFault
  <2>2. CASE StatementFault(h)
    <3>1. req' = [req EXCEPT ![h] = OnStatementError(req[h])]
      BY <2>2, ReqType DEF StatementFault
    <3> QED BY <3>1, ReqType, ErrorTame, BecomeTame
  <2>3. CASE Disconnect(h)
    <3>1. CASE req' = [req EXCEPT ![h].parent = "killed"]
      BY <1>1, <3>1, ReqType DEF Tame, Request
    <3> QED BY <2>3, <3>1, FailTame DEF Disconnect
  <2>4. CASE TruncatedList(h)
    <3>1. ASSUME NEW p, req' = [req EXCEPT ![h] = [req[h] EXCEPT !.pc = "insert", !.port = p]]
          PROVE  Tame(h)
      BY <3>1, ReqType DEF Tame, Request
    <3>2. ASSUME NEW t, req' = [req EXCEPT ![h] = [req[h] EXCEPT !.pc = "next", !.todo = t]]
          PROVE  Tame(h)
      BY <3>2, ReqType DEF Tame, Request
    <3>3. ASSUME NEW t, req' = [req EXCEPT ![h] = [New("Clean", "next", Upload, 0, 0)
                                                     EXCEPT !.todo = t]]
          PROVE  Tame(h)
      BY <3>3, ReqType DEF Tame, New
    <3> QED BY <2>4, <3>1, <3>2, <3>3, CutShort
  <2> QED BY <2>1, <2>2, <2>3, <2>4
<1> QED BY <1>1, <1>2, CalmStep

(* A statement whose answer is lost: what it does to the rules is not      *)
(* announced.                                                              *)
LEMMA UnannouncedSystem ==
    ASSUME TypeInv, AddressInv, NEW h \in Proc, Unannounced(h)
    PROVE  WStep /\ AddressInv'
<1>0. /\ UNCHANGED <<chain, queue, reconciler, wfaults>>
      /\ missed' = (missed \/ Rules' # Rules)
      /\ faults' = faults + 1 /\ faults \in Nat
  BY FaultsNat DEF Unannounced, Unacknowledged, CreateUnacknowledged
<1>1. Tame(h) /\ req[h].pc # "apply"
  <2>1. CASE Unacknowledged(h)
    <3>1. req' = [req EXCEPT ![h] = OnStatementError(req[h])]
      BY <2>1, LostAnswer
    <3>2. req[h].pc # "apply"
      BY <2>1 DEF Unacknowledged, TakesEffect
    <3> QED BY <3>1, <3>2, ReqType, ErrorTame, BecomeTame
  <2>2. CASE CreateUnacknowledged(h)
    <3> DEFINE y(i) == Replied(New("ImageCreate", "mkvol", Upload, i, 0), 500)
    <3>1. PICK i \in ImageId : req' = [req EXCEPT ![h] = y(i)]
      BY <2>2 DEF CreateUnacknowledged
    <3>2. y(i).pc = "reply" /\ h \in Handler /\ req[h].pc = "idle"
      BY <2>2, NewFields DEF CreateUnacknowledged, Accepts
    <3> HIDE DEF y
    <3> QED BY <3>1, <3>2, BecomeTame
  <2> QED BY <2>1, <2>2 DEF Unannounced
<1>2. Trigger' = Trigger
  BY <1>1, NoTrigger
<1>3. ASSUME Rooted' PROVE AddressInv'
  <2>1. missed \in BOOLEAN /\ wfaults \in Nat /\ wfaults <= faults
    BY DEF AddressInv
  <2>2. missed' \in BOOLEAN
    BY <1>0, <2>1
  <2>3. req'[Cleaner].op \in {"none", "Clean"}
    BY <1>1, LifecycleAssumption DEF Tame, AddressInv, Proc
  <2>4. wfaults' \in Nat /\ wfaults' <= faults'
    BY <1>0, <2>1
  <2> QED BY <1>3, <2>2, <2>3, <2>4 DEF AddressInv
<1>4. ASSUME Rules' = Rules PROVE WStep
  <2>1. missed' = missed
    BY <1>0, <1>4 DEF AddressInv
  <2>2. UNCHANGED whitelister
    BY <1>0, <2>1 DEF whitelister
  <2> QED BY <1>2, <1>4, <2>2, StillWhitelister
<1>5. ASSUME Rules' # Rules PROVE missed' = TRUE
  BY <1>0, <1>5
<1>6. CASE SameRows
  BY <1>3, <1>4, <1>6, SameRules DEF AddressInv, Rooted, SameRows
<1>7. CASE /\ req[h].pc = "insert" /\ UNCHANGED addresses
           /\ \E n \in InstanceId :
                 InsertInstance(n, req[h].image, req[h].port, req[h].user)
  BY <1>3, <1>4, <1>7, InsertedRules
<1>8. CASE /\ req[h].pc = "whitelist" /\ UNCHANGED instanceTable
           /\ \E a \in Addr : InsertAddress(a, req[h].inst)
  <2>1. PICK a \in Addr : InsertAddress(a, req[h].inst)
    BY <1>8
  <2>2. UNCHANGED <<instances, instanceSeq>>
    BY <1>8 DEF instanceTable
  <2>3. PICK r \in W!Rule : Rules' = Rules \cup {r}
    BY <1>8, <2>1, <2>2, RecordedRules
  <2>4. AddressInv'
    BY <1>3, <1>8, <2>1, <2>2, RecordedRules
  <2>5. ASSUME Rules' # Rules PROVE W!RecordSilently(r)
    <3>1. r \notin Rules
      BY <2>3, <2>5
    <3> QED BY <1>0, <1>2, <1>5, <2>3, <2>5, <3>1 DEF W!RecordSilently, W!rec, reconciler
  <2>6. WStep
    BY <1>4, <2>3, <2>5 DEF WStep, W!Next
  <2> QED BY <2>4, <2>6
<1>9. CASE req[h].pc = "delrow" /\ DeleteInstance(req[h].inst)
  <2>0. req[h].inst \in InstanceId
    BY <1>9 DEF TypeInv, Shape, Fits
  <2>1. PICK e \in Port \X User : W!RemoveAddresses(e)
    BY <1>9, <2>0, DeletedRules
  <2>2. AddressInv'
    BY <1>3, <1>9, <2>0, DeletedRows
  <2>3. ASSUME Rules' # Rules PROVE W!DestroySilently(e)
    BY <1>0, <1>2, <1>5, <2>1, <2>3 DEF W!DestroySilently, W!rec, reconciler
  <2>4. WStep
    BY <1>4, <2>1, <2>3 DEF WStep, W!Next
  <2> QED BY <2>2, <2>4
<1>10. \/ SameRows
       \/ /\ req[h].pc = "insert" /\ UNCHANGED addresses
          /\ \E n \in InstanceId : InsertInstance(n, req[h].image, req[h].port, req[h].user)
       \/ /\ req[h].pc = "whitelist" /\ UNCHANGED instanceTable
          /\ \E a \in Addr : InsertAddress(a, req[h].inst)
       \/ req[h].pc = "delrow" /\ DeleteInstance(req[h].inst)
  BY DEF Unannounced, Unacknowledged, TakesEffect, CreateUnacknowledged, SameRows,
         instanceTable
<1> QED BY <1>6, <1>7, <1>8, <1>9, <1>10

LEMMA CrashSystem ==
    ASSUME TypeInv, AddressInv, ServerCrash
    PROVE  WStep /\ AddressInv'
<1>1. /\ SameRows
      /\ faults < MaxFaults /\ faults' = faults + 1
      /\ Restarted
  BY DEF ServerCrash, Crash, CrashIdle, SameRows, tables, instanceTable
<1>2. ASSUME NEW g \in Proc
      PROVE  req'[g].pc # "apply" /\ req'[g].op \in {req[g].op, "none"}
  <2>1. CASE CrashIdle
    BY <2>1 DEF CrashIdle
  <2>2. CASE Crash
    <3>1. req'[g] = IF req[g].pc \in ScriptPc THEN [req[g] EXCEPT !.parent = "gone"] ELSE Idle
      BY <2>2 DEF Crash
    <3>2. Idle.pc # "apply" /\ Idle.op = "none"
      BY DEF Idle, New
    <3>3. CASE req[g].pc \in ScriptPc
      BY <3>1, <3>3, ReqType DEF Request, ScriptPc, CtxPc, DetachedPc
    <3> QED BY <3>1, <3>2, <3>3
  <2> QED BY <2>1, <2>2 DEF ServerCrash
<1>3. Trigger' = [h \in Handler |-> "idle"]
  BY <1>2 DEF Trigger, Proc
<1>4. wfaults \in Nat /\ wfaults <= faults /\ faults \in Nat /\ MaxFaults \in Nat
  BY FaultsNat, LifecycleAssumption DEF AddressInv
<1>5. W!Restart
  BY <1>1, <1>3, <1>4, SameRules DEF Restarted, W!Restart
<1>6. AddressInv'
  <2>1. req'[Cleaner].op \in {"none", "Clean"}
    BY <1>2 DEF AddressInv, Proc
  <2>2. wfaults' \in Nat /\ wfaults' <= faults' /\ missed' = missed
    BY <1>1, <1>4 DEF Restarted
  <2> QED BY <1>1, <2>1, <2>2 DEF AddressInv, Rooted, SameRows
<1> QED BY <1>5, <1>6 DEF WStep, W!Next

(* What the whitelister itself does to the invariant's variables *)
LEMMA ReconcileAddress ==
    ASSUME missed \in BOOLEAN, W!Reconcile
    PROVE  missed' \in BOOLEAN /\ wfaults' = wfaults
<1>1. ASSUME NEW f \in BOOLEAN, W!Return(f) PROVE missed' \in BOOLEAN
  BY <1>1 DEF W!Return
<1>2. ASSUME NEW r, W!AppendRule(r) PROVE missed' \in BOOLEAN /\ wfaults' = wfaults
  BY <1>1, <1>2 DEF W!AppendRule
<1>3. ASSUME W!AllRemoved PROVE missed' \in BOOLEAN /\ wfaults' = wfaults
  BY <1>1, <1>3 DEF W!AllRemoved
<1>4. ASSUME NEW r, W!DeleteRule(r) PROVE missed' = missed /\ wfaults' = wfaults
  BY <1>4 DEF W!DeleteRule
<1>5. ASSUME W!ListAddresses PROVE missed' \in BOOLEAN /\ wfaults' = wfaults
  BY <1>5 DEF W!ListAddresses
<1>6. ASSUME W!Receive \/ W!RetrieveExisting \/ W!AllAdded
      PROVE  missed' = missed /\ wfaults' = wfaults
  BY <1>6 DEF W!Receive, W!RetrieveExisting, W!AllAdded
<1> QED BY <1>2, <1>3, <1>4, <1>5, <1>6 DEF W!Reconcile

LEMMA WhitelisterSystem ==
    ASSUME TypeInv, AddressInv, Whitelist \/ TimerSend \/ TimerFire \/ WhitelistFault
    PROVE  WStep /\ AddressInv'
<1>1. SameRows /\ UNCHANGED req /\ missed \in BOOLEAN
  BY DEF Whitelist, TimerSend, TimerFire, WhitelistFault, vars, SameRows, tables,
         instanceTable, AddressInv
<1>2. WStep
  BY DEF Whitelist, TimerSend, TimerFire, WhitelistFault, WStep, W!Next
<1>3. missed' \in BOOLEAN /\ wfaults' \in Nat /\ wfaults' <= faults'
  <2>1. CASE Whitelist
    BY <1>1, <2>1, ReconcileAddress DEF Whitelist, vars, AddressInv
  <2>2. CASE TimerSend \/ TimerFire
    <3>1. UNCHANGED <<missed, wfaults, faults>>
      BY <2>2 DEF TimerSend, TimerFire, W!TimerSend, W!TimerFire, vars
    <3> QED BY <1>1, <3>1 DEF AddressInv
  <2>3. CASE WhitelistFault
    <3>1. /\ W!Return(TRUE) \/ missed' = TRUE
          /\ wfaults' = wfaults + 1 /\ faults' = faults + 1
      BY <2>3 DEF WhitelistFault, W!ReconcileFault, W!ListTruncated
    <3>2. missed' \in BOOLEAN
      BY <1>1, <3>1 DEF W!Return
    <3> QED BY <3>1, <3>2, FaultsNat DEF AddressInv
  <2> QED BY <2>1, <2>2, <2>3
<1>4. AddressInv'
  BY <1>1, <1>3 DEF AddressInv, Rooted, SameRows
<1> QED BY <1>2, <1>4

-----------------------------------------------------------------------------
(* The system takes steps of Lifecycle, but for the faults that hit        *)
(* nobody's request.                                                       *)
LEMMA SystemTypes ==
    ASSUME TypeInv, [SystemNext]_systemVars
    PROVE  TypeInv'
<1>1. CASE [Next]_vars
  BY <1>1, NextTypes
<1>2. CASE CrashIdle \/ WhitelistFault
  <2>1. /\ UNCHANGED <<images, imageSeq, instances, instanceSeq, addresses, uploads, snapshots,
                       dirs, pg, revoked, req>>
        /\ faults' \in 0..MaxFaults
    <3>1. faults < MaxFaults /\ faults' = faults + 1
      BY <1>2 DEF CrashIdle, WhitelistFault
    <3>2. faults' \in 0..MaxFaults
      BY <3>1, FaultsNat, LifecycleAssumption
    <3> QED BY <1>2, <3>2 DEF CrashIdle, WhitelistFault, tables, imageTable, instanceTable, disk
  <2> QED BY <2>1 DEF TypeInv, TypeOK, StoreTypeOK, Shape, Fits
<1>3. [Next]_vars \/ CrashIdle \/ WhitelistFault
  BY DEF SystemNext, systemVars, Serve, Unannounced, ServerCrash, Whitelist, TimerSend,
         TimerFire, Next, Fault
<1> QED BY <1>1, <1>2, <1>3

LEMMA SystemStep ==
    ASSUME TypeInv, TypeInv', AddressInv, [SystemNext]_systemVars
    PROVE  WStep /\ AddressInv'
<1>1. CASE UNCHANGED systemVars
  <2>1. SameRows /\ UNCHANGED <<whitelister, req, faults>>
    BY <1>1 DEF systemVars, vars, SameRows, tables, instanceTable
  <2>2. Trigger' = Trigger
    BY <2>1 DEF Trigger
  <2>3. AddressInv'
    BY <2>1 DEF AddressInv, Rooted, SameRows, whitelister
  <2> QED BY <2>1, <2>2, <2>3, SameRules, StillWhitelister
<1>2. ASSUME NEW u \in User, Revoke(u), UNCHANGED whitelister PROVE WStep /\ AddressInv'
  <2>1. SameRows /\ UNCHANGED <<req, faults>>
    BY <1>2 DEF Revoke, SameRows, tables, instanceTable
  <2>2. Trigger' = Trigger
    BY <2>1 DEF Trigger
  <2>3. AddressInv'
    BY <1>2, <2>1 DEF AddressInv, Rooted, SameRows, whitelister
  <2> QED BY <1>2, <2>1, <2>2, <2>3, SameRules, StillWhitelister
<1> QED BY <1>1, <1>2, ServeStep, CleanerSystem, FaultSystem, UnannouncedSystem, CrashSystem,
        WhitelisterSystem
        DEF SystemNext

LEMMA SystemStarts == SystemInit => TypeInv /\ AddressInv /\ W!Init
<1> SUFFICES ASSUME SystemInit PROVE TypeInv /\ AddressInv /\ W!Init
  OBVIOUS
<1>1. Idle.pc = "idle" /\ Idle.op = "none"
  BY DEF Idle, New
<1>2. AddressInv
  <2>1. missed \in BOOLEAN
    BY DEF SystemInit
  <2>2. addresses = {} /\ \A n \in InstanceId : instances[n] = NoRow
    BY DEF SystemInit, Init, StoreInit
  <2>3. req[Cleaner].op = "none"
    BY <1>1 DEF SystemInit, Init, Proc
  <2>4. wfaults \in Nat /\ wfaults <= faults
    BY DEF SystemInit, Init
  <2> QED BY <2>1, <2>2, <2>3, <2>4 DEF AddressInv, Rooted
<1>3. Rules = {}
  BY DEF SystemInit, Init, StoreInit, Rules
<1>4. Trigger = [h \in Handler |-> "idle"]
  BY <1>1 DEF SystemInit, Init, Trigger, Proc
<1>5. W!Init
  BY <1>3, <1>4 DEF SystemInit, W!Init
<1> QED BY <1>2, <1>5, InitTypes DEF SystemInit

(* The server's handlers and its cleaner treat the whitelister as module   *)
(* Whitelister says: what a handler changes is followed by its trigger,    *)
(* unless the server dies first, and then by the new whitelister's first   *)
(* reconcile; only a deletion by the cleaner or Images.Destroy, and a      *)
(* statement whose answer is lost, come without.                           *)
THEOREM WhitelisterImplemented == SystemSpec => ImplementsWhitelister
<1>1. TypeInv /\ AddressInv /\ [SystemNext]_systemVars
        => TypeInv' /\ AddressInv' /\ [W!Next]_wvars
  BY SystemTypes, SystemStep DEF WStep
<1>2. ImplementsWhitelister <=> W!Init /\ [][W!Next]_wvars
  BY DEF ImplementsWhitelister, W!Spec, W!vars, W!rec, wvars
<1> QED BY <1>1, <1>2, SystemStarts, PTL DEF SystemSpec
-----------------------------------------------------------------------------
(***************************************************************************)
(* What is proved of Whitelister therefore holds of the server.            *)
(***************************************************************************)
WP == INSTANCE WhitelisterProofs WITH
        Endpoint <- Port \X User, Caller <- Handler, Silent <- TRUE,
        table <- Rules, caller <- Trigger, pc <- recPc, faults <- wfaults

LEMMA SameNext == [W!Next]_wvars => [WP!Next]_wvars
<1> USE DEF W!rec, WP!rec, W!Rule, WP!Rule
<1>1. W!Api => WP!Api
  BY DEF W!Api, WP!Api, W!RecordAddress, WP!RecordAddress, W!DestroyInstance,
         WP!DestroyInstance, W!RemoveAddresses, WP!RemoveAddresses, W!ApplyWhitelist,
         WP!ApplyWhitelist, W!Send, WP!Send
<1>2. ASSUME NEW e \in Port \X User, W!DestroySilently(e) PROVE WP!DestroySilently(e)
  BY <1>2 DEF W!DestroySilently, WP!DestroySilently, W!RemoveAddresses, WP!RemoveAddresses
<1>3. (W!TimerSend => WP!TimerSend) /\ (W!TimerFire => WP!TimerFire)
  BY DEF W!TimerSend, WP!TimerSend, W!TimerFire, WP!TimerFire, W!Send, WP!Send
<1>4. \A failed : W!Return(failed) => WP!Return(failed)
  BY DEF W!Return, WP!Return
<1>5. W!Reconcile => WP!Reconcile
  <2>1. /\ W!Receive => WP!Receive
        /\ W!ListAddresses => WP!ListAddresses
        /\ W!RetrieveExisting => WP!RetrieveExisting
        /\ W!AllAdded => WP!AllAdded
    BY DEF W!Receive, WP!Receive, W!ListAddresses, WP!ListAddresses, W!WhitelistedAddresses,
           WP!WhitelistedAddresses, W!RetrieveExisting, WP!RetrieveExisting,
           W!sliceDifference, WP!sliceDifference, W!retrieveExistingRules,
           WP!retrieveExistingRules, W!AllAdded, WP!AllAdded
  <2>2. W!AllRemoved => WP!AllRemoved
    BY <1>4 DEF W!AllRemoved, WP!AllRemoved
  <2>3. \A r \in W!Rule : (W!AppendRule(r) => WP!AppendRule(r))
                          /\ (W!DeleteRule(r) => WP!DeleteRule(r))
    BY <1>4 DEF W!AppendRule, WP!AppendRule, W!DeleteRule, WP!DeleteRule
  <2> QED BY <2>1, <2>2, <2>3 DEF W!Reconcile, WP!Reconcile
<1>6. W!ReconcileFault => WP!ReconcileFault
  BY <1>4 DEF W!ReconcileFault, WP!ReconcileFault
<1>7. W!Restart => WP!Restart
  BY DEF W!Restart, WP!Restart
<1>8. ASSUME NEW r \in W!Rule, W!RecordSilently(r) PROVE WP!RecordSilently(r)
  BY <1>8 DEF W!RecordSilently, WP!RecordSilently
<1>9. W!ListTruncated => WP!ListTruncated
  BY DEF W!ListTruncated, WP!ListTruncated, W!WhitelistedAddresses, WP!WhitelistedAddresses
<1> QED BY <1>1, <1>2, <1>3, <1>5, <1>6, <1>7, <1>8, <1>9 DEF W!Next, WP!Next

LEMMA SameWhitelister == ImplementsWhitelister => WP!Spec
<1>1. ImplementsWhitelister <=> W!Init /\ [][W!Next]_wvars
  BY DEF ImplementsWhitelister, W!Spec, W!vars, W!rec, wvars
<1>2. WP!Spec <=> WP!Init /\ [][WP!Next]_wvars
  BY DEF WP!Spec, WP!vars, WP!rec, wvars
<1>3. W!Init => WP!Init
  BY DEF W!Init, WP!Init, W!Rule, WP!Rule
<1> QED BY <1>1, <1>2, <1>3, SameNext, PTL

(* In the wired server, with any number of handlers, a chain at rest is    *)
(* what the tables say, but for reconciles that failed or saw a part of    *)
(* the addresses and for changes made silently: NoLostTrigger, with the    *)
(* server's tables and requests for the whitelister's environment.         *)
THEOREM RestInSync == SystemSpec => []AtRestInSync
<1>1. WP!WhitelisterAssumption
  BY SystemAssumption, LifecycleAssumption DEF WP!WhitelisterAssumption
<1>2. WP!Spec => []WP!NoLostTrigger
  BY <1>1, WP!WakeUpsKept
<1>3. WP!NoLostTrigger => AtRestInSync
  BY DEF WP!NoLostTrigger, WP!Triggered, WP!Target, Trigger, AtRestInSync
<1> QED BY <1>2, <1>3, WhitelisterImplemented, SameWhitelister, PTL
-----------------------------------------------------------------------------
(***************************************************************************)
(* What is proved of the lifecycle holds beside the whitelister as well:   *)
(* a handler that waits to send its trigger is only a slower handler.      *)
(***************************************************************************)

(* A step of the server is a step of Lifecycle, or a fault that ends or    *)
(* hits nothing but the whitelister.                                       *)
LEMMA LifecycleOrFault ==
    ASSUME [SystemNext]_systemVars
    PROVE  \/ [Next]_vars
           \/ UNCHANGED <<tables, disk, revoked, req>> /\ faults' = faults + 1
BY DEF SystemNext, systemVars, Serve, Unannounced, ServerCrash, CrashIdle, Whitelist,
       TimerSend, TimerFire, WhitelistFault, Next, Fault

LEMMA WiredStep ==
    ASSUME TypeInv, ImageInv, InstanceInv, ServingInv, [SystemNext]_systemVars
    PROVE  TypeInv' /\ ImageInv' /\ InstanceInv' /\ ServingInv'
<1>1. TypeInv'
  BY SystemTypes
<1>2. CASE [Next]_vars
  BY <1>1, <1>2, NextImage, StepInstance, StepServing
<1>3. CASE UNCHANGED <<tables, disk, revoked, req>> /\ faults' = faults + 1
  <2> USE <1>3 DEF tables, disk, imageTable, instanceTable
  <2>1. ImageInv'
    BY DEF ImageInv, ImageReq, ReadyImageHasSnapshot, InstanceOfReadyImage
  <2>2. InstanceInv'
    BY DEF InstanceInv, InstanceReq, RowDeleted, Gone, ClonesDistinct, RowInv, DirHasRow
  <2>3. ServingInv'
    BY FaultsNat DEF ServingInv
  <2> QED BY <1>1, <2>1, <2>2, <2>3
<1> QED BY <1>2, <1>3, LifecycleOrFault

(* In the wired server a ready image has its snapshot, a row its ready     *)
(* image, what was answered as destroyed is gone, and until something      *)
(* fails what was answered as created serves.                              *)
THEOREM LifecycleWired ==
    SystemSpec => []( /\ ReadyImageHasSnapshot /\ InstanceOfReadyImage
                      /\ DestroyedIsGone /\ CreatedIsServing )
<1>1. SystemInit => TypeInv /\ ImageInv /\ InstanceInv /\ ServingInv
  BY SystemStarts, InitImage, InitInstance, InitServing DEF SystemInit
<1>2. ImageInv => ReadyImageHasSnapshot /\ InstanceOfReadyImage
  BY DEF ImageInv
<1> QED BY <1>1, <1>2, WiredStep, GoneByInvariant, ServedByInvariant, PTL DEF SystemSpec
=============================================================================
