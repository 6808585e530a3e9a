----------------------------- MODULE Lifecycle -----------------------------
(***************************************************************************)
(* The life of images and instances: the handlers of                       *)
(* pkg/server/api/routes/images.go and instances.go, the scripts of cmd/   *)
(* that they run through pkg/exec, and the instance cleaner                *)
(* (pkg/server/cleaner.go).                                                *)
(*                                                                         *)
(* Every request is served by a goroutine of its own, so a handler is a    *)
(* process, and so is the cleaner.  A step of a process is one SQL         *)
(* statement or one command of a script: between two steps any other       *)
(* process may run.  What is not rolled back by anybody is kept in four    *)
(* variables besides the tables: the directories under image_uploads,      *)
(* image_snapshots and instances, and the PostgreSQL servers started       *)
(* there.                                                                  *)
(*                                                                         *)
(* What can go wrong is drawn from a budget of MaxFaults: a statement or a *)
(* command fails, a statement takes effect but its answer is lost, a list  *)
(* is cut short by a lost connection, the client goes away and takes the   *)
(* script's sudo with it (exec.CommandContext), or the server dies and is  *)
(* restarted by systemd (Restart=always, KillMode=process: its scripts run *)
(* on).                                                                    *)
(***************************************************************************)
EXTENDS Store

CONSTANTS
    Handler,        \* goroutines serving requests
    Cleaner,        \* the goroutine of InstanceCleaner.Start
    Ops,            \* the operations a run lets clients (and the cleaner) start
    MaxFaults       \* bound on failures

AllOps == {"ImageCreate", "ImageDone", "ImageDestroy",
           "Create", "Get", "Destroy", "Clean"}

ASSUME LifecycleAssumption ==
    /\ Cleaner \notin Handler
    /\ Ops \subseteq AllOps
    /\ MaxFaults \in Nat

Proc == Handler \cup {Cleaner}

VARIABLES
    uploads,        \* [ImageId -> state of image_uploads/<id>]
    snapshots,      \* the ids i for which image_snapshots/<i> exists
    dirs,           \* [InstanceId -> state of instances/<id>]
    pg,             \* [InstanceId -> port of its PostgreSQL, 0 when not running]
    revoked,        \* users whose refresh token Google answers invalid_grant for
    req,            \* [Proc -> what the process is doing]
    faults          \* failures so far

disk == <<uploads, snapshots, dirs, pg>>
vars == <<tables, disk, revoked, req, faults>>

(* image_uploads/<id>: the subvolume of a new image ("raw"), its cluster   *)
(* started and given its draupnir-admin user ("booted"), the marker file   *)
(* .draupnir-start-image written ("started"), draupnir-admin dropped and   *)
(* the cluster stopped ("sealed").  instances/<id>: cloned ("bare"), then  *)
(* with certificates and configuration ("certs").                          *)
UploadState == {"absent", "raw", "booted", "started", "sealed"}
DirState == {"absent", "bare", "certs"}

(* Commands of scripts that CommandContext ties to the request, of scripts *)
(* that outlive it, and the steps the server takes itself.                 *)
CtxPc == {"mkvol", "bootimage", "markstarted", "seal", "snapshot", "stop", "rmdir"}
DetachedPc == {"clone", "certs", "boot", "validate", "rmsnap", "rmupload"}
ScriptPc == CtxPc \cup DetachedPc
ServerPc == {"markready", "list", "next", "delrow", "delimage",
             "port", "insert", "creds", "whitelist", "apply"}
Pc == {"idle", "reply"} \cup ScriptPc \cup ServerPc

Aborted == 599      \* the connection is dropped, no response is written
Status == {200, 201, 204, 404, 422, 500, Aborted}

(* parent: who waits for the script's exit status.  "killed": the sudo the *)
(* server started was killed, the handler will see an error whatever the   *)
(* script does; "gone": the server died.                                   *)
Request == [op : AllOps \cup {"none"}, pc : Pc, user : User,
            image : ImageId \cup {0}, inst : InstanceId \cup {0},
            port : Port \cup {0}, todo : SUBSET (InstanceId \X User),
            status : Status \cup {0},
            parent : {"waiting", "killed", "gone"}]

New(op, pc, u, i, n) ==
    [op |-> op, pc |-> pc, user |-> u, image |-> i, inst |-> n, port |-> 0,
     todo |-> {}, status |-> 0, parent |-> "waiting"]

Idle == New("none", "idle", Upload, 0, 0)

TypeOK ==
    /\ StoreTypeOK
    /\ uploads \in [ImageId -> UploadState]
    /\ snapshots \subseteq ImageId
    /\ dirs \in [InstanceId -> DirState]
    /\ pg \in [InstanceId -> Port \cup {0}]
    /\ revoked \subseteq User \ {Upload}
    /\ req \in [Proc -> Request]
    /\ faults \in 0..MaxFaults

Init ==
    /\ StoreInit
    /\ uploads = [i \in ImageId |-> "absent"]
    /\ snapshots = {}
    /\ dirs = [n \in InstanceId |-> "absent"]
    /\ pg = [n \in InstanceId |-> 0]
    /\ revoked = {}
    /\ req = [h \in Proc |-> Idle]
    /\ faults = 0

-----------------------------------------------------------------------------
(***************************************************************************)
(* How a process moves on.                                                 *)
(***************************************************************************)

At(h, op, pc) == req[h].op = op /\ req[h].pc = pc

Replied(r, s) == [r EXCEPT !.pc = "reply", !.status = s]

\* mutant of Failed: destroyInstance without its "if err == nil"
FailedDeletesRow(r) ==
    CASE r.op = "Clean" /\ r.pc = "rmdir" -> [r EXCEPT !.pc = "delrow"]
      [] r.op = "Clean" /\ r.pc # "rmdir" -> [r EXCEPT !.pc = "next"]
      [] r.op # "Clean"                   -> Replied(r, 500)

\* mutant of Failed: the cleaner gives up its round at the first error
FailedEndsRound(r) == IF r.op = "Clean" THEN [r EXCEPT !.pc = "next", !.todo = {}]
                                        ELSE Replied(r, 500)

(* An error ends a request with a 500 (middleware.DefaultErrorRenderer);   *)
(* the cleaner only logs it and turns to the next instance.                *)
Failed(r) == IF r.op = "Clean" THEN [r EXCEPT !.pc = "next"]
                               ELSE Replied(r, 500)

Goto(h, pc) == req' = [req EXCEPT ![h].pc = pc]
Reply(h, s) == req' = [req EXCEPT ![h] = Replied(@, s)]
Fail(h) == req' = [req EXCEPT ![h] = Failed(@)]

(* A script is over: its parent goes on if it is there to see it succeed.  *)
ScriptExit(h, ok, next) ==
    req' = [req EXCEPT ![h] =
              CASE @.parent = "gone"          -> Idle
                [] @.parent = "waiting" /\ ok -> next
                [] OTHER                      -> Failed([@ EXCEPT !.parent = "waiting"])]

ScriptGoto(h, pc) == ScriptExit(h, TRUE, [req[h] EXCEPT !.pc = pc])
ScriptReply(h, s) == ScriptExit(h, TRUE, Replied(req[h], s))
ScriptFail(h) == ScriptExit(h, FALSE, req[h])

Accepts(h, op) == h \in Handler /\ op \in Ops /\ req[h].pc = "idle"

-----------------------------------------------------------------------------
(***************************************************************************)
(* POST /images: the row first, then the subvolume to upload into.         *)
(***************************************************************************)

ImageCreate(h) ==
    /\ Accepts(h, "ImageCreate")
    /\ \E i \in ImageId :
         /\ InsertImage(i)
         /\ req' = [req EXCEPT ![h] = New("ImageCreate", "mkvol", Upload, i, 0)]
    /\ UNCHANGED <<instanceTable, addresses, disk, revoked, faults>>

CreateBtrfsSubvolume(h) ==
    /\ req[h].pc = "mkvol"
    /\ IF uploads[req[h].image] = "absent"
         THEN /\ uploads' = [uploads EXCEPT ![req[h].image] = "raw"]
              /\ ScriptReply(h, 201)
         ELSE /\ ScriptFail(h)
              /\ UNCHANGED uploads
    /\ UNCHANGED <<tables, snapshots, dirs, pg, revoked, faults>>

(***************************************************************************)
(* POST /images/<id>/done.                                                 *)
(***************************************************************************)

ImageDone(h) ==
    /\ Accepts(h, "ImageDone")
    /\ \E i \in ImageId :
         LET r == New("ImageDone", "bootimage", Upload, i, 0)
         IN  req' = [req EXCEPT ![h] =
                       CASE images[i] = "none"  -> Replied(r, 404)
                         [] images[i] = "ready" -> Replied(r, 200)
                         [] OTHER               -> r]
    /\ UNCHANGED <<tables, disk, revoked, faults>>

(* draupnir-start-image: nothing when the marker is there; a cluster that  *)
(* a partial execution left running makes pg_ctl start fail.               *)
BootImage(h) ==
    /\ req[h].pc = "bootimage"
    /\ LET i == req[h].image
       IN  CASE uploads[i] = "raw" ->
                  /\ uploads' = [uploads EXCEPT ![i] = "booted"]
                  /\ Goto(h, "markstarted")
             [] uploads[i] \in {"started", "sealed"} ->
                  /\ Goto(h, "seal")
                  /\ UNCHANGED uploads
             [] OTHER ->
                  /\ ScriptFail(h)
                  /\ UNCHANGED uploads
    /\ UNCHANGED <<tables, snapshots, dirs, pg, revoked, faults>>

MarkStarted(h) ==
    /\ req[h].pc = "markstarted"
    /\ IF uploads[req[h].image] = "booted"
         THEN /\ uploads' = [uploads EXCEPT ![req[h].image] = "started"]
              /\ Goto(h, "seal")
         ELSE ScriptFail(h) /\ UNCHANGED uploads
    /\ UNCHANGED <<tables, snapshots, dirs, pg, revoked, faults>>

(* draupnir-finalise-image up to pg_ctl stop.  All of it connects to the   *)
(* running cluster as draupnir-admin, whom it drops at the end.            *)
SealImage(h) ==
    /\ req[h].pc = "seal"
    /\ IF uploads[req[h].image] = "started"
         THEN /\ uploads' = [uploads EXCEPT ![req[h].image] = "sealed"]
              /\ Goto(h, "snapshot")
         ELSE ScriptFail(h) /\ UNCHANGED uploads
    /\ UNCHANGED <<tables, snapshots, dirs, pg, revoked, faults>>

(* The rest of it: pg_hba.conf, then btrfs subvolume snapshot.             *)
SnapshotImage(h) ==
    /\ req[h].pc = "snapshot"
    /\ IF uploads[req[h].image] # "absent"
         THEN /\ snapshots' = snapshots \cup {req[h].image}
              /\ ScriptGoto(h, "markready")
         ELSE ScriptFail(h) /\ UNCHANGED snapshots
    /\ UNCHANGED <<tables, uploads, dirs, pg, revoked, faults>>

ImageMarkReady(h) ==
    /\ At(h, "ImageDone", "markready")
    /\ LET i == req[h].image
       IN  IF CanMarkAsReady(i) THEN MarkAsReady(i) /\ Reply(h, 200)
                                ELSE Fail(h) /\ UNCHANGED imageTable
    /\ UNCHANGED <<instanceTable, addresses, disk, revoked, faults>>

(***************************************************************************)
(* DELETE /images/<id>.  For the upload user, first every instance of the  *)
(* image: its row, then its directory.  List's error is not looked at.     *)
(***************************************************************************)

ImageDestroy(h) ==
    /\ Accepts(h, "ImageDestroy")
    /\ \E i \in ImageId, u \in User :
         LET r == New("ImageDestroy", IF u = Upload THEN "list" ELSE "delimage", u, i, 0)
         IN  req' = [req EXCEPT ![h] = IF ImageExists(i) THEN r ELSE Replied(r, 404)]
    /\ UNCHANGED <<tables, disk, revoked, faults>>

ListInstances(h) ==
    /\ At(h, "ImageDestroy", "list")
    /\ req' = [req EXCEPT ![h].pc = "next",
                          ![h].todo = {t \in InstanceList : t[1] \in InstancesOf(req[h].image)}]
    /\ UNCHANGED <<tables, disk, revoked, faults>>

(* List returns the instances in the order of their ids. *)
FirstOf(todo, t) == t \in todo /\ \A s \in todo : t[1] <= s[1]

NextInstance(h) ==
    /\ At(h, "ImageDestroy", "next")
    /\ IF req[h].todo = {}
         THEN Goto(h, "delimage")
         ELSE \E t \in req[h].todo :
                /\ FirstOf(req[h].todo, t)
                /\ req' = [req EXCEPT ![h].pc = "delrow", ![h].inst = t[1],
                                      ![h].todo = @ \ {t}]
    /\ UNCHANGED <<tables, disk, revoked, faults>>

\* mutant of ImageDeleteRow: no return after the 422
ImageDeleteRowGoesOn(h) ==
    /\ At(h, "ImageDestroy", "delimage")
    /\ IF ImageReferenced(req[h].image) THEN UNCHANGED imageTable
                                        ELSE DeleteImage(req[h].image)
    /\ Goto(h, "rmsnap")
    /\ UNCHANGED <<instanceTable, addresses, disk, revoked, faults>>

ImageDeleteRow(h) ==
    /\ At(h, "ImageDestroy", "delimage")
    /\ LET i == req[h].image
       IN  IF ImageReferenced(i) THEN Reply(h, 422) /\ UNCHANGED imageTable
                                 ELSE DeleteImage(i) /\ Goto(h, "rmsnap")
    /\ UNCHANGED <<instanceTable, addresses, disk, revoked, faults>>

(* draupnir-destroy-image *)
RemoveSnapshot(h) ==
    /\ req[h].pc = "rmsnap"
    /\ snapshots' = snapshots \ {req[h].image}
    /\ Goto(h, "rmupload")
    /\ UNCHANGED <<tables, uploads, dirs, pg, revoked, faults>>

RemoveUpload(h) ==
    /\ req[h].pc = "rmupload"
    /\ IF uploads[req[h].image] # "absent"
         THEN /\ uploads' = [uploads EXCEPT ![req[h].image] = "absent"]
              /\ ScriptReply(h, 204)
         ELSE ScriptFail(h) /\ UNCHANGED uploads
    /\ UNCHANGED <<tables, snapshots, dirs, pg, revoked, faults>>

-----------------------------------------------------------------------------
(***************************************************************************)
(* POST /instances.                                                        *)
(***************************************************************************)

(* bound: every Create that is accepted finds an id left in the sequence   *)
InstanceIdLeft ==
    instanceSeq + Cardinality({g \in Handler : req[g].pc \in {"port", "insert"}}) < MaxInstances

InstanceCreate(h) ==
    /\ Accepts(h, "Create")
    /\ InstanceIdLeft
    /\ \E i \in ImageId, u \in User :
         LET r == New("Create", "port", u, i, 0)
         IN  req' = [req EXCEPT ![h] =
                       CASE images[i] = "none"    -> Replied(r, 404)
                         [] images[i] = "unready" -> Replied(r, 422)
                         [] OTHER                 -> r]
    /\ UNCHANGED <<tables, disk, revoked, faults>>

\* mutant of ChoosePort: max_instance_port taken as inclusive
ChoosePortInclusive(h) ==
    /\ At(h, "Create", "port")
    /\ \E p \in (MinPort..MaxPort) \ UsedPorts :
         req' = [req EXCEPT ![h].pc = "insert", ![h].port = p]
    /\ UNCHANGED <<tables, disk, revoked, faults>>

(* generateRandomFreePort: a port no row holds, or an error when all of    *)
(* its 99 draws hit ports that are in use.                                 *)
ChoosePort(h) ==
    /\ At(h, "Create", "port")
    /\ \/ \E p \in Port \ UsedPorts :
            req' = [req EXCEPT ![h].pc = "insert", ![h].port = p]
       \/ UsedPorts # {} /\ Fail(h)
    /\ UNCHANGED <<tables, disk, revoked, faults>>

(* When the image has gone, the handler calls Error on the nil err of an   *)
(* inner scope: it panics, and net/http drops the connection.              *)
InsertRow(h) ==
    /\ At(h, "Create", "insert")
    /\ LET r == req[h]
       IN  IF ImageExists(r.image)
             THEN \E n \in InstanceId :
                    /\ InsertInstance(n, r.image, r.port, r.user)
                    /\ req' = [req EXCEPT ![h].pc = "clone", ![h].inst = n]
             ELSE Reply(h, Aborted) /\ UNCHANGED instanceTable
    /\ UNCHANGED <<imageTable, addresses, disk, revoked, faults>>

(* draupnir-create-instance: btrfs subvolume snapshot *)
CloneSnapshot(h) ==
    /\ req[h].pc = "clone"
    /\ IF req[h].image \in snapshots
         THEN /\ dirs' = [dirs EXCEPT ![req[h].inst] = "bare"]
              /\ Goto(h, "certs")
         ELSE ScriptFail(h) /\ UNCHANGED dirs
    /\ UNCHANGED <<tables, uploads, snapshots, pg, revoked, faults>>

(* certificates, postgresql.conf, pg_ident.conf *)
WriteCerts(h) ==
    /\ req[h].pc = "certs"
    /\ IF dirs[req[h].inst] # "absent"
         THEN /\ dirs' = [dirs EXCEPT ![req[h].inst] = "certs"]
              /\ Goto(h, "boot")
         ELSE ScriptFail(h) /\ UNCHANGED dirs
    /\ UNCHANGED <<tables, uploads, snapshots, pg, revoked, faults>>

(* pg_ctl start fails when another server listens on the port *)
StartPostgres(h) ==
    /\ req[h].pc = "boot"
    /\ IF dirs[req[h].inst] # "absent" /\ \A n \in InstanceId : pg[n] # req[h].port
         THEN /\ pg' = [pg EXCEPT ![req[h].inst] = req[h].port]
              /\ Goto(h, "validate")
         ELSE ScriptFail(h) /\ UNCHANGED pg
    /\ UNCHANGED <<tables, uploads, snapshots, dirs, revoked, faults>>

(* The checks of the authentication setup need the server and the client   *)
(* certificate; when one does not turn out as it should, die_and_stop      *)
(* stops the server if pg_ctl still finds its directory.                   *)
ValidateAndRestart(h) ==
    /\ req[h].pc = "validate"
    /\ LET n == req[h].inst
       IN  IF dirs[n] # "absent" /\ pg[n] # 0
             THEN ScriptGoto(h, "creds") /\ UNCHANGED pg
             ELSE /\ pg' = IF dirs[n] # "absent" THEN [pg EXCEPT ![n] = 0] ELSE pg
                  /\ ScriptFail(h)
    /\ UNCHANGED <<tables, uploads, snapshots, dirs, revoked, faults>>

(***************************************************************************)
(* GET /instances/<id>, and the end of Create, which is the same.          *)
(***************************************************************************)

InstanceGet(h) ==
    /\ Accepts(h, "Get")
    /\ \E n \in InstanceId, u \in User :
         LET r == New("Get", "creds", u, 0, n)
         IN  req' = [req EXCEPT ![h] =
                       IF InstanceExists(n) /\ instances[n].user = u
                         THEN r ELSE Replied(r, 404)]
    /\ UNCHANGED <<tables, disk, revoked, faults>>

RetrieveInstanceCredentials(h) ==
    /\ req[h].pc = "creds"
    /\ IF dirs[req[h].inst] = "certs" THEN Goto(h, "whitelist") ELSE Reply(h, 500)
    /\ UNCHANGED <<tables, disk, revoked, faults>>

WhitelistAddress(h) ==
    /\ req[h].pc = "whitelist"
    /\ IF CanWhitelist(req[h].inst)
         THEN \E a \in Addr : InsertAddress(a, req[h].inst) /\ Goto(h, "apply")
         ELSE Fail(h) /\ UNCHANGED addresses
    /\ UNCHANGED <<imageTable, instanceTable, disk, revoked, faults>>

(* IPAddressWhitelister.TriggerReconcile("api"), the last step before the  *)
(* response; what the whitelister does of it is module Whitelister's.      *)
ApplyWhitelist(h) ==
    /\ req[h].pc = "apply"
    /\ Reply(h, CASE req[h].op = "Create"  -> 201
                  [] req[h].op = "Get"     -> 200
                  [] req[h].op = "Destroy" -> 204)
    /\ UNCHANGED <<tables, disk, revoked, faults>>

(***************************************************************************)
(* DELETE /instances/<id>: the script, then the row.                       *)
(***************************************************************************)

InstanceDestroy(h) ==
    /\ Accepts(h, "Destroy")
    /\ \E n \in InstanceId, u \in User :
         LET r == New("Destroy", "stop", u, 0, n)
         IN  req' = [req EXCEPT ![h] =
                       IF InstanceExists(n) /\ u \in {Upload, instances[n].user}
                         THEN r ELSE Replied(r, 404)]
    /\ UNCHANGED <<tables, disk, revoked, faults>>

\* mutant of StopPostgres: stops the server on the instance's port, whoever's it is
StopPostgresByPort(h) ==
    /\ req[h].pc = "stop"
    /\ pg' = [n \in InstanceId |->
                IF pg[n] \in {instances[m].port : m \in {req[h].inst} \cap
                                {k \in InstanceId : instances[k] # NoRow}}
                  THEN 0 ELSE pg[n]]
    /\ Goto(h, "rmdir")
    /\ UNCHANGED <<tables, uploads, snapshots, dirs, revoked, faults>>

(* draupnir-destroy-instance: pg_ctl stop || true *)
StopPostgres(h) ==
    /\ req[h].pc = "stop"
    /\ pg' = IF dirs[req[h].inst] # "absent" THEN [pg EXCEPT ![req[h].inst] = 0] ELSE pg
    /\ Goto(h, "rmdir")
    /\ UNCHANGED <<tables, uploads, snapshots, dirs, revoked, faults>>

\* mutant of RemoveDir: a directory that is not there is not an error
RemoveDirIfThere(h) ==
    /\ req[h].pc = "rmdir"
    /\ dirs' = [dirs EXCEPT ![req[h].inst] = "absent"]
    /\ ScriptGoto(h, IF req[h].op = "ImageDestroy" THEN "next" ELSE "delrow")
    /\ UNCHANGED <<tables, uploads, snapshots, pg, revoked, faults>>

(* btrfs subvolume delete fails when the directory is not there *)
RemoveDir(h) ==
    /\ req[h].pc = "rmdir"
    /\ IF dirs[req[h].inst] # "absent"
         THEN /\ dirs' = [dirs EXCEPT ![req[h].inst] = "absent"]
              /\ ScriptGoto(h, IF req[h].op = "ImageDestroy" THEN "next" ELSE "delrow")
         ELSE ScriptFail(h) /\ UNCHANGED dirs
    /\ UNCHANGED <<tables, uploads, snapshots, pg, revoked, faults>>

(* InstanceStore.Destroy, wherever it stands in the three destroyers *)
DeleteRow(h) ==
    /\ req[h].pc = "delrow"
    /\ DeleteInstance(req[h].inst)
    /\ Goto(h, CASE req[h].op = "Destroy"      -> "apply"
                 [] req[h].op = "Clean"        -> "next"
                 [] req[h].op = "ImageDestroy" -> "stop")
    /\ UNCHANGED <<imageTable, disk, revoked, faults>>

-----------------------------------------------------------------------------
(***************************************************************************)
(* The cleaner: every interval, the instances whose token is not valid any *)
(* more.  Instances of the upload user have no token and are passed over.  *)
(***************************************************************************)

Clean ==
    /\ "Clean" \in Ops
    /\ req[Cleaner].pc = "idle"
    /\ InstanceList # {}     \* with nothing to look at, an interval changes nothing
    /\ req' = [req EXCEPT ![Cleaner] = [New("Clean", "next", Upload, 0, 0)
                                          EXCEPT !.todo = InstanceList]]
    /\ UNCHANGED <<tables, disk, revoked, faults>>

(* Nothing but "invalid_grant" counts as invalid: asking Google may fail.  *)
CheckToken ==
    /\ At(Cleaner, "Clean", "next")
    /\ \E t \in req[Cleaner].todo :
         /\ FirstOf(req[Cleaner].todo, t)
         /\ LET rest == [req[Cleaner] EXCEPT !.todo = @ \ {t}]
            IN  \/ /\ t[2] \in revoked
                   /\ req' = [req EXCEPT ![Cleaner] =
                                [rest EXCEPT !.pc = "stop", !.inst = t[1]]]
                   /\ UNCHANGED faults
                \/ /\ t[2] \notin revoked
                   /\ req' = [req EXCEPT ![Cleaner] = rest]
                   /\ UNCHANGED faults
                \/ /\ t[2] # Upload /\ faults < MaxFaults
                   /\ req' = [req EXCEPT ![Cleaner] = rest]
                   /\ faults' = faults + 1
    /\ UNCHANGED <<tables, disk, revoked>>

CleanEnd ==
    /\ At(Cleaner, "Clean", "next")
    /\ req[Cleaner].todo = {}
    /\ req' = [req EXCEPT ![Cleaner] = Idle]
    /\ UNCHANGED <<tables, disk, revoked, faults>>

-----------------------------------------------------------------------------
(***************************************************************************)
(* The environment, and what goes wrong.                                   *)
(***************************************************************************)

(* The response is on the wire; the goroutine ends. *)
Finish(h) ==
    /\ req[h].pc = "reply"
    /\ req' = [req EXCEPT ![h] = Idle]
    /\ UNCHANGED <<tables, disk, revoked, faults>>

Revoke(u) ==
    /\ "Clean" \in Ops
    /\ u \in User \ ({Upload} \cup revoked)
    /\ revoked' = revoked \cup {u}
    /\ UNCHANGED <<tables, disk, req, faults>>

(* A command of a script fails, and the script with it; only the failure   *)
(* of pg_ctl stop is ignored (|| true), and the server left running.  When *)
(* a check after pg_ctl start fails the script stops the server again.     *)
ScriptFault(h) ==
    /\ faults < MaxFaults
    /\ req[h].pc \in ScriptPc
    /\ faults' = faults + 1
    /\ \/ ScriptFail(h)
       \/ req[h].pc = "stop" /\ Goto(h, "rmdir")
    /\ \/ UNCHANGED pg
       \/ /\ req[h].pc = "validate" /\ dirs[req[h].inst] # "absent"
          /\ pg' = [pg EXCEPT ![req[h].inst] = 0]
    /\ UNCHANGED <<tables, uploads, snapshots, dirs, revoked>>

(* What a handler makes of a statement that fails.  Two handlers look for  *)
(* the foreign key's name in the error in a scope where err is shadowed,   *)
(* wrap the inner, nil err and so return no error: net/http answers 200.   *)
(* Images.Destroy goes on with the empty list.                             *)
OnStatementError(r) ==
    CASE r.pc \in {"insert", "delimage"} -> Replied(r, 200)
      [] r.pc = "list"                   -> [r EXCEPT !.pc = "next"]
      [] OTHER                           -> Failed(r)

StatementFault(h) ==
    /\ faults < MaxFaults
    /\ req[h].pc \in ServerPc \ {"next", "apply"}
    /\ faults' = faults + 1
    /\ req' = [req EXCEPT ![h] = OnStatementError(@)]
    /\ UNCHANGED <<tables, disk, revoked>>

(* The database connection is lost after a statement took effect and       *)
(* before its answer is read: the handler sees the same error as when the  *)
(* statement failed.                                                       *)
TakesEffect(r) ==
    \/ /\ \/ r.pc = "markready" /\ MarkAsReady(r.image)
          \/ r.pc = "delimage" /\ DeleteImage(r.image)
       /\ UNCHANGED <<instanceTable, addresses>>
    \/ /\ r.pc = "insert"
       /\ \E n \in InstanceId : InsertInstance(n, r.image, r.port, r.user)
       /\ UNCHANGED <<imageTable, addresses>>
    \/ /\ r.pc = "whitelist"
       /\ \E a \in Addr : InsertAddress(a, r.inst)
       /\ UNCHANGED <<imageTable, instanceTable>>
    \/ /\ r.pc = "delrow"
       /\ DeleteInstance(r.inst)
       /\ UNCHANGED imageTable

Unacknowledged(h) ==
    /\ faults < MaxFaults
    /\ faults' = faults + 1
    /\ TakesEffect(req[h])
    /\ req' = [req EXCEPT ![h] = OnStatementError(@)]
    /\ UNCHANGED <<disk, revoked>>

(* The same of the INSERT with which Images.Create begins: a row whose     *)
(* subvolume nobody is going to create.                                    *)
CreateUnacknowledged(h) ==
    /\ faults < MaxFaults
    /\ faults' = faults + 1
    /\ Accepts(h, "ImageCreate")
    /\ \E i \in ImageId :
         /\ InsertImage(i)
         /\ req' = [req EXCEPT ![h] = Replied(New("ImageCreate", "mkvol", Upload, i, 0), 500)]
    /\ UNCHANGED <<instanceTable, addresses, disk, revoked>>

(* The connection is lost while InstanceStore.List goes through the rows.  *)
(* It does not look at rows.Err(), so its callers take the rows before the *)
(* k-th for all of them.                                                   *)
TruncatedList(h) ==
    /\ faults < MaxFaults
    /\ faults' = faults + 1
    /\ \E k \in InstanceId :
         LET seen == {t \in InstanceList : t[1] < k}
         IN  /\ seen # InstanceList
             /\ \/ /\ At(h, "Create", "port")
                   /\ \E p \in Port \ {instances[t[1]].port : t \in seen} :
                        req' = [req EXCEPT ![h].pc = "insert", ![h].port = p]
                \/ /\ At(h, "ImageDestroy", "list")
                   /\ req' = [req EXCEPT ![h].pc = "next",
                                         ![h].todo = {t \in seen :
                                                        t[1] \in InstancesOf(req[h].image)}]
                \/ /\ h = Cleaner /\ "Clean" \in Ops /\ req[h].pc = "idle"
                   /\ req' = [req EXCEPT ![h] = [New("Clean", "next", Upload, 0, 0)
                                                   EXCEPT !.todo = seen]]
    /\ UNCHANGED <<tables, disk, revoked>>

(* The client goes away while a script runs that is tied to its request:   *)
(* sudo is killed, the script is not, and the handler gets an error when   *)
(* the script lets go of its output.  btrfs subvolume create is run        *)
(* without sudo and is killed, before or after it did its work.            *)
Disconnect(h) ==
    /\ faults < MaxFaults
    /\ h \in Handler
    /\ req[h].pc \in CtxPc
    /\ req[h].parent = "waiting"
    /\ faults' = faults + 1
    /\ \/ req' = [req EXCEPT ![h].parent = "killed"]
       \/ req[h].pc = "mkvol" /\ Fail(h)
    /\ UNCHANGED <<tables, disk, revoked>>

(* The server dies and is restarted.  Requests are lost; scripts run on.   *)
Crash ==
    /\ faults < MaxFaults
    /\ \E h \in Proc : req[h].pc # "idle"
    /\ faults' = faults + 1
    /\ req' = [h \in Proc |-> IF req[h].pc \in ScriptPc
                                THEN [req[h] EXCEPT !.parent = "gone"] ELSE Idle]
    /\ UNCHANGED <<tables, disk, revoked>>

-----------------------------------------------------------------------------
ImageStep(h) ==
    \/ ImageCreate(h) \/ CreateBtrfsSubvolume(h)
    \/ ImageDone(h) \/ BootImage(h) \/ MarkStarted(h) \/ SealImage(h)
    \/ SnapshotImage(h) \/ ImageMarkReady(h)
    \/ ImageDestroy(h) \/ ListInstances(h) \/ NextInstance(h)
    \/ ImageDeleteRow(h) \/ RemoveSnapshot(h) \/ RemoveUpload(h)

InstanceStep(h) ==
    \/ InstanceCreate(h) \/ ChoosePort(h) \/ InsertRow(h) \/ CloneSnapshot(h)
    \/ WriteCerts(h) \/ StartPostgres(h) \/ ValidateAndRestart(h)
    \/ InstanceGet(h) \/ RetrieveInstanceCredentials(h) \/ WhitelistAddress(h)
    \/ ApplyWhitelist(h)
    \/ InstanceDestroy(h) \/ StopPostgres(h) \/ RemoveDir(h) \/ DeleteRow(h)

CleanerStep == Clean \/ CheckToken \/ CleanEnd

Fault ==
    \/ \E h \in Proc : \/ ScriptFault(h) \/ StatementFault(h) \/ Unacknowledged(h)
                       \/ CreateUnacknowledged(h) \/ TruncatedList(h) \/ Disconnect(h)
    \/ Crash

Next ==
    \/ \E h \in Proc : ImageStep(h) \/ InstanceStep(h) \/ Finish(h)
    \/ CleanerStep
    \/ \E u \in User : Revoke(u)
    \/ Fault

Spec == Init /\ [][Next]_vars

(* Goroutines and the scripts they wait for, or left behind, run on; the   *)
(* cleaner's timer fires.  Nobody has to send requests, revoke a token or  *)
(* meet a fault.                                                           *)
Proceeds(h) ==
    /\ req[h].pc # "idle"
    /\ \/ ImageStep(h) \/ InstanceStep(h) \/ Finish(h)
       \/ h = Cleaner /\ CleanerStep

FairSpec ==
    /\ Spec
    /\ \A h \in Proc : WF_vars(Proceeds(h))
    /\ WF_vars(Clean)

-----------------------------------------------------------------------------
(***************************************************************************)
(* Properties.                                                             *)
(***************************************************************************)

(* An image is offered for instances ("ready") only while the snapshot they *)
(* are cloned from exists: Images.Done marks it after the script took the  *)
(* snapshot, Images.Destroy removes the row before the directories.        *)
ReadyImageHasSnapshot == \A i \in ImageId : images[i] = "ready" => i \in snapshots

(* Instances.Create checks that the image is ready two statements before   *)
(* it inserts the row; whatever happens in between, a row refers to an     *)
(* image that is ready.                                                    *)
InstanceOfReadyImage ==
    \A n \in InstanceId : instances[n] # NoRow => images[instances[n].image] = "ready"

(* 204 to DELETE /instances/<id> means that the row and the directory are  *)
(* gone, and nothing (a Create of the same instance that is still running  *)
(* its script) brings them back.                                           *)
DestroyedIsGone ==
    \A h \in Handler :
        At(h, "Destroy", "reply") /\ req[h].status = 204
            => instances[req[h].inst] = NoRow /\ dirs[req[h].inst] = "absent"

(* Without DELETE /images, a directory of an instance always has its row,  *)
(* through every failure and crash: Create inserts the row before the      *)
(* script, Destroy and the cleaner delete it after theirs.  A directory    *)
(* without a row is one no request can reach any more.                     *)
DirHasRow == \A n \in InstanceId : dirs[n] # "absent" => instances[n] # NoRow

Destroyers(n) == {h \in Proc : /\ req[h].inst = n
                               /\ req[h].op \in {"Destroy", "Clean", "ImageDestroy"}
                               /\ req[h].pc \in {"rmdir", "delrow"}}

(* As long as nothing failed, 201 to POST /instances means that the        *)
(* instance's own PostgreSQL is listening on the port of its row, unless   *)
(* the instance was destroyed, or is being destroyed, meanwhile.           *)
CreatedIsServing ==
    \A h \in Handler :
        At(h, "Create", "reply") /\ req[h].status = 201 /\ faults = 0
            => LET n == req[h].inst
               IN  \/ instances[n] # NoRow /\ dirs[n] = "certs" /\ pg[n] = instances[n].port
                   \/ instances[n] = NoRow
                   \/ Destroyers(n) # {}

(* No two instances share a port. *)
PortsDistinct ==
    \A m, n \in InstanceId :
        m # n /\ instances[m] # NoRow /\ instances[n] # NoRow
            => instances[m].port # instances[n].port

(* 204 to DELETE /images/<id> means that all of its instances are gone     *)
(* (stated for a single image, whose clones all directories are).          *)
ImageDestroyedWithInstances ==
    MaxImages = 1 =>
        \A h \in Handler :
            At(h, "ImageDestroy", "reply") /\ req[h].status = 204
                => \A n \in InstanceId : dirs[n] = "absent"

Orphaned(n) == instances[n] # NoRow /\ instances[n].user \in revoked

(* The data of an instance whose owner's token was revoked is eventually   *)
(* removed, by the cleaner if by nobody else.                              *)
RevokedDataRemoved ==
    \A n \in InstanceId : (Orphaned(n) /\ dirs[n] # "absent") ~> dirs[n] = "absent"

(* The instance itself is eventually deleted. *)
RevokedInstanceDeleted == \A n \in InstanceId : Orphaned(n) ~> instances[n] = NoRow

-----------------------------------------------------------------------------
(***************************************************************************)
(* The abstract life of an instance (module InstanceLife), read off the    *)
(* tables, the directories and the requests that are about to change them. *)
(***************************************************************************)
CloneDue(n) == \E h \in Proc : req[h].pc = "clone" /\ req[h].inst = n
DeletionDue(n) == \E h \in Proc : req[h].pc = "delrow" /\ req[h].inst = n

StageOf(n) ==
    IF ~InstanceExists(n)        THEN IF n <= instanceSeq THEN "forgotten" ELSE "new"
    ELSE IF dirs[n] # "absent"   THEN "cloned"
    ELSE IF CloneDue(n)          THEN "recorded"
    ELSE IF DeletionDue(n)       THEN "removed"
    ELSE "stuck"

Life == INSTANCE InstanceLife WITH
            Instance <- InstanceId, life <- [n \in InstanceId |-> StageOf(n)]

(* As long as no image is destroyed, handlers, scripts and the cleaner     *)
(* implement InstanceLife through every failure and crash.                 *)
ImplementsLife == Life!Spec

-----------------------------------------------------------------------------
(***************************************************************************)
(* The inductive invariants of module LifecycleProofs.                     *)
(***************************************************************************)

(* Which operation a request at a label serves, and what it has by then.   *)
Fits(r, pc) ==
    /\ pc = "mkvol" => r.op = "ImageCreate"
    /\ pc \in {"bootimage", "markstarted", "seal", "snapshot", "markready"}
         => r.op = "ImageDone"
    /\ pc \in {"list", "delimage", "rmsnap", "rmupload"} => r.op = "ImageDestroy"
    /\ pc \in {"port", "insert", "clone", "certs", "boot", "validate"} => r.op = "Create"
    /\ pc \in {"creds", "whitelist"} => r.op \in {"Create", "Get"}
    /\ pc = "apply" => r.op \in {"Create", "Get", "Destroy"}
    /\ pc \in {"stop", "rmdir", "delrow"} => r.op \in {"Destroy", "Clean", "ImageDestroy"}
    /\ pc = "next" => r.op \in {"Clean", "ImageDestroy"}
    /\ pc \in {"clone", "certs", "boot", "validate", "creds", "whitelist", "apply",
               "stop", "rmdir", "delrow"} => r.inst \in InstanceId
    /\ pc = "insert" => r.port \in Port

Shape(r) ==
    /\ Fits(r, r.pc)
    /\ r.op \in {"ImageCreate", "ImageDone", "ImageDestroy", "Create"} => r.image \in ImageId
    /\ r.op \in {"Get", "Destroy"} => r.inst \in InstanceId
    /\ r.op \in Ops \cup {"none"}

TypeInv == TypeOK /\ \A h \in Proc : Shape(req[h])

(* An image id a request works on was handed out, so that it never becomes *)
(* that of another image; Done reaches MarkAsReady only with the snapshot  *)
(* taken, unless the image was destroyed; the directories are removed once *)
(* the row is gone; and an image that was found ready stays so.            *)
ImageReq(r) ==
    /\ r.pc \notin {"idle", "reply"} => r.image <= imageSeq
    /\ r.pc = "markready" /\ images[r.image] # "none" => r.image \in snapshots
    /\ r.pc = "rmsnap" => images[r.image] = "none"
    /\ r.pc \in {"port", "insert"} => images[r.image] # "unready"

ImageInv ==
    /\ \A i \in ImageId : images[i] # "none" => i <= imageSeq
    /\ \A h \in Proc : ImageReq(req[h])
    /\ ReadyImageHasSnapshot
    /\ InstanceOfReadyImage

(* A directory is cloned once: only before it was ever there.  A request   *)
(* that destroys an instance deletes the row when the directory has come   *)
(* and gone.                                                               *)
Gone(n) ==
    /\ n <= instanceSeq
    /\ dirs[n] = "absent"
    /\ \A g \in Proc : req[g].pc = "clone" => req[g].inst # n

RowDeleted(r) ==
    /\ r.op = "Destroy"
    /\ r.pc = "apply" \/ (r.pc = "reply" /\ r.status = 204)

InstanceReq(r) ==
    /\ r.pc = "clone" => r.inst <= instanceSeq /\ dirs[r.inst] = "absent"
    /\ r.pc = "delrow" /\ r.op # "ImageDestroy" => Gone(r.inst)
    /\ RowDeleted(r) => Gone(r.inst) /\ instances[r.inst] = NoRow

ClonesDistinct ==
    \A g, h \in Proc : g # h /\ req[g].pc = "clone" /\ req[h].pc = "clone"
                           => req[g].inst # req[h].inst

(* Without Images.Destroy, the row is there when the directory is cloned.  *)
RowInv ==
    /\ DirHasRow
    /\ \A h \in Proc : req[h].pc = "clone" => instances[req[h].inst] # NoRow

InstanceInv ==
    /\ \A n \in InstanceId :
         instances[n] # NoRow \/ dirs[n] # "absent" => n <= instanceSeq
    /\ \A h \in Proc : InstanceReq(req[h])
    /\ ClonesDistinct
    /\ "ImageDestroy" \notin Ops => RowInv
=============================================================================
