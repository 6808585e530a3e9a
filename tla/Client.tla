------------------------------- MODULE Client -------------------------------
(***************************************************************************)
(* The command line client (cmd/draupnir, pkg/server/api/client) in front  *)
(* of the server of Lifecycle.  A command is one or two requests: it looks *)
(* an image or an instance up, and then creates or destroys; in between,   *)
(* and while it waits, anybody else may change what it has seen.  It       *)
(* learns how a request ended from the status alone, and compares it with  *)
(* the one status that means success; any other, a dropped connection and  *)
(* an answer it cannot decode end the command with an error.               *)
(*                                                                         *)
(* A handler serves one client at a time: cli[h] is the command whose      *)
(* requests h serves.  Other clients (stage "idle" while h is busy) talk   *)
(* to the API themselves.  "draupnir new" sends the requests of "instances *)
(* create".  The two list commands, and authenticate and config, which are *)
(* module Logins', are left out.                                           *)
(***************************************************************************)
EXTENDS Lifecycle

CONSTANTS
    Cmds,           \* the commands a run lets users start
    Direct          \* may clients other than the command line send requests?

InstanceCmds == {"instances create", "instances destroy", "env"}
ImageCmds == {"images create", "images finalise", "images destroy"}

ASSUME ClientAssumption ==
    /\ Cmds \subseteq InstanceCmds \cup ImageCmds
    /\ Direct \in BOOLEAN

VARIABLE cli        \* [Handler -> the command at this handler]

clientVars == <<vars, cli>>

(* Stages: "get", GET /instances/<id> is next; "send", the request that    *)
(* does the work is next; "wait", it was sent; "ok", the command exits     *)
(* with success.  A command that failed is over (logger.Fatal).            *)
NoCommand == [cmd |-> "none", stage |-> "idle", user |-> Upload, image |-> 0, inst |-> 0]

ClientInit == Init /\ cli = [h \in Handler |-> NoCommand]

Goes(h, c) == cli' = [cli EXCEPT ![h] = c]

-----------------------------------------------------------------------------
(* The user starts a command; its arguments may name anything.  The two    *)
(* that look an image up do so first (GetImage, GetLatestImage), and fail  *)
(* when there is none: only its existence counts if it was named, and the  *)
(* latest one is any that is ready, as updated_at is not modelled.         *)
Start(h) ==
    /\ cli[h].stage = "idle" /\ req[h].pc = "idle"
    /\ \E cmd \in Cmds, u \in User :
         LET c == [NoCommand EXCEPT !.cmd = cmd, !.user = u]
         IN  CASE cmd \in {"instances create", "images destroy"} ->
                    \E i \in ImageId :
                      ImageExists(i) /\ Goes(h, [c EXCEPT !.stage = "send", !.image = i])
               [] cmd \in {"instances destroy", "env"} ->
                    \E n \in InstanceId : Goes(h, [c EXCEPT !.stage = "get", !.inst = n])
               [] cmd = "images finalise" ->
                    \E i \in ImageId : Goes(h, [c EXCEPT !.stage = "send", !.image = i])
               [] cmd = "images create" ->
                    Goes(h, [c EXCEPT !.stage = "send"])
    /\ UNCHANGED vars

OpOf(c) ==
    IF c.stage = "get" THEN "Get"
    ELSE CASE c.cmd = "instances create"  -> "Create"
           [] c.cmd = "instances destroy" -> "Destroy"
           [] c.cmd = "images create"     -> "ImageCreate"
           [] c.cmd = "images finalise"   -> "ImageDone"
           [] c.cmd = "images destroy"    -> "ImageDestroy"

(* r is the request c sends. *)
Asks(c, r) ==
    /\ r.op = OpOf(c)
    /\ r.op \in {"Get", "Destroy"} => r.inst = c.inst
    /\ r.op \in {"Create", "ImageDone", "ImageDestroy"} => r.image = c.image
    /\ r.op \in {"Get", "Create", "Destroy", "ImageDestroy"} => r.user = c.user

SendRequest(h) ==
    /\ cli[h].stage \in {"get", "send"} /\ req[h].pc = "idle"
    /\ ImageStep(h) \/ InstanceStep(h) \/ CreateUnacknowledged(h)
    /\ Asks(cli[h], req'[h])
    /\ Goes(h, [cli[h] EXCEPT !.stage = "wait"])

(* The request does not get to its handler: the server is not reached, or  *)
(* a middleware answers 400, 401, or 200 with nothing in it.               *)
Refused(h) ==
    /\ cli[h].stage \in {"get", "send"}
    /\ Goes(h, NoCommand)
    /\ UNCHANGED vars

(* The one status of each request that is not an error. *)
ExpectedStatus(op) ==
    CASE op \in {"Create", "ImageCreate"}   -> 201
      [] op \in {"Get", "ImageDone"}        -> 200
      [] op \in {"Destroy", "ImageDestroy"} -> 204

\* mutant of Succeeded: every status that stands for success is one
SucceededIf2xx(op, s) == s \in 200..299

Succeeded(op, s) == s = ExpectedStatus(op)

(* The command when its request r is answered. *)
Answered(c, r) ==
    CASE ~Succeeded(r.op, r.status) -> NoCommand
      [] Succeeded(r.op, r.status) /\ r.op = "Get" /\ c.cmd = "instances destroy" ->
            [c EXCEPT !.stage = "send"]
      [] OTHER -> [c EXCEPT !.stage = "ok", !.image = r.image, !.inst = r.inst]

Answer(h) ==
    /\ Finish(h)
    /\ h \in Handler
    /\ IF cli[h].stage = "wait" THEN Goes(h, Answered(cli[h], req[h])) ELSE UNCHANGED cli

Exit(h) ==
    /\ cli[h].stage = "ok"
    /\ Goes(h, NoCommand)
    /\ UNCHANGED vars

-----------------------------------------------------------------------------
(* The server goes on with a request, or gets one from another client.     *)
Serve(h) ==
    /\ ImageStep(h) \/ InstanceStep(h) \/ CreateUnacknowledged(h)
    /\ req[h].pc = "idle" => Direct /\ cli[h].stage = "idle"
    /\ UNCHANGED cli

(* The client that goes away is the command, which was killed.             *)
Abandon(h) ==
    /\ Disconnect(h)
    /\ Goes(h, NoCommand)

(* Commands that wait for an answer get an error instead.                  *)
LoseServer ==
    /\ Crash
    /\ cli' = [h \in Handler |-> IF cli[h].stage = "wait" THEN NoCommand ELSE cli[h]]

ClientNext ==
    \/ \E h \in Handler :
         \/ Start(h) \/ SendRequest(h) \/ Refused(h) \/ Answer(h) \/ Exit(h)
         \/ Serve(h) \/ Abandon(h)
    \/ /\ \/ InstanceStep(Cleaner) \/ CleanerStep
          \/ \E u \in User : Revoke(u)
          \/ \E h \in Proc : \/ ScriptFault(h) \/ StatementFault(h)
                             \/ Unacknowledged(h) \/ TruncatedList(h)
       /\ UNCHANGED cli
    \/ LoseServer

ClientSpec == ClientInit /\ [][ClientNext]_clientVars

-----------------------------------------------------------------------------
(* What a command has done when it reports success. *)
Done(c) ==
    CASE c.cmd \in {"instances create", "env"} ->
           /\ c.inst # 0
           /\ StageOf(c.inst) \notin {"new", "recorded"}
           /\ dirs[c.inst] # "bare"
      [] c.cmd = "instances destroy" ->
           instances[c.inst] = NoRow /\ dirs[c.inst] = "absent"
      [] c.cmd = "images create" ->
           c.image # 0 /\ (uploads[c.image] # "absent" \/ images[c.image] = "none")
      [] c.cmd = "images finalise" ->
           images[c.image] # "unready"
      [] c.cmd = "images destroy" ->
           images[c.image] = "none" /\ uploads[c.image] = "absent"

(* Success on the terminal is real: whatever failed in the server, whoever *)
(* else worked on the same image or instance, and although some errors are *)
(* answered with 200, a command that ends well has created an instance     *)
(* with its certificates, removed row and directory, finalised or removed  *)
(* the image, unless that was undone by somebody since.                    *)
SuccessIsReal == \A h \in Handler : cli[h].stage = "ok" => Done(cli[h])
=============================================================================
