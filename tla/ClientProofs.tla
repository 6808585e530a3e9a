---------------------------- MODULE ClientProofs ----------------------------
(***************************************************************************)
(* The command line in front of the server: it takes no step the server    *)
(* does not know, and the success it reports is real.                      *)
(***************************************************************************)
EXTENDS Client, FlowProofs

-----------------------------------------------------------------------------
(***************************************************************************)
(* The server behind the commands is the server of Lifecycle.              *)
(***************************************************************************)
LEMMA ClientStep ==
    ASSUME [ClientNext]_clientVars
    PROVE  [Next]_vars
<1>1. CASE UNCHANGED clientVars
  BY <1>1 DEF clientVars
<1>2. ASSUME NEW h \in Handler,
             \/ Start(h) \/ SendRequest(h) \/ Refused(h) \/ Answer(h) \/ Exit(h)
             \/ Serve(h) \/ Abandon(h)
      PROVE  [Next]_vars
  <2>1. h \in Proc
    BY DEF Proc
  <2> QED BY <1>2, <2>1
          DEF Start, SendRequest, Refused, Answer, Exit, Serve, Abandon, Next, Fault
<1>3. CASE \/ InstanceStep(Cleaner) \/ CleanerStep
           \/ \E u \in User : Revoke(u)
           \/ \E h \in Proc : \/ ScriptFault(h) \/ StatementFault(h)
                              \/ Unacknowledged(h) \/ TruncatedList(h)
  BY <1>3 DEF Next, Fault, Proc
<1>4. CASE LoseServer
  BY <1>4 DEF LoseServer, Next, Fault
<1> QED BY <1>1, <1>2, <1>3, <1>4 DEF ClientNext

(* Whatever the commands do, the server sees requests that any client of   *)
(* the API might have sent: every behaviour with the command line is one   *)
(* of Lifecycle, and so every invariant proved of that server holds here.  *)
THEOREM ClientIsAClient == ClientSpec => Spec
<1>1. ClientInit => Init
  BY DEF ClientInit
<1>2. [ClientNext]_clientVars => [Next]_vars
  BY ClientStep
<1> QED BY <1>1, <1>2, PTL DEF ClientSpec, Spec

-----------------------------------------------------------------------------
(***************************************************************************)
(* Commands.                                                               *)
(***************************************************************************)
AllCmds == InstanceCmds \cup ImageCmds

Command == [cmd : AllCmds \cup {"none"}, stage : {"idle", "get", "send", "wait", "ok"},
            user : User, image : ImageId \cup {0}, inst : InstanceId \cup {0}]

(* What a successful command has done, as something nobody can undo. *)
Lasting(c) ==
    /\ c.cmd \in {"instances create", "env"} => Made(c.inst)
    /\ c.cmd = "instances destroy" => Removed(c.inst)
    /\ c.cmd = "images create" => Uploaded(c.image)
    /\ c.cmd = "images finalise" => Finalised(c.image)
    /\ c.cmd = "images destroy" => ImageRemoved(c.image)

(* r is a request of command c that is being served. *)
Serves(c, r) ==
    /\ r.pc # "idle" /\ r.parent # "gone"
    /\ \/ r.op = "Get" /\ c.cmd \in {"instances destroy", "env"}
       \/ r.op = "Create" /\ c.cmd = "instances create"
       \/ r.op = "Destroy" /\ c.cmd = "instances destroy"
       \/ r.op = "ImageCreate" /\ c.cmd = "images create"
       \/ r.op = "ImageDone" /\ c.cmd = "images finalise"
       \/ r.op = "ImageDestroy" /\ c.cmd = "images destroy"
    /\ r.op \in {"Get", "Destroy"} => r.inst = c.inst

CommandOK(c, r) ==
    /\ c \in Command
    /\ c.stage = "get" => c.cmd \in {"instances destroy", "env"}
    /\ c.stage = "send" => c.cmd \in AllCmds \ {"env"}
    /\ c.stage = "wait" => Serves(c, r)
    /\ c.stage = "ok" => c.cmd \in AllCmds /\ Lasting(c)

ClientInv ==
    /\ cli = [h \in Handler |-> cli[h]]
    /\ \A h \in Handler : CommandOK(cli[h], req[h])

LEMMA NoCommandOK ==
    ASSUME NEW r
    PROVE  CommandOK(NoCommand, r) /\ NoCommand.stage = "idle"
BY StoreAssumption DEF CommandOK, NoCommand, Command

LEMMA SetCommand ==
    ASSUME ClientInv, NEW h \in Handler, NEW c, Goes(h, c)
    PROVE  /\ cli'[h] = c
           /\ \A g \in Handler : g # h => cli'[g] = cli[g]
           /\ cli' = [g \in Handler |-> cli'[g]]
BY DEF ClientInv, Goes

(* A served request stays one until it is answered. *)
LEMMA ServesEdge ==
    ASSUME NEW r, NEW x, Edge(r, x), Shape(r), NEW c, Serves(c, r), r.pc # "reply"
    PROVE  Serves(c, x)
<1>1. CASE Fails(r, x)
  <2>1. x.pc # "idle" /\ x.parent # "gone"
    BY <1>1 DEF Fails, Serves
  <2>2. Same(r, x)
    BY <1>1 DEF Fails
  <2> QED BY <2>1, <2>2 DEF Same, Serves
<1>2. CASE Moved(r, x, x.pc) /\ Flow(r, x.pc)
  <2>1. x.pc # "idle"
    BY <1>2 DEF Flow
  <2> QED BY <1>2, <2>1 DEF Moved, Same, Serves
<1>3. CASE Answers(r, x, x.status)
  BY <1>3 DEF Answers, Same, Serves
<1>4. CASE Same(r, x) /\ x.pc = r.pc /\ x.parent = "killed"
  BY <1>4 DEF Same, Serves
<1>5. CASE Advances(r, x)
  <2>1. r.op \notin {"Get", "Destroy"}
    BY <1>5 DEF Advances, Shape, Fits
  <2> QED BY <1>5, <2>1 DEF Advances, Serves
<1>6. CASE PortChosen(r, x)
  BY <1>6 DEF PortChosen, Serves
<1>7. CASE RowInserted(r, x)
  <2>1. r.op \notin {"Get", "Destroy"}
    BY <1>7 DEF RowInserted, Shape, Fits
  <2> QED BY <1>7, <2>1 DEF RowInserted, Serves
<1>8. r.pc # "idle" /\ r.parent # "gone" /\ r.op # "Clean"
  BY DEF Serves
<1> QED BY <1>1, <1>2, <1>3, <1>4, <1>5, <1>6, <1>7, <1>8 DEF Edge

LEMMA NotAtReply ==
    ASSUME NEW h \in Proc,
           \/ ImageStep(h) \/ InstanceStep(h) \/ ScriptFault(h) \/ StatementFault(h)
           \/ Unacknowledged(h) \/ CreateUnacknowledged(h) \/ TruncatedList(h)
    PROVE  req[h].pc # "reply"
BY DEF ImageStep, ImageCreate, CreateBtrfsSubvolume, ImageDone, BootImage, MarkStarted,
       SealImage, SnapshotImage, ImageMarkReady, ImageDestroy, ListInstances, NextInstance,
       ImageDeleteRow, RemoveSnapshot, RemoveUpload,
       InstanceStep, InstanceCreate, ChoosePort, InsertRow, CloneSnapshot, WriteCerts,
       StartPostgres, ValidateAndRestart, InstanceGet, RetrieveInstanceCredentials,
       WhitelistAddress, ApplyWhitelist, InstanceDestroy, StopPostgres, RemoveDir, DeleteRow,
       ScriptFault, StatementFault, Unacknowledged, TakesEffect, CreateUnacknowledged,
       TruncatedList, ScriptPc, CtxPc, DetachedPc, ServerPc, At, Accepts

(* Success lasts. *)
LEMMA LastingStays ==
    ASSUME TypeInv, AnswerInv, [Next]_vars, NEW h \in Handler, cli'[h] = cli[h], Lasting(cli[h])
    PROVE  Lasting(cli[h])'
<1>1. PICK c : c = cli[h]
  OBVIOUS
<1>2. Lasting(c)'
  <2>1. CASE UNCHANGED vars
    BY <1>1, <2>1 DEF vars, tables, imageTable, instanceTable, disk, Lasting, Made, Removed,
                      NoClone, Uploaded, Finalised, ImageRemoved, NoVolume
  <2>2. CASE Next
    BY <1>1, <2>2, InstanceFactsLast, ImageFactsLast DEF Lasting
  <2> QED BY <2>1, <2>2
<1> QED BY <1>1, <1>2 DEF Lasting, Made, Removed, NoClone, Uploaded, Finalised, ImageRemoved,
                          NoVolume

(* A command that is not moved. *)
LEMMA KeptCommand ==
    ASSUME TypeInv, AnswerInv, [Next]_vars, NEW h \in Handler, CommandOK(cli[h], req[h]),
           cli'[h] = cli[h],
           cli[h].stage = "wait" /\ Serves(cli[h], req[h]) => Serves(cli[h], req'[h])
    PROVE  CommandOK(cli[h], req[h])'
<1>1. (cli[h].stage = "wait" => Serves(cli[h], req[h]))'
  BY DEF CommandOK, Serves
<1>2. cli[h].stage = "ok" => Lasting(cli[h])'
  BY LastingStays DEF CommandOK
<1>3. /\ (cli[h] \in Command)'
      /\ (cli[h].stage = "get" => cli[h].cmd \in {"instances destroy", "env"})'
      /\ (cli[h].stage = "send" => cli[h].cmd \in AllCmds \ {"env"})'
  BY DEF CommandOK, Command
<1> QED BY <1>1, <1>2, <1>3 DEF CommandOK

(* What an answer of the expected status vouches for. *)
LEMMA AnswerVouches ==
    ASSUME TypeInv, InstanceInv, AnswerInv, NEW h \in Handler, req[h].pc = "reply",
           Serves(cli[h], req[h]), Succeeded(req[h].op, req[h].status),
           ~(req[h].op = "Get" /\ cli[h].cmd = "instances destroy")
    PROVE  LET c == cli[h]
               r == req[h]
           IN  /\ c.cmd \in {"instances create", "env"} => Made(r.inst)
               /\ c.cmd = "instances destroy" => Removed(r.inst)
               /\ c.cmd = "images create" => Uploaded(r.image)
               /\ c.cmd = "images finalise" => Finalised(r.image)
               /\ c.cmd = "images destroy" => ImageRemoved(r.image)
<1> DEFINE c == cli[h]
           r == req[h]
<1>0. h \in Proc /\ AnswerReq(r) /\ InstanceReq(r) /\ Shape(r)
  BY ReqTyped DEF Proc, AnswerInv, InstanceInv
<1>1. r.op = "Create" \/ r.op = "Get" => Made(r.inst)
  BY <1>0 DEF AnswerReq, Settled, Succeeded, ExpectedStatus
<1>2. r.op = "Destroy" => Removed(r.inst)
  BY <1>0 DEF InstanceReq, RowDeleted, Gone, Removed, NoClone, Shape, Succeeded, ExpectedStatus
<1>3. r.op = "ImageCreate" => Uploaded(r.image)
  BY <1>0 DEF AnswerReq, AnsweredWith, Succeeded, ExpectedStatus
<1>4. r.op = "ImageDone" => Finalised(r.image)
  BY <1>0 DEF AnswerReq, AnsweredWith, Succeeded, ExpectedStatus
<1>5. r.op = "ImageDestroy" => ImageRemoved(r.image)
  BY <1>0 DEF AnswerReq, AnsweredWith, Succeeded, ExpectedStatus
<1> QED BY <1>1, <1>2, <1>3, <1>4, <1>5 DEF Serves
(* A command that has not ended well. *)
LEMMA OpenCommand ==
    ASSUME NEW h \in Handler, NEW c \in Command, cli'[h] = c, c.stage # "ok",
           c.stage = "get" => c.cmd \in {"instances destroy", "env"},
           c.stage = "send" => c.cmd \in AllCmds \ {"env"},
           c.stage = "wait" => Serves(c, req'[h])
    PROVE  CommandOK(cli[h], req[h])'
<1>1. (cli[h].stage = "wait" => Serves(cli[h], req[h]))'
  BY DEF Serves
<1>2. (cli[h] \in Command)'
  BY DEF Command
<1> QED BY <1>1, <1>2 DEF CommandOK, AllCmds

(* A step of one handler and its command leaves the others alone. *)
LEMMA OneCommand ==
    ASSUME TypeInv, AnswerInv, ClientInv, [Next]_vars, NEW h \in Proc, Only(h),
           cli' = [g \in Handler |-> cli'[g]],
           \A g \in Handler : g # h => cli'[g] = cli[g],
           h \in Handler => CommandOK(cli[h], req[h])'
    PROVE  ClientInv'
<1>1. ASSUME NEW g \in Handler, g # h PROVE CommandOK(cli[g], req[g])'
  <2>1. req'[g] = req[g] /\ cli'[g] = cli[g] /\ CommandOK(cli[g], req[g])
    BY <1>1 DEF Only, Proc, ClientInv
  <2> QED BY <2>1, KeptCommand
<1>2. \A g \in Handler : CommandOK(cli[g], req[g])'
  BY <1>1
<1> QED BY <1>2 DEF ClientInv

LEMMA StartClient ==
    ASSUME ClientInv, NEW h \in Handler, Start(h)
    PROVE  \E c : /\ Goes(h, c) /\ c \in Command
                  /\ \/ c.stage = "get" /\ c.cmd \in {"instances destroy", "env"}
                     \/ c.stage = "send" /\ c.cmd \in AllCmds \ {"env"}
<1>1. PICK cmd \in Cmds, u \in User :
         LET c == [NoCommand EXCEPT !.cmd = cmd, !.user = u]
         IN  CASE cmd \in {"instances create", "images destroy"} ->
                    \E i \in ImageId :
                      ImageExists(i) /\ Goes(h, [c EXCEPT !.stage = "send", !.image = i])
               [] cmd \in {"instances destroy", "env"} ->
                    \E n \in InstanceId : Goes(h, [c EXCEPT !.stage = "get", !.inst = n])
               [] cmd = "images finalise" ->
                    \E i \in ImageId : Goes(h, [c EXCEPT !.stage = "send", !.image = i])
               [] cmd = "images create" ->
                    Goes(h, [c EXCEPT !.stage = "send"])
  BY DEF Start
<1> DEFINE c == [NoCommand EXCEPT !.cmd = cmd, !.user = u]
<1>2. /\ c \in Command /\ c.cmd = cmd /\ cmd \in AllCmds
      /\ \A i \in ImageId : LET d == [c EXCEPT !.stage = "send", !.image = i]
                            IN  d \in Command /\ d.stage = "send" /\ d.cmd = cmd
      /\ \A n \in InstanceId : LET d == [c EXCEPT !.stage = "get", !.inst = n]
                               IN  d \in Command /\ d.stage = "get" /\ d.cmd = cmd
      /\ LET d == [c EXCEPT !.stage = "send"]
         IN  d \in Command /\ d.stage = "send" /\ d.cmd = cmd
  BY <1>1, ClientAssumption DEF NoCommand, Command, AllCmds
<1> HIDE DEF c
<1>3. CASE cmd \in {"instances create", "images destroy", "images finalise"}
  <2>1. PICK i \in ImageId : Goes(h, [c EXCEPT !.stage = "send", !.image = i])
    BY <1>1, <1>3 DEF c
  <2> WITNESS [c EXCEPT !.stage = "send", !.image = i]
  <2> QED BY <1>2, <1>3, <2>1
<1>4. CASE cmd \in {"instances destroy", "env"}
  <2>1. PICK n \in InstanceId : Goes(h, [c EXCEPT !.stage = "get", !.inst = n])
    BY <1>1, <1>4 DEF c
  <2> WITNESS [c EXCEPT !.stage = "get", !.inst = n]
  <2> QED BY <1>2, <1>4, <2>1
<1>5. CASE cmd = "images create"
  <2>1. Goes(h, [c EXCEPT !.stage = "send"])
    BY <1>1, <1>5 DEF c
  <2> WITNESS [c EXCEPT !.stage = "send"]
  <2> QED BY <1>2, <1>5, <2>1
<1> QED BY <1>2, <1>3, <1>4, <1>5 DEF AllCmds, InstanceCmds, ImageCmds

LEMMA SendClient ==
    ASSUME TypeInv, ClientInv, NEW h \in Handler, SendRequest(h)
    PROVE  \E c : Goes(h, c) /\ c \in Command /\ c.stage = "wait" /\ Serves(c, req'[h])
<1> DEFINE d == [cli[h] EXCEPT !.stage = "wait"]
<1>0. h \in Proc /\ CommandOK(cli[h], req[h])
  BY DEF Proc, ClientInv
<1>1. /\ Goes(h, d) /\ d \in Command /\ d.stage = "wait"
      /\ d.cmd = cli[h].cmd /\ d.inst = cli[h].inst
  BY <1>0 DEF SendRequest, CommandOK, Command
<1>2. Edge(req[h], req'[h]) /\ Asks(cli[h], req'[h]) /\ req[h].pc = "idle"
  BY <1>0, ImageStepFlow, InstanceStepFlow, OtherFlow DEF SendRequest, FaultOf
<1>3. /\ cli[h].stage = "get" => cli[h].cmd \in {"instances destroy", "env"}
      /\ cli[h].stage # "get" => cli[h].cmd \in AllCmds \ {"env"}
  BY <1>0 DEF CommandOK, SendRequest
<1>4. \/ OpOf(cli[h]) = "Get" /\ cli[h].cmd \in {"instances destroy", "env"}
      \/ OpOf(cli[h]) = "Create" /\ cli[h].cmd = "instances create"
      \/ OpOf(cli[h]) = "Destroy" /\ cli[h].cmd = "instances destroy"
      \/ OpOf(cli[h]) = "ImageCreate" /\ cli[h].cmd = "images create"
      \/ OpOf(cli[h]) = "ImageDone" /\ cli[h].cmd = "images finalise"
      \/ OpOf(cli[h]) = "ImageDestroy" /\ cli[h].cmd = "images destroy"
  BY <1>3 DEF OpOf, AllCmds, InstanceCmds, ImageCmds
<1>5. Fresh(req'[h])
  <2>1. req'[h].op = OpOf(cli[h])
    BY <1>2 DEF Asks
  <2>2. req'[h] # Idle
    <3>1. Idle.op = "none"
      BY DEF Idle, New
    <3> QED BY <1>4, <2>1, <3>1
  <2> QED BY <1>2, <2>2 DEF Edge
<1>6. req'[h].pc # "idle" /\ req'[h].parent # "gone"
  BY <1>5 DEF Fresh
<1>7. Serves(d, req'[h])
  <2> HIDE DEF d
  <2> QED BY <1>1, <1>2, <1>4, <1>6 DEF Serves, Asks
<1> WITNESS d
<1> QED BY <1>1, <1>7

LEMMA AnswerClient ==
    ASSUME TypeInv, InstanceInv, AnswerInv, ClientInv, NEW h \in Handler, Answer(h),
           cli[h].stage = "wait"
    PROVE  CommandOK(cli[h], req[h])' /\ Goes(h, Answered(cli[h], req[h]))
<1>0. /\ h \in Proc /\ CommandOK(cli[h], req[h]) /\ cli[h] \in Command /\ req[h] \in Request
      /\ Serves(cli[h], req[h]) /\ req[h].pc = "reply" /\ Next
  BY ReqTyped DEF Proc, ClientInv, CommandOK, Answer, Finish, Next
<1>1. Goes(h, Answered(cli[h], req[h]))
  BY DEF Answer
<1>2. PICK c : c = Answered(cli[h], req[h])
  OBVIOUS
<1>3. cli'[h] = c
  BY <1>1, <1>2, SetCommand
<1>4. CASE ~Succeeded(req[h].op, req[h].status)
  <2>1. c = NoCommand
    BY <1>2, <1>4 DEF Answered
  <2> QED BY <1>1, <1>3, <2>1, NoCommandOK, OpenCommand DEF CommandOK
<1>5. CASE /\ Succeeded(req[h].op, req[h].status)
           /\ req[h].op = "Get" /\ cli[h].cmd = "instances destroy"
  <2>1. c = [cli[h] EXCEPT !.stage = "send"]
    BY <1>2, <1>5 DEF Answered
  <2>2. c \in Command /\ c.stage = "send" /\ c.cmd = "instances destroy"
    BY <1>0, <1>5, <2>1 DEF Command
  <2> QED BY <1>1, <1>3, <2>2, OpenCommand DEF AllCmds, InstanceCmds
<1>6. CASE /\ Succeeded(req[h].op, req[h].status)
           /\ ~(req[h].op = "Get" /\ cli[h].cmd = "instances destroy")
  <2>1. c = [cli[h] EXCEPT !.stage = "ok", !.image = req[h].image, !.inst = req[h].inst]
    BY <1>2, <1>6 DEF Answered
  <2>2. /\ c \in Command /\ c.stage = "ok" /\ c.cmd = cli[h].cmd
        /\ c.image = req[h].image /\ c.inst = req[h].inst
    BY <1>0, <2>1 DEF Command, Request
  <2>3. c.cmd \in AllCmds
    BY <1>0, <2>2 DEF Serves, AllCmds, InstanceCmds, ImageCmds
  <2>4. Lasting(c)
    BY <1>0, <1>6, <2>2, AnswerVouches DEF Lasting
  <2>5. Lasting(c)'
    BY <1>0, <2>4, InstanceFactsLast, ImageFactsLast DEF Lasting
  <2>6. Lasting(cli[h])'
    BY <1>3, <2>5 DEF Lasting, Made, Removed, NoClone, Uploaded, Finalised, ImageRemoved,
                      NoVolume
  <2> QED BY <1>1, <1>3, <2>2, <2>3, <2>6 DEF CommandOK, Command, AllCmds
<1> QED BY <1>4, <1>5, <1>6
LEMMA StepClient ==
    ASSUME TypeInv, InstanceInv, AnswerInv, ClientInv, [ClientNext]_clientVars
    PROVE  ClientInv'
<1>0. [Next]_vars
  BY ClientStep
<1>1. CASE UNCHANGED clientVars
  <2>1. UNCHANGED cli /\ UNCHANGED req
    BY <1>1 DEF clientVars, vars
  <2>2. \A h \in Handler : CommandOK(cli[h], req[h])'
    BY <1>0, <2>1, KeptCommand DEF ClientInv
  <2> QED BY <2>1, <2>2 DEF ClientInv
<1>2. ASSUME NEW h \in Handler, Only(h), NEW c, Goes(h, c), CommandOK(cli[h], req[h])'
      PROVE  ClientInv'
  BY <1>0, <1>2, SetCommand, OneCommand DEF Proc
<1>3. ASSUME NEW h \in Handler, UNCHANGED vars PROVE Only(h)
  BY <1>3 DEF vars, Only
<1>4. ASSUME NEW h \in Handler, Only(h), Goes(h, NoCommand) PROVE ClientInv'
  <2>1. cli'[h] = NoCommand /\ NoCommand \in Command /\ NoCommand.stage = "idle"
    BY <1>4, SetCommand, NoCommandOK DEF CommandOK
  <2> QED BY <1>2, <1>4, <2>1, OpenCommand
<1>5. ASSUME NEW h \in Proc, UNCHANGED cli,
             \/ ImageStep(h) \/ InstanceStep(h) \/ ScriptFault(h) \/ StatementFault(h)
             \/ Unacknowledged(h) \/ CreateUnacknowledged(h) \/ TruncatedList(h)
      PROVE  ClientInv'
  <2>1. Only(h) /\ Edge(req[h], req'[h]) /\ req[h].pc # "reply"
    BY <1>5, ImageStepFlow, InstanceStepFlow, OtherFlow, NotAtReply DEF FaultOf
  <2>2. ASSUME h \in Handler PROVE CommandOK(cli[h], req[h])'
    <3>1. CommandOK(cli[h], req[h]) /\ Shape(req[h])
      BY <2>2, ReqTyped DEF ClientInv, Proc
    <3> QED BY <1>0, <1>5, <2>1, <2>2, <3>1, ServesEdge, KeptCommand
  <2> QED BY <1>0, <1>5, <2>1, <2>2, OneCommand DEF ClientInv
<1>6. ASSUME NEW h \in Handler, Start(h) PROVE ClientInv'
  <2>1. PICK c : /\ Goes(h, c) /\ c \in Command
                 /\ \/ c.stage = "get" /\ c.cmd \in {"instances destroy", "env"}
                    \/ c.stage = "send" /\ c.cmd \in AllCmds \ {"env"}
    BY <1>6, StartClient
  <2>2. cli'[h] = c
    BY <2>1, SetCommand
  <2>3. CommandOK(cli[h], req[h])'
    BY <2>1, <2>2, OpenCommand
  <2> QED BY <1>2, <1>3, <1>6, <2>1, <2>3 DEF Start
<1>7. ASSUME NEW h \in Handler, SendRequest(h) PROVE ClientInv'
  <2>1. PICK c : Goes(h, c) /\ c \in Command /\ c.stage = "wait" /\ Serves(c, req'[h])
    BY <1>7, SendClient
  <2>2. cli'[h] = c
    BY <2>1, SetCommand
  <2>3. CommandOK(cli[h], req[h])'
    BY <2>1, <2>2, OpenCommand
  <2>4. Only(h)
    BY <1>7, ImageStepFlow, InstanceStepFlow, OtherFlow DEF SendRequest, FaultOf, Proc
  <2> QED BY <1>2, <2>1, <2>3, <2>4
<1>8. ASSUME NEW h \in Handler, Refused(h) \/ Exit(h) PROVE ClientInv'
  BY <1>3, <1>4, <1>8 DEF Refused, Exit
<1>9. ASSUME NEW h \in Handler, Answer(h) PROVE ClientInv'
  <2>1. Only(h)
    BY <1>9, OtherFlow DEF Answer, Proc
  <2>2. CASE cli[h].stage = "wait"
    BY <1>2, <1>9, <2>1, <2>2, AnswerClient
  <2>3. CASE cli[h].stage # "wait"
    <3>1. UNCHANGED cli
      BY <1>9, <2>3 DEF Answer
    <3>2. CommandOK(cli[h], req[h])'
      BY <1>0, <2>3, <3>1, KeptCommand DEF ClientInv
    <3> QED BY <1>0, <2>1, <3>1, <3>2, OneCommand DEF ClientInv, Proc
  <2> QED BY <2>2, <2>3
<1>10. ASSUME NEW h \in Handler, Abandon(h) PROVE ClientInv'
  <2>1. Only(h)
    BY <1>10, OtherFlow DEF Abandon, FaultOf, Proc
  <2> QED BY <1>4, <1>10, <2>1 DEF Abandon
<1>11. ASSUME UNCHANGED cli, CleanerStep \/ \E u \in User : Revoke(u) PROVE ClientInv'
  <2>1. Only(Cleaner) /\ Cleaner \in Proc /\ Cleaner \notin Handler
    BY <1>11, OtherFlow, LifecycleAssumption DEF Proc, Revoke, Only
  <2> QED BY <1>0, <1>11, <2>1, OneCommand DEF ClientInv
<1>12. CASE LoseServer
  <2>1. \A h \in Handler : cli'[h] = IF cli[h].stage = "wait" THEN NoCommand ELSE cli[h]
    BY <1>12 DEF LoseServer
  <2>2. ASSUME NEW h \in Handler PROVE CommandOK(cli[h], req[h])'
    <3>1. CASE cli[h].stage = "wait"
      <4>1. cli'[h] = NoCommand /\ NoCommand \in Command /\ NoCommand.stage = "idle"
        BY <2>1, <3>1, NoCommandOK DEF CommandOK
      <4> QED BY <4>1, OpenCommand
    <3>2. CASE cli[h].stage # "wait"
      BY <1>0, <2>1, <3>2, KeptCommand DEF ClientInv
    <3> QED BY <3>1, <3>2
  <2>3. cli' = [h \in Handler |-> cli'[h]]
    BY <1>12 DEF LoseServer
  <2> QED BY <2>2, <2>3 DEF ClientInv
<1>13. ASSUME NEW h \in Handler, Serve(h) PROVE ClientInv'
  BY <1>5, <1>13 DEF Serve, Proc
<1>14. CASE /\ \/ InstanceStep(Cleaner)
               \/ \E h \in Proc : \/ ScriptFault(h) \/ StatementFault(h)
                                  \/ Unacknowledged(h) \/ TruncatedList(h)
            /\ UNCHANGED cli
  BY <1>5, <1>14 DEF Proc
<1> QED BY <1>1, <1>6, <1>7, <1>8, <1>9, <1>10, <1>11, <1>12, <1>13, <1>14 DEF ClientNext

LEMMA InitClient == ClientInit => ClientInv
<1> SUFFICES ASSUME ClientInit PROVE ClientInv
  OBVIOUS
<1>1. cli = [h \in Handler |-> NoCommand]
  BY DEF ClientInit
<1> QED BY <1>1, NoCommandOK DEF ClientInv

LEMMA CommandsRight == ClientSpec => []ClientInv
<1>1. TypeInv /\ InstanceInv /\ AnswerInv /\ ClientInv /\ [ClientNext]_clientVars => ClientInv'
  BY StepClient
<1> QED BY <1>1, InitClient, ClientIsAClient, Typed, InstancesRight, AnswersRight, PTL
        DEF ClientSpec

(* A command that reports success has done what it says, for any number of *)
(* users, commands and other clients, through every failure and crash, and *)
(* although Create and Images.Destroy answer some errors with 200.         *)
THEOREM SuccessReal == ClientSpec => []SuccessIsReal
<1>1. TypeInv /\ ClientInv => SuccessIsReal
  <2> SUFFICES ASSUME TypeInv, ClientInv, NEW h \in Handler, cli[h].stage = "ok"
               PROVE  Done(cli[h])
    BY DEF SuccessIsReal
  <2> DEFINE c == cli[h]
  <2>1. c.cmd \in AllCmds /\ Lasting(c)
    BY DEF ClientInv, CommandOK
  <2>2. ASSUME Made(c.inst)
        PROVE  c.inst # 0 /\ StageOf(c.inst) \notin {"new", "recorded"} /\ dirs[c.inst] # "bare"
    <3>1. /\ c.inst \in InstanceId /\ c.inst <= instanceSeq /\ dirs[c.inst] # "bare"
          /\ ~CloneDue(c.inst)
      BY <2>2 DEF Made, NoClone, CloneDue
    <3>2. c.inst # 0
      BY <3>1, StoreAssumption DEF InstanceId
    <3> QED BY <3>1, <3>2 DEF StageOf
  <2>3. c.cmd = "images create" => c.image # 0
    <3>1. c.cmd = "images create" => c.image \in ImageId
      BY <2>1 DEF Lasting, Uploaded
    <3>2. 0 \notin ImageId
      BY StoreAssumption DEF ImageId
    <3> QED BY <3>1, <3>2
  <2> QED BY <2>1, <2>2, <2>3
          DEF Done, Lasting, Removed, Uploaded, Finalised, ImageRemoved, AllCmds, InstanceCmds,
              ImageCmds
<1> QED BY <1>1, CommandsRight, ClientIsAClient, Typed, PTL
=============================================================================
