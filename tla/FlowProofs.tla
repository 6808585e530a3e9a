----------------------------- MODULE FlowProofs -----------------------------
(***************************************************************************)
(* The control flow of handlers, scripts and the cleaner, as one relation  *)
(* between what a request was and what a step makes of it; and what        *)
(* follows from it: which answers can be relied upon, and that a created   *)
(* instance is served.                                                     *)
(***************************************************************************)
EXTENDS LifecycleProofs

-----------------------------------------------------------------------------
(***************************************************************************)
(* How a request moves on, field by field.                                 *)
(***************************************************************************)
Only(h) == \A g \in Proc : g # h => req'[g] = req[g]

Same(r, x) ==
    /\ x.op = r.op
    /\ x.user = r.user
    /\ x.image = r.image
    /\ x.inst = r.inst
    /\ x.port = r.port
    /\ x.todo = r.todo

Moved(r, x, p) ==
    Same(r, x) /\ x.parent = r.parent /\ x.pc = p /\ x.status = r.status

Answers(r, x, s) ==
    Same(r, x) /\ x.parent = r.parent /\ x.pc = "reply" /\ x.status = s

Fails(r, x) ==
    /\ Same(r, x)
    /\ x.parent \in {r.parent, "waiting"}
    /\ \/ r.op = "Clean" /\ x.pc = "next" /\ x.status = r.status
       \/ r.op # "Clean" /\ x.pc = "reply" /\ x.status = 500

GivesUp(r, x) == Fails(r, x) \/ (r.parent = "gone" /\ x = Idle)

LEMMA ReqTyped ==
    ASSUME TypeInv
    PROVE  /\ req \in [Proc -> Request]
           /\ \A h \in Proc : req[h] \in Request /\ Shape(req[h])
BY DEF TypeInv, TypeOK

LEMMA SetFlow ==
    ASSUME TypeInv, NEW h \in Proc, NEW x, req' = [req EXCEPT ![h] = x]
    PROVE  Only(h) /\ req'[h] = x
BY ReqTyped DEF Only

LEMMA MovedRecord ==
    ASSUME NEW r \in Request, NEW p
    PROVE  Moved(r, [r EXCEPT !.pc = p], p)
BY DEF Moved, Same, Request

LEMMA AnswersRecord ==
    ASSUME NEW r \in Request, NEW s
    PROVE  Answers(r, Replied(r, s), s)
BY DEF Answers, Same, Request, Replied

LEMMA FailsRecord ==
    ASSUME NEW r \in Request
    PROVE  Fails(r, Failed(r))
<1>1. CASE r.op = "Clean"
  <2>1. Moved(r, [r EXCEPT !.pc = "next"], "next")
    BY MovedRecord
  <2> QED BY <1>1, <2>1 DEF Fails, Failed, Moved
<1>2. CASE r.op # "Clean"
  <2>1. Answers(r, Replied(r, 500), 500)
    BY AnswersRecord
  <2> QED BY <1>2, <2>1 DEF Fails, Failed, Answers
<1> QED BY <1>1, <1>2

LEMMA FailsAlone ==
    ASSUME NEW r \in Request
    PROVE  Fails(r, Failed([r EXCEPT !.parent = "waiting"]))
<1> DEFINE f == [r EXCEPT !.parent = "waiting"]
<1>1. f \in Request /\ Same(r, f) /\ f.parent = "waiting" /\ f.status = r.status
  BY DEF Request, Same
<1> HIDE DEF f
<1>2. Fails(f, Failed(f))
  BY <1>1, FailsRecord
<1>3. Fails(r, Failed(f))
  BY <1>1, <1>2 DEF Fails, Same
<1> QED BY <1>3 DEF f

LEMMA GotoFlow ==
    ASSUME TypeInv, NEW h \in Proc, NEW p, Goto(h, p)
    PROVE  Only(h) /\ Moved(req[h], req'[h], p)
<1>1. req' = [req EXCEPT ![h] = [req[h] EXCEPT !.pc = p]]
  BY ReqTyped DEF Goto
<1> QED BY <1>1, ReqTyped, SetFlow, MovedRecord

LEMMA ReplyFlow ==
    ASSUME TypeInv, NEW h \in Proc, NEW s, Reply(h, s)
    PROVE  Only(h) /\ Answers(req[h], req'[h], s)
<1>1. req' = [req EXCEPT ![h] = Replied(req[h], s)]
  BY ReqTyped DEF Reply
<1> QED BY <1>1, ReqTyped, SetFlow, AnswersRecord

LEMMA FailFlow ==
    ASSUME TypeInv, NEW h \in Proc, Fail(h)
    PROVE  Only(h) /\ Fails(req[h], req'[h])
<1>1. req' = [req EXCEPT ![h] = Failed(req[h])]
  BY ReqTyped DEF Fail
<1> QED BY <1>1, ReqTyped, SetFlow, FailsRecord

LEMMA ExitFlow ==
    ASSUME TypeInv, NEW h \in Proc, NEW ok \in BOOLEAN, NEW next, ScriptExit(h, ok, next)
    PROVE  /\ Only(h)
           /\ \/ ok /\ req[h].parent = "waiting" /\ req'[h] = next
              \/ GivesUp(req[h], req'[h]) /\ ~(ok /\ req[h].parent = "waiting")
<1> DEFINE f == Failed([req[h] EXCEPT !.parent = "waiting"])
<1>1. Fails(req[h], f)
  BY ReqTyped, FailsAlone
<1> DEFINE x == CASE req[h].parent = "gone"          -> Idle
                  [] req[h].parent = "waiting" /\ ok -> next
                  [] OTHER                           -> f
<1>2. req' = [req EXCEPT ![h] = x]
  BY ReqTyped DEF ScriptExit
<1> HIDE DEF f
<1>3. \/ ok /\ req[h].parent = "waiting" /\ x = next
      \/ GivesUp(req[h], x) /\ ~(ok /\ req[h].parent = "waiting")
  BY <1>1 DEF GivesUp
<1> HIDE DEF x
<1> QED BY <1>2, <1>3, SetFlow

LEMMA ScriptFailFlow ==
    ASSUME TypeInv, NEW h \in Proc, ScriptFail(h)
    PROVE  Only(h) /\ GivesUp(req[h], req'[h])
BY ExitFlow DEF ScriptFail

LEMMA ScriptGotoFlow ==
    ASSUME TypeInv, NEW h \in Proc, NEW p, ScriptGoto(h, p)
    PROVE  /\ Only(h)
           /\ \/ Moved(req[h], req'[h], p)
              \/ GivesUp(req[h], req'[h]) /\ req[h].parent # "waiting"
<1>1. Moved(req[h], [req[h] EXCEPT !.pc = p], p)
  BY ReqTyped, MovedRecord
<1> QED BY <1>1, ExitFlow DEF ScriptGoto

LEMMA ScriptReplyFlow ==
    ASSUME TypeInv, NEW h \in Proc, NEW s, ScriptReply(h, s)
    PROVE  /\ Only(h)
           /\ \/ Answers(req[h], req'[h], s)
              \/ GivesUp(req[h], req'[h]) /\ req[h].parent # "waiting"
<1>1. Answers(req[h], Replied(req[h], s), s)
  BY ReqTyped, AnswersRecord
<1> QED BY <1>1, ExitFlow DEF ScriptReply

-----------------------------------------------------------------------------
(***************************************************************************)
(* The flow chart of the handlers, the scripts and the cleaner, with what  *)
(* is known of the data at the edges the proofs below are about.           *)
(***************************************************************************)

(* What an idle process becomes. *)
Fresh(x) ==
    /\ x.parent = "waiting"
    /\ x.pc \in {"mkvol", "bootimage", "list", "delimage", "port", "creds", "stop",
                 "next", "reply"}
    /\ x.pc = "mkvol" => imageSeq' = imageSeq + 1 /\ x.image = imageSeq'
    /\ x.pc = "reply" => \/ x.status \in {404, 422, 500}
                         \/ x.op = "ImageDone" /\ x.status = 200 /\ images[x.image] = "ready"
    /\ x.todo \subseteq InstanceList
    /\ x.pc \in {"creds", "stop"} => x.op \in {"Get", "Destroy"}

(* The labels a request goes to from its own, keeping its fields. *)
Flow(r, p) ==
    \/ p \in {"markstarted", "seal", "snapshot", "markready", "next", "delimage"}
    \/ p = "rmsnap" /\ r.pc = "delimage" /\ images'[r.image] = "none"
    \/ p = "rmupload" /\ r.pc = "rmsnap"
    \/ p = "certs" /\ r.pc = "clone"
    \/ p = "boot" /\ r.pc = "certs"
    \/ p = "validate" /\ r.pc = "boot"
    \/ p = "creds" /\ r.pc = "validate"
    \/ p = "whitelist" /\ r.pc = "creds" /\ dirs[r.inst] = "certs"
    \/ p = "apply" /\ r.pc = "whitelist"
    \/ p = "apply" /\ r.pc = "delrow" /\ r.op = "Destroy"
    \/ /\ p = "stop" /\ r.pc = "delrow" /\ r.op = "ImageDestroy"
       /\ instances'[r.inst] = NoRow
    \/ p = "rmdir" /\ r.pc = "stop"
    \/ p = "delrow" /\ r.pc = "rmdir"

(* The answers a request may get. *)
Result(r, s) ==
    \/ s \in {422, 500, Aborted}
    \/ s = 200 /\ r.op \in {"Create", "ImageDestroy"}
    \/ s = 200 /\ r.op = "Get" /\ r.pc = "apply"
    \/ s = 201 /\ r.op = "Create" /\ r.pc = "apply"
    \/ s = 204 /\ r.op = "Destroy" /\ r.pc = "apply"
    \/ s = 201 /\ r.op = "ImageCreate" /\ r.pc = "mkvol" /\ uploads'[r.image] # "absent"
    \/ s = 200 /\ r.op = "ImageDone" /\ r.pc = "markready" /\ images'[r.image] = "ready"
    \/ /\ s = 204 /\ r.op = "ImageDestroy" /\ r.pc = "rmupload"
       /\ uploads[r.image] # "absent" /\ uploads'[r.image] = "absent"

(* A destroyer of several instances takes its list, or the next from it. *)
Advances(r, x) ==
    /\ r.pc \in {"list", "next"}
    /\ x.op = r.op /\ x.user = r.user /\ x.image = r.image /\ x.port = r.port
    /\ x.parent = r.parent /\ x.status = r.status
    /\ x.todo \subseteq r.todo \cup InstanceList
    /\ \/ x.pc = "next"
       \/ /\ \/ x.pc = "stop" /\ r.op = "Clean"
             \/ x.pc = "delrow" /\ r.op = "ImageDestroy"
          /\ \E t \in r.todo : x.inst = t[1]

PortChosen(r, x) ==
    /\ r.pc = "port" /\ x.pc = "insert"
    /\ x.op = r.op /\ x.user = r.user /\ x.image = r.image /\ x.inst = r.inst
    /\ x.parent = r.parent /\ x.status = r.status /\ x.todo = r.todo
    /\ x.port \in Port

RowInserted(r, x) ==
    /\ r.pc = "insert" /\ x.pc = "clone"
    /\ x.op = r.op /\ x.user = r.user /\ x.image = r.image /\ x.port = r.port
    /\ x.parent = r.parent /\ x.status = r.status /\ x.todo = r.todo
    /\ instanceSeq' = instanceSeq + 1 /\ x.inst = instanceSeq'

Edge(r, x) ==
    \/ r.pc = "idle" /\ Fresh(x)
    \/ x = Idle /\ (r.pc = "reply" \/ r.parent = "gone" \/ r.op = "Clean")
    \/ /\ r.pc # "idle"
       /\ \/ Fails(r, x)
          \/ Moved(r, x, x.pc) /\ Flow(r, x.pc)
          \/ Answers(r, x, x.status) /\ Result(r, x.status)
          \/ /\ Same(r, x) /\ x.pc = r.pc /\ x.status = r.status /\ x.parent = "killed"
             /\ faults' = faults + 1
          \/ Advances(r, x)
          \/ PortChosen(r, x)
          \/ RowInserted(r, x)

LEMMA GivesUpEdge ==
    ASSUME NEW r, NEW x, r.pc # "idle", GivesUp(r, x)
    PROVE  Edge(r, x)
BY DEF GivesUp, Edge

LEMMA MovedEdge ==
    ASSUME NEW r, NEW x, NEW p, r.pc # "idle", Moved(r, x, p), Flow(r, p)
    PROVE  Edge(r, x)
BY DEF Moved, Edge

LEMMA AnswersEdge ==
    ASSUME NEW r, NEW x, NEW s, r.pc # "idle", Answers(r, x, s), Result(r, s)
    PROVE  Edge(r, x)
BY DEF Answers, Edge

(* What New makes of its arguments. *)
LEMMA NewFields ==
    ASSUME NEW op, NEW p, NEW u, NEW i, NEW n
    PROVE  LET x == New(op, p, u, i, n)
           IN  /\ x.op = op /\ x.pc = p /\ x.user = u /\ x.image = i /\ x.inst = n
               /\ x.parent = "waiting" /\ x.todo = {}
               /\ \A s : LET y == Replied(x, s)
                         IN  /\ y.op = op /\ y.pc = "reply" /\ y.status = s /\ y.image = i
                             /\ y.inst = n /\ y.parent = "waiting" /\ y.todo = {}
BY DEF New, Replied

LEMMA FreshEdge ==
    ASSUME TypeInv, NEW h \in Proc, req[h].pc = "idle", NEW x, Fresh(x),
           req' = [req EXCEPT ![h] = x]
    PROVE  Only(h) /\ Edge(req[h], req'[h])
BY SetFlow DEF Edge

LEMMA ImageStepFlow ==
    ASSUME TypeInv, NEW h \in Proc, ImageStep(h)
    PROVE  Only(h) /\ Edge(req[h], req'[h])
<1> DEFINE r == req[h]
           x == req'[h]
<1>0. r \in Request /\ Shape(r)
  BY ReqTyped
<1>1. CASE ImageCreate(h)
  <2>1. PICK i \in ImageId : /\ InsertImage(i)
                             /\ req' = [req EXCEPT ![h] = New("ImageCreate", "mkvol", Upload, i, 0)]
    BY <1>1 DEF ImageCreate
  <2>2. Only(h) /\ x = New("ImageCreate", "mkvol", Upload, i, 0)
    BY <2>1, SetFlow
  <2>3. x.pc = "mkvol" /\ x.image = i /\ x.parent = "waiting" /\ x.todo = {}
    BY <2>2, NewFields
  <2> QED BY <1>1, <2>1, <2>2, <2>3 DEF ImageCreate, Accepts, InsertImage, Edge, Fresh
<1>2. CASE CreateBtrfsSubvolume(h)
  <2>1. r.pc = "mkvol" /\ r.op = "ImageCreate" /\ r.image \in ImageId
    BY <1>0, <1>2 DEF CreateBtrfsSubvolume, Shape, Fits
  <2>2. CASE uploads[r.image] = "absent"
    <3>1. uploads'[r.image] # "absent"
      BY <1>2, <2>1, <2>2 DEF CreateBtrfsSubvolume, TypeInv, TypeOK
    <3> QED BY <1>2, <2>1, <2>2, <3>1, ScriptReplyFlow, AnswersEdge, GivesUpEdge
            DEF CreateBtrfsSubvolume, Result
  <2>3. CASE uploads[r.image] # "absent"
    BY <1>2, <2>1, <2>3, ScriptFailFlow, GivesUpEdge DEF CreateBtrfsSubvolume
  <2> QED BY <2>2, <2>3
<1>3. CASE ImageDone(h)
  <2> DEFINE n(i) == New("ImageDone", "bootimage", Upload, i, 0)
             y(i) == CASE images[i] = "none"  -> Replied(n(i), 404)
                       [] images[i] = "ready" -> Replied(n(i), 200)
                       [] OTHER               -> n(i)
  <2>1. PICK i \in ImageId : req' = [req EXCEPT ![h] = y(i)]
    BY <1>3 DEF ImageDone
  <2>2. /\ Fresh(n(i)) /\ Fresh(Replied(n(i), 404))
        /\ images[i] = "ready" => Fresh(Replied(n(i), 200))
    BY NewFields DEF Fresh
  <2>3. Fresh(y(i))
    <3> HIDE DEF n
    <3> QED BY <2>2
  <2> HIDE DEF y
  <2>4. r.pc = "idle"
    BY <1>3 DEF ImageDone, Accepts
  <2> QED BY <2>1, <2>3, <2>4, FreshEdge
<1>4. CASE BootImage(h)
  BY <1>4, GotoFlow, ScriptFailFlow, MovedEdge, GivesUpEdge DEF BootImage, Flow
<1>5. CASE MarkStarted(h)
  BY <1>5, GotoFlow, ScriptFailFlow, MovedEdge, GivesUpEdge DEF MarkStarted, Flow
<1>6. CASE SealImage(h)
  BY <1>6, GotoFlow, ScriptFailFlow, MovedEdge, GivesUpEdge DEF SealImage, Flow
<1>7. CASE SnapshotImage(h)
  BY <1>7, ScriptGotoFlow, ScriptFailFlow, MovedEdge, GivesUpEdge DEF SnapshotImage, Flow
<1>8. CASE ImageMarkReady(h)
  <2>1. r.pc = "markready" /\ r.op = "ImageDone" /\ r.image \in ImageId
    BY <1>0, <1>8 DEF ImageMarkReady, At, Shape
  <2>2. CASE CanMarkAsReady(r.image)
    <3>1. images'[r.image] = "ready"
      BY <1>8, <2>1, <2>2 DEF ImageMarkReady, MarkAsReady, TypeInv, TypeOK, StoreTypeOK
    <3> QED BY <1>8, <2>1, <2>2, <3>1, ReplyFlow, AnswersEdge DEF ImageMarkReady, Result
  <2>3. CASE ~CanMarkAsReady(r.image)
    BY <1>8, <2>1, <2>3, FailFlow DEF ImageMarkReady, Edge
  <2> QED BY <2>2, <2>3
<1>9. CASE ImageDestroy(h)
  <2> DEFINE n(i, u) == New("ImageDestroy", IF u = Upload THEN "list" ELSE "delimage", u, i, 0)
             y(i, u) == IF ImageExists(i) THEN n(i, u) ELSE Replied(n(i, u), 404)
  <2>1. PICK i \in ImageId, u \in User : req' = [req EXCEPT ![h] = y(i, u)]
    BY <1>9 DEF ImageDestroy
  <2>2. Fresh(n(i, u)) /\ Fresh(Replied(n(i, u), 404))
    BY NewFields DEF Fresh
  <2>3. Fresh(y(i, u))
    <3> HIDE DEF n
    <3> QED BY <2>2
  <2> HIDE DEF y
  <2>4. r.pc = "idle"
    BY <1>9 DEF ImageDestroy, Accepts
  <2> QED BY <2>1, <2>3, <2>4, FreshEdge
<1>10. CASE ListInstances(h)
  <2> DEFINE T == {t \in InstanceList : t[1] \in InstancesOf(req[h].image)}
             y == [req[h] EXCEPT !.pc = "next", !.todo = T]
  <2>1. req' = [req EXCEPT ![h] = y]
    BY <1>10, ReqTyped DEF ListInstances, Request
  <2>2. T \subseteq InstanceList
    OBVIOUS
  <2> HIDE DEF T
  <2>3. r.pc = "list" => Advances(r, y)
    BY <1>0, <2>2 DEF Advances, Request
  <2> HIDE DEF y
  <2> QED BY <1>10, <2>1, <2>3, SetFlow DEF ListInstances, At, Edge
<1>11. CASE NextInstance(h)
  <2>1. r.pc = "next" /\ r.op = "ImageDestroy"
    BY <1>11 DEF NextInstance, At
  <2>2. CASE r.todo = {}
    BY <1>11, <2>1, <2>2, GotoFlow, MovedEdge DEF NextInstance, Flow
  <2>3. CASE r.todo # {}
    <3>1. PICK t \in r.todo :
            req' = [req EXCEPT ![h].pc = "delrow", ![h].inst = t[1], ![h].todo = @ \ {t}]
      BY <1>11, <2>3 DEF NextInstance
    <3> DEFINE y == [req[h] EXCEPT !.pc = "delrow", !.inst = t[1], !.todo = req[h].todo \ {t}]
    <3>2. req' = [req EXCEPT ![h] = y]
      BY <3>1, ReqTyped DEF Request
    <3>3. Advances(r, y)
      BY <1>0, <2>1 DEF Advances, Request
    <3> HIDE DEF y
    <3> QED BY <2>1, <3>2, <3>3, SetFlow DEF Edge
  <2> QED BY <2>2, <2>3
<1>12. CASE ImageDeleteRow(h)
  <2>1. r.pc = "delimage" /\ r.op = "ImageDestroy" /\ r.image \in ImageId
    BY <1>0, <1>12 DEF ImageDeleteRow, At, Shape
  <2>2. CASE ImageReferenced(r.image)
    BY <1>12, <2>1, <2>2, ReplyFlow, AnswersEdge DEF ImageDeleteRow, Result
  <2>3. CASE ~ImageReferenced(r.image)
    <3>1. images'[r.image] = "none"
      BY <1>12, <2>1, <2>3 DEF ImageDeleteRow, DeleteImage, TypeInv, TypeOK, StoreTypeOK
    <3> QED BY <1>12, <2>1, <2>3, <3>1, GotoFlow, MovedEdge DEF ImageDeleteRow, Flow
  <2> QED BY <2>2, <2>3
<1>13. CASE RemoveSnapshot(h)
  BY <1>13, GotoFlow, MovedEdge DEF RemoveSnapshot, Flow
<1>14. CASE RemoveUpload(h)
  <2>1. r.pc = "rmupload" /\ r.op = "ImageDestroy" /\ r.image \in ImageId
    BY <1>0, <1>14 DEF RemoveUpload, Shape, Fits
  <2>2. CASE uploads[r.image] # "absent"
    <3>1. uploads'[r.image] = "absent"
      BY <1>14, <2>1, <2>2 DEF RemoveUpload, TypeInv, TypeOK
    <3> QED BY <1>14, <2>1, <2>2, <3>1, ScriptReplyFlow, AnswersEdge, GivesUpEdge
            DEF RemoveUpload, Result
  <2>3. CASE uploads[r.image] = "absent"
    BY <1>14, <2>1, <2>3, ScriptFailFlow, GivesUpEdge DEF RemoveUpload
  <2> QED BY <2>2, <2>3
<1> QED BY <1>1, <1>2, <1>3, <1>4, <1>5, <1>6, <1>7, <1>8, <1>9, <1>10, <1>11, <1>12, <1>13,
           <1>14 DEF ImageStep

LEMMA InstanceStepFlow ==
    ASSUME TypeInv, NEW h \in Proc, InstanceStep(h)
    PROVE  Only(h) /\ Edge(req[h], req'[h])
<1> DEFINE r == req[h]
           x == req'[h]
<1>0. r \in Request /\ Shape(r)
  BY ReqTyped
<1>1. CASE InstanceCreate(h)
  <2> DEFINE n(i, u) == New("Create", "port", u, i, 0)
             y(i, u) == CASE images[i] = "none"    -> Replied(n(i, u), 404)
                          [] images[i] = "unready" -> Replied(n(i, u), 422)
                          [] OTHER                 -> n(i, u)
  <2>1. PICK i \in ImageId, u \in User : req' = [req EXCEPT ![h] = y(i, u)]
    BY <1>1 DEF InstanceCreate
  <2>2. Fresh(n(i, u)) /\ Fresh(Replied(n(i, u), 404)) /\ Fresh(Replied(n(i, u), 422))
    BY NewFields DEF Fresh
  <2>3. Fresh(y(i, u))
    <3> HIDE DEF n
    <3> QED BY <2>2
  <2> HIDE DEF y
  <2>4. r.pc = "idle"
    BY <1>1 DEF InstanceCreate, Accepts
  <2> QED BY <2>1, <2>3, <2>4, FreshEdge
<1>2. CASE ChoosePort(h)
  <2>1. r.pc = "port"
    BY <1>2 DEF ChoosePort, At
  <2>2. CASE Fail(h)
    BY <2>1, <2>2, FailFlow DEF Edge
  <2>3. ASSUME NEW p \in Port \ UsedPorts, req' = [req EXCEPT ![h].pc = "insert", ![h].port = p]
        PROVE  Only(h) /\ Edge(r, x)
    <3> DEFINE y == [req[h] EXCEPT !.pc = "insert", !.port = p]
    <3>1. req' = [req EXCEPT ![h] = y]
      BY <2>3, ReqTyped DEF Request
    <3>2. PortChosen(r, y)
      BY <1>0, <2>1 DEF PortChosen, Request
    <3> HIDE DEF y
    <3> QED BY <2>1, <3>1, <3>2, SetFlow DEF Edge
  <2> QED BY <1>2, <2>2, <2>3 DEF ChoosePort
<1>3. CASE InsertRow(h)
  <2>1. r.pc = "insert"
    BY <1>3 DEF InsertRow, At
  <2>2. CASE ImageExists(r.image)
    <3>1. PICK n \in InstanceId :
            /\ InsertInstance(n, r.image, r.port, r.user)
            /\ req' = [req EXCEPT ![h].pc = "clone", ![h].inst = n]
      BY <1>3, <2>2 DEF InsertRow
    <3> DEFINE y == [req[h] EXCEPT !.pc = "clone", !.inst = n]
    <3>2. req' = [req EXCEPT ![h] = y]
      BY <3>1, ReqTyped DEF Request
    <3>3. instanceSeq' = instanceSeq + 1 /\ n = instanceSeq'
      BY <3>1 DEF InsertInstance
    <3>4. RowInserted(r, y)
      BY <1>0, <2>1, <3>3 DEF RowInserted, Request
    <3> HIDE DEF y
    <3> QED BY <2>1, <3>2, <3>4, SetFlow DEF Edge
  <2>3. CASE ~ImageExists(r.image)
    BY <1>3, <2>1, <2>3, ReplyFlow, AnswersEdge DEF InsertRow, Result
  <2> QED BY <2>2, <2>3
<1>4. CASE CloneSnapshot(h)
  BY <1>4, GotoFlow, ScriptFailFlow, MovedEdge, GivesUpEdge DEF CloneSnapshot, Flow
<1>5. CASE WriteCerts(h)
  BY <1>5, GotoFlow, ScriptFailFlow, MovedEdge, GivesUpEdge DEF WriteCerts, Flow
<1>6. CASE StartPostgres(h)
  BY <1>6, GotoFlow, ScriptFailFlow, MovedEdge, GivesUpEdge DEF StartPostgres, Flow
<1>7. CASE ValidateAndRestart(h)
  BY <1>7, ScriptGotoFlow, ScriptFailFlow, MovedEdge, GivesUpEdge
  DEF ValidateAndRestart, Flow
<1>8. CASE InstanceGet(h)
  <2> DEFINE n(m, u) == New("Get", "creds", u, 0, m)
             y(m, u) == IF InstanceExists(m) /\ instances[m].user = u
                          THEN n(m, u) ELSE Replied(n(m, u), 404)
  <2>1. PICK m \in InstanceId, u \in User : req' = [req EXCEPT ![h] = y(m, u)]
    BY <1>8 DEF InstanceGet
  <2>2. Fresh(n(m, u)) /\ Fresh(Replied(n(m, u), 404))
    BY NewFields DEF Fresh
  <2>3. Fresh(y(m, u))
    <3> HIDE DEF n
    <3> QED BY <2>2
  <2> HIDE DEF y
  <2>4. r.pc = "idle"
    BY <1>8 DEF InstanceGet, Accepts
  <2> QED BY <2>1, <2>3, <2>4, FreshEdge
<1>9. CASE RetrieveInstanceCredentials(h)
  BY <1>9, GotoFlow, ReplyFlow, MovedEdge, AnswersEdge
  DEF RetrieveInstanceCredentials, Flow, Result
<1>10. CASE WhitelistAddress(h)
  <2>1. r.pc = "whitelist" /\ (Fail(h) \/ Goto(h, "apply"))
    BY <1>10 DEF WhitelistAddress
  <2>2. CASE Fail(h)
    BY <2>1, <2>2, FailFlow DEF Edge
  <2>3. CASE Goto(h, "apply")
    BY <2>1, <2>3, GotoFlow, MovedEdge DEF Flow
  <2> QED BY <2>1, <2>2, <2>3
<1>11. CASE ApplyWhitelist(h)
  <2>1. r.pc = "apply" /\ r.op \in {"Create", "Get", "Destroy"}
    BY <1>0, <1>11 DEF ApplyWhitelist, Shape, Fits
  <2>2. PICK s : Reply(h, s) /\ Result(r, s)
    BY <1>11, <2>1 DEF ApplyWhitelist, Result
  <2> QED BY <2>1, <2>2, ReplyFlow, AnswersEdge
<1>12. CASE InstanceDestroy(h)
  <2> DEFINE n(m, u) == New("Destroy", "stop", u, 0, m)
             y(m, u) == IF InstanceExists(m) /\ u \in {Upload, instances[m].user}
                          THEN n(m, u) ELSE Replied(n(m, u), 404)
  <2>1. PICK m \in InstanceId, u \in User : req' = [req EXCEPT ![h] = y(m, u)]
    BY <1>12 DEF InstanceDestroy
  <2>2. Fresh(n(m, u)) /\ Fresh(Replied(n(m, u), 404))
    BY NewFields DEF Fresh
  <2>3. Fresh(y(m, u))
    <3> HIDE DEF n
    <3> QED BY <2>2
  <2> HIDE DEF y
  <2>4. r.pc = "idle"
    BY <1>12 DEF InstanceDestroy, Accepts
  <2> QED BY <2>1, <2>3, <2>4, FreshEdge
<1>13. CASE StopPostgres(h)
  BY <1>13, GotoFlow, MovedEdge DEF StopPostgres, Flow
<1>14. CASE RemoveDir(h)
  <2>1. r.pc = "rmdir"
    BY <1>14 DEF RemoveDir
  <2>2. \/ ScriptFail(h)
        \/ \E p \in {"next", "delrow"} : ScriptGoto(h, p)
    BY <1>14 DEF RemoveDir
  <2> QED BY <2>1, <2>2, ScriptGotoFlow, ScriptFailFlow, MovedEdge, GivesUpEdge DEF Flow
<1>15. CASE DeleteRow(h)
  <2>1. r.pc = "delrow" /\ r.op \in {"Destroy", "Clean", "ImageDestroy"}
    BY <1>0, <1>15 DEF DeleteRow, Shape, Fits
  <2>2. instances'[r.inst] = NoRow
    BY <1>0, <1>15, <2>1 DEF DeleteRow, DeleteInstance, Shape, Fits, TypeInv, TypeOK, StoreTypeOK
  <2>3. PICK p : Goto(h, p) /\ Flow(r, p)
    BY <1>15, <2>1, <2>2 DEF DeleteRow, Flow
  <2> QED BY <2>1, <2>3, GotoFlow, MovedEdge
<1> QED BY <1>1, <1>2, <1>3, <1>4, <1>5, <1>6, <1>7, <1>8, <1>9, <1>10, <1>11, <1>12, <1>13,
           <1>14, <1>15 DEF InstanceStep

FaultOf(h) ==
    \/ ScriptFault(h) \/ StatementFault(h) \/ Unacknowledged(h)
    \/ CreateUnacknowledged(h) \/ TruncatedList(h) \/ Disconnect(h)

(* The errors of statements, with or without their effect. *)
LEMMA ErrorEdge ==
    ASSUME NEW r \in Request, Shape(r), r.pc \in ServerPc
    PROVE  Edge(r, OnStatementError(r))
<1>1. Fails(r, Failed(r)) /\ Answers(r, Replied(r, 200), 200)
      /\ Moved(r, [r EXCEPT !.pc = "next"], "next")
  BY FailsRecord, AnswersRecord, MovedRecord
<1>2. r.pc \in {"insert", "delimage"} => Result(r, 200)
  BY DEF Result, Shape, Fits
<1>3. Edge(r, Failed(r))
  BY <1>1 DEF Edge, ServerPc
<1>4. r.pc \in {"insert", "delimage"} => Edge(r, Replied(r, 200))
  BY <1>1, <1>2, AnswersEdge
<1>5. r.pc = "list" => Edge(r, [r EXCEPT !.pc = "next"])
  BY <1>1, MovedEdge DEF Flow
<1> QED BY <1>3, <1>4, <1>5 DEF OnStatementError

LEMMA TruncatedFlow ==
    ASSUME TypeInv, NEW h \in Proc, TruncatedList(h)
    PROVE  Only(h) /\ Edge(req[h], req'[h])
<1> DEFINE r == req[h]
<1>0. r \in Request
  BY ReqTyped
<1>1. ASSUME r.pc = "port", NEW p \in Port,
             req' = [req EXCEPT ![h] = [req[h] EXCEPT !.pc = "insert", !.port = p]]
      PROVE  Only(h) /\ Edge(r, req'[h])
  <2> DEFINE y == [req[h] EXCEPT !.pc = "insert", !.port = p]
  <2>1. PortChosen(r, y)
    BY <1>0, <1>1 DEF PortChosen, Request
  <2> HIDE DEF y
  <2>2. req' = [req EXCEPT ![h] = y]
    BY <1>1 DEF y
  <2> QED BY <1>1, <2>1, <2>2, SetFlow DEF Edge
<1>2. ASSUME r.pc = "list", NEW s \in SUBSET InstanceList,
             req' = [req EXCEPT ![h] = [req[h] EXCEPT !.pc = "next", !.todo = s]]
      PROVE  Only(h) /\ Edge(r, req'[h])
  <2> DEFINE y == [req[h] EXCEPT !.pc = "next", !.todo = s]
  <2>1. Advances(r, y)
    BY <1>0, <1>2 DEF Advances, Request
  <2> HIDE DEF y
  <2>2. req' = [req EXCEPT ![h] = y]
    BY <1>2 DEF y
  <2> QED BY <1>2, <2>1, <2>2, SetFlow DEF Edge
<1>3. ASSUME r.pc = "idle", NEW s \in SUBSET InstanceList,
             req' = [req EXCEPT ![h] = [New("Clean", "next", Upload, 0, 0) EXCEPT !.todo = s]]
      PROVE  Only(h) /\ Edge(r, req'[h])
  <2> DEFINE y == [New("Clean", "next", Upload, 0, 0) EXCEPT !.todo = s]
  <2>1. Fresh(y)
    BY DEF Fresh, New
  <2> HIDE DEF y
  <2>2. req' = [req EXCEPT ![h] = y]
    BY <1>3 DEF y
  <2> QED BY <1>3, <2>1, <2>2, FreshEdge
<1> QED BY <1>1, <1>2, <1>3, CutShort DEF At

(* A step of the cleaner, an answer that is sent, and every failure but a  *)
(* crash.                                                                  *)
LEMMA OtherFlow ==
    ASSUME TypeInv, NEW h \in Proc,
           \/ h = Cleaner /\ CleanerStep
           \/ Finish(h) \/ FaultOf(h)
    PROVE  Only(h) /\ Edge(req[h], req'[h])
<1> DEFINE r == req[h]
           x == req'[h]
<1>0. r \in Request /\ Shape(r)
  BY ReqTyped
<1>1. CASE h = Cleaner /\ Clean
  <2> DEFINE y == [New("Clean", "next", Upload, 0, 0) EXCEPT !.todo = InstanceList]
  <2>1. req' = [req EXCEPT ![h] = y] /\ r.pc = "idle"
    BY <1>1 DEF Clean
  <2>2. Fresh(y)
    BY DEF Fresh, New
  <2> HIDE DEF y
  <2> QED BY <2>1, <2>2, FreshEdge
<1>2. CASE h = Cleaner /\ CheckToken
  <2> DEFINE rest(t) == [req[Cleaner] EXCEPT !.todo = req[Cleaner].todo \ {t}]
             doomed(t) == [rest(t) EXCEPT !.pc = "stop", !.inst = t[1]]
  <2>0. CheckToken /\ h = Cleaner
    BY <1>2
  <2>1. r.pc = "next" /\ r.op = "Clean"
    BY <2>0 DEF CheckToken, At
  <2>2. PICK t \in req[Cleaner].todo : \/ req' = [req EXCEPT ![Cleaner] = rest(t)]
                                       \/ req' = [req EXCEPT ![Cleaner] = doomed(t)]
    BY <2>0 DEF CheckToken
  <2>3. Advances(r, rest(t)) /\ Advances(r, doomed(t))
    BY <1>0, <2>0, <2>1 DEF Advances, Request
  <2> HIDE DEF rest, doomed
  <2> QED BY <2>0, <2>1, <2>2, <2>3, SetFlow DEF Edge
<1>3. CASE h = Cleaner /\ CleanEnd
  BY <1>3, SetFlow DEF CleanEnd, At, Edge
<1>4. CASE Finish(h)
  BY <1>4, SetFlow DEF Finish, Edge
<1>5. CASE ScriptFault(h)
  <2>1. r.pc # "idle" /\ (ScriptFail(h) \/ (r.pc = "stop" /\ Goto(h, "rmdir")))
    BY <1>5 DEF ScriptFault, ScriptPc, CtxPc, DetachedPc
  <2> QED BY <2>1, GotoFlow, ScriptFailFlow, MovedEdge, GivesUpEdge DEF Flow
<1>6. CASE StatementFault(h)
  <2>1. r.pc \in ServerPc /\ req' = [req EXCEPT ![h] = OnStatementError(r)]
    BY <1>6 DEF StatementFault
  <2> QED BY <1>0, <2>1, ErrorEdge, SetFlow
<1>8. CASE Unacknowledged(h)
  <2>1. r.pc \in ServerPc /\ req' = [req EXCEPT ![h] = OnStatementError(r)]
    BY <1>8, LostAnswer DEF TakesEffect, ServerPc
  <2> QED BY <1>0, <2>1, ErrorEdge, SetFlow
<1>9. CASE CreateUnacknowledged(h)
  <2> DEFINE y(i) == Replied(New("ImageCreate", "mkvol", Upload, i, 0), 500)
  <2>1. PICK i \in ImageId : req' = [req EXCEPT ![h] = y(i)]
    BY <1>9 DEF CreateUnacknowledged
  <2>2. Fresh(y(i))
    BY NewFields DEF Fresh
  <2> HIDE DEF y
  <2>3. r.pc = "idle"
    BY <1>9 DEF CreateUnacknowledged, Accepts
  <2> QED BY <2>1, <2>2, <2>3, FreshEdge
<1>10. CASE TruncatedList(h)
  BY <1>10, TruncatedFlow
<1>7. CASE Disconnect(h)
  <2>1. r.pc # "idle"
    BY <1>7 DEF Disconnect, CtxPc
  <2>2. CASE Fail(h)
    BY <2>1, <2>2, FailFlow DEF Edge
  <2>3. CASE req' = [req EXCEPT ![h].parent = "killed"]
    <3> DEFINE y == [r EXCEPT !.parent = "killed"]
    <3>1. req' = [req EXCEPT ![h] = y]
      BY <2>3, ReqTyped
    <3>2. Same(r, y) /\ y.pc = r.pc /\ y.status = r.status /\ y.parent = "killed"
      BY <1>0 DEF Same, Request
    <3> HIDE DEF y
    <3>3. faults' = faults + 1
      BY <1>7 DEF Disconnect
    <3> QED BY <2>1, <3>1, <3>2, <3>3, SetFlow DEF Edge
  <2> QED BY <1>7, <2>2, <2>3 DEF Disconnect
<1> QED BY <1>1, <1>2, <1>3, <1>4, <1>5, <1>6, <1>7, <1>8, <1>9, <1>10 DEF CleanerStep, FaultOf

(* A crash leaves scripts without their parent, and nothing else. *)
Orphan(r, x) ==
    \/ x = Idle
    \/ Same(r, x) /\ x.pc = r.pc /\ x.pc \in ScriptPc /\ x.status = r.status /\ x.parent = "gone"

LEMMA CrashFlow ==
    ASSUME TypeInv, Crash
    PROVE  \A g \in Proc : Orphan(req[g], req'[g])
<1> SUFFICES ASSUME NEW g \in Proc PROVE Orphan(req[g], req'[g])
  OBVIOUS
<1>1. CASE req[g].pc \in ScriptPc
  <2>1. req'[g] = [req[g] EXCEPT !.parent = "gone"]
    BY <1>1 DEF Crash
  <2> QED BY <1>1, <2>1, ReqTyped DEF Orphan, Same, Request
<1>2. CASE req[g].pc \notin ScriptPc
  BY <1>2 DEF Crash, Orphan
<1> QED BY <1>1, <1>2

(* The flow of every request in every step. *)
LEMMA NextFlow ==
    ASSUME TypeInv, Next
    PROVE  \A g \in Proc :
              \/ req'[g] = req[g]
              \/ Edge(req[g], req'[g])
              \/ Orphan(req[g], req'[g]) /\ Crash
<1>1. CASE Crash
  BY <1>1, CrashFlow
<1>2. CASE \E u \in User : Revoke(u)
  BY <1>2 DEF Revoke
<1>3. ASSUME NEW h \in Proc, Only(h) /\ Edge(req[h], req'[h])
      PROVE  \A g \in Proc : req'[g] = req[g] \/ Edge(req[g], req'[g])
  BY <1>3 DEF Only
<1>4. CASE \E h \in Proc : ImageStep(h) \/ InstanceStep(h) \/ Finish(h) \/ FaultOf(h)
  BY <1>3, <1>4, ImageStepFlow, InstanceStepFlow, OtherFlow
<1>5. CASE CleanerStep
  BY <1>3, <1>5, OtherFlow DEF Proc
<1> QED BY <1>1, <1>2, <1>4, <1>5 DEF Next, Fault, FaultOf

-----------------------------------------------------------------------------
(***************************************************************************)
(* Which steps write which data.                                           *)
(***************************************************************************)
LEMMA ImageStepWrites ==
    ASSUME NEW h \in Proc, ImageStep(h)
    PROVE  /\ UNCHANGED <<instances, instanceSeq, dirs, pg, faults>>
           /\ \/ UNCHANGED <<images, imageSeq>>
              \/ ImageCreate(h) \/ ImageMarkReady(h) \/ ImageDeleteRow(h)
           /\ \/ UNCHANGED uploads
              \/ CreateBtrfsSubvolume(h) \/ BootImage(h) \/ MarkStarted(h) \/ SealImage(h)
              \/ RemoveUpload(h)
BY DEF ImageStep, ImageCreate, CreateBtrfsSubvolume, ImageDone, BootImage, MarkStarted,
       SealImage, SnapshotImage, ImageMarkReady, ImageDestroy, ListInstances, NextInstance,
       ImageDeleteRow, RemoveSnapshot, RemoveUpload, tables, imageTable, instanceTable, disk

LEMMA InstanceStepWrites ==
    ASSUME NEW h \in Proc, InstanceStep(h)
    PROVE  /\ UNCHANGED <<images, imageSeq, uploads, snapshots, faults>>
           /\ UNCHANGED <<instances, instanceSeq>> \/ InsertRow(h) \/ DeleteRow(h)
           /\ UNCHANGED dirs \/ CloneSnapshot(h) \/ WriteCerts(h) \/ RemoveDir(h)
           /\ \/ UNCHANGED pg
              \/ StartPostgres(h) \/ ValidateAndRestart(h) \/ StopPostgres(h)
BY DEF InstanceStep, InstanceCreate, ChoosePort, InsertRow, CloneSnapshot, WriteCerts,
       StartPostgres, ValidateAndRestart, InstanceGet, RetrieveInstanceCredentials,
       WhitelistAddress, ApplyWhitelist, InstanceDestroy, StopPostgres, RemoveDir, DeleteRow,
       tables, imageTable, instanceTable, disk

LEMMA OtherWrites ==
    ASSUME \/ CleanerStep \/ \E u \in User : Revoke(u)
           \/ (\E h \in Proc : Finish(h)) \/ Fault
    PROVE  /\ UNCHANGED <<uploads, snapshots, dirs>>
           /\ \/ UNCHANGED <<images, imageSeq, instances, instanceSeq>>
              \/ \E h \in Proc : Unacknowledged(h) \/ CreateUnacknowledged(h)
           /\ \/ UNCHANGED <<pg, faults>>
              \/ faults' = faults + 1
BY DEF CleanerStep, Clean, CheckToken, CleanEnd, Revoke, Finish, Fault, ScriptFault,
       StatementFault, Unacknowledged, CreateUnacknowledged, TruncatedList, Disconnect, Crash,
       tables, imageTable, instanceTable, disk

(* What is there is changed, made and removed by the requests whose turn   *)
(* it is.                                                                  *)
DataFlow ==
    /\ instanceSeq <= instanceSeq'
    /\ imageSeq <= imageSeq'
    /\ \A n \in InstanceId :
         /\ dirs'[n] = "bare" /\ dirs[n] # "bare" => CloneDue(n)
         /\ dirs'[n] # "absent" /\ dirs[n] = "absent" => CloneDue(n)
         /\ instances'[n] # NoRow => instances'[n] = instances[n] \/ n > instanceSeq
    /\ \A i \in ImageId :
         /\ images'[i] # "none" /\ images[i] = "none" => i > imageSeq
         /\ images'[i] = "unready" /\ images[i] # "unready" => i > imageSeq
         /\ uploads'[i] = "absent" /\ uploads[i] # "absent"
              => \E h \in Proc : req[h].pc = "rmupload" /\ req[h].image = i
         /\ uploads'[i] # "absent" /\ uploads[i] = "absent"
              => \E h \in Proc : /\ req[h].pc = "mkvol" /\ req'[h].pc # "mkvol"
                                 /\ req[h].image = i

LEMMA NextData ==
    ASSUME TypeInv, Next
    PROVE  DataFlow
<1>0. /\ imageSeq \in Nat /\ instanceSeq \in Nat
      /\ uploads \in [ImageId -> UploadState] /\ dirs \in [InstanceId -> DirState]
      /\ images \in [ImageId -> {"none", "unready", "ready"}]
      /\ instances \in [InstanceId -> InstanceRow \cup {NoRow}]
  BY StoreAssumption DEF TypeInv, TypeOK, StoreTypeOK
<1>1. CASE UNCHANGED <<images, imageSeq, instances, instanceSeq, uploads, dirs>>
  BY <1>0, <1>1 DEF DataFlow
<1>2. ASSUME NEW h \in Proc, ImageStep(h) PROVE DataFlow
  <2>0. UNCHANGED <<instances, instanceSeq, dirs>>
    BY <1>2, ImageStepWrites
  <2>1. /\ imageSeq <= imageSeq'
        /\ \A i \in ImageId :
             /\ images'[i] # "none" /\ images[i] = "none" => i > imageSeq
             /\ images'[i] = "unready" /\ images[i] # "unready" => i > imageSeq
    <3>1. CASE UNCHANGED <<images, imageSeq>>
      BY <1>0, <3>1
    <3>2. CASE ImageCreate(h)
      BY <1>0, <3>2 DEF ImageCreate, InsertImage, ImageId
    <3>3. CASE ImageMarkReady(h)
      BY <1>0, <3>3 DEF ImageMarkReady, MarkAsReady, CanMarkAsReady, imageTable
    <3>4. CASE ImageDeleteRow(h)
      BY <1>0, <3>4 DEF ImageDeleteRow, DeleteImage, imageTable
    <3> QED BY <1>2, <3>1, <3>2, <3>3, <3>4, ImageStepWrites
  <2>2. \A i \in ImageId :
             /\ uploads'[i] = "absent" /\ uploads[i] # "absent"
                  => \E g \in Proc : req[g].pc = "rmupload" /\ req[g].image = i
             /\ uploads'[i] # "absent" /\ uploads[i] = "absent"
                  => \E g \in Proc : /\ req[g].pc = "mkvol" /\ req'[g].pc # "mkvol"
                                     /\ req[g].image = i
    <3>1. CASE CreateBtrfsSubvolume(h)
      <4>1. req[h].op = "ImageCreate"
        BY <3>1, ReqTyped DEF CreateBtrfsSubvolume, Shape, Fits
      <4>2. req'[h].pc # "mkvol"
        BY <3>1, <4>1, ScriptReplyFlow, ScriptFailFlow
        DEF CreateBtrfsSubvolume, Answers, GivesUp, Fails, Idle, New
      <4>3. \A i \in ImageId : uploads'[i] = uploads[i] \/ (i = req[h].image /\ uploads'[i] = "raw")
        BY <1>0, <3>1 DEF CreateBtrfsSubvolume
      <4> QED BY <3>1, <4>2, <4>3 DEF CreateBtrfsSubvolume
    <3>2. CASE BootImage(h) \/ MarkStarted(h) \/ SealImage(h)
      BY <1>0, <3>2 DEF BootImage, MarkStarted, SealImage
    <3>3. CASE RemoveUpload(h)
      BY <1>0, <3>3 DEF RemoveUpload
    <3> QED BY <1>2, <3>1, <3>2, <3>3, ImageStepWrites
  <2> QED BY <1>0, <2>0, <2>1, <2>2 DEF DataFlow
<1>3. ASSUME NEW h \in Proc, InstanceStep(h) PROVE DataFlow
  <2>0. UNCHANGED <<images, imageSeq, uploads>>
    BY <1>3, InstanceStepWrites
  <2>1. /\ instanceSeq <= instanceSeq'
        /\ \A n \in InstanceId :
              instances'[n] # NoRow => instances'[n] = instances[n] \/ n > instanceSeq
    <3>1. CASE UNCHANGED <<instances, instanceSeq>>
      BY <1>0, <3>1
    <3>2. CASE InsertRow(h)
      BY <1>0, <3>2 DEF InsertRow, InsertInstance, instanceTable
    <3>3. CASE DeleteRow(h)
      BY <1>0, <3>3 DEF DeleteRow, DeleteInstance
    <3> QED BY <1>3, <3>1, <3>2, <3>3, InstanceStepWrites
  <2>2. \A n \in InstanceId :
           /\ dirs'[n] = "bare" /\ dirs[n] # "bare" => CloneDue(n)
           /\ dirs'[n] # "absent" /\ dirs[n] = "absent" => CloneDue(n)
    <3>1. CASE CloneSnapshot(h)
      BY <1>0, <3>1 DEF CloneSnapshot, CloneDue
    <3>2. CASE WriteCerts(h) \/ RemoveDir(h)
      BY <1>0, <3>2 DEF WriteCerts, RemoveDir
    <3> QED BY <1>3, <3>1, <3>2, InstanceStepWrites
  <2> QED BY <1>0, <2>0, <2>1, <2>2 DEF DataFlow
<1>4. ASSUME NEW h \in Proc, Unacknowledged(h) PROVE DataFlow
  <2>1. TakesEffect(req[h]) /\ UNCHANGED <<uploads, dirs>>
    BY <1>4 DEF Unacknowledged, disk
  <2>2. CASE MarkAsReady(req[h].image) /\ UNCHANGED instanceTable
    BY <1>0, <2>1, <2>2 DEF MarkAsReady, CanMarkAsReady, instanceTable, DataFlow
  <2>3. CASE DeleteImage(req[h].image) /\ UNCHANGED instanceTable
    BY <1>0, <2>1, <2>3 DEF DeleteImage, instanceTable, DataFlow
  <2>4. CASE (\E n \in InstanceId :
                InsertInstance(n, req[h].image, req[h].port, req[h].user))
             /\ UNCHANGED imageTable
    BY <1>0, <2>1, <2>4 DEF InsertInstance, imageTable, DataFlow
  <2>5. CASE UNCHANGED <<imageTable, instanceTable>>
    BY <1>0, <2>1, <2>5 DEF imageTable, instanceTable, DataFlow
  <2>6. CASE DeleteInstance(req[h].inst) /\ UNCHANGED imageTable
    BY <1>0, <2>1, <2>6 DEF DeleteInstance, imageTable, DataFlow
  <2> QED BY <2>1, <2>2, <2>3, <2>4, <2>5, <2>6 DEF TakesEffect
<1>5. ASSUME NEW h \in Proc, CreateUnacknowledged(h) PROVE DataFlow
  BY <1>0, <1>5 DEF CreateUnacknowledged, InsertImage, ImageId, instanceTable, disk, DataFlow
<1> QED BY <1>1, <1>2, <1>3, <1>4, <1>5, OtherWrites DEF Next

-----------------------------------------------------------------------------
(***************************************************************************)
(* What lasts.  Each of these holds of an image or an instance for good    *)
(* once it holds: whatever anybody does, ids are not handed out twice, and *)
(* only the request that has made an image or an instance brings its       *)
(* directory into being.                                                   *)
(***************************************************************************)
NoClone(n) == \A g \in Proc : req[g].pc = "clone" => req[g].inst # n
NoVolume(i) == \A g \in Proc : req[g].pc = "mkvol" => req[g].image # i

Made(n) == n \in InstanceId /\ n <= instanceSeq /\ dirs[n] # "bare" /\ NoClone(n)

Removed(n) ==
    /\ n \in InstanceId /\ n <= instanceSeq
    /\ instances[n] = NoRow /\ dirs[n] = "absent" /\ NoClone(n)

Uploaded(i) ==
    /\ i \in ImageId /\ i <= imageSeq
    /\ uploads[i] # "absent" \/ images[i] = "none"

Finalised(i) == i \in ImageId /\ i <= imageSeq /\ images[i] # "unready"

ImageRemoved(i) ==
    /\ i \in ImageId /\ i <= imageSeq
    /\ images[i] = "none" /\ uploads[i] = "absent" /\ NoVolume(i)

(* The success a request has come to, or is sure of. *)
Settled(r) ==
    \/ r.op \in {"Create", "Get"} /\ r.pc \in {"whitelist", "apply"}
    \/ r.op = "Create" /\ r.pc = "reply" /\ r.status = 201
    \/ r.op = "Get" /\ r.pc = "reply" /\ r.status = 200

AnsweredWith(r, op, s) == r.op = op /\ r.pc = "reply" /\ r.status = s

AnswerReq(r) ==
    /\ Settled(r) => Made(r.inst)
    /\ AnsweredWith(r, "ImageCreate", 201) => Uploaded(r.image)
    /\ AnsweredWith(r, "ImageDone", 200) => Finalised(r.image)
    /\ AnsweredWith(r, "ImageDestroy", 204) => ImageRemoved(r.image)
    /\ r.pc = "mkvol" => r.image <= imageSeq /\ uploads[r.image] = "absent"
    /\ r.pc \in {"rmsnap", "rmupload"} => r.image <= imageSeq /\ images[r.image] = "none"

VolumesDistinct ==
    \A g, h \in Proc : g # h /\ req[g].pc = "mkvol" /\ req[h].pc = "mkvol"
                           => req[g].image # req[h].image

AnswerInv ==
    /\ \A h \in Proc : AnswerReq(req[h])
    /\ \A i \in ImageId : uploads[i] # "absent" => i <= imageSeq
    /\ VolumesDistinct

(* Who may be about to clone, or to create a subvolume, after a step. *)
LEMMA CloneEdge ==
    ASSUME NEW r, NEW x, Edge(r, x), x.pc = "clone"
    PROVE  (r.pc = "clone" /\ x.inst = r.inst) \/ x.inst = instanceSeq + 1
BY DEF Edge, Fresh, Fails, Moved, Flow, Answers, Same, Advances, PortChosen, RowInserted,
       Idle, New

LEMMA VolumeEdge ==
    ASSUME NEW r, NEW x, Edge(r, x), x.pc = "mkvol"
    PROVE  (r.pc = "mkvol" /\ x.image = r.image)
           \/ (x.image = imageSeq + 1 /\ imageSeq' = imageSeq + 1 /\ r.pc = "idle")
BY DEF Edge, Fresh, Fails, Moved, Flow, Answers, Same, Advances, PortChosen, RowInserted,
       Idle, New

LEMMA NextClones ==
    ASSUME TypeInv, Next, NEW g \in Proc, req'[g].pc = "clone"
    PROVE  (req[g].pc = "clone" /\ req'[g].inst = req[g].inst) \/ req'[g].inst = instanceSeq + 1
<1>1. CASE Orphan(req[g], req'[g])
  BY <1>1 DEF Orphan, Same, Idle, New
<1> QED BY <1>1, NextFlow, CloneEdge

LEMMA NextVolumes ==
    ASSUME TypeInv, Next, NEW g \in Proc, req'[g].pc = "mkvol"
    PROVE  (req[g].pc = "mkvol" /\ req'[g].image = req[g].image)
           \/ (req'[g].image = imageSeq + 1 /\ imageSeq' = imageSeq + 1 /\ req[g].pc = "idle")
<1>1. CASE Orphan(req[g], req'[g])
  BY <1>1 DEF Orphan, Same, Idle, New
<1> QED BY <1>1, NextFlow, VolumeEdge

LEMMA InstanceFactsLast ==
    ASSUME TypeInv, Next, NEW n
    PROVE  (Made(n) => Made(n)') /\ (Removed(n) => Removed(n)')
<1>1. instanceSeq \in Nat /\ instanceSeq' \in Nat /\ instanceSeq <= instanceSeq'
  BY NextTypes, NextData, StoreAssumption DEF TypeInv, TypeOK, StoreTypeOK, DataFlow
<1>2. ASSUME n \in InstanceId, n <= instanceSeq, NoClone(n) PROVE NoClone(n)' /\ n <= instanceSeq'
  <2>1. n \in Nat
    BY <1>2 DEF InstanceId
  <2>2. NoClone(n)'
    BY <1>1, <1>2, <2>1, NextClones DEF NoClone
  <2> QED BY <1>1, <1>2, <2>1, <2>2
<1>3. ASSUME n \in InstanceId, n <= instanceSeq, NoClone(n)
      PROVE  /\ dirs[n] # "bare" => dirs'[n] # "bare"
             /\ dirs[n] = "absent" => dirs'[n] = "absent"
             /\ instances[n] = NoRow => instances'[n] = NoRow
  <2>1. n \in Nat /\ ~CloneDue(n)
    BY <1>3 DEF InstanceId, NoClone, CloneDue
  <2> QED BY <1>1, <1>3, <2>1, NextData DEF DataFlow
<1> QED BY <1>2, <1>3 DEF Made, Removed

LEMMA ImageFactsLast ==
    ASSUME TypeInv, AnswerInv, Next, NEW i
    PROVE  /\ Uploaded(i) => Uploaded(i)'
           /\ Finalised(i) => Finalised(i)'
           /\ ImageRemoved(i) => ImageRemoved(i)'
<1>1. imageSeq \in Nat /\ imageSeq' \in Nat /\ imageSeq <= imageSeq'
  BY NextTypes, NextData, StoreAssumption DEF TypeInv, TypeOK, StoreTypeOK, DataFlow
<1> SUFFICES ASSUME i \in ImageId, i <= imageSeq
             PROVE  /\ Uploaded(i) => Uploaded(i)'
                    /\ Finalised(i) => Finalised(i)'
                    /\ ImageRemoved(i) => ImageRemoved(i)'
  BY DEF Uploaded, Finalised, ImageRemoved
<1>2. i \in Nat /\ i <= imageSeq'
  BY <1>1 DEF ImageId
<1>3. images[i] = "none" => images'[i] = "none"
  BY <1>1, <1>2, NextData DEF DataFlow
<1>4. images[i] # "unready" => images'[i] # "unready"
  BY <1>1, <1>2, NextData DEF DataFlow
<1>5. uploads[i] # "absent" => uploads'[i] # "absent" \/ images[i] = "none"
  BY NextData DEF DataFlow, AnswerInv, AnswerReq
<1>6. NoVolume(i) => NoVolume(i)'
  BY <1>1, <1>2, NextVolumes DEF NoVolume
<1>7. NoVolume(i) /\ uploads[i] = "absent" => uploads'[i] = "absent"
  BY NextData DEF DataFlow, NoVolume
<1> QED BY <1>2, <1>3, <1>4, <1>5, <1>6, <1>7 DEF Uploaded, Finalised, ImageRemoved

LEMMA NextOnly ==
    ASSUME TypeInv, Next, ~Crash
    PROVE  \E h \in Proc : Only(h)
<1>1. Cleaner \in Proc
  BY DEF Proc
<1>2. CASE \E u \in User : Revoke(u)
  BY <1>1, <1>2 DEF Revoke, Only
<1>3. CASE CleanerStep
  BY <1>1, <1>3, OtherFlow
<1>4. CASE \E h \in Proc : ImageStep(h) \/ InstanceStep(h) \/ Finish(h) \/ FaultOf(h)
  BY <1>4, ImageStepFlow, InstanceStepFlow, OtherFlow
<1> QED BY <1>2, <1>3, <1>4 DEF Next, Fault, FaultOf

(* Where a success comes from. *)
LEMMA SettledEdge ==
    ASSUME NEW r, NEW x, Edge(r, x), Settled(x)
    PROVE  /\ x.inst = r.inst
           /\ Settled(r) \/ (r.pc = "creds" /\ dirs[r.inst] = "certs")
BY DEF Edge, Fresh, Fails, Moved, Flow, Answers, Result, Same, Advances, PortChosen,
       RowInserted, Idle, New, Settled, Aborted

LEMMA ImageEdge ==
    ASSUME NEW r, NEW x, Edge(r, x)
    PROVE  /\ AnsweredWith(x, "ImageCreate", 201)
                => /\ x.image = r.image
                   /\ \/ AnsweredWith(r, "ImageCreate", 201)
                      \/ r.pc = "mkvol" /\ uploads'[r.image] # "absent"
           /\ AnsweredWith(x, "ImageDone", 200)
                => \/ images[x.image] = "ready"
                   \/ x.image = r.image /\ AnsweredWith(r, "ImageDone", 200)
                   \/ x.image = r.image /\ r.pc = "markready" /\ images'[r.image] = "ready"
           /\ AnsweredWith(x, "ImageDestroy", 204)
                => /\ x.image = r.image
                   /\ \/ AnsweredWith(r, "ImageDestroy", 204)
                      \/ /\ r.pc = "rmupload"
                         /\ uploads[r.image] # "absent" /\ uploads'[r.image] = "absent"
           /\ x.pc \in {"rmsnap", "rmupload"}
                => /\ x.image = r.image
                   /\ r.pc \in {"rmsnap", "rmupload"} \/ images'[r.image] = "none"
BY DEF Edge, Fresh, Fails, Moved, Flow, Answers, Result, Same, Advances, PortChosen,
       RowInserted, Idle, New, AnsweredWith, Aborted

LEMMA StepAnswerReq ==
    ASSUME TypeInv, ImageInv, InstanceInv, AnswerInv, Next, NEW g \in Proc
    PROVE  AnswerReq(req[g])'
<1> DEFINE r == req[g]
           x == req'[g]
<1>0. /\ r \in Request /\ Shape(r) /\ AnswerReq(r) /\ ImageReq(r)
      /\ x \in Request /\ Shape(x)
      /\ x.pc \notin {"idle", "reply"} => x.image <= imageSeq'
  <2>1. TypeInv' /\ ImageInv'
    BY NextTypes, NextImage
  <2> QED BY <2>1 DEF TypeInv, TypeOK, AnswerInv, ImageInv, ImageReq
<1>1. imageSeq \in Nat /\ imageSeq' \in Nat /\ imageSeq <= imageSeq'
  BY NextTypes, NextData, StoreAssumption DEF TypeInv, TypeOK, StoreTypeOK, DataFlow
<1>2. x = r \/ Edge(r, x) \/ Orphan(r, x)
  BY NextFlow
<1>3. ASSUME Settled(x) PROVE Made(req[g].inst)'
  <2>1. x.inst = r.inst /\ (Settled(r) \/ (r.pc = "creds" /\ dirs[r.inst] = "certs"))
    <3>1. CASE x = r
      BY <1>3, <3>1
    <3>2. CASE Edge(r, x)
      BY <1>3, <3>2, SettledEdge
    <3>3. CASE Orphan(r, x)
      BY <1>3, <3>3 DEF Orphan, Settled, ScriptPc, CtxPc, DetachedPc, Idle, New
    <3> QED BY <1>2, <3>1, <3>2, <3>3
  <2>2. CASE Settled(r)
    BY <1>0, <2>1, <2>2, InstanceFactsLast DEF AnswerReq
  <2>3. CASE r.pc = "creds" /\ dirs[r.inst] = "certs"
    <3>1. r.inst \in InstanceId
      BY <1>0, <2>3 DEF Shape, Fits
    <3>2. Made(r.inst)
      BY <2>3, <3>1 DEF Made, NoClone, InstanceInv, InstanceReq
    <3> QED BY <2>1, <3>2, InstanceFactsLast
  <2> QED BY <2>1, <2>2, <2>3
<1>4. ASSUME AnsweredWith(x, "ImageCreate", 201) PROVE Uploaded(req[g].image)'
  <2>1. /\ x.image = r.image
        /\ \/ AnsweredWith(r, "ImageCreate", 201)
           \/ r.pc = "mkvol" /\ uploads'[r.image] # "absent"
    <3>1. CASE Orphan(r, x)
      BY <1>4, <3>1 DEF Orphan, AnsweredWith, ScriptPc, CtxPc, DetachedPc, Idle, New
    <3> QED BY <1>2, <1>4, <3>1, ImageEdge
  <2>2. CASE AnsweredWith(r, "ImageCreate", 201)
    BY <1>0, <2>1, <2>2, ImageFactsLast DEF AnswerReq
  <2>3. CASE r.pc = "mkvol" /\ uploads'[r.image] # "absent"
    <3>1. r.image \in ImageId /\ r.image \in Nat /\ r.image <= imageSeq
      BY <1>0, <2>3 DEF Shape, Fits, AnswerReq, ImageId
    <3> QED BY <1>1, <2>1, <2>3, <3>1 DEF Uploaded
  <2> QED BY <2>1, <2>2, <2>3
<1>5. ASSUME AnsweredWith(x, "ImageDone", 200) PROVE Finalised(req[g].image)'
  <2>1. \/ images[x.image] = "ready"
        \/ x.image = r.image /\ AnsweredWith(r, "ImageDone", 200)
        \/ x.image = r.image /\ r.pc = "markready" /\ images'[r.image] = "ready"
    <3>1. CASE Orphan(r, x)
      BY <1>5, <3>1 DEF Orphan, AnsweredWith, ScriptPc, CtxPc, DetachedPc, Idle, New
    <3> QED BY <1>2, <1>5, <3>1, ImageEdge
  <2>2. x.image \in ImageId /\ x.image \in Nat
    BY <1>0, <1>5 DEF AnsweredWith, Shape, ImageId
  <2>3. CASE images[x.image] = "ready"
    <3>1. Finalised(x.image)
      BY <2>2, <2>3 DEF Finalised, ImageInv
    <3> QED BY <3>1, ImageFactsLast
  <2>4. CASE x.image = r.image /\ AnsweredWith(r, "ImageDone", 200)
    BY <1>0, <2>4, ImageFactsLast DEF AnswerReq
  <2>5. CASE x.image = r.image /\ r.pc = "markready" /\ images'[r.image] = "ready"
    <3>1. r.image <= imageSeq
      BY <1>0, <2>5 DEF ImageReq
    <3> QED BY <1>1, <2>2, <2>5, <3>1 DEF Finalised
  <2> QED BY <2>1, <2>3, <2>4, <2>5
<1>6. ASSUME AnsweredWith(x, "ImageDestroy", 204) PROVE ImageRemoved(req[g].image)'
  <2>1. /\ x.image = r.image
        /\ \/ AnsweredWith(r, "ImageDestroy", 204)
           \/ r.pc = "rmupload" /\ uploads[r.image] # "absent" /\ uploads'[r.image] = "absent"
    <3>1. CASE Orphan(r, x)
      BY <1>6, <3>1 DEF Orphan, AnsweredWith, ScriptPc, CtxPc, DetachedPc, Idle, New
    <3> QED BY <1>2, <1>6, <3>1, ImageEdge
  <2>2. CASE AnsweredWith(r, "ImageDestroy", 204)
    BY <1>0, <2>1, <2>2, ImageFactsLast DEF AnswerReq
  <2>3. CASE r.pc = "rmupload" /\ uploads[r.image] # "absent" /\ uploads'[r.image] = "absent"
    <3> DEFINE i == r.image
    <3>1. i \in ImageId /\ i \in Nat /\ i <= imageSeq /\ images[i] = "none"
      BY <1>0, <2>3 DEF Shape, Fits, AnswerReq, ImageId
    <3>2. images'[i] = "none"
      BY <1>1, <3>1, NextData DEF DataFlow
    <3>3. ASSUME NEW f \in Proc, req'[f].pc = "mkvol" PROVE req'[f].image # i
      <4>1. CASE req[f].pc = "mkvol" /\ req'[f].image = req[f].image
        BY <2>3, <4>1 DEF AnswerInv, AnswerReq
      <4>2. CASE req'[f].image = imageSeq + 1
        BY <1>1, <3>1, <4>2
      <4> QED BY <3>3, <4>1, <4>2, NextVolumes
    <3> QED BY <1>1, <2>1, <2>3, <3>1, <3>2, <3>3 DEF ImageRemoved, NoVolume
  <2> QED BY <2>1, <2>2, <2>3
<1>7. ASSUME x.pc = "mkvol" PROVE x.image <= imageSeq' /\ uploads'[x.image] = "absent"
  <2>1. x.image \in ImageId /\ x.image \in Nat
    BY <1>0, <1>7 DEF Shape, Fits, ImageId
  <2>2. CASE r.pc = "mkvol" /\ x.image = r.image
    <3>1. uploads[x.image] = "absent" /\ x.image <= imageSeq
      BY <1>0, <2>2 DEF AnswerReq
    <3>2. \A h \in Proc : req[h].pc = "mkvol" /\ req[h].image = x.image => h = g
      BY <2>2 DEF AnswerInv, VolumesDistinct
    <3>3. uploads'[x.image] = "absent"
      BY <1>7, <2>1, <3>1, <3>2, NextData DEF DataFlow
    <3> QED BY <1>1, <2>1, <3>1, <3>3
  <2>3. CASE x.image = imageSeq + 1 /\ imageSeq' = imageSeq + 1
    <3>1. uploads[x.image] = "absent"
      BY <1>1, <2>1, <2>3 DEF AnswerInv
    <3>2. \A h \in Proc : req[h].pc = "mkvol" => req[h].image # x.image
      BY <1>1, <2>3 DEF AnswerInv, AnswerReq
    <3>3. uploads'[x.image] = "absent"
      BY <2>1, <3>1, <3>2, NextData DEF DataFlow
    <3> QED BY <1>1, <2>3, <3>3
  <2> QED BY <1>7, <2>2, <2>3, NextVolumes
<1>8. ASSUME x.pc \in {"rmsnap", "rmupload"}
      PROVE  x.image <= imageSeq' /\ images'[x.image] = "none"
  <2>1. /\ x.image = r.image
        /\ r.pc \in {"rmsnap", "rmupload"} \/ images'[r.image] = "none"
    <3>1. CASE Orphan(r, x)
      BY <1>8, <3>1 DEF Orphan, Same, Idle, New
    <3> QED BY <1>2, <1>8, <3>1, ImageEdge
  <2>2. x.image \in ImageId /\ x.image \in Nat
    BY <1>0, <1>8 DEF Shape, Fits, ImageId
  <2>3. r.pc \in {"rmsnap", "rmupload"} => images'[x.image] = "none"
    BY <1>0, <1>1, <2>1, <2>2, NextData DEF AnswerReq, DataFlow
  <2> QED BY <1>0, <1>8, <2>1, <2>3
<1> QED BY <1>3, <1>4, <1>5, <1>6, <1>7, <1>8 DEF AnswerReq

LEMMA StepAnswer ==
    ASSUME TypeInv, ImageInv, InstanceInv, AnswerInv, [Next]_vars
    PROVE  AnswerInv'
<1>1. CASE UNCHANGED vars
  BY <1>1 DEF vars, disk, tables, imageTable, instanceTable, AnswerInv, AnswerReq, Settled,
              AnsweredWith, Made, NoClone, Uploaded, Finalised, ImageRemoved, NoVolume,
              VolumesDistinct
<1>2. CASE Next
  <2>1. imageSeq \in Nat /\ imageSeq' \in Nat /\ imageSeq <= imageSeq'
    BY <1>2, NextTypes, NextData, StoreAssumption DEF TypeInv, TypeOK, StoreTypeOK, DataFlow
  <2>2. \A h \in Proc : AnswerReq(req[h])'
    BY <1>2, StepAnswerReq
  <2>3. ASSUME NEW i \in ImageId, uploads'[i] # "absent" PROVE i <= imageSeq'
    <3>1. i \in Nat
      BY DEF ImageId
    <3>2. i <= imageSeq
      BY <1>2, <2>3, NextData DEF DataFlow, AnswerInv, AnswerReq
    <3> QED BY <2>1, <3>1, <3>2
  <2>4. ASSUME NEW g \in Proc, NEW h \in Proc, g # h,
               req'[g].pc = "mkvol", req'[h].pc = "mkvol"
        PROVE  req'[g].image # req'[h].image
    <3>1. \A f \in Proc : req[f].pc = "mkvol" => req[f].image <= imageSeq /\ req[f].image \in Nat
      BY ReqTyped DEF AnswerInv, AnswerReq, Shape, Fits, ImageId
    <3>2. CASE Crash
      <4>1. \A f \in Proc : req'[f].pc = "mkvol"
                              => req[f].pc = "mkvol" /\ req'[f].image = req[f].image
        BY <3>2, CrashFlow DEF Orphan, Same, Idle, New
      <4> QED BY <2>4, <4>1 DEF AnswerInv, VolumesDistinct
    <3>3. CASE ~Crash
      <4>1. PICK f \in Proc : Only(f)
        BY <1>2, <3>3, NextOnly
      <4>2. req'[g] = req[g] \/ req'[h] = req[h]
        BY <2>4, <4>1 DEF Only
      <4> QED BY <1>2, <2>1, <2>4, <3>1, <4>2, NextVolumes DEF AnswerInv, VolumesDistinct
    <3> QED BY <3>2, <3>3
  <2> QED BY <2>2, <2>3, <2>4 DEF AnswerInv, VolumesDistinct
<1> QED BY <1>1, <1>2

LEMMA InitAnswer == Init => AnswerInv
BY DEF Init, StoreInit, AnswerInv, AnswerReq, Settled, AnsweredWith, VolumesDistinct, Idle, New

LEMMA AnswersRight == Spec => []AnswerInv
BY InitAnswer, StepAnswer, Typed, ImagesRight, InstancesRight, PTL DEF Spec

(* What holds of an id holds for good: a finished clone is never made      *)
(* anew, an instance or image that is gone does not come back, an upload   *)
(* stays as long as its row, and an image that is ready does not become    *)
(* unready.                                                                *)
FactsLast ==
    /\ \A n \in InstanceId : (Made(n) => Made(n)') /\ (Removed(n) => Removed(n)')
    /\ \A i \in ImageId : /\ Uploaded(i) => Uploaded(i)'
                          /\ Finalised(i) => Finalised(i)'
                          /\ ImageRemoved(i) => ImageRemoved(i)'

(* No step of a handler, a script or the cleaner, and no crash, undoes     *)
(* what a client was told: the ids of the rows, from which the scripts     *)
(* make the names of the directories, are not handed out twice.            *)
THEOREM NothingComesBack == Spec => [][FactsLast]_vars
<1>1. TypeInv /\ AnswerInv /\ [Next]_vars => [FactsLast]_vars
  BY InstanceFactsLast, ImageFactsLast DEF FactsLast
<1> QED BY <1>1, Typed, AnswersRight, PTL DEF Spec

(* Only a request starts a handler: the cleaner serves none. *)
LEMMA IdleStarts ==
    ASSUME NEW h \in Proc, req[h].pc = "idle", ImageStep(h) \/ InstanceStep(h)
    PROVE  h \in Handler
BY DEF ImageStep, ImageCreate, CreateBtrfsSubvolume, ImageDone, BootImage, MarkStarted,
       SealImage, SnapshotImage, ImageMarkReady, ImageDestroy, ListInstances, NextInstance,
       ImageDeleteRow, RemoveSnapshot, RemoveUpload,
       InstanceStep, InstanceCreate, ChoosePort, InsertRow, CloneSnapshot, WriteCerts,
       StartPostgres, ValidateAndRestart, InstanceGet, RetrieveInstanceCredentials,
       WhitelistAddress, ApplyWhitelist, InstanceDestroy, StopPostgres, RemoveDir, DeleteRow,
       At, Accepts

LEMMA OpEdge ==
    ASSUME NEW r, NEW x, Edge(r, x), r.pc # "idle"
    PROVE  x = Idle \/ (x.op = r.op /\ x.user = r.user /\ x.image = r.image)
BY DEF Edge, Fails, Moved, Answers, Same, Advances, PortChosen, RowInserted

-----------------------------------------------------------------------------
(***************************************************************************)
(* Serving.  As long as nothing fails, a Create that is past its INSERT    *)
(* has its instance to itself but for those who destroy it: at each label  *)
(* the directory and the server are what its own script made of them, or   *)
(* the instance is doomed (its row gone, or about to go), or a destroyer   *)
(* that stopped the server is about to remove the directory.               *)
(***************************************************************************)
Building(r) ==
    /\ r.op = "Create"
    /\ \/ r.pc \in {"clone", "certs", "boot", "validate", "creds", "whitelist", "apply"}
       \/ r.pc = "reply" /\ r.status = 201

Removing(n) == \E h \in Proc : req[h].pc = "rmdir" /\ req[h].inst = n
Doomed(n) == instances[n] = NoRow \/ DeletionDue(n)

Progress(r) ==
    \/ r.pc = "clone"
    \/ Doomed(r.inst)
    \/ /\ dirs[r.inst] = IF r.pc = "certs" THEN "bare" ELSE "certs"
       /\ \/ r.pc \in {"certs", "boot"}
          \/ Removing(r.inst)
          \/ pg[r.inst] = r.port

(* Images.Destroy deletes the row before it stops and removes anything. *)
ServingReq(r) ==
    /\ r.parent = "waiting"
    /\ \A t \in r.todo : t[1] <= instanceSeq
    /\ r.op = "ImageDestroy" /\ r.pc \in {"stop", "rmdir", "delrow"} => r.inst <= instanceSeq
    /\ r.op = "ImageDestroy" /\ r.pc \in {"stop", "rmdir"} => instances[r.inst] = NoRow
    /\ Building(r) => /\ r.inst \in InstanceId /\ r.inst <= instanceSeq
                      /\ instances[r.inst] # NoRow => instances[r.inst].port = r.port
                      /\ Progress(r)

BuildsDistinct ==
    \A g, h \in Proc : g # h /\ Building(req[g]) /\ Building(req[h])
                           => req[g].inst # req[h].inst

ServingInv == faults = 0 => BuildsDistinct /\ \A h \in Proc : ServingReq(req[h])

(* What a step does to an instance whose builder it does not move. *)
Steady(n) ==
    /\ Doomed(n) => Doomed(n)'
    /\ dirs[n] # "absent" =>
         \/ Doomed(n)'
         \/ dirs'[n] = dirs[n] /\ (Removing(n)' \/ (~Removing(n) /\ pg'[n] = pg[n]))

LEMMA AwaySteady ==
    ASSUME NEW h \in Proc, Only(h), req[h].pc \notin {"rmdir", "delrow"}, NEW n \in InstanceId,
           instances'[n] = instances[n], dirs'[n] = dirs[n], pg'[n] = pg[n]
    PROVE  Steady(n)
<1>1. Removing(n) => Removing(n)'
  BY DEF Only, Removing
<1>2. DeletionDue(n) => DeletionDue(n)'
  BY DEF Only, DeletionDue
<1> QED BY <1>1, <1>2 DEF Steady, Doomed

LEMMA StopSteady ==
    ASSUME TypeInv, NEW h \in Proc, StopPostgres(h), NEW n \in InstanceId
    PROVE  Steady(n)
<1>1. Only(h) /\ Moved(req[h], req'[h], "rmdir") /\ req[h].pc = "stop"
  BY GotoFlow DEF StopPostgres
<1>2. UNCHANGED <<instances, dirs>>
  BY DEF StopPostgres, tables, instanceTable
<1>3. CASE n = req[h].inst
  <2>1. Removing(n)'
    BY <1>1, <1>3 DEF Removing, Moved, Same
  <2>2. DeletionDue(n) => DeletionDue(n)'
    BY <1>1 DEF Only, DeletionDue
  <2> QED BY <1>2, <2>1, <2>2 DEF Steady, Doomed
<1>4. CASE n # req[h].inst
  <2>1. pg'[n] = pg[n]
    BY <1>4 DEF StopPostgres, TypeInv, TypeOK
  <2> QED BY <1>1, <1>2, <2>1, AwaySteady
<1> QED BY <1>3, <1>4

LEMMA RemoveSteady ==
    ASSUME TypeInv, NEW h \in Proc, RemoveDir(h), ServingReq(req[h]), NEW n \in InstanceId
    PROVE  Steady(n)
<1>1. /\ req[h].pc = "rmdir"
      /\ UNCHANGED <<instances, pg>>
      /\ \A m \in InstanceId : m # req[h].inst => dirs'[m] = dirs[m]
  BY DEF RemoveDir, tables, instanceTable, TypeInv, TypeOK
<1>2. Only(h)
  BY InstanceStepFlow DEF InstanceStep
<1>3. DeletionDue(n) => DeletionDue(n)'
  BY <1>1, <1>2 DEF Only, DeletionDue
<1>4. CASE n # req[h].inst
  <2>1. Removing(n) => Removing(n)'
    BY <1>2, <1>4 DEF Only, Removing
  <2> QED BY <1>1, <1>3, <1>4, <2>1 DEF Steady, Doomed
<1>5. CASE n = req[h].inst /\ dirs[n] = "absent"
  BY <1>1, <1>3, <1>5 DEF Steady, Doomed
<1>6. CASE n = req[h].inst /\ dirs[n] # "absent"
  <2>1. CASE req[h].op = "ImageDestroy"
    BY <1>1, <1>6, <2>1 DEF Steady, Doomed, ServingReq
  <2>2. CASE req[h].op # "ImageDestroy"
    <3>1. ScriptGoto(h, "delrow")
      BY <1>6, <2>2 DEF RemoveDir
    <3>2. Moved(req[h], req'[h], "delrow")
      BY <3>1, ScriptGotoFlow DEF ServingReq
    <3>3. DeletionDue(n)'
      BY <1>6, <3>2 DEF DeletionDue, Moved, Same
    <3> QED BY <3>3 DEF Steady, Doomed
  <2> QED BY <2>1, <2>2
<1> QED BY <1>4, <1>5, <1>6

LEMMA DeleteSteady ==
    ASSUME TypeInv, NEW h \in Proc, DeleteRow(h), NEW n \in InstanceId
    PROVE  Steady(n)
<1>1. /\ req[h].pc = "delrow"
      /\ UNCHANGED <<dirs, pg>>
      /\ n # req[h].inst => instances'[n] = instances[n]
      /\ n = req[h].inst => instances'[n] = NoRow
  BY DEF DeleteRow, DeleteInstance, disk, TypeInv, TypeOK, StoreTypeOK
<1>2. Only(h)
  BY InstanceStepFlow DEF InstanceStep
<1>3. CASE n # req[h].inst
  <2>1. Removing(n) => Removing(n)'
    BY <1>2, <1>3 DEF Only, Removing
  <2>2. DeletionDue(n) => DeletionDue(n)'
    BY <1>2, <1>3 DEF Only, DeletionDue
  <2> QED BY <1>1, <1>3, <2>1, <2>2 DEF Steady, Doomed
<1>4. CASE n = req[h].inst
  BY <1>1, <1>4 DEF Steady, Doomed
<1> QED BY <1>3, <1>4

(* The steps that build, and those that touch no instance. *)
LEMMA BuildSteady ==
    ASSUME TypeInv, NEW h \in Proc, InstanceStep(h), NEW n \in InstanceId, n <= instanceSeq,
           Building(req[h]) => req[h].inst # n \/ req[h].pc \in {"creds", "whitelist", "apply"},
           ~StopPostgres(h), ~RemoveDir(h), ~DeleteRow(h)
    PROVE  Steady(n)
<1>1. Only(h)
  BY InstanceStepFlow
<1>2. req[h].pc \notin {"rmdir", "delrow"}
  BY DEF InstanceStep, InstanceCreate, ChoosePort, InsertRow, CloneSnapshot, WriteCerts,
         StartPostgres, ValidateAndRestart, InstanceGet, RetrieveInstanceCredentials,
         WhitelistAddress, ApplyWhitelist, InstanceDestroy, At, Accepts
<1>3. /\ CloneSnapshot(h) \/ WriteCerts(h) \/ StartPostgres(h) \/ ValidateAndRestart(h)
           => Building(req[h]) /\ req[h].inst # n
  BY ReqTyped
  DEF CloneSnapshot, WriteCerts, StartPostgres, ValidateAndRestart, Building, Shape, Fits
<1>4. instances'[n] = instances[n]
  <2>1. CASE InsertRow(h)
    BY <2>1, StoreAssumption
    DEF InsertRow, InsertInstance, instanceTable, InstanceId, TypeInv, TypeOK, StoreTypeOK
  <2> QED BY <2>1, InstanceStepWrites
<1>5. dirs'[n] = dirs[n]
  <2>1. CASE CloneSnapshot(h) \/ WriteCerts(h)
    BY <1>3, <2>1 DEF CloneSnapshot, WriteCerts, TypeInv, TypeOK
  <2> QED BY <2>1, InstanceStepWrites
<1>6. pg'[n] = pg[n]
  <2>1. CASE StartPostgres(h) \/ ValidateAndRestart(h)
    BY <1>3, <2>1 DEF StartPostgres, ValidateAndRestart, TypeInv, TypeOK
  <2> QED BY <2>1, InstanceStepWrites
<1> QED BY <1>1, <1>2, <1>4, <1>5, <1>6, AwaySteady
(* A step of one process, without a fault. *)
Turn(h) == ImageStep(h) \/ InstanceStep(h) \/ Finish(h) \/ (h = Cleaner /\ CleanerStep)

LEMMA TurnFlow ==
    ASSUME TypeInv, NEW h \in Proc, Turn(h)
    PROVE  Only(h) /\ Edge(req[h], req'[h])
BY ImageStepFlow, InstanceStepFlow, OtherFlow DEF Turn

LEMMA TurnSteady ==
    ASSUME TypeInv, NEW h \in Proc, Turn(h), faults \in Nat, faults' = faults, ServingReq(req[h]),
           NEW n \in InstanceId, n <= instanceSeq,
           Building(req[h]) => req[h].inst # n \/ req[h].pc \in {"creds", "whitelist", "apply"}
    PROVE  Steady(n)
<1>1. CASE ImageStep(h)
  <2>1. req[h].pc \notin {"rmdir", "delrow"}
    BY <1>1
    DEF ImageStep, ImageCreate, CreateBtrfsSubvolume, ImageDone, BootImage, MarkStarted,
        SealImage, SnapshotImage, ImageMarkReady, ImageDestroy, ListInstances, NextInstance,
        ImageDeleteRow, RemoveSnapshot, RemoveUpload, At, Accepts
  <2> QED BY <1>1, <2>1, TurnFlow, ImageStepWrites, AwaySteady
<1>2. CASE InstanceStep(h)
  <2>1. CASE StopPostgres(h)
    BY <2>1, StopSteady
  <2>2. CASE RemoveDir(h)
    BY <2>2, RemoveSteady
  <2>3. CASE DeleteRow(h)
    BY <2>3, DeleteSteady
  <2> QED BY <1>2, <2>1, <2>2, <2>3, BuildSteady
<1>3. CASE Finish(h) \/ (h = Cleaner /\ CleanerStep)
  <2>1. req[h].pc \notin {"rmdir", "delrow"}
    BY <1>3 DEF Finish, CleanerStep, Clean, CheckToken, CleanEnd, At
  <2>2. UNCHANGED <<instances, dirs, pg>>
    BY <1>3
    DEF Finish, CleanerStep, Clean, CheckToken, CleanEnd, tables, instanceTable, disk
  <2> QED BY <2>1, <2>2, TurnFlow, AwaySteady
<1> QED BY <1>1, <1>2, <1>3 DEF Turn

(* At a label of a script, the step is that of the script. *)
LEMMA TurnAt ==
    ASSUME NEW h \in Proc, Turn(h)
    PROVE  /\ req[h].pc = "insert" => InsertRow(h)
           /\ req[h].pc = "clone" => CloneSnapshot(h)
           /\ req[h].pc = "certs" => WriteCerts(h)
           /\ req[h].pc = "boot" => StartPostgres(h)
           /\ req[h].pc = "validate" => ValidateAndRestart(h)
BY DEF Turn, ImageStep, ImageCreate, CreateBtrfsSubvolume, ImageDone, BootImage, MarkStarted,
       SealImage, SnapshotImage, ImageMarkReady, ImageDestroy, ListInstances, NextInstance,
       ImageDeleteRow, RemoveSnapshot, RemoveUpload,
       InstanceStep, InstanceCreate, ChoosePort, InsertRow, CloneSnapshot, WriteCerts,
       StartPostgres, ValidateAndRestart, InstanceGet, RetrieveInstanceCredentials,
       WhitelistAddress, ApplyWhitelist, InstanceDestroy, StopPostgres, RemoveDir, DeleteRow,
       Finish, CleanerStep, Clean, CheckToken, CleanEnd, At, Accepts

LEMMA ProgressKept ==
    ASSUME NEW g \in Proc, req[g].inst \in InstanceId, Progress(req[g]), Steady(req[g].inst),
           req'[g].inst = req[g].inst, req'[g].port = req[g].port,
           \/ req'[g].pc = req[g].pc
           \/ {req[g].pc, req'[g].pc} \subseteq {"creds", "whitelist", "apply", "reply"}
    PROVE  Progress(req[g])'
<1>1. PICK n \in InstanceId : n = req[g].inst
  OBVIOUS
<1>2. Steady(n) /\ req'[g].inst = n
  BY <1>1
<1>3. CASE req[g].pc = "clone"
  BY <1>3 DEF Progress
<1>4. CASE Doomed(n)'
  BY <1>2, <1>4 DEF Progress, Doomed, DeletionDue
<1>5. CASE req[g].pc # "clone" /\ ~Doomed(n)'
  <2>1. /\ dirs[n] = IF req[g].pc = "certs" THEN "bare" ELSE "certs"
        /\ req[g].pc \in {"certs", "boot"} \/ Removing(n) \/ pg[n] = req[g].port
    BY <1>1, <1>2, <1>5 DEF Progress, Steady
  <2>2. dirs'[n] = dirs[n] /\ (Removing(n)' \/ (~Removing(n) /\ pg'[n] = pg[n]))
    BY <1>2, <1>5, <2>1 DEF Steady
  <2>3. Removing(n)' => Removing(req[g].inst)'
    BY <1>2 DEF Removing
  <2> QED BY <1>2, <2>1, <2>2, <2>3 DEF Progress
<1> QED BY <1>3, <1>4, <1>5

(* How a Create gets to be building, and goes on. *)
LEMMA BuildEdge ==
    ASSUME NEW r, NEW x, Edge(r, x), Building(x), faults \in Nat, faults' = faults
    PROVE  \/ RowInserted(r, x)
           \/ /\ Building(r) /\ x.inst = r.inst /\ x.port = r.port
              /\ \/ r.pc = "clone" /\ x.pc = "certs"
                 \/ r.pc = "certs" /\ x.pc = "boot"
                 \/ r.pc = "boot" /\ x.pc = "validate"
                 \/ r.pc = "validate" /\ x.pc = "creds"
                 \/ /\ r.pc \in {"creds", "whitelist", "apply"}
                    /\ x.pc \in {"whitelist", "apply", "reply"}
BY DEF Edge, Fresh, Fails, Moved, Flow, Answers, Result, Same, Advances, PortChosen,
       Idle, New, Building, Aborted

(* The builder's own step. *)
LEMMA TurnProgress ==
    ASSUME TypeInv, NEW h \in Proc, Turn(h), faults \in Nat, faults' = faults,
           ServingReq(req[h]), Building(req'[h])
    PROVE  /\ req'[h].inst \in InstanceId /\ req'[h].inst <= instanceSeq'
           /\ instances'[req'[h].inst] # NoRow
                => instances'[req'[h].inst].port = req'[h].port
           /\ Progress(req[h])'
<1> DEFINE r == req[h]
<1>0. /\ r \in Request /\ Shape(r) /\ instanceSeq \in Nat /\ instanceSeq' \in Nat
      /\ instanceSeq <= instanceSeq'
      /\ instances \in [InstanceId -> InstanceRow \cup {NoRow}]
      /\ dirs \in [InstanceId -> DirState] /\ pg \in [InstanceId -> Port \cup {0}]
  <2>1. Next
    BY DEF Turn, Next
  <2> QED BY <2>1, ReqTyped, NextTypes, NextData, StoreAssumption
          DEF TypeInv, TypeOK, StoreTypeOK, DataFlow
<1>1. Edge(r, req'[h])
  BY TurnFlow
<1>2. CASE RowInserted(r, req'[h])
  <2>1. InsertRow(h) /\ req'[h].pc = "clone" /\ req'[h].port = r.port
    BY <1>2, TurnAt DEF RowInserted
  <2>2. ImageExists(r.image)
    <3>1. ASSUME Reply(h, Aborted) PROVE FALSE
      BY <2>1, <3>1, ReplyFlow DEF Answers
    <3> QED BY <2>1, <3>1 DEF InsertRow
  <2>3. PICK n \in InstanceId : InsertInstance(n, r.image, r.port, r.user)
    BY <2>1, <2>2 DEF InsertRow
  <2>4. n = req'[h].inst /\ n = instanceSeq'
    BY <1>2, <2>3 DEF RowInserted, InsertInstance
  <2>5. instances'[n].port = r.port
    BY <1>0, <2>3 DEF InsertInstance
  <2> QED BY <1>0, <2>1, <2>4, <2>5 DEF Progress
<1>3. ASSUME Building(r), req'[h].inst = r.inst, req'[h].port = r.port, r.pc # "insert"
      PROVE  /\ r.inst \in InstanceId /\ r.inst <= instanceSeq /\ r.inst <= instanceSeq'
             /\ instances'[r.inst] # NoRow => instances'[r.inst].port = r.port
             /\ Progress(r)
  <2>1. /\ r.inst \in InstanceId /\ r.inst <= instanceSeq
        /\ instances[r.inst] # NoRow => instances[r.inst].port = r.port
        /\ Progress(r)
    BY <1>3 DEF ServingReq
  <2>2. r.inst \in Nat
    BY <2>1 DEF InstanceId
  <2>3. instances'[r.inst] # NoRow => instances'[r.inst] = instances[r.inst]
    <3>1. Next
      BY DEF Turn, Next
    <3> QED BY <1>0, <2>1, <2>2, <3>1, NextData DEF DataFlow
  <2> QED BY <1>0, <2>1, <2>2, <2>3
<1>4. ASSUME r.pc \in {"clone", "certs", "boot", "validate"}, Building(r),
             req'[h].inst = r.inst, req'[h].port = r.port,
             req'[h].pc = CASE r.pc = "clone" -> "certs" [] r.pc = "certs" -> "boot"
                            [] r.pc = "boot" -> "validate" [] r.pc = "validate" -> "creds"
      PROVE  Progress(req[h])'
  <2>1. PICK n \in InstanceId : n = r.inst
    BY <1>3, <1>4
  <2>2. req'[h].inst = n /\ r.op = "Create" /\ Only(h) /\ UNCHANGED instances
    BY <1>4, <2>1, TurnFlow, TurnAt
    DEF Building, CloneSnapshot, WriteCerts, StartPostgres, ValidateAndRestart, tables,
        instanceTable
  <2>3. ~ScriptFail(h)
    BY <1>4, <2>2, ScriptFailFlow DEF GivesUp, Fails, Idle, New
  <2>4. Doomed(n) => Doomed(req[h].inst)'
    <3>1. DeletionDue(n) => DeletionDue(n)'
      BY <1>4, <2>2 DEF DeletionDue, Only
    <3> QED BY <2>2, <3>1 DEF Doomed, DeletionDue
  <2>5. CASE r.pc = "clone"
    <3>1. dirs'[n] = "bare"
      BY <1>0, <2>1, <2>3, <2>5, TurnAt DEF CloneSnapshot
    <3> QED BY <1>4, <2>2, <2>5, <3>1 DEF Progress
  <2>6. CASE r.pc = "certs"
    <3>1. dirs'[n] = "certs"
      BY <1>0, <2>1, <2>3, <2>6, TurnAt DEF WriteCerts
    <3> QED BY <1>4, <2>2, <2>6, <3>1 DEF Progress
  <2>7. CASE r.pc = "boot"
    <3>1. pg'[n] = r.port /\ dirs'[n] = dirs[n]
      BY <1>0, <2>1, <2>3, <2>7, TurnAt DEF StartPostgres
    <3>2. Doomed(n) \/ dirs[n] = "certs"
      BY <1>3, <1>4, <2>1, <2>7 DEF Progress
    <3> QED BY <1>4, <2>2, <2>4, <2>7, <3>1, <3>2 DEF Progress
  <2>8. CASE r.pc = "validate"
    <3>1. pg'[n] = pg[n] /\ dirs'[n] = dirs[n]
      BY <1>0, <2>1, <2>3, <2>8, TurnAt DEF ValidateAndRestart
    <3>2. Doomed(n) \/ (dirs[n] = "certs" /\ (Removing(n) \/ pg[n] = r.port))
      BY <1>3, <1>4, <2>1, <2>8 DEF Progress
    <3>3. Removing(n) => Removing(req[h].inst)'
      <4>1. Removing(n) => Removing(n)'
        BY <2>2, <2>8 DEF Removing, Only
      <4> QED BY <2>2, <4>1 DEF Removing
    <3> QED BY <1>4, <2>2, <2>4, <2>8, <3>1, <3>2, <3>3 DEF Progress
  <2> QED BY <1>4, <2>5, <2>6, <2>7, <2>8
<1>5. ASSUME r.pc \in {"creds", "whitelist", "apply"}, Building(r),
             req'[h].inst = r.inst, req'[h].port = r.port,
             req'[h].pc \in {"whitelist", "apply", "reply"}
      PROVE  Progress(req[h])'
  <2>1. Steady(r.inst)
    BY <1>3, <1>5, TurnSteady
  <2> QED BY <1>3, <1>5, <2>1, ProgressKept
<1>6. CASE ~RowInserted(r, req'[h])
  <2>1. Building(r) /\ req'[h].inst = r.inst /\ req'[h].port = r.port
    BY <1>1, <1>6, BuildEdge
  <2>2. r.pc # "insert"
    BY <2>1 DEF Building
  <2>3. Progress(req[h])'
    BY <1>1, <1>4, <1>5, <1>6, BuildEdge
  <2> QED BY <1>3, <2>1, <2>2, <2>3
<1> QED BY <1>2, <1>6
LEMMA ListedEdge ==
    ASSUME NEW r, NEW x, Edge(r, x), faults \in Nat, faults' = faults
    PROVE  /\ r.parent = "waiting" => x.parent = "waiting"
           /\ x.todo \subseteq r.todo \cup InstanceList
           /\ x.op = "ImageDestroy" /\ x.pc \in {"stop", "rmdir", "delrow"}
                => \/ /\ r.op = "ImageDestroy" /\ r.pc \in {"stop", "rmdir", "delrow"}
                      /\ x.inst = r.inst
                   \/ x.pc = "delrow" /\ \E t \in r.todo : x.inst = t[1]
           /\ x.op = "ImageDestroy" /\ x.pc \in {"stop", "rmdir"}
                => \/ r.op = "ImageDestroy" /\ r.pc \in {"stop", "rmdir"} /\ x.inst = r.inst
                   \/ instances'[x.inst] = NoRow
<1>1. Idle.todo = {} /\ Idle.parent = "waiting" /\ Idle.op = "none"
  BY DEF Idle, New
<1>2. CASE r.pc = "idle" /\ Fresh(x)
  BY <1>2 DEF Fresh
<1>3. CASE x = Idle
  BY <1>1, <1>3
<1>4. CASE Fails(r, x)
  BY <1>4 DEF Fails, Same
<1>5. CASE Moved(r, x, x.pc) /\ Flow(r, x.pc)
  BY <1>5 DEF Moved, Flow, Same
<1>6. CASE Answers(r, x, x.status)
  BY <1>6 DEF Answers, Same
<1>7. CASE Advances(r, x)
  BY <1>7 DEF Advances
<1>8. CASE PortChosen(r, x) \/ RowInserted(r, x)
  BY <1>8 DEF PortChosen, RowInserted
<1> QED BY <1>2, <1>3, <1>4, <1>5, <1>6, <1>7, <1>8 DEF Edge

LEMMA TurnServing ==
    ASSUME TypeInv, InstanceInv, NEW h \in Proc, Turn(h), faults \in Nat, faults' = faults,
           BuildsDistinct, \A g \in Proc : ServingReq(req[g])
    PROVE  BuildsDistinct' /\ \A g \in Proc : ServingReq(req[g])'
<1>0. Next /\ Only(h) /\ Edge(req[h], req'[h])
  BY TurnFlow DEF Turn, Next
<1>1. /\ instanceSeq \in Nat /\ instanceSeq' \in Nat /\ instanceSeq <= instanceSeq'
      /\ \A m \in InstanceId :
            m <= instanceSeq /\ instances'[m] # NoRow => instances'[m] = instances[m]
  BY <1>0, NextTypes, NextData, StoreAssumption
  DEF TypeInv, TypeOK, StoreTypeOK, DataFlow, InstanceId
<1>2. \A t \in InstanceList : t[1] \in InstanceId /\ t[1] <= instanceSeq
  BY DEF InstanceList, InstanceInv
<1>3. \A g \in Proc : /\ req[g].todo \subseteq InstanceId \X User
                      /\ req[g].pc \in {"stop", "rmdir", "delrow"} => req[g].inst \in InstanceId
  BY ReqTyped DEF Request, Shape, Fits
<1>4. ASSUME NEW g \in Proc, g # h PROVE ServingReq(req[g])'
  <2>1. req'[g] = req[g]
    BY <1>0, <1>4 DEF Only
  <2>2. \A t \in req[g].todo : t[1] <= instanceSeq'
    BY <1>1, <1>3 DEF ServingReq, InstanceId
  <2>3. ASSUME req[g].op = "ImageDestroy", req[g].pc \in {"stop", "rmdir", "delrow"}
        PROVE  /\ req[g].inst <= instanceSeq'
               /\ req[g].pc # "delrow" => instances'[req[g].inst] = NoRow
    BY <1>1, <1>3, <2>3 DEF ServingReq, InstanceId
  <2>4. ASSUME Building(req[g])
        PROVE  /\ req[g].inst \in InstanceId /\ req[g].inst <= instanceSeq'
               /\ instances'[req[g].inst] # NoRow => instances'[req[g].inst].port = req[g].port
               /\ Progress(req[g])'
    <3>1. /\ req[g].inst \in InstanceId /\ req[g].inst \in Nat /\ req[g].inst <= instanceSeq
          /\ instances[req[g].inst] # NoRow => instances[req[g].inst].port = req[g].port
          /\ Progress(req[g])
      BY <2>4 DEF ServingReq, InstanceId
    <3>2. Building(req[h]) => req[h].inst # req[g].inst
      BY <1>4, <2>4 DEF BuildsDistinct
    <3>3. Steady(req[g].inst)
      BY <3>1, <3>2, TurnSteady
    <3>4. Progress(req[g])'
      BY <2>1, <3>1, <3>3, ProgressKept
    <3> QED BY <1>1, <3>1, <3>4
  <2>5. req[g].parent = "waiting"
    BY DEF ServingReq
  <2>6. Building(req[g])' <=> Building(req[g])
    BY <2>1 DEF Building
  <2> QED BY <2>1, <2>2, <2>3, <2>4, <2>5, <2>6 DEF ServingReq
<1>5. ServingReq(req[h])'
  <2>1. /\ req'[h].parent = "waiting"
        /\ req'[h].todo \subseteq req[h].todo \cup InstanceList
    BY <1>0, ListedEdge DEF ServingReq
  <2>2. \A t \in req'[h].todo : t[1] <= instanceSeq'
    BY <1>1, <1>2, <1>3, <2>1 DEF ServingReq, InstanceId
  <2>3. ASSUME req'[h].op = "ImageDestroy", req'[h].pc \in {"stop", "rmdir", "delrow"}
        PROVE  req'[h].inst \in Nat /\ req'[h].inst <= instanceSeq
    BY <1>0, <1>3, <2>3, ListedEdge DEF ServingReq, InstanceId
  <2>4. ASSUME req'[h].op = "ImageDestroy", req'[h].pc \in {"stop", "rmdir"}
        PROVE  instances'[req'[h].inst] = NoRow
    BY <1>0, <1>1, <1>3, <2>4, ListedEdge DEF ServingReq
  <2>5. Building(req[h])' <=> Building(req'[h])
    BY DEF Building
  <2> QED BY <1>1, <2>1, <2>2, <2>3, <2>4, <2>5, TurnProgress DEF ServingReq
<1>6. BuildsDistinct'
  <2>1. \A g \in Proc : Building(req[g]) => req[g].inst \in Nat /\ req[g].inst <= instanceSeq
    BY DEF ServingReq, InstanceId
  <2>2. Building(req'[h]) => \/ req'[h].inst = instanceSeq + 1
                             \/ Building(req[h]) /\ req'[h].inst = req[h].inst
    BY <1>0, BuildEdge DEF RowInserted
  <2>3. ASSUME NEW g \in Proc, g # h, Building(req[g]), Building(req'[h])
        PROVE  req'[h].inst # req[g].inst
    BY <1>1, <2>1, <2>2, <2>3 DEF BuildsDistinct
  <2>4. ASSUME NEW f \in Proc, NEW g \in Proc, f # g, Building(req'[f]), Building(req'[g])
        PROVE  req'[f].inst # req'[g].inst
    BY <1>0, <2>3, <2>4 DEF Only, BuildsDistinct
  <2> QED BY <2>4 DEF BuildsDistinct, Building
<1> QED BY <1>4, <1>5, <1>6

LEMMA StepServing ==
    ASSUME TypeInv, InstanceInv, ServingInv, [Next]_vars
    PROVE  ServingInv'
<1>1. CASE UNCHANGED vars
  BY <1>1 DEF vars, disk, tables, instanceTable, ServingInv, ServingReq, BuildsDistinct,
              Building, Progress, Doomed, DeletionDue, Removing
<1>2. CASE Next
  <2>0. faults \in Nat
    BY LifecycleAssumption DEF TypeInv, TypeOK
  <2>1. CASE faults' = faults + 1
    BY <2>0, <2>1 DEF ServingInv
  <2>2. CASE faults' # faults + 1 /\ \E h \in Proc : Turn(h)
    <3>1. PICK h \in Proc : Turn(h)
      BY <2>2
    <3>2. faults' = faults
      BY <2>2, <3>1, ImageStepWrites, InstanceStepWrites, OtherWrites DEF Turn
    <3> QED BY <2>0, <3>1, <3>2, TurnServing DEF ServingInv
  <2>3. CASE \E u \in User : Revoke(u)
    BY <2>3 DEF Revoke, disk, tables, instanceTable, ServingInv, ServingReq, BuildsDistinct,
                Building, Progress, Doomed, DeletionDue, Removing
  <2>4. CASE Fault
    BY <2>1, <2>4
    DEF Fault, ScriptFault, StatementFault, Unacknowledged, CreateUnacknowledged,
        TruncatedList, Disconnect, Crash
  <2> QED BY <1>2, <2>1, <2>2, <2>3, <2>4 DEF Next, Turn, Proc
<1> QED BY <1>1, <1>2

LEMMA InitServing == Init => ServingInv
BY DEF Init, StoreInit, ServingInv, ServingReq, BuildsDistinct, Building, Idle, New

LEMMA ServingRight == Spec => []ServingInv
BY InitServing, StepServing, Typed, InstancesRight, PTL DEF Spec

LEMMA ServedByInvariant == TypeInv /\ ServingInv => CreatedIsServing
<1> SUFFICES ASSUME TypeInv, ServingInv, NEW h \in Handler,
                    At(h, "Create", "reply"), req[h].status = 201, faults = 0
             PROVE  LET n == req[h].inst
                    IN  \/ /\ instances[n] # NoRow /\ dirs[n] = "certs"
                           /\ pg[n] = instances[n].port
                        \/ instances[n] = NoRow
                        \/ Destroyers(n) # {}
  BY DEF CreatedIsServing
<1> DEFINE n == req[h].inst
<1>1. h \in Proc /\ req[h].pc = "reply" /\ Building(req[h])
  BY DEF Proc, At, Building
<1>2. Progress(req[h]) /\ (instances[n] # NoRow => instances[n].port = req[h].port)
  BY <1>1 DEF ServingInv, ServingReq
<1>3. DeletionDue(n) \/ Removing(n) => Destroyers(n) # {}
  BY ReqTyped DEF DeletionDue, Removing, Destroyers, Shape, Fits
<1> QED BY <1>1, <1>2, <1>3 DEF Progress, Doomed

(* Until something fails, a client that is told 201 by Instances.Create    *)
(* has an instance whose own PostgreSQL listens on the port of its row, or *)
(* one that somebody destroys: draupnir-create-instance is not disturbed   *)
(* by the other handlers, their scripts and the cleaner, for any number of *)
(* them.                                                                   *)
THEOREM CreatedServes == Spec => []CreatedIsServing
BY ServedByInvariant, Typed, ServingRight, PTL
=============================================================================
